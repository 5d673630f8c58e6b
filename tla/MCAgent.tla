------------------------------- MODULE MCAgent -------------------------------
(* Instances of the agent driver over the guest executor.  The host uses two *)
(* operation IDs and binds them to the requests of one plan; a behaviour     *)
(* starts with an empty guest or with one running container.                 *)
EXTENDS AgentDriver, TLC

CONSTANTS op1, op2, t1, t2

Ask(op, kind, gen, proc, chunks) ==
    [op |-> op, body |-> [kind |-> kind, gen |-> gen, proc |-> proc, data |-> 0],
     chunks |-> chunks]

EmptyPlans ==
    {{Ask(op1, "create", 1, "init", 1), Ask(op2, "delete", 1, "init", 1)},
     {Ask(op1, "create", 1, "init", 1), Ask(op2, "start", 1, "init", 1)}}

RunningPlans ==
    {{Ask(op1, "write", 1, "init", 2), Ask(op2, "close", 1, "init", 1)},
     {Ask(op1, "exec", 1, "e1", 1), Ask(op2, "delete", 1, "init", 1)},
     {Ask(op1, "exec", 1, "e1", 1), Ask(op2, "kill_all", 1, "init", 1)},
     {Ask(op1, "exec", 1, "e1", 1), Ask(op2, "pause", 1, "init", 1)},
     {Ask(op1, "create", 2, "init", 1), Ask(op2, "delete", 1, "init", 1)},
     {Ask(op1, "signal", 1, "init", 1), Ask(op2, "resize", 1, "init", 1)},
     {Ask(op1, "update", 1, "init", 1), Ask(op2, "kill", 1, "init", 1)},
     {Ask(op1, "file", 1, "init", 1), Ask(op2, "delete_stopped", 1, "init", 1)}}

MCRequests == UNION (EmptyPlans \cup RunningPlans)

MCTasks == {t1, t2}
MCSymmetry == Permutations(MCTasks)

\* A guest in which generation 1 runs, made under IDs acknowledged long ago.
RunningInit ==
    /\ operations = [g \in GuestIds |-> Nothing]
    /\ pending = [g \in GuestIds |-> Nothing]
    /\ lock = Nothing
    /\ box = [gen |-> 1, status |-> "running", paused |-> FALSE, execs |-> {}]
    /\ highest = 1
    /\ live = {<<1, "init">>}
    /\ stdio = [k \in Generations \X Procs |-> NewStdio]
    /\ job = [g \in GuestIds |-> Nothing]
    /\ call = [t \in Tasks |-> IdleCall]
    /\ shutdown = "none"
    /\ applied = [g \in GuestIds |-> 0]
    /\ guestFaults = 0
    /\ host = [p \in HostOps |-> [status |-> "new", request |-> Nothing]]
    /\ client = [c \in Tasks |-> IdleClient]
    /\ gate = [p \in HostOps |-> Nothing]
    /\ retained = [p \in HostOps |-> {}]
    /\ reattached = FALSE
    /\ cancels = 0

Asked == {host[p].request : p \in HostOps} \ {Nothing}

\* One plan a behaviour; the shutdown takes part in those that delete.
OnePlan ==
    /\ \E plan \in IF highest = 0 THEN EmptyPlans ELSE EmptyPlans \cup RunningPlans :
           Asked' \subseteq plan
    /\ shutdown' # "none" => \E q \in Asked : q.body.kind = "delete"

MCAgentSpec == (AgentInit \/ RunningInit) /\ [][AgentNext /\ OnePlan]_agentVars
=============================================================================
