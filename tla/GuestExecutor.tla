---------------------------- MODULE GuestExecutor ----------------------------
(* The Linux guest executor (crates/agent/src/executor): its operation       *)
(* journal, the lifecycle of one container ID across generations, exec       *)
(* processes, the ordered stdin of each process, and executor shutdown.      *)
(*                                                                           *)
(* Every mutation takes the state mutex and consults the journal.  A         *)
(* recorded operation is replayed, a pending one is joined, a new one is     *)
(* claimed.  The claim of a lifecycle mutation moves the mutex guard into a  *)
(* detached task, so the caller may go away while the task runs; a stdin     *)
(* mutation reserves its place in the input stream under the mutex and runs  *)
(* without it.  Either way the outcome is recorded and handed to whoever     *)
(* still waits.  Deadlines, spawn failures, and failures to stop, freeze or  *)
(* clean up are faults, at most MaxGuestFaults of them.                      *)
EXTENDS Integers, Sequences, FiniteSets

CONSTANTS HostOps,          \* operation IDs the host uses
          MaxChunks,        \* parts of one stdin write
          Tasks,            \* calls in progress at the same time
          Execs,            \* exec process IDs
          Generations,      \* generations of the container ID
          MaxRecords,       \* MAX_OPERATION_RECORDS
          MaxGuestFaults,   \* faults in one behaviour
          Nothing           \* an absent entry

ASSUME GuestAssumption ==
    /\ MaxChunks \in Nat /\ MaxRecords \in Nat /\ MaxGuestFaults \in Nat
    /\ Generations \subseteq Nat \ {0}
    /\ "init" \notin Execs

VARIABLES
    operations,     \* journal: recorded body and outcome by operation ID
    pending,        \* journal: claimed body by operation ID
    lock,           \* operation whose detached task owns the state guard, if any
    box,            \* the container record
    highest,        \* highest_generations of the container ID
    live,           \* processes the kernel runs, by generation and process ID
    stdio,          \* input side of each process
    job,            \* detached stdin operations
    call,           \* calls in progress
    shutdown,       \* the one destructive shutdown
    applied,        \* how often each operation ID was carried out
    guestFaults

guestVars == <<operations, pending, lock, box, highest, live, stdio, job, call,
               shutdown, applied, guestFaults>>

-----------------------------------------------------------------------------
\* Operation IDs as the guest sees them: the host's own ID, or the ID the
\* driver derives for one chunk of a long write.
GuestIds == HostOps \X (0 .. MaxChunks)

Procs == {"init"} \cup Execs

StdinKinds == {"write", "close"}
SyncKinds == {"signal", "resize"}

IdleCall == [stage |-> "idle", id |-> Nothing, body |-> Nothing, reply |-> "none"]

NewStdio == [next |-> 0, serving |-> 0, open |-> TRUE, fed |-> <<>>]

GuestInit ==
    /\ operations = [g \in GuestIds |-> Nothing]
    /\ pending = [g \in GuestIds |-> Nothing]
    /\ lock = Nothing
    /\ box = Nothing
    /\ highest = 0
    /\ live = {}
    /\ stdio = [k \in Generations \X Procs |-> NewStdio]
    /\ job = [g \in GuestIds |-> Nothing]
    /\ call = [t \in Tasks |-> IdleCall]
    /\ shutdown = "none"
    /\ applied = [g \in GuestIds |-> 0]
    /\ guestFaults = 0

\* The state mutex is held by no detached task.
Free == lock = Nothing /\ shutdown # "running"

Recorded == {g \in GuestIds : operations[g] # Nothing}
Pending == {g \in GuestIds : pending[g] # Nothing}

-----------------------------------------------------------------------------
(* Container records.                                                        *)

Alive(gen, p) == <<gen, p>> \in live

Refresh(b) ==
    IF Alive(b.gen, "init") THEN b ELSE [b EXCEPT !.status = "stopped", !.paused = FALSE]

Holds(gen) == box # Nothing /\ box.gen = gen

\* What a handler may do: the container record, the fence and the processes it
\* leaves, whether it succeeded, and the faults it met.
Result(b, h, l, ok, cost) == [box |-> b, highest |-> h, live |-> l, ok |-> ok, cost |-> cost]
Succeeds(b, l) == Result(b, highest, l, "ok", 0)
Refuses(b) == Result(b, highest, live, "error", 0)
Faults(b, l) == Result(b, highest, l, "error", 1)

CreateNew(r) ==
    IF box # Nothing \/ r.gen <= highest \/ shutdown = "ok" THEN {Refuses(box)}
    ELSE {Result([gen |-> r.gen, status |-> "created", paused |-> FALSE, execs |-> {}],
                 r.gen, live \cup {<<r.gen, "init">>}, "ok", 0),
          Faults(box, live)}

StartNew(r) ==
    LET b == Refresh(box) IN
    IF b.status # "created" THEN {Refuses(b)}
    ELSE {Succeeds([b EXCEPT !.status = "running"], live),
          Faults([b EXCEPT !.status = "stopped"], live)}

\* A delivered SIGKILL is polled for five seconds; the process may outlast them.
KillNew(r) ==
    LET b == Refresh(box)
        hit == IF r.kind = "kill_all" THEN {k \in live : k[1] = b.gen} ELSE {<<b.gen, "init">>}
    IN  IF b.status = "stopped" THEN {Refuses(b)}
        ELSE {Succeeds([b EXCEPT !.status = "stopped", !.paused = FALSE], live \ hit),
              Succeeds(b, live)}

SetFrozen(r, frozen) ==
    LET b == Refresh(box) IN
    IF b.status # "running" THEN {Refuses(b)}
    ELSE IF b.paused = frozen THEN {Succeeds(b, live)}
    ELSE {Succeeds([b EXCEPT !.paused = frozen], live), Faults(b, live)}

UpdateResources(r) ==
    LET b == Refresh(box) IN
    IF b.status \notin {"created", "running"} THEN {Refuses(b)}
    ELSE {Succeeds(b, live), Faults(b, live)}

\* File uploads and filesystem mutations share the container check.
FileMutation(r) == UpdateResources(r)

ExecNew(r) ==
    LET b == Refresh(box) IN
    IF r.proc = "init" \/ b.status # "running" \/ b.paused \/ r.proc \in b.execs
    THEN {Refuses(b)}
    ELSE {Succeeds([b EXCEPT !.execs = @ \cup {r.proc}], live \cup {<<b.gen, r.proc>>}),
          Faults(b, live)}

\* Unfreeze, stop every exec, stop init; the first failure is reported, and
\* what was stopped before or after it stays stopped.
ForceStopAll(b) ==
    LET mine == {k \in live : k[1] = b.gen} IN
    {Succeeds([b EXCEPT !.paused = FALSE], live \ mine)}
      \cup UNION {{Faults([b EXCEPT !.paused = z], live \ gone) : gone \in SUBSET mine} :
                   z \in {FALSE, b.paused}}

\* Mutant: the record goes even when a process could not be stopped.
DeleteForgetting(r) ==
    LET b == Refresh(box) IN
    IF b.status # "stopped" /\ r.kind = "delete_stopped" THEN {Refuses(b)}
    ELSE {[s EXCEPT !.box = Nothing] : s \in ForceStopAll(b)}

DeleteNew(r) ==
    LET b == Refresh(box) IN
    IF b.status # "stopped" /\ r.kind = "delete_stopped" THEN {Refuses(b)}
    ELSE UNION {IF s.ok = "error" THEN {s}
                ELSE {Succeeds(Nothing, s.live),
                      Faults([s.box EXCEPT !.status = "stopped"], s.live)} :
                s \in ForceStopAll(b)}

SignalProcessNew(r) ==
    LET b == Refresh(box) IN
    IF \/ r.proc = "init" /\ b.status = "stopped"
       \/ r.proc # "init" /\ (r.proc \notin b.execs \/ ~Alive(b.gen, r.proc))
    THEN {Refuses(b)}
    ELSE {Succeeds(b, live), Succeeds(b, live \ {<<b.gen, r.proc>>})}

\* process_io_handle: whether the body may use the process's I/O.
IoHandle(r, b) ==
    IF r.proc = "init"
    THEN CASE r.kind = "write" -> b.status \in {"created", "running"}
           [] r.kind = "resize" -> b.status # "stopped"
           [] OTHER -> TRUE
    ELSE r.proc \in b.execs /\ (r.kind = "close" \/ Alive(b.gen, r.proc))

ResizeNew(r) ==
    LET b == Refresh(box) IN
    IF IoHandle(r, b) THEN {Succeeds(b, live), Faults(b, live)} ELSE {Refuses(b)}

\* A handler first checks its deadline and, except for create, that the exact
\* generation exists.
Handler(r) ==
    {Faults(box, live)} \cup
    IF r.kind = "create" THEN CreateNew(r)
    ELSE IF ~Holds(r.gen) THEN {Refuses(box)}
    ELSE CASE r.kind = "start" -> StartNew(r)
           [] r.kind \in {"kill", "kill_all"} -> KillNew(r)
           [] r.kind \in {"delete", "delete_stopped"} -> DeleteNew(r)
           [] r.kind = "pause" -> SetFrozen(r, TRUE)
           [] r.kind = "resume" -> SetFrozen(r, FALSE)
           [] r.kind = "update" -> UpdateResources(r)
           [] r.kind = "file" -> FileMutation(r)
           [] r.kind = "exec" -> ExecNew(r)
           [] r.kind = "signal" -> SignalProcessNew(r)
           [] r.kind = "resize" -> ResizeNew(r)

Outcomes(r) == {s \in Handler(r) : guestFaults + s.cost <= MaxGuestFaults}

Carry(s) ==
    /\ box' = s.box
    /\ highest' = s.highest
    /\ live' = s.live
    /\ guestFaults' = guestFaults + s.cost
-----------------------------------------------------------------------------
(* The operation journal.                                                    *)

Answer(t, reply) == call' = [call EXCEPT ![t].stage = "replied", ![t].reply = reply]

\* An exec resolves its session supervisor under the mutex before it looks at
\* the journal, and fails there when the container is gone.
Lookup(t) ==
    /\ call[t].stage = "sent" /\ call[t].body.kind = "exec"
    /\ Free
    /\ IF Holds(call[t].body.gen) THEN call' = [call EXCEPT ![t].stage = "admitted"]
                                  ELSE Answer(t, "error")
    /\ UNCHANGED <<operations, pending, lock, box, highest, live, stdio, job, shutdown,
                   applied, guestFaults>>

\* The call holds the mutex and consults the journal.
Admitted(t) ==
    /\ Free
    /\ call[t].stage = IF call[t].body.kind = "exec" THEN "admitted" ELSE "sent"

\* A recorded operation answers again; another request under its ID is refused.
Replay(t) ==
    /\ call[t].stage # "idle" /\ Admitted(t)
    /\ LET g == call[t].id IN
       /\ operations[g] # Nothing
       /\ Answer(t, IF operations[g].body = call[t].body THEN operations[g].outcome
                    ELSE "reused")
    /\ UNCHANGED <<operations, pending, lock, box, highest, live, stdio, job, shutdown,
                   applied, guestFaults>>

\* The same request joins the pending one; a synchronous mutation never does.
Join(t) ==
    /\ call[t].stage # "idle" /\ Admitted(t)
    /\ LET g == call[t].id IN
       /\ operations[g] = Nothing /\ pending[g] # Nothing
       /\ IF pending[g] = call[t].body /\ call[t].body.kind \notin SyncKinds
          THEN call' = [call EXCEPT ![t].stage = "waiting"]
          ELSE Answer(t, "reused")
    /\ UNCHANGED <<operations, pending, lock, box, highest, live, stdio, job, shutdown,
                   applied, guestFaults>>

JournalFull == Cardinality(Recorded) + Cardinality(Pending) >= MaxRecords

\* Mutant: a retry of a pending operation is not recognised.
UnseenIfRecorded(t) ==
    /\ call[t].stage # "idle" /\ Admitted(t)
    /\ operations[call[t].id] = Nothing

Unseen(t) ==
    /\ call[t].stage # "idle" /\ Admitted(t)
    /\ operations[call[t].id] = Nothing /\ pending[call[t].id] = Nothing

Exhausted(t) ==
    /\ Unseen(t) /\ JournalFull
    /\ Answer(t, "exhausted")
    /\ UNCHANGED <<operations, pending, lock, box, highest, live, stdio, job, shutdown,
                   applied, guestFaults>>

\* The claim installs the pending entry and keeps the guard for the task.
Claim(t) ==
    /\ Unseen(t) /\ ~JournalFull
    /\ call[t].body.kind \notin StdinKinds \cup SyncKinds
    /\ pending' = [pending EXCEPT ![call[t].id] = call[t].body]
    /\ lock' = call[t].id
    /\ call' = [call EXCEPT ![t].stage = "waiting"]
    /\ UNCHANGED <<operations, box, highest, live, stdio, job, shutdown, applied, guestFaults>>

\* Record the outcome, drop the claim and publish to everyone who waits.
Complete(g, outcome) ==
    /\ operations' = [operations EXCEPT ![g] = [body |-> pending[g], outcome |-> outcome]]
    /\ pending' = [pending EXCEPT ![g] = Nothing]
    /\ call' = [t \in Tasks |-> IF call[t].stage = "waiting" /\ call[t].id = g
                                THEN [call[t] EXCEPT !.stage = "replied", !.reply = outcome]
                                ELSE call[t]]

\* The detached owner runs the handler and releases the guard.
Run ==
    /\ lock # Nothing
    /\ \E s \in Outcomes(pending[lock]) : Carry(s) /\ Complete(lock, s.ok)
    /\ applied' = [applied EXCEPT ![lock] = @ + 1]
    /\ lock' = Nothing
    /\ UNCHANGED <<stdio, job, shutdown>>

\* Signals and resizes run and record in one critical section.
RunSync(t) ==
    /\ Unseen(t) /\ ~JournalFull
    /\ call[t].body.kind \in SyncKinds
    /\ \E s \in Outcomes(call[t].body) :
         /\ Carry(s)
         /\ operations' = [operations EXCEPT ![call[t].id] =
                              [body |-> call[t].body, outcome |-> s.ok]]
         /\ Answer(t, s.ok)
    /\ applied' = [applied EXCEPT ![call[t].id] = @ + 1]
    /\ UNCHANGED <<pending, lock, stdio, job, shutdown>>

-----------------------------------------------------------------------------
(* Stdin: places are handed out under the mutex, the writes run outside it.  *)

StdioOf(r) == <<r.gen, r.proc>>

\* Claim, and reserve the next place unless the process cannot take input (or
\* the deadline has passed): then the failed job only has to be recorded.
ClaimStdin(t) ==
    /\ Unseen(t) /\ ~JournalFull
    /\ call[t].body.kind \in StdinKinds
    /\ LET g == call[t].id
           r == call[t].body
           k == StdioOf(r)
       IN  /\ pending' = [pending EXCEPT ![g] = r]
           /\ box' = IF Holds(r.gen) THEN Refresh(box) ELSE box
           /\ \/ /\ Holds(r.gen) /\ IoHandle(r, Refresh(box))
                 /\ job' = [job EXCEPT ![g] = [ticket |-> stdio[k].next, result |-> "none"]]
                 /\ stdio' = [stdio EXCEPT ![k].next = @ + 1]
                 /\ UNCHANGED <<applied, guestFaults>>
              \/ /\ \/ ~(Holds(r.gen) /\ IoHandle(r, Refresh(box))) /\ UNCHANGED guestFaults
                    \/ guestFaults < MaxGuestFaults /\ guestFaults' = guestFaults + 1
                 /\ job' = [job EXCEPT ![g] = [ticket |-> -1, result |-> "error"]]
                 /\ applied' = [applied EXCEPT ![g] = @ + 1]
                 /\ UNCHANGED stdio
    /\ call' = [call EXCEPT ![t].stage = "waiting"]
    /\ UNCHANGED <<operations, lock, highest, live, shutdown>>

\* A job whose turn has come writes or closes and lets the next one in.  A
\* process that does not read keeps its writer waiting; a dead one breaks it.
StdinTurn(g) ==
    /\ pending[g] # Nothing /\ job[g] # Nothing /\ job[g].result = "none"
    /\ LET r == pending[g]
           k == StdioOf(r)
           io == stdio[k]
       IN  /\ io.serving = job[g].ticket
           /\ \/ /\ r.kind = "write" /\ io.open /\ k \in live
                 /\ stdio' = [stdio EXCEPT ![k].serving = @ + 1, ![k].fed = @ \o <<g>>]
                 /\ job' = [job EXCEPT ![g].result = "ok"]
              \/ /\ r.kind = "write" /\ ~(io.open /\ k \in live)
                 /\ stdio' = [stdio EXCEPT ![k].serving = @ + 1]
                 /\ job' = [job EXCEPT ![g].result = "error"]
              \/ /\ r.kind = "close"
                 /\ stdio' = [stdio EXCEPT ![k].serving = @ + 1, ![k].open = FALSE]
                 /\ job' = [job EXCEPT ![g].result = "ok"]
    /\ applied' = [applied EXCEPT ![g] = @ + 1]
    /\ UNCHANGED <<operations, pending, lock, box, highest, live, call, shutdown, guestFaults>>

\* The job takes the mutex again to record what happened.
StdinDone(g) ==
    /\ Free
    /\ job[g] # Nothing /\ job[g].result # "none"
    /\ Complete(g, job[g].result)
    /\ job' = [job EXCEPT ![g] = Nothing]
    /\ UNCHANGED <<lock, box, highest, live, stdio, shutdown, applied, guestFaults>>

-----------------------------------------------------------------------------
(* Acknowledgement, observation, process exits and shutdown.                 *)

\* acknowledge_operations: all of the list or, if any is pending, none of it.
Acknowledged(ids) == \A g \in ids : pending[g] = Nothing
Forget(ids) == operations' = [g \in GuestIds |-> IF g \in ids THEN Nothing ELSE operations[g]]

\* State, stats, inventory and wait refresh the record; a wait for init that
\* finds it gone stops the execs left behind.
Observe ==
    /\ Free /\ box # Nothing
    /\ box' = Refresh(box)
    /\ \/ UNCHANGED live
       \/ /\ box'.status = "stopped" /\ ~Alive(box.gen, "init")
          /\ live' = {k \in live : k[1] # box.gen}
    /\ <<box', live'>> # <<box, live>>
    /\ UNCHANGED <<operations, pending, lock, highest, stdio, job, call, shutdown, applied,
                   guestFaults>>

ProcessExit(k) ==
    /\ k \in live
    /\ live' = live \ {k}
    /\ UNCHANGED <<operations, pending, lock, box, highest, stdio, job, call, shutdown,
                   applied, guestFaults>>

\* The first caller moves the state guard into the one shutdown task.
ShutdownBegin ==
    /\ shutdown = "none" /\ Free
    /\ shutdown' = "running"
    /\ UNCHANGED <<operations, pending, lock, box, highest, live, stdio, job, call, applied,
                   guestFaults>>

\* shutdown_executor: stop everything, forget every record, and report success
\* (with the recovery evidence) only when nothing failed on the way.
ShutdownRun ==
    /\ shutdown = "running"
    /\ \/ /\ box = Nothing
          /\ shutdown' = "ok"
          /\ UNCHANGED <<live, guestFaults>>
       \/ /\ box # Nothing
          /\ \E s \in ForceStopAll(box) :
               /\ guestFaults + s.cost <= MaxGuestFaults
               /\ guestFaults' = guestFaults + s.cost
               /\ live' = s.live
               /\ shutdown' = IF s.ok = "ok" THEN "ok" ELSE "failed"
       \/ /\ guestFaults < MaxGuestFaults
          /\ guestFaults' = guestFaults + 1
          /\ live' = {}
          /\ shutdown' = "failed"
    /\ box' = Nothing
    /\ UNCHANGED <<operations, pending, lock, highest, stdio, job, call, applied>>

ExecutorStep ==
    \/ \E t \in Tasks : \/ Lookup(t) \/ Replay(t) \/ Join(t) \/ Exhausted(t) \/ Claim(t)
                        \/ ClaimStdin(t) \/ RunSync(t)
    \/ Run
    \/ \E g \in GuestIds : StdinTurn(g) \/ StdinDone(g)
    \/ ShutdownRun

GuestEnvironment == Observe \/ ShutdownBegin \/ \E k \in live : ProcessExit(k)
=============================================================================
