----------------------------- MODULE AgentDriver -----------------------------
(* The host's driver client (crates/runtime/src/agent_driver.rs) over the    *)
(* guest executor.  A write longer than one guest frame is split into chunks *)
(* with derived operation IDs, sent one after the other under the gate of    *)
(* the host's operation ID; the acknowledgement takes the same gate and      *)
(* releases every derived ID.  Calls can be cancelled at any point, and the  *)
(* client can be replaced while the guest lives on (live reattach), which    *)
(* forgets the derived IDs it had retained.                                  *)
(*                                                                           *)
(* The host service is external here: it binds an operation ID to one        *)
(* request, sends it until it has an answer, one call at a time, and         *)
(* acknowledges it only after that.                                          *)
EXTENDS GuestExecutor

CONSTANTS Requests,      \* host requests: an operation ID, a body, a chunk count
          MaxCancels     \* cancelled calls and client replacements

\* What a request to the guest asks for, of which generation and process.
Kinds == {"create", "start", "kill", "kill_all", "delete", "delete_stopped", "pause", "resume",
          "update", "file", "exec", "signal", "resize", "write", "close"}

Bodies == [kind : Kinds, gen : Generations, proc : Procs, data : Nat]

\* Only a write is ever split, into at most MaxChunks parts; an absent entry is
\* no entry.
ASSUME RequestsAssumption ==
    /\ Requests \subseteq [op : HostOps, body : Bodies, chunks : 1 .. MaxChunks]
    /\ \A q \in Requests : q.chunks > 1 => q.body.kind = "write"
    /\ Nothing \notin Requests \cup Bodies \cup GuestIds \cup Tasks
    /\ Nothing \notin [gen : Generations, status : {"created", "running", "stopped"},
                      paused : BOOLEAN, execs : SUBSET Execs]
    /\ Nothing \notin [body : Bodies, outcome : {"ok", "error"}]
    /\ Nothing \notin [ticket : Int, result : {"none", "ok", "error"}]

VARIABLES
    host,       \* what the host has recorded of each of its operations
    client,     \* what each driver call is doing
    gate,       \* AcknowledgementGates: holder of each operation's gate
    retained,   \* guest_operation_ids: derived IDs by host operation
    reattached, \* the client was replaced at least once
    cancels

driverVars == <<host, client, gate, retained, reattached, cancels>>

agentVars == <<guestVars, driverVars>>

IdleClient == [stage |-> "idle", request |-> Nothing, op |-> Nothing, index |-> 0, ids |-> {}]

AgentInit ==
    /\ GuestInit
    /\ host = [p \in HostOps |-> [status |-> "new", request |-> Nothing]]
    /\ client = [c \in Tasks |-> IdleClient]
    /\ gate = [p \in HostOps |-> Nothing]
    /\ retained = [p \in HostOps |-> {}]
    /\ reattached = FALSE
    /\ cancels = 0

-----------------------------------------------------------------------------
\* The guest operations a request becomes.
ChunkIds(q) == IF q.chunks > 1 THEN {<<q.op, i>> : i \in 1 .. q.chunks} ELSE {<<q.op, 0>>}

GuestId(q, i) == IF q.chunks > 1 THEN <<q.op, i>> ELSE <<q.op, 0>>

\* Each chunk carries its own slice of the data.
Message(q, i) ==
    [stage |-> "sent", id |-> GuestId(q, i), body |-> [q.body EXCEPT !.data = i],
     reply |-> "none"]

Decided == {"succeeded", "failed", "acked"}

Running(p) == \E c \in Tasks : client[c].stage \in {"gate", "call"} /\ client[c].op = p

\* The host service dispatches an undecided operation, one owner at a time.
Begin(c, q) ==
    /\ client[c].stage = "idle"
    /\ \/ host[q.op].status = "new"
       \/ host[q.op].status = "sent" /\ host[q.op].request = q /\ ~Running(q.op)
    /\ host' = [host EXCEPT ![q.op] = [status |-> "sent", request |-> q]]
    /\ IF q.body.kind = "write"
       THEN /\ client' = [client EXCEPT ![c] = [IdleClient EXCEPT !.stage = "gate",
                                                !.request = q, !.op = q.op]]
            /\ UNCHANGED call
       ELSE /\ client' = [client EXCEPT ![c] = [IdleClient EXCEPT !.stage = "call",
                                                !.request = q, !.op = q.op, !.index = 1]]
            /\ call' = [call EXCEPT ![c] = Message(q, 1)]
    /\ UNCHANGED <<operations, pending, lock, box, highest, live, stdio, job, shutdown,
                   applied, guestFaults, gate, retained, reattached, cancels>>

\* write_stdin under its gate: retain the derived IDs, then send the first chunk.
WriteStdin(c) ==
    /\ client[c].stage = "gate" /\ gate[client[c].op] = Nothing
    /\ LET q == client[c].request IN
       /\ gate' = [gate EXCEPT ![q.op] = c]
       /\ IF q.chunks > 1 /\ retained[q.op] \notin {{}, ChunkIds(q)}
          THEN /\ call' = [call EXCEPT ![c] = [Message(q, 1) EXCEPT !.stage = "replied",
                                               !.reply = "error"]]
               /\ UNCHANGED retained
          ELSE /\ call' = [call EXCEPT ![c] = Message(q, 1)]
               /\ retained' = IF q.chunks > 1 THEN [retained EXCEPT ![q.op] = ChunkIds(q)]
                                              ELSE retained
    /\ client' = [client EXCEPT ![c].stage = "call", ![c].index = 1]
    /\ UNCHANGED <<operations, pending, lock, box, highest, live, stdio, job, shutdown,
                   applied, guestFaults, host, reattached, cancels>>

Release(c) == gate' = [p \in HostOps |-> IF gate[p] = c THEN Nothing ELSE gate[p]]

\* Mutant: only the answer to the last chunk counts.
ReceiveLast(c) ==
    /\ client[c].stage = "call" /\ call[c].stage = "replied"
    /\ LET q == client[c].request
           i == client[c].index
       IN  IF i < q.chunks
           THEN /\ call' = [call EXCEPT ![c] = Message(q, i + 1)]
                /\ client' = [client EXCEPT ![c].index = i + 1]
                /\ UNCHANGED <<gate, host>>
           ELSE /\ call' = [call EXCEPT ![c] = IdleCall]
                /\ client' = [client EXCEPT ![c] = IdleClient]
                /\ Release(c)
                /\ host' = [host EXCEPT ![q.op].status =
                                            IF call[c].reply = "ok" THEN "succeeded" ELSE "failed"]
    /\ UNCHANGED <<operations, pending, lock, box, highest, live, stdio, job, shutdown,
                   applied, guestFaults, retained, reattached, cancels>>

\* A chunk was answered: send the next one, or return and let the host decide.
Receive(c) ==
    /\ client[c].stage = "call" /\ call[c].stage = "replied"
    /\ LET q == client[c].request
           i == client[c].index
       IN  IF call[c].reply = "ok" /\ i < q.chunks
           THEN /\ call' = [call EXCEPT ![c] = Message(q, i + 1)]
                /\ client' = [client EXCEPT ![c].index = i + 1]
                /\ UNCHANGED <<gate, host>>
           ELSE /\ call' = [call EXCEPT ![c] = IdleCall]
                /\ client' = [client EXCEPT ![c] = IdleClient]
                /\ Release(c)
                /\ host' = [host EXCEPT ![q.op].status =
                                            IF call[c].reply = "ok" THEN "succeeded" ELSE "failed"]
    /\ UNCHANGED <<operations, pending, lock, box, highest, live, stdio, job, shutdown,
                   applied, guestFaults, retained, reattached, cancels>>

-----------------------------------------------------------------------------
\* The host releases a decided operation; it may do so more than once.
BeginAcknowledge(c, p) ==
    /\ client[c].stage = "idle" /\ host[p].status \in Decided
    /\ client' = [client EXCEPT ![c] = [IdleClient EXCEPT !.stage = "ack_gate", !.op = p]]
    /\ UNCHANGED <<guestVars, host, gate, retained, reattached, cancels>>

\* Mutant: the derived IDs are not looked up.
AcknowledgeOwnId(c) ==
    /\ client[c].stage = "ack_gate" /\ gate[client[c].op] = Nothing
    /\ LET p == client[c].op IN
       /\ gate' = [gate EXCEPT ![p] = c]
       /\ client' = [client EXCEPT ![c].stage = "ack_call", ![c].ids = {<<p, 0>>}]
    /\ UNCHANGED <<guestVars, host, retained, reattached, cancels>>

\* Under the gate, the derived IDs are read but not yet dropped.
AcknowledgeOperation(c) ==
    /\ client[c].stage = "ack_gate" /\ gate[client[c].op] = Nothing
    /\ LET p == client[c].op IN
       /\ gate' = [gate EXCEPT ![p] = c]
       /\ client' = [client EXCEPT ![c].stage = "ack_call",
                     ![c].ids = IF retained[p] = {} THEN {<<p, 0>>} ELSE retained[p]]
    /\ UNCHANGED <<guestVars, host, retained, reattached, cancels>>

\* The guest forgets all of them, or refuses while one is pending.
GuestAcknowledge(c) ==
    /\ client[c].stage = "ack_call" /\ Free
    /\ IF Acknowledged(client[c].ids)
       THEN /\ Forget(client[c].ids)
            /\ client' = [client EXCEPT ![c].stage = "ack_done"]
            /\ UNCHANGED gate
       ELSE /\ UNCHANGED operations
            /\ client' = [client EXCEPT ![c] = IdleClient]
            /\ Release(c)
    /\ UNCHANGED <<pending, lock, box, highest, live, stdio, job, call, shutdown, applied,
                   guestFaults, host, retained, reattached, cancels>>

\* Only then does the client drop the derived IDs, if they are still the same.
FinishAcknowledge(c) ==
    /\ client[c].stage = "ack_done"
    /\ LET p == client[c].op IN
       /\ retained' = IF retained[p] = client[c].ids THEN [retained EXCEPT ![p] = {}] ELSE retained
       /\ host' = [host EXCEPT ![p].status = "acked"]
    /\ client' = [client EXCEPT ![c] = IdleClient]
    /\ Release(c)
    /\ UNCHANGED <<guestVars, reattached, cancels>>

-----------------------------------------------------------------------------
\* The call's future is dropped: its gate opens, its waiter is gone, and what
\* the guest has claimed runs on.
Cancel(c) ==
    /\ client[c].stage # "idle" /\ cancels < MaxCancels
    /\ cancels' = cancels + 1
    /\ call' = [call EXCEPT ![c] = IdleCall]
    /\ client' = [client EXCEPT ![c] = IdleClient]
    /\ Release(c)
    /\ UNCHANGED <<operations, pending, lock, box, highest, live, stdio, job, shutdown,
                   applied, guestFaults, host, retained, reattached>>

\* A new client for the same live guest starts with no derived IDs.
Reattach ==
    /\ cancels < MaxCancels
    /\ cancels' = cancels + 1
    /\ reattached' = TRUE
    /\ call' = [c \in Tasks |-> IdleCall]
    /\ client' = [c \in Tasks |-> IdleClient]
    /\ gate' = [p \in HostOps |-> Nothing]
    /\ retained' = [p \in HostOps |-> {}]
    /\ UNCHANGED <<operations, pending, lock, box, highest, live, stdio, job, shutdown,
                   applied, guestFaults, host>>

DriverStep ==
    \E c \in Tasks : WriteStdin(c) \/ Receive(c) \/ AcknowledgeOperation(c)
                     \/ GuestAcknowledge(c) \/ FinishAcknowledge(c)

HostStep ==
    \/ \E c \in Tasks, q \in Requests : Begin(c, q)
    \/ \E c \in Tasks, p \in HostOps : BeginAcknowledge(c, p)

AgentNext ==
    \/ ExecutorStep /\ UNCHANGED driverVars
    \/ GuestEnvironment /\ UNCHANGED driverVars
    \/ DriverStep
    \/ HostStep
    \/ \E c \in Tasks : Cancel(c)
    \/ Reattach

AgentSpec == AgentInit /\ [][AgentNext]_agentVars
-----------------------------------------------------------------------------
(* Properties.                                                               *)

\* What the guest remembers of an operation: the recorded outcome, the result
\* of an input job that has run but is not recorded yet, or nothing.
Memory ==
    [g \in GuestIds |->
        IF operations[g] # Nothing THEN operations[g].outcome
        ELSE IF job[g] # Nothing /\ job[g].result # "none" THEN job[g].result
        ELSE IF applied[g] > 0 THEN "released" ELSE "none"]

Contract == INSTANCE ReplayContract WITH Ids <- GuestIds, memory <- Memory, runs <- applied

\* The driver keeps the contract the host service is built on: whatever is
\* cancelled, retried, joined, split or reattached, the guest carries out each
\* operation ID once, its outcome does not change, and it is not carried out
\* again after it was acknowledged.
DriverKeepsContract == Contract!Spec

\* The input a process receives from one write is a prefix of its chunks, in
\* order and without repetition, and all of them once the host was told that
\* the write succeeded (write_stdin splitting, retries and replay).
InputIsExact ==
    \A q \in Requests : q = host[q.op].request /\ q.body.kind = "write" =>
        LET fed == stdio[StdioOf(q.body)].fed
            mine == {a \in DOMAIN fed : fed[a][1] = q.op}
        IN  /\ \A a \in mine : \E i \in 1 .. q.chunks :
                  /\ fed[a] = GuestId(q, i)
                  /\ i > 1 => \E b \in mine : b < a /\ fed[b] = GuestId(q, i - 1)
            /\ \A a, b \in mine : fed[a] = fed[b] => a = b
            /\ host[q.op].status = "succeeded" =>
                  \A i \in 1 .. q.chunks : \E a \in mine : fed[a] = GuestId(q, i)

\* An acknowledged operation leaves nothing in the guest's bounded journal,
\* neither under its own ID nor under a derived one, unless the client that
\* knew the derived IDs was replaced in between (acknowledge_operation).
AcknowledgedLeavesNothing ==
    \A p \in HostOps : host[p].status = "acked" /\ ~reattached =>
        \A i \in 0 .. MaxChunks : operations[<<p, i>>] = Nothing /\ pending[<<p, i>>] = Nothing

\* No process runs outside the executor's books: every process of the kernel
\* belongs to the registered generation, and none survives a delete or a
\* shutdown that reported success, whichever single step failed on the way.
NoOrphanProcess ==
    \/ shutdown = "failed"
    \/ live \subseteq IF box = Nothing THEN {}
                      ELSE {<<box.gen, p>> : p \in {"init"} \cup box.execs}
=============================================================================
