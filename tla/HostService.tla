---------------------------- MODULE HostService ----------------------------
(* The host runtime service (crates/runtime/src/service.rs) over the durable *)
(* store and one driver.                                                     *)
(*                                                                           *)
(* A mutating call of any kind has one shape: take the single-flight gate of *)
(* its operation ID, prepare the operation in the store, call the driver     *)
(* outside the store's mutex, complete or fail the operation in the store,   *)
(* and acknowledge the driver's replay record.  A state query reads the      *)
(* driver outside the mutex and commits the observation afterwards.  Calls   *)
(* of several clients interleave at those boundaries; the host can die at    *)
(* any of them, and a durable handler can be cut short after any write.      *)
(* Clients retry as they like.                                               *)
EXTENDS DurableStore

CONSTANTS Callers,      \* concurrent calls the host serves
          After,        \* a client sends o only once every After[o] is decided
          MaxFaults     \* crashes, I/O errors and lost replies in one behaviour

ASSUME ServiceAssumption ==
    /\ After \in [Operations -> SUBSET Operations]
    /\ MaxFaults \in Nat

VARIABLES
    disk,       \* the state root
    host,       \* "down", "opening" (startup recovery) or "up"
    pending,    \* containers startup recovery has still to visit
    call,       \* what each caller is doing
    machine,    \* driver: the resources of each container generation
    replay,     \* driver: what it would answer to a repeated operation ID
    executed,   \* how often the driver carried out each operation
    faults      \* faults so far

vars == <<disk, host, pending, call, machine, replay, executed, faults>>

driverVars == <<machine, replay, executed>>

MachineStates == Observations \cup {"none", "deleted"}

\* The driver's answer: the state it observed, or a terminal error.
Replies == Observations \cup {"deleted", "refused"}

\* No replay record, a recorded answer, or one the host has released.
ReplayRecords == Replies \cup {"none", "released"}

Idle == [stage |-> "idle", op |-> NoOperation, container |-> NoOperation,
         generation |-> 0, reply |-> "none"]

OperationCalls ==
    [stage : {"dispatch", "settle", "ack"}, op : Operations, container : {NoOperation},
     generation : {0}, reply : Replies \cup {"none"}]

StateCalls ==
    [stage : {"observe"}, op : {NoOperation}, container : Containers,
     generation : Generations, reply : Observations]

TypeOK ==
    /\ disk \in Disks
    /\ host \in {"down", "opening", "up"}
    /\ pending \subseteq Containers
    /\ call \in [Callers -> {Idle} \cup OperationCalls \cup StateCalls]
    /\ machine \in [Containers -> [1 .. MaxGeneration -> MachineStates]]
    /\ replay \in [Operations -> ReplayRecords]
    /\ executed \in [Operations -> Nat]
    /\ faults \in 0 .. MaxFaults

Init ==
    /\ disk = EmptyDisk
    /\ host = "up"
    /\ pending = {}
    /\ call = [k \in Callers |-> Idle]
    /\ machine = [c \in Containers |-> [g \in 1 .. MaxGeneration |-> "none"]]
    /\ replay = [o \in Operations |-> "none"]
    /\ executed = [o \in Operations |-> 0]
    /\ faults = 0

-----------------------------------------------------------------------------
(* What the steps share.                                                     *)

OperationCall(stage, o, reply) ==
    [stage |-> stage, op |-> o, container |-> NoOperation, generation |-> 0, reply |-> reply]

\* One more fault, if the budget allows it.
Fault ==
    /\ faults < MaxFaults
    /\ faults' = faults + 1

NoFault == UNCHANGED faults

Return(k) == call' = [call EXCEPT ![k] = Idle]

\* Mutant: no single flight.
GateIsAlwaysFree(o) == TRUE

\* The single-flight gate of an operation ID is free (OperationGates::acquire).
GateIsFree(o) == \A k \in Callers : call[k].op # o

\* A handler of the store has ended with result r, for the call of k on o.
Handled(k, o, r) ==
    /\ disk' = r.disk
    /\ CASE r.next = "torn" -> Fault /\ Return(k)
         [] r.next \in {"error", "observed"} -> NoFault /\ Return(k)
         [] OTHER -> NoFault /\ call' = [call EXCEPT ![k] = OperationCall(r.next, o, "none")]

-----------------------------------------------------------------------------
(* A mutating call.                                                          *)

\* The client sends o, for the first time or again; the service takes the gate
\* and runs the prepare handler.
Submit(k, o) ==
    /\ host = "up"
    /\ call[k] = Idle
    /\ GateIsFree(o)
    /\ \A p \in After[o] : IsDecided(Outcome(disk, p))
    /\ \E r \in Prepare(disk, o) : Handled(k, o, r)
    /\ UNCHANGED <<host, pending, machine, replay, executed>>

(* The driver (external): idempotent by operation ID.  Effect is what an     *)
(* operation of each kind can make of a generation; an empty set means that  *)
(* the driver can only refuse.                                               *)
Effect(kind, state) ==
    CASE kind = "create" -> IF state = "none" THEN {"created"} ELSE {}
      [] kind = "start" -> IF state = "created" THEN {"running", "stopped"} ELSE {}
      [] kind = "kill" -> IF state \in Observations THEN {state, "stopped"} ELSE {}
      [] kind = "pause" -> IF IsRunning(state) THEN {"paused"} ELSE {}
      [] kind = "resume" -> IF IsRunning(state) THEN {"running"} ELSE {}
      [] kind = "update" -> IF state \in Observations \ {"stopped"} THEN {state} ELSE {}
      [] kind = "delete" -> {"deleted"}

\* The answer reaches the service, or it sees a retryable error instead.
Answered(k, o, reply) ==
    \/ NoFault /\ call' = [call EXCEPT ![k] = OperationCall("settle", o, reply)]
    \/ Fault /\ Return(k)

\* A repeated operation ID is answered from the driver's replay record.
DriverReplays(k, o) ==
    /\ replay[o] \in Replies
    /\ Answered(k, o, replay[o])
    /\ UNCHANGED driverVars

\* Any other is carried out, on the generation the operation is fenced to.
DriverExecutes(k, o) ==
    LET c == Target[o]
        g == disk.journal[o].generation
    IN  /\ replay[o] \notin Replies
        /\ \E state \in Effect(Kind[o], machine[c][g]) :
              /\ machine' = [machine EXCEPT ![c][g] = state]
              /\ replay' = [replay EXCEPT ![o] = state]
              /\ executed' = [executed EXCEPT ![o] = @ + 1]
              /\ Answered(k, o, state)

\* A terminal error; the driver has left nothing behind.
DriverRefuses(k, o) ==
    /\ replay[o] \notin Replies
    /\ replay' = [replay EXCEPT ![o] = "refused"]
    /\ Answered(k, o, "refused")
    /\ UNCHANGED <<machine, executed>>

\* A retryable error before the driver did anything.
DriverUnavailable(k, o) ==
    /\ Fault
    /\ Return(k)
    /\ UNCHANGED driverVars

\* The service calls the driver for a prepared or resumed operation.
Dispatch(k) ==
    /\ host = "up"
    /\ call[k].stage = "dispatch"
    /\ LET o == call[k].op
       IN  DriverReplays(k, o) \/ DriverExecutes(k, o) \/ DriverRefuses(k, o)
             \/ DriverUnavailable(k, o)
    /\ UNCHANGED <<disk, host, pending>>

\* The service commits the answer: complete_<kind>, or fail_operation.
Settle(k) ==
    LET o == call[k].op
        reply == call[k].reply
    IN  /\ host = "up"
        /\ call[k].stage = "settle"
        /\ \E r \in IF reply = "refused" THEN FailOperation(disk, o) ELSE Complete(disk, o, reply) :
              Handled(k, o, r)
        /\ UNCHANGED <<host, pending, machine, replay, executed>>

\* acknowledge_operation: the driver may forget the operation.
Acknowledge(k) ==
    /\ host = "up"
    /\ call[k].stage = "ack"
    /\ Return(k)
    /\ \/ NoFault /\ replay' = [replay EXCEPT ![call[k].op] = "released"]
       \/ Fault /\ UNCHANGED replay
    /\ UNCHANGED <<disk, host, pending, machine, executed>>

-----------------------------------------------------------------------------
(* A state query, in two halves: the driver is read without the store mutex. *)

Query(k, c) ==
    LET g == disk.live[c].generation
    IN  /\ host = "up"
        /\ call[k] = Idle
        /\ HasRecord(disk, c)
        /\ disk.live[c].status # "creating"
        /\ machine[c][g] \in Observations
        /\ call' = [call EXCEPT ![k] =
                      [stage |-> "observe", op |-> NoOperation, container |-> c,
                       generation |-> g, reply |-> machine[c][g]]]
        /\ UNCHANGED <<disk, host, pending, machine, replay, executed, faults>>

CommitObservation(k) ==
    /\ host = "up"
    /\ call[k].stage = "observe"
    /\ \E r \in Observe(disk, call[k].container, call[k].generation, call[k].reply) :
          Handled(k, NoOperation, r)
    /\ UNCHANGED <<host, pending, machine, replay, executed>>

-----------------------------------------------------------------------------
(* The environment: processes exit, the host dies and is opened again.       *)

ProcessExits(c, g) ==
    /\ machine[c][g] \in {"created", "running", "paused"}
    /\ machine' = [machine EXCEPT ![c][g] = "stopped"]
    /\ UNCHANGED <<disk, host, pending, call, replay, executed, faults>>

Crash ==
    /\ host # "down"
    /\ Fault
    /\ host' = "down"
    /\ pending' = {}
    /\ call' = [k \in Callers |-> Idle]
    /\ UNCHANGED <<disk, machine, replay, executed>>

\* open_with_drivers: audit, enumerate, then recover each live container.  An
\* open that fails leaves the disk as it was.
CanOpen == AuditAccepts(disk) /\ ListAccepts(disk)

Open ==
    /\ host = "down"
    /\ IF CanOpen
         THEN /\ host' = "opening"
              /\ pending' = {c \in Containers : HasRecord(disk, c)}
         ELSE UNCHANGED <<host, pending>>
    /\ UNCHANGED <<disk, call, machine, replay, executed, faults>>

\* driver.recover may give an observation, except of an interrupted creation.
Recover(c) ==
    LET g == disk.live[c].generation
        seen == machine[c][g]
    IN  /\ host = "opening"
        /\ c \in pending
        /\ \/ /\ pending' = pending \ {c}
              /\ UNCHANGED <<disk, host, faults>>
           \/ /\ disk.live[c].status # "creating"
              /\ seen \in Observations
              /\ \E r \in Observe(disk, c, g, seen) :
                   /\ disk' = r.disk
                   /\ IF r.next = "observed"
                        THEN pending' = pending \ {c} /\ UNCHANGED host /\ NoFault
                        ELSE pending' = {} /\ host' = "down"
                             /\ IF r.next = "torn" THEN Fault ELSE NoFault
        /\ UNCHANGED <<call, machine, replay, executed>>

Serve ==
    /\ host = "opening"
    /\ pending = {}
    /\ host' = "up"
    /\ UNCHANGED <<disk, pending, call, machine, replay, executed, faults>>

-----------------------------------------------------------------------------
CallStep(k) == Dispatch(k) \/ Settle(k) \/ Acknowledge(k) \/ CommitObservation(k)

Next ==
    \/ \E k \in Callers, o \in Operations : Submit(k, o)
    \/ \E k \in Callers : Dispatch(k)
    \/ \E k \in Callers : Settle(k)
    \/ \E k \in Callers : Acknowledge(k)
    \/ \E k \in Callers, c \in Containers : Query(k, c)
    \/ \E k \in Callers : CommitObservation(k)
    \/ \E c \in Containers, g \in 1 .. MaxGeneration : ProcessExits(c, g)
    \/ Crash
    \/ Open
    \/ \E c \in Containers : Recover(c)
    \/ Serve

Spec == Init /\ [][Next]_vars

\* What keeps the system going: the service finishes the calls it has taken and
\* is restarted when it is down, and a client repeats a request until it is
\* decided.  The driver may refuse or be unavailable, but faults are finite.
Fairness ==
    /\ \A k \in Callers : WF_vars(CallStep(k))
    /\ \A o \in Operations : SF_vars(\E k \in Callers : Submit(k, o))
    /\ WF_vars(Open)
    /\ WF_vars(\E c \in Containers : Recover(c))
    /\ WF_vars(Serve)

FairSpec == Spec /\ Fairness

-----------------------------------------------------------------------------
(* Properties.                                                               *)

\* The driver carries an operation out at most once, however often clients
\* repeat it, whatever crashes, and whichever replies are lost.
EffectOnce == \A o \in Operations : executed[o] <= 1

\* A decided operation is never decided again or differently, nor moved to another
\* generation: every later retry is answered from the outcome that is stored.
OutcomeIsFinal ==
    [][\A o \in Operations :
          IsDecided(Outcome(disk, o)) => disk'.journal[o] = disk.journal[o]]_vars

\* RuntimeDriver::acknowledge_operation is only ever called for an operation
\* whose outcome is durable, so a driver that forgets it cannot be asked again.
ReleasedIsDecided ==
    /\ \A o \in Operations : replay[o] = "released" => IsDecided(Outcome(disk, o))
    /\ \A k \in Callers : call[k].stage = "dispatch" => replay[call[k].op] # "released"

\* Every claim a live record holds names an operation that can still release
\* it: a prepared one, or a failed creation, of this container and generation
\* (validate_claim of the startup audit never fails).
ClaimsAreRecoverable ==
    \A c \in Containers : HasRecord(disk, c) => ClaimIsRecoverable(disk, c)

\* Operations are fenced by allocated generations, and a generation has at most
\* one creation (audit_operation_generations never fails).
OperationsAreFenced == AuditOperations(disk)

\* A quarantined directory is the complete record its own operation claimed.
TombstonesAgree == \A o \in Operations : TombstoneAgrees(disk, o)

\* A successful outcome is durable only after its events are.
SucceededIsAnnounced ==
    \A o \in Operations : Outcome(disk, o) = "succeeded" =>
        AnnouncedBy(disk, o) \subseteq disk.events

\* The durable status never runs ahead of what the driver has done: a record
\* says created, running or stopped only of a generation that got that far.
Reached(status) ==
    CASE status = "created" -> {"created", "running", "paused", "stopped", "deleted"}
      [] IsRunning(status) -> {"running", "paused", "stopped", "deleted"}
      [] status = "stopped" -> {"stopped", "deleted"}
      [] OTHER -> MachineStates

DurableNeverAhead ==
    \A c \in Containers : HasRecord(disk, c) =>
        machine[c][disk.live[c].generation] \in Reached(disk.live[c].status)

\* A host that went down at any point can be opened again.
HostReopens == host = "down" => CanOpen

\* The live record of a container is of its last allocated generation, and no
\* generation is both live and in quarantine.
LiveGenerationIsCurrent ==
    \A c \in Containers : HasRecord(disk, c) =>
        /\ disk.live[c].generation = disk.last[c]
        /\ \A o \in Operations : Target[o] = c => TombstoneIsNotLive(disk, o)

\* While no operation holds the claim, the durable freezer flag of a running
\* container is the one the driver last set.
FreezerFlagMatches ==
    \A c \in Containers :
        LET live == disk.live[c]
        IN  IsRunning(live.status) /\ live.active = NoOperation
              => \/ machine[c][live.generation] = live.status
                 \/ ~IsRunning(machine[c][live.generation])

\* An operation whose intent is durable is decided in the end, if its client
\* keeps repeating it.
PreparedIsDecided ==
    \A o \in Operations : Outcome(disk, o) = "prepared" ~> IsDecided(Outcome(disk, o))

\* The same, but for two ways the code can lose an operation for good: the host
\* cannot open its state root because an interrupted creation left a directory
\* without a record, or the workload exited under an operation that an observed
\* exit does not complete.
Stranded == host = "down" /\ ~ListAccepts(disk)

Outlived(o) ==
    /\ Kind[o] # "delete" /\ Outcome(disk, o) = "prepared"
    /\ ~ObservationCompletes(Kind[o], "stopped")
    /\ machine[Target[o]][disk.journal[o].generation] = "stopped"

PreparedIsDecidedOrLost ==
    \A o \in Operations :
        Outcome(disk, o) = "prepared" ~> \/ IsDecided(Outcome(disk, o))
                                         \/ Stranded
                                         \/ Outlived(o)

\* A client that waits for every answer never leads the store into a state that
\* its own startup audit rejects, whatever is cut short; a directory without a
\* record is the one exception.
StateIsAuditable == ListAccepts(disk) => AuditAccepts(disk)

\* At most one mutation of a container is with the driver.
DriverCallsAreExclusive ==
    \A k, l \in Callers :
        /\ k # l
        /\ call[k].stage = "dispatch"
        /\ call[l].stage = "dispatch"
        => Target[call[k].op] # Target[call[l].op]

-----------------------------------------------------------------------------
(* The service implements the contract of an operation ID.                   *)

Contract ==
    INSTANCE OperationContract WITH
        outcome <- [o \in Operations |-> Outcome(disk, o)],
        evidence <- [o \in Operations |-> IF replay[o] \in Replies THEN "kept" ELSE replay[o]],
        effects <- executed

\* Every step of the service and its driver, with its crashes, torn writes,
\* lost replies and repeated requests, is a step of the contract or none at all.
ImplementsContract == Contract!Spec
=============================================================================
