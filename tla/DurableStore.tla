---------------------------- MODULE DurableStore ----------------------------
(* The durable state store of the host runtime (crates/runtime/src/state).   *)
(*                                                                           *)
(* One disk holds, per container ID, the last allocated generation and the   *)
(* live container directory; per operation ID, the journal entry and the     *)
(* quarantine directory the operation may have moved a container into; and   *)
(* the runtime events recorded so far.  The store mutex is held through a    *)
(* whole handler, so a handler is one atomic step of the host; it is not     *)
(* one atomic step of the disk, which sees every file replacement by itself. *)
(* A handler is therefore an operator from a disk to the SET of results it   *)
(* can have: the complete one, and one for every prefix of its writes after  *)
(* which an I/O error or the death of the process can leave the disk.        *)
EXTENDS Naturals, FiniteSets, Lifecycle

CONSTANTS Containers,      \* container IDs
          Operations,      \* operation IDs; each stands for one exact request
          NoOperation,     \* no active operation
          Kind,            \* the request of an operation: its kind,
          Target,          \*   the container it names,
          Bundle,          \*   the configuration of a create (a positive number)
          Forced,          \*   the deletes whose mode is Force
          MaxGeneration    \* bound of the generation counter (u64 in the code)

Kinds == {"create", "start", "kill", "pause", "resume", "update", "delete"}

ASSUME RequestAssumption ==
    /\ NoOperation \notin Operations
    /\ Kind \in [Operations -> Kinds]
    /\ Target \in [Operations -> Containers]
    /\ Bundle \in [Operations -> Nat \ {0}]
    /\ Forced \subseteq Operations
    /\ MaxGeneration \in Nat

Outcomes == {"absent", "prepared", "succeeded", "failed"}

Generations == 0 .. MaxGeneration

\* StoredOperation: its outcome and the generation it is fenced to.
JournalEntries == [outcome : Outcomes, generation : Generations]

\* A container directory: absent, made, holding config.json, or holding the
\* record container.json (StoredContainer) as well.
Directories == [stage : {"absent", "directory", "config", "record"},
                bundle : Nat,
                generation : Generations,
                status : Statuses \cup {"none"},
                active : Operations \cup {NoOperation}]

Partial(stage, bundle) ==
    [stage |-> stage, bundle |-> bundle, generation |-> 0,
     status |-> "none", active |-> NoOperation]

NoDirectory == Partial("absent", 0)

\* A runtime event, by the deterministic identity it is claimed under.
Suffixes == {"creating", "created", "started", "stopped", "deleted",
             "pause", "resume", "resources-updated"}

Events == [owner : Containers \cup Operations, generation : Generations,
           suffix : Suffixes]

Disks == [last : [Containers -> Generations],
          journal : [Operations -> JournalEntries],
          live : [Containers -> Directories],
          quarantine : [Operations -> Directories],
          events : SUBSET Events]

EmptyDisk == [last |-> [c \in Containers |-> 0],
              journal |-> [o \in Operations |-> [outcome |-> "absent", generation |-> 0]],
              live |-> [c \in Containers |-> NoDirectory],
              quarantine |-> [o \in Operations |-> NoDirectory],
              events |-> {}]

-----------------------------------------------------------------------------
(* Results of a handler.  "torn": it returned an I/O error, or the process   *)
(* died, with the disk as the prefix left it.  "error": it returned an error *)
(* the request itself leads to.  Anything else names what the service does   *)
(* next: "dispatch" to the driver, or "ack" a decided operation.             *)

Result(d, next) == [disk |-> d, next |-> next]

\* A handler that passes through the disks of steps and ends on last.
Committed(steps, last, next) ==
    {Result(d, "torn") : d \in steps \cup {last}} \cup {Result(last, next)}

Refused(d) == {Result(d, "torn"), Result(d, "error")}

-----------------------------------------------------------------------------
(* Single durable writes.                                                    *)

Outcome(d, o) == d.journal[o].outcome

IsDecided(outcome) == outcome \in {"succeeded", "failed"}

Journaled(d, o, outcome, generation) ==
    [d EXCEPT !.journal[o] = [outcome |-> outcome, generation |-> generation]]

Decide(d, o, outcome) ==
    [d EXCEPT !.journal[o] = [outcome |-> outcome, generation |-> @.generation]]

PutLive(d, c, directory) == [d EXCEPT !.live[c] = directory]

WriteRecord(d, c, status, active) ==
    PutLive(d, c, [d.live[c] EXCEPT !.status = status, !.active = active])

Emit(d, events) == [d EXCEPT !.events = @ \cup events]

\* Mutant: the directory is copied, not renamed.
CopyToQuarantine(d, o) ==
    [d EXCEPT !.quarantine[o] = d.live[Target[o]]]

MoveToQuarantine(d, o) ==
    [d EXCEPT !.quarantine[o] = d.live[Target[o]], !.live[Target[o]] = NoDirectory]

(* Readings of the disk.                                                     *)

HasDirectory(d, c) == d.live[c].stage # "absent"

HasRecord(d, c) == d.live[c].stage = "record"

\* load_stored_exact: the live record is there and of the operation's generation.
LoadsExact(d, o) ==
    /\ HasRecord(d, Target[o])
    /\ d.live[Target[o]].generation = d.journal[o].generation

\* ensure_active_operation and claim_active_operation accept the same records:
\* the claim is free or is already this operation's.
MayOwn(d, o) == d.live[Target[o]].active \in {o, NoOperation}

Claim(d, o) == WriteRecord(d, Target[o], d.live[Target[o]].status, o)

ContainerEvent(c, generation, suffix) ==
    [owner |-> c, generation |-> generation, suffix |-> suffix]

\* The event of the operation's container and generation.
OwnEvent(d, o, suffix) ==
    ContainerEvent(Target[o], d.journal[o].generation, suffix)

\* The event a successful operation of each kind must leave (kill: see below).
AnnouncedBy(d, o) ==
    CASE Kind[o] = "create" -> {OwnEvent(d, o, "created")}
      [] Kind[o] = "start" -> {OwnEvent(d, o, "started")}
      [] Kind[o] = "kill" -> {}
      [] Kind[o] = "delete" -> {OwnEvent(d, o, "deleted")}
      [] Kind[o] = "update" ->
            {[owner |-> o, generation |-> d.journal[o].generation, suffix |-> "resources-updated"]}
      [] OTHER -> {[owner |-> o, generation |-> d.journal[o].generation, suffix |-> Kind[o]]}

-----------------------------------------------------------------------------
(* Creation: state/mod.rs prepare_create, state/creation.rs.                 *)

\* reconcile_prepared_container: the directory, then config.json, then the
\* record, each only if it is missing.
MakeDirectory(d, o) ==
    IF HasDirectory(d, Target[o]) THEN d ELSE PutLive(d, Target[o], Partial("directory", 0))

StoreConfig(d, o) ==
    IF d.live[Target[o]].stage = "directory"
      THEN PutLive(d, Target[o], Partial("config", Bundle[o]))
      ELSE d

StoreContainer(d, o) ==
    IF d.live[Target[o]].stage = "config"
      THEN PutLive(d, Target[o],
             [stage |-> "record", bundle |-> Bundle[o],
              generation |-> d.journal[o].generation, status |-> "creating", active |-> o])
      ELSE d

\* The whole of prepare_create once the journal says "prepared": rebuild the
\* container, claim it, record "creating", hand the driver the work.  What is
\* there already and is not this request's is a conflict.
ResumeCreate(d, o) ==
    LET made == MakeDirectory(d, o)
        configured == StoreConfig(made, o)
        recorded == StoreContainer(configured, o)
        claimed == Claim(recorded, o)
    IN  IF /\ configured.live[Target[o]].bundle = Bundle[o]
           /\ LoadsExact(recorded, o)
           /\ MayOwn(recorded, o)
          THEN Committed({d, made, configured, recorded, claimed},
                         Emit(claimed, {OwnEvent(d, o, "creating")}), "dispatch")
          ELSE Refused(d)

\* Mutant: the generation counter is not checked for exhaustion.
NewCreateUnbounded(d, o) ==
    LET c == Target[o]
        g == d.last[c] + 1
        allocated == [d EXCEPT !.last[c] = g]
        journaled == Journaled(allocated, o, "prepared", g)
    IN  IF HasDirectory(d, c)
          THEN Refused(d)
          ELSE {Result(d, "torn"), Result(allocated, "torn")} \cup ResumeCreate(journaled, o)

\* Mutant: the intent is journaled before its generation is allocated.
NewCreateJournalFirst(d, o) ==
    LET c == Target[o]
        g == d.last[c] + 1
        journaled == Journaled(d, o, "prepared", g)
        allocated == [journaled EXCEPT !.last[c] = g]
    IN  IF HasDirectory(d, c) \/ d.last[c] >= MaxGeneration
          THEN Refused(d)
          ELSE {Result(d, "torn"), Result(journaled, "torn")} \cup ResumeCreate(allocated, o)

\* A create whose operation ID is new: next_generation, journal, then as above.
NewCreate(d, o) ==
    LET c == Target[o]
        g == d.last[c] + 1
        allocated == [d EXCEPT !.last[c] = g]
        journaled == Journaled(allocated, o, "prepared", g)
    IN  IF HasDirectory(d, c) \/ d.last[c] >= MaxGeneration
          THEN Refused(d)
          ELSE {Result(d, "torn"), Result(allocated, "torn")} \cup ResumeCreate(journaled, o)

\* reconcile_failed_creation: the failed generation leaves the live namespace.
QuarantineFailedCreation(d, o, next) ==
    LET c == Target[o]
        free == ~HasDirectory(d, c)
        reused == /\ d.quarantine[o].stage # "absent"
                  /\ HasRecord(d, c)
                  /\ d.live[c].generation # d.journal[o].generation
        movable == /\ d.quarantine[o].stage = "absent"
                   /\ LoadsExact(d, o)
                   /\ MayOwn(d, o)
    IN  IF free \/ reused THEN Committed({d}, d, next)
        ELSE IF movable THEN Committed({d}, MoveToQuarantine(d, o), next)
        ELSE Refused(d)

\* reconcile_succeeded_<kind>: the stored response, unless a live directory of
\* the container does not load.  (Rebinding the PID in a stored response after
\* the driver has recreated the process is below this model.)
ReplaySucceeded(d, o) ==
    IF HasDirectory(d, Target[o]) /\ ~HasRecord(d, Target[o])
      THEN Refused(d)
      ELSE Committed({d}, d, "ack")

\* prepare_create.  A failed create finishes its quarantine and returns the
\* stored error; a succeeded one returns the stored response.
PrepareCreate(d, o) ==
    CASE Outcome(d, o) = "absent" -> NewCreate(d, o)
      [] Outcome(d, o) = "prepared" -> ResumeCreate(d, o)
      [] Outcome(d, o) = "succeeded" -> ReplaySucceeded(d, o)
      [] Outcome(d, o) = "failed" -> QuarantineFailedCreation(d, o, "error")

-----------------------------------------------------------------------------
(* Mutations of an existing container: start.rs, kill.rs, freezer.rs,        *)
(* update.rs.                                                                *)

\* The statuses in which a new request of each kind is accepted.
AcceptedIn(kind) ==
    CASE kind = "start" -> {"created"}
      [] kind = "kill" -> {"created", "running", "paused"}
      [] kind \in {"pause", "resume"} -> {"running", "paused"}
      [] kind = "update" -> {"created", "running", "paused"}

\* The durable statuses from which a retry of a prepared operation concludes
\* that it has already taken effect.
AlreadyDone(kind, status) ==
    CASE kind = "start" -> status \in {"running", "paused", "stopped"}
      [] kind = "kill" -> status = "stopped"
      [] kind = "pause" -> status = "paused"
      [] kind = "resume" -> status # "paused"
      [] OTHER -> FALSE

\* Mutant: the outcome is journaled before the record and the events.
FinishJournalFirst(d, o, status) ==
    LET decided == Decide(d, o, "succeeded")
        record == WriteRecord(decided, Target[o], status, NoOperation)
        announced == Emit(record, AnnouncedBy(d, o))
        stopped == IF status = "stopped" /\ Kind[o] \in {"start", "kill"}
                     THEN Emit(announced, {OwnEvent(d, o, "stopped")})
                     ELSE announced
    IN  Committed({d, decided, record, announced}, stopped, "ack")

\* The tail every completion shares: the record without the claim, the events,
\* and only then the journal.
Finish(d, o, status) ==
    LET record == WriteRecord(d, Target[o], status, NoOperation)
        announced == Emit(record, AnnouncedBy(d, o))
        stopped == IF status = "stopped" /\ Kind[o] \in {"start", "kill"}
                     THEN Emit(announced, {OwnEvent(d, o, "stopped")})
                     ELSE announced
    IN  Committed({d, record, announced, stopped}, Decide(stopped, o, "succeeded"), "ack")

\* claim_active_operation, after which the driver is called.
ClaimAndDispatch(d, o) ==
    IF MayOwn(d, o) THEN Committed({d}, Claim(d, o), "dispatch") ELSE Refused(d)

\* A new request journals its intent before it claims the record, so a request
\* that meets another operation's claim stays journaled.
NewMutation(d, o) ==
    LET c == Target[o]
        journaled == Journaled(d, o, "prepared", d.live[c].generation)
    IN  IF HasRecord(d, c) /\ d.live[c].status \in AcceptedIn(Kind[o])
          THEN {Result(d, "torn")} \cup ClaimAndDispatch(journaled, o)
          ELSE Refused(d)

ResumeMutation(d, o) ==
    LET status == d.live[Target[o]].status
    IN  IF ~LoadsExact(d, o) THEN Refused(d)
        ELSE IF AlreadyDone(Kind[o], status)
          THEN IF MayOwn(d, o) THEN Finish(d, o, status) ELSE Refused(d)
          ELSE IF Kind[o] = "start" /\ status # "created"
                 THEN Refused(d)
                 ELSE ClaimAndDispatch(d, o)

\* prepare_start, prepare_kill, prepare_freezer, prepare_update.  A succeeded
\* kill returns its stored response without a look at the live record.
PrepareMutation(d, o) ==
    CASE Outcome(d, o) = "absent" -> NewMutation(d, o)
      [] Outcome(d, o) = "prepared" -> ResumeMutation(d, o)
      [] Outcome(d, o) = "succeeded" ->
           IF Kind[o] = "kill" THEN Committed({d}, d, "ack") ELSE ReplaySucceeded(d, o)
      [] Outcome(d, o) = "failed" -> Refused(d)

\* Mutant: every kill is taken to have stopped the container.
SettledKillIsFatal(kind, status, reply) ==
    CASE kind = "create" -> "created"
      [] kind = "start" -> IF reply = "stopped" THEN "stopped" ELSE "running"
      [] kind = "kill" -> "stopped"
      [] kind \in {"pause", "resume"} -> reply
      [] OTHER -> status

\* The status a completion commits, from the durable status and the driver's
\* reply; "refused" where the handler returns an error instead.
Settled(kind, status, reply) ==
    CASE kind = "create" ->
           IF status = "creating" THEN Transition(status, "create-completed")
           ELSE IF status = "created" THEN "created" ELSE "refused"
      [] kind = "start" ->
           IF reply = "stopped"
             THEN IF status \in {"created", "running", "paused", "stopped"}
                    THEN "stopped" ELSE "refused"
             ELSE IF status = "created" THEN Transition(status, "start-completed")
             ELSE IF IsRunning(status) THEN status ELSE "refused"
      [] kind = "kill" ->
           IF reply = "stopped"
             THEN IF status = "stopped" THEN "stopped" ELSE Transition(status, "process-exited")
             ELSE IF status = reply \/ (IsRunning(status) /\ IsRunning(reply))
                    THEN status ELSE "refused"
      [] kind \in {"pause", "resume"} ->
           IF IsRunning(status) /\ reply = (IF kind = "pause" THEN "paused" ELSE "running")
             THEN reply ELSE "refused"
      [] OTHER ->
           IF status = reply /\ reply # "stopped" THEN status ELSE "refused"

\* complete_create, complete_start, complete_kill, complete_freezer,
\* complete_update.  An error here is returned to the caller as it is: nothing
\* is journaled and the claim stays.
CompleteMutation(d, o, reply) ==
    LET settled == Settled(Kind[o], d.live[Target[o]].status, reply)
    IN  CASE Outcome(d, o) = "succeeded" -> Committed({d}, d, "ack")
          [] Outcome(d, o) = "prepared" ->
               IF LoadsExact(d, o) /\ settled # "refused" /\ MayOwn(d, o)
                 THEN Finish(d, o, settled)
                 ELSE Refused(d)
          [] OTHER -> Refused(d)

-----------------------------------------------------------------------------
(* Delete: state/delete.rs.  The container directory is moved as a whole.    *)

\* append_delete_event and the journal entry, after the move.
FinishDelete(steps, d, o) ==
    LET stopped == Emit(d, {OwnEvent(d, o, "stopped")})
        deleted == Emit(stopped, AnnouncedBy(d, o))
    IN  Committed(steps \cup {d, stopped, deleted}, Decide(deleted, o, "succeeded"), "ack")

\* The generation is in quarantine, and whatever is live is not that generation.
AlreadyMoved(d, o) ==
    /\ d.quarantine[o].stage # "absent"
    /\ \/ ~HasDirectory(d, Target[o])
       \/ /\ HasRecord(d, Target[o])
          /\ d.live[Target[o]].generation # d.journal[o].generation

StillLive(d, o) ==
    /\ d.quarantine[o].stage = "absent"
    /\ LoadsExact(d, o)

NewDelete(d, o) ==
    LET c == Target[o]
        allowed == IF o \in Forced THEN Statuses \ {"creating"} ELSE {"stopped"}
        journaled == Journaled(d, o, "prepared", d.live[c].generation)
    IN  IF HasRecord(d, c) /\ d.live[c].status \in allowed
          THEN {Result(d, "torn")} \cup ClaimAndDispatch(journaled, o)
          ELSE Refused(d)

\* Mutant: a delete whose directory has moved already is not recognised.
PrepareDeleteForgetsMove(d, o) ==
    CASE Outcome(d, o) = "absent" -> NewDelete(d, o)
      [] Outcome(d, o) = "prepared" ->
           IF StillLive(d, o) THEN ClaimAndDispatch(d, o) ELSE Refused(d)
      [] Outcome(d, o) = "succeeded" -> Committed({d}, d, "ack")
      [] Outcome(d, o) = "failed" -> Refused(d)

\* prepare_delete.
PrepareDelete(d, o) ==
    CASE Outcome(d, o) = "absent" -> NewDelete(d, o)
      [] Outcome(d, o) = "prepared" ->
           IF StillLive(d, o) THEN ClaimAndDispatch(d, o)
           ELSE IF AlreadyMoved(d, o) THEN FinishDelete({d}, d, o)
           ELSE Refused(d)
      [] Outcome(d, o) = "succeeded" -> Committed({d}, d, "ack")
      [] Outcome(d, o) = "failed" -> Refused(d)

\* complete_delete.
CompleteDelete(d, o) ==
    CASE Outcome(d, o) = "succeeded" -> Committed({d}, d, "ack")
      [] Outcome(d, o) = "prepared" ->
           IF StillLive(d, o) /\ MayOwn(d, o) THEN FinishDelete({d}, MoveToQuarantine(d, o), o)
           ELSE IF AlreadyMoved(d, o) THEN FinishDelete({d}, d, o)
           ELSE Refused(d)
      [] OTHER -> Refused(d)

-----------------------------------------------------------------------------
(* A terminal driver error: state/failure.rs.  A creation journals first and *)
(* then quarantines; every other kind releases its claim and then journals.  *)

\* Mutant: the failed creation is moved before its failure is journaled.
FailCreationMovesFirst(d, o) ==
    IF d.quarantine[o].stage = "absent" /\ LoadsExact(d, o) /\ MayOwn(d, o)
      THEN LET moved == MoveToQuarantine(d, o)
           IN  Committed({d, moved}, Decide(moved, o, "failed"), "ack")
      ELSE Refused(d)

FailCreation(d, o) ==
    LET failed == Decide(d, o, "failed")
    IN  {Result(d, "torn")} \cup QuarantineFailedCreation(failed, o, "ack")

\* Mutant: the failure is journaled before the claim is released.
FailMutationJournalFirst(d, o) ==
    LET failed == Decide(d, o, "failed")
        released == WriteRecord(failed, Target[o], d.live[Target[o]].status, NoOperation)
    IN  IF LoadsExact(d, o) /\ MayOwn(d, o)
          THEN Committed({d, failed}, released, "ack")
          ELSE Refused(d)

FailMutation(d, o) ==
    LET released == WriteRecord(d, Target[o], d.live[Target[o]].status, NoOperation)
    IN  IF LoadsExact(d, o) /\ MayOwn(d, o)
          THEN Committed({d, released}, Decide(released, o, "failed"), "ack")
          ELSE Refused(d)

\* Mutant: the stored outcome is not consulted.
FailOperationBlindly(d, o) ==
    IF Kind[o] = "create" THEN FailCreation(d, o) ELSE FailMutation(d, o)

FailOperation(d, o) ==
    IF Outcome(d, o) = "prepared"
      THEN IF Kind[o] = "create" THEN FailCreation(d, o) ELSE FailMutation(d, o)
      ELSE IF Outcome(d, o) = "failed"
        THEN IF Kind[o] = "create" THEN QuarantineFailedCreation(d, o, "ack")
                                   ELSE Committed({d}, d, "ack")
        ELSE Refused(d)

\* The prepare and complete handlers of an operation, by its kind.
Prepare(d, o) ==
    CASE Kind[o] = "create" -> PrepareCreate(d, o)
      [] Kind[o] = "delete" -> PrepareDelete(d, o)
      [] OTHER -> PrepareMutation(d, o)

Complete(d, o, reply) ==
    IF Kind[o] = "delete" THEN CompleteDelete(d, o) ELSE CompleteMutation(d, o, reply)

-----------------------------------------------------------------------------
(* Observation: state/observe.rs.  What a driver reports of one generation   *)
(* is committed, and finishes the active operation it is evidence for.       *)

\* observation_completes.
ObservationCompletes(kind, seen) ==
    CASE kind = "start" -> seen \in {"running", "paused", "stopped"}
      [] kind = "kill" -> seen = "stopped"
      [] kind = "pause" -> seen = "paused"
      [] kind = "resume" -> seen = "running"
      [] OTHER -> FALSE

\* The status an observation leaves; starting says that a start holds the claim.
Reconciled(status, seen, starting) ==
    CASE seen = "stopped" ->
           IF status = "stopped" THEN "stopped" ELSE Transition(status, "process-exited")
      [] IsRunning(seen) ->
           IF IsRunning(status) \/ (status = "created" /\ starting) THEN seen ELSE "refused"
      [] OTHER -> IF status = seen THEN seen ELSE "refused"

\* validate_active_operation: the claim names a prepared operation of this record.
ClaimIsPrepared(d, c) ==
    LET o == d.live[c].active
    IN  /\ Target[o] = c
        /\ d.journal[o] = [outcome |-> "prepared", generation |-> d.live[c].generation]

\* observe_state_inner.
Observe(d, c, generation, seen) ==
    LET active == d.live[c].active
        status == d.live[c].status
        claimed == active # NoOperation
        completes == claimed /\ ObservationCompletes(Kind[active], seen)
        settled == Reconciled(status, seen, claimed /\ Kind[active] = "start")
        record == WriteRecord(d, c, settled, IF completes THEN NoOperation ELSE active)
        announced == IF completes THEN Emit(record, AnnouncedBy(d, active)) ELSE record
        stopped == IF seen = "stopped" /\ status # "stopped"
                     THEN Emit(announced, {ContainerEvent(c, generation, "stopped")})
                     ELSE announced
        last == IF completes THEN Decide(stopped, active, "succeeded") ELSE stopped
    IN  IF /\ HasRecord(d, c)
           /\ d.live[c].generation = generation
           /\ claimed => ClaimIsPrepared(d, c)
           /\ settled # "refused"
          THEN Committed({d, record, announced, stopped}, last, "observed")
          ELSE Refused(d)

-----------------------------------------------------------------------------
(* The audit of a reopened disk: state/startup_audit.rs and its submodules,  *)
(* and the enumeration the service starts its recovery with (state/list.rs). *)

IsCreation(d, o) == Kind[o] = "create" /\ Outcome(d, o) # "absent"

\* audit_operation_generations.
AuditOperations(d) ==
    /\ \A o \in Operations : Outcome(d, o) # "absent" =>
          d.journal[o].generation \in 1 .. d.last[Target[o]]
    /\ \A o, p \in Operations :
          /\ o # p
          /\ IsCreation(d, o)
          /\ IsCreation(d, p)
          /\ Target[o] = Target[p]
          => d.journal[o].generation # d.journal[p].generation

\* validate_claim, for the claim of a container record.
ClaimIsRecoverable(d, c) ==
    LET o == d.live[c].active
    IN  o # NoOperation =>
          /\ Target[o] = c
          /\ d.journal[o].generation = d.live[c].generation
          /\ \/ Outcome(d, o) = "prepared"
             \/ Kind[o] = "create" /\ Outcome(d, o) = "failed"

\* audit_container_entries.
AuditContainer(d, c) ==
    IF HasRecord(d, c)
      THEN /\ d.live[c].generation = d.last[c]
           /\ \E o \in Operations : /\ IsCreation(d, o)
                                    /\ Target[o] = c
                                    /\ d.journal[o].generation = d.live[c].generation
           /\ ClaimIsRecoverable(d, c)
      ELSE HasDirectory(d, c) =>
             \E o \in Operations : /\ IsCreation(d, o)
                                   /\ Outcome(d, o) = "prepared"
                                   /\ Target[o] = c
                                   /\ d.journal[o].generation = d.last[c]

\* audit_quarantine_entries, what it says of the entry itself ...
TombstoneAgrees(d, o) ==
    d.quarantine[o].stage # "absent" =>
      /\ \/ Kind[o] = "create" /\ Outcome(d, o) = "failed"
         \/ Kind[o] = "delete" /\ Outcome(d, o) \in {"prepared", "succeeded"}
      /\ d.quarantine[o].stage = "record"
      /\ d.quarantine[o].generation = d.journal[o].generation
      /\ d.quarantine[o].active = o

\* ... and of the live directory of the same container, which it has to load.
TombstoneIsNotLive(d, o) ==
    d.quarantine[o].stage # "absent" /\ HasDirectory(d, Target[o]) =>
      /\ HasRecord(d, Target[o])
      /\ d.live[Target[o]].generation # d.journal[o].generation

\* audit_startup_state.
AuditAccepts(d) ==
    /\ AuditOperations(d)
    /\ \A c \in Containers : AuditContainer(d, c)
    /\ \A o \in Operations : TombstoneAgrees(d, o) /\ TombstoneIsNotLive(d, o)

\* list, which the service calls before recovery: every directory must load.
ListAccepts(d) == \A c \in Containers : HasDirectory(d, c) => HasRecord(d, c)
=============================================================================
