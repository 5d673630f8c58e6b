# A TLA+ verification of the A3S OCI runtime

The runtime keeps containers alive through a host process that may die at any
moment, drivers whose replies may be lost, and clients that repeat every request
until they have an answer.  Its correctness rests on one protocol, used at every
level: a mutating request carries an operation ID, its intent is made durable,
whoever carries it out is idempotent by operation ID, the outcome is made durable,
and only then may the other side forget.  This project models that protocol from
the Rust source in the host, in the guest, in the containerd shim and in the OCI
command line, model-checks it with TLC, and proves its main properties with TLAPS.

## The system and what is modelled

    containerd --> shim ----+
                            +--> host service --> driver client --> guest executor
    caller ------> OCI CLI -+     (durable store, event journal)

| Part | Source | Module | State |
| --- | --- | --- | --- |
| OCI lifecycle | `core/src/lifecycle.rs`, `runtime/src/state/oci_state.rs` | `Lifecycle` | modelled |
| Durable store: create, start, kill, pause, resume, update, delete, terminal failure | `runtime/src/state/{mod,create,creation,start,kill,freezer,update,delete,failure,operation,model}.rs` | `DurableStore` | all but PIDs and process claims |
| Observation of a driver state | `state/observe.rs` | `DurableStore` | all but PID rebinding |
| Startup audit, enumeration | `state/startup_audit*.rs`, `state/list.rs` | `DurableStore` | containers, operations, quarantine |
| Event journal, long polls, event audit | `state/event.rs`, `state/event/audit.rs` | `EventJournal` | modelled |
| Host service: gates, handlers, state queries, startup recovery | `runtime/src/service.rs` | `HostService` | the seven mutations, `state`, `open` |
| Driver contract | `runtime/src/driver.rs` | `HostService`, `OperationContract` | as its trait documents it (external) |
| Driver client, acknowledgement | `runtime/src/agent_driver.rs` | `AgentDriver`, `ReplayContract` | modelled |
| Guest operation journal and handlers | `agent/src/executor/{state,mod,exec,process_io,io,filesystem}.rs` | `GuestExecutor` | all but output buffers and file contents |
| Shim: controls, signals, resizes | `containerd-shim/src/service/{control,signal,resize}.rs` | `ShimControl` | modelled |
| Shim: exec processes, exit monitors | `service/task.rs`, `service/task/start.rs`, `metadata/exec_delete.rs` | `ShimExec` | modelled |
| Shim: stdin and output pumps and journals | `io.rs`, `io/output.rs`, `service/journal.rs` | `ShimStdin`, `ShimOutput` | modelled |
| Shim: Create, Delete, DeleteShim, restore | `service/task.rs`, `service/task/delete.rs`, `service/shim.rs`, `service/restore.rs` | `ShimTask` | all but restore packages, sandboxes, events |
| OCI command line and its journal | `cli/src/oci_cli/{mod,journal}.rs` | `OciCli` | all but the PID file and path checks |

What is left out is listed at the end.  `PROJECT.json` lists every part, the
hazards with the line where each bites, and the source lines behind each
definition.

## The modules

### Host

**`DurableStore`** describes a disk: the last generation of each container ID,
the journal entry of each operation, the live directory of each container, the
quarantine directory of each operation, and the events.  It has no variables.
The store holds a mutex through a handler, so a handler is one step of the host;
but each file is replaced by itself, so it is not one step of the disk.  Each
handler is therefore an operator from a disk to the *set* of its results: the
complete one, and `"torn"` with the disk that each prefix of its writes leaves.
The other labels say what the service does next: return an error, dispatch to the
driver, or acknowledge.

**`HostService`** has the variables.  A call of any kind passes through `Submit`
(gate and `prepare_*`), `Dispatch` (the driver call, outside the mutex), `Settle`
(`complete_*` or `fail_operation`) and `Acknowledge`.  A state query is two steps,
`Query` and `CommitObservation`, since the driver is read without the mutex.
`Crash`, `Open`, `Recover` and `Serve` are the death of the host and startup.
`ProcessExits` is the workload.  The driver is external: it executes an
unrecorded operation once, replays a recorded one, refuses for good, or is
unavailable.  It does not check that a released operation is new, so executing
twice is possible in the model whenever the service lets it happen.

**`OperationContract`** is the abstract specification of an operation ID:
outcome, the driver's evidence, and the number of effects, with no disk, caller,
claim or crash.

**`EventJournal`** takes one step deeper into `append_event` (three writes) and
the long poll (register with the notification, poll under the mutex, sleep).
`DurableStore!Emit` is an append that completed; a torn append is a torn handler.

### Driver client and guest

**`GuestExecutor`** is the guest's operation journal (claim, join a pending
operation, replay a recorded one, bounded capacity, acknowledge) with its
handlers over one container ID and its processes.  A lifecycle mutation holds the
state mutex in a detached task, a stdin mutation only reserves its turn, so
callers come and go while tasks run.  **`AgentDriver`** extends it with the host's
client: a long stdin write is cut into chunks with derived operation IDs, the
acknowledgement takes the same gate and releases all of them, a call may be
cancelled at any step, and the client may be replaced (live reattach).
**`ReplayContract`** is what `HostService` assumes of a driver; `AgentDriver`
implements it (`DriverKeepsContract`).

### containerd shim

The shim keeps a task in memory and in files of its bundle, and calls the host
under operation IDs made of a class and a sequence.  A store that fails is rolled
back in memory whether or not the file was replaced, so memory and file may
differ in both directions; a crash loses memory, and the replacement rebuilds it.

* **`ShimControl`**: pause, resume, update, kill and resize with their gates,
  the pending entry of each class, the takeover of an entry by a later request,
  the state read, and the replay at restore.
* **`ShimExec`**: one exec ID used again and again: Exec, Start, Wait, Delete, the
  exit monitor, the delete receipt, the restore.
* **`ShimStdin`**, **`ShimOutput`**: the pumps between a FIFO and the host, their
  journal or cursor, CloseIO, and the restore.
* **`ShimTask`**: Create with its intent and rollback, Delete with its receipt,
  DeleteShim, and a create that reaches the host after its shim is gone.

The host is external in these modules: it decides an operation ID once and
remembers the outcome, which is what `HostService` is shown to do.  `ShimTask`
assumes of containerd that it sends Delete only after Create has answered, and
that it uses a bundle for one task.

### OCI command line

**`OciCli`** is a sequence of short processes with a journal directory between
them.  Each command first reads the latest revision, journals what it is about to
ask, sends it, and journals what the answer makes of it; `Persist` is the
publication of a revision beside the old one with every point at which it can
fail.  A process may be killed anywhere.  The host behind it is the protocol of
`HostService` reduced to one container ID: it admits a request by journaling it,
may go on after the process is gone, answers a decided operation from its ledger,
resumes an undecided one, and may break off before or after the effect.  Whether
an undecided operation still holds the claim is left open.  Other clients may
hold the ID for a while.  Assumed: the lock on the directory admits one process at
a time, and a request is admitted or lost before a later process's is looked at.

**`MCHostService`**, **`MCAgent`**, **`MCShim`** and **`MCJournals`** give the
constants their values.  The last two hold several subjects in one run; a
behaviour has one of them, and the others stay as they begin.

Abstractions.  An operation ID stands for one exact request, so a digest mismatch
cannot occur in the host's model (in `OciCli`, where a target can differ, it is
refused).  Freezer flag and OCI status are one value (`"paused"`).  PIDs are left
out.  Checks that only refuse a request (expected generation, deadline, schema)
are among the refusals a handler has anyway.  A configuration is a number or a
model value, a chunk of input is its number, a frame of output its position.

## What the runs show

| Run | Instance | States | Shows |
| --- | --- | --- | --- |
| `lifecycle` | create, start, kill, forced delete in any order; and create, delete, create again on one ID; 2 callers, 2 generations, 2 faults | 660 560 | effects once (`EffectOnce`, `ReleasedIsDecided`), final outcomes, recoverable claims, fenced generations, sound quarantine, `DurableNeverAhead`, `ImplementsContract`, types |
| `freezer` | pause, resume, update of a started container; 2 callers, 2 faults | 1 280 459 | `SucceededIsAnnounced` |
| `sequential` | one client that waits for answers; 2 generations, 3 faults, fair | 24 819 | `StateIsAuditable`, `PreparedIsDecidedOrLost` |
| `guest` | ten pairs of host requests through the driver client to the guest, 2 calls at a time, a journal of 2 records, 1 fault, 1 cancelled call or reattach | 203 795 | `InputIsExact`, `AcknowledgedLeavesNothing`, `NoOrphanProcess`, `DriverKeepsContract` |
| `shim` | each shim module with 2 requests at a time and 1 to 3 faults, fair | 202 932 | 17 properties, below |
| `journals` | 2 events, 2 long polls with different filters, batches of 1, 2 faults, fair; and the command line: 1 bundle, 1 signal, both delete modes, another client, 2 faults in the first lifecycle or 1 and a second lifecycle | 423 798 | `JournalIsAuditable`, `ReceivedExactlyOnce`, `NoLostWakeup`, `SequencesAreForever`, `AnnouncedIsReceived`; `CreatedIsJournaled`, `RequestsAreJournaled` |

Of the shim: what the runtime did is journaled and a sequence stands for one
request (`EffectsAreJournaled`, `SequenceNamesOneRequest`), the freezer flag is
current unless an older reading was installed (`RecordIsCurrent`), every request is
answered (`RequestsAreAnswered`); an exit, a receipt and a process belong to
their own incarnation (`ExitIsOwn`, `ReceiptIsLatest`, `NoOrphanExec`) and Wait
returns (`WaitReturns`); input arrives in order and the close last (`InputIsOrdered`,
`CloseIsLast`, `CloseIOIsTrue`, `CloseIOIsAnswered`); output has no gap and what was
committed is not repeated (`OutputHasNoGap`, `CommittedIsNotRepeated`); a container
is on record, cleanup is complete, and every receipt gives one exit time
(`ContainerIsRecorded`, `CleanupIsComplete`, `AnswersAgree`).

Of the command line: a container that the host made for it is the one its journal
describes, and an admitted operation that is unanswered is the one the command
will repeat, with numbers that are not given out again.  Both except a lifecycle
in which `create` was repeated while a `delete` was unanswered.  The command
allows that; if the create was never acknowledged, the host may carry it out again
after the delete, and the repeated delete, answered with its old success, ends the
lifecycle of a container that is there.  Without the exception TLC finds
`CreatedIsJournaled` violated in this way.  Related, and visible in the model though
no property states the opposite: a `delete` that ends in an I/O error of the host after the container
was moved away is cleared from the journal as if refused, after which `delete`
finds no container and `create` a lifecycle that has not ended.

Bounds.  Two callers are enough for every pair of handlers to interleave, since
handlers meet pairwise through a mutex, a gate and one claim per record.  A fault
is a crash, an I/O error inside a handler, or a lost reply; a death in the middle
of a handler of the host is two of them, so two faults are the least that let a
handler be cut short by a crash, and three let its recovery fail as well.  Two
generations, incarnations or lifecycles are the least that let an ID be reused;
a guest journal of two records is the least that is full while an operation is
pending; three chunks are the least with one settled, one pending and one unread.
The command line was also run, apart from the event journal, with two bundles
(1 313 678 states), with two generations of another client (984 502) and with
three faults (993 740).  Callers are interchangeable, which justifies the symmetry
in `lifecycle` and `freezer`, and so are the tasks of `guest`; no run with symmetry
checks liveness.  Deadlock is checked in every run but `guest`, `shim` and
`lost_output`, where a behaviour ends when its requests are answered and its faults
are spent.

Fairness.  The host finishes what it has taken (weak fairness of a call's steps
and of startup; a call whose future is dropped instead is one of the finitely many
faults); a client repeats its request until it is decided (strong fairness of
`Submit`, since the gate and the free caller come and go).  Pollers poll again, and
no deadline need expire, so `AnnouncedIsReceived` is due to the notification alone.
In the shim, tokio polls every task that is ready: weak fairness of each exec
request, of the monitor, of the stdin pump and of CloseIO; strong fairness of a
control request, because it waits for a gate that others take and release, and
tokio's mutex queues its waiters.  Nothing is assumed of the client, of the
workload or of the restart of a shim.

Six runs state what the documentation says and find the code to differ:

* `reopen`: a death between a container directory and its record leaves a state
  root that `open` cannot enumerate, although the audit accepts it.
* `resurrect`: a retry of an interrupted create does not look at the generation
  fence and can revive a generation after its ID was reused.
* `stale_state`: a state query commits a freezer flag it read before a pause or
  resume completed.
* `wedge`: a pause or resume whose container is seen stopped before it is completed
  is refused for ever and keeps its claim.
* `race`: a kill completed by an observation releases its claim while its driver
  call is outstanding, and the next mutation reaches the driver too.
* `lost_output`: a replacement shim that finds the process exited starts no output
  pump, and what was not delivered is lost.

`PreparedIsDecidedOrLost` states the liveness that is left in the host: every
prepared operation is decided, except in the situations of `reopen` and `wedge`.

## What is proved

Each theorem holds for all values of the constants: any sets of containers,
operations, callers, clients and requests, any bounds on generations, sequences
and faults.  The assumptions are the named `ASSUME`s of the modules: the types of
the constants, that `Nil`, `Nobody` and `Nothing` are not among the values they stand
beside, that pause and resume are requests of the control class, and that of the
requests to the guest only a write is split.

**Host** (`DurableStoreProofs`, `HostServiceProofs`, `HostServiceAuditProofs`):
`TypeCorrect`, `EffectOnceHolds`, `ReleasedIsDecidedHolds`,
`ClaimsAreRecoverableHolds`, `OperationsAreFencedHolds`,
`SucceededIsAnnouncedHolds`; `OutcomeIsFinalHolds` (no step changes the entry of a
decided operation); `TombstonesAgreeHolds`, `DurableNeverAheadHolds`,
`StateIsAuditableHolds`; and `Implementation`: `Spec` implements
`OperationContract`.

The argument has two layers.  `DurableStoreProofs` never mentions a behaviour: it
shows that each single write keeps a disk *sound* under the condition in which
the code does it, and then that each handler *delivers*: from a sound disk, every
result (every prefix included) is sound, changes at most its own journal entry,
never a decided one, and carries a label its disk justifies.  Soundness is
stronger than the invariants it implies: that a live record is within the fence
is needed for the operations that inherit its generation.

`HostServiceProofs` adds what a call in flight may rely on.  `EffectOnce` is not
inductive: a step executes an operation whenever the driver has no record of it,
and nothing in `EffectOnce` rules out that the record was released.  `Held` says
that a dispatched operation has not been released, an answer is the driver's
recorded one, an acknowledged operation is decided, and no two calls hold one
operation; `Evidence` says what a driver record implies about the journal and the
effects.  The single-flight gate is what keeps `Held` true when another caller
acknowledges.  `StepKinds` classifies the steps of the service, and
`ContractStep` maps each class to a contract step or a stutter.

`HostServiceAuditProofs` is about the directories.  A second pass over the handlers
in `DurableStoreProofs` says what each does to them (`Touches`: it rewrites a record
it owns, builds a directory of its own creation, or moves one it has claimed into
its own quarantine) and shows of every prefix that this is all it does.  Three
inductive invariants rest on that and on the invariant above:

* `Quarantined`, for `TombstonesAgree`: a create or delete that has been dispatched,
  or whose answer is on its way, still holds the claim on its record (`Owned`); what is
  in quarantine has that record's generation.
* `Honest`, for `DurableNeverAhead`: an answer the driver keeps, and a state that a
  query has read and not yet committed, is one that the generation has reached
  (`Answerable`, `Remembered`); generations only progress (`Progresses`), so an answer
  that arrives late is out of date but never ahead.
* `Audited`, for `StateIsAuditable`: undecided creations and live records are of the
  last generation, a live record was created by an operation of the journal, and a
  generation is not both live and in quarantine.

The last one depends on the clients, as the run `resurrect` shows.  `StateIsAuditable`
and `LiveGenerationIsCurrent` are therefore proved under `CreatesAreOrdered`: of a
create and another create or a delete of the same ID, one waits for the answer to
the other.  It says nothing about starts, kills, pauses and updates, nor about other
IDs, and the clients of the run `sequential` satisfy it.

**Event journal** (`JournalTaskProofs`): `JournalIsAuditableHolds`,
`ReceivedExactlyOnceHolds`, `NoLostWakeupHolds`, `SequencesAreForeverHolds`.  The
strengthening is about a poll in progress: its cursor is within the journal, and no
event it should return lies between its client's cursor and its own.

**Shim.**  Every invariant speaks of memory, file and runtime, and is strengthened
by how far they may be apart, and by what a request at each stage relies on:

* `ClientProofs` (`EffectsAreJournaledHolds`, `SequenceNamesOneRequestHolds`,
  `RecordIsCurrentHolds`): the file has everything the runtime decided and is at most
  one step ahead of memory (`Tracks`); a request past the gate has it for itself
  (`Gated`); a restore holds what the file holds (`Rehydrating`).  For the freezer flag
  (`FlagInv`) it is needed who may be about to change it: only the one operation
  pending as a control, in memory, in the file or in a replay.
* `JournalTaskProofs` (`ReceiptIsLatestHolds`, `ExitIsOwnHolds`, `NoOrphanExecHolds`): a
  process that runs, or that a request is about to create, belongs to the exec in
  memory, and that one is in the metadata (`Owned`).
* `ShimIOProofs` (`InputIsOrderedHolds`, `CloseIsLastHolds`, `CloseIOIsTrueHolds`):
  what either journal says of the host and the client, and where the pump is and
  what it has in hand (`Pumping`).
* `ShimIOProofs` (`OutputHasNoGapHolds`, `CommittedIsNotRepeatedHolds`): every
  prefix of the deliveries has no gap, and a pump is at the stored cursor with the
  frame behind it (`PumpIsBehind`).
* `JournalTaskProofs` (`ContainerIsRecordedHolds`, `CleanupIsCompleteHolds`,
  `AnswersAgreeHolds`): who may be at work together (`Roles`), what the steps of Create
  have established (`Creation`), what a receipt says about the files (`Receipts`).

**Command line** (`ClientProofs`): `CreatedIsJournaledHolds`,
`RequestsAreJournaledHolds`, `RevisionsAreValidHolds`.  The invariant `CliInv` relates
the latest revision, the process, the host's ledger and the container.  A request
that a process has sent is the one the journal holds (`Requesting`); what an answer says
is still so when it is acted on (`Answered`); an admitted request has numbers that were
given out, and is pending in the journal until its answer came or its lifecycle ended
(`Ledgered`); a generation belongs to one creation (`Fenced`); and a container made for
the command line is the one of the journal's create, with no delete pending that has
already moved it (`Owned`).  `RevisionsAreValid` says that every revision passes
`JournalSnapshot::validate`, so that no sequence of commands, answers and deaths makes
a journal that a later command cannot open; it needs in addition that a generation is
never zero (`Positive`).  It also justifies that `Persist` leaves out the refusal of an
invalid snapshot.

**Driver client and guest** (`GuestExecutorProofs`, `AgentDriverProofs`): `InputIsExactHolds`,
`AcknowledgedLeavesNothingHolds`, `NoOrphanProcessHolds`, and
`DriverKeepsContractHolds`: `AgentSpec` implements `ReplayContract`, which is what the
host's proofs take of a driver.  None of these is inductive, because a call, the task
that carries it out and the client that waits for it come and go separately.  `AgentInv`
follows one operation ID through all of them.  A claimed or recorded guest operation is
one part of the request that its host operation is bound to, and every earlier part was
recorded as a success (`PendingOk`, `RecordOk`); so a split write that was cut short and
is sent again finds what it left.  A client that still sends an operation is the only
one, and the operation is undecided (`ClientOk`, `CallOk`, `ReplyOk`); so nothing is sent
again that may have been forgotten.  The holder of the mutex and the input jobs are
exactly the owners of what is pending (`OwnersOk`).  The client retains all of the
derived IDs of a split write or none (`RetainedOk`, `Kept`), and an acknowledgement
releases all there is (`AckOk`).  What was carried out is remembered until the host
has decided (`RunOk`); what a process has received is in order and not repeated
(`InputOk`), and a part that succeeded has reached it (`FedOk`).  For the refinement, an input job
that has run and is not recorded counts as remembered already (`Memory`).

Only model-checked: the liveness properties (`PreparedIsDecidedOrLost`,
`AnnouncedIsReceived`, `RequestsAreAnswered`, `WaitReturns`, `CloseIOIsAnswered`), since
fairness and `ENABLED` are out of the prover's reach.  Every invariant, action property
and refinement that a passing run checks is also proved.

## Not modelled

* Process records of the host (`state/process*.rs`): the same prepare, dispatch and
  complete with claims on process records; the guest side of exec, signal, stdin
  and resize is in `GuestExecutor`, the shim's in `ShimExec` and `ShimStdin`.
* File mutations, checkpoint, restore and attest operations of the store: further
  kinds of the modelled discipline whose substance is in artifacts outside the
  state root; native checkpoints publish such artifacts.
* State-root transactions (`state/filesystem/transaction.rs`): a replacement of one
  file by rename and fsync is atomic here, and a power failure that undoes a rename
  is not considered, in the store and in the command line's journal alike.
* Agent sessions and the agent protocol: connection, authentication, framing.  The
  driver client is modelled over a session that may drop a call at any step.
* Guest recovery over exec: descriptors and PIDs whose validity the kernel decides.
* The Linux executor below the journal, the virtual machine drivers, krun: system
  and hypervisor calls.
* SDK types, validation, schemas, CLI dispatch, fault injection, reports: pure data
  or instrumentation.
