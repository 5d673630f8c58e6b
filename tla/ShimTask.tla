------------------------------ MODULE ShimTask -------------------------------
(* Create and Delete of one task in the containerd shim, and containerd's    *)
(* DeleteShim (crates/containerd-shim/src/service).  Three files in the      *)
(* bundle carry the task over crashes: the create intent, stored before the  *)
(* runtime is called; the metadata, stored once the container exists; and    *)
(* the delete receipt, stored before the runtime deletes the container.      *)
(*                                                                           *)
(* The runtime host is external.  It decides the task's create once, maybe   *)
(* after the shim that sent it is gone, and deletes a stopped container, or  *)
(* any container by force; a repeated delete succeeds.  A bundle is used for *)
(* one task: containerd does not create in it again after a rollback, and it *)
(* sends Delete after Create has answered.                                   *)
(*                                                                           *)
(* An exit time is a reading of the clock, 0 if there is none.  It stands    *)
(* for a receipt too, whose other fields follow from the exit.               *)
EXTENDS ClientBase, Naturals

CONSTANTS Deleters,       \* Delete requests served at the same time
          MaxClock,       \* the last clock reading
          MaxTaskFaults   \* failed steps, lost answers, crashes

ASSUME TaskAssumption == MaxClock \in Nat /\ MaxTaskFaults \in Nat

VARIABLES
    shim,       \* "serving", "broken" (the restore failed) or "down"
    held,       \* the task in memory, Nil if there is none: its exit time
    intent,     \* the create intent is in the bundle
    metadata,   \* the exit time in the metadata file, Nil without the file
    deleted,    \* the delete receipt, 0 without the file
    mounted,    \* the rootfs is mounted
    creator,    \* where Create is
    deleter,    \* where each Delete is, and the receipt it stored
    cleaner,    \* where DeleteShim is, and the receipt it answers with
    machine,    \* runtime: the container
    request,    \* runtime: a create is on its way
    clock,
    answers,    \* exit times that Delete and DeleteShim answered from a receipt
    cleaned,    \* DeleteShim has succeeded
    taskFaults

taskVars == <<shim, held, intent, metadata, deleted, mounted, creator, deleter, cleaner, machine,
              request, clock, answers, cleaned, taskFaults>>

fileVars == <<intent, metadata, deleted, mounted>>
containerVars == <<machine, request>>

IdleDelete == [step |-> "idle", exit |-> 0, receipt |-> 0]

TaskInit ==
    /\ shim = "serving" /\ held = Nil
    /\ intent = FALSE /\ metadata = Nil /\ deleted = 0 /\ mounted = FALSE
    /\ creator = "idle"
    /\ deleter = [d \in Deleters |-> IdleDelete]
    /\ cleaner = IdleDelete
    /\ machine = "none" /\ request = FALSE
    /\ clock = 0
    /\ answers = {}
    /\ cleaned = FALSE
    /\ taskFaults = 0

TaskFault == taskFaults < MaxTaskFaults /\ taskFaults' = taskFaults + 1

\* A step either works, or fails with or without its effect on a file.
Works == UNCHANGED taskFaults
Tick == clock < MaxClock /\ clock' = clock + 1

Exists == machine \in {"created", "stopped"}

-----------------------------------------------------------------------------
(* The runtime.                                                              *)

\* The create arrives; a second one under its operation ID changes nothing.
RuntimeCreates ==
    /\ request
    /\ request' = FALSE
    /\ machine' \in IF machine = "none" THEN {"created", "refused"} ELSE {machine}
    /\ UNCHANGED <<shim, held, fileVars, creator, deleter, cleaner, clock, answers, cleaned,
                   taskFaults>>

ContainerStops ==
    /\ machine = "created"
    /\ machine' = "stopped"
    /\ UNCHANGED <<shim, held, fileVars, creator, deleter, cleaner, request, clock, answers,
                   cleaned, taskFaults>>

-----------------------------------------------------------------------------
(* Create.                                                                   *)

MountRootfs ==
    /\ shim = "serving" /\ held = Nil /\ creator = "idle" /\ machine = "none" /\ ~cleaned
    /\ mounted' = TRUE
    /\ creator' = "intent"
    /\ UNCHANGED <<shim, held, intent, metadata, deleted, deleter, cleaner, containerVars, clock,
                   answers, cleaned, taskFaults>>

StoreIntent ==
    /\ creator = "intent"
    /\ \/ /\ Works
          /\ intent' = TRUE /\ request' = TRUE
          /\ creator' = "create"
          /\ UNCHANGED mounted
       \/ /\ TaskFault
          /\ intent' \in {intent, TRUE} /\ mounted' \in BOOLEAN
          /\ creator' = "idle"
          /\ UNCHANGED request
    /\ UNCHANGED <<shim, held, metadata, deleted, deleter, cleaner, machine, clock, answers,
                   cleaned>>

\* The runtime's answer: the container, a final refusal, or a retryable error
\* that keeps the intent.
Created ==
    /\ creator = "create"
    /\ \/ ~request /\ Works /\ creator' = IF machine = "refused" THEN "drop" ELSE "persist"
       \/ TaskFault /\ creator' = "idle"
    /\ UNCHANGED <<shim, held, fileVars, deleter, cleaner, containerVars, clock, answers, cleaned>>

\* The intent goes, then the mount; a mount that stays is not reported.
RemoveIntentAndUnmount ==
    \/ Works /\ intent' = FALSE /\ mounted' = FALSE
    \/ TaskFault /\ (intent' \in {intent, FALSE}) /\ mounted' = mounted

DropIntent ==
    /\ creator = "drop"
    /\ RemoveIntentAndUnmount
    /\ creator' = "idle"
    /\ UNCHANGED <<shim, held, metadata, deleted, deleter, cleaner, containerVars, clock, answers,
                   cleaned>>

\* The pumps are started and the metadata stored.
PersistTask ==
    /\ creator = "persist"
    /\ \/ Works /\ metadata' = 0 /\ held' = 0 /\ creator' = "tidy"
       \/ TaskFault /\ metadata' \in {metadata, 0} /\ UNCHANGED held /\ creator' = "rollback"
    /\ UNCHANGED <<shim, intent, deleted, mounted, deleter, cleaner, containerVars, clock, answers,
                   cleaned>>

\* Mutant: the intent is removed even if the container could not be deleted.
RollBackAnyway ==
    /\ creator = "rollback"
    /\ \/ machine' = "deleted" /\ RemoveIntentAndUnmount
       \/ TaskFault /\ intent' = FALSE /\ UNCHANGED <<machine, mounted>>
    /\ creator' = "idle"
    /\ UNCHANGED <<shim, held, metadata, deleted, deleter, cleaner, request, clock, answers,
                   cleaned>>

\* rollback_created_task: the container is deleted by force, else all is kept.
RollBack ==
    /\ creator = "rollback"
    /\ \/ machine' = "deleted" /\ RemoveIntentAndUnmount
       \/ TaskFault /\ UNCHANGED <<machine, intent, mounted>>
    /\ creator' = "idle"
    /\ UNCHANGED <<shim, held, metadata, deleted, deleter, cleaner, request, clock, answers,
                   cleaned>>

\* An old receipt and the intent are removed, if they can be.
TidyCreate ==
    /\ creator = "tidy"
    /\ \/ Works /\ deleted' = 0 /\ intent' = FALSE
       \/ TaskFault /\ deleted' \in {deleted, 0} /\ intent' \in {intent, FALSE}
    /\ creator' = "idle"
    /\ UNCHANGED <<shim, held, metadata, mounted, deleter, cleaner, containerVars, clock, answers,
                   cleaned>>

\* record_exit: the monitor learns of the exit.
RecordTaskExit ==
    /\ shim = "serving" /\ held = 0 /\ machine = "stopped"
    /\ Tick
    /\ held' = clock'
    /\ \/ Works /\ metadata' = clock'
       \/ TaskFault /\ metadata' \in {metadata, clock'}
    /\ UNCHANGED <<shim, intent, deleted, mounted, creator, deleter, cleaner, containerVars,
                   answers, cleaned>>

-----------------------------------------------------------------------------
(* Delete.                                                                   *)

\* Delete copies the task, then waits for the pumps to stop.
SnapshotTask(d) ==
    /\ shim = "serving" /\ held # Nil /\ creator = "idle" /\ deleter[d].step = "idle"
    /\ deleter' = [deleter EXCEPT ![d] = [step |-> "store", exit |-> held, receipt |-> 0]]
    /\ UNCHANGED <<shim, held, fileVars, creator, cleaner, containerVars, clock, answers, cleaned,
                   taskFaults>>

\* Mutant: a receipt that is already there is replaced.
ReceiptAnew(exit) == IF exit # 0 THEN exit ELSE clock'

\* A receipt that is there is kept; a new one is dated now without an exit.
Receipt(exit) == IF deleted # 0 THEN deleted ELSE IF exit # 0 THEN exit ELSE clock'

\* The receipt is stored; one that does not agree with the exit refuses the
\* request.
StoreReceipt(d) ==
    /\ deleter[d].step = "store"
    /\ LET exit == deleter[d].exit
           kept == deleted # 0 /\ exit \in {0, deleted}
       IN  /\ IF exit = 0 THEN Tick ELSE UNCHANGED clock
           /\ \/ /\ (deleted = 0 \/ kept) /\ Works
                 /\ deleted' = Receipt(exit)
                 /\ deleter' = [deleter EXCEPT ![d].step = "delete", ![d].receipt = deleted']
              \/ /\ (deleted = 0 \/ kept) /\ TaskFault
                 /\ deleted' \in {deleted, Receipt(exit)}
                 /\ deleter' = [deleter EXCEPT ![d] = IdleDelete]
              \/ /\ deleted # 0 /\ ~kept /\ Works
                 /\ deleter' = [deleter EXCEPT ![d] = IdleDelete]
                 /\ UNCHANGED deleted
    /\ UNCHANGED <<shim, held, intent, metadata, mounted, creator, cleaner, containerVars, answers,
                   cleaned>>

\* Only a stopped container is deleted.
DeleteContainer(d) ==
    /\ deleter[d].step = "delete"
    /\ \/ /\ machine # "created" /\ Works
          /\ machine' = "deleted"
          /\ deleter' = [deleter EXCEPT ![d].step = "remove"]
       \/ /\ machine = "created" /\ Works
          /\ deleter' = [deleter EXCEPT ![d] = IdleDelete]
          /\ UNCHANGED machine
       \/ /\ TaskFault
          /\ machine' \in {machine, IF machine = "stopped" THEN "deleted" ELSE machine}
          /\ deleter' = [deleter EXCEPT ![d] = IdleDelete]
    /\ UNCHANGED <<shim, held, fileVars, creator, cleaner, request, clock, answers, cleaned>>

\* Intent, mount and metadata go in this order; a failure leaves the rest.
RemoveFiles ==
    \/ Works /\ intent' = FALSE /\ mounted' = FALSE /\ metadata' = Nil
    \/ /\ TaskFault
       /\ \/ intent' \in {intent, FALSE} /\ mounted' = mounted /\ metadata' = metadata
          \/ intent' = FALSE /\ mounted' = FALSE /\ metadata' \in {metadata, Nil}

\* Another Delete may have removed the task.
CommitDelete(d) ==
    /\ deleter[d].step = "remove"
    /\ \/ /\ held # Nil /\ RemoveFiles
          /\ IF taskFaults' = taskFaults
             THEN held' = Nil /\ answers' = answers \cup {deleter[d].receipt}
             ELSE UNCHANGED <<held, answers>>
       \/ held = Nil /\ Works /\ UNCHANGED <<held, intent, mounted, metadata, answers>>
    /\ deleter' = [deleter EXCEPT ![d] = IdleDelete]
    /\ UNCHANGED <<shim, deleted, creator, cleaner, containerVars, clock, cleaned>>

\* No task: the receipt answers unless the metadata is still there, and the
\* shim exits.
ReplayDelete ==
    /\ shim # "down" /\ held = Nil /\ metadata = Nil /\ deleted # 0
    /\ answers' = answers \cup {deleted}
    /\ shim' = "down"
    /\ creator' = "idle"
    /\ deleter' = [d \in Deleters |-> IdleDelete]
    /\ UNCHANGED <<held, fileVars, cleaner, containerVars, clock, cleaned, taskFaults>>

-----------------------------------------------------------------------------
(* Crash, replacement and DeleteShim.                                        *)

TaskCrash ==
    /\ shim # "down" /\ TaskFault
    /\ shim' = "down" /\ held' = Nil /\ creator' = "idle"
    /\ deleter' = [d \in Deleters |-> IdleDelete]
    /\ UNCHANGED <<fileVars, cleaner, containerVars, clock, answers, cleaned>>

\* A replacement shim takes the task over if its container exists; a receipt
\* is then no more than an intent, and the exit of a stopped init is recovered.
RestoreTask ==
    /\ shim = "down" /\ cleaner.step = "idle"
    /\ \/ /\ metadata = Nil /\ Works
          /\ shim' = "serving" /\ UNCHANGED <<held, clock, intent, metadata, deleted>>
       \/ /\ metadata # Nil /\ Exists /\ Works
          /\ IF metadata = 0 /\ machine = "stopped" THEN Tick ELSE UNCHANGED clock
          /\ shim' = "serving"
          /\ metadata' = IF metadata = 0 /\ machine = "stopped" THEN clock' ELSE metadata
          /\ held' = metadata'
          /\ deleted' = 0 /\ intent' = FALSE
       \/ /\ metadata # Nil /\ ~Exists /\ Works
          /\ shim' = "broken" /\ UNCHANGED <<held, clock, intent, metadata, deleted>>
       \/ /\ metadata # Nil /\ Exists /\ TaskFault
          /\ deleted' \in {deleted, 0}
          /\ shim' = "broken" /\ UNCHANGED <<held, clock, intent, metadata>>
    /\ UNCHANGED <<mounted, creator, deleter, cleaner, containerVars, answers, cleaned>>

\* Mutant: an intent without a container is dropped, and its create not repeated.
CleanContainerSeen ==
    /\ shim = "down" /\ cleaner.step = "idle"
    /\ metadata # Nil \/ intent
    /\ \/ /\ Works
          /\ machine' = IF Exists THEN "deleted" ELSE machine
          /\ deleted' = IF metadata # Nil /\ Exists THEN 0 ELSE deleted
          /\ cleaner' = [IdleDelete EXCEPT !.step = IF metadata # Nil THEN "files" ELSE "intent",
                                           !.receipt = IF metadata # Nil THEN deleted' ELSE 0]
       \/ TaskFault /\ deleted' \in {deleted, 0} /\ UNCHANGED <<machine, cleaner>>
    /\ UNCHANGED <<shim, held, intent, metadata, mounted, creator, deleter, request, clock, answers,
                   cleaned>>

\* DeleteShim makes sure that the container is deleted: what the metadata name,
\* or what the intent's create, sent again, decides.  Its refusal is final.
CleanContainer ==
    /\ shim = "down" /\ cleaner.step = "idle"
    /\ \/ /\ metadata # Nil /\ Works
          /\ machine' = "deleted"
          /\ deleted' = IF Exists THEN 0 ELSE deleted
          /\ cleaner' = [IdleDelete EXCEPT !.step = "files", !.receipt = deleted']
       \/ /\ metadata # Nil /\ TaskFault
          /\ machine' = machine /\ deleted' \in {deleted, IF Exists THEN 0 ELSE deleted}
          /\ cleaner' = cleaner
       \/ /\ metadata = Nil /\ intent /\ machine # "refused" /\ Works
          /\ machine' = "deleted"
          /\ cleaner' = [IdleDelete EXCEPT !.step = "intent"]
          /\ UNCHANGED deleted
       \/ /\ metadata = Nil /\ intent /\ TaskFault
          /\ machine' \in IF machine = "none" THEN {"none", "created", "refused"} ELSE {machine}
          /\ UNCHANGED <<deleted, cleaner>>
    /\ UNCHANGED <<shim, held, intent, metadata, mounted, creator, deleter, request, clock, answers,
                   cleaned>>

CleanFiles ==
    /\ cleaner.step = "files"
    /\ RemoveFiles
    /\ cleaned' = (taskFaults' = taskFaults)
    /\ answers' = IF cleaned' /\ cleaner.receipt # 0 THEN answers \cup {cleaner.receipt}
                  ELSE answers
    /\ cleaner' = IdleDelete
    /\ UNCHANGED <<shim, held, deleted, creator, deleter, containerVars, clock>>

CleanIntent ==
    /\ cleaner.step = "intent"
    /\ \/ Works /\ intent' = FALSE /\ mounted' = FALSE /\ deleted' = 0 /\ cleaned' = TRUE
       \/ /\ TaskFault
          /\ \/ intent' \in {intent, FALSE} /\ mounted' = mounted /\ deleted' = deleted
             \/ intent' = FALSE /\ mounted' = FALSE /\ deleted' \in {deleted, 0}
          /\ UNCHANGED cleaned
    /\ cleaner' = IdleDelete
    /\ UNCHANGED <<shim, held, metadata, creator, deleter, containerVars, clock, answers>>

\* Neither metadata nor intent: the receipt answers, or nothing was there.
CleanNothing ==
    /\ shim = "down" /\ cleaner.step = "idle" /\ metadata = Nil /\ ~intent
    /\ cleaned' = TRUE
    /\ answers' = IF deleted # 0 THEN answers \cup {deleted} ELSE answers
    /\ UNCHANGED <<shim, held, fileVars, creator, deleter, cleaner, containerVars, clock,
                   taskFaults>>

TaskNext ==
    \/ RuntimeCreates \/ ContainerStops
    \/ MountRootfs \/ StoreIntent \/ Created \/ DropIntent \/ PersistTask \/ RollBack \/ TidyCreate
    \/ RecordTaskExit
    \/ \E d \in Deleters :
          SnapshotTask(d) \/ StoreReceipt(d) \/ DeleteContainer(d) \/ CommitDelete(d)
    \/ ReplayDelete
    \/ TaskCrash \/ RestoreTask
    \/ CleanContainer \/ CleanFiles \/ CleanIntent \/ CleanNothing

TaskSpec == TaskInit /\ [][TaskNext]_taskVars
-----------------------------------------------------------------------------
(* Properties.                                                               *)

\* A container that exists, or that a create on its way will make, is on
\* record in the bundle: through every failed step and crash, a replacement or
\* DeleteShim finds the intent or the metadata that names it.
ContainerIsRecorded == Exists \/ (request /\ machine = "none") => intent \/ metadata # Nil

\* Once DeleteShim has succeeded the container is gone and stays so, even if
\* the create of a dead shim arrives later, and neither file is left.
CleanupIsComplete == cleaned => ~Exists /\ ~intent /\ metadata = Nil

\* However often a deletion is repeated, by Delete, by a replacement shim or by
\* DeleteShim, a receipt answers with one exit time.
AnswersAgree == \A a, b \in answers : a = b
=============================================================================
