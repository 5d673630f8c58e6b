----------------------------- MODULE ShimControl -----------------------------
(* Controls, signals and terminal resizes of one task in the containerd shim *)
(* (crates/containerd-shim/src/service).  Each class has a gate, a completed *)
(* sequence and at most one pending operation.  A request first stores the   *)
(* pending operation, then calls the runtime under an operation ID made of   *)
(* the class and the sequence, then stores the settled sequence.  A store    *)
(* that fails is rolled back in memory, whether or not the file was renamed. *)
(* A replacement shim replays what is pending before it serves.              *)
(*                                                                           *)
(* The runtime host is external: it decides an operation ID once, remembers  *)
(* the outcome, and answers; an answer may be lost (a retryable error).      *)
EXTENDS ClientBase, Naturals

CONSTANTS Rpcs,             \* requests served at the same time
          Asks,             \* what containerd may ask: a class and a payload
          MaxSequence,      \* the last sequence of a class
          MaxControlFaults  \* lost answers, failed stores and crashes

Classes == {"control", "signal", "resize"}
Whats == {q.what : q \in Asks}
Pendings == [seq : Nat, what : Whats]
Tasks == [seq : [Classes -> Nat], pend : [Classes -> Pendings \cup {Nil}], paused : BOOLEAN,
          digest : Whats \cup {Nil}, size : Whats \cup {Nil}, exit : BOOLEAN]

ASSUME ControlAssumption ==
    /\ MaxSequence \in Nat /\ MaxControlFaults \in Nat
    /\ \A q \in Asks : q.class \in Classes
    /\ \A q \in Asks : q.what \in {"pause", "resume"} => q.class = "control"
    /\ Nil \notin Pendings /\ Nil \notin Tasks /\ Nil \notin Asks
    /\ Nil \notin [what : Whats, outcome : {"ok", "error"}]

VARIABLES
    task,       \* the task in memory, Nil while no shim serves it
    meta,       \* the task in the metadata file
    restore,    \* the replacement shim's copy while it rehydrates
    rpc,        \* requests in progress
    frozen,     \* runtime: the freezer of the container
    alive,      \* runtime: the init process runs
    done,       \* runtime: decided operations
    effects,    \* runtime: how often each operation took effect
    outdated,   \* the last record installed in memory was already out of date
    controlFaults

controlVars == <<task, meta, restore, rpc, frozen, alive, done, effects, outdated,
                 controlFaults>>

Identities == Classes \X (1 .. MaxSequence)

NewTask ==
    [seq |-> [k \in Classes |-> 0], pend |-> [k \in Classes |-> Nil],
     paused |-> FALSE, digest |-> Nil, size |-> Nil, exit |-> FALSE]

IdleRpc == [stage |-> "idle", ask |-> Nil, op |-> Nil, reply |-> "none", paused |-> FALSE]

\* Mutant: pending operations are not kept.
MetadataOfSettled(t) == [t EXCEPT !.paused = FALSE, !.pend = [k \in Classes |-> Nil]]

\* The metadata keeps everything but the runtime's record.
Metadata(t) == [t EXCEPT !.paused = FALSE]

ControlInit ==
    /\ task = NewTask
    /\ meta = Metadata(NewTask)
    /\ restore = Nil
    /\ rpc = [c \in Rpcs |-> IdleRpc]
    /\ frozen = FALSE
    /\ alive = TRUE
    /\ done = [i \in Identities |-> Nil]
    /\ effects = [i \in Identities |-> 0]
    /\ outdated = FALSE
    /\ controlFaults = 0

runtimeVars == <<frozen, alive, done, effects>>

Fault == controlFaults < MaxControlFaults /\ controlFaults' = controlFaults + 1

\* The metadata file is replaced, or the store fails before or after the rename.
Stored(new) == meta' = Metadata(new) /\ UNCHANGED controlFaults
StoreFailed(new) == meta' \in {meta, Metadata(new)} /\ Fault

Finish(c) == rpc' = [rpc EXCEPT ![c] = IdleRpc]

-----------------------------------------------------------------------------
(* The runtime, as the adapter sees it.                                      *)

Accepts(k, what) ==
    /\ alive
    /\ what = "pause" => ~frozen
    /\ what = "resume" => frozen

\* A resize of a process that is gone counts as applied (late I/O is ignored).
Verdict(k, what) == IF Accepts(k, what) \/ (k = "resize" /\ ~alive) THEN "ok" ELSE "error"

Decide(k, op) ==
    /\ done[<<k, op.seq>>] = Nil
    /\ done' = [done EXCEPT ![<<k, op.seq>>] =
                   [what |-> op.what, outcome |-> Verdict(k, op.what)]]
    /\ effects' = IF Accepts(k, op.what) THEN [effects EXCEPT ![<<k, op.seq>>] = @ + 1]
                                         ELSE effects
    /\ alive' = (alive /\ ~(Accepts(k, op.what) /\ op.what = "kill"))
    /\ frozen' = (alive' /\ IF Accepts(k, op.what) /\ op.what \in {"pause", "resume"}
                             THEN op.what = "pause" ELSE frozen)

\* The answer: decided now, decided before, or a retryable error in its place.
RuntimeCall(k, op, reply) ==
    \/ /\ Decide(k, op)
       /\ \/ reply = Verdict(k, op.what) /\ UNCHANGED controlFaults
          \/ reply = "retry" /\ Fault
    \/ /\ done[<<k, op.seq>>] # Nil
       /\ reply = IF done[<<k, op.seq>>].what = op.what THEN done[<<k, op.seq>>].outcome
                  ELSE "error"
       /\ UNCHANGED <<runtimeVars, controlFaults>>
    \/ reply = "retry" /\ Fault /\ UNCHANGED runtimeVars

-----------------------------------------------------------------------------
(* Requests.                                                                 *)

\* Mutant: a request that waits for the gate blocks the others.
GateContended(c) ==
    \/ rpc[c].stage = "ready"
    \/ /\ rpc[c].stage = "gate"
       /\ \A d \in Rpcs \ {c} : rpc[d].stage \in {"gate", "ready", "call", "reply"} =>
                                   rpc[d].ask.class # rpc[c].ask.class

GateFree(c) ==
    \/ rpc[c].stage = "ready"
    \/ /\ rpc[c].stage = "gate"
       /\ \A d \in Rpcs \ {c} : rpc[d].stage \in {"ready", "call", "reply"} =>
                                   rpc[d].ask.class # rpc[c].ask.class

ControlCall(c, q) ==
    /\ rpc[c].stage = "idle" /\ task # Nil
    /\ rpc' = [rpc EXCEPT ![c] = [IdleRpc EXCEPT !.stage = "gate", !.ask = q]]
    /\ UNCHANGED <<task, meta, restore, runtimeVars, outdated, controlFaults>>

AlreadyApplied(q) ==
    CASE q.what = "pause" -> task.paused
      [] q.what = "resume" -> ~task.paused
      [] q.class = "control" /\ q.what \notin {"pause", "resume"} -> task.digest = q.what
      [] q.class = "resize" -> task.size = q.what
      [] OTHER -> FALSE

\* prepare_control, prepare_signal, prepare_resize: a pending control must be
\* repeated as it is; a pending signal or resize is taken over and sent first;
\* a request that changes nothing, or exhausts the sequence, ends here.
Prepare(c) ==
    /\ task # Nil /\ GateFree(c)
    /\ LET q == rpc[c].ask
           k == q.class
           p == task.pend[k]
           op == [seq |-> task.seq[k] + 1, what |-> q.what]
           new == [task EXCEPT !.pend[k] = op]
       IN  \/ /\ p # Nil /\ (k = "control" => p.what = q.what)
              /\ rpc' = [rpc EXCEPT ![c].stage = "call", ![c].op = p]
              /\ UNCHANGED <<task, meta, controlFaults>>
           \/ /\ p # Nil /\ k = "control" /\ p.what # q.what
              /\ Finish(c)
              /\ UNCHANGED <<task, meta, controlFaults>>
           \/ /\ p = Nil /\ (AlreadyApplied(q) \/ op.seq > MaxSequence)
              /\ Finish(c)
              /\ UNCHANGED <<task, meta, controlFaults>>
           \/ /\ p = Nil /\ ~AlreadyApplied(q) /\ op.seq <= MaxSequence
              /\ Stored(new)
              /\ task' = new
              /\ rpc' = [rpc EXCEPT ![c].stage = "call", ![c].op = op]
           \/ /\ p = Nil /\ ~AlreadyApplied(q) /\ op.seq <= MaxSequence
              /\ StoreFailed(new)
              /\ Finish(c)
              /\ UNCHANGED task
    /\ UNCHANGED <<restore, runtimeVars, outdated>>

Dispatch(c) ==
    /\ rpc[c].stage = "call"
    /\ \E reply \in {"ok", "error", "retry"} :
         /\ RuntimeCall(rpc[c].ask.class, rpc[c].op, reply)
         /\ rpc' = [rpc EXCEPT ![c].stage = "reply", ![c].reply = reply, ![c].paused = frozen']
    /\ UNCHANGED <<task, meta, restore, outdated>>

\* validate_control_response and validate_control_target.
Valid(t, k, op, paused) ==
    k = "control" => CASE op.what = "pause" -> paused
                       [] op.what = "resume" -> ~paused
                       [] OTHER -> paused = t.paused

\* Mutant: an operation that failed does not use its sequence up.
SettledIfOk(t, k, op, ok, paused) ==
    [t EXCEPT !.seq[k] = IF ok THEN op.seq ELSE @, !.pend[k] = Nil,
              !.paused = IF ok /\ k # "resize" THEN paused ELSE @,
              !.digest = IF ok /\ k = "control" /\ op.what \notin {"pause", "resume"}
                         THEN op.what ELSE @,
              !.size = IF ok /\ k = "resize" THEN op.what ELSE @]

\* The task once an operation is settled; a resize returns no record, and an
\* operation that failed leaves one only its sequence.
Settled(t, k, op, ok, paused) ==
    [t EXCEPT !.seq[k] = op.seq, !.pend[k] = Nil,
              !.paused = IF ok /\ k # "resize" THEN paused ELSE @,
              !.digest = IF ok /\ k = "control" /\ op.what \notin {"pause", "resume"}
                         THEN op.what ELSE @,
              !.size = IF ok /\ k = "resize" THEN op.what ELSE @]

Installs(k, ok, paused) == outdated' = IF ok /\ k # "resize" THEN paused # frozen ELSE outdated

\* complete_* and finish_*_error.  A signal or resize that was taken over is
\* followed by the caller's own.
Complete(c) ==
    /\ rpc[c].stage = "reply"
    /\ LET k == rpc[c].ask.class
           op == rpc[c].op
           ok == rpc[c].reply = "ok"
           new == Settled(task, k, op, ok, rpc[c].paused)
       IN  IF \/ rpc[c].reply = "retry" \/ task.pend[k] # op
              \/ ok /\ ~Valid(task, k, op, rpc[c].paused)
           THEN Finish(c) /\ UNCHANGED <<task, meta, controlFaults, outdated>>
           ELSE \/ /\ Stored(new)
                   /\ task' = new
                   /\ Installs(k, ok, rpc[c].paused)
                   /\ IF ok /\ op.what # rpc[c].ask.what
                      THEN rpc' = [rpc EXCEPT ![c].stage = "ready", ![c].op = Nil]
                      ELSE Finish(c)
                \/ StoreFailed(new) /\ Finish(c) /\ UNCHANGED <<task, outdated>>
    /\ UNCHANGED <<restore, runtimeVars>>

\* A State request reads the runtime and later installs what it read.
ReadState(c) ==
    /\ rpc[c].stage = "idle" /\ task # Nil
    /\ rpc' = [rpc EXCEPT ![c] = [IdleRpc EXCEPT !.stage = "read", !.paused = frozen]]
    /\ UNCHANGED <<task, meta, restore, runtimeVars, outdated, controlFaults>>

RefreshTask(c) ==
    /\ rpc[c].stage = "read"
    /\ task' = [task EXCEPT !.paused = rpc[c].paused]
    /\ outdated' = (rpc[c].paused # frozen)
    /\ Finish(c)
    /\ UNCHANGED <<meta, restore, runtimeVars, controlFaults>>

InitExits ==
    /\ alive /\ ~frozen
    /\ alive' = FALSE
    /\ UNCHANGED <<task, meta, restore, rpc, frozen, done, effects, outdated, controlFaults>>

\* record_exit keeps the exit in memory even when it cannot be stored.
RecordExit ==
    /\ task # Nil /\ ~alive /\ ~task.exit
    /\ LET new == [task EXCEPT !.exit = TRUE]
       IN  task' = new /\ (Stored(new) \/ StoreFailed(new))
    /\ UNCHANGED <<restore, rpc, runtimeVars, outdated>>

-----------------------------------------------------------------------------
(* Crash and rehydration.                                                    *)

ShimCrash ==
    /\ task # Nil \/ restore # Nil
    /\ Fault
    /\ task' = Nil
    /\ restore' = Nil
    /\ rpc' = [c \in Rpcs |-> IdleRpc]
    /\ UNCHANGED <<meta, runtimeVars, outdated>>

\* Mutant: the record is taken from the metadata, which does not keep it.
RehydrateFromMetadata ==
    /\ task = Nil /\ restore = Nil
    /\ restore' = [task |-> [meta EXCEPT !.exit = @ \/ ~alive],
                   phase |-> "control", reply |-> "none", paused |-> frozen]
    /\ UNCHANGED <<task, meta, rpc, runtimeVars, outdated, controlFaults>>

\* The exact runtime state is read, and the exit of a stopped init recovered.
Rehydrate ==
    /\ task = Nil /\ restore = Nil
    /\ restore' = [task |-> [meta EXCEPT !.paused = frozen, !.exit = @ \/ ~alive],
                   phase |-> "control", reply |-> "none", paused |-> frozen]
    /\ UNCHANGED <<task, meta, rpc, runtimeVars, outdated, controlFaults>>

After(phase) ==
    CASE phase = "control" -> "signal" [] phase = "signal" -> "resize" [] OTHER -> "publish"

\* replay_pending of each class in turn; signals and resizes of an init known
\* to have exited are settled without a call.
ReplayDispatch ==
    /\ restore # Nil /\ restore.phase # "publish" /\ restore.reply = "none"
    /\ LET k == restore.phase
           op == restore.task.pend[k]
       IN  \/ /\ op = Nil
              /\ restore' = [restore EXCEPT !.phase = After(k)]
              /\ UNCHANGED <<runtimeVars, controlFaults>>
           \/ /\ op # Nil /\ k # "control" /\ restore.task.exit
              /\ restore' = [restore EXCEPT !.reply = "ok", !.paused = restore.task.paused]
              /\ UNCHANGED <<runtimeVars, controlFaults>>
           \/ /\ op # Nil /\ ~(k # "control" /\ restore.task.exit)
              /\ \E reply \in {"ok", "error", "retry"} :
                   /\ RuntimeCall(k, op, reply)
                   /\ restore' = IF reply = "retry" THEN Nil
                                 ELSE [restore EXCEPT !.reply = reply, !.paused = frozen']
    /\ UNCHANGED <<task, meta, rpc, outdated>>

ReplayCommit ==
    /\ restore # Nil /\ restore.reply # "none"
    /\ LET k == restore.phase
           ok == restore.reply = "ok"
           op == restore.task.pend[k]
           new == Settled(restore.task, k, op, ok, restore.paused)
       IN  IF ok /\ ~Valid(restore.task, k, op, restore.paused)
           THEN restore' = Nil /\ UNCHANGED <<meta, controlFaults>>
           ELSE \/ /\ Stored(new)
                   /\ restore' = [restore EXCEPT !.task = new, !.phase = After(k), !.reply = "none"]
                \/ StoreFailed(new) /\ restore' = Nil
    /\ UNCHANGED <<task, rpc, runtimeVars, outdated>>

\* The task is stored once more and published; a failure leaves a shim that
\* only reports the error, which containerd replaces.
Publish ==
    /\ restore # Nil /\ restore.phase = "publish"
    /\ \/ /\ Stored(restore.task)
          /\ task' = restore.task
          /\ outdated' = FALSE
       \/ StoreFailed(restore.task) /\ UNCHANGED <<task, outdated>>
    /\ restore' = Nil
    /\ UNCHANGED <<rpc, runtimeVars>>

RequestStep(c) == Prepare(c) \/ Dispatch(c) \/ Complete(c) \/ RefreshTask(c)

ControlNext ==
    \/ \E c \in Rpcs : RequestStep(c) \/ ReadState(c)
    \/ \E c \in Rpcs, q \in Asks : ControlCall(c, q)
    \/ InitExits \/ RecordExit
    \/ ShimCrash \/ Rehydrate \/ ReplayDispatch \/ ReplayCommit \/ Publish

ControlFairness == \A c \in Rpcs : SF_controlVars(RequestStep(c))

ControlSpec == ControlInit /\ [][ControlNext]_controlVars /\ ControlFairness
-----------------------------------------------------------------------------
(* Properties.                                                               *)

Copies == {meta} \cup (IF task = Nil THEN {} ELSE {task})

\* Whatever the runtime did is in the metadata, settled or pending, so that a
\* replacement shim knows of it (prepare before dispatch, settle after it).
EffectsAreJournaled ==
    \A i \in Identities : effects[i] > 0 =>
        \/ meta.seq[i[1]] >= i[2]
        \/ meta.pend[i[1]] # Nil /\ meta.pend[i[1]].seq = i[2]

\* A sequence stands for one request: what is pending under it, in memory or
\* on disk, is what the runtime decided under it, across failed stores,
\* rollbacks, crashes and replays.
SequenceNamesOneRequest ==
    \A t \in Copies, k \in Classes : t.pend[k] # Nil =>
        /\ t.pend[k].seq = t.seq[k] + 1
        /\ LET d == done[<<k, t.pend[k].seq>>] IN d # Nil => d.what = t.pend[k].what

\* The freezer flag that answers Pause and Resume without a call is the
\* container's, unless a record read before another operation completed was
\* installed after it (State and Kill answers).
RecordIsCurrent ==
    task # Nil /\ alive /\ ~outdated /\ task.pend["control"] = Nil => task.paused = frozen

\* Every request is answered: the gates, the takeover loop of signals and
\* resizes and failed stores never leave one waiting.
RequestsAreAnswered == \A c \in Rpcs : rpc[c].stage # "idle" ~> rpc[c].stage = "idle"
=============================================================================
