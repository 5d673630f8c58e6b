---------------------------- MODULE ClientProofs -----------------------------
(* Two clients of the host that journal what they ask of it.                 *)
(*                                                                           *)
(* The controls, signals and resizes of the shim, for any set of requests    *)
(* and any number of sequences, requests at a time and faults (ControlInv,   *)
(* FlagInv).  The OCI command line, for any bundles, signals and bounds:     *)
(* whatever process dies, whatever answer is lost or wrong, its journal      *)
(* knows its container and its unanswered operations (CliInv).               *)
EXTENDS ShimControl, OciCli, TLAPS

-----------------------------------------------------------------------------
(* The controls of the shim.                                                 *)

Rpc == [stage : {"idle", "gate", "ready", "call", "reply", "read"}, ask : Asks \cup {Nil},
        op : Pendings \cup {Nil}, reply : {"none", "ok", "error", "retry"}, paused : BOOLEAN]
Rehydration == [task : Tasks, phase : Classes \cup {"publish"}, reply : {"none", "ok", "error"},
                paused : BOOLEAN]

ControlTypes ==
    /\ task \in Tasks \cup {Nil}
    /\ meta \in Tasks
    /\ restore \in Rehydration \cup {Nil}
    /\ rpc \in [Rpcs -> Rpc]
    /\ frozen \in BOOLEAN
    /\ alive \in BOOLEAN
    /\ done \in [Identities -> [what : Whats, outcome : {"ok", "error"}] \cup {Nil}]
    /\ effects \in [Identities -> Nat]

\* What is pending has the next sequence, within the bound, and is what the
\* runtime decided under that sequence.
ProperIn(t, outcomes) ==
    \A k \in Classes : t.pend[k] # Nil =>
        /\ t.pend[k].seq = t.seq[k] + 1 /\ t.pend[k].seq <= MaxSequence
        /\ LET d == outcomes[<<k, t.pend[k].seq>>] IN d # Nil => d.what = t.pend[k].what
Proper(t) == ProperIn(t, done)

\* The file may be one step ahead of memory: a pending operation that was not
\* sent, or a settled one that memory still has as pending.
InStep(t, k) == meta.seq[k] = t.seq[k] /\ meta.pend[k] = t.pend[k]
AheadUnsent(t, k) ==
    /\ meta.seq[k] = t.seq[k] /\ t.pend[k] = Nil /\ meta.pend[k] # Nil
    /\ done[<<k, t.seq[k] + 1>>] = Nil /\ effects[<<k, t.seq[k] + 1>>] = 0
AheadSettled(t, k) ==
    t.pend[k] # Nil /\ meta.pend[k] = Nil /\ meta.seq[k] = t.seq[k] + 1

\* A request past the gate has it for itself; one that is being sent is what
\* memory has as pending.
Gated ==
    /\ \A c \in Rpcs : rpc[c].stage # "idle" => task # Nil
    /\ \A c \in Rpcs : rpc[c].stage \in {"gate", "ready", "call", "reply"} => rpc[c].ask # Nil
    /\ \A c, d \in Rpcs :
          /\ rpc[c].stage \in {"ready", "call", "reply"} /\ rpc[d].stage \in {"ready", "call", "reply"}
          /\ rpc[c].ask.class = rpc[d].ask.class
          => c = d
    /\ \A c \in Rpcs : rpc[c].stage \in {"call", "reply"} =>
          rpc[c].op # Nil /\ task.pend[rpc[c].ask.class] = rpc[c].op

\* Every operation the runtime decided or carried out is in t.
CoversIn(t, outcomes, counts) ==
    \A k \in Classes, n \in 1 .. MaxSequence :
        outcomes[<<k, n>>] # Nil \/ counts[<<k, n>>] # 0 =>
            n <= t.seq[k] \/ (t.pend[k] # Nil /\ t.pend[k].seq = n)
Covers(t) == CoversIn(t, done, effects)

Rehydrating ==
    restore # Nil =>
        /\ task = Nil
        /\ \A k \in Classes : InStep(restore.task, k)
        /\ restore.reply # "none" => restore.phase # "publish" /\ restore.task.pend[restore.phase] # Nil

\* Memory and file: both are proper, the file has everything, and it is at most
\* one step ahead.
Tracks ==
    /\ Covers(meta) /\ Proper(meta)
    /\ task # Nil =>
          /\ Proper(task)
          /\ \A k \in Classes : InStep(task, k) \/ AheadUnsent(task, k) \/ AheadSettled(task, k)

ControlInv == ControlTypes /\ Gated /\ Rehydrating /\ Tracks

Same(s, t) == s.seq = t.seq /\ s.pend = t.pend

-----------------------------------------------------------------------------
(* The records.                                                              *)

\* The metadata of a task is a task with the same operations and sequence numbers.
LEMMA MetadataSame ==
    ASSUME NEW t \in Tasks
    PROVE  Metadata(t) \in Tasks /\ Same(Metadata(t), t)
BY Zenon DEF Metadata, Tasks, Same

\* The task a prepared operation leaves.
LEMMA PreparedTask ==
    ASSUME NEW t \in Tasks, NEW k \in Classes, NEW op \in Pendings
    PROVE  LET s == [t EXCEPT !.pend[k] = op]
           IN  /\ s \in Tasks
               /\ s.seq = t.seq
               /\ s.pend = [t.pend EXCEPT ![k] = op]
BY Zenon DEF Tasks

-----------------------------------------------------------------------------
(* Memory and file.                                                          *)

\* Memory knows what the file knows.
LEMMA MemoryCovers == ControlInv /\ task # Nil => Covers(task)
<1> SUFFICES ASSUME ControlInv, task # Nil, NEW k \in Classes, NEW n \in 1 .. MaxSequence,
                    done[<<k, n>>] # Nil \/ effects[<<k, n>>] # 0
             PROVE  n <= task.seq[k] \/ (task.pend[k] # Nil /\ task.pend[k].seq = n)
  BY Zenon DEF Covers, CoversIn
<1>1. n <= meta.seq[k] \/ (meta.pend[k] # Nil /\ meta.pend[k].seq = n)
  BY Zenon DEF ControlInv, Tracks, Covers, CoversIn
<1>2. task \in Tasks /\ meta \in Tasks /\ task.seq[k] \in Nat /\ meta.seq[k] \in Nat
  BY Zenon DEF ControlInv, ControlTypes, Tasks
<1>3. CASE InStep(task, k)
  BY Zenon, <1>1, <1>3 DEF InStep
<1>4. CASE AheadUnsent(task, k)
  BY Zenon, <1>1, <1>2, <1>4, ControlAssumption DEF AheadUnsent, ControlInv, Tracks, Proper, ProperIn
<1>5. CASE AheadSettled(task, k)
  <2>1. task.pend[k] # Nil /\ meta.seq[k] = task.seq[k] + 1 /\ meta.pend[k] = Nil
    BY Zenon, <1>5 DEF AheadSettled
  <2>2. task.pend[k].seq = task.seq[k] + 1
    BY Zenon, <2>1 DEF ControlInv, Tracks, Proper, ProperIn
  <2> QED BY <1>1, <1>2, <2>1, <2>2
<1> QED BY Zenon, <1>3, <1>4, <1>5 DEF ControlInv, Tracks

\* A file that holds t.
LEMMA StoreHolds ==
    ASSUME UNCHANGED <<done, effects>>, NEW t \in Tasks, Proper(t), Covers(t), Same(meta', t)
    PROVE  Covers(meta)' /\ Proper(meta)'
BY DEF Covers, CoversIn, Proper, ProperIn, Same

\* A task that was stored, in memory or not yet there.
LEMMA StoreInStep ==
    ASSUME UNCHANGED <<done, effects>>, NEW t \in Tasks, Proper(t), Covers(t),
           Same(meta', t), task' = Nil \/ Same(task', t)
    PROVE  Tracks'
<1>1. Covers(meta)' /\ Proper(meta)'
  BY Zenon, StoreHolds
<1>2. ASSUME task' # Nil
      PROVE  Proper(task)' /\ \A k \in Classes : InStep(task, k)'
  BY Zenon, <1>2 DEF Proper, ProperIn, Same, InStep
<1> QED BY Zenon, <1>1, <1>2 DEF Tracks

\* The operation that Prepare makes is new to the runtime.
LEMMA PrepareIsNew ==
    ASSUME ControlInv, task # Nil, NEW k \in Classes, task.pend[k] = Nil,
           NEW op \in Pendings, op.seq = task.seq[k] + 1, op.seq <= MaxSequence
    PROVE  /\ done[<<k, op.seq>>] = Nil /\ effects[<<k, op.seq>>] = 0
           /\ Proper([task EXCEPT !.pend[k] = op]) /\ Covers([task EXCEPT !.pend[k] = op])
<1> DEFINE new == [task EXCEPT !.pend[k] = op]
<1>1. task \in Tasks /\ task.seq[k] \in Nat
  BY Zenon DEF ControlInv, ControlTypes, Tasks
<1>2. new \in Tasks /\ new.seq = task.seq /\ new.pend = [task.pend EXCEPT ![k] = op]
  BY Zenon, <1>1, PreparedTask
<1>3. Covers(task) /\ Proper(task)
  BY Zenon, MemoryCovers DEF ControlInv, Tracks
<1>4. op.seq \in 1 .. MaxSequence
  BY <1>1, ControlAssumption
<1>5. done[<<k, op.seq>>] = Nil /\ effects[<<k, op.seq>>] = 0
  BY <1>1, <1>3, <1>4 DEF Covers, CoversIn
<1> HIDE DEF new
<1>6. \A j \in Classes : new.pend[j] = IF j = k THEN op ELSE task.pend[j]
  BY Zenon, <1>1, <1>2 DEF Tasks
<1>7. Proper(new)
  BY Zenon, <1>2, <1>3, <1>5, <1>6 DEF Proper, ProperIn
<1>8. Covers(new)
  BY <1>2, <1>3, <1>6 DEF Covers, CoversIn
<1> QED BY Zenon, <1>5, <1>7, <1>8 DEF new

\* The operation that Complete settles leaves the rest as it was.
LEMMA SettleIsKnown ==
    ASSUME NEW t \in Tasks, Proper(t), Covers(t), NEW k \in Classes, t.pend[k] # Nil,
           NEW s \in Tasks, s.seq = [t.seq EXCEPT ![k] = t.pend[k].seq],
           s.pend = [t.pend EXCEPT ![k] = Nil]
    PROVE  Proper(s) /\ Covers(s)
<1>1. t.pend[k].seq = t.seq[k] + 1
  BY Zenon DEF Proper, ProperIn
<1>2. ASSUME NEW j \in Classes
      PROVE  /\ t.seq[j] \in Nat
             /\ s.seq[j] = IF j = k THEN t.seq[k] + 1 ELSE t.seq[j]
             /\ s.pend[j] = IF j = k THEN Nil ELSE t.pend[j]
  <2>1. t.seq \in [Classes -> Nat] /\ t.pend \in [Classes -> Pendings \cup {Nil}]
    BY Zenon DEF Tasks
  <2> QED BY Zenon, <1>1, <2>1
<1>3. Proper(s)
  <2> SUFFICES ASSUME NEW j \in Classes, s.pend[j] # Nil
               PROVE  /\ s.pend[j].seq = s.seq[j] + 1 /\ s.pend[j].seq <= MaxSequence
                      /\ done[<<j, s.pend[j].seq>>] # Nil =>
                            done[<<j, s.pend[j].seq>>].what = s.pend[j].what
    BY Zenon DEF Proper, ProperIn
  <2>1. j # k /\ s.pend[j] = t.pend[j] /\ s.seq[j] = t.seq[j]
    BY Zenon, <1>2
  <2> QED BY Zenon, <2>1 DEF Proper, ProperIn
<1>4. Covers(s)
  BY <1>1, <1>2, ControlAssumption DEF Covers, CoversIn
<1> QED BY Zenon, <1>3, <1>4

-----------------------------------------------------------------------------
(* Requests.                                                                 *)

Sending == {"call", "reply"}
PastGate == {"ready", "call", "reply"}

\* One request changes, and the pending operations of the others do not.
LEMMA GatedStep ==
    ASSUME ControlTypes, Gated, NEW c \in Rpcs, NEW r \in Rpc, rpc' = [rpc EXCEPT ![c] = r],
           task # Nil => task' # Nil,
           r.stage # "idle" => task' # Nil,
           r.stage \in PastGate \cup {"gate"} => r.ask # Nil,
           r.stage \in PastGate =>
               \A d \in Rpcs \ {c} : rpc[d].stage \in PastGate => rpc[d].ask.class # r.ask.class,
           r.stage \in Sending => r.op # Nil /\ task'.pend[r.ask.class] = r.op,
           \A d \in Rpcs \ {c} : rpc[d].stage \in Sending =>
               task'.pend[rpc[d].ask.class] = task.pend[rpc[d].ask.class]
    PROVE  rpc' \in [Rpcs -> Rpc] /\ Gated'
<1>1. rpc' \in [Rpcs -> Rpc]
  BY Zenon DEF ControlTypes
<1>2. \A d \in Rpcs : rpc'[d] = IF d = c THEN r ELSE rpc[d]
  BY Zenon DEF ControlTypes
<1> QED BY <1>1, <1>2 DEF Gated, Sending, PastGate

\* A request that ends.
LEMMA GatedFinish ==
    ASSUME ControlTypes, Gated, NEW c \in Rpcs, Finish(c),
           task # Nil => task' # Nil,
           \A d \in Rpcs \ {c} : rpc[d].stage \in Sending =>
               task'.pend[rpc[d].ask.class] = task.pend[rpc[d].ask.class]
    PROVE  rpc' \in [Rpcs -> Rpc] /\ Gated'
<1>1. IdleRpc \in Rpc /\ IdleRpc.stage = "idle"
  BY Zenon DEF IdleRpc, Rpc
<1> QED BY Zenon, <1>1, GatedStep DEF Finish, Sending, PastGate

\* An operation is stored as pending.
LEMMA PrepareStep == ASSUME ControlInv, NEW c \in Rpcs, Prepare(c) PROVE ControlInv'
<1> DEFINE q == rpc[c].ask
           k == q.class
           p == task.pend[k]
           op == [seq |-> task.seq[k] + 1, what |-> q.what]
           new == [task EXCEPT !.pend[k] = op]
<1>1. /\ task \in Tasks /\ task # Nil /\ GateFree(c) /\ q \in Asks /\ k \in Classes /\ restore = Nil
      /\ rpc[c] \in Rpc
  BY Zenon, ControlAssumption
     DEF Prepare, ControlInv, ControlTypes, Gated, GateFree, Rehydrating, Rpc
<1>2. op \in Pendings /\ op.seq = task.seq[k] + 1
  BY <1>1 DEF Pendings, Tasks, Whats
<1>3. \A d \in Rpcs \ {c} : rpc[d].stage \in PastGate => rpc[d].ask.class # k
  BY Zenon, <1>1 DEF GateFree, PastGate, ControlInv, Gated
<1>4. /\ UNCHANGED <<restore, frozen, alive, done, effects>>
  BY Zenon DEF Prepare, runtimeVars
<1>5. CASE /\ p # Nil /\ UNCHANGED <<task, meta>>
           /\ rpc' = [rpc EXCEPT ![c].stage = "call", ![c].op = p]
  <2> DEFINE r == [rpc[c] EXCEPT !.stage = "call", !.op = p]
  <2>1. /\ r \in Rpc /\ r.stage = "call" /\ r.ask = q /\ r.op = p
        /\ rpc' = [rpc EXCEPT ![c] = r]
    BY ZenonT(30), <1>1, <1>5 DEF Rpc, Tasks, ControlInv, ControlTypes
  <2> HIDE DEF r
  <2>2. /\ r.stage \in Sending /\ r.stage # "idle" /\ r.ask # Nil /\ r.op # Nil
        /\ task'.pend[r.ask.class] = r.op /\ task' # Nil
        /\ \A d \in Rpcs \ {c} : rpc[d].stage \in PastGate => rpc[d].ask.class # r.ask.class
    BY Zenon, <1>1, <1>3, <1>5, <2>1, ControlAssumption DEF Sending
  <2>3. rpc' \in [Rpcs -> Rpc] /\ Gated'
    BY Zenon, <1>5, <2>1, <2>2, GatedStep DEF ControlInv
  <2> QED BY Zenon, <1>1, <1>4, <1>5, <2>3
             DEF ControlInv, ControlTypes, Rehydrating, Tracks, Covers, Proper, InStep, AheadUnsent,
                 AheadSettled
<1>6. CASE Finish(c) /\ UNCHANGED <<task, meta>>
  <2>1. rpc' \in [Rpcs -> Rpc] /\ Gated'
    BY Zenon, <1>6, GatedFinish DEF ControlInv
  <2> QED BY Zenon, <1>1, <1>4, <1>6, <2>1
             DEF ControlInv, ControlTypes, Rehydrating, Tracks, Covers, Proper, InStep, AheadUnsent,
                 AheadSettled
<1>7. CASE /\ p = Nil /\ op.seq <= MaxSequence
           /\ meta' = Metadata(new) /\ task' = new
           /\ rpc' = [rpc EXCEPT ![c].stage = "call", ![c].op = op]
  <2> DEFINE r == [rpc[c] EXCEPT !.stage = "call", !.op = op]
  <2>1. /\ r \in Rpc /\ r.stage = "call" /\ r.ask = q /\ r.op = op
        /\ rpc' = [rpc EXCEPT ![c] = r]
    BY Zenon, <1>1, <1>2, <1>7 DEF Rpc, ControlInv, ControlTypes
  <2>2. /\ new \in Tasks /\ new.seq = task.seq /\ new.pend = [task.pend EXCEPT ![k] = op]
        /\ task.pend \in [Classes -> Pendings \cup {Nil}]
    BY Zenon, <1>1, <1>2, PreparedTask DEF Tasks
  <2>3. Proper(new) /\ Covers(new)
    BY Zenon, <1>1, <1>2, <1>7, PrepareIsNew
  <2>4. meta' \in Tasks /\ Same(meta', new) /\ Same(task', new)
    BY Zenon, <1>7, <2>2, MetadataSame DEF Same
  <2>5. Tracks'
    BY Zenon, <1>4, <2>2, <2>3, <2>4, StoreInStep
  <2> HIDE DEF r
  <2>6. /\ r.stage \in Sending /\ r.stage # "idle" /\ r.ask # Nil /\ r.op # Nil
        /\ task'.pend[r.ask.class] = r.op /\ task' # Nil
        /\ \A d \in Rpcs \ {c} : rpc[d].stage \in PastGate => rpc[d].ask.class # r.ask.class
    BY SMTT(40), <1>1, <1>2, <1>3, <1>7, <2>1, <2>2, ControlAssumption DEF Sending
  <2>7. \A d \in Rpcs \ {c} : rpc[d].stage \in Sending =>
           task'.pend[rpc[d].ask.class] = task.pend[rpc[d].ask.class]
    BY <1>1, <1>3, <1>7, <2>2, ControlAssumption
       DEF Sending, PastGate, ControlInv, ControlTypes, Gated, Rpc
  <2>8. rpc' \in [Rpcs -> Rpc] /\ Gated'
    BY Zenon, <2>1, <2>6, <2>7, GatedStep DEF ControlInv
  <2> QED BY Zenon, <1>1, <1>4, <1>7, <2>2, <2>4, <2>5, <2>8 DEF ControlInv, ControlTypes, Rehydrating
<1>8. CASE /\ p = Nil /\ op.seq <= MaxSequence
           /\ meta' \in {meta, Metadata(new)} /\ Finish(c) /\ UNCHANGED task
  <2>1. rpc' \in [Rpcs -> Rpc] /\ Gated'
    BY Zenon, <1>8, GatedFinish DEF ControlInv
  <2>2. /\ new \in Tasks /\ new.seq = task.seq /\ new.pend = [task.pend EXCEPT ![k] = op]
        /\ task.pend \in [Classes -> Pendings \cup {Nil}]
    BY Zenon, <1>1, <1>2, PreparedTask DEF Tasks
  <2>3. /\ Proper(new) /\ Covers(new)
        /\ done[<<k, op.seq>>] = Nil /\ effects[<<k, op.seq>>] = 0
    BY Zenon, <1>1, <1>2, <1>8, PrepareIsNew
  <2>4. CASE meta' = meta
    BY Zenon, <1>1, <1>4, <1>8, <2>1, <2>4
       DEF ControlInv, ControlTypes, Rehydrating, Tracks, Covers, Proper, InStep, AheadUnsent,
           AheadSettled
  <2>5. CASE meta' = Metadata(new)
    <3>1. meta' \in Tasks /\ meta'.seq = task.seq /\ meta'.pend = new.pend /\ Same(meta', new)
      BY Zenon, <2>2, <2>5, MetadataSame DEF Same
    <3>2. Covers(meta)' /\ Proper(meta)'
      BY Zenon, <1>4, <2>2, <2>3, <3>1, StoreHolds
    <3>3. Proper(task)'
      BY Zenon, <1>1, <1>4, <1>8 DEF ControlInv, Tracks, Proper, ProperIn
    <3>4. ASSUME NEW j \in Classes
          PROVE  InStep(task, j)' \/ AheadUnsent(task, j)'
      BY Zenon, <1>1, <1>2, <1>4, <1>8, <2>2, <2>3, <3>1, ControlAssumption DEF InStep, AheadUnsent
    <3>5. Tracks'
      BY Zenon, <3>2, <3>3, <3>4 DEF Tracks
    <3> QED BY Zenon, <1>1, <1>4, <1>8, <2>1, <3>1, <3>5 DEF ControlInv, ControlTypes, Rehydrating
  <2> QED BY Zenon, <1>8, <2>4, <2>5
<1> HIDE DEF new, op, p, k, q
<1> QED BY Zenon, <1>5, <1>6, <1>7, <1>8 DEF Prepare, Stored, StoreFailed, new, op, p, k, q

\* The runtime decides or answers: only the outcome of the operation sent changes.
LEMMA CallDecides ==
    ASSUME ControlTypes, NEW k \in Classes, NEW op \in Pendings, op.seq \in 1 .. MaxSequence,
           NEW reply, RuntimeCall(k, op, reply)
    PROVE  /\ frozen' \in BOOLEAN /\ alive' \in BOOLEAN
           /\ done' \in [Identities -> [what : Whats, outcome : {"ok", "error"}] \cup {Nil}]
           /\ effects' \in [Identities -> Nat]
           /\ \A i \in Identities \ {<<k, op.seq>>} : done'[i] = done[i] /\ effects'[i] = effects[i]
           /\ \/ done'[<<k, op.seq>>].what = op.what
              \/ UNCHANGED <<done, effects>>
<1>1. CASE Decide(k, op)
  <2>1. frozen' \in BOOLEAN /\ alive' \in BOOLEAN
    BY Zenon, <1>1 DEF Decide
  <2>2. op.what \in Whats /\ <<k, op.seq>> \in Identities /\ Verdict(k, op.what) \in {"ok", "error"}
    BY Zenon DEF Pendings, Identities, Verdict
  <2>3. /\ done' \in [Identities -> [what : Whats, outcome : {"ok", "error"}] \cup {Nil}]
        /\ done'[<<k, op.seq>>].what = op.what
        /\ \A i \in Identities \ {<<k, op.seq>>} : done'[i] = done[i]
    BY Zenon, <1>1, <2>2 DEF Decide, ControlTypes
  <2>4. /\ effects' \in [Identities -> Nat]
        /\ \A i \in Identities \ {<<k, op.seq>>} : effects'[i] = effects[i]
    BY <1>1, <2>2 DEF Decide, ControlTypes
  <2> QED BY Zenon, <2>1, <2>3, <2>4
<1>2. CASE UNCHANGED runtimeVars
  BY Zenon, <1>2 DEF runtimeVars, ControlTypes
<1> QED BY Zenon, <1>1, <1>2 DEF RuntimeCall

\* A call for an operation that t has, pending or settled, leaves t as good.
LEMMA CallOnTrack ==
    ASSUME ControlTypes, NEW k \in Classes, NEW op \in Pendings, op.seq \in 1 .. MaxSequence,
           NEW reply, RuntimeCall(k, op, reply), NEW t \in Tasks, Proper(t), Covers(t),
           t.pend[k] = op \/ (t.pend[k] = Nil /\ t.seq[k] = op.seq)
    PROVE  ProperIn(t, done') /\ CoversIn(t, done', effects')
<1>1. /\ \A i \in Identities \ {<<k, op.seq>>} : done'[i] = done[i] /\ effects'[i] = effects[i]
      /\ done'[<<k, op.seq>>].what = op.what \/ UNCHANGED <<done, effects>>
  BY Zenon, CallDecides
<1>2. op # Nil
  BY Zenon, ControlAssumption
<1>3. ASSUME NEW j \in Classes, t.pend[j] # Nil
      PROVE  /\ t.pend[j].seq = t.seq[j] + 1 /\ t.pend[j].seq <= MaxSequence
             /\ LET d == done'[<<j, t.pend[j].seq>>] IN d # Nil => d.what = t.pend[j].what
  <2>1. /\ t.pend[j].seq = t.seq[j] + 1 /\ t.pend[j].seq <= MaxSequence
        /\ LET d == done[<<j, t.pend[j].seq>>] IN d # Nil => d.what = t.pend[j].what
    BY Zenon, <1>3 DEF Proper, ProperIn
  <2>2. <<j, t.pend[j].seq>> \in Identities
    BY <2>1, ControlAssumption DEF Identities, Tasks
  <2>3. CASE j = k
    BY Zenon, <1>1, <1>3, <2>1, <2>3
  <2>4. CASE j # k
    BY Zenon, <1>1, <2>1, <2>2, <2>4
  <2> QED BY Zenon, <2>3, <2>4
<1>4. ASSUME NEW j \in Classes, NEW n \in 1 .. MaxSequence,
             done'[<<j, n>>] # Nil \/ effects'[<<j, n>>] # 0
      PROVE  n <= t.seq[j] \/ (t.pend[j] # Nil /\ t.pend[j].seq = n)
  <2>1. CASE j = k /\ n = op.seq
    BY <1>2, <2>1
  <2>2. CASE ~(j = k /\ n = op.seq)
    <3>1. <<j, n>> \in Identities \ {<<k, op.seq>>}
      BY Zenon, <2>2 DEF Identities
    <3> QED BY Zenon, <1>1, <1>4, <3>1 DEF Covers, CoversIn
  <2> QED BY Zenon, <2>1, <2>2
<1> QED BY Zenon, <1>3, <1>4 DEF ProperIn, CoversIn

\* A pending operation goes to the runtime.
LEMMA DispatchStep == ASSUME ControlInv, NEW c \in Rpcs, Dispatch(c) PROVE ControlInv'
<1> DEFINE k == rpc[c].ask.class
           op == rpc[c].op
<1>1. rpc[c].stage = "call" /\ UNCHANGED <<task, meta, restore>>
  BY Zenon DEF Dispatch
<1>2. PICK reply \in {"ok", "error", "retry"} :
         /\ RuntimeCall(k, op, reply)
         /\ rpc' = [rpc EXCEPT ![c].stage = "reply", ![c].reply = reply, ![c].paused = frozen']
  BY Zenon DEF Dispatch
<1>3. /\ rpc[c] \in Rpc /\ rpc[c].ask \in Asks /\ k \in Classes /\ op \in Pendings
      /\ op # Nil /\ task # Nil /\ task \in Tasks /\ meta \in Tasks /\ task.pend[k] = op
      /\ restore = Nil
  BY Zenon, <1>1, ControlAssumption DEF ControlInv, ControlTypes, Gated, Rpc, Rehydrating
<1>4. op.seq = task.seq[k] + 1 /\ op.seq \in 1 .. MaxSequence /\ task.seq[k] \in Nat
  <2>1. op.seq = task.seq[k] + 1 /\ op.seq <= MaxSequence
    BY Zenon, <1>3 DEF ControlInv, Tracks, Proper, ProperIn
  <2>2. task.seq[k] \in Nat
    BY Zenon, <1>3 DEF Tasks
  <2> QED BY <2>1, <2>2, ControlAssumption
<1>5. meta.pend[k] = op \/ (meta.pend[k] = Nil /\ meta.seq[k] = op.seq)
  BY Zenon, <1>3, <1>4 DEF ControlInv, Tracks, InStep, AheadUnsent, AheadSettled
<1>6. Proper(meta) /\ Covers(meta) /\ Proper(task) /\ Covers(task) /\ ControlTypes
  BY Zenon, <1>3, MemoryCovers DEF ControlInv, Tracks
<1>7. /\ frozen' \in BOOLEAN /\ alive' \in BOOLEAN
      /\ done' \in [Identities -> [what : Whats, outcome : {"ok", "error"}] \cup {Nil}]
      /\ effects' \in [Identities -> Nat]
      /\ \A i \in Identities \ {<<k, op.seq>>} : done'[i] = done[i] /\ effects'[i] = effects[i]
  BY Zenon, <1>2, <1>3, <1>4, <1>6, CallDecides
<1> HIDE DEF k, op
<1>8. ProperIn(meta, done') /\ CoversIn(meta, done', effects')
  BY Zenon, <1>2, <1>3, <1>4, <1>5, <1>6, CallOnTrack
<1>9. ProperIn(task, done') /\ CoversIn(task, done', effects')
  BY Zenon, <1>2, <1>3, <1>4, <1>5, <1>6, CallOnTrack
<1>10. ASSUME NEW j \in Classes
       PROVE  InStep(task, j)' \/ AheadUnsent(task, j)' \/ AheadSettled(task, j)'
  <2>1. CASE InStep(task, j)
    BY Zenon, <1>1, <2>1 DEF InStep
  <2>2. CASE AheadSettled(task, j)
    BY Zenon, <1>1, <2>2 DEF AheadSettled
  <2>3. CASE AheadUnsent(task, j)
    <3>1. j # k
      BY Zenon, <1>3, <2>3 DEF AheadUnsent
    <3>2. meta.pend[j].seq = meta.seq[j] + 1 /\ meta.pend[j].seq <= MaxSequence
      BY Zenon, <1>6, <2>3 DEF AheadUnsent, Proper, ProperIn
    <3>3. <<j, task.seq[j] + 1>> \in Identities \ {<<k, op.seq>>}
      BY <1>3, <2>3, <3>1, <3>2, ControlAssumption DEF AheadUnsent, Identities, Tasks
    <3> QED BY Zenon, <1>1, <1>7, <2>3, <3>3 DEF AheadUnsent
  <2> QED BY Zenon, <1>3, <2>1, <2>2, <2>3 DEF ControlInv, Tracks
<1>11. Tracks'
  BY Zenon, <1>1, <1>8, <1>9, <1>10 DEF Tracks, Proper, Covers
<1>12. rpc' \in [Rpcs -> Rpc] /\ Gated'
  <2> DEFINE r == [rpc[c] EXCEPT !.stage = "reply", !.reply = reply, !.paused = frozen']
  <2>1. /\ r \in Rpc /\ r.stage = "reply" /\ r.ask = rpc[c].ask /\ r.op = rpc[c].op
        /\ rpc' = [rpc EXCEPT ![c] = r]
    BY Zenon, <1>2, <1>3, <1>6, <1>7 DEF Rpc, ControlTypes
  <2> HIDE DEF r
  <2>2. /\ r.stage \in Sending /\ r.stage # "idle" /\ r.ask # Nil /\ r.op # Nil
        /\ task'.pend[r.ask.class] = r.op /\ task' # Nil
        /\ \A d \in Rpcs \ {c} : rpc[d].stage \in PastGate => rpc[d].ask.class # r.ask.class
    BY Zenon, <1>1, <1>3, <2>1, ControlAssumption DEF Sending, PastGate, ControlInv, Gated, k, op
  <2> QED BY Zenon, <1>1, <2>1, <2>2, GatedStep DEF ControlInv
<1> QED BY Zenon, <1>1, <1>3, <1>6, <1>7, <1>11, <1>12 DEF ControlInv, ControlTypes, Rehydrating

\* The outcome is stored and the call answered.
LEMMA CompleteStep == ASSUME ControlInv, NEW c \in Rpcs, Complete(c) PROVE ControlInv'
<1> DEFINE k == rpc[c].ask.class
           op == rpc[c].op
           ok == rpc[c].reply = "ok"
           new == Settled(task, k, op, ok, rpc[c].paused)
<1>1. rpc[c].stage = "reply" /\ UNCHANGED <<restore, frozen, alive, done, effects>>
  BY Zenon DEF Complete, runtimeVars
<1>2. /\ rpc[c] \in Rpc /\ rpc[c].ask \in Asks /\ k \in Classes /\ op \in Pendings
      /\ op # Nil /\ task # Nil /\ task \in Tasks /\ meta \in Tasks /\ task.pend[k] = op
      /\ restore = Nil /\ ok \in BOOLEAN /\ rpc[c].paused \in BOOLEAN
  BY Zenon, <1>1, ControlAssumption DEF ControlInv, ControlTypes, Gated, Rpc, Rehydrating
<1>3. op.seq = task.seq[k] + 1
  BY Zenon, <1>2 DEF ControlInv, Tracks, Proper, ProperIn
<1>4. /\ new \in Tasks /\ new.seq = [task.seq EXCEPT ![k] = op.seq]
      /\ new.pend = [task.pend EXCEPT ![k] = Nil]
  BY Zenon, <1>2 DEF Settled, Tasks, Pendings
<1> HIDE DEF new
<1>5. Proper(new) /\ Covers(new)
  <2>1. Proper(task) /\ Covers(task)
    BY Zenon, <1>2, MemoryCovers DEF ControlInv, Tracks
  <2> QED BY ZenonT(40), <1>2, <1>4, <2>1, SettleIsKnown
<1>6. \A d \in Rpcs \ {c} : rpc[d].stage \in PastGate => rpc[d].ask.class # k
  BY Zenon, <1>1 DEF PastGate, ControlInv, Gated
<1>7. \A d \in Rpcs \ {c} : rpc[d].stage \in Sending =>
         /\ new.pend[rpc[d].ask.class] = task.pend[rpc[d].ask.class]
         /\ task.pend[rpc[d].ask.class] = task.pend[rpc[d].ask.class]
  <2> SUFFICES ASSUME NEW d \in Rpcs \ {c}, rpc[d].stage \in Sending
               PROVE  new.pend[rpc[d].ask.class] = task.pend[rpc[d].ask.class]
    BY Zenon
  <2>1. rpc[d].ask \in Asks /\ rpc[d].ask.class # k
    BY Zenon, <1>6 DEF Sending, PastGate, ControlInv, ControlTypes, Gated, Rpc
  <2> QED BY Zenon, <1>2, <1>4, <2>1, ControlAssumption DEF Tasks
<1>8. CASE Finish(c) /\ UNCHANGED <<task, meta>>
  <2>1. rpc' \in [Rpcs -> Rpc] /\ Gated'
    BY Zenon, <1>8, GatedFinish DEF ControlInv
  <2> QED BY Zenon, <1>1, <1>2, <1>8, <2>1
             DEF ControlInv, ControlTypes, Rehydrating, Tracks, Covers, Proper, InStep, AheadUnsent,
                 AheadSettled
<1>9. CASE /\ meta' = Metadata(new) /\ task' = new
           /\ \/ rpc' = [rpc EXCEPT ![c].stage = "ready", ![c].op = Nil]
              \/ Finish(c)
  <2>1. meta' \in Tasks /\ Same(meta', new) /\ Same(task', new) /\ task' # Nil
    BY Zenon, <1>4, <1>9, MetadataSame, ControlAssumption DEF Same
  <2>2. Tracks'
    BY Zenon, <1>1, <1>4, <1>5, <2>1, StoreInStep
  <2>3. rpc' \in [Rpcs -> Rpc] /\ Gated'
    <3>1. CASE Finish(c)
      BY Zenon, <1>7, <1>9, <2>1, <3>1, GatedFinish DEF ControlInv
    <3>2. CASE rpc' = [rpc EXCEPT ![c].stage = "ready", ![c].op = Nil]
      <4> DEFINE r == [rpc[c] EXCEPT !.stage = "ready", !.op = Nil]
      <4>1. /\ r \in Rpc /\ r.stage = "ready" /\ r.ask = rpc[c].ask
            /\ rpc' = [rpc EXCEPT ![c] = r]
        BY Zenon, <1>2, <3>2 DEF Rpc, ControlInv, ControlTypes
      <4> HIDE DEF r
      <4>2. /\ r.stage \notin Sending /\ r.stage # "idle" /\ r.ask # Nil
            /\ \A d \in Rpcs \ {c} : rpc[d].stage \in PastGate => rpc[d].ask.class # r.ask.class
        BY Zenon, <1>2, <1>6, <4>1, ControlAssumption DEF Sending
      <4> QED BY Zenon, <1>7, <1>9, <2>1, <4>1, <4>2, GatedStep DEF ControlInv
    <3> QED BY Zenon, <1>9, <3>1, <3>2
  <2> QED BY Zenon, <1>1, <1>2, <1>4, <1>9, <2>1, <2>2, <2>3 DEF ControlInv, ControlTypes, Rehydrating
<1>10. CASE meta' \in {meta, Metadata(new)} /\ Finish(c) /\ UNCHANGED task
  <2>1. rpc' \in [Rpcs -> Rpc] /\ Gated'
    BY Zenon, <1>10, GatedFinish DEF ControlInv
  <2>2. CASE meta' = meta
    BY Zenon, <1>1, <1>2, <1>10, <2>1, <2>2
       DEF ControlInv, ControlTypes, Rehydrating, Tracks, Covers, Proper, InStep, AheadUnsent,
           AheadSettled
  <2>3. CASE meta' = Metadata(new)
    <3>1. meta' \in Tasks /\ Same(meta', new)
      BY Zenon, <1>4, <2>3, MetadataSame
    <3>2. Covers(meta)' /\ Proper(meta)'
      BY Zenon, <1>1, <1>4, <1>5, <3>1, StoreHolds
    <3>3. Proper(task)'
      BY Zenon, <1>1, <1>2, <1>10 DEF ControlInv, Tracks, Proper
    <3>4. ASSUME NEW j \in Classes
          PROVE  InStep(task, j)' \/ AheadSettled(task, j)'
      <4>1. task.seq \in [Classes -> Nat] /\ task.pend \in [Classes -> Pendings \cup {Nil}]
        BY Zenon, <1>2 DEF Tasks
      <4> QED BY <1>2, <1>3, <1>4, <1>10, <3>1, <4>1 DEF InStep, AheadSettled, Same
    <3>5. Tracks'
      BY Zenon, <3>2, <3>3, <3>4 DEF Tracks
    <3> QED BY Zenon, <1>1, <1>2, <1>10, <2>1, <3>1, <3>5 DEF ControlInv, ControlTypes, Rehydrating
  <2> QED BY Zenon, <1>10, <2>2, <2>3
<1> QED BY Zenon, <1>8, <1>9, <1>10 DEF Complete, Stored, StoreFailed, new, op, k, ok

\* A call arrives.
LEMMA CallStep ==
    ASSUME ControlInv, NEW c \in Rpcs, NEW q \in Asks, ControlCall(c, q) PROVE ControlInv'
<1> DEFINE r == [IdleRpc EXCEPT !.stage = "gate", !.ask = q]
<1>1. /\ task # Nil /\ rpc' = [rpc EXCEPT ![c] = r]
      /\ UNCHANGED <<task, meta, restore, frozen, alive, done, effects>>
  BY Zenon DEF ControlCall, runtimeVars
<1>2. r \in Rpc /\ r.stage = "gate" /\ r.ask # Nil
  BY Zenon, ControlAssumption DEF Rpc, IdleRpc
<1> HIDE DEF r
<1>3. rpc' \in [Rpcs -> Rpc] /\ Gated'
  BY Zenon, <1>1, <1>2, GatedStep DEF ControlInv, PastGate, Sending
<1> QED BY Zenon, <1>1, <1>3
           DEF ControlInv, ControlTypes, Rehydrating, Tracks, Covers, Proper, InStep, AheadUnsent,
               AheadSettled

\* A call reads the task under no lock.
LEMMA ReadStep == ASSUME ControlInv, NEW c \in Rpcs, ReadState(c) PROVE ControlInv'
<1> DEFINE r == [IdleRpc EXCEPT !.stage = "read", !.paused = frozen]
<1>1. /\ task # Nil /\ rpc' = [rpc EXCEPT ![c] = r]
      /\ UNCHANGED <<task, meta, restore, frozen, alive, done, effects>>
  BY Zenon DEF ReadState, runtimeVars
<1>2. r \in Rpc /\ r.stage = "read"
  BY Zenon DEF Rpc, IdleRpc, ControlInv, ControlTypes
<1> HIDE DEF r
<1>3. rpc' \in [Rpcs -> Rpc] /\ Gated'
  BY Zenon, <1>1, <1>2, GatedStep DEF ControlInv, PastGate, Sending
<1> QED BY Zenon, <1>1, <1>3
           DEF ControlInv, ControlTypes, Rehydrating, Tracks, Covers, Proper, InStep, AheadUnsent,
               AheadSettled

\* Memory changes in nothing that is journaled.
LEMMA SameTracks ==
    ASSUME ControlInv, task # Nil, task' \in Tasks, Same(task', task), meta' \in Tasks,
           Same(meta', meta), UNCHANGED <<done, effects>>
    PROVE  Tracks'
<1>1. task.seq = task'.seq /\ task.pend = task'.pend /\ meta.seq = meta'.seq /\ meta.pend = meta'.pend
  BY Zenon DEF Same
<1>2. Covers(meta)' /\ Proper(meta)' /\ Proper(task)'
  BY <1>1 DEF ControlInv, Tracks, Covers, CoversIn, Proper, ProperIn
<1>3. ASSUME NEW k \in Classes
      PROVE  InStep(task, k)' \/ AheadUnsent(task, k)' \/ AheadSettled(task, k)'
  BY Zenon, <1>1 DEF ControlInv, Tracks, InStep, AheadUnsent, AheadSettled
<1> QED BY Zenon, <1>2, <1>3 DEF Tracks

\* A call reads the runtime's state and stores it.
LEMMA RefreshStep == ASSUME ControlInv, NEW c \in Rpcs, RefreshTask(c) PROVE ControlInv'
<1>1. /\ rpc[c].stage = "read" /\ task' = [task EXCEPT !.paused = rpc[c].paused] /\ Finish(c)
      /\ UNCHANGED <<meta, restore, frozen, alive, done, effects>>
  BY Zenon DEF RefreshTask, runtimeVars
<1>2. task # Nil /\ task \in Tasks /\ meta \in Tasks /\ rpc[c].paused \in BOOLEAN
  BY Zenon, <1>1 DEF ControlInv, ControlTypes, Gated, Rpc
<1>3. task' \in Tasks /\ Same(task', task) /\ task' # Nil /\ Same(meta', meta)
  BY Zenon, <1>1, <1>2, ControlAssumption DEF Tasks, Same
<1>4. rpc' \in [Rpcs -> Rpc] /\ Gated'
  BY Zenon, <1>1, <1>3, GatedFinish DEF ControlInv, Same
<1>5. Tracks'
  BY Zenon, <1>1, <1>2, <1>3, SameTracks
<1> QED BY Zenon, <1>1, <1>2, <1>3, <1>4, <1>5 DEF ControlInv, ControlTypes, Rehydrating

\* The init process exits.
LEMMA ExitStep == ASSUME ControlInv, InitExits PROVE ControlInv'
<1>1. alive' = FALSE /\ UNCHANGED <<task, meta, restore, rpc, frozen, done, effects>>
  BY Zenon DEF InitExits
<1> QED BY Zenon, <1>1
           DEF ControlInv, ControlTypes, Gated, Rehydrating, Tracks, Covers, Proper, InStep,
               AheadUnsent, AheadSettled

\* The watcher stores the exit.
LEMMA RecordStep == ASSUME ControlInv, RecordExit PROVE ControlInv'
<1> DEFINE new == [task EXCEPT !.exit = TRUE]
<1>1. /\ task # Nil /\ task' = new /\ meta' \in {meta, Metadata(new)}
      /\ UNCHANGED <<restore, rpc, frozen, alive, done, effects>>
  BY Zenon DEF RecordExit, Stored, StoreFailed, runtimeVars
<1>2. task \in Tasks /\ meta \in Tasks /\ restore = Nil
  BY Zenon, <1>1 DEF ControlInv, ControlTypes, Rehydrating
<1>3. new \in Tasks /\ Same(new, task) /\ new # Nil
  BY ZenonT(40), <1>2, ControlAssumption DEF Tasks, Same
<1> HIDE DEF new
<1>4. Tracks' /\ meta' \in Tasks
  <2>1. CASE meta' = meta
    BY Zenon, <1>1, <1>2, <1>3, <2>1, SameTracks DEF Same
  <2>2. CASE meta' = Metadata(new)
    <3>1. meta' \in Tasks /\ Same(meta', task) /\ Same(task', task)
      BY Zenon, <1>1, <1>3, <2>2, MetadataSame DEF Same
    <3>2. Covers(task) /\ Proper(task)
      BY Zenon, <1>1, MemoryCovers DEF ControlInv, Tracks
    <3> QED BY Zenon, <1>1, <1>2, <3>1, <3>2, StoreInStep
  <2> QED BY Zenon, <1>1, <2>1, <2>2
<1>5. Gated'
  BY Zenon, <1>1, <1>3 DEF ControlInv, Gated, Same
<1> QED BY Zenon, <1>1, <1>2, <1>3, <1>4, <1>5 DEF ControlInv, ControlTypes, Rehydrating

-----------------------------------------------------------------------------
(* Crash and rehydration.                                                    *)

\* The shim dies; the store stays.
LEMMA CrashStep == ASSUME ControlInv, ShimCrash PROVE ControlInv'
<1>1. /\ task' = Nil /\ restore' = Nil /\ rpc' = [c \in Rpcs |-> IdleRpc]
      /\ UNCHANGED <<meta, frozen, alive, done, effects>>
  BY Zenon DEF ShimCrash, runtimeVars
<1>2. IdleRpc \in Rpc /\ IdleRpc.stage = "idle"
  BY Zenon DEF IdleRpc, Rpc
<1> QED BY Zenon, <1>1, <1>2
           DEF ControlInv, ControlTypes, Gated, Rehydrating, Tracks, Covers, Proper, InStep,
               AheadUnsent, AheadSettled

\* A new shim reads the store.
LEMMA RehydrateStep == ASSUME ControlInv, Rehydrate PROVE ControlInv'
<1> DEFINE t == [meta EXCEPT !.paused = frozen, !.exit = @ \/ ~alive]
<1>1. /\ task = Nil
      /\ restore' = [task |-> t, phase |-> "control", reply |-> "none", paused |-> frozen]
      /\ UNCHANGED <<task, meta, rpc, frozen, alive, done, effects>>
  BY Zenon DEF Rehydrate, runtimeVars
<1>2. t \in Tasks /\ Same(t, meta)
  BY Zenon DEF ControlInv, ControlTypes, Tasks, Same
<1> HIDE DEF t
<1>3. restore' \in Rehydration /\ restore'.task = t /\ restore'.reply = "none"
  BY Zenon, <1>1, <1>2 DEF Rehydration, Classes, ControlInv, ControlTypes
<1>4. Rehydrating'
  BY Zenon, <1>1, <1>2, <1>3 DEF Rehydrating, InStep, Same
<1> QED BY Zenon, <1>1, <1>3, <1>4
           DEF ControlInv, ControlTypes, Gated, Tracks, Covers, Proper, InStep, AheadUnsent,
               AheadSettled

\* A replayed operation's outcome is stored.
LEMMA ReplayCommitStep == ASSUME ControlInv, ReplayCommit PROVE ControlInv'
<1> DEFINE k == restore.phase
           ok == restore.reply = "ok"
           op == restore.task.pend[k]
           new == Settled(restore.task, k, op, ok, restore.paused)
<1>1. restore # Nil /\ restore.reply # "none" /\ UNCHANGED <<task, rpc, frozen, alive, done, effects>>
  BY Zenon DEF ReplayCommit, runtimeVars
<1>2. /\ restore \in Rehydration /\ restore.task \in Tasks /\ restore.paused \in BOOLEAN
      /\ task = Nil /\ k \in Classes /\ op # Nil /\ op \in Pendings /\ meta \in Tasks
  BY Zenon, <1>1 DEF ControlInv, ControlTypes, Rehydrating, Rehydration, Tasks
<1>3. Same(restore.task, meta)
  BY SMTT(30), <1>1, <1>2 DEF ControlInv, Rehydrating, InStep, Same, Tasks
<1>4. Proper(restore.task) /\ Covers(restore.task)
  BY SMTT(30), <1>3 DEF ControlInv, Tracks, Same, Proper, ProperIn, Covers, CoversIn
<1>5. /\ new \in Tasks /\ new.seq = [restore.task.seq EXCEPT ![k] = op.seq]
      /\ new.pend = [restore.task.pend EXCEPT ![k] = Nil]
  BY Zenon, <1>2 DEF Settled, Tasks, Pendings
<1> HIDE DEF new
<1>6. Proper(new) /\ Covers(new)
  BY Zenon, <1>2, <1>4, <1>5, SettleIsKnown
<1>7. meta' = meta \/ meta' = Metadata(new)
  BY Zenon DEF ReplayCommit, Stored, StoreFailed, new
<1>8. Tracks' /\ meta' \in Tasks
  <2>1. CASE meta' = meta
    BY Zenon, <1>1, <1>2, <2>1 DEF ControlInv, Tracks, Covers, Proper
  <2>2. CASE meta' = Metadata(new)
    <3>1. meta' \in Tasks /\ Same(meta', new)
      BY Zenon, <1>5, <2>2, MetadataSame
    <3> QED BY Zenon, <1>1, <1>2, <1>5, <1>6, <3>1, StoreInStep
  <2> QED BY Zenon, <1>7, <2>1, <2>2
<1>9. restore' \in Rehydration \cup {Nil} /\ Rehydrating'
  <2>1. CASE restore' = Nil
    BY Zenon, <2>1 DEF Rehydrating
  <2>2. CASE /\ meta' = Metadata(new)
             /\ restore' = [restore EXCEPT !.task = new, !.phase = After(k), !.reply = "none"]
    <3>1. Same(meta', new)
      BY Zenon, <1>5, <2>2, MetadataSame
    <3>2. restore' \in Rehydration /\ restore'.task = new /\ restore'.reply = "none"
      BY Zenon, <1>2, <1>5, <2>2 DEF Rehydration, After, Classes
    <3> QED BY Zenon, <1>1, <1>2, <3>1, <3>2 DEF Rehydrating, InStep, Same
  <2> QED BY Zenon, <2>1, <2>2 DEF ReplayCommit, Stored, new, op, k, ok
<1> QED BY Zenon, <1>1, <1>2, <1>8, <1>9 DEF ControlInv, ControlTypes, Gated

\* The recovered task is published.
LEMMA PublishStep == ASSUME ControlInv, Publish PROVE ControlInv'
<1>1. /\ restore # Nil /\ restore' = Nil /\ UNCHANGED <<rpc, frozen, alive, done, effects>>
      /\ meta' = meta \/ meta' = Metadata(restore.task)
      /\ task' = task \/ (task' = restore.task /\ meta' = Metadata(restore.task))
  BY Zenon DEF Publish, Stored, StoreFailed, runtimeVars
<1>2. restore.task \in Tasks /\ task = Nil /\ meta \in Tasks
  BY Zenon, <1>1 DEF ControlInv, ControlTypes, Rehydrating, Rehydration
<1>3. Same(restore.task, meta)
  BY <1>1, <1>2 DEF ControlInv, Rehydrating, InStep, Same, Tasks
<1>4. Proper(restore.task) /\ Covers(restore.task)
  <2>1. Proper(meta) /\ Covers(meta) BY Zenon DEF ControlInv, Tracks
  <2> QED BY SMTT(30), <1>3, <2>1 DEF Same, Proper, ProperIn, Covers, CoversIn
<1>5. meta' \in Tasks /\ Same(meta', restore.task)
  BY Zenon, <1>1, <1>2, <1>3, MetadataSame DEF Same
<1>6. Tracks'
  BY Zenon, <1>1, <1>2, <1>4, <1>5, StoreInStep DEF Same
<1>7. Gated'
  BY Zenon, <1>1, <1>2 DEF ControlInv, Gated
<1> QED BY Zenon, <1>1, <1>2, <1>5, <1>6, <1>7 DEF ControlInv, ControlTypes, Rehydrating

\* A stored pending operation is sent again.
LEMMA ReplayDispatchStep == ASSUME ControlInv, ReplayDispatch PROVE ControlInv'
<1> DEFINE k == restore.phase
           op == restore.task.pend[k]
<1>1. restore # Nil /\ restore.phase # "publish" /\ UNCHANGED <<task, meta, rpc>>
  BY Zenon DEF ReplayDispatch
<1>2. /\ restore \in Rehydration /\ restore.task \in Tasks /\ restore.task.paused \in BOOLEAN
      /\ task = Nil /\ k \in Classes /\ meta \in Tasks
  BY Zenon, <1>1 DEF ControlInv, ControlTypes, Rehydrating, Rehydration, Tasks
<1>3. \A j \in Classes : InStep(restore.task, j)
  BY Zenon, <1>1 DEF ControlInv, Rehydrating
<1>4. CASE /\ op = Nil /\ restore.reply = "none" /\ restore' = [restore EXCEPT !.phase = After(k)]
           /\ UNCHANGED runtimeVars
  <2>1. restore' \in Rehydration /\ restore'.task = restore.task /\ restore'.reply = "none"
    BY Zenon, <1>2, <1>4 DEF Rehydration, After, Classes
  <2> QED BY <1>1, <1>2, <1>3, <1>4, <2>1
             DEF ControlInv, ControlTypes, Gated, Rehydrating, Tracks, Covers, Proper, InStep,
                 runtimeVars
<1>5. CASE /\ op # Nil /\ UNCHANGED runtimeVars
           /\ restore' = [restore EXCEPT !.reply = "ok", !.paused = restore.task.paused]
  <2>1. /\ restore' \in Rehydration /\ restore'.task = restore.task
        /\ restore'.phase = restore.phase
    BY Zenon, <1>2, <1>5 DEF Rehydration
  <2> QED BY <1>1, <1>2, <1>3, <1>5, <2>1
             DEF ControlInv, ControlTypes, Gated, Rehydrating, Tracks, Covers, Proper, InStep,
                 runtimeVars
<1>6. ASSUME op # Nil, NEW reply \in {"ok", "error", "retry"}, RuntimeCall(k, op, reply),
             restore' = IF reply = "retry" THEN Nil
                        ELSE [restore EXCEPT !.reply = reply, !.paused = frozen']
      PROVE  ControlInv'
  <2>1. op \in Pendings /\ meta.pend[k] = op
    BY Zenon, <1>2, <1>3, <1>6 DEF InStep, Tasks
  <2>2. op.seq \in 1 .. MaxSequence
    <3>1. op.seq = meta.seq[k] + 1 /\ op.seq <= MaxSequence
      BY Zenon, <1>2, <1>6, <2>1 DEF ControlInv, Tracks, Proper, ProperIn
    <3>2. meta.seq[k] \in Nat
      BY Zenon, <1>2 DEF Tasks
    <3> QED BY <3>1, <3>2, ControlAssumption
  <2>3. ControlTypes /\ Proper(meta) /\ Covers(meta)
    BY Zenon DEF ControlInv, Tracks
  <2>4. /\ frozen' \in BOOLEAN /\ alive' \in BOOLEAN
        /\ done' \in [Identities -> [what : Whats, outcome : {"ok", "error"}] \cup {Nil}]
        /\ effects' \in [Identities -> Nat]
    BY Zenon, <1>2, <1>6, <2>1, <2>2, <2>3, CallDecides
  <2>5. restore' \in Rehydration \cup {Nil} /\ Rehydrating'
    <3>1. CASE reply = "retry"
      BY Zenon, <1>6, <3>1 DEF Rehydrating
    <3>2. CASE reply # "retry"
      <4>1. /\ restore' \in Rehydration /\ restore'.task = restore.task
            /\ restore'.phase = restore.phase
        BY Zenon, <1>2, <1>6, <2>4, <3>2 DEF Rehydration
      <4> QED BY Zenon, <1>1, <1>2, <1>3, <1>6, <4>1 DEF Rehydrating, InStep
    <3> QED BY Zenon, <3>1, <3>2
  <2> HIDE DEF op, k
  <2>6. ProperIn(meta, done') /\ CoversIn(meta, done', effects')
    BY Zenon, <1>2, <1>6, <2>1, <2>2, <2>3, CallOnTrack
  <2>7. Tracks'
    BY Zenon, <1>1, <1>2, <2>6 DEF Tracks, Proper, Covers
  <2> QED BY Zenon, <1>1, <1>2, <2>4, <2>5, <2>7 DEF ControlInv, ControlTypes, Gated
<1> QED BY Zenon, <1>4, <1>5, <1>6 DEF ReplayDispatch

-----------------------------------------------------------------------------
(* The freezer flag.  Only a control moves the freezer, and it stays pending *)
(* until its answer, or the record with it, is installed; one that was       *)
(* refused has moved nothing.                                                *)

RefusedIn(outcomes, k, op) ==
    outcomes[<<k, op.seq>>] # Nil /\ outcomes[<<k, op.seq>>].outcome = "error"

\* The flag of t is right unless its pending control has taken effect.
SteadyIn(t, outcomes, running, flag) ==
    /\ running
    /\ \/ t.pend["control"] = Nil
       \/ outcomes[<<"control", t.pend["control"].seq>>] = Nil
       \/ RefusedIn(outcomes, "control", t.pend["control"])
    => t.paused = flag

\* Pause and resume are pending as controls only.
ControlsOnly(t) ==
    \A k \in Classes : t.pend[k] # Nil /\ t.pend[k].what \in {"pause", "resume"} => k = "control"

FlagInv ==
    /\ outdated \in BOOLEAN
    /\ meta.exit => ~alive
    /\ ControlsOnly(meta)
    /\ task # Nil =>
          /\ task.exit => ~alive
          /\ ControlsOnly(task)
          /\ ~outdated => SteadyIn(task, done, alive, frozen)
    /\ restore # Nil =>
          /\ restore.task.exit => ~alive
          /\ SteadyIn(restore.task, done, alive, frozen)
          /\ alive /\ restore.reply = "ok" => restore.paused = frozen
          /\ restore.reply = "error" =>
                RefusedIn(done, restore.phase, restore.task.pend[restore.phase])
    /\ \A c \in Rpcs : rpc[c].stage = "reply" /\ rpc[c].reply \notin {"ok", "retry"} =>
          RefusedIn(done, rpc[c].ask.class, rpc[c].op)

\* A decided operation stays decided.
LEMMA CallKeeps ==
    ASSUME ControlTypes, NEW k \in Classes, NEW op \in Pendings, op.seq \in 1 .. MaxSequence,
           NEW reply, RuntimeCall(k, op, reply), NEW i \in Identities, done[i] # Nil
    PROVE  done'[i] = done[i]
<1>1. CASE Decide(k, op)
  <2>1. <<k, op.seq>> \in Identities BY Zenon DEF Identities
  <2>2. i # <<k, op.seq>> BY Zenon, <1>1 DEF Decide
  <2> QED BY Zenon, <1>1, <2>1, <2>2 DEF Decide, ControlTypes
<1>2. CASE UNCHANGED runtimeVars BY Zenon, <1>2 DEF runtimeVars
<1> QED BY Zenon, <1>1, <1>2 DEF RuntimeCall

\* What a call does to the freezer, and what its answer says.
LEMMA CallFlag ==
    ASSUME ControlTypes, NEW k \in Classes, NEW op \in Pendings, op.seq \in 1 .. MaxSequence,
           NEW reply, RuntimeCall(k, op, reply),
           op.what \in {"pause", "resume"} => k = "control",
           done[<<k, op.seq>>] # Nil => done[<<k, op.seq>>].what = op.what
    PROVE  /\ alive' => alive
           /\ reply = "error" => RefusedIn(done', k, op)
           /\ alive' /\ frozen' # frozen =>
                 /\ k = "control" /\ done[<<k, op.seq>>] = Nil
                 /\ done'[<<k, op.seq>>] # Nil /\ done'[<<k, op.seq>>].outcome = "ok"
<1>1. <<k, op.seq>> \in Identities BY Zenon DEF Identities
<1>2. CASE Decide(k, op)
  <2>1. done'[<<k, op.seq>>] = [what |-> op.what, outcome |-> Verdict(k, op.what)]
    BY Zenon, <1>1, <1>2 DEF Decide, ControlTypes
  <2>2. done'[<<k, op.seq>>] # Nil
    <3>1. op.what \in Whats /\ Verdict(k, op.what) \in {"ok", "error"}
      BY Zenon DEF Pendings, Verdict
    <3>2. [what |-> op.what, outcome |-> Verdict(k, op.what)]
             \in [what : Whats, outcome : {"ok", "error"}]
      BY Zenon, <3>1
    <3> QED BY Zenon, <2>1, <3>2, ControlAssumption
  <2>3. alive' => alive BY Zenon, <1>2 DEF Decide
  <2>4. reply = "error" => reply = Verdict(k, op.what)
    BY Zenon, <1>2 DEF RuntimeCall, Decide
  <2>5. ASSUME alive', frozen' # frozen
        PROVE  k = "control" /\ Verdict(k, op.what) = "ok"
    <3>1. frozen \in BOOLEAN BY Zenon DEF ControlTypes
    <3>2. ~(Accepts(k, op.what) /\ op.what \in {"pause", "resume"}) => frozen' = (alive' /\ frozen)
      BY Zenon, <1>2 DEF Decide
    <3>3. Accepts(k, op.what) /\ op.what \in {"pause", "resume"}
      BY Zenon, <2>5, <3>1, <3>2
    <3> QED BY Zenon, <3>3 DEF Verdict
  <2> QED BY <1>2, <2>1, <2>2, <2>3, <2>4, <2>5 DEF RefusedIn, Decide
<1>3. CASE /\ done[<<k, op.seq>>] # Nil
           /\ reply = done[<<k, op.seq>>].outcome
           /\ UNCHANGED runtimeVars
  BY Zenon, <1>3 DEF runtimeVars, RefusedIn
<1>4. CASE reply = "retry" /\ UNCHANGED runtimeVars
  BY Zenon, <1>4 DEF runtimeVars
<1> QED BY Zenon, <1>2, <1>3, <1>4 DEF RuntimeCall

\* A call for an operation that t has pending leaves the flag of t as right as it was.
LEMMA CallSteady ==
    ASSUME ControlTypes, NEW k \in Classes, NEW op \in Pendings, op.seq \in 1 .. MaxSequence,
           NEW reply, RuntimeCall(k, op, reply),
           NEW t \in Tasks, Proper(t), ControlsOnly(t), t.pend[k] = op,
           SteadyIn(t, done, alive, frozen)
    PROVE  SteadyIn(t, done', alive', frozen')
<1> DEFINE p == t.pend["control"]
<1>1. /\ op # Nil /\ "control" \in Classes /\ t.seq["control"] \in Nat
      /\ done[<<k, op.seq>>] # Nil => done[<<k, op.seq>>].what = op.what
      /\ op.what \in {"pause", "resume"} => k = "control"
  BY Zenon, ControlAssumption DEF Proper, ProperIn, ControlsOnly, Classes, Tasks
<1>2. /\ alive' => alive
      /\ alive' /\ frozen' # frozen =>
                 /\ k = "control" /\ done[<<k, op.seq>>] = Nil
                 /\ done'[<<k, op.seq>>] # Nil /\ done'[<<k, op.seq>>].outcome = "ok"
  BY <1>1, CallFlag
<1>3. p # Nil => <<"control", p.seq>> \in Identities
  BY <1>1, ControlAssumption DEF Proper, ProperIn, Identities
<1>4. p # Nil /\ done[<<"control", p.seq>>] # Nil =>
         done'[<<"control", p.seq>>] = done[<<"control", p.seq>>]
  BY Zenon, <1>3, CallKeeps
<1> SUFFICES ASSUME alive',
                    \/ p = Nil \/ done'[<<"control", p.seq>>] = Nil \/ RefusedIn(done', "control", p)
             PROVE  t.paused = frozen'
  BY Zenon DEF SteadyIn
<1>5. frozen' = frozen
  <2> SUFFICES ASSUME frozen' # frozen PROVE FALSE BY Zenon, SMTT(40)
  <2>1. p = op /\ done'[<<"control", p.seq>>] # Nil /\ done'[<<"control", p.seq>>].outcome = "ok"
    BY Zenon, <1>2
  <2> QED BY Zenon, <1>1, <2>1 DEF RefusedIn
<1>6. p = Nil \/ done[<<"control", p.seq>>] = Nil \/ RefusedIn(done, "control", p)
  BY Zenon, <1>4 DEF RefusedIn
<1> QED BY Zenon, <1>2, <1>5, <1>6 DEF SteadyIn

\* Settling an operation makes no other one pending.
LEMMA SettledOnly ==
    ASSUME NEW t \in Tasks, NEW k \in Classes, NEW s, s.pend = [t.pend EXCEPT ![k] = Nil],
           ControlsOnly(t)
    PROVE  ControlsOnly(s)
<1>1. \A j \in Classes : s.pend[j] = IF j = k THEN Nil ELSE t.pend[j]
  BY Zenon DEF Tasks
<1> QED BY Zenon, <1>1 DEF ControlsOnly

\* An operation that is settled leaves the flag right: a refused one has moved
\* nothing, and an answer brings the flag along.
LEMMA SettledSteady ==
    ASSUME NEW t \in Tasks, NEW k \in Classes, NEW op \in Pendings, NEW ok \in BOOLEAN,
           NEW paused \in BOOLEAN, t.pend[k] = op,
           ok /\ k # "resize" => (alive => paused = frozen),
           ~ok \/ k = "resize" => SteadyIn(t, done, alive, frozen),
           ~ok => RefusedIn(done, k, op)
    PROVE  SteadyIn(Settled(t, k, op, ok, paused), done, alive, frozen)
<1> DEFINE s == Settled(t, k, op, ok, paused)
<1> SUFFICES SteadyIn(s, done, alive, frozen)
  BY Zenon
<1>1. /\ s.paused = IF ok /\ k # "resize" THEN paused ELSE t.paused
      /\ s.pend = [t.pend EXCEPT ![k] = Nil]
  BY Zenon DEF Settled, Tasks
<1> HIDE DEF s
<1>2. "control" \in Classes /\ "resize" # "control" BY Zenon DEF Classes
<1>3. s.pend["control"] = IF k = "control" THEN Nil ELSE t.pend["control"]
  <2>1. t.pend \in [Classes -> Pendings \cup {Nil}] BY Zenon DEF Tasks
  <2> QED BY Zenon, <1>1, <1>2, <2>1
<1>4. CASE ok /\ k # "resize" BY Zenon, <1>1, <1>4 DEF SteadyIn
<1>5. CASE ~(ok /\ k # "resize")
  <2>1. s.paused = t.paused /\ SteadyIn(t, done, alive, frozen) BY Zenon, <1>1, <1>5
  <2>2. CASE k = "control"
    <3>1. ~ok BY Zenon, <1>5, <2>2
    <3>2. RefusedIn(done, "control", t.pend["control"]) BY Zenon, <2>2, <3>1
    <3> QED BY Zenon, <2>1, <3>2 DEF SteadyIn
  <2>3. CASE k # "control" BY Zenon, <1>3, <2>1, <2>3 DEF SteadyIn
  <2> QED BY Zenon, <2>2, <2>3
<1> QED BY Zenon, <1>4, <1>5

\* Storing keeps the operations and the exit.
LEMMA MetadataFlag ==
    ASSUME NEW t \in Tasks
    PROVE  Metadata(t).exit = t.exit /\ Metadata(t).pend = t.pend
BY Zenon DEF Metadata, Tasks

\* Answers of the other requests, when one changes into anything but an answer.
LEMMA RpcFlag ==
    ASSUME FlagInv, UNCHANGED done, \A d \in Rpcs : rpc'[d] = rpc[d] \/ rpc'[d].stage # "reply"
    PROVE  \A d \in Rpcs : rpc'[d].stage = "reply" /\ rpc'[d].reply \notin {"ok", "retry"} =>
              RefusedIn(done', rpc'[d].ask.class, rpc'[d].op)
BY Zenon DEF FlagInv

\* Preparing an operation keeps the stored status current.
LEMMA PrepareFlag == ASSUME ControlInv, FlagInv, NEW c \in Rpcs, Prepare(c) PROVE FlagInv'
<1> DEFINE q == rpc[c].ask
           k == q.class
           op == [seq |-> task.seq[k] + 1, what |-> q.what]
           new == [task EXCEPT !.pend[k] = op]
<1>1. /\ task \in Tasks /\ task # Nil /\ q \in Asks /\ k \in Classes /\ restore = Nil
      /\ rpc \in [Rpcs -> Rpc] /\ rpc[c] \in Rpc
  BY ZenonT(40), ControlAssumption
     DEF Prepare, ControlInv, ControlTypes, Gated, GateFree, Rehydrating, Rpc
<1>2. UNCHANGED <<restore, frozen, alive, done, effects, outdated>>
  BY Zenon DEF Prepare, runtimeVars
<1>3. \/ UNCHANGED <<task, meta>>
      \/ /\ task' \in {task, new} /\ meta' \in {meta, Metadata(new)}
         /\ task.pend[k] = Nil
  BY Zenon DEF Prepare, Stored, StoreFailed
<1>4. \A d \in Rpcs : rpc'[d] = rpc[d] \/ rpc'[d].stage # "reply"
  <2>1. \E r : rpc' = [rpc EXCEPT ![c] = r] /\ r.stage # "reply"
    <3>1. IdleRpc.stage # "reply" BY Zenon DEF IdleRpc
    <3>2. \A x : LET r == [rpc[c] EXCEPT !.stage = "call", !.op = x]
                 IN  r.stage # "reply" /\ [rpc EXCEPT ![c].stage = "call", ![c].op = x]
                                            = [rpc EXCEPT ![c] = r]
      BY ZenonT(40), <1>1 DEF Rpc
    <3>3. \/ rpc' = [rpc EXCEPT ![c].stage = "call", ![c].op = task.pend[k]]
          \/ rpc' = [rpc EXCEPT ![c].stage = "call", ![c].op = op]
          \/ Finish(c)
      BY Zenon DEF Prepare
    <3> HIDE DEF k, op
    <3>4. ASSUME NEW x, rpc' = [rpc EXCEPT ![c].stage = "call", ![c].op = x]
          PROVE  \E r : rpc' = [rpc EXCEPT ![c] = r] /\ r.stage # "reply"
      <4> DEFINE r == [rpc[c] EXCEPT !.stage = "call", !.op = x]
      <4>1. r.stage # "reply" /\ rpc' = [rpc EXCEPT ![c] = r] BY Zenon, <3>2, <3>4
      <4> HIDE DEF r
      <4> QED BY ZenonT(40), <4>1
    <3> QED BY Zenon, <3>1, <3>3, <3>4 DEF Finish
  <2> QED BY Zenon, <1>1, <2>1
<1>5. /\ new \in Tasks /\ new # Nil /\ new.paused = task.paused /\ new.exit = task.exit
      /\ new.pend = [task.pend EXCEPT ![k] = op]
      /\ task.pend \in [Classes -> Pendings \cup {Nil}]
  <2>1. op \in Pendings BY <1>1 DEF Pendings, Tasks, Whats
  <2>2. new \in Tasks /\ new.pend = [task.pend EXCEPT ![k] = op] BY <1>1, <2>1, PreparedTask
  <2>3. new.paused = task.paused /\ new.exit = task.exit BY Zenon, <1>1 DEF Tasks
  <2> QED BY Zenon, <1>1, <2>2, <2>3, ControlAssumption DEF Tasks
<1>6. op.what \in {"pause", "resume"} => k = "control"
  BY Zenon, <1>1, ControlAssumption
<1> HIDE DEF new
<1>7. \A j \in Classes : new.pend[j] = IF j = k THEN op ELSE task.pend[j]
  BY Zenon, <1>1, <1>5
<1> HIDE DEF op, k, q
<1>8. ControlsOnly(new)
  BY Zenon, <1>1, <1>6, <1>7 DEF FlagInv, ControlsOnly
<1>9. Metadata(new).exit = new.exit /\ Metadata(new).pend = new.pend
  BY Zenon, <1>5, MetadataFlag
<1>10. ControlsOnly(Metadata(new)) BY Zenon, <1>8, <1>9 DEF ControlsOnly
<1>11. ASSUME task.pend[k] = Nil, SteadyIn(task, done, alive, frozen)
       PROVE  SteadyIn(new, done, alive, frozen)
  <2>1. CASE k = "control" BY Zenon, <1>5, <1>11, <2>1 DEF SteadyIn
  <2>2. CASE k # "control"
    <3>1. new.pend["control"] = task.pend["control"] BY Zenon, <1>7, <2>2 DEF Classes
    <3> QED BY Zenon, <1>5, <1>11, <3>1 DEF SteadyIn
  <2> QED BY Zenon, <2>1, <2>2
<1>12. \A d \in Rpcs : rpc'[d].stage = "reply" /\ rpc'[d].reply \notin {"ok", "retry"} =>
          RefusedIn(done', rpc'[d].ask.class, rpc'[d].op)
  BY Zenon, <1>2, <1>4, RpcFlag
<1>13. /\ outdated' \in BOOLEAN
       /\ meta'.exit => ~alive'
       /\ ControlsOnly(meta')
  BY Zenon, <1>1, <1>2, <1>3, <1>5, <1>9, <1>10 DEF FlagInv
<1>14. /\ task'.exit => ~alive'
       /\ ControlsOnly(task')
  BY Zenon, <1>1, <1>2, <1>3, <1>5, <1>8 DEF FlagInv
<1>15. ~outdated' => SteadyIn(task', done', alive', frozen')
  <2>1. ~outdated => SteadyIn(task, done, alive, frozen) BY Zenon, <1>1 DEF FlagInv
  <2> QED BY Zenon, <1>2, <1>3, <1>11, <2>1
<1> QED BY Zenon, <1>1, <1>2, <1>12, <1>13, <1>14, <1>15 DEF FlagInv, ControlsOnly

\* Dispatching keeps it: only the operation in flight may be ahead of the
\* record.
LEMMA DispatchFlag == ASSUME ControlInv, FlagInv, NEW c \in Rpcs, Dispatch(c) PROVE FlagInv'
<1> DEFINE k == rpc[c].ask.class
           op == rpc[c].op
<1>1. rpc[c].stage = "call" /\ UNCHANGED <<task, meta, restore, outdated>>
  BY Zenon DEF Dispatch
<1>2. PICK reply \in {"ok", "error", "retry"} :
         /\ RuntimeCall(k, op, reply)
         /\ rpc' = [rpc EXCEPT ![c].stage = "reply", ![c].reply = reply, ![c].paused = frozen']
  BY ZenonT(40) DEF Dispatch
<1>3. /\ task # Nil /\ task \in Tasks /\ restore = Nil /\ ControlTypes
      /\ Proper(task) /\ ControlsOnly(task) /\ rpc \in [Rpcs -> Rpc]
  BY ZenonT(40), <1>1 DEF ControlInv, ControlTypes, Gated, Rehydrating, Tracks, FlagInv
<1>4. ASSUME NEW d \in Rpcs, rpc[d].stage \in Sending
      PROVE  /\ rpc[d].ask.class \in Classes /\ rpc[d].op \in Pendings /\ rpc[d].op # Nil
             /\ task.pend[rpc[d].ask.class] = rpc[d].op
             /\ rpc[d].op.seq \in 1 .. MaxSequence
  <2>1. /\ rpc[d].ask \in Asks /\ rpc[d].ask.class \in Classes /\ rpc[d].op \in Pendings
        /\ rpc[d].op # Nil /\ task.pend[rpc[d].ask.class] = rpc[d].op
    BY Zenon, <1>4, ControlAssumption DEF ControlInv, ControlTypes, Gated, Rpc, Sending
  <2>2. rpc[d].op.seq = task.seq[rpc[d].ask.class] + 1 /\ rpc[d].op.seq <= MaxSequence
    BY Zenon, <1>3, <2>1 DEF Proper, ProperIn
  <2>3. task.seq[rpc[d].ask.class] \in Nat BY Zenon, <1>3, <2>1 DEF Tasks
  <2> QED BY SMTT(40), <2>1, <2>2, <2>3, ControlAssumption
<1>5. /\ k \in Classes /\ op \in Pendings /\ op # Nil /\ task.pend[k] = op
      /\ op.seq \in 1 .. MaxSequence
  BY Zenon, <1>1, <1>4 DEF Sending
<1>6. /\ done[<<k, op.seq>>] # Nil => done[<<k, op.seq>>].what = op.what
      /\ op.what \in {"pause", "resume"} => k = "control"
  BY Zenon, <1>3, <1>5 DEF Proper, ProperIn, ControlsOnly
<1>7. ASSUME NEW d \in Rpcs \ {c}, rpc[d].stage = "reply", rpc[d].reply \notin {"ok", "retry"}
      PROVE  RefusedIn(done', rpc[d].ask.class, rpc[d].op)
  <2>1. RefusedIn(done, rpc[d].ask.class, rpc[d].op) BY Zenon, <1>7 DEF FlagInv
  <2>2. <<rpc[d].ask.class, rpc[d].op.seq>> \in Identities BY Zenon, <1>4, <1>7 DEF Identities, Sending
  <2> HIDE DEF k, op
  <2>3. done'[<<rpc[d].ask.class, rpc[d].op.seq>>] = done[<<rpc[d].ask.class, rpc[d].op.seq>>]
    BY Zenon, <1>2, <1>3, <1>5, <2>1, <2>2, CallKeeps DEF RefusedIn
  <2> QED BY Zenon, <2>1, <2>3 DEF RefusedIn
<1>8. /\ rpc'[c].ask = rpc[c].ask /\ rpc'[c].op = op /\ rpc'[c].reply = reply
      /\ \A d \in Rpcs \ {c} : rpc'[d] = rpc[d]
  BY ZenonT(40), <1>2, <1>3 DEF Rpc
<1> HIDE DEF k, op
<1>9. /\ alive' => alive
      /\ reply = "error" => RefusedIn(done', k, op)
  BY Zenon, <1>2, <1>3, <1>5, <1>6, CallFlag
<1>10. SteadyIn(task, done, alive, frozen) => SteadyIn(task, done', alive', frozen')
  BY Zenon, <1>2, <1>3, <1>5, CallSteady
<1>11. \A d \in Rpcs : rpc'[d].stage = "reply" /\ rpc'[d].reply \notin {"ok", "retry"} =>
          RefusedIn(done', rpc'[d].ask.class, rpc'[d].op)
  BY Zenon, <1>2, <1>7, <1>8, <1>9 DEF k
<1> QED BY Zenon, <1>1, <1>3, <1>9, <1>10, <1>11 DEF FlagInv, ControlsOnly

\* Storing the outcome brings the record up to date.
LEMMA CompleteFlag == ASSUME ControlInv, FlagInv, NEW c \in Rpcs, Complete(c) PROVE FlagInv'
<1> DEFINE k == rpc[c].ask.class
           op == rpc[c].op
           ok == rpc[c].reply = "ok"
           new == Settled(task, k, op, ok, rpc[c].paused)
<1>1. rpc[c].stage = "reply" /\ UNCHANGED <<restore, frozen, alive, done, effects>>
  BY Zenon DEF Complete, runtimeVars
<1>2. /\ rpc[c] \in Rpc /\ k \in Classes /\ op \in Pendings /\ rpc \in [Rpcs -> Rpc]
      /\ task # Nil /\ task \in Tasks /\ task.pend[k] = op
      /\ restore = Nil /\ ok \in BOOLEAN /\ rpc[c].paused \in BOOLEAN
  BY Zenon, <1>1, ControlAssumption DEF ControlInv, ControlTypes, Gated, Rpc, Rehydrating
<1>3. \/ UNCHANGED <<task, meta, outdated>>
      \/ UNCHANGED <<task, outdated>> /\ meta' = Metadata(new)
      \/ /\ task' = new /\ meta' = Metadata(new) /\ rpc[c].reply # "retry"
         /\ outdated' = IF ok /\ k # "resize" THEN rpc[c].paused # frozen ELSE outdated
  BY Zenon DEF Complete, Stored, StoreFailed, Installs
<1>4. \A d \in Rpcs : rpc'[d] = rpc[d] \/ rpc'[d].stage # "reply"
  <2>1. IdleRpc.stage # "reply" BY Zenon DEF IdleRpc
  <2> DEFINE r == [rpc[c] EXCEPT !.stage = "ready", !.op = Nil]
  <2>2. r.stage # "reply" /\ [rpc EXCEPT ![c].stage = "ready", ![c].op = Nil] = [rpc EXCEPT ![c] = r]
    BY Zenon, <1>2 DEF Rpc
  <2>3. rpc' = [rpc EXCEPT ![c].stage = "ready", ![c].op = Nil] \/ Finish(c)
    BY Zenon DEF Complete
  <2> HIDE DEF r
  <2>4. rpc' = [rpc EXCEPT ![c] = r] \/ rpc' = [rpc EXCEPT ![c] = IdleRpc]
    BY Zenon, <2>2, <2>3 DEF Finish
  <2> QED BY Zenon, <1>2, <2>1, <2>2, <2>4
<1>5. /\ new.exit = task.exit /\ ControlsOnly(new) /\ new \in Tasks /\ new # Nil
  <2>1. ControlsOnly(task) BY Zenon, <1>2 DEF FlagInv
  <2> HIDE DEF ok, k, op
  <2>2. new.exit = task.exit BY Zenon, <1>2 DEF Settled, Tasks
  <2>3. new \in Tasks /\ new.pend = [task.pend EXCEPT ![k] = Nil]
    BY Zenon, <1>2 DEF Settled, Tasks, Pendings
  <2> HIDE DEF new
  <2>4. ControlsOnly(new) BY Zenon, <1>2, <2>1, <2>3, SettledOnly
  <2> QED BY Zenon, <2>2, <2>3, <2>4, ControlAssumption
<1>6. ASSUME outdated' = (IF ok /\ k # "resize" THEN rpc[c].paused # frozen ELSE outdated),
             rpc[c].reply # "retry", ~outdated'
      PROVE  SteadyIn(new, done, alive, frozen)
  <2>1. ok /\ k # "resize" => rpc[c].paused = frozen
    BY Zenon, <1>6
  <2>2. ~ok \/ k = "resize" => ~outdated BY Zenon, <1>6
  <2>3. ~ok \/ k = "resize" => SteadyIn(task, done, alive, frozen) BY Zenon, <1>2, <2>2 DEF FlagInv
  <2>4. ~ok => RefusedIn(done, k, op) BY Zenon, <1>1, <1>6 DEF FlagInv
  <2> HIDE DEF ok, k, op
  <2> QED BY Zenon, <1>2, <2>1, <2>3, <2>4, SettledSteady
<1> HIDE DEF new
<1>7. Metadata(new).exit = new.exit /\ Metadata(new).pend = new.pend BY Zenon, <1>5, MetadataFlag
<1>8. ControlsOnly(Metadata(new)) BY Zenon, <1>5, <1>7 DEF ControlsOnly
<1>9. \A d \in Rpcs : rpc'[d].stage = "reply" /\ rpc'[d].reply \notin {"ok", "retry"} =>
          RefusedIn(done', rpc'[d].ask.class, rpc'[d].op)
  BY Zenon, <1>1, <1>4, RpcFlag
<1>10. /\ meta'.exit => ~alive'
       /\ ControlsOnly(meta')
       /\ task'.exit => ~alive'
       /\ ControlsOnly(task')
  BY Zenon, <1>1, <1>2, <1>3, <1>5, <1>7, <1>8 DEF FlagInv
<1>11. outdated' \in BOOLEAN BY Zenon, <1>3 DEF FlagInv
<1>12. ~outdated' => SteadyIn(task', done', alive', frozen')
  <2>1. ~outdated => SteadyIn(task, done, alive, frozen) BY Zenon, <1>2 DEF FlagInv
  <2>2. CASE UNCHANGED <<task, outdated>> BY Zenon, <1>1, <2>1, <2>2
  <2>3. CASE /\ task' = new /\ rpc[c].reply # "retry"
             /\ outdated' = IF ok /\ k # "resize" THEN rpc[c].paused # frozen ELSE outdated
    BY Zenon, <1>1, <1>6, <2>3
  <2> QED BY Zenon, <1>3, <2>2, <2>3
<1> QED BY Zenon, <1>1, <1>2, <1>9, <1>10, <1>11, <1>12 DEF FlagInv, ControlsOnly

\* Requests that begin, State requests, and exits.
LEMMA PlainFlag ==
    ASSUME ControlInv, FlagInv,
           \/ \E c \in Rpcs : ReadState(c) \/ RefreshTask(c)
           \/ \E c \in Rpcs, q \in Asks : ControlCall(c, q)
           \/ InitExits \/ RecordExit
    PROVE  FlagInv'
<1> USE DEF runtimeVars
<1>1. /\ rpc \in [Rpcs -> Rpc] /\ frozen \in BOOLEAN /\ alive \in BOOLEAN
      /\ task # Nil => task \in Tasks /\ restore = Nil
  BY Zenon DEF ControlInv, ControlTypes, Rehydrating
<1>2. ASSUME NEW c \in Rpcs, NEW r, rpc' = [rpc EXCEPT ![c] = r], r.stage # "reply", UNCHANGED done
      PROVE  \A d \in Rpcs : rpc'[d].stage = "reply" /\ rpc'[d].reply \notin {"ok", "retry"} =>
                RefusedIn(done', rpc'[d].ask.class, rpc'[d].op)
  BY Zenon, <1>1, <1>2, RpcFlag
<1>3. ASSUME NEW c \in Rpcs, ReadState(c) PROVE FlagInv'
  <2> DEFINE r == [IdleRpc EXCEPT !.stage = "read", !.paused = frozen]
  <2>1. r.stage # "reply" BY Zenon DEF IdleRpc
  <2>2. UNCHANGED <<task, meta, restore, frozen, alive, done, outdated>> /\ rpc' = [rpc EXCEPT ![c] = r]
    BY Zenon, <1>3 DEF ReadState
  <2> HIDE DEF r
  <2> QED BY Zenon, <1>2, <2>1, <2>2 DEF FlagInv, ControlsOnly
<1>4. ASSUME NEW c \in Rpcs, NEW q \in Asks, ControlCall(c, q) PROVE FlagInv'
  <2> DEFINE r == [IdleRpc EXCEPT !.stage = "gate", !.ask = q]
  <2>1. r.stage # "reply" BY Zenon DEF IdleRpc
  <2>2. UNCHANGED <<task, meta, restore, frozen, alive, done, outdated>> /\ rpc' = [rpc EXCEPT ![c] = r]
    BY Zenon, <1>4 DEF ControlCall
  <2> HIDE DEF r
  <2> QED BY Zenon, <1>2, <2>1, <2>2 DEF FlagInv, ControlsOnly
<1>5. ASSUME NEW c \in Rpcs, RefreshTask(c) PROVE FlagInv'
  <2>1. /\ task' = [task EXCEPT !.paused = rpc[c].paused] /\ outdated' = (rpc[c].paused # frozen)
        /\ rpc' = [rpc EXCEPT ![c] = IdleRpc] /\ UNCHANGED <<meta, restore, frozen, alive, done>>
        /\ task # Nil /\ rpc[c].paused \in BOOLEAN
    BY Zenon, <1>1, <1>5 DEF RefreshTask, Finish, ControlInv, Gated, Rpc
  <2>2. task'.paused = rpc[c].paused /\ task'.pend = task.pend /\ task'.exit = task.exit
    BY Zenon, <1>1, <2>1 DEF Tasks
  <2>3. \A d \in Rpcs : rpc'[d].stage = "reply" /\ rpc'[d].reply \notin {"ok", "retry"} =>
                RefusedIn(done', rpc'[d].ask.class, rpc'[d].op)
    <3>1. IdleRpc.stage # "reply" BY Zenon DEF IdleRpc
    <3> QED BY ZenonT(40), <1>2, <2>1, <3>1
  <2>4. outdated' \in BOOLEAN /\ (~outdated' => SteadyIn(task', done', alive', frozen'))
    BY Zenon, <2>1, <2>2 DEF SteadyIn
  <2> QED BY Zenon, <1>1, <2>1, <2>2, <2>3, <2>4 DEF FlagInv, ControlsOnly
<1>6. ASSUME InitExits PROVE FlagInv'
  <2>1. ~alive' /\ UNCHANGED <<task, meta, restore, rpc, frozen, done, outdated>>
    BY Zenon, <1>6 DEF InitExits
  <2>2. \A t : SteadyIn(t, done', alive', frozen') BY Zenon, <2>1 DEF SteadyIn
  <2> QED BY Zenon, <2>1, <2>2 DEF FlagInv, ControlsOnly
<1>7. ASSUME RecordExit PROVE FlagInv'
  <2> DEFINE new == [task EXCEPT !.exit = TRUE]
  <2>1. /\ ~alive /\ task # Nil /\ task' = new /\ meta' \in {meta, Metadata(new)}
        /\ UNCHANGED <<restore, rpc, frozen, alive, done, outdated>>
    BY Zenon, <1>7 DEF RecordExit, Stored, StoreFailed
  <2>2. new \in Tasks /\ new.pend = task.pend BY Zenon, <1>1, <2>1 DEF Tasks
  <2> HIDE DEF new
  <2>3. Metadata(new).pend = task.pend BY Zenon, <2>2, MetadataFlag
  <2>4. \A t : SteadyIn(t, done', alive', frozen') BY Zenon, <2>1 DEF SteadyIn
  <2>5. ControlsOnly(meta') /\ ControlsOnly(task') BY Zenon, <2>1, <2>2, <2>3 DEF FlagInv, ControlsOnly
  <2> QED BY Zenon, <1>1, <2>1, <2>4, <2>5 DEF FlagInv, ControlsOnly
<1> QED BY Zenon, <1>3, <1>4, <1>5, <1>6, <1>7

\* Crash, and the beginning and the end of rehydration.
LEMMA RestartFlag ==
    ASSUME ControlInv, FlagInv, ShimCrash \/ Rehydrate \/ Publish
    PROVE  FlagInv'
<1> USE DEF runtimeVars
<1>1. CASE ShimCrash
  <2>1. /\ task' = Nil /\ restore' = Nil /\ \A c \in Rpcs : rpc'[c].stage = "idle"
        /\ UNCHANGED <<meta, frozen, alive, done, outdated>>
    BY Zenon, <1>1 DEF ShimCrash, IdleRpc
  <2> QED BY Zenon, <2>1 DEF FlagInv, ControlsOnly
<1>2. CASE Rehydrate
  <2> DEFINE t == [meta EXCEPT !.paused = frozen, !.exit = @ \/ ~alive]
  <2>1. /\ task = Nil /\ UNCHANGED <<task, meta, rpc, frozen, alive, done, outdated>>
        /\ restore' = [task |-> t, phase |-> "control", reply |-> "none", paused |-> frozen]
    BY Zenon, <1>2 DEF Rehydrate
  <2>2. t.paused = frozen /\ t.exit = (meta.exit \/ ~alive)
    BY Zenon DEF ControlInv, ControlTypes, Tasks
  <2> HIDE DEF t
  <2>3. restore'.task = t /\ restore'.reply = "none" BY Zenon, <2>1
  <2>4. SteadyIn(t, done, alive, frozen) BY Zenon, <2>2 DEF SteadyIn
  <2>5. t.exit => ~alive BY Zenon, <2>2 DEF FlagInv
  <2> QED BY Zenon, <2>1, <2>3, <2>4, <2>5 DEF FlagInv, ControlsOnly
<1>3. CASE Publish
  <2>1. /\ restore # Nil /\ restore' = Nil /\ UNCHANGED <<rpc, frozen, alive, done>>
        /\ meta' = meta \/ meta' = Metadata(restore.task)
        /\ \/ UNCHANGED <<task, outdated>>
           \/ task' = restore.task /\ outdated' = FALSE
    BY Zenon, <1>3 DEF Publish, Stored, StoreFailed
  <2>2. restore.task \in Tasks /\ task = Nil
    BY Zenon, <2>1 DEF ControlInv, ControlTypes, Rehydrating, Rehydration
  <2>3. ControlsOnly(restore.task)
    BY Zenon, <2>1 DEF FlagInv, ControlInv, Rehydrating, InStep, ControlsOnly
  <2>4. Metadata(restore.task).exit = restore.task.exit /\ Metadata(restore.task).pend = restore.task.pend
    BY Zenon, <2>2, MetadataFlag
  <2>5. /\ restore.task.exit => ~alive
        /\ SteadyIn(restore.task, done, alive, frozen)
    BY Zenon, <2>1 DEF FlagInv
  <2>6. (meta'.exit => ~alive) /\ ControlsOnly(meta')
    BY Zenon, <2>1, <2>3, <2>4, <2>5 DEF FlagInv, ControlsOnly
  <2> QED BY Zenon, <2>1, <2>2, <2>3, <2>5, <2>6 DEF FlagInv, ControlsOnly
<1> QED BY Zenon, <1>1, <1>2, <1>3

\* Sending a stored operation again keeps it.
LEMMA ReplayDispatchFlag == ASSUME ControlInv, FlagInv, ReplayDispatch PROVE FlagInv'
<1> DEFINE k == restore.phase
           op == restore.task.pend[k]
<1>1. restore # Nil /\ restore.phase # "publish" /\ UNCHANGED <<task, meta, rpc, outdated>>
  BY Zenon DEF ReplayDispatch
<1>2. /\ restore \in Rehydration /\ restore.task \in Tasks /\ ControlTypes
      /\ task = Nil /\ k \in Classes /\ meta \in Tasks
  BY Zenon, <1>1 DEF ControlInv, ControlTypes, Rehydrating, Rehydration
<1>3. \A c \in Rpcs : rpc[c].stage = "idle" BY Zenon, <1>2 DEF ControlInv, Gated
<1>4. ControlsOnly(restore.task) /\ Proper(restore.task)
  BY <1>1, <1>2 DEF FlagInv, ControlInv, Tracks, Proper, ProperIn, Rehydrating, InStep, ControlsOnly
<1>5. /\ restore.task.exit => ~alive
      /\ SteadyIn(restore.task, done, alive, frozen)
  BY Zenon, <1>1 DEF FlagInv
<1>6. CASE /\ op = Nil /\ restore.reply = "none" /\ restore' = [restore EXCEPT !.phase = After(k)]
           /\ UNCHANGED runtimeVars
  <2>1. restore'.task = restore.task /\ restore'.reply = "none" BY Zenon, <1>2, <1>6 DEF Rehydration
  <2> QED BY Zenon, <1>1, <1>2, <1>3, <1>5, <1>6, <2>1 DEF FlagInv, ControlsOnly, runtimeVars
<1>7. CASE /\ restore.task.exit /\ UNCHANGED runtimeVars
           /\ restore' = [restore EXCEPT !.reply = "ok", !.paused = restore.task.paused]
  <2>1. restore'.task = restore.task /\ restore'.reply = "ok" BY Zenon, <1>2, <1>7 DEF Rehydration
  <2> QED BY Zenon, <1>1, <1>2, <1>3, <1>5, <1>7, <2>1 DEF FlagInv, ControlsOnly, runtimeVars
<1>8. ASSUME op # Nil, NEW reply \in {"ok", "error", "retry"}, RuntimeCall(k, op, reply),
             restore' = IF reply = "retry" THEN Nil
                        ELSE [restore EXCEPT !.reply = reply, !.paused = frozen']
      PROVE  FlagInv'
  <2>1. op \in Pendings BY Zenon, <1>2, <1>8 DEF Tasks
  <2>2. op.seq \in 1 .. MaxSequence
    <3>1. op.seq = restore.task.seq[k] + 1 /\ op.seq <= MaxSequence
      BY Zenon, <1>2, <1>4, <1>8 DEF Proper, ProperIn
    <3>2. restore.task.seq[k] \in Nat BY Zenon, <1>2 DEF Tasks
    <3> QED BY <3>1, <3>2, ControlAssumption
  <2>3. /\ done[<<k, op.seq>>] # Nil => done[<<k, op.seq>>].what = op.what
        /\ op.what \in {"pause", "resume"} => k = "control"
    BY Zenon, <1>2, <1>4, <1>8 DEF Proper, ProperIn, ControlsOnly
  <2>4. restore' # Nil => /\ restore'.task = restore.task /\ restore'.reply = reply
                          /\ restore'.paused = frozen' /\ restore'.phase = k
    BY Zenon, <1>2, <1>8 DEF Rehydration
  <2> HIDE DEF k
  <2>5. /\ alive' => alive
        /\ reply = "error" => RefusedIn(done', k, op)
    BY Zenon, <1>2, <1>8, <2>1, <2>2, <2>3, CallFlag
  <2>6. SteadyIn(restore.task, done', alive', frozen')
    BY Zenon, <1>2, <1>4, <1>5, <1>8, <2>1, <2>2, CallSteady
  <2> QED BY Zenon, <1>1, <1>2, <1>3, <1>5, <2>4, <2>5, <2>6 DEF FlagInv, ControlsOnly
<1> QED BY Zenon, <1>6, <1>7, <1>8 DEF ReplayDispatch

\* Storing a replayed outcome keeps it.
LEMMA ReplayCommitFlag == ASSUME ControlInv, FlagInv, ReplayCommit PROVE FlagInv'
<1> DEFINE k == restore.phase
           ok == restore.reply = "ok"
           op == restore.task.pend[k]
           new == Settled(restore.task, k, op, ok, restore.paused)
<1>1. /\ restore # Nil /\ restore.reply # "none"
      /\ UNCHANGED <<task, rpc, frozen, alive, done, effects, outdated>>
  BY Zenon DEF ReplayCommit, runtimeVars
<1>2. /\ restore \in Rehydration /\ restore.task \in Tasks /\ restore.paused \in BOOLEAN
      /\ task = Nil /\ k \in Classes /\ op # Nil /\ op \in Pendings /\ ok \in BOOLEAN
      /\ restore.reply \in {"ok", "error"}
  BY Zenon, <1>1 DEF ControlInv, ControlTypes, Rehydrating, Rehydration, Tasks
<1>3. ControlsOnly(restore.task)
  BY Zenon, <1>1 DEF FlagInv, ControlInv, Rehydrating, InStep, ControlsOnly
<1>4. /\ restore.task.exit => ~alive
      /\ SteadyIn(restore.task, done, alive, frozen)
      /\ ok => (alive => restore.paused = frozen)
      /\ ~ok => RefusedIn(done, k, op)
  BY Zenon, <1>1, <1>2 DEF FlagInv
<1>5. \/ restore' = Nil
      \/ restore' = [restore EXCEPT !.task = new, !.phase = After(k), !.reply = "none"]
  BY Zenon DEF ReplayCommit
<1>6. meta' = meta \/ meta' = Metadata(new)
  BY Zenon DEF ReplayCommit, Stored, StoreFailed
<1>7. SteadyIn(new, done, alive, frozen)
  <2> HIDE DEF ok, op, k
  <2>1. restore.task.pend[k] = op BY Zenon DEF op
  <2> QED BY Zenon, <1>2, <1>4, <2>1, SettledSteady
<1>8. /\ new.exit = restore.task.exit /\ ControlsOnly(new) /\ new \in Tasks
  <2> HIDE DEF ok, k, op
  <2>1. new.exit = restore.task.exit BY Zenon, <1>2 DEF Settled, Tasks
  <2>2. new \in Tasks /\ new.pend = [restore.task.pend EXCEPT ![k] = Nil]
    BY Zenon, <1>2 DEF Settled, Tasks, Pendings
  <2> HIDE DEF new
  <2>3. ControlsOnly(new) BY Zenon, <1>2, <1>3, <2>2, SettledOnly
  <2> QED BY Zenon, <2>1, <2>2, <2>3
<1> HIDE DEF new
<1>9. restore' # Nil => restore'.task = new /\ restore'.reply = "none"
  BY Zenon, <1>2, <1>5 DEF Rehydration
<1>10. Metadata(new).exit = new.exit /\ Metadata(new).pend = new.pend BY Zenon, <1>8, MetadataFlag
<1>11. (meta'.exit => ~alive) /\ ControlsOnly(meta')
  BY Zenon, <1>4, <1>6, <1>8, <1>10 DEF FlagInv, ControlsOnly
<1> QED BY Zenon, <1>1, <1>2, <1>4, <1>7, <1>8, <1>9, <1>11 DEF FlagInv, ControlsOnly

\* Every step keeps the record current.
LEMMA FlagNext == ControlInv /\ FlagInv /\ [ControlNext]_controlVars => FlagInv'
<1> SUFFICES ASSUME ControlInv, FlagInv, [ControlNext]_controlVars PROVE FlagInv'
  BY Zenon, SMTT(40)
<1>1. CASE UNCHANGED controlVars
  BY Zenon, <1>1 DEF FlagInv, ControlsOnly, controlVars
<1>2. ASSUME NEW c \in Rpcs, RequestStep(c) \/ ReadState(c) PROVE FlagInv'
  BY Zenon, <1>2, PrepareFlag, DispatchFlag, CompleteFlag, PlainFlag DEF RequestStep
<1>3. ASSUME NEW c \in Rpcs, NEW q \in Asks, ControlCall(c, q) PROVE FlagInv'
  BY Zenon, <1>3, PlainFlag
<1> QED BY Zenon, <1>1, <1>2, <1>3, PlainFlag, RestartFlag, ReplayDispatchFlag, ReplayCommitFlag
           DEF ControlNext

\* A task that was never paused is recorded as such.
LEMMA FlagInitially == ControlInit => FlagInv
<1> SUFFICES ASSUME ControlInit PROVE FlagInv
  BY Zenon
<1>1. NewTask \in Tasks BY Zenon DEF NewTask, Tasks
<1>2. /\ ~NewTask.exit /\ ~NewTask.paused /\ \A k \in Classes : NewTask.pend[k] = Nil
  BY Zenon DEF NewTask
<1>3. Metadata(NewTask).exit = NewTask.exit /\ Metadata(NewTask).pend = NewTask.pend
  BY Zenon, <1>1, MetadataFlag
<1>4. NewTask.paused = FALSE BY Zenon DEF NewTask
<1>5. SteadyIn(task, done, alive, frozen) BY Zenon, <1>4 DEF SteadyIn, ControlInit
<1> QED BY Zenon, <1>2, <1>3, <1>5 DEF ControlInit, FlagInv, ControlsOnly, IdleRpc

-----------------------------------------------------------------------------
(* The theorems.                                                             *)

\* The first shim of a task satisfies the invariant.
LEMMA ControlInitially == ControlInit => ControlInv
<1> SUFFICES ASSUME ControlInit PROVE ControlInv
  BY Zenon
<1>1. NewTask \in Tasks /\ NewTask # Nil
  <2>1. NewTask \in Tasks
    BY Zenon DEF NewTask, Tasks
  <2> QED BY Zenon, <2>1, ControlAssumption
<1>2. /\ Metadata(NewTask) \in Tasks /\ Same(Metadata(NewTask), NewTask)
  BY Zenon, <1>1, MetadataSame
<1>3. IdleRpc \in Rpc /\ IdleRpc.stage = "idle"
  BY Zenon DEF IdleRpc, Rpc
<1>4. ControlTypes
  BY Zenon, <1>1, <1>2, <1>3 DEF ControlInit, ControlTypes
<1>5. \A k \in Classes : NewTask.pend[k] = Nil /\ Metadata(NewTask).pend[k] = Nil
  BY Zenon, <1>2 DEF NewTask, Same
<1>6. Tracks
  <2>1. Covers(meta)
    BY Zenon DEF Covers, CoversIn, ControlInit, Identities
  <2> QED BY Zenon, <1>2, <1>5, <2>1 DEF Tracks, Proper, ProperIn, InStep, Same, ControlInit
<1>7. Gated /\ Rehydrating
  BY Zenon, <1>1, <1>3 DEF ControlInit, Gated, Rehydrating
<1> QED BY Zenon, <1>4, <1>6, <1>7 DEF ControlInv

\* The inductive invariant of the task's journal: the metadata covers what the
\* runtime did, memory and metadata differ by at most one step of a class, and
\* one request at a time is past the gate of a class.
THEOREM ControlInvHolds == ControlSpec => []ControlInv
<1>1. ControlInv /\ [ControlNext]_controlVars => ControlInv'
  <2> SUFFICES ASSUME ControlInv, [ControlNext]_controlVars PROVE ControlInv'
    BY Zenon, SMTT(40)
  <2>1. CASE UNCHANGED controlVars
    BY Zenon, <2>1
       DEF ControlInv, ControlTypes, Gated, Rehydrating, Tracks, Covers, Proper, InStep,
           AheadUnsent, AheadSettled, controlVars
  <2>2. ASSUME NEW c \in Rpcs, RequestStep(c) \/ ReadState(c) PROVE ControlInv'
    BY Zenon, <2>2, PrepareStep, DispatchStep, CompleteStep, RefreshStep, ReadStep
       DEF RequestStep
  <2>3. ASSUME NEW c \in Rpcs, NEW q \in Asks, ControlCall(c, q) PROVE ControlInv'
    BY Zenon, <2>3, CallStep
  <2> QED BY Zenon, <2>1, <2>2, <2>3, ExitStep, RecordStep, CrashStep, RehydrateStep,
             ReplayDispatchStep, ReplayCommitStep, PublishStep
             DEF ControlNext
<1> QED BY <1>1, ControlInitially, PTL DEF ControlSpec

\* Whatever the runtime carried out is in the metadata, settled or pending, for
\* any number of requests, failed stores, crashes and replays.
THEOREM EffectsAreJournaledHolds == ControlSpec => []EffectsAreJournaled
<1>1. ControlInv => EffectsAreJournaled
  <2> SUFFICES ASSUME ControlInv, NEW k \in Classes, NEW n \in 1 .. MaxSequence,
                      effects[<<k, n>>] > 0
               PROVE  meta.seq[k] >= n \/ (meta.pend[k] # Nil /\ meta.pend[k].seq = n)
    BY SMTT(40) DEF EffectsAreJournaled, Identities
  <2>1. n <= meta.seq[k] \/ (meta.pend[k] # Nil /\ meta.pend[k].seq = n)
    BY DEF ControlInv, Tracks, Covers, CoversIn
  <2>2. meta.seq[k] \in Nat
    BY Zenon DEF ControlInv, ControlTypes, Tasks
  <2> QED BY Zenon, <2>1, <2>2
<1> QED BY <1>1, ControlInvHolds, PTL

\* What is pending under a sequence, in memory or in the metadata, is what the
\* runtime decided under it: a rollback never gives a used sequence away.
THEOREM SequenceNamesOneRequestHolds == ControlSpec => []SequenceNamesOneRequest
<1>1. ControlInv => SequenceNamesOneRequest
  <2> SUFFICES ASSUME ControlInv, NEW t \in Copies PROVE Proper(t)
    BY Zenon DEF SequenceNamesOneRequest, Proper, ProperIn
  <2> QED BY Zenon DEF Copies, ControlInv, Tracks
<1> QED BY <1>1, ControlInvHolds, PTL

\* The freezer flag that answers Pause and Resume is the container's, unless an
\* older record was installed over it: whatever is replayed, refused or lost.
THEOREM RecordIsCurrentHolds == ControlSpec => []RecordIsCurrent
<1>1. ControlInv /\ FlagInv => RecordIsCurrent
  BY Zenon DEF FlagInv, RecordIsCurrent, SteadyIn
<1>2. ControlSpec => []FlagInv
  BY FlagInitially, FlagNext, ControlInvHolds, PTL DEF ControlSpec
<1> QED BY <1>1, <1>2, ControlInvHolds, PTL

-----------------------------------------------------------------------------
(* The command line.                                                         *)

Commands == {"start", "kill", "delete"}

Snapshots == [next : Nat, life : Lives \cup {Nil}]

Entries == [reply : {"none", "ok", "refused", "changed"}, generation : Nat, moved : BOOLEAN]

Processes ==
    [stage : {"gone", "sent", "await", "answered"}, id : Ids \cup {Nil}, target : Nat,
     replaying : BOOLEAN, reply : {"none", "ok", "refused", "changed", "exists", "missing"}]

CliTypes ==
    /\ files \in Seq(Snapshots) /\ files # <<>>
    /\ cli \in Processes
    /\ ledger \in [DOMAIN ledger -> Entries] /\ DOMAIN ledger \subseteq Ids
    /\ handling \subseteq DOMAIN ledger
    /\ container \in Containers \cup {Nil}
    /\ generation \in Nat
    /\ history = [answered |-> history.answered, crossed |-> history.crossed]

\* The numbers of the lifecycle have been given out, and so have its pending
\* operations.
Numbered ==
    Life # Nil =>
        /\ Life.inc < Latest.next /\ 0 < Life.seq
        /\ \A v \in Commands : Life[v] # Nil =>
              Life[v].inc = Life.inc /\ Life[v].verb = v /\ Life[v].seq < Life.seq

\* What a process has sent is what the journal holds.
Requesting ==
    cli # Gone =>
        /\ cli.stage # "gone" /\ cli.id # Nil /\ Life # Nil
        /\ cli.id.verb = "create" =>
              cli.id = CreateId(Life) /\ (Life.delete = Nil \/ Life.inc \in history.crossed)
        /\ cli.id.verb # "create" => cli.id = Life[cli.id.verb]

\* What an answer says is still so when it is acted on.
Answered ==
    cli.stage = "answered" =>
        /\ cli.reply = "ok" => cli.id \in DOMAIN ledger /\ ledger[cli.id].reply = "ok"
        /\ cli.reply = "missing" => container = Nil \/ container.owner = Nil
        /\ cli.reply = "exists" => cli.id \notin DOMAIN ledger
        /\ cli.id.verb = "create" => cli.reply \in {"ok", "refused", "exists"}
        /\ cli.id.verb # "create" => cli.reply \in {"ok", "refused", "missing", "changed"}

\* An admitted request has numbers that were given out, and is still pending in
\* the journal unless its lifecycle is over or its answer came.
Ledgered ==
    \A o \in DOMAIN ledger :
        /\ o.inc < Latest.next
        /\ Life # Nil /\ o.inc = Life.inc => o.seq < Life.seq
        /\ ledger[o].generation <= generation
        /\ o \in handling => ledger[o].reply = "none"
        /\ o.verb = "delete" /\ ledger[o].reply = "ok" => ledger[o].moved
        /\ o.verb = "create" => ledger[o].reply # "changed"
        /\ o.verb # "create" /\ o \notin history.answered /\ Life # Nil /\ o.inc = Life.inc =>
              Life[o.verb] = o

\* A generation belongs to one creation and to operations of its lifecycle.
Fenced ==
    \A p \in DOMAIN ledger : p.verb = "create" =>
        /\ container # Nil /\ ledger[p].generation = container.generation => container.owner = p
        /\ \A o \in DOMAIN ledger : o # p /\ ledger[o].generation = ledger[p].generation =>
              o.verb # "create" /\ (o.inc = p.inc \/ p.inc \in history.crossed)

\* A container made for the command line is its creation's, and the journal
\* describes it and has no delete pending that has already removed it.
Owned ==
    container # Nil =>
        /\ container.generation <= generation
        /\ container.owner # Nil =>
              /\ container.owner \in DOMAIN ledger /\ container.owner.verb = "create"
              /\ ledger[container.owner].generation = container.generation
              /\ container.owner.inc \notin history.crossed =>
                    /\ Life # Nil /\ CreateId(Life) = container.owner
                    /\ Life.delete \in DOMAIN ledger => ~ledger[Life.delete].moved

CliInv ==
    CliTypes /\ Numbered /\ Requesting /\ Answered /\ Ledgered /\ Fenced /\ Owned

-----------------------------------------------------------------------------
(* Steps of the command line.                                                *)

\* The journal's current snapshot is well formed.
LEMMA LatestTyped == ASSUME CliTypes PROVE Latest \in Snapshots /\ Life \in Lives \cup {Nil}
<1>1. Latest \in Snapshots BY DEF CliTypes, Latest
<1> QED BY Zenon, <1>1 DEF Life, Snapshots

\* A snapshot is the latest once it is published, and nothing is sent before.
LEMMA PersistLatest ==
    ASSUME CliTypes, NEW s \in Snapshots, NEW p, Persist(s, p)
    PROVE  /\ files' \in Seq(Snapshots) /\ files' # <<>>
           /\ Latest' \in {Latest, s} /\ cli' \in {Gone, p}
           /\ cli' = Gone \/ Latest' = s
<1>1. Latest \in Snapshots BY Zenon, LatestTyped
<1> DEFINE l == Latest
<1>2. files' = <<s>> \/ files' = files \/ files' = <<l, s>> BY Zenon DEF Persist
<1>3. cli' \in {Gone, p} /\ (files' = files => cli' = Gone \/ files' = <<s>> \/ files' = <<l, s>>)
  BY Zenon DEF Persist
<1>4. files' = <<s>> => /\ files' \in Seq(Snapshots) /\ files' # <<>> /\ Latest' = s
  BY DEF Latest
<1>5. files' = files => /\ files' \in Seq(Snapshots) /\ files' # <<>> /\ Latest' = Latest
  BY Zenon DEF Latest, CliTypes
<1> HIDE DEF l
<1>6. files' = <<l, s>> => /\ files' \in Seq(Snapshots) /\ files' # <<>> /\ Latest' = s
  BY <1>1 DEF Latest, l
<1> QED BY Zenon, <1>2, <1>3, <1>4, <1>5, <1>6

\* A step that ends the process, and drops from the journal only what was
\* answered, or a lifecycle whose container is gone.
LEMMA JournalStep ==
    ASSUME CliInv, UNCHANGED hostVars, cli' = Gone,
           files' \in Seq(Snapshots), files' # <<>>,
           history' = [answered |-> history'.answered, crossed |-> history.crossed],
           history.answered \subseteq history'.answered,
           Latest'.next = Latest.next,
           Life' # Nil =>
              /\ Life # Nil /\ Life'.inc = Life.inc /\ Life'.bundle = Life.bundle
              /\ Life'.seq = Life.seq
              /\ \A v \in Commands : \/ Life'[v] = Life[v]
                                     \/ Life'[v] = Nil /\ Life[v] \in history'.answered,
           Life' = Nil /\ Life # Nil =>
              container = Nil \/ container.owner = Nil \/ container.owner.inc \in history.crossed
    PROVE  CliInv'
<1>1. CliTypes' BY Zenon DEF CliInv, CliTypes, hostVars, Gone, Processes
<1>2. Numbered' BY Zenon DEF CliInv, Numbered
<1>3. Requesting' /\ Answered' BY Zenon DEF Requesting, Answered, Gone
<1>4. DOMAIN ledger \subseteq Ids /\ Life' \in Lives \cup {Nil} /\ Nil \notin Ids
  <2>1. (CliTypes => Life \in Lives \cup {Nil})' BY LatestTyped, PTL
  <2> QED BY Zenon, <1>1, <2>1, CliAssumption DEF CliInv, CliTypes
<1>5. Ledgered'
  <2> SUFFICES ASSUME NEW o \in DOMAIN ledger
               PROVE  (/\ o.inc < Latest.next
                       /\ Life # Nil /\ o.inc = Life.inc => o.seq < Life.seq
                       /\ o.verb # "create" /\ o \notin history.answered /\ Life # Nil
                          /\ o.inc = Life.inc => Life[o.verb] = o)'
    BY Zenon DEF CliInv, Ledgered, hostVars
  <2>1. o \in Ids /\ (o.verb # "create" => o.verb \in Commands) BY Zenon, <1>4 DEF Ids, Commands
  <2> QED BY Zenon, <2>1 DEF CliInv, Ledgered
<1>6. Fenced' BY DEF CliInv, Fenced, hostVars
<1>7. Owned'
  <2> SUFFICES ASSUME container # Nil, container.owner # Nil,
                      container.owner.inc \notin history.crossed
               PROVE  /\ Life' # Nil /\ CreateId(Life') = container.owner
                      /\ Life'.delete \in DOMAIN ledger => ~ledger[Life'.delete].moved
    BY DEF CliInv, Owned, hostVars, CreateId, OperationId
  <2>1. /\ Life # Nil /\ CreateId(Life) = container.owner
        /\ Life.delete \in DOMAIN ledger => ~ledger[Life.delete].moved
    BY Zenon DEF CliInv, Owned
  <2>2. Life' # Nil BY Zenon, <2>1
  <2>3. Life'["delete"] = Life["delete"] \/ Life'["delete"] = Nil BY Zenon, <2>2 DEF Commands
  <2>4. Life'.delete = Life'["delete"] /\ Life.delete = Life["delete"] BY Zenon
  <2> QED BY Zenon, <1>4, <2>1, <2>2, <2>3, <2>4 DEF CreateId, OperationId
<1> QED BY Zenon, <1>1, <1>2, <1>3, <1>5, <1>6, <1>7 DEF CliInv

\* What the journal may put in the place of its lifecycle when answers are known.
Replaces(new, answers) ==
    /\ new \in Lives \cup {Nil}
    /\ new # Nil =>
          /\ new.inc = Life.inc /\ new.bundle = Life.bundle /\ new.seq = Life.seq
          /\ \A v \in Commands : new[v] = Life[v] \/ (new[v] = Nil /\ Life[v] \in answers)
    /\ new = Nil =>
          container = Nil \/ container.owner = Nil \/ container.owner.inc \in history.crossed

\* Writing a lifecycle that keeps the numbers and only fills in what was open.
LEMMA ReplaceStep ==
    ASSUME CliInv, UNCHANGED hostVars, Life # Nil,
           history' = [answered |-> history'.answered, crossed |-> history.crossed],
           history.answered \subseteq history'.answered,
           \/ cli' = Gone /\ UNCHANGED files
           \/ \E new : Replaces(new, history'.answered) /\ Persist([Latest EXCEPT !.life = new], Gone)
    PROVE  CliInv'
<1>1. Latest \in Snapshots /\ CliTypes BY Zenon, LatestTyped DEF CliInv
<1>2. CASE cli' = Gone /\ UNCHANGED files
  <2>1. Latest' = Latest /\ Life' = Life BY Zenon, <1>2 DEF Latest, Life
  <2> QED BY Zenon, <1>1, <1>2, <2>1, JournalStep DEF CliTypes
<1>3. ASSUME NEW new, Replaces(new, history'.answered), Persist([Latest EXCEPT !.life = new], Gone)
      PROVE  CliInv'
  <2> DEFINE snapshot == [Latest EXCEPT !.life = new]
  <2>1. snapshot \in Snapshots /\ snapshot.next = Latest.next /\ snapshot.life = new
    BY Zenon, <1>1, <1>3 DEF Snapshots, Replaces
  <2> HIDE DEF snapshot
  <2>2. /\ files' \in Seq(Snapshots) /\ files' # <<>>
        /\ Latest' \in {Latest, snapshot} /\ cli' = Gone
    BY Zenon, <1>1, <1>3, <2>1, PersistLatest DEF snapshot
  <2>3. Latest'.next = Latest.next /\ Life' \in {Life, new} BY Zenon, <2>1, <2>2 DEF Life
  <2>4. Life' # Nil =>
              /\ Life # Nil /\ Life'.inc = Life.inc /\ Life'.bundle = Life.bundle
              /\ Life'.seq = Life.seq
              /\ \A v \in Commands : \/ Life'[v] = Life[v]
                                     \/ Life'[v] = Nil /\ Life[v] \in history'.answered
    BY <1>3, <2>3 DEF Replaces
  <2>5. Life' = Nil /\ Life # Nil =>
              container = Nil \/ container.owner = Nil \/ container.owner.inc \in history.crossed
    BY Zenon, <1>3, <2>3 DEF Replaces
  <2> QED BY Zenon, <2>2, <2>3, <2>4, <2>5, JournalStep
<1> QED BY Zenon, <1>2, <1>3

\* An operation is taken out of a lifecycle, or put into it.
LEMMA LifeExcept ==
    ASSUME NEW l \in Lives, NEW v \in Commands, NEW x \in Ids \cup {Nil}
    PROVE  LET s == [l EXCEPT ![v] = x]
           IN  /\ s \in Lives /\ s[v] = x /\ \A w \in Commands \ {v} : s[w] = l[w]
               /\ s.inc = l.inc /\ s.bundle = l.bundle /\ s.seq = l.seq
<1>1. CASE v = "start" BY Zenon, <1>1 DEF Lives, Commands
<1>2. CASE v = "kill" BY Zenon, <1>2 DEF Lives, Commands
<1>3. CASE v = "delete" BY Zenon, <1>3 DEF Lives, Commands
<1> QED BY Zenon, <1>1, <1>2, <1>3 DEF Commands

\* Forgetting a settled command is such a replacement.
LEMMA ClearedReplaces ==
    ASSUME NEW v \in Commands, NEW reply, NEW answers, Life \in Lives, Life[v] \in answers
    PROVE  Replaces(Cleared(v, reply), answers)
<1>1. [Life EXCEPT ![v] = Nil] # Nil /\ [Life EXCEPT !.start = Nil, !.started = TRUE] # Nil
  <2>1. [Life EXCEPT !.start = Nil, !.started = TRUE] \in Lives BY Zenon DEF Lives
  <2> QED BY <2>1, LifeExcept, CliAssumption
<1>2. CASE v = "start" /\ reply = "ok"
  <2> DEFINE new == [Life EXCEPT !.start = Nil, !.started = TRUE]
  <2>1. /\ new \in Lives /\ new.inc = Life.inc /\ new.bundle = Life.bundle /\ new.seq = Life.seq
        /\ new["start"] = Nil /\ new["kill"] = Life["kill"] /\ new["delete"] = Life["delete"]
    BY Zenon DEF Lives
  <2>2. Cleared(v, reply) = new BY Zenon, <1>2 DEF Cleared
  <2> HIDE DEF new
  <2> QED BY Zenon, <1>2, <2>1, <2>2, CliAssumption DEF Replaces, Commands
<1>3. CASE ~(v = "start" /\ reply = "ok")
  <2> DEFINE new == [Life EXCEPT ![v] = Nil]
  <2>1. /\ new \in Lives /\ new[v] = Nil /\ \A w \in Commands \ {v} : new[w] = Life[w]
        /\ new.inc = Life.inc /\ new.bundle = Life.bundle /\ new.seq = Life.seq
    BY LifeExcept
  <2>2. Cleared(v, reply) = new BY Zenon, <1>3 DEF Cleared
  <2> HIDE DEF new
  <2> QED BY Zenon, <2>1, <2>2, CliAssumption DEF Replaces
<1> QED BY Zenon, <1>2, <1>3

\* A new target, or an acknowledgement.
LEMMA TargetReplaces ==
    ASSUME NEW t \in Nat, NEW a \in BOOLEAN, NEW answers, Life \in Lives
    PROVE  Replaces([Life EXCEPT !.target = t, !.acknowledged = a], answers)
<1> DEFINE new == [Life EXCEPT !.target = t, !.acknowledged = a]
<1>1. /\ new \in Lives /\ new.inc = Life.inc /\ new.bundle = Life.bundle /\ new.seq = Life.seq
      /\ new["start"] = Life["start"] /\ new["kill"] = Life["kill"]
      /\ new["delete"] = Life["delete"]
  BY Zenon DEF Lives
<1> HIDE DEF new
<1>2. \A v \in Commands : new[v] = Life[v] BY Zenon, <1>1 DEF Commands
<1> QED BY Zenon, <1>1, <1>2, CliAssumption DEF Replaces, new

\* A process in progress, and the lifecycle it works for.
LEMMA AtWork ==
    ASSUME CliInv, cli # Gone
    PROVE  /\ cli \in Processes /\ Life \in Lives /\ cli.id \in Ids
           /\ cli.id.verb # "create" => cli.id.verb \in Commands
<1>1. Life # Nil /\ cli.id # Nil BY Zenon DEF CliInv, Requesting
<1>2. cli.id \in Ids BY Zenon, <1>1 DEF CliInv, CliTypes, Processes
<1> QED BY Zenon, <1>1, <1>2, LatestTyped DEF CliInv, CliTypes, Ids, Commands

\* The answer is stored, or the lifecycle removed after a delete.
LEMMA SettleStep == ASSUME CliInv, Settle PROVE CliInv'
<1> DEFINE verb == cli.id.verb
           reply == cli.reply
           answers == history.answered \cup {cli.id}
<1>1. cli.stage = "answered" /\ cli # Gone /\ UNCHANGED hostVars
  BY DEF Settle, Gone
<1>2. /\ cli \in Processes /\ Life \in Lives /\ Life # Nil /\ cli.id \in Ids
      /\ verb # "create" => verb \in Commands
  BY Zenon, <1>1, AtWork, CliAssumption
<1>3. /\ history' = [answered |-> history'.answered, crossed |-> history.crossed]
      /\ history'.answered = answers /\ history.answered \subseteq answers
  <2>1. history' = [history EXCEPT !.answered = @ \cup {cli.id}] BY Zenon DEF Settle
  <2>2. history = [answered |-> history.answered, crossed |-> history.crossed]
    BY Zenon DEF CliInv, CliTypes
  <2> QED BY Zenon, <2>1, <2>2
<1>4. /\ Latest \in Snapshots /\ Latest.life = Life
  BY Zenon, LatestTyped DEF CliInv, Life
<1> HIDE DEF answers
<1>5. ASSUME NEW new, Replaces(new, answers), Persist([Latest EXCEPT !.life = new], Gone)
      PROVE  CliInv'
  BY Zenon, <1>1, <1>2, <1>3, <1>5, ReplaceStep
<1>6. ASSUME cli' = Gone, UNCHANGED files PROVE CliInv'
  BY Zenon, <1>1, <1>2, <1>3, <1>6, ReplaceStep
<1>7. CASE verb = "create" /\ reply # "changed"
  <2>1. SettleCreate(reply) /\ reply \in {"ok", "refused", "exists"}
    BY Zenon, <1>1, <1>7 DEF Settle, CliInv, Answered
  <2>2. ASSUME container # Nil, container.owner # Nil, container.owner.inc \notin history.crossed
        PROVE  cli.id = container.owner /\ cli.id \in DOMAIN ledger
    BY Zenon, <1>1, <1>7, <2>2 DEF CliInv, Requesting, Owned
  <2>3. CASE reply = "ok"
    <3> DEFINE g == ledger[cli.id].generation
               new == [Life EXCEPT !.target = g, !.acknowledged = TRUE]
    <3>1. g \in Nat BY Zenon, <1>1, <2>3 DEF CliInv, CliTypes, Answered, Entries
    <3> HIDE DEF g
    <3>2. Replaces(new, answers) BY Zenon, <1>2, <3>1, TargetReplaces
    <3>3. Persist([Latest EXCEPT !.life.target = g, !.life.acknowledged = TRUE], Gone)
      BY Zenon, <2>1, <2>3 DEF SettleCreate, g
    <3>4. [Latest EXCEPT !.life.target = g, !.life.acknowledged = TRUE]
            = [Latest EXCEPT !.life = new]
      BY Zenon, <1>2, <1>4 DEF Snapshots, Lives
    <3> HIDE DEF new
    <3> QED BY Zenon, <1>5, <3>2, <3>3, <3>4
  <2>4. CASE reply = "exists"
    <3>1. Replaces(Nil, answers) BY Zenon, <1>1, <2>2, <2>4 DEF Replaces, CliInv, Answered
    <3>2. Persist([Latest EXCEPT !.life = Nil], Gone) BY Zenon, <2>1, <2>4 DEF SettleCreate
    <3> QED BY Zenon, <1>5, <3>1, <3>2
  <2>5. CASE reply = "refused"
    <3>1. ReconcileCreate(Life) BY Zenon, <2>1, <2>5 DEF SettleCreate
    <3>2. CASE container = Nil /\ Persist([Latest EXCEPT !.life = Nil], Gone)
      BY Zenon, <1>5, <3>2 DEF Replaces
    <3>3. CASE container # Nil /\ Persist([Latest EXCEPT !.life.target = container.generation], Gone)
      <4> DEFINE g == container.generation
                 new == [Life EXCEPT !.target = g, !.acknowledged = Life.acknowledged]
      <4>1. g \in Nat /\ Life.acknowledged \in BOOLEAN
        BY Zenon, <1>2, <3>3 DEF CliInv, CliTypes, Containers, Lives
      <4> HIDE DEF g
      <4>2. Replaces(new, answers) BY Zenon, <1>2, <4>1, TargetReplaces
      <4>3. [Latest EXCEPT !.life.target = g] = [Latest EXCEPT !.life = new]
        BY Zenon, <1>2, <1>4 DEF Snapshots, Lives
      <4> HIDE DEF new
      <4> QED BY Zenon, <1>5, <3>3, <4>2, <4>3 DEF g
    <3> QED BY Zenon, <1>6, <3>1, <3>2, <3>3 DEF ReconcileCreate
  <2> QED BY Zenon, <2>1, <2>3, <2>4, <2>5
<1>8. CASE verb # "create" /\ reply # "changed"
  <2>1. SettleCommand(verb, reply) BY Zenon, <1>8 DEF Settle
  <2>2. Life[verb] \in answers BY Zenon, <1>1, <1>8 DEF answers, CliInv, Requesting
  <2>3. Replaces(Cleared(verb, reply), answers) BY Zenon, <1>2, <1>8, <2>2, ClearedReplaces
  <2>4. CASE verb = "delete" /\ reply \in {"ok", "missing"}
    <3>1. ASSUME reply = "ok", container # Nil, container.owner # Nil,
                 container.owner.inc \notin history.crossed
          PROVE  FALSE
      <4>1. cli.id \in DOMAIN ledger /\ ledger[cli.id].reply = "ok"
        BY Zenon, <1>1, <3>1 DEF CliInv, Answered
      <4>2. ledger[cli.id].moved BY Zenon, <2>4, <4>1 DEF CliInv, Ledgered
      <4>3. cli.id = Life.delete BY Zenon, <1>1, <2>4 DEF CliInv, Requesting
      <4>4. ~ledger[Life.delete].moved BY Zenon, <3>1, <4>1, <4>3 DEF CliInv, Owned
      <4> QED BY Zenon, <4>2, <4>3, <4>4
    <3>2. reply = "missing" => container = Nil \/ container.owner = Nil
      BY Zenon, <1>1 DEF CliInv, Answered
    <3>3. Replaces(Nil, answers) BY Zenon, <2>4, <3>1, <3>2 DEF Replaces
    <3>4. \/ Persist([Latest EXCEPT !.life = Nil], Gone)
          \/ Persist([Latest EXCEPT !.life = Cleared(verb, reply)], Gone)
      BY Zenon, <2>1 DEF SettleCommand
    <3> QED BY Zenon, <1>5, <2>3, <3>3, <3>4
  <2>5. CASE ~(verb = "delete" /\ reply \in {"ok", "missing"})
    <3>1. Persist([Latest EXCEPT !.life = Cleared(verb, reply)], Gone)
      BY Zenon, <2>1, <2>5 DEF SettleCommand
    <3> QED BY Zenon, <1>5, <2>3, <3>1
  <2> QED BY Zenon, <2>4, <2>5
<1>9. CASE reply = "changed"
  BY Zenon, <1>6, <1>9 DEF Settle
<1> QED BY Zenon, <1>7, <1>8, <1>9

\* A target that is found, and a process that dies.
LEMMA ResolveStep == ASSUME CliInv, Resolve PROVE CliInv'
<1>1. /\ Life # Nil /\ container # Nil /\ UNCHANGED <<hostVars, history>>
      /\ Persist([Latest EXCEPT !.life = Resolved(Life)], Gone)
  BY Zenon DEF Resolve, IsDescribed
<1>2. Life \in Lives /\ container.generation \in Nat
  BY Zenon, <1>1, LatestTyped DEF CliInv, CliTypes, Containers
<1> DEFINE a == Life.acknowledged \/ container.status # "creating"
           new == [Life EXCEPT !.target = container.generation, !.acknowledged = a]
<1>3. Resolved(Life) = new BY <1>2, Zenon DEF Resolved, Lives
<1>4. a \in BOOLEAN BY Zenon
<1> HIDE DEF a
<1>5. Replaces(new, history'.answered) BY Zenon, <1>2, <1>4, TargetReplaces
<1> HIDE DEF new
<1> QED BY Zenon, <1>1, <1>3, <1>5, ReplaceStep DEF CliInv, CliTypes

\* The process dies: the journal and the host are untouched.
LEMMA DiesStep == ASSUME CliInv, CliDies PROVE CliInv'
<1>1. cli # Gone /\ cli' = Gone /\ UNCHANGED <<files, hostVars, history>> BY Zenon DEF CliDies
<1>2. Life # Nil BY Zenon, <1>1 DEF CliInv, Requesting
<1> QED BY Zenon, <1>1, <1>2, ReplaceStep DEF CliInv, CliTypes

\* Requesting changes nothing at the host.
LEMMA SendStep ==
    ASSUME CliInv, UNCHANGED hostVars, files' \in Seq(Snapshots), files' # <<>>,
           history' = [answered |-> history.answered, crossed |-> history'.crossed],
           history.crossed \subseteq history'.crossed,
           cli' = Gone \/ \E i \in Ids, t \in Nat, again \in BOOLEAN : cli' = Sent(i, t, again)
    PROVE  CliTypes' /\ Answered' /\ Fenced'
<1>1. cli' \in Processes /\ cli'.stage # "answered"
  <2>1. CASE cli' = Gone BY Zenon, <2>1 DEF Gone, Processes
  <2>2. ASSUME NEW i \in Ids, NEW t \in Nat, NEW again \in BOOLEAN, cli' = Sent(i, t, again)
        PROVE  cli' \in Processes /\ cli'.stage # "answered"
    BY Zenon, <2>2 DEF Sent, Processes
  <2> QED BY Zenon, <2>1, <2>2
<1>2. CliTypes' BY Zenon, <1>1 DEF CliInv, CliTypes, hostVars
<1>3. Answered' BY Zenon, <1>1 DEF Answered
<1>4. Fenced' BY Zenon DEF CliInv, Fenced, hostVars
<1> QED BY Zenon, <1>2, <1>3, <1>4

\* A new lifecycle takes the next incarnation.
LEMMA CreateStep == ASSUME CliInv, NEW b \in Bundles, Create(b) PROVE CliInv'
<1> DEFINE life == [inc |-> Latest.next, bundle |-> b, acknowledged |-> FALSE, target |-> 0,
                    seq |-> 1, started |-> FALSE, start |-> Nil, kill |-> Nil, delete |-> Nil]
           snapshot == [next |-> Latest.next + 1, life |-> life]
           process == Sent(CreateId(life), 0, FALSE)
<1>1. /\ cli = Gone /\ Life = Nil /\ Persist(snapshot, process)
      /\ UNCHANGED <<hostVars, history>>
  BY Zenon DEF Create
<1>2. Latest \in Snapshots /\ Latest.next \in Nat BY Zenon, LatestTyped DEF CliInv, Snapshots
<1>3. life \in Lives /\ life # Nil
  <2>1. 0 \in Nat /\ 1 \in Nat BY Zenon
  <2>2. life \in Lives BY Zenon, <1>2, <2>1 DEF Lives
  <2> QED BY Zenon, <2>2, CliAssumption
<1>4. /\ life.inc = Latest.next /\ life.seq = 1 /\ life.delete = Nil
      /\ \A v \in Commands : life[v] = Nil
  BY DEF Commands
<1>5. CreateId(life) \in Ids /\ CreateId(life).verb = "create"
  BY Zenon, <1>2 DEF CreateId, OperationId, Ids
<1> HIDE DEF life
<1>6. snapshot \in Snapshots BY <1>2, <1>3 DEF Snapshots
<1>7. /\ files' \in Seq(Snapshots) /\ files' # <<>> /\ cli' \in {Gone, process}
      /\ Latest' \in {Latest, snapshot} /\ (cli' = Gone \/ Latest' = snapshot)
  BY Zenon, <1>1, <1>6, PersistLatest DEF CliInv
<1>8. CASE Latest' = Latest
  <2>1. Life' = Life BY Zenon, <1>8 DEF Life
  <2>2. snapshot # Latest BY <1>2
  <2> HIDE DEF snapshot, process
  <2>3. cli' = Gone BY Zenon, <1>7, <1>8, <2>2
  <2> QED BY Zenon, <1>1, <1>7, <1>8, <2>1, <2>3, JournalStep DEF CliInv, CliTypes
<1>9. CASE Latest' = snapshot
  <2>1. Life' = life /\ Latest'.next = Latest.next + 1 BY Zenon, <1>9 DEF Life
  <2>2. CliTypes' /\ Answered' /\ Fenced'
    <3>1. history = [answered |-> history.answered, crossed |-> history.crossed]
      BY Zenon DEF CliInv, CliTypes
    <3>2. cli' = Gone \/ \E i \in Ids, t \in Nat, again \in BOOLEAN : cli' = Sent(i, t, again)
      BY Zenon, <1>5, <1>7
    <3> HIDE DEF snapshot, process
    <3> QED BY Zenon, <1>1, <1>7, <3>1, <3>2, SendStep
  <2>3. Numbered' BY <1>2, <1>3, <1>4, <2>1 DEF Numbered
  <2>4. Requesting'
    <3>1. process.id = CreateId(life) /\ process.stage = "sent" BY Zenon DEF Sent
    <3> QED BY Zenon, <1>3, <1>4, <1>5, <1>7, <2>1, <3>1, CliAssumption DEF Requesting
  <2>5. Ledgered'
    <3>1. \A o \in DOMAIN ledger : o.inc \in Nat BY Zenon DEF CliInv, CliTypes, Ids
    <3> QED BY <1>1, <1>2, <1>4, <2>1, <3>1 DEF CliInv, Ledgered, hostVars
  <2>6. Owned' BY Zenon, <1>1 DEF CliInv, Owned, hostVars
  <2> QED BY Zenon, <2>2, <2>3, <2>4, <2>5, <2>6 DEF CliInv
<1> HIDE DEF snapshot, process
<1> QED BY Zenon, <1>7, <1>8, <1>9

\* create over an existing lifecycle of the same bundle, or over one whose
\* delete is unanswered.
LEMMA CreateAgainStep == ASSUME CliInv, NEW b \in Bundles, CreateAgain(b) PROVE CliInv'
<1>1. /\ Life # Nil /\ cli' = Sent(CreateId(Life), 0, FALSE) /\ UNCHANGED <<files, hostVars>>
      /\ history' = [history EXCEPT !.crossed = @ \cup IF Life.delete = Nil THEN {} ELSE {Life.inc}]
  BY Zenon DEF CreateAgain
<1>2. Life \in Lives /\ Latest' = Latest /\ Life' = Life
  BY Zenon, <1>1, LatestTyped DEF CliInv, Latest, Life
<1>3. CreateId(Life) \in Ids /\ CreateId(Life).verb = "create"
  BY Zenon, <1>2 DEF CreateId, OperationId, Ids, Lives
<1>4. /\ history' = [answered |-> history.answered, crossed |-> history'.crossed]
      /\ history'.answered = history.answered /\ history.crossed \subseteq history'.crossed
      /\ Life.delete = Nil \/ Life.inc \in history'.crossed
  <2>1. history = [answered |-> history.answered, crossed |-> history.crossed]
    BY Zenon DEF CliInv, CliTypes
  <2> QED BY Zenon, <1>1, <2>1
<1>5. CliTypes' /\ Answered' /\ Fenced'
  <2>1. \E i \in Ids, t \in Nat, again \in BOOLEAN : cli' = Sent(i, t, again) BY Zenon, <1>1, <1>3
  <2> QED BY Zenon, <1>1, <1>4, <2>1, SendStep DEF CliInv, CliTypes
<1>6. Numbered' BY Zenon, <1>2 DEF CliInv, Numbered
<1>7. Requesting'
  <2>1. cli'.id = CreateId(Life) /\ cli'.stage = "sent" BY Zenon, <1>1 DEF Sent
  <2> QED BY Zenon, <1>1, <1>2, <1>3, <1>4, <2>1, CliAssumption DEF Requesting
<1>8. Ledgered' BY Zenon, <1>1, <1>2, <1>4 DEF CliInv, Ledgered, hostVars
<1>9. Owned' BY Zenon, <1>1, <1>2, <1>4 DEF CliInv, Owned, hostVars
<1> QED BY Zenon, <1>5, <1>6, <1>7, <1>8, <1>9 DEF CliInv

\* A command that is journaled before it is sent, or found in the journal and
\* sent again.
LEMMA CommandStep ==
    ASSUME CliInv, NEW v \in Commands, NEW a \in Signals \cup Modes \cup {Nil}, Command(v, a)
    PROVE  CliInv'
<1> DEFINE new == OperationId(Life.inc, v, Life.seq, a)
           life == [Life EXCEPT ![v] = new, !.seq = Life.seq + 1]
           snapshot == [Latest EXCEPT !.life = life]
           process == Sent(new, Life.target, FALSE)
<1>1. /\ cli = Gone /\ Life # Nil /\ UNCHANGED <<hostVars, history>>
      /\ \/ /\ Life[v] # Nil /\ cli' = Sent(Life[v], Life.target, TRUE) /\ UNCHANGED files
         \/ Life[v] = Nil /\ Persist(snapshot, process)
  BY Zenon DEF Command
<1>2. /\ Latest \in Snapshots /\ Life \in Lives /\ Life.target \in Nat /\ Life.seq \in Nat
      /\ Life.inc \in Nat
      /\ history' = [answered |-> history.answered, crossed |-> history.crossed]
  BY Zenon, <1>1, LatestTyped DEF CliInv, CliTypes, Lives
<1>3. CASE Life[v] # Nil /\ cli' = Sent(Life[v], Life.target, TRUE) /\ UNCHANGED files
  <2>1. Latest' = Latest /\ Life' = Life BY Zenon, <1>3 DEF Latest, Life
  <2>2. Life[v] \in Ids /\ Life[v].verb = v
    BY Zenon, <1>1, <1>2, <1>3 DEF CliInv, Numbered, Lives, Commands
  <2>3. CliTypes' /\ Answered' /\ Fenced'
    <3>1. \E i \in Ids, t \in Nat, again \in BOOLEAN : cli' = Sent(i, t, again)
      BY Zenon, <1>2, <1>3, <2>2
    <3> QED BY Zenon, <1>1, <1>2, <1>3, <3>1, SendStep DEF CliInv, CliTypes
  <2>4. Numbered' BY Zenon, <2>1 DEF CliInv, Numbered
  <2>5. Requesting'
    <3>1. cli'.id = Life[v] /\ cli'.stage = "sent" BY Zenon, <1>3 DEF Sent
    <3> QED BY Zenon, <1>1, <1>3, <2>1, <2>2, <3>1 DEF Requesting, Commands
  <2>6. Ledgered' BY Zenon, <1>1, <2>1 DEF CliInv, Ledgered, hostVars
  <2>7. Owned' BY Zenon, <1>1, <2>1 DEF CliInv, Owned, hostVars
  <2> QED BY Zenon, <2>3, <2>4, <2>5, <2>6, <2>7 DEF CliInv
<1>4. CASE Life[v] = Nil /\ Persist(snapshot, process)
  <2>1. new \in Ids /\ new.inc = Life.inc /\ new.verb = v /\ new.seq = Life.seq
    BY Zenon, <1>2 DEF OperationId, Ids, Commands
  <2> HIDE DEF new
  <2>2. /\ life \in Lives /\ life[v] = new /\ \A w \in Commands \ {v} : life[w] = Life[w]
        /\ life.inc = Life.inc /\ life.bundle = Life.bundle /\ life.seq = Life.seq + 1
    <3> DEFINE m == [Life EXCEPT ![v] = new]
               s == [m EXCEPT !.seq = Life.seq + 1]
    <3>1. life = s BY Zenon
    <3>2. /\ m \in Lives /\ m[v] = new /\ \A w \in Commands \ {v} : m[w] = Life[w]
          /\ m.inc = Life.inc /\ m.bundle = Life.bundle
      BY <1>2, <2>1, LifeExcept
    <3> HIDE DEF m, life
    <3>3. /\ s \in Lives /\ s.inc = m.inc /\ s.bundle = m.bundle /\ s.seq = Life.seq + 1
          /\ s["start"] = m["start"] /\ s["kill"] = m["kill"] /\ s["delete"] = m["delete"]
      BY <1>2, <3>2 DEF Lives
    <3> HIDE DEF s
    <3>4. \A w \in Commands : s[w] = m[w] BY Zenon, <3>3 DEF Commands
    <3> QED BY Zenon, <3>1, <3>2, <3>3, <3>4
  <2> HIDE DEF life
  <2>3. snapshot \in Snapshots /\ snapshot.next = Latest.next /\ snapshot.life = life
    BY Zenon, <1>2, <2>2 DEF Snapshots
  <2>4. life # Life BY <1>2, <2>2
  <2> HIDE DEF snapshot
  <2>5. /\ files' \in Seq(Snapshots) /\ files' # <<>> /\ cli' \in {Gone, process}
        /\ Latest' \in {Latest, snapshot} /\ (cli' = Gone \/ Latest' = snapshot)
    BY Zenon, <1>4, <2>3, PersistLatest DEF CliInv
  <2>6. CASE Latest' = Latest
    <3>1. Life' = Life BY Zenon, <2>6 DEF Life
    <3>2. cli' = Gone BY Zenon, <2>3, <2>4, <2>5, <2>6 DEF Life
    <3> QED BY Zenon, <1>1, <1>2, <2>5, <2>6, <3>1, <3>2, JournalStep
  <2>7. CASE Latest' = snapshot
    <3>1. Life' = life /\ Latest'.next = Latest.next /\ life # Nil
      BY Zenon, <2>2, <2>3, <2>7, CliAssumption DEF Life
    <3>2. CliTypes' /\ Answered' /\ Fenced'
      <4>1. cli' = Gone \/ \E i \in Ids, t \in Nat, again \in BOOLEAN : cli' = Sent(i, t, again)
        BY Zenon, <1>2, <2>1, <2>5
      <4> QED BY Zenon, <1>1, <1>2, <2>5, <4>1, SendStep
    <3>3. Numbered'
      <4>1. \A w \in Commands \ {v} : life[w] # Nil => life[w] \in Ids
        BY Zenon, <2>2 DEF Lives, Commands
      <4>2. \A w \in Commands \ {v} : life[w] # Nil => life[w].seq \in Nat
        BY Zenon, <4>1 DEF Ids
      <4> QED BY <1>1, <1>2, <2>1, <2>2, <3>1, <4>2 DEF CliInv, Numbered
    <3>4. Requesting'
      <4>1. process.id = new /\ process.stage = "sent" BY Zenon DEF Sent
      <4> QED BY Zenon, <2>1, <2>2, <2>5, <3>1, <4>1, CliAssumption DEF Requesting, Commands
    <3>5. Ledgered'
      <4>1. \A o \in DOMAIN ledger :
               o \in Ids /\ o.inc \in Nat /\ o.seq \in Nat /\ (o.verb # "create" => o.verb \in Commands)
        BY Zenon DEF CliInv, CliTypes, Ids, Commands
      <4> QED BY <1>1, <1>2, <1>4, <2>2, <3>1, <4>1, CliAssumption DEF CliInv, Ledgered, hostVars
    <3>6. new \notin DOMAIN ledger
      BY <1>1, <1>2, <2>1 DEF CliInv, Ledgered
    <3>7. Owned'
      <4>1. life.delete = IF v = "delete" THEN new ELSE Life.delete BY Zenon, <2>2 DEF Commands
      <4>2. CreateId(life) = CreateId(Life) BY Zenon, <2>2 DEF CreateId
      <4> QED BY Zenon, <1>1, <3>1, <3>6, <4>1, <4>2 DEF CliInv, Owned, hostVars
    <3> QED BY Zenon, <3>2, <3>3, <3>4, <3>5, <3>6, <3>7 DEF CliInv
  <2> QED BY Zenon, <2>5, <2>6, <2>7
<1> QED BY Zenon, <1>1, <1>3, <1>4

-----------------------------------------------------------------------------
(* Steps of the host.                                                        *)

\* The journal is the same, and what the process has sent.
LEMMA SameJournal ==
    ASSUME CliInv, UNCHANGED <<files, history>>,
           \/ cli' = Gone
           \/ cli # Gone /\ cli'.id = cli.id /\ cli'.stage # "gone"
           \/ cli' = cli
    PROVE  Latest' = Latest /\ Life' = Life /\ Numbered' /\ Requesting'
<1>1. Latest' = Latest /\ Life' = Life BY Zenon DEF Latest, Life
<1>2. Numbered' BY Zenon, <1>1 DEF CliInv, Numbered
<1>3. Requesting' BY Zenon, <1>1 DEF CliInv, Requesting
<1> QED BY Zenon, <1>1, <1>2, <1>3

\* What an answer must tell when it is given.
TrueAnswer(reply, entries, box) ==
    /\ reply \in {"ok", "refused", "changed", "exists", "missing"}
    /\ reply = "ok" => cli.id \in DOMAIN entries /\ entries[cli.id].reply = "ok"
    /\ reply = "missing" => box = Nil
    /\ reply = "exists" => cli.id \notin DOMAIN entries
    /\ cli.id.verb = "create" => reply \in {"ok", "refused", "exists"}
    /\ cli.id.verb # "create" => reply \in {"ok", "refused", "missing", "changed"}

\* A request the host is still looking at or working on is taken up or answered;
\* any other process stays as it is or ends.
LEMMA Replied ==
    ASSUME CliInv, cli.stage \in {"sent", "await"}, NEW reply,
           TrueAnswer(reply, ledger', container'),
           cli' = [cli EXCEPT !.stage = "answered", !.reply = reply]
    PROVE  /\ cli' \in Processes /\ Answered'
           /\ cli # Gone /\ cli'.id = cli.id /\ cli'.stage # "gone"
<1>1. cli \in Processes BY Zenon DEF CliInv, CliTypes
<1>2. cli'.id = cli.id /\ cli'.stage = "answered" /\ cli'.reply = reply BY Zenon, <1>1 DEF Processes
<1>3. cli' \in Processes BY Zenon, <1>1 DEF Processes, TrueAnswer
<1>4. Answered' BY Zenon, <1>2 DEF Answered, TrueAnswer
<1> QED BY <1>2, <1>3, <1>4 DEF Gone

\* A request the host works on now.
LEMMA TakenUp ==
    ASSUME CliInv, cli.stage = "sent", cli' = [cli EXCEPT !.stage = "await"]
    PROVE  /\ cli' \in Processes /\ Answered'
           /\ cli # Gone /\ cli'.id = cli.id /\ cli'.stage # "gone"
<1>1. cli \in Processes BY Zenon DEF CliInv, CliTypes
<1>2. cli'.id = cli.id /\ cli'.stage = "await" BY Zenon, <1>1 DEF Processes
<1>3. cli' \in Processes BY Zenon, <1>1 DEF Processes
<1> QED BY <1>2, <1>3 DEF Gone, Answered

\* The process does not notice: decided entries and the owner are the same.
LEMMA Unnoticed ==
    ASSUME CliInv, cli' = cli \/ cli' = Gone, DOMAIN ledger' = DOMAIN ledger,
           \A p \in DOMAIN ledger : ledger[p].reply # "none" => ledger'[p].reply = ledger[p].reply,
           container' # Nil => \/ container = Nil /\ container'.owner = Nil
                               \/ container # Nil /\ container'.owner = container.owner
    PROVE  cli' \in Processes /\ Answered'
<1>1. CASE cli' = Gone BY Zenon, <1>1 DEF Gone, Processes, Answered
<1>2. CASE cli' = cli
  <2>1. cli \in Processes BY Zenon DEF CliInv, CliTypes
  <2>2. Answered' BY Zenon, <1>2 DEF CliInv, Answered
  <2> QED BY Zenon, <1>2, <2>1, <2>2
<1> QED BY Zenon, <1>1, <1>2

\* A step that admits nothing: entries keep their generation, decided ones are as
\* they were, and the container stays, goes or changes its status only.
LEMMA HostStep ==
    ASSUME CliInv, UNCHANGED <<files, history, generation>>,
           cli' \in Processes, Answered', Requesting', Latest' = Latest, Life' = Life,
           DOMAIN ledger' = DOMAIN ledger, ledger' \in [DOMAIN ledger -> Entries],
           \A p \in DOMAIN ledger :
              /\ ledger'[p].generation = ledger[p].generation
              /\ p \in handling' => ledger'[p].reply = "none"
              /\ p.verb = "delete" /\ ledger'[p].reply = "ok" => ledger'[p].moved
              /\ p.verb = "create" => ledger'[p].reply # "changed"
              /\ container' # Nil /\ ledger'[p].moved => ledger[p].moved,
           handling' \subseteq DOMAIN ledger,
           container' \in Containers \cup {Nil},
           container' # Nil => /\ container # Nil /\ container'.owner = container.owner
                               /\ container'.generation = container.generation
    PROVE  CliInv'
<1>1. CliTypes' BY Zenon DEF CliInv, CliTypes
<1>2. Numbered' BY Zenon DEF CliInv, Numbered
<1>3. Ledgered' BY Zenon DEF CliInv, Ledgered
<1>4. Fenced' BY DEF CliInv, Fenced
<1>5. Owned' BY Zenon DEF CliInv, Owned
<1> QED BY Zenon, <1>1, <1>2, <1>3, <1>4, <1>5 DEF CliInv

\* Nothing but the process changes.
LEMMA QuietHost ==
    ASSUME CliInv, UNCHANGED <<files, history, generation, ledger>>,
           cli' \in Processes, Answered', Requesting', Latest' = Latest, Life' = Life,
           handling' \subseteq DOMAIN ledger, \A p \in handling' : ledger[p].reply = "none",
           container' \in Containers \cup {Nil},
           container' # Nil => /\ container # Nil /\ container'.owner = container.owner
                               /\ container'.generation = container.generation
    PROVE  CliInv'
<1>1. ledger \in [DOMAIN ledger -> Entries] BY Zenon DEF CliInv, CliTypes
<1>2. \A p \in DOMAIN ledger :
          /\ p.verb = "delete" /\ ledger[p].reply = "ok" => ledger[p].moved
          /\ p.verb = "create" => ledger[p].reply # "changed"
  BY Zenon DEF CliInv, Ledgered
<1> QED BY Zenon, <1>1, <1>2, HostStep

\* The effect of an operation on its own entry and on its container.
LEMMA Effect ==
    ASSUME CliInv, NEW o \in handling, CanComplete(o), NEW after \in Outcomes(o),
           NEW reply \in {"none", ReplyOf(o, after)}, TakesEffect(o, after, reply)
    PROVE  /\ DOMAIN ledger' = DOMAIN ledger /\ ledger' \in [DOMAIN ledger -> Entries]
           /\ \A p \in DOMAIN ledger :
                 /\ p # o => ledger'[p] = ledger[p]
                 /\ ledger'[p].generation = ledger[p].generation
                 /\ p.verb = "delete" /\ ledger'[p].reply = "ok" => ledger'[p].moved
                 /\ p.verb = "create" => ledger'[p].reply # "changed"
                 /\ container' # Nil /\ ledger'[p].moved => ledger[p].moved
           /\ o \in DOMAIN ledger /\ ledger'[o].reply = reply
           /\ ReplyOf(o, after) \in {"ok", "changed"}
           /\ o.verb = "create" => ReplyOf(o, after) = "ok"
           /\ container' \in Containers \cup {Nil}
           /\ container' # Nil => /\ container # Nil /\ container'.owner = container.owner
                                  /\ container'.generation = container.generation
<1>1. /\ o \in DOMAIN ledger /\ ledger \in [DOMAIN ledger -> Entries] /\ ledger[o] \in Entries
      /\ o.verb \in {"create", "start", "kill", "delete"}
      /\ container \in Containers \cup {Nil}
  BY Zenon DEF CliInv, CliTypes, Ids
<1> DEFINE moved == o.verb = "delete"
           e == [ledger[o] EXCEPT !.moved = moved, !.reply = reply]
<1>2. /\ ReplyOf(o, after) \in {"ok", "changed"}
      /\ o.verb \in {"create", "delete"} => ReplyOf(o, after) = "ok"
  BY Zenon DEF ReplyOf
<1>3. reply \in {"none", "ok", "refused", "changed"} BY Zenon, <1>2
<1>4. /\ e \in Entries /\ e.moved = moved /\ e.reply = reply
      /\ e.generation = ledger[o].generation
  BY Zenon, <1>1, <1>3 DEF Entries
<1>5. ledger' = [ledger EXCEPT ![o] = e]
  BY Zenon DEF TakesEffect
<1> HIDE DEF e
<1>6. /\ DOMAIN ledger' = DOMAIN ledger /\ ledger' \in [DOMAIN ledger -> Entries]
      /\ ledger'[o] = e /\ \A p \in DOMAIN ledger \ {o} : ledger'[p] = ledger[p]
  BY Zenon, <1>1, <1>4, <1>5
<1>7. container' = after BY Zenon DEF TakesEffect
<1>8. CASE o.verb = "delete"
  <2>1. after = IF Concerns(o) THEN Nil ELSE container BY Zenon, <1>8 DEF Outcomes
  <2>2. Concerns(o) # ledger[o].moved BY Zenon, <1>8 DEF CanComplete
  <2>3. container' # Nil => container' = container /\ ledger[o].moved
    BY Zenon, <1>1, <1>7, <2>1, <2>2 DEF Concerns, Entries
  <2>4. container' \in Containers \cup {Nil} BY Zenon, <1>1, <1>7, <2>1
  <2>5. ledger'[o].moved BY Zenon, <1>4, <1>6, <1>8
  <2> QED BY Zenon, <1>1, <1>2, <1>4, <1>6, <1>8, <2>3, <2>4, <2>5 DEF CliInv, Ledgered
<1>9. CASE o.verb # "delete"
  <2>1. container # Nil /\ container \in Containers
    BY Zenon, <1>1, <1>9 DEF CanComplete, Concerns
  <2>2. \E st \in {"created", "running", "stopped", container.status} :
           after = container \/ after = [container EXCEPT !.status = st]
    <3>1. CASE o.verb = "create" BY Zenon, <3>1 DEF Outcomes
    <3>2. CASE o.verb = "start" BY Zenon, <3>2 DEF Outcomes
    <3>3. CASE o.verb = "kill" BY Zenon, <3>3 DEF Outcomes
    <3> QED BY Zenon, <1>1, <1>9, <3>1, <3>2, <3>3
  <2>3. /\ after \in Containers /\ after.owner = container.owner
        /\ after.generation = container.generation
    BY Zenon, <2>1, <2>2 DEF Containers
  <2>4. ~ledger'[o].moved BY Zenon, <1>4, <1>6, <1>9
  <2> QED BY Zenon, <1>1, <1>2, <1>4, <1>6, <1>7, <1>9, <2>1, <2>3, <2>4 DEF CliInv, Ledgered
<1> QED BY Zenon, <1>8, <1>9

\* The process of an operation that is answered, and any other process.
LEMMA AnswerGiven ==
    ASSUME CliInv, UNCHANGED <<files, history>>, NEW o \in handling, NEW reply, Answer(o, reply),
           cli.id = o => TrueAnswer(reply, ledger', container'),
           DOMAIN ledger' = DOMAIN ledger,
           \A p \in DOMAIN ledger : p # o => ledger'[p] = ledger[p],
           container' # Nil => container # Nil /\ container'.owner = container.owner
    PROVE  cli' \in Processes /\ Answered' /\ Requesting' /\ Latest' = Latest /\ Life' = Life
<1>1. CASE cli.stage = "await" /\ cli.id = o
  <2>1. cli' = [cli EXCEPT !.stage = "answered", !.reply = reply] BY Zenon, <1>1 DEF Answer
  <2> QED BY Zenon, <1>1, <2>1, Replied, SameJournal
<1>2. CASE ~(cli.stage = "await" /\ cli.id = o)
  <2>1. cli' = cli BY Zenon, <1>2 DEF Answer
  <2>2. ledger[o].reply = "none" BY Zenon DEF CliInv, CliTypes, Ledgered
  <2> QED BY Zenon, <2>1, <2>2, Unnoticed, SameJournal
<1> QED BY Zenon, <1>1, <1>2

\* The host carries a request out and answers it.
LEMMA CompletesStep == ASSUME CliInv, NEW o \in handling, HostCompletes(o) PROVE CliInv'
<1>1. /\ CanComplete(o) /\ handling' = handling \ {o}
      /\ UNCHANGED <<files, history, generation>>
  BY Zenon DEF HostCompletes
<1>2. PICK after \in Outcomes(o) :
         TakesEffect(o, after, ReplyOf(o, after)) /\ Answer(o, ReplyOf(o, after))
  BY Zenon DEF HostCompletes
<1> DEFINE reply == ReplyOf(o, after)
<1>3. /\ DOMAIN ledger' = DOMAIN ledger /\ ledger' \in [DOMAIN ledger -> Entries]
      /\ \A p \in DOMAIN ledger :
            /\ p # o => ledger'[p] = ledger[p]
            /\ ledger'[p].generation = ledger[p].generation
            /\ p.verb = "delete" /\ ledger'[p].reply = "ok" => ledger'[p].moved
            /\ p.verb = "create" => ledger'[p].reply # "changed"
            /\ container' # Nil /\ ledger'[p].moved => ledger[p].moved
      /\ o \in DOMAIN ledger /\ ledger'[o].reply = reply
      /\ reply \in {"ok", "changed"} /\ (o.verb = "create" => reply = "ok")
      /\ container' \in Containers \cup {Nil}
      /\ container' # Nil => /\ container # Nil /\ container'.owner = container.owner
                             /\ container'.generation = container.generation
  BY Zenon, <1>1, <1>2, Effect
<1> HIDE DEF reply
<1>4. cli.id = o => TrueAnswer(reply, ledger', container') BY Zenon, <1>3 DEF TrueAnswer
<1>5. cli' \in Processes /\ Answered' /\ Requesting' /\ Latest' = Latest /\ Life' = Life
  BY Zenon, <1>1, <1>2, <1>3, <1>4, AnswerGiven DEF reply
<1>6. /\ \A p \in DOMAIN ledger : p \in handling' => ledger'[p].reply = "none"
      /\ handling' \subseteq DOMAIN ledger
  BY <1>1, <1>3 DEF CliInv, CliTypes, Ledgered
<1> QED BY Zenon, <1>1, <1>3, <1>5, <1>6, HostStep

\* The host records a failure and answers with it.
LEMMA FailsStep == ASSUME CliInv, NEW o \in handling, HostFails(o) PROVE CliInv'
<1>1. /\ ledger' = [ledger EXCEPT ![o].reply = "refused"] /\ handling' = handling \ {o}
      /\ container' \in {Nil, container} /\ Answer(o, "refused")
      /\ UNCHANGED <<files, generation, history>>
  BY Zenon DEF HostFails
<1>2. o \in DOMAIN ledger /\ ledger \in [DOMAIN ledger -> Entries] /\ ledger[o] \in Entries
  BY Zenon DEF CliInv, CliTypes
<1> DEFINE e == [ledger[o] EXCEPT !.reply = "refused"]
<1>3. /\ e \in Entries /\ e.reply = "refused" /\ e.generation = ledger[o].generation
      /\ e.moved = ledger[o].moved
  BY Zenon, <1>2 DEF Entries
<1>4. ledger' = [ledger EXCEPT ![o] = e] BY Zenon, <1>1
<1> HIDE DEF e
<1>5. /\ DOMAIN ledger' = DOMAIN ledger /\ ledger' \in [DOMAIN ledger -> Entries]
      /\ ledger'[o] = e /\ \A p \in DOMAIN ledger : p # o => ledger'[p] = ledger[p]
  BY Zenon, <1>2, <1>3, <1>4
<1>6. TrueAnswer("refused", ledger', container') BY Zenon DEF TrueAnswer
<1>7. cli' \in Processes /\ Answered' /\ Requesting' /\ Latest' = Latest /\ Life' = Life
  BY Zenon, <1>1, <1>5, <1>6, AnswerGiven
<1>8. \A p \in DOMAIN ledger :
              /\ ledger'[p].generation = ledger[p].generation
              /\ p \in handling' => ledger'[p].reply = "none"
              /\ p.verb = "delete" /\ ledger'[p].reply = "ok" => ledger'[p].moved
              /\ p.verb = "create" => ledger'[p].reply # "changed"
              /\ container' # Nil /\ ledger'[p].moved => ledger[p].moved
  <2> SUFFICES ASSUME NEW p \in DOMAIN ledger
               PROVE  /\ ledger'[p].generation = ledger[p].generation
                      /\ p \in handling' => ledger'[p].reply = "none"
                      /\ p.verb = "delete" /\ ledger'[p].reply = "ok" => ledger'[p].moved
                      /\ p.verb = "create" => ledger'[p].reply # "changed"
                      /\ container' # Nil /\ ledger'[p].moved => ledger[p].moved
    BY Zenon
  <2>1. CASE p = o BY Zenon, <1>1, <1>3, <1>5, <2>1
  <2>2. CASE p # o BY Zenon, <1>1, <1>5, <2>2 DEF CliInv, Ledgered
  <2> QED BY Zenon, <2>1, <2>2
<1> QED BY Zenon, <1>1, <1>5, <1>7, <1>8, HostStep DEF CliInv, CliTypes

\* The host loses track of a request halfway.
LEMMA BreaksOffStep == ASSUME CliInv, NEW o \in handling, HostBreaksOff(o) PROVE CliInv'
<1>1. /\ handling' = handling \ {o} /\ UNCHANGED <<files, history, generation>>
      /\ Answer(o, "refused") \/ cli' = Gone
  BY Zenon DEF HostBreaksOff
<1>2. /\ DOMAIN ledger' = DOMAIN ledger /\ ledger' \in [DOMAIN ledger -> Entries]
      /\ \A p \in DOMAIN ledger :
            /\ p # o => ledger'[p] = ledger[p]
            /\ ledger'[p].generation = ledger[p].generation
            /\ p.verb = "delete" /\ ledger'[p].reply = "ok" => ledger'[p].moved
            /\ p.verb = "create" => ledger'[p].reply # "changed"
            /\ container' # Nil /\ ledger'[p].moved => ledger[p].moved
      /\ container' \in Containers \cup {Nil}
      /\ container' # Nil => /\ container # Nil /\ container'.owner = container.owner
                             /\ container'.generation = container.generation
  <2>1. CASE UNCHANGED <<container, ledger>> BY Zenon, <2>1 DEF CliInv, CliTypes, Ledgered
  <2>2. ASSUME CanComplete(o), NEW after \in Outcomes(o), NEW journaled \in BOOLEAN,
               TakesEffect(o, after, IF journaled THEN ReplyOf(o, after) ELSE "none")
        PROVE  <1>2
    <3> DEFINE reply == IF journaled THEN ReplyOf(o, after) ELSE "none"
    <3>1. reply \in {"none", ReplyOf(o, after)} BY Zenon
    <3>2. TakesEffect(o, after, reply) BY Zenon, <2>2
    <3> HIDE DEF reply
    <3> QED BY Zenon, <2>2, <3>1, <3>2, Effect
  <2> QED BY Zenon, <2>1, <2>2 DEF HostBreaksOff
<1>3. TrueAnswer("refused", ledger', container') BY Zenon DEF TrueAnswer
<1>4. cli' \in Processes /\ Answered' /\ Requesting' /\ Latest' = Latest /\ Life' = Life
  <2>1. CASE Answer(o, "refused") BY Zenon, <1>1, <1>2, <1>3, <2>1, AnswerGiven
  <2>2. CASE cli' = Gone
    <3>1. cli' \in Processes /\ Answered' BY Zenon, <2>2 DEF Gone, Processes, Answered
    <3> QED BY Zenon, <1>1, <2>2, <3>1, SameJournal
  <2> QED BY Zenon, <1>1, <2>1, <2>2
<1>5. /\ \A p \in DOMAIN ledger : p \in handling' => ledger'[p].reply = "none"
      /\ handling' \subseteq DOMAIN ledger
  BY Zenon, <1>1, <1>2 DEF CliInv, CliTypes, Ledgered
<1> QED BY Zenon, <1>1, <1>2, <1>4, <1>5, HostStep

\* Steps after which the ledger is the same.
LEMMA PlainStep ==
    ASSUME CliInv,
           \/ \E o \in handling : HostMisses(o)
           \/ HostDies \/ ContainerExits \/ OthersDelete
    PROVE  CliInv'
<1>1. /\ handling \subseteq DOMAIN ledger /\ \A p \in handling : ledger[p].reply = "none"
      /\ container \in Containers \cup {Nil}
  BY Zenon DEF CliInv, CliTypes, Ledgered
<1>2. Gone \in Processes BY Zenon DEF Gone, Processes
<1>3. ASSUME NEW o \in handling, HostMisses(o) PROVE CliInv'
  <2>1. /\ handling' = handling \ {o}
        /\ UNCHANGED <<files, ledger, container, generation, history>>
        /\ Answer(o, "refused") \/ cli' = Gone \/ cli' = cli
    BY Zenon, <1>3 DEF HostMisses
  <2>2. TrueAnswer("refused", ledger', container') BY Zenon DEF TrueAnswer
  <2>3. cli' \in Processes /\ Answered' /\ Requesting' /\ Latest' = Latest /\ Life' = Life
    <3>1. CASE Answer(o, "refused") BY Zenon, <2>1, <2>2, <3>1, AnswerGiven
    <3>2. CASE cli' = Gone \/ cli' = cli BY Zenon, <2>1, <3>2, Unnoticed, SameJournal
    <3> QED BY Zenon, <2>1, <3>1, <3>2
  <2> QED BY Zenon, <1>1, <2>1, <2>3, QuietHost
<1>4. ASSUME HostDies PROVE CliInv'
  <2>1. /\ handling' = {} /\ cli' = Gone
        /\ UNCHANGED <<files, ledger, container, generation, history>>
    BY Zenon, <1>4 DEF HostDies
  <2>2. cli' \in Processes /\ Answered' /\ Requesting' /\ Latest' = Latest /\ Life' = Life
    BY Zenon, <2>1, Unnoticed, SameJournal
  <2> QED BY Zenon, <1>1, <2>1, <2>2, QuietHost
<1>5. ASSUME ContainerExits PROVE CliInv'
  <2>1. /\ container # Nil /\ container' = [container EXCEPT !.status = "stopped"]
        /\ UNCHANGED <<files, cli, ledger, handling, generation, history>>
    BY Zenon, <1>5 DEF ContainerExits
  <2>2. /\ container' \in Containers /\ container'.owner = container.owner
        /\ container'.generation = container.generation
    BY Zenon, <1>1, <2>1 DEF Containers
  <2>3. cli' \in Processes /\ Answered' /\ Requesting' /\ Latest' = Latest /\ Life' = Life
    BY Zenon, <2>1, <2>2, Unnoticed, SameJournal
  <2> QED BY Zenon, <1>1, <2>1, <2>2, <2>3, QuietHost
<1>6. ASSUME OthersDelete PROVE CliInv'
  <2>1. container' = Nil /\ UNCHANGED <<files, cli, ledger, handling, generation, history>>
    BY Zenon, <1>6 DEF OthersDelete
  <2>2. cli' \in Processes /\ Answered' /\ Requesting' /\ Latest' = Latest /\ Life' = Life
    BY Zenon, <2>1, Unnoticed, SameJournal
  <2> QED BY Zenon, <1>1, <2>1, <2>2, QuietHost
<1> QED BY Zenon, <1>3, <1>4, <1>5, <1>6

\* A request is turned away, or answered from the ledger.
LEMMA TurnsAwayStep == ASSUME CliInv, HostTurnsAway \/ HostAnswersAgain PROVE CliInv'
<1>1. /\ cli.stage = "sent" /\ cli # Gone /\ UNCHANGED <<files, hostVars, history>>
  BY DEF HostTurnsAway, HostAnswersAgain, Gone
<1>2. /\ handling \subseteq DOMAIN ledger /\ \A p \in handling : ledger[p].reply = "none"
      /\ container \in Containers \cup {Nil} /\ ledger \in [DOMAIN ledger -> Entries]
  BY Zenon DEF CliInv, CliTypes, Ledgered
<1>3. ASSUME NEW reply, TrueAnswer(reply, ledger, container), Reply(reply)
      PROVE  CliInv'
  <2>1. cli' = [cli EXCEPT !.stage = "answered", !.reply = reply] BY Zenon, <1>3 DEF Reply
  <2>2. TrueAnswer(reply, ledger', container') BY Zenon, <1>1, <1>3 DEF hostVars
  <2>3. cli' \in Processes /\ Answered' /\ Requesting' /\ Latest' = Latest /\ Life' = Life
    BY Zenon, <1>1, <2>1, <2>2, Replied, SameJournal
  <2> QED BY Zenon, <1>1, <1>2, <2>3, QuietHost DEF hostVars
<1>4. CASE HostTurnsAway
  <2> DEFINE reply == IF cli.id.verb = "create" THEN "exists"
                      ELSE IF container = Nil THEN "missing" ELSE "refused"
  <2>1. cli.id \notin DOMAIN ledger /\ (Reply(reply) \/ Reply("refused"))
    BY Zenon, <1>4 DEF HostTurnsAway
  <2>2. TrueAnswer(reply, ledger, container) /\ TrueAnswer("refused", ledger, container)
    BY Zenon, <2>1 DEF TrueAnswer
  <2> QED BY Zenon, <1>3, <2>1, <2>2
<1>5. CASE HostAnswersAgain
  <2>1. /\ cli.id \in DOMAIN ledger
        /\ \/ Reply("refused")
           \/ ledger[cli.id].reply # "none" /\ Reply(ledger[cli.id].reply)
    BY Zenon, <1>5 DEF HostAnswersAgain
  <2>2. TrueAnswer("refused", ledger, container) BY Zenon DEF TrueAnswer
  <2>3. ledger[cli.id].reply # "none" => TrueAnswer(ledger[cli.id].reply, ledger, container)
    BY Zenon, <1>2, <2>1 DEF TrueAnswer, Entries, CliInv, Ledgered
  <2> QED BY Zenon, <1>3, <2>1, <2>2, <2>3
<1> QED BY Zenon, <1>4, <1>5

\* Another client's container has a generation that is nobody's.
LEMMA OthersCreateStep ==
    ASSUME CliInv, NEW b \in Bundles \cup {Nil}, OthersCreate(b)
    PROVE  CliInv'
<1>1. /\ container = Nil /\ generation' = generation + 1
      /\ container' = [generation |-> generation + 1, owner |-> Nil, bundle |-> b,
                       status |-> "created"]
      /\ UNCHANGED <<files, cli, ledger, handling, history>>
  BY Zenon DEF OthersCreate
<1>2. generation \in Nat BY Zenon DEF CliInv, CliTypes
<1>3. /\ container' \in Containers /\ container'.owner = Nil
      /\ container'.generation = generation + 1
  BY <1>1, <1>2 DEF Containers
<1>4. cli' \in Processes /\ Answered' BY Zenon, <1>1, <1>3, Unnoticed
<1>5. Latest' = Latest /\ Life' = Life /\ Numbered' /\ Requesting' BY Zenon, <1>1, SameJournal
<1>6. CliTypes' BY <1>1, <1>2, <1>3, <1>4 DEF CliInv, CliTypes
<1>7. \A p \in DOMAIN ledger :
         ledger[p].generation \in Nat /\ ledger[p].generation <= generation
  BY Zenon DEF CliInv, CliTypes, Entries, Ledgered
<1>8. Ledgered' BY <1>1, <1>2, <1>5, <1>7 DEF CliInv, Ledgered
<1>9. Fenced' BY <1>1, <1>2, <1>3, <1>7 DEF CliInv, Fenced
<1>10. Owned' BY <1>1, <1>2, <1>3 DEF Owned
<1> QED BY Zenon, <1>4, <1>5, <1>6, <1>8, <1>9, <1>10 DEF CliInv

\* A create that is carried out again, of the lifecycle in the journal.
LEMMA RemadeStep ==
    ASSUME CliInv, UNCHANGED <<files, history, generation, ledger>>, cli.stage = "sent",
           cli.id \in DOMAIN ledger, cli.id.verb = "create", ledger[cli.id].reply = "none",
           container = Nil, TakeUp(cli.id),
           container' = Creating(cli.id, ledger[cli.id].generation)
    PROVE  CliInv'
<1> DEFINE o == cli.id
           g == ledger[o].generation
<1>1. cli # Gone /\ handling' = handling \cup {o} /\ cli' = [cli EXCEPT !.stage = "await"]
  BY DEF TakeUp, Gone
<1>2. o \in Ids /\ o = CreateId(Life) /\ Life \in Lives /\ Life # Nil
      /\ (Life.delete = Nil \/ Life.inc \in history.crossed)
  BY Zenon, <1>1, AtWork, CliAssumption DEF CliInv, Requesting
<1>3. g \in Nat /\ g <= generation /\ ledger \in [DOMAIN ledger -> Entries]
  BY Zenon DEF CliInv, CliTypes, Entries, Ledgered
<1>4. o.arg \in Bundles /\ o.inc = Life.inc BY <1>2 DEF CreateId, OperationId, Lives
<1>5. container' \in Containers /\ container'.owner = o /\ container'.generation = g
  BY Zenon, <1>2, <1>3, <1>4 DEF Creating, Containers
<1>6. /\ cli' \in Processes /\ Answered' /\ Requesting' /\ Numbered'
      /\ Latest' = Latest /\ Life' = Life
  BY Zenon, <1>1, TakenUp, SameJournal
<1>7. CliTypes' BY Zenon, <1>1, <1>5, <1>6 DEF CliInv, CliTypes
<1>8. Ledgered' BY Zenon, <1>1, <1>6 DEF CliInv, Ledgered
<1>9. Fenced' BY Zenon, <1>5 DEF CliInv, Fenced
<1>10. Life.inc \notin history.crossed => Life.delete \notin DOMAIN ledger
  BY Zenon, <1>2, CliAssumption DEF CliInv, CliTypes
<1>11. Owned' BY Zenon, <1>2, <1>3, <1>4, <1>5, <1>6, <1>10 DEF Owned
<1> QED BY Zenon, <1>6, <1>7, <1>8, <1>9, <1>11 DEF CliInv

\* The host finds the request in its store and takes it up again.
LEMMA ResumesStep == ASSUME CliInv, HostResumes PROVE CliInv'
<1> DEFINE o == cli.id
<1>1. /\ cli.stage = "sent" /\ cli # Gone /\ o \in DOMAIN ledger /\ o \notin handling
      /\ ledger[o].reply = "none" /\ UNCHANGED <<files, generation, history>>
  BY DEF HostResumes, Gone
<1>2. /\ handling \subseteq DOMAIN ledger /\ \A p \in handling : ledger[p].reply = "none"
      /\ container \in Containers \cup {Nil} /\ ledger \in [DOMAIN ledger -> Entries]
  BY Zenon DEF CliInv, CliTypes, Ledgered
<1>3. CASE /\ o.verb = "create" /\ container = Nil /\ TakeUp(o) /\ UNCHANGED ledger
           /\ container' = Creating(o, ledger[o].generation)
  BY Zenon, <1>1, <1>3, RemadeStep
<1>4. CASE TakeUp(o) /\ UNCHANGED <<ledger, container>>
  <2>1. handling' = handling \cup {o} /\ cli' = [cli EXCEPT !.stage = "await"]
    BY Zenon, <1>4 DEF TakeUp
  <2>2. cli' \in Processes /\ Answered' /\ Requesting' /\ Latest' = Latest /\ Life' = Life
    BY Zenon, <1>1, <2>1, TakenUp, SameJournal
  <2>3. handling' \subseteq DOMAIN ledger /\ \A p \in handling' : ledger[p].reply = "none"
    BY Zenon, <1>1, <1>2, <2>1
  <2> QED BY Zenon, <1>1, <1>2, <1>4, <2>2, <2>3, QuietHost
<1>5. CASE Reply("refused") /\ UNCHANGED <<ledger, handling, container>>
  <2>1. cli' = [cli EXCEPT !.stage = "answered", !.reply = "refused"] BY Zenon, <1>5 DEF Reply
  <2>2. TrueAnswer("refused", ledger', container') BY Zenon DEF TrueAnswer
  <2>3. cli' \in Processes /\ Answered' /\ Requesting' /\ Latest' = Latest /\ Life' = Life
    BY Zenon, <1>1, <2>1, <2>2, Replied, SameJournal
  <2> QED BY Zenon, <1>1, <1>2, <1>5, <2>3, QuietHost
<1>6. CASE /\ ledger[o].moved /\ ledger' = [ledger EXCEPT ![o].reply = "ok"] /\ Reply("ok")
           /\ UNCHANGED <<handling, container>>
  <2> DEFINE e == [ledger[o] EXCEPT !.reply = "ok"]
  <2>1. /\ e \in Entries /\ e.reply = "ok" /\ e.moved /\ e.generation = ledger[o].generation
    BY Zenon, <1>1, <1>2, <1>6 DEF Entries
  <2>2. ledger' = [ledger EXCEPT ![o] = e] BY Zenon, <1>6
  <2> HIDE DEF e
  <2>3. /\ DOMAIN ledger' = DOMAIN ledger /\ ledger' \in [DOMAIN ledger -> Entries]
        /\ ledger'[o] = e /\ \A p \in DOMAIN ledger \ {o} : ledger'[p] = ledger[p]
    BY Zenon, <1>1, <1>2, <2>1, <2>2
  <2>4. \A p \in DOMAIN ledger :
              /\ ledger'[p].generation = ledger[p].generation
              /\ p \in handling' => ledger'[p].reply = "none"
              /\ p.verb = "delete" /\ ledger'[p].reply = "ok" => ledger'[p].moved
              /\ p.verb = "create" => ledger'[p].reply # "changed"
              /\ container' # Nil /\ ledger'[p].moved => ledger[p].moved
    BY Zenon, <1>1, <1>6, <2>1, <2>3 DEF CliInv, Ledgered
  <2>5. cli' = [cli EXCEPT !.stage = "answered", !.reply = "ok"] BY Zenon, <1>6 DEF Reply
  <2>6. TrueAnswer("ok", ledger', container') BY Zenon, <1>1, <2>1, <2>3 DEF TrueAnswer
  <2>7. cli' \in Processes /\ Answered' /\ Requesting' /\ Latest' = Latest /\ Life' = Life
    BY Zenon, <1>1, <2>5, <2>6, Replied, SameJournal
  <2> HIDE DEF o
  <2> QED BY Zenon, <1>1, <1>2, <1>6, <2>3, <2>4, <2>7, HostStep
<1>7. CASE cli' = Gone /\ UNCHANGED <<ledger, handling, container>>
  <2>1. cli' \in Processes /\ Answered' /\ Requesting' /\ Latest' = Latest /\ Life' = Life
    BY Zenon, <1>1, <1>7, Unnoticed, SameJournal
  <2> QED BY Zenon, <1>1, <1>2, <1>7, <2>1, QuietHost
<1> QED BY Zenon, <1>3, <1>4, <1>5, <1>6, <1>7 DEF HostResumes

\* A new request: what the journal has just stored, with a generation that is
\* new or that of the container.
LEMMA AdmitsStep == ASSUME CliInv, HostAdmits PROVE CliInv'
<1> DEFINE o == cli.id
           fence == IF o.verb = "create" THEN generation + 1 ELSE cli.target
           entry == [reply |-> "none", generation |-> fence, moved |-> FALSE]
<1>1. /\ cli.stage = "sent" /\ cli # Gone /\ o \notin DOMAIN ledger /\ HostAccepts(o, cli.target)
      /\ UNCHANGED <<files, history>>
      /\ ledger' = [p \in DOMAIN ledger \cup {o} |-> IF p = o THEN entry ELSE ledger[p]]
      /\ \/ handling' = handling \cup {o} /\ cli' = [cli EXCEPT !.stage = "await"]
         \/ handling' = handling /\ Reply("refused")
  BY DEF HostAdmits, TakeUp, Gone
<1>2. /\ o \in Ids /\ Life \in Lives /\ Life # Nil /\ cli.target \in Nat /\ generation \in Nat
      /\ o.verb # "create" => o.verb \in Commands /\ o = Life[o.verb] /\ o.inc = Life.inc
                              /\ o.seq < Life.seq
      /\ o.verb = "create" => o = CreateId(Life) /\ o.inc = Life.inc /\ o.seq = 0
                              /\ o.arg \in Bundles
      /\ 0 < Life.seq /\ Life.inc < Latest.next
  <2>1. o \in Ids /\ Life \in Lives /\ Life # Nil /\ cli \in Processes
        /\ (o.verb # "create" => o.verb \in Commands)
    BY Zenon, <1>1, AtWork, CliAssumption
  <2>2. cli.target \in Nat /\ generation \in Nat BY Zenon, <2>1 DEF Processes, CliInv, CliTypes
  <2>3. /\ o.verb # "create" => o = Life[o.verb]
        /\ o.verb = "create" => o = CreateId(Life)
    BY Zenon, <1>1 DEF CliInv, Requesting
  <2>4. 0 < Life.seq /\ Life.inc < Latest.next BY Zenon, <2>1 DEF CliInv, Numbered
  <2>5. ASSUME o.verb # "create" PROVE o.inc = Life.inc /\ o.seq < Life.seq
    <3>1. o # Nil BY Zenon, <2>1, CliAssumption
    <3> QED BY Zenon, <2>1, <2>3, <2>5, <3>1 DEF CliInv, Numbered
  <2>6. ASSUME o.verb = "create" PROVE o.inc = Life.inc /\ o.seq = 0 /\ o.arg \in Bundles
    BY <2>1, <2>3, <2>6 DEF CreateId, OperationId, Lives
  <2> QED BY Zenon, <2>1, <2>2, <2>3, <2>4, <2>5, <2>6
<1>3. \/ /\ o.verb = "create" /\ container = Nil /\ generation' = generation + 1
         /\ container' = Creating(o, generation + 1) /\ fence = generation + 1
      \/ /\ o.verb # "create" /\ UNCHANGED <<container, generation>> /\ container # Nil
         /\ container.generation = fence /\ fence = cli.target
  BY Zenon, <1>1 DEF HostAdmits, HostAccepts
<1>4. fence \in Nat BY <1>2
<1> HIDE DEF fence
<1>5. /\ entry \in Entries /\ entry.reply = "none" /\ entry.generation = fence /\ ~entry.moved
  BY Zenon, <1>4 DEF Entries
<1> HIDE DEF entry
<1>6. /\ DOMAIN ledger \subseteq Ids /\ ledger \in [DOMAIN ledger -> Entries]
      /\ handling \subseteq DOMAIN ledger /\ container \in Containers \cup {Nil}
  BY Zenon DEF CliInv, CliTypes
<1> HIDE DEF o
<1>7. /\ DOMAIN ledger' = DOMAIN ledger \cup {o} /\ ledger'[o] = entry
      /\ \A p \in DOMAIN ledger : p # o /\ ledger'[p] = ledger[p]
      /\ ledger' \in [DOMAIN ledger' -> Entries] /\ DOMAIN ledger' \subseteq Ids
  BY Zenon, <1>1, <1>2, <1>5, <1>6
<1>8. /\ cli' \in Processes /\ Answered' /\ Requesting' /\ Numbered'
      /\ Latest' = Latest /\ Life' = Life
  <2>1. CASE cli' = [cli EXCEPT !.stage = "await"] BY Zenon, <1>1, <2>1, TakenUp, SameJournal
  <2>2. CASE Reply("refused")
    <3>1. cli' = [cli EXCEPT !.stage = "answered", !.reply = "refused"] BY Zenon, <2>2 DEF Reply
    <3>2. TrueAnswer("refused", ledger', container') BY Zenon DEF TrueAnswer
    <3> QED BY Zenon, <1>1, <3>1, <3>2, Replied, SameJournal
  <2> QED BY Zenon, <1>1, <2>1, <2>2
<1>9. \A p \in DOMAIN ledger :
         ledger[p].generation \in Nat /\ ledger[p].generation <= generation
  BY Zenon DEF CliInv, CliTypes, Entries, Ledgered
<1>10. handling' \subseteq DOMAIN ledger' /\ handling' \subseteq handling \cup {o}
  BY Zenon, <1>1, <1>6, <1>7
<1>11. o \in DOMAIN ledger' BY Zenon, <1>7
<1>12. CASE /\ o.verb = "create" /\ container = Nil /\ generation' = generation + 1
            /\ container' = Creating(o, generation + 1) /\ fence = generation + 1
  <2>1. /\ container' \in Containers /\ container'.owner = o
        /\ container'.generation = generation + 1 /\ container' # Nil
    BY <1>2, <1>12, CliAssumption DEF Creating, Containers
  <2>2. CliTypes' BY <1>2, <1>7, <1>8, <1>10, <1>12, <2>1, <1>1 DEF CliInv, CliTypes
  <2>3. Ledgered'
    BY <1>1, <1>2, <1>5, <1>7, <1>8, <1>9, <1>10, <1>12 DEF CliInv, Ledgered
  <2>4. \A p \in DOMAIN ledger' : ledger'[p].generation = generation + 1 => p = o
    BY <1>2, <1>7, <1>9
  <2>5. Fenced'
    <3> SUFFICES ASSUME NEW p \in DOMAIN ledger', p.verb = "create"
                 PROVE  /\ ledger'[p].generation = generation + 1 => o = p
                        /\ \A q \in DOMAIN ledger' :
                              q # p /\ ledger'[q].generation = ledger'[p].generation =>
                                q.verb # "create" /\ (q.inc = p.inc \/ p.inc \in history.crossed)
      BY <1>1, <2>1 DEF Fenced
    <3>1. CASE p = o BY Zenon, <1>5, <1>7, <1>12, <2>4, <3>1
    <3>2. CASE p # o
      <4>1. p \in DOMAIN ledger /\ ledger'[p] = ledger[p] BY Zenon, <1>7, <3>2
      <4>2. ledger[p].generation # generation + 1 BY <1>2, <1>9, <4>1
      <4> QED BY Zenon, <1>5, <1>7, <1>12, <4>1, <4>2 DEF CliInv, Fenced
    <3> QED BY Zenon, <3>1, <3>2
  <2>6. Life.inc \notin history.crossed => Life.delete \notin DOMAIN ledger'
    BY Zenon, <1>1, <1>2, <1>7, <1>12, CliAssumption DEF CliInv, Requesting, o
  <2>7. Owned'
    BY <1>1, <1>2, <1>5, <1>7, <1>8, <1>11, <1>12, <2>1, <2>6 DEF Owned
  <2> QED BY Zenon, <1>8, <2>2, <2>3, <2>5, <2>7 DEF CliInv
<1>13. CASE /\ o.verb # "create" /\ UNCHANGED <<container, generation>> /\ container # Nil
            /\ container.generation = fence /\ fence = cli.target
  <2>1. fence <= generation BY Zenon, <1>13 DEF CliInv, Owned
  <2>2. CliTypes' BY Zenon, <1>1, <1>6, <1>7, <1>8, <1>10, <1>13 DEF CliInv, CliTypes
  <2>3. Ledgered'
    BY Zenon, <1>1, <1>2, <1>5, <1>7, <1>8, <1>10, <1>13, <2>1 DEF CliInv, Ledgered
  <2>4. ASSUME NEW p \in DOMAIN ledger, p.verb = "create", ledger[p].generation = fence
        PROVE  o.inc = p.inc \/ p.inc \in history.crossed
    <3>1. container.owner = p BY Zenon, <1>13, <2>4 DEF CliInv, Fenced
    <3>2. p # Nil BY Zenon, <1>6, CliAssumption
    <3>3. p.inc \notin history.crossed => CreateId(Life) = p BY Zenon, <1>13, <3>1, <3>2 DEF CliInv, Owned
    <3>4. CreateId(Life).inc = Life.inc BY Zenon DEF CreateId, OperationId
    <3> QED BY Zenon, <1>2, <1>13, <3>3, <3>4
  <2>5. Fenced'
    <3> SUFFICES ASSUME NEW p \in DOMAIN ledger', p.verb = "create"
                 PROVE  /\ ledger'[p].generation = container.generation => container.owner = p
                        /\ \A q \in DOMAIN ledger' :
                              q # p /\ ledger'[q].generation = ledger'[p].generation =>
                                q.verb # "create" /\ (q.inc = p.inc \/ p.inc \in history.crossed)
      BY <1>1, <1>13 DEF Fenced
    <3>1. p \in DOMAIN ledger /\ ledger'[p] = ledger[p] BY Zenon, <1>7, <1>13
    <3> QED BY <1>5, <1>7, <1>13, <2>4, <3>1 DEF CliInv, Fenced
  <2>6. Owned'
    BY Zenon, <1>1, <1>5, <1>7, <1>8, <1>13 DEF CliInv, Owned
  <2> QED BY Zenon, <1>8, <2>2, <2>3, <2>5, <2>6 DEF CliInv
<1> QED BY Zenon, <1>3, <1>12, <1>13

-----------------------------------------------------------------------------
(* The theorems.                                                             *)

\* A fresh home directory: no lifecycle and nothing asked of the host.
LEMMA CliInitially == CliInit => CliInv
<1> SUFFICES ASSUME CliInit PROVE CliInv
  BY Zenon
<1> DEFINE first == [next |-> 1, life |-> Nil]
<1>1. first \in Snapshots /\ first.next = 1 /\ first.life = Nil BY Zenon DEF Snapshots
<1>2. files = <<first>> BY Zenon DEF CliInit
<1> HIDE DEF first
<1>3. files \in Seq(Snapshots) /\ files # <<>> /\ Latest = first BY <1>1, <1>2 DEF Latest
<1>4. Life = Nil BY Zenon, <1>1, <1>3 DEF Life
<1>5. DOMAIN ledger = {} /\ ledger \in [DOMAIN ledger -> Entries] BY Zenon DEF CliInit
<1>6. cli \in Processes /\ cli = Gone /\ cli.stage = "gone" BY Zenon DEF CliInit, Gone, Processes
<1> QED BY Zenon, <1>3, <1>4, <1>5, <1>6
        DEF CliInit, CliInv, CliTypes, Numbered, Requesting, Answered, Ledgered, Fenced, Owned

\* A step that changes nothing, as reading the state is.
LEMMA CliStutters == CliInv /\ UNCHANGED cliVars => CliInv'
<1> SUFFICES ASSUME CliInv, UNCHANGED cliVars PROVE CliInv'
  BY Zenon
<1>1. UNCHANGED <<files, cli, ledger, handling, container, generation, history>> BY Zenon DEF cliVars
<1>2. Latest' = Latest /\ Life' = Life BY Zenon, <1>1 DEF Latest, Life
<1>3. CliTypes' BY Zenon, <1>1 DEF CliInv, CliTypes
<1>4. Numbered' BY Zenon, <1>1, <1>2 DEF CliInv, Numbered
<1>5. Requesting' BY Zenon, <1>1, <1>2 DEF CliInv, Requesting
<1>6. Answered' BY Zenon, <1>1, <1>2 DEF CliInv, Answered
<1>7. Ledgered' BY Zenon, <1>1, <1>2 DEF CliInv, Ledgered
<1>8. Fenced' BY Zenon, <1>1 DEF CliInv, Fenced
<1>9. Owned' BY Zenon, <1>1, <1>2 DEF CliInv, Owned
<1> QED BY Zenon, <1>3, <1>4, <1>5, <1>6, <1>7, <1>8, <1>9 DEF CliInv

\* Every step of the command line, the host and the others keeps it.
LEMMA CliSteps == CliInv /\ [CliNext]_cliVars => CliInv'
<1> SUFFICES ASSUME CliInv, CliNext PROVE CliInv'
  BY Zenon, CliStutters
<1>1. CASE State BY Zenon, <1>1, CliStutters DEF State
<1>2. ASSUME NEW b \in Bundles, Create(b) \/ CreateAgain(b) PROVE CliInv'
  BY Zenon, <1>2, CreateStep, CreateAgainStep
<1>3. ASSUME Command("start", Nil) PROVE CliInv' BY Zenon, <1>3, CommandStep DEF Commands
<1>4. ASSUME NEW s \in Signals, Command("kill", s) PROVE CliInv' BY Zenon, <1>4, CommandStep DEF Commands
<1>5. ASSUME NEW m \in Modes, Command("delete", m) PROVE CliInv' BY Zenon, <1>5, CommandStep DEF Commands
<1>6. ASSUME NEW o \in handling, HostCompletes(o) \/ HostFails(o) \/ HostBreaksOff(o)
      PROVE  CliInv'
  BY Zenon, <1>6, CompletesStep, FailsStep, BreaksOffStep
<1> QED BY Zenon, <1>1, <1>2, <1>3, <1>4, <1>5, <1>6, ResolveStep, SettleStep, DiesStep, AdmitsStep,
           TurnsAwayStep, ResumesStep, PlainStep, OthersCreateStep
        DEF CliNext

\* The invariant of the composed specification.
LEMMA CliInvariant == CliSpec => []CliInv
BY CliInitially, CliSteps, PTL DEF CliSpec

\* For any bundles, signals and bounds: a container that the host made for the
\* command line is the one the journal describes, whichever process died and
\* whichever answer was lost or wrong (oci_cli's lifecycle, journal and
\* reconcile_create_error), so that kill and delete can always reach it.
THEOREM CreatedIsJournaledHolds == CliSpec => []CreatedIsJournaled
<1>1. CliInv => CreatedIsJournaled BY Zenon DEF CliInv, Owned, CreatedIsJournaled, IsOurs
<1> QED BY <1>1, CliInvariant, PTL

\* For any bundles, signals and bounds: no number of an operation the host has
\* admitted is given out again, and an unanswered operation on the container is
\* the one the journal holds and the command repeats (prepare before dispatch).
THEOREM RequestsAreJournaledHolds == CliSpec => []RequestsAreJournaled
<1>1. CliInv => RequestsAreJournaled
  <2> SUFFICES ASSUME CliInv, NEW o \in DOMAIN ledger, o.verb # "create",
                      o \notin history.answered, Concerns(o), IsOurs
               PROVE  Life # Nil /\ Life[o.verb] = o
    BY Zenon DEF RequestsAreJournaled, CliInv, Ledgered
  <2> DEFINE p == container.owner
  <2>1. /\ p \in DOMAIN ledger /\ p.verb = "create" /\ p.inc \notin history.crossed
        /\ ledger[p].generation = container.generation /\ Life # Nil /\ CreateId(Life) = p
    BY Zenon DEF IsOurs, CliInv, Owned
  <2>2. o.inc = p.inc BY Zenon, <2>1 DEF CliInv, Fenced, Concerns
  <2>3. CreateId(Life).inc = Life.inc BY Zenon DEF CreateId, OperationId
  <2> QED BY Zenon, <2>1, <2>2, <2>3 DEF CliInv, Ledgered
<1> QED BY <1>1, CliInvariant, PTL

-----------------------------------------------------------------------------
(* The revisions.  They are valid because a generation is never zero, and    *)
(* because whatever is stored replaces a valid lifecycle by one.             *)

Positive ==
    /\ container # Nil => 0 < container.generation
    /\ \A o \in DOMAIN ledger : o.verb = "create" => 0 < ledger[o].generation

\* The host gives out generations from one on.
LEMMA PositiveInitially == CliInit => Positive
BY Zenon DEF CliInit, Positive

\* A step that keeps the generations keeps them positive.
LEMMA PositiveStays ==
    ASSUME Positive, DOMAIN ledger' = DOMAIN ledger,
           \A p \in DOMAIN ledger : ledger'[p].generation = ledger[p].generation,
           container' # Nil => container # Nil /\ container'.generation = container.generation
    PROVE  Positive'
BY Zenon DEF Positive

\* A new operation: a create has a generation of its own.
LEMMA PositiveAdmits == ASSUME CliInv, Positive, HostAdmits PROVE Positive'
<1> DEFINE o == cli.id
           fence == IF o.verb = "create" THEN generation + 1 ELSE cli.target
           entry == [reply |-> "none", generation |-> fence, moved |-> FALSE]
<1>1. /\ o \notin DOMAIN ledger
      /\ ledger' = [p \in DOMAIN ledger \cup {o} |-> IF p = o THEN entry ELSE ledger[p]]
      /\ \/ o.verb = "create" /\ container' = Creating(o, fence)
         \/ o.verb # "create" /\ UNCHANGED container
  BY Zenon DEF HostAdmits
<1>2. generation \in Nat BY Zenon DEF CliInv, CliTypes
<1>3. o.verb = "create" => 0 < fence BY <1>2
<1>4. entry.generation = fence BY Zenon
<1>5. Creating(o, fence).generation = fence BY Zenon DEF Creating
<1> HIDE DEF o, fence, entry
<1>6. DOMAIN ledger' = DOMAIN ledger \cup {o} /\ ledger'[o] = entry
      /\ \A p \in DOMAIN ledger : ledger'[p] = ledger[p]
  BY Zenon, <1>1
<1>7. \A p \in DOMAIN ledger' : p.verb = "create" => 0 < ledger'[p].generation
  BY Zenon, <1>3, <1>4, <1>6 DEF Positive
<1>8. container' # Nil => 0 < container'.generation BY Zenon, <1>1, <1>3, <1>5 DEF Positive
<1> QED BY Zenon, <1>7, <1>8 DEF Positive

\* An operation taken up again: a create remakes its container in its generation.
LEMMA PositiveResumes == ASSUME CliInv, Positive, HostResumes PROVE Positive'
<1> DEFINE o == cli.id
<1>1. o \in DOMAIN ledger /\ ledger \in [DOMAIN ledger -> Entries] BY Zenon DEF HostResumes, CliInv, CliTypes
<1>2. \/ UNCHANGED <<ledger, container>>
      \/ ledger' = [ledger EXCEPT ![o].reply = "ok"] /\ UNCHANGED container
      \/ UNCHANGED ledger /\ o.verb = "create" /\ container' = Creating(o, ledger[o].generation)
  BY Zenon DEF HostResumes
<1>3. CASE UNCHANGED <<ledger, container>> BY Zenon, <1>3 DEF Positive
<1>4. CASE ledger' = [ledger EXCEPT ![o].reply = "ok"] /\ UNCHANGED container
  <2>1. \A p \in DOMAIN ledger : ledger'[p].generation = ledger[p].generation
    BY Zenon, <1>1, <1>4 DEF Entries
  <2> QED BY Zenon, <1>4, <2>1, PositiveStays
<1>5. CASE UNCHANGED ledger /\ o.verb = "create" /\ container' = Creating(o, ledger[o].generation)
  <2>1. container'.generation = ledger[o].generation BY Zenon, <1>5 DEF Creating
  <2> QED BY Zenon, <1>1, <1>5, <2>1 DEF Positive
<1> QED BY Zenon, <1>2, <1>3, <1>4, <1>5

\* A failure is entered under the operation's own generation.
LEMMA PositiveFails == ASSUME CliInv, Positive, NEW o \in handling, HostFails(o) PROVE Positive'
<1>1. o \in DOMAIN ledger /\ ledger \in [DOMAIN ledger -> Entries] BY Zenon DEF CliInv, CliTypes
<1>2. ledger' = [ledger EXCEPT ![o].reply = "refused"] /\ container' \in {Nil, container}
  BY Zenon DEF HostFails
<1>3. \A p \in DOMAIN ledger : ledger'[p].generation = ledger[p].generation
  BY Zenon, <1>1, <1>2 DEF Entries
<1> QED BY Zenon, <1>2, <1>3, PositiveStays

\* Every step keeps the generations positive.
LEMMA PositiveSteps == CliInv /\ Positive /\ [CliNext]_cliVars => Positive'
<1> SUFFICES ASSUME CliInv, Positive, [CliNext]_cliVars PROVE Positive'
  BY Zenon
<1>1. ASSUME UNCHANGED <<ledger, container>> PROVE Positive' BY Zenon, <1>1 DEF Positive
<1>2. ASSUME \/ \E b \in Bundles : Create(b) \/ CreateAgain(b)
             \/ \E v, a : Command(v, a)
             \/ Resolve \/ State \/ Settle \/ CliDies \/ HostTurnsAway \/ HostAnswersAgain
             \/ \E o \in handling : HostMisses(o)
             \/ HostDies \/ UNCHANGED cliVars
      PROVE  UNCHANGED <<ledger, container>>
  BY Zenon, <1>2 DEF Create, CreateAgain, Command, Resolve, State, Settle, CliDies, HostTurnsAway,
              HostAnswersAgain, HostMisses, HostDies, hostVars, cliVars
<1>3. ASSUME NEW o \in handling, HostCompletes(o) \/ HostBreaksOff(o) PROVE Positive'
  <2>1. CASE UNCHANGED <<ledger, container>> BY Zenon, <1>1, <2>1
  <2>2. ASSUME NEW after \in Outcomes(o), CanComplete(o), NEW reply \in {"none", ReplyOf(o, after)},
               TakesEffect(o, after, reply)
        PROVE  Positive'
    BY Zenon, <2>2, Effect, PositiveStays
  <2>3. CASE HostCompletes(o) BY Zenon, <2>2, <2>3 DEF HostCompletes
  <2>4. CASE HostBreaksOff(o)
    <3>1. \/ UNCHANGED <<ledger, container>>
          \/ /\ CanComplete(o)
             /\ \E after \in Outcomes(o), journaled \in BOOLEAN :
                  TakesEffect(o, after, IF journaled THEN ReplyOf(o, after) ELSE "none")
      BY Zenon, <2>4 DEF HostBreaksOff
    <3> QED BY Zenon, <2>1, <2>2, <3>1
  <2> QED BY Zenon, <1>3, <2>3, <2>4
<1>4. CASE ContainerExits
  <2>1. container \in Containers BY Zenon, <1>4 DEF ContainerExits, CliInv, CliTypes
  <2>2. container'.generation = container.generation BY Zenon, <1>4, <2>1 DEF ContainerExits, Containers
  <2> QED BY Zenon, <1>4, <2>2 DEF ContainerExits, Positive
<1>5. ASSUME NEW b \in Bundles \cup {Nil}, OthersCreate(b) PROVE Positive'
  <2>1. generation \in Nat /\ container'.generation = generation + 1 /\ UNCHANGED ledger
    BY Zenon, <1>5 DEF OthersCreate, CliInv, CliTypes
  <2> QED BY <2>1 DEF Positive
<1>6. CASE OthersDelete BY Zenon, <1>6 DEF OthersDelete, Positive
<1> QED BY Zenon, <1>1, <1>2, <1>3, <1>4, <1>5, <1>6, PositiveAdmits, PositiveResumes, PositiveFails
        DEF CliNext

\* The newest revision is one of them.
LEMMA LatestValid == ASSUME CliTypes, RevisionsAreValid PROVE IsValid(Latest)
BY DEF CliTypes, RevisionsAreValid, Latest

\* Publishing a valid revision beside valid ones.
LEMMA PersistValid ==
    ASSUME CliTypes, RevisionsAreValid, NEW s \in Snapshots, IsValid(s), NEW p, Persist(s, p)
    PROVE  RevisionsAreValid'
<1> DEFINE l == Latest
<1>1. IsValid(l) BY Zenon, LatestValid
<1>2. files' = <<s>> \/ files' = files \/ files' = <<l, s>> BY Zenon DEF Persist
<1> HIDE DEF l
<1>3. CASE files' = files BY Zenon, <1>3 DEF RevisionsAreValid
<1>4. CASE files' = <<s>>
  <2>1. \A i \in DOMAIN files' : files'[i] = s BY <1>4
  <2> QED BY Zenon, <2>1 DEF RevisionsAreValid
<1>5. CASE files' = <<l, s>>
  <2>1. \A i \in DOMAIN files' : files'[i] \in {l, s} BY <1>5
  <2> QED BY Zenon, <1>1, <2>1 DEF RevisionsAreValid
<1> QED BY Zenon, <1>2, <1>3, <1>4, <1>5

\* What is asked of a lifecycle apart from the next incarnation.
Legal(l) ==
    /\ l.inc # 0 /\ l.seq # 0
    /\ l.acknowledged => l.target # 0
    /\ ~(l.started /\ l.start # Nil)
    /\ \A v \in Commands : l[v] # Nil => l[v].seq # 0 /\ l[v].seq < l.seq

\* The lifecycle in the journal is legal.
LEMMA LifeLegal ==
    ASSUME CliInv, RevisionsAreValid, Life # Nil
    PROVE  Life \in Lives /\ Legal(Life) /\ Life.inc < Latest.next
<1>1. IsValid(Latest) BY Zenon, LatestValid DEF CliInv
<1>2. Life \in Lives BY Zenon, LatestTyped DEF CliInv
<1>3. Life.inc < Latest.next /\ Legal(Life) BY Zenon, <1>1 DEF IsValid, Legal, Life, Commands
<1> QED BY Zenon, <1>2, <1>3

\* A legal lifecycle, or none, in the place of the one there is.
LEMMA ReplaceValid ==
    ASSUME CliInv, RevisionsAreValid, Life # Nil, NEW new \in Lives \cup {Nil}, NEW p,
           new # Nil => Legal(new) /\ new.inc = Life.inc,
           Persist([Latest EXCEPT !.life = new], p)
    PROVE  RevisionsAreValid'
<1> DEFINE snapshot == [Latest EXCEPT !.life = new]
<1>1. Latest \in Snapshots /\ CliTypes BY Zenon, LatestTyped DEF CliInv
<1>2. snapshot \in Snapshots /\ snapshot.next = Latest.next /\ snapshot.life = new
  BY Zenon, <1>1 DEF Snapshots
<1>3. Persist(snapshot, p) BY Zenon
<1> HIDE DEF snapshot
<1>4. IsValid(Latest) /\ Life.inc < Latest.next BY Zenon, <1>1, LatestValid, LifeLegal
<1>5. snapshot.next # 0 BY Zenon, <1>2, <1>4 DEF IsValid
<1>6. IsValid(snapshot) BY Zenon, <1>2, <1>4, <1>5 DEF IsValid, Legal, Commands
<1> QED BY Zenon, <1>1, <1>2, <1>3, <1>6, PersistValid

\* A lifecycle keeps legal when its target is found.
LEMMA TargetLegal ==
    ASSUME NEW l \in Lives, Legal(l), NEW t \in Nat, t # 0, NEW a \in BOOLEAN
    PROVE  LET new == [l EXCEPT !.target = t, !.acknowledged = a]
           IN  new \in Lives /\ Legal(new) /\ new.inc = l.inc
<1> DEFINE new == [l EXCEPT !.target = t, !.acknowledged = a]
<1>1. /\ new \in Lives /\ new.inc = l.inc /\ new.seq = l.seq /\ new.target = t
      /\ new.started = l.started /\ new.start = l.start
      /\ new["start"] = l["start"] /\ new["kill"] = l["kill"] /\ new["delete"] = l["delete"]
  BY Zenon DEF Lives
<1> HIDE DEF new
<1>2. \A v \in Commands : new[v] = l[v] BY Zenon, <1>1 DEF Commands
<1>3. Legal(new) BY Zenon, <1>1, <1>2 DEF Legal
<1> QED BY Zenon, <1>1, <1>3 DEF new

\* It keeps legal when an operation is no longer pending.
LEMMA ClearedLegal ==
    ASSUME Life \in Lives, Legal(Life), NEW v \in Commands, NEW reply
    PROVE  LET new == Cleared(v, reply)
           IN  new \in Lives /\ Legal(new) /\ new.inc = Life.inc
<1> DEFINE new == Cleared(v, reply)
<1>1. /\ new \in Lives /\ new.inc = Life.inc /\ new.seq = Life.seq /\ new.target = Life.target
      /\ new.acknowledged = Life.acknowledged
      /\ new.started = Life.started \/ new.start = Nil
      /\ new["start"] \in {Life["start"], Nil}
      /\ new["kill"] \in {Life["kill"], Nil} /\ new["delete"] \in {Life["delete"], Nil}
  <2>1. CASE v = "start" /\ reply = "ok"
    <3>1. new = [Life EXCEPT !.start = Nil, !.started = TRUE] BY Zenon, <2>1 DEF Cleared
    <3> QED BY Zenon, <3>1 DEF Lives
  <2>2. CASE v = "start" /\ reply # "ok"
    <3>1. new = [Life EXCEPT !.start = Nil] BY Zenon, <2>2 DEF Cleared
    <3> QED BY Zenon, <3>1 DEF Lives
  <2>3. CASE v = "kill"
    <3>1. new = [Life EXCEPT !.kill = Nil] BY Zenon, <2>3 DEF Cleared
    <3> QED BY Zenon, <3>1 DEF Lives
  <2>4. CASE v = "delete"
    <3>1. new = [Life EXCEPT !.delete = Nil] BY Zenon, <2>4 DEF Cleared
    <3> QED BY Zenon, <3>1 DEF Lives
  <2> QED BY Zenon, <2>1, <2>2, <2>3, <2>4 DEF Commands
<1> HIDE DEF new
<1>2. \A w \in Commands : new[w] \in {Life[w], Nil} BY Zenon, <1>1 DEF Commands
<1>3. new.start = new["start"] /\ Life.start = Life["start"] BY Zenon
<1>4. ~(new.started /\ new.start # Nil) BY Zenon, <1>1, <1>3 DEF Legal
<1>5. Legal(new) BY Zenon, <1>1, <1>2, <1>4 DEF Legal
<1> QED BY Zenon, <1>1, <1>5 DEF new

\* A new lifecycle is legal.
LEMMA CreateValid ==
    ASSUME CliInv, RevisionsAreValid, NEW b \in Bundles, Create(b)
    PROVE  RevisionsAreValid'
<1> DEFINE life == [inc |-> Latest.next, bundle |-> b, acknowledged |-> FALSE, target |-> 0,
                    seq |-> 1, started |-> FALSE, start |-> Nil, kill |-> Nil, delete |-> Nil]
           snapshot == [next |-> Latest.next + 1, life |-> life]
           process == Sent(CreateId(life), 0, FALSE)
<1>1. Persist(snapshot, process) BY Zenon DEF Create
<1>2. Latest \in Snapshots /\ Latest.next \in Nat /\ CliTypes
  BY Zenon, LatestTyped DEF CliInv, Snapshots
<1>3. Latest.next # 0 BY Zenon, <1>2, LatestValid DEF IsValid
<1>4. life \in Lives
  <2>1. 0 \in Nat /\ 1 \in Nat BY Zenon
  <2> QED BY Zenon, <1>2, <2>1 DEF Lives
<1>5. /\ life.inc = Latest.next /\ life.seq = 1 /\ ~life.acknowledged /\ ~life.started
      /\ \A v \in Commands : life[v] = Nil
  BY DEF Commands
<1> HIDE DEF life
<1>6. snapshot \in Snapshots /\ snapshot.next = Latest.next + 1 /\ snapshot.life = life
  BY <1>2, <1>4 DEF Snapshots
<1> HIDE DEF snapshot, process
<1>7. IsValid(snapshot) BY <1>2, <1>3, <1>5, <1>6 DEF IsValid, Commands
<1> QED BY Zenon, <1>1, <1>2, <1>6, <1>7, PersistValid

\* A command takes the next number of a legal lifecycle.
LEMMA CommandValid ==
    ASSUME CliInv, RevisionsAreValid, NEW v \in Commands,
           NEW a \in Signals \cup Modes \cup {Nil}, Command(v, a)
    PROVE  RevisionsAreValid'
<1> DEFINE new == OperationId(Life.inc, v, Life.seq, a)
           life == [Life EXCEPT ![v] = new, !.seq = Life.seq + 1]
           process == Sent(new, Life.target, FALSE)
<1>1. /\ Life # Nil /\ (v = "start" => ~Life.started)
      /\ UNCHANGED files \/ Persist([Latest EXCEPT !.life = life], process)
  BY Zenon DEF Command
<1>2. Life \in Lives /\ Legal(Life) BY Zenon, <1>1, LifeLegal
<1>3. CASE UNCHANGED files BY Zenon, <1>3 DEF RevisionsAreValid
<1>4. CASE Persist([Latest EXCEPT !.life = life], process)
  <2>1. Life.inc \in Nat /\ Life.seq \in Nat /\ Life.seq # 0 BY Zenon, <1>2 DEF Lives, Legal
  <2>2. new \in Ids /\ new.seq = Life.seq BY Zenon, <2>1 DEF OperationId, Ids, Commands
  <2> HIDE DEF new
  <2>3. /\ life \in Lives /\ life.inc = Life.inc /\ life.seq = Life.seq + 1
        /\ life.target = Life.target /\ life.acknowledged = Life.acknowledged
        /\ life.started = Life.started
        /\ v # "start" => life["start"] = Life["start"]
        /\ life["start"] \in {Life["start"], new}
        /\ life["kill"] \in {Life["kill"], new} /\ life["delete"] \in {Life["delete"], new}
    <3> DEFINE m == [Life EXCEPT ![v] = new]
               s == [m EXCEPT !.seq = Life.seq + 1]
    <3>1. life = s BY Zenon
    <3>2. m \in Lives /\ m[v] = new /\ m.inc = Life.inc /\ \A w \in Commands \ {v} : m[w] = Life[w]
      BY <1>2, <2>2, LifeExcept
    <3>3. /\ m.target = Life.target /\ m.acknowledged = Life.acknowledged
          /\ m.started = Life.started
      <4>1. CASE v = "start" BY Zenon, <1>2, <4>1 DEF Lives
      <4>2. CASE v = "kill" BY Zenon, <1>2, <4>2 DEF Lives
      <4>3. CASE v = "delete" BY Zenon, <1>2, <4>3 DEF Lives
      <4> QED BY Zenon, <4>1, <4>2, <4>3 DEF Commands
    <3> HIDE DEF m, life
    <3>4. /\ s \in Lives /\ s.inc = m.inc /\ s.seq = Life.seq + 1 /\ s.target = m.target
          /\ s.acknowledged = m.acknowledged /\ s.started = m.started
          /\ s["start"] = m["start"] /\ s["kill"] = m["kill"] /\ s["delete"] = m["delete"]
      BY <2>1, <3>2 DEF Lives
    <3> HIDE DEF s
    <3>5. \A w \in Commands : m[w] \in {Life[w], new} BY Zenon, <3>2
    <3> QED BY Zenon, <3>1, <3>2, <3>3, <3>4, <3>5 DEF Commands
  <2> HIDE DEF life, process
  <2>4. \A w \in Commands : life[w] \in {Life[w], new} BY Zenon, <2>3 DEF Commands
  <2>5. \A w \in Commands : Life[w] # Nil => Life[w].seq \in Nat
    BY Zenon, <1>2 DEF Lives, Ids, Commands
  <2>6. \A w \in Commands : life[w] # Nil => life[w].seq # 0 /\ life[w].seq < life.seq
    BY <1>2, <2>1, <2>2, <2>3, <2>4, <2>5 DEF Legal
  <2>7. ~(life.started /\ life.start # Nil)
    <3>1. life.start = life["start"] /\ Life.start = Life["start"] BY Zenon
    <3> QED BY Zenon, <1>1, <1>2, <2>3, <3>1 DEF Legal
  <2>8. Legal(life) BY <1>2, <2>1, <2>3, <2>6, <2>7 DEF Legal
  <2> QED BY Zenon, <1>1, <1>4, <2>3, <2>8, ReplaceValid
<1> QED BY Zenon, <1>1, <1>3, <1>4

\* A target that is found has a generation.
LEMMA ResolveValid ==
    ASSUME CliInv, Positive, RevisionsAreValid, Resolve PROVE RevisionsAreValid'
<1>1. /\ Life # Nil /\ container # Nil /\ Persist([Latest EXCEPT !.life = Resolved(Life)], Gone)
  BY Zenon DEF Resolve, IsDescribed
<1> DEFINE t == container.generation
           a == Life.acknowledged \/ container.status # "creating"
           new == [Life EXCEPT !.target = t, !.acknowledged = a]
<1>2. t \in Nat /\ t # 0 BY <1>1 DEF CliInv, CliTypes, Containers, Positive
<1>3. Life \in Lives /\ Legal(Life) BY Zenon, <1>1, LifeLegal
<1>4. Resolved(Life) = new BY <1>3, Zenon DEF Resolved, Lives
<1>5. a \in BOOLEAN BY Zenon
<1> HIDE DEF a, t
<1>6. new \in Lives /\ Legal(new) /\ new.inc = Life.inc BY Zenon, <1>2, <1>3, <1>5, TargetLegal
<1> HIDE DEF new
<1> QED BY Zenon, <1>1, <1>4, <1>6, ReplaceValid

\* An answer leaves a legal lifecycle, or ends it.
LEMMA SettleValid ==
    ASSUME CliInv, Positive, RevisionsAreValid, Settle PROVE RevisionsAreValid'
<1> DEFINE verb == cli.id.verb
           reply == cli.reply
<1>1. cli.stage = "answered" /\ cli # Gone BY DEF Settle, Gone
<1>2. /\ Life \in Lives /\ Life # Nil /\ cli.id \in Ids /\ (verb # "create" => verb \in Commands)
  BY Zenon, <1>1, AtWork, CliAssumption
<1>3. Legal(Life) BY Zenon, <1>2, LifeLegal
<1>4. Latest \in Snapshots /\ Latest.life = Life BY Zenon, LatestTyped DEF CliInv, Life
<1>5. ASSUME UNCHANGED files PROVE RevisionsAreValid' BY Zenon, <1>5 DEF RevisionsAreValid
<1>6. ASSUME Persist([Latest EXCEPT !.life = Nil], Gone) PROVE RevisionsAreValid'
  BY Zenon, <1>2, <1>6, ReplaceValid
<1>7. ASSUME NEW t \in Nat, t # 0, NEW a \in BOOLEAN,
             Persist([Latest EXCEPT !.life = [Life EXCEPT !.target = t, !.acknowledged = a]], Gone)
      PROVE  RevisionsAreValid'
  <2> DEFINE new == [Life EXCEPT !.target = t, !.acknowledged = a]
  <2>1. new \in Lives /\ Legal(new) /\ new.inc = Life.inc BY Zenon, <1>2, <1>3, <1>7, TargetLegal
  <2>2. Persist([Latest EXCEPT !.life = new], Gone) BY Zenon, <1>7
  <2> HIDE DEF new
  <2> QED BY Zenon, <1>2, <2>1, <2>2, ReplaceValid
<1>8. CASE verb = "create" /\ reply # "changed"
  <2>1. SettleCreate(reply) /\ reply \in {"ok", "refused", "exists"}
    BY Zenon, <1>1, <1>8 DEF Settle, CliInv, Answered
  <2>2. CASE reply = "ok"
    <3> DEFINE g == ledger[cli.id].generation
    <3>1. cli.id \in DOMAIN ledger BY Zenon, <1>1, <2>2 DEF CliInv, Answered
    <3>2. g \in Nat /\ g # 0 BY <1>8, <3>1 DEF CliInv, CliTypes, Entries, Positive
    <3> HIDE DEF g
    <3>3. Persist([Latest EXCEPT !.life.target = g, !.life.acknowledged = TRUE], Gone)
      BY Zenon, <2>1, <2>2 DEF SettleCreate, g
    <3>4. [Latest EXCEPT !.life.target = g, !.life.acknowledged = TRUE]
            = [Latest EXCEPT !.life = [Life EXCEPT !.target = g, !.acknowledged = TRUE]]
      BY Zenon, <1>2, <1>4 DEF Snapshots, Lives
    <3> QED BY Zenon, <1>7, <3>2, <3>3, <3>4
  <2>3. CASE reply = "exists" BY Zenon, <1>6, <2>1, <2>3 DEF SettleCreate
  <2>4. CASE reply = "refused"
    <3>1. ReconcileCreate(Life) BY Zenon, <2>1, <2>4 DEF SettleCreate
    <3>2. CASE container # Nil /\ Persist([Latest EXCEPT !.life.target = container.generation], Gone)
      <4> DEFINE g == container.generation
                 a == Life.acknowledged
      <4>1. g \in Nat /\ g # 0 /\ a \in BOOLEAN
        BY <1>2, <3>2 DEF CliInv, CliTypes, Containers, Lives, Positive
      <4>2. [Latest EXCEPT !.life.target = g]
              = [Latest EXCEPT !.life = [Life EXCEPT !.target = g, !.acknowledged = a]]
        BY Zenon, <1>2, <1>4 DEF Snapshots, Lives
      <4>3. Persist([Latest EXCEPT !.life = [Life EXCEPT !.target = g, !.acknowledged = a]], Gone)
        BY Zenon, <3>2, <4>2
      <4> HIDE DEF g, a
      <4> QED BY Zenon, <1>7, <4>1, <4>3
    <3> QED BY Zenon, <1>5, <1>6, <3>1, <3>2 DEF ReconcileCreate
  <2> QED BY Zenon, <2>1, <2>2, <2>3, <2>4
<1>9. CASE verb # "create" /\ reply # "changed"
  <2> DEFINE new == Cleared(verb, reply)
  <2>1. \/ Persist([Latest EXCEPT !.life = Nil], Gone)
        \/ Persist([Latest EXCEPT !.life = new], Gone)
    BY Zenon, <1>9 DEF Settle, SettleCommand
  <2>2. new \in Lives /\ Legal(new) /\ new.inc = Life.inc BY Zenon, <1>2, <1>3, <1>9, ClearedLegal
  <2> HIDE DEF new
  <2> QED BY Zenon, <1>2, <1>6, <2>1, <2>2, ReplaceValid
<1>10. CASE reply = "changed" BY Zenon, <1>5, <1>10 DEF Settle
<1> QED BY Zenon, <1>8, <1>9, <1>10

\* Every step leaves valid revisions.
LEMMA ValidSteps ==
    CliInv /\ Positive /\ RevisionsAreValid /\ [CliNext]_cliVars => RevisionsAreValid'
<1> SUFFICES ASSUME CliInv, Positive, RevisionsAreValid, [CliNext]_cliVars
             PROVE  RevisionsAreValid'
  BY Zenon
<1>1. ASSUME UNCHANGED files PROVE RevisionsAreValid' BY Zenon, <1>1 DEF RevisionsAreValid
<1>2. ASSUME \/ \E b \in Bundles : CreateAgain(b)
             \/ State \/ CliDies \/ UNCHANGED cliVars
             \/ HostAdmits \/ HostTurnsAway \/ HostAnswersAgain \/ HostResumes
             \/ \E o \in handling : HostCompletes(o) \/ HostFails(o) \/ HostBreaksOff(o) \/ HostMisses(o)
             \/ HostDies \/ ContainerExits \/ OthersDelete
             \/ \E b \in Bundles \cup {Nil} : OthersCreate(b)
      PROVE  UNCHANGED files
  BY Zenon, <1>2 DEF CreateAgain, State, CliDies, cliVars, HostAdmits, HostTurnsAway, HostAnswersAgain,
              HostResumes, HostCompletes, HostFails, HostBreaksOff, HostMisses, HostDies, ContainerExits,
              OthersDelete, OthersCreate
<1>3. ASSUME NEW v \in Commands, NEW a \in Signals \cup Modes \cup {Nil}, Command(v, a)
      PROVE  RevisionsAreValid'
  BY Zenon, <1>3, CommandValid
<1>4. ASSUME \/ Command("start", Nil) \/ \E s \in Signals : Command("kill", s)
             \/ \E m \in Modes : Command("delete", m)
      PROVE  RevisionsAreValid'
  BY Zenon, <1>3, <1>4 DEF Commands
<1> QED BY Zenon, <1>1, <1>2, <1>4, CreateValid, ResolveValid, SettleValid DEF CliNext

\* For any bundles, signals and bounds: every revision the command line leaves in
\* its directory passes JournalSnapshot::validate, whatever process died while it
\* was published and whatever the host answered; the check in
\* persist_locked_journal never refuses what a command is about to store.
THEOREM RevisionsAreValidHolds == CliSpec => []RevisionsAreValid
<1>1. CliInit => RevisionsAreValid
  <2> SUFFICES ASSUME CliInit PROVE RevisionsAreValid
    BY Zenon
  <2> DEFINE first == [next |-> 1, life |-> Nil]
  <2>1. IsValid(first) BY DEF IsValid
  <2>2. files = <<first>> BY Zenon DEF CliInit
  <2> HIDE DEF first
  <2>3. \A i \in DOMAIN files : files[i] = first BY <2>2
  <2> QED BY Zenon, <2>1, <2>3 DEF RevisionsAreValid
<1> QED BY <1>1, CliInvariant, PositiveInitially, PositiveSteps, ValidSteps, PTL DEF CliSpec
=============================================================================
