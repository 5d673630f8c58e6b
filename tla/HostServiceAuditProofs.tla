----------------------- MODULE HostServiceAuditProofs -----------------------
(* Theorems about what the host service keeps on disk: the quarantine, the   *)
(* durable status and what the startup audit asks for.                       *)
EXTENDS HostServiceProofs

-----------------------------------------------------------------------------
(* The quarantine.  A creation or a delete that is with the driver, or whose *)
(* answer is on its way, holds its record: nobody else can claim, move or    *)
(* release it, because every other handler asks for the claim and an         *)
(* observation completes neither kind.                                       *)

Owned ==
    \A k \in Callers :
        /\ call[k].stage \in {"dispatch", "settle"}
        /\ Kind[call[k].op] \in {"create", "delete"}
        => Holds(disk, call[k].op)

Quarantined == Tombs(disk) /\ Owned

\* A handler that is confined leaves the records of the other calls alone.
LEMMA HandledOwned ==
  ASSUME Inv, Owned, NEW k \in Callers, NEW o \in Operations, NEW results, NEW r \in results,
         NEW ends, NEW statuses,
         \A l \in Callers \ {k} : call[l].op # o,
         Delivers(disk, results, o, ends), Confined(disk, results, o, statuses),
         Handled(k, o, r)
  PROVE  Owned'
<1> SUFFICES ASSUME NEW l \in Callers, call'[l].stage \in {"dispatch", "settle"},
                    Kind[call'[l].op] \in {"create", "delete"}
             PROVE  Holds(disk', call'[l].op)
  BY Zenon DEF Owned
<1>1. /\ disk' = r.disk /\ r.next \in Labels /\ JournalStep(disk, disk', o, ends)
      /\ Touches(disk, disk', o, statuses) /\ (r.next = "dispatch" => Holds(disk', o))
  BY Zenon DEF Delivers, Confined, Handled
<1>2. call \in [Callers -> {Idle} \cup OperationCalls \cup StateCalls] BY Zenon DEF Inv, TypeOK
<1>3. \/ call' = [call EXCEPT ![k] = Idle]
      \/ call' = [call EXCEPT ![k] = OperationCall(r.next, o, "none")]
  BY Zenon DEF Handled, Return
<1>4. CASE l = k
  <2>1. call'[k] = Idle \/ call'[k] = OperationCall(r.next, o, "none") BY Zenon, <1>2, <1>3
  <2>2. call'[k].op = o /\ r.next \in {"dispatch", "settle"}
    BY <1>4, <2>1 DEF Idle, OperationCall
  <2>3. QED BY Zenon, <1>1, <1>4, <2>2 DEF Labels
<1>5. CASE l # k
  <2>1. call'[l] = call[l] BY Zenon, <1>2, <1>3, <1>5
  <2>2. call[l].op \in Operations /\ call[l].op # o BY Zenon, <1>5, <2>1, CallType DEF Inv
  <2>3. Holds(disk, call[l].op) BY Zenon, <2>1 DEF Owned
  <2>4. QED BY Zenon, <1>1, <2>1, <2>2, <2>3, TouchHolds
<1>6. QED BY Zenon, <1>4, <1>5

\* Calls that stay or end keep their records if the directories stay.
LEMMA QuietOwned ==
  ASSUME Inv, Owned,
         \A p \in Operations :
            Kind[p] \in {"create", "delete"} /\ Holds(disk, p) => Holds(disk', p),
         \A k \in Callers : \/ call'[k] = call[k]
                            \/ call'[k].stage \notin {"dispatch", "settle"}
                            \/ call[k].stage = "dispatch" /\ call'[k].op = call[k].op
  PROVE  Owned'
<1> SUFFICES ASSUME NEW l \in Callers, call'[l].stage \in {"dispatch", "settle"},
                    Kind[call'[l].op] \in {"create", "delete"}
             PROVE  Holds(disk', call'[l].op)
  BY Zenon DEF Owned
<1>1. call'[l].op = call[l].op /\ call[l].stage \in {"dispatch", "settle"} BY Zenon
<1>2. call[l].op \in Operations BY Zenon, <1>1, CallType DEF Inv
<1>3. QED BY Zenon, <1>1, <1>2 DEF Owned

\* A client request.
LEMMA SubmitQuarantined ==
  ASSUME Inv, Inv', Quarantined, NEW k \in Callers, NEW o \in Operations, Submit(k, o)
  PROVE  Quarantined'
<1>1. PICK r \in Prepare(disk, o) : Handled(k, o, r) BY Zenon DEF Submit
<1>2. Sound(disk) /\ Sound(disk') /\ Tombs(disk) /\ TombstoneAgrees(disk, o)
  BY Zenon DEF Inv, Quarantined, Tombs
<1>3. Delivers(disk, Prepare(disk, o), o, {"succeeded"}) BY Zenon, <1>2, PrepareDelivers
<1>4. Confined(disk, Prepare(disk, o), o, {}) BY Zenon, <1>2, PrepareConfined
<1>5. \A l \in Callers \ {k} : call[l].op # o BY Zenon DEF Submit, GateIsFree
<1>6. Owned' BY Zenon, <1>1, <1>3, <1>4, <1>5, HandledOwned DEF Quarantined
<1>7. disk' = r.disk BY Zenon, <1>1 DEF Handled
<1>8. JournalStep(disk, disk', o, {"succeeded"}) /\ Touches(disk, disk', o, {})
  BY Zenon, <1>1, <1>3, <1>4, <1>7 DEF Delivers, Confined
<1>9. ASSUME Kind[o] \in {"create", "delete"},
             disk'.quarantine[o] # disk.quarantine[o] \/ Outcome(disk', o) = "failed"
      PROVE  Outcome(disk, o) = "failed"
  <2>1. CASE Outcome(disk', o) = "failed" BY Zenon, <1>8, <2>1 DEF JournalStep, Outcome
  <2>2. CASE Outcome(disk', o) # "failed"
    <3>1. Kind[o] = "delete"
      BY Zenon, <1>8, <1>9, <2>2 DEF Touches, Stays, Rewrites, Builds, Moves
    <3>2. r \in PrepareDelete(disk, o) BY Zenon, <1>1, <3>1 DEF Prepare
    <3>3. AllKeep(disk, PrepareDelete(disk, o), "quarantine") BY Zenon, <1>2, PrepareDeleteKeeps
    <3>4. disk'.quarantine = disk.quarantine BY Zenon, <1>7, <3>2, <3>3 DEF AllKeep, Keeps
    <3>5. QED BY Zenon, <1>9, <2>2, <3>4
  <2>3. QED BY Zenon, <2>1, <2>2
<1>10. Tombs(disk') BY Zenon, <1>2, <1>8, <1>9, TouchTombs
<1>11. QED BY Zenon, <1>6, <1>10 DEF Quarantined

\* Committing the driver's answer.
LEMMA SettleQuarantined ==
  ASSUME Inv, Inv', Quarantined, NEW k \in Callers, Settle(k)
  PROVE  Quarantined'
<1> DEFINE o == call[k].op
           reply == call[k].reply
           results == IF reply = "refused" THEN FailOperation(disk, o) ELSE Complete(disk, o, reply)
           ends == IF reply = "refused" THEN {"failed"} ELSE {"succeeded"}
           statuses == IF reply = "refused" THEN {}
                       ELSE {Settled(Kind[o], disk.live[Target[o]].status, reply)}
<1>1. PICK r \in results : Handled(k, o, r) BY Zenon DEF Settle
<1>2. o \in Operations BY Zenon, CallType DEF Inv, Settle
<1>3. Delivers(disk, results, o, ends) BY Zenon, <1>2, FailOperationDelivers, CompleteDelivers DEF Inv
<1>4. Confined(disk, results, o, statuses) BY Zenon, <1>2, FailOperationConfined, CompleteConfined DEF Inv
<1>5. \A l \in Callers \ {k} : call[l].op # o BY Zenon, <1>2 DEF Inv, Held
<1>6. ends \in SUBSET {"succeeded", "failed"} BY Zenon
<1>7. Kind[o] \in {"create", "delete"} => Holds(disk, o) BY Zenon DEF Quarantined, Owned, Settle
<1>8. Sound(disk) /\ Sound(disk') /\ Tombs(disk) /\ Owned BY Zenon DEF Inv, Quarantined
<1> HIDE DEF results, ends, o, statuses
<1>9. Owned' BY Zenon, <1>1, <1>2, <1>3, <1>4, <1>5, <1>8, HandledOwned
<1>10. JournalStep(disk, disk', o, ends) /\ Touches(disk, disk', o, statuses)
  BY Zenon, <1>1, <1>3, <1>4 DEF Delivers, Confined, Handled
<1>11. Tombs(disk') BY Zenon, <1>2, <1>6, <1>7, <1>8, <1>10, TouchTombs
<1>12. QED BY Zenon, <1>9, <1>11 DEF Quarantined

\* What a step that commits an observation sees.
Observed(c, g, seen) ==
    /\ c \in Containers /\ g \in Generations /\ seen \in Observations
    /\ Sees(disk, disk', c, g, seen)

\* Both halves of an observation end in Sees.
LEMMA CommitObservationSees ==
  ASSUME Inv, NEW k \in Callers, CommitObservation(k)
  PROVE  /\ Observed(call[k].container, call[k].generation, call[k].reply)
         /\ \A l \in Callers : call'[l] = call[l] \/ call'[l] = Idle
         /\ UNCHANGED <<machine, replay, executed>>
<1>1. PICK r \in Observe(disk, call[k].container, call[k].generation, call[k].reply) :
         Handled(k, NoOperation, r)
  BY Zenon DEF CommitObservation
<1>2. /\ call[k].container \in Containers /\ call[k].generation \in Generations
      /\ call[k].reply \in Observations
  BY Zenon, CallType DEF Inv, CommitObservation
<1>3. ObservedStep(disk, r) BY Zenon, <1>1, <1>2, ObserveDelivers DEF Inv
<1>4. Sees(disk, r.disk, call[k].container, call[k].generation, call[k].reply)
  BY Zenon, <1>1, <1>2, ObserveSees DEF Inv
<1>5. Return(k) /\ disk' = r.disk BY Zenon, <1>1, <1>3 DEF ObservedStep, Handled
<1>6. \A l \in Callers : call'[l] = call[l] \/ call'[l] = Idle BY Zenon, <1>5 DEF Return, Inv, TypeOK
<1>7. QED BY Zenon, <1>2, <1>4, <1>5, <1>6 DEF Observed, CommitObservation

\* Startup recovery observes the live generation, or leaves the disk alone.
LEMMA RecoverSees ==
  ASSUME Inv, NEW c \in Containers, Recover(c)
  PROVE  LET g == disk.live[c].generation
         IN  /\ \/ UNCHANGED disk
                \/ Observed(c, g, machine[c][g])
             /\ UNCHANGED <<call, machine, replay, executed>>
<1> DEFINE g == disk.live[c].generation
           seen == machine[c][g]
<1>1. g \in Generations BY Zenon DEF Inv, TypeOK, Disks, Directories
<1>2. \A r \in Observe(disk, c, g, seen) : seen \in Observations => Sees(disk, r.disk, c, g, seen)
  BY Zenon, <1>1, ObserveSees DEF Inv
<1>3. \/ UNCHANGED disk
      \/ seen \in Observations /\ \E r \in Observe(disk, c, g, seen) : disk' = r.disk
  BY Zenon, SMTT(30) DEF Recover
<1>4. UNCHANGED <<call, machine, replay, executed>> BY Zenon DEF Recover
<1>5. QED BY Zenon, <1>1, <1>2, <1>3, <1>4 DEF Observed

\* The driver's answer moves a call on and leaves the disk alone.
LEMMA DispatchCalls ==
  ASSUME Inv, NEW k \in Callers, Dispatch(k)
  PROVE  /\ UNCHANGED disk
         /\ \A l \in Callers : \/ call'[l] = call[l]
                               \/ call'[l].stage \notin {"dispatch", "settle"}
                               \/ call[l].stage = "dispatch" /\ call'[l].op = call[l].op
         /\ \A l \in Callers : call'[l].stage = "observe" => call'[l] = call[l]
<1> DEFINE o == call[k].op
<1>1. UNCHANGED disk /\ call[k].stage = "dispatch" BY Zenon DEF Dispatch
<1>2. \E reply : call' = [call EXCEPT ![k] = OperationCall("settle", o, reply)]
                   \/ call' = [call EXCEPT ![k] = Idle]
  <2>1. CASE DriverReplays(k, o) BY Zenon, <2>1 DEF DriverReplays, Answered, Return
  <2>2. CASE DriverExecutes(k, o) BY ZenonT(30), <2>2 DEF DriverExecutes, Answered, Return
  <2>3. CASE DriverRefuses(k, o) BY Zenon, <2>3 DEF DriverRefuses, Answered, Return
  <2>4. CASE DriverUnavailable(k, o) BY Zenon, <2>4 DEF DriverUnavailable, Return
  <2>5. QED BY Zenon, <2>1, <2>2, <2>3, <2>4 DEF Dispatch
<1>3. call \in [Callers -> {Idle} \cup OperationCalls \cup StateCalls] BY Zenon DEF Inv, TypeOK
<1>4. PICK reply : call' = [call EXCEPT ![k] = OperationCall("settle", o, reply)]
                     \/ call' = [call EXCEPT ![k] = Idle]
  BY Zenon, <1>2
<1>5. \A l \in Callers \ {k} : call'[l] = call[l] BY Zenon, <1>3, <1>4
<1>6. call'[k] = OperationCall("settle", o, reply) \/ call'[k] = Idle BY Zenon, <1>3, <1>4
<1>7. QED BY <1>1, <1>5, <1>6 DEF OperationCall, Idle

\* The agreement is inductive.
LEMMA NextQuarantined == Inv /\ Inv' /\ Quarantined /\ [Next]_vars => Quarantined'
<1> SUFFICES ASSUME Inv, Inv', Quarantined, [Next]_vars PROVE Quarantined' BY Zenon
<1>1. ASSUME UNCHANGED disk,
             \A k \in Callers : \/ call'[k] = call[k]
                                \/ call'[k].stage \notin {"dispatch", "settle"}
                                \/ call[k].stage = "dispatch" /\ call'[k].op = call[k].op
      PROVE  Quarantined'
  <2>1. Owned' BY Zenon, <1>1, QuietOwned DEF Quarantined
  <2>2. QED BY Zenon, <1>1, <2>1 DEF Quarantined
<1>2. ASSUME NEW c, NEW g, NEW seen, Observed(c, g, seen),
             \A l \in Callers : call'[l] = call[l] \/ call'[l] = Idle
      PROVE  Quarantined'
  <2>1. Tombs(disk') BY Zenon, <1>2, SeesTombs DEF Quarantined, Observed
  <2>2. \A p \in Operations :
           Kind[p] \in {"create", "delete"} /\ Holds(disk, p) => Holds(disk', p)
    BY Zenon, <1>2, SeesHolds DEF Observed
  <2>3. Idle.stage \notin {"dispatch", "settle"} BY Zenon DEF Idle
  <2>4. Owned' BY Zenon, <1>2, <2>2, <2>3, QuietOwned DEF Quarantined
  <2>5. QED BY Zenon, <2>1, <2>4 DEF Quarantined
<1>3. ASSUME NEW k \in Callers, Dispatch(k) PROVE Quarantined' BY Zenon, <1>1, <1>3, DispatchCalls
<1>4. ASSUME NEW k \in Callers, Acknowledge(k) PROVE Quarantined'
  <2>1. UNCHANGED disk /\ Return(k) BY Zenon, <1>4 DEF Acknowledge
  <2>2. \A l \in Callers : call'[l] = call[l] \/ call'[l] = Idle BY Zenon, <2>1 DEF Return, Inv, TypeOK
  <2>3. QED BY SMTT(40), <1>1, <2>1, <2>2 DEF Idle
<1>5. ASSUME NEW k \in Callers, CommitObservation(k) PROVE Quarantined'
  BY Zenon, <1>2, <1>5, CommitObservationSees
<1>6. ASSUME NEW c \in Containers, Recover(c) PROVE Quarantined'
  <2>1. UNCHANGED call /\ (UNCHANGED disk \/ \E g, seen : Observed(c, g, seen))
    BY Zenon, <1>6, RecoverSees
  <2>2. QED BY Zenon, <1>1, <1>2, <2>1
<1>7. ASSUME NEW k \in Callers, NEW c \in Containers, Query(k, c) PROVE Quarantined'
  <2> DEFINE new == [stage |-> "observe", op |-> NoOperation, container |-> c,
                     generation |-> disk.live[c].generation,
                     reply |-> machine[c][disk.live[c].generation]]
  <2>1. UNCHANGED disk /\ call' = [call EXCEPT ![k] = new] BY Zenon, <1>7 DEF Query
  <2>2. new.stage = "observe" BY Zenon
  <2> HIDE DEF new
  <2>3. \A l \in Callers : call'[l] = call[l] \/ call'[l] = new BY Zenon, <2>1 DEF Inv, TypeOK
  <2>4. QED BY Zenon, <1>1, <2>1, <2>2, <2>3
<1>8. ASSUME \/ \E c \in Containers, g \in 1 .. MaxGeneration : ProcessExits(c, g)
             \/ Open \/ Serve \/ UNCHANGED vars
      PROVE  Quarantined'
  <2>1. UNCHANGED <<disk, call>> BY Zenon, <1>8 DEF ProcessExits, Open, Serve, vars
  <2>2. QED BY Zenon, <1>1, <2>1
<1>9. ASSUME Crash PROVE Quarantined'
  <2>1. UNCHANGED disk /\ \A l \in Callers : call'[l] = Idle BY Zenon, <1>9 DEF Crash
  <2>2. QED BY <1>1, <2>1 DEF Idle
<1>10. QED
  BY Zenon, <1>3, <1>4, <1>5, <1>6, <1>7, <1>8, <1>9, SubmitQuarantined, SettleQuarantined DEF Next

\* An empty state root has nothing in quarantine.
LEMMA InitQuarantined == Init => Quarantined
BY EmptyDiskTombs DEF Init, Quarantined, Owned, Idle

-----------------------------------------------------------------------------
(* The durable status.  It never runs ahead of the driver because whatever   *)
(* is committed was the driver's answer to this operation, or what it was    *)
(* seen in, and a generation never goes back.                                *)

\* What the driver can answer to an operation of each kind, but for a refusal.
AnswersOf(kind) ==
    CASE kind = "create" -> {"created"}
      [] kind = "start" -> {"running", "stopped"}
      [] kind = "pause" -> {"paused"}
      [] kind = "resume" -> {"running"}
      [] kind = "kill" -> Observations
      [] kind = "update" -> Observations \ {"stopped"}
      [] kind = "delete" -> {"deleted"}

\* An answer the driver keeps is of the operation's kind, and the generation of
\* the operation got as far as it says; and so did one that a query has read.
Answerable ==
    \A o \in Operations : replay[o] \in Replies =>
        /\ replay[o] \in AnswersOf(Kind[o]) \cup {"refused"}
        /\ machine[Target[o]][disk.journal[o].generation] \in Reached(replay[o])

Remembered ==
    \A k \in Callers : call[k].stage = "observe" =>
        /\ call[k].generation \in 1 .. MaxGeneration
        /\ machine[call[k].container][call[k].generation] \in Reached(call[k].reply)

Honest == DurableNeverAhead /\ Answerable /\ Remembered

\* No generation goes back.
Progresses ==
    \A c \in Containers, g \in 1 .. MaxGeneration, status \in Statuses \cup ReplayRecords :
        machine[c][g] \in Reached(status) => machine'[c][g] \in Reached(status)

\* What an operation makes of a generation is its answer and no step back.
LEMMA EffectProgresses ==
  ASSUME NEW kind \in Kinds, NEW state \in MachineStates, NEW new \in Effect(kind, state)
  PROVE  /\ new \in AnswersOf(kind) /\ new \in Reached(new)
         /\ \A status : state \in Reached(status) => new \in Reached(status)
<1>1. CASE kind = "create" BY Zenon, <1>1 DEF Effect, AnswersOf, Reached, MachineStates, Observations, IsRunning
<1>2. CASE kind = "start" BY Zenon, <1>2 DEF Effect, AnswersOf, Reached, MachineStates, Observations, IsRunning
<1>3. CASE kind = "kill" BY Zenon, <1>3 DEF Effect, AnswersOf, Reached, MachineStates, Observations, IsRunning
<1>4. CASE kind = "pause" BY Zenon, <1>4 DEF Effect, AnswersOf, Reached, MachineStates, Observations, IsRunning
<1>5. CASE kind = "resume" BY Zenon, <1>5 DEF Effect, AnswersOf, Reached, MachineStates, Observations, IsRunning
<1>6. CASE kind = "update" BY Zenon, <1>6 DEF Effect, AnswersOf, Reached, MachineStates, Observations, IsRunning
<1>7. CASE kind = "delete" BY Zenon, <1>7 DEF Effect, AnswersOf, Reached, MachineStates, Observations, IsRunning
<1>8. QED BY Zenon, <1>1, <1>2, <1>3, <1>4, <1>5, <1>6, <1>7 DEF Kinds

\* A completion commits a status that the record and the answer both allow.
LEMMA SettledReached ==
  ASSUME NEW kind \in Kinds, NEW status \in Statuses \cup {"none"}, NEW reply \in AnswersOf(kind),
         NEW state \in Reached(status) \cap Reached(reply),
         Settled(kind, status, reply) # "refused"
  PROVE  state \in Reached(Settled(kind, status, reply))
<1> USE DEF Settled, AnswersOf, Reached, MachineStates, Observations, IsRunning, Transition, Statuses
<1>1. CASE kind = "create" BY Zenon, <1>1
<1>2. CASE kind = "start" BY Zenon, <1>2
<1>3. CASE kind = "kill" BY Zenon, <1>3
<1>4. CASE kind \in {"pause", "resume"} BY Zenon, <1>4
<1>5. CASE kind \in {"update", "delete"} BY Zenon, <1>5
<1>6. QED BY Zenon, <1>1, <1>2, <1>3, <1>4, <1>5 DEF Kinds

\* The generation of a live record, and of a journaled operation, is a machine's.
LEMMA MachineOf ==
  ASSUME Inv
  PROVE  /\ \A c \in Containers : HasRecord(disk, c) =>
               disk.live[c].generation \in 1 .. MaxGeneration
         /\ \A o \in Operations : Outcome(disk, o) # "absent" =>
               disk.journal[o].generation \in 1 .. MaxGeneration
         /\ \A c \in Containers, g \in 1 .. MaxGeneration : machine[c][g] \in MachineStates
<1>1. \A c \in Containers : disk.last[c] \in 0 .. MaxGeneration
  BY Zenon DEF Inv, TypeOK, Disks, Generations
<1>2. \A o \in Operations : Target[o] \in Containers BY Zenon, RequestAssumption
<1>3. \A c \in Containers : HasRecord(disk, c) => disk.live[c].generation \in 1 .. disk.last[c]
  BY Zenon DEF Inv, Sound, Fenced
<1>4. \A o \in Operations : Outcome(disk, o) # "absent" =>
         disk.journal[o].generation \in 1 .. disk.last[Target[o]]
  BY Zenon DEF Inv, Sound, Fenced, AuditOperations
<1>5. \A c \in Containers, g \in 1 .. MaxGeneration : machine[c][g] \in MachineStates
  BY Zenon DEF Inv, TypeOK
<1>6. ASSUME NEW c \in Containers, NEW g \in 1 .. disk.last[c] PROVE g \in 1 .. MaxGeneration
  <2>1. disk.last[c] \in 0 .. MaxGeneration BY Zenon, <1>1
  <2>2. QED BY <2>1, RequestAssumption
<1>7. QED BY Zenon, <1>2, <1>3, <1>4, <1>5, <1>6

\* A journaled operation keeps its generation through every step.
LEMMA GenerationsStay ==
  ASSUME Inv, [Next]_vars, NEW p \in Operations, Outcome(disk, p) # "absent"
  PROVE  /\ Outcome(disk', p) # "absent"
         /\ disk'.journal[p].generation = disk.journal[p].generation
<1>1. ASSUME NEW o \in Operations, NEW ends \in SUBSET {"succeeded", "failed"},
             JournalStep(disk, disk', o, ends)
      PROVE  /\ Outcome(disk', p) # "absent"
             /\ disk'.journal[p].generation = disk.journal[p].generation
  BY Zenon, <1>1 DEF JournalStep, Outcome
<1>2. CASE UNCHANGED disk BY Zenon, <1>2
<1>3. CASE disk'.journal = disk.journal BY Zenon, <1>3 DEF Outcome
<1>4. {"succeeded"} \in SUBSET {"succeeded", "failed"} /\ {"failed"} \in SUBSET {"succeeded", "failed"}
  BY Zenon
<1>5. QED BY Zenon, <1>1, <1>2, <1>3, <1>4, StepKinds DEF Journals, Fails

\* A confined handler commits what the driver has done.
LEMMA TouchNeverAhead ==
  ASSUME Inv, Inv', DurableNeverAhead, UNCHANGED machine, NEW o \in Operations, NEW statuses,
         Touches(disk, disk', o, statuses),
         Loaded(disk, disk', o) =>
            \A s \in statuses \cap (Statuses \cup {"none"}) :
               machine[Target[o]][disk.live[Target[o]].generation] \in Reached(s)
  PROVE  DurableNeverAhead'
<1> SUFFICES ASSUME NEW c \in Containers, HasRecord(disk', c)
             PROVE  machine[c][disk'.live[c].generation] \in Reached(disk'.live[c].status)
  BY Zenon DEF DurableNeverAhead
<1>1. CASE disk'.live[c] = disk.live[c] BY Zenon, <1>1 DEF DurableNeverAhead, HasRecord
<1>2. CASE c = Target[o] /\ Rewrites(disk, disk', o, statuses)
  <2>1. disk'.live[c].status \in Statuses \cup {"none"} BY Zenon DEF Inv, TypeOK, Disks, Directories
  <2>2. machine[c][disk.live[c].generation] \in Reached(disk.live[c].status)
    BY Zenon, <1>2 DEF DurableNeverAhead, Rewrites, Loaded
  <2>3. QED BY ZenonT(40), <1>2, <2>1, <2>2 DEF Rewrites
<1>3. CASE c = Target[o] /\ Builds(disk, disk', o)
  <2>1. disk'.live[c].generation \in 1 .. MaxGeneration
    <3>1. disk'.live[c].generation \in 1 .. disk'.last[c] BY Zenon DEF Inv, Sound, Fenced
    <3>2. disk'.last[c] \in 0 .. MaxGeneration BY Zenon, SMTT(40) DEF Inv, TypeOK, Disks, Generations
    <3>3. QED BY <3>1, <3>2, RequestAssumption
  <2>2. machine[c][disk'.live[c].generation] \in MachineStates BY Zenon, <2>1, MachineOf
  <2>3. disk'.live[c].status = "creating" BY ZenonT(40), <1>3 DEF Builds
  <2>4. QED BY Zenon, <2>2, <2>3 DEF Reached, IsRunning
<1>4. CASE c = Target[o] /\ Moves(disk, disk', o)
  BY <1>4 DEF Moves, NoDirectory, Partial, HasRecord
<1>5. QED BY ZenonT(40), <1>1, <1>2, <1>3, <1>4 DEF Touches, Stays

\* While the driver rests, answers and queries keep meaning what they said.
LEMMA DiskHonest ==
  ASSUME Inv, [Next]_vars, Answerable, Remembered, UNCHANGED <<machine, replay>>,
         \A k \in Callers : call'[k].stage = "observe" => call'[k] = call[k]
  PROVE  Answerable' /\ Remembered'
<1>1. Answerable'
  <2> SUFFICES ASSUME NEW o \in Operations, replay[o] \in Replies
               PROVE  /\ replay[o] \in AnswersOf(Kind[o]) \cup {"refused"}
                      /\ machine[Target[o]][disk'.journal[o].generation] \in Reached(replay[o])
    BY Zenon DEF Answerable
  <2>1. Outcome(disk, o) # "absent" BY Zenon DEF Inv, Evidence, Replies, Observations
  <2>2. disk'.journal[o].generation = disk.journal[o].generation BY Zenon, <2>1, GenerationsStay
  <2>3. QED BY Zenon, <2>2 DEF Answerable
<1>2. Remembered' BY Zenon DEF Remembered
<1>3. QED BY Zenon, <1>1, <1>2

\* A handler's call never turns into a query.
LEMMA HandledCalls ==
  ASSUME Inv, NEW k \in Callers, NEW o, NEW r, Handled(k, o, r), r.next \in Labels
  PROVE  \A l \in Callers : call'[l].stage = "observe" => call'[l] = call[l]
<1>1. \/ call' = [call EXCEPT ![k] = Idle]
      \/ call' = [call EXCEPT ![k] = OperationCall(r.next, o, "none")]
  BY Zenon DEF Handled, Return
<1>2. call \in [Callers -> {Idle} \cup OperationCalls \cup StateCalls] BY Zenon DEF Inv, TypeOK
<1>3. \A l \in Callers : \/ call'[l] = call[l] \/ call'[l] = Idle
                         \/ call'[l] = OperationCall(r.next, o, "none")
  BY Zenon, <1>1, <1>2
<1>4. "observe" \notin Labels BY Zenon DEF Labels
<1>5. Idle.stage = "idle" /\ OperationCall(r.next, o, "none").stage = r.next
  BY Zenon DEF Idle, OperationCall
<1>6. QED BY Zenon, <1>3, <1>4, <1>5

\* A client request.
LEMMA SubmitHonest ==
  ASSUME Inv, Inv', Quarantined, Honest, NEW k \in Callers, NEW o \in Operations, Submit(k, o)
  PROVE  Honest'
<1>1. PICK r \in Prepare(disk, o) : Handled(k, o, r) BY Zenon DEF Submit
<1>2. Delivers(disk, Prepare(disk, o), o, {"succeeded"}) BY Zenon, PrepareDelivers DEF Inv
<1>3. Confined(disk, Prepare(disk, o), o, {}) BY Zenon, PrepareConfined DEF Inv, Quarantined, Tombs
<1>4. Touches(disk, disk', o, {}) /\ r.next \in Labels
  BY Zenon, <1>1, <1>2, <1>3 DEF Confined, Delivers, Handled
<1>5. DurableNeverAhead' BY Zenon, <1>4, TouchNeverAhead DEF Honest, Submit
<1>6. Answerable' /\ Remembered'
  BY ZenonT(40), <1>1, <1>4, HandledCalls, DiskHonest DEF Honest, Submit, Next
<1>7. QED BY Zenon, <1>5, <1>6 DEF Honest

\* Committing the driver's answer.
LEMMA SettleHonest ==
  ASSUME Inv, Inv', Honest, NEW k \in Callers, Settle(k)
  PROVE  Honest'
<1> DEFINE o == call[k].op
           reply == call[k].reply
           results == IF reply = "refused" THEN FailOperation(disk, o) ELSE Complete(disk, o, reply)
           ends == IF reply = "refused" THEN {"failed"} ELSE {"succeeded"}
           statuses == IF reply = "refused" THEN {}
                       ELSE {Settled(Kind[o], disk.live[Target[o]].status, reply)}
<1>1. PICK r \in results : Handled(k, o, r) BY Zenon DEF Settle
<1>2. o \in Operations BY Zenon, CallType DEF Inv, Settle
<1>3. Delivers(disk, results, o, ends) BY Zenon, <1>2, FailOperationDelivers, CompleteDelivers DEF Inv
<1>4. Confined(disk, results, o, statuses) BY Zenon, <1>2, FailOperationConfined, CompleteConfined DEF Inv
<1>5. Touches(disk, disk', o, statuses) /\ r.next \in Labels
  BY Zenon, <1>1, <1>3, <1>4 DEF Confined, Delivers, Handled
<1>6. replay[o] = reply /\ reply \in Replies BY Zenon DEF Inv, Held, Settle
<1>7. Outcome(disk, o) # "absent" BY Zenon, <1>2, <1>6 DEF Inv, Evidence, Replies, Observations
<1>8. disk'.journal[o].generation = disk.journal[o].generation
  BY ZenonT(40), <1>2, <1>7, GenerationsStay DEF Next
<1>9. ASSUME Loaded(disk, disk', o), NEW s \in statuses \cap (Statuses \cup {"none"})
      PROVE  machine[Target[o]][disk.live[Target[o]].generation] \in Reached(s)
  <2> DEFINE state == machine[Target[o]][disk.live[Target[o]].generation]
             status == disk.live[Target[o]].status
  <2>1. reply # "refused" /\ s = Settled(Kind[o], status, reply) BY ZenonT(40), <1>9
  <2>2. s # "refused" BY Zenon, <1>9 DEF Statuses
  <2>3. disk.live[Target[o]].generation = disk.journal[o].generation BY Zenon, <1>8, <1>9 DEF Loaded
  <2>4. reply \in AnswersOf(Kind[o]) /\ state \in Reached(reply)
    BY ZenonT(40), <1>2, <1>6, <2>1, <2>3 DEF Honest, Answerable
  <2>5. Target[o] \in Containers /\ Kind[o] \in Kinds BY Zenon, <1>2, RequestAssumption
  <2>6. state \in Reached(status) BY Zenon, <1>9, <2>5 DEF Loaded, Honest, DurableNeverAhead
  <2>7. status \in Statuses \cup {"none"} BY ZenonT(40), <2>5 DEF Inv, TypeOK, Disks, Directories
  <2> HIDE DEF state, status, reply, o
  <2>8. state \in Reached(s) BY Zenon, <2>1, <2>2, <2>4, <2>5, <2>6, <2>7, SettledReached
  <2>9. QED BY Zenon, <2>8 DEF state
<1>10. UNCHANGED <<machine, replay>> BY Zenon, SMTT(40) DEF Settle
<1>11. [Next]_vars BY Zenon, SMTT(40) DEF Next
<1> HIDE DEF o, statuses, results, ends
<1>12. DurableNeverAhead' BY Zenon, <1>2, <1>5, <1>9, <1>10, TouchNeverAhead DEF Honest
<1>13. \A l \in Callers : call'[l].stage = "observe" => call'[l] = call[l]
  BY Zenon, <1>1, <1>5, HandledCalls
<1>14. Answerable' /\ Remembered' BY Zenon, <1>10, <1>11, <1>13, DiskHonest DEF Honest
<1>15. QED BY Zenon, <1>12, <1>14 DEF Honest

\* Committing an observation.
LEMMA ObservedHonest ==
  ASSUME Inv, Honest, [Next]_vars, UNCHANGED <<machine, replay>>,
         NEW c, NEW g, NEW seen, Observed(c, g, seen), machine[c][g] \in Reached(seen),
         \A l \in Callers : call'[l] = call[l] \/ call'[l] = Idle
  PROVE  Honest'
<1>1. DurableNeverAhead'
  BY Zenon DEF Honest, DurableNeverAhead, Observed, Sees, HasRecord
<1>2. \A l \in Callers : call'[l].stage = "observe" => call'[l] = call[l] BY DEF Idle
<1>3. QED BY Zenon, <1>1, <1>2, DiskHonest DEF Honest

\* Whatever the driver does, and whatever exits.
LEMMA ProgressHonest ==
  ASSUME Inv, Honest, UNCHANGED disk, Progresses,
         \A o \in Operations : replay'[o] \in Replies =>
            \/ replay'[o] = replay[o]
            \/ /\ Outcome(disk, o) # "absent"
               /\ replay'[o] \in AnswersOf(Kind[o]) \cup {"refused"}
               /\ machine'[Target[o]][disk.journal[o].generation] \in Reached(replay'[o]),
         \A k \in Callers : call'[k].stage = "observe" => call'[k] = call[k]
  PROVE  Honest'
<1>1. DurableNeverAhead'
  <2> SUFFICES ASSUME NEW c \in Containers, HasRecord(disk, c)
               PROVE  machine'[c][disk.live[c].generation] \in Reached(disk.live[c].status)
    BY Zenon DEF DurableNeverAhead
  <2>1. disk.live[c].generation \in 1 .. MaxGeneration BY Zenon, MachineOf
  <2>2. disk.live[c].status \in Statuses \cup {"none"} BY Zenon DEF Inv, TypeOK, Disks, Directories
  <2>3. machine[c][disk.live[c].generation] \in Reached(disk.live[c].status)
    BY Zenon DEF Honest, DurableNeverAhead
  <2>4. "none" \in ReplayRecords BY Zenon, SMTT(40) DEF ReplayRecords
  <2>5. QED BY Zenon, <2>1, <2>2, <2>3, <2>4 DEF Progresses
<1>2. Answerable'
  <2> SUFFICES ASSUME NEW o \in Operations, replay'[o] \in Replies
               PROVE  /\ replay'[o] \in AnswersOf(Kind[o]) \cup {"refused"}
                      /\ machine'[Target[o]][disk.journal[o].generation] \in Reached(replay'[o])
    BY Zenon, SMTT(40) DEF Answerable
  <2>1. CASE replay'[o] = replay[o]
    <3>1. Outcome(disk, o) # "absent" BY ZenonT(40), <2>1 DEF Inv, Evidence, Replies, Observations
    <3>2. disk.journal[o].generation \in 1 .. MaxGeneration /\ Target[o] \in Containers
      BY Zenon, <3>1, MachineOf, RequestAssumption
    <3>3. QED BY Zenon, <2>1, <3>2 DEF Honest, Answerable, Progresses, ReplayRecords
  <2>2. QED BY Zenon, <2>1
<1>3. Remembered'
  <2> SUFFICES ASSUME NEW k \in Callers, call'[k].stage = "observe"
               PROVE  /\ call[k].generation \in 1 .. MaxGeneration
                      /\ machine'[call[k].container][call[k].generation] \in Reached(call[k].reply)
    BY Zenon DEF Remembered
  <2>1. call[k].stage = "observe" BY Zenon, SMTT(40)
  <2>2. call[k].container \in Containers /\ call[k].reply \in Observations
    BY Zenon, <2>1, CallType DEF Inv
  <2>3. call[k].reply \in ReplayRecords BY Zenon, <2>2 DEF ReplayRecords, Replies
  <2>4. QED BY ZenonT(40), <2>1, <2>2, <2>3 DEF Honest, Remembered, Progresses
<1>4. QED BY Zenon, <1>1, <1>2, <1>3 DEF Honest

\* The driver's steps.
LEMMA DispatchHonest ==
  ASSUME Inv, Honest, NEW k \in Callers, Dispatch(k)
  PROVE  Honest'
<1> DEFINE o == call[k].op
           c == Target[o]
           g == disk.journal[o].generation
<1>1. /\ o \in Operations /\ UNCHANGED disk
      /\ \A l \in Callers : call'[l].stage = "observe" => call'[l] = call[l]
      /\ Outcome(disk, o) # "absent"
  BY Zenon, CallType, DispatchCalls DEF Inv, Dispatch, Held
<1>2. c \in Containers /\ Kind[o] \in Kinds BY Zenon, <1>1, RequestAssumption
<1>3. g \in 1 .. MaxGeneration /\ machine[c][g] \in MachineStates BY Zenon, <1>1, <1>2, MachineOf
<1>4. replay \in [Operations -> ReplayRecords]
      /\ machine \in [Containers -> [1 .. MaxGeneration -> MachineStates]]
  BY Zenon DEF Inv, TypeOK
<1>5. CASE UNCHANGED <<machine, replay>>
  <2>1. Progresses BY Zenon, <1>5 DEF Progresses
  <2>2. QED BY Zenon, <1>1, <1>5, <2>1, ProgressHonest
<1>6. CASE DriverExecutes(k, o)
  <2>1. PICK state \in Effect(Kind[o], machine[c][g]) :
           /\ machine' = [machine EXCEPT ![c][g] = state]
           /\ replay' = [replay EXCEPT ![o] = state]
    BY ZenonT(30), <1>6 DEF DriverExecutes
  <2>2. /\ state \in AnswersOf(Kind[o]) /\ state \in Reached(state)
        /\ \A status : machine[c][g] \in Reached(status) => state \in Reached(status)
    BY ZenonT(40), <1>2, <1>3, <2>1, EffectProgresses
  <2> HIDE DEF o, c, g
  <2>3. /\ machine'[c][g] = state
        /\ \A b \in Containers, h \in 1 .. MaxGeneration :
              <<b, h>> # <<c, g>> => machine'[b][h] = machine[b][h]
    BY Zenon, <1>2, <1>3, <1>4, <2>1
  <2>4. Progresses BY Zenon, <2>2, <2>3 DEF Progresses
  <2>5. replay'[o] = state /\ \A p \in Operations \ {o} : replay'[p] = replay[p]
    BY Zenon, <1>1, <1>4, <2>1
  <2>6. machine'[Target[o]][disk.journal[o].generation] \in Reached(state)
    BY Zenon, <2>2, <2>3 DEF c, g
  <2>7. \A p \in Operations : replay'[p] \in Replies =>
           \/ replay'[p] = replay[p]
           \/ /\ Outcome(disk, p) # "absent"
              /\ replay'[p] \in AnswersOf(Kind[p]) \cup {"refused"}
              /\ machine'[Target[p]][disk.journal[p].generation] \in Reached(replay'[p])
    BY ZenonT(40), <1>1, <2>2, <2>5, <2>6
  <2>8. QED BY Zenon, <1>1, <2>4, <2>7, ProgressHonest
<1>7. CASE DriverRefuses(k, o)
  <2>1. machine' = machine /\ replay' = [replay EXCEPT ![o] = "refused"]
    BY Zenon, <1>7 DEF DriverRefuses
  <2>2. Progresses BY Zenon, <2>1 DEF Progresses
  <2>3. machine'[Target[o]][disk.journal[o].generation] \in Reached("refused")
    BY Zenon, <1>3, <2>1 DEF Reached, IsRunning
  <2> HIDE DEF o, c, g
  <2>4. replay'[o] = "refused" /\ \A p \in Operations \ {o} : replay'[p] = replay[p]
    BY Zenon, <1>1, <1>4, <2>1
  <2>5. \A p \in Operations : replay'[p] \in Replies =>
           \/ replay'[p] = replay[p]
           \/ /\ Outcome(disk, p) # "absent"
              /\ replay'[p] \in AnswersOf(Kind[p]) \cup {"refused"}
              /\ machine'[Target[p]][disk.journal[p].generation] \in Reached(replay'[p])
    BY Zenon, <1>1, <2>3, <2>4
  <2>6. QED BY Zenon, <1>1, <2>2, <2>5, ProgressHonest
<1>8. QED
  BY Zenon, <1>5, <1>6, <1>7 DEF Dispatch, DriverReplays, DriverUnavailable, driverVars

\* The durable status is inductively never ahead.
LEMMA NextHonest == Inv /\ Inv' /\ Quarantined /\ Honest /\ [Next]_vars => Honest'
<1> SUFFICES ASSUME Inv, Inv', Quarantined, Honest, [Next]_vars PROVE Honest' BY Zenon, SMTT(40)
<1>1. ASSUME UNCHANGED <<disk, machine>>,
             \A o \in Operations : replay'[o] \in Replies => replay'[o] = replay[o],
             \A k \in Callers : call'[k].stage = "observe" => call'[k] = call[k]
      PROVE  Honest'
  <2>1. Progresses BY Zenon, <1>1 DEF Progresses
  <2>2. QED BY Zenon, <1>1, <2>1, ProgressHonest
<1>2. ASSUME NEW k \in Callers, Acknowledge(k) PROVE Honest'
  <2>1. UNCHANGED <<disk, machine>> /\ Return(k) BY Zenon, <1>2 DEF Acknowledge
  <2>2. \A l \in Callers : call'[l] = call[l] \/ call'[l] = Idle BY Zenon, <2>1 DEF Return, Inv, TypeOK
  <2>3. \A o \in Operations : replay'[o] = replay[o] \/ replay'[o] = "released"
    BY Zenon, <1>2 DEF Acknowledge, Inv, TypeOK
  <2>4. "released" \notin Replies BY Zenon DEF Replies, Observations
  <2>5. QED BY SMTT(40), <1>1, <2>1, <2>2, <2>3, <2>4 DEF Idle
<1>3. ASSUME NEW k \in Callers, CommitObservation(k) PROVE Honest'
  <2>1. /\ Observed(call[k].container, call[k].generation, call[k].reply)
        /\ \A l \in Callers : call'[l] = call[l] \/ call'[l] = Idle
        /\ UNCHANGED <<machine, replay, executed>>
    BY Zenon, <1>3, CommitObservationSees
  <2>2. machine[call[k].container][call[k].generation] \in Reached(call[k].reply)
    BY Zenon, <1>3 DEF CommitObservation, Honest, Remembered
  <2>3. QED BY Zenon, <2>1, <2>2, ObservedHonest
<1>4. ASSUME NEW c \in Containers, Recover(c) PROVE Honest'
  <2> DEFINE g == disk.live[c].generation
             seen == machine[c][g]
  <2>1. UNCHANGED <<call, machine, replay, executed>> /\ (UNCHANGED disk \/ Observed(c, g, seen))
    BY Zenon, <1>4, RecoverSees
  <2>2. seen \in Observations => seen \in Reached(seen)
    BY Zenon DEF Observations, Reached, IsRunning, MachineStates
  <2>3. Observed(c, g, seen) => seen \in Observations BY Zenon DEF Observed
  <2> HIDE DEF g
  <2>4. QED BY Zenon, <1>1, <2>1, <2>2, <2>3, ObservedHonest
<1>5. ASSUME NEW k \in Callers, NEW c \in Containers, Query(k, c) PROVE Honest'
  <2> DEFINE g == disk.live[c].generation
             new == [stage |-> "observe", op |-> NoOperation, container |-> c,
                     generation |-> g, reply |-> machine[c][g]]
  <2>1. /\ UNCHANGED <<disk, machine, replay>> /\ call' = [call EXCEPT ![k] = new]
        /\ HasRecord(disk, c) /\ machine[c][g] \in Observations
    BY Zenon, <1>5 DEF Query
  <2>2. g \in 1 .. MaxGeneration BY ZenonT(40), <2>1, MachineOf
  <2>3. machine[c][g] \in Reached(machine[c][g])
    BY Zenon, <2>1 DEF Observations, Reached, IsRunning, MachineStates
  <2>4. new.container = c /\ new.generation = g /\ new.reply = machine[c][g] BY Zenon
  <2> HIDE DEF new, g
  <2>5. \A l \in Callers : call'[l] = call[l] \/ call'[l] = new BY Zenon, <2>1 DEF Inv, TypeOK
  <2>6. Remembered' BY Zenon, <2>1, <2>2, <2>3, <2>4, <2>5 DEF Honest, Remembered
  <2>7. DurableNeverAhead' /\ Answerable' BY Zenon, <2>1 DEF Honest, DurableNeverAhead, Answerable
  <2>8. QED BY Zenon, <2>6, <2>7 DEF Honest
<1>6. ASSUME NEW c \in Containers, NEW g \in 1 .. MaxGeneration, ProcessExits(c, g) PROVE Honest'
  <2>1. /\ machine[c][g] \in {"created", "running", "paused"}
        /\ machine' = [machine EXCEPT ![c][g] = "stopped"] /\ UNCHANGED <<disk, call, replay>>
    BY Zenon, <1>6 DEF ProcessExits
  <2>2. machine \in [Containers -> [1 .. MaxGeneration -> MachineStates]] BY Zenon DEF Inv, TypeOK
  <2>3. /\ machine'[c][g] = "stopped"
        /\ \A b \in Containers, h \in 1 .. MaxGeneration :
              <<b, h>> # <<c, g>> => machine'[b][h] = machine[b][h]
    BY Zenon, <2>1, <2>2
  <2>4. \A status : machine[c][g] \in Reached(status) => "stopped" \in Reached(status)
    BY Zenon, <2>1 DEF Reached, IsRunning, MachineStates, Observations
  <2>5. Progresses BY Zenon, <2>3, <2>4 DEF Progresses
  <2>6. QED BY Zenon, <2>1, <2>5, ProgressHonest
<1>7. ASSUME Crash PROVE Honest'
  <2>1. UNCHANGED <<disk, machine, replay>> /\ \A l \in Callers : call'[l] = Idle BY Zenon, <1>7 DEF Crash
  <2>2. QED BY SMTT(40), <1>1, <2>1 DEF Idle
<1>8. ASSUME Open \/ Serve \/ UNCHANGED vars PROVE Honest'
  <2>1. UNCHANGED <<disk, machine, replay, call>> BY Zenon, <1>8 DEF Open, Serve, vars
  <2>2. QED BY Zenon, <1>1, <2>1
<1>9. QED
  BY Zenon, <1>2, <1>3, <1>4, <1>5, <1>6, <1>7, <1>8, SubmitHonest, SettleHonest,
     DispatchHonest DEF Next

\* Nothing is recorded of an empty state root.
LEMMA InitHonest == Init => Honest
<1> SUFFICES ASSUME Init PROVE Honest BY Zenon
<1>1. DurableNeverAhead BY Zenon DEF Init, DurableNeverAhead, EmptyDisk, HasRecord, NoDirectory, Partial
<1>2. Answerable BY Zenon DEF Init, Answerable, Replies, Observations
<1>3. Remembered BY Zenon DEF Init, Remembered, Idle
<1>4. QED BY Zenon, <1>1, <1>2, <1>3 DEF Honest

-----------------------------------------------------------------------------
(* The startup audit.  What it asks of the generations does not hold of any  *)
(* clients: a create that was cut short can be repeated after later requests *)
(* have used its container ID.  It holds if clients wait for the answer to a *)
(* create before they use its ID for another create or a delete, and the     *)
(* other way round.                                                          *)

CreatesAreOrdered ==
    \A o, p \in Operations :
        /\ o # p /\ Target[o] = Target[p]
        /\ Kind[o] = "create" /\ Kind[p] \in {"create", "delete"}
        => p \in After[o] \/ o \in After[p]

\* What an operation waited for is decided, and older than the create it led to.
Sequenced ==
    /\ \A o \in Operations :
          Kind[o] \in {"create", "delete"} /\ Outcome(disk, o) # "absent" =>
             \A p \in After[o] : IsDecided(Outcome(disk, p))
    /\ \A o, p \in Operations :
          /\ Kind[p] = "create" /\ o \in After[p] /\ Target[o] = Target[p]
          /\ Outcome(disk, p) # "absent"
          => disk.journal[o].generation < disk.journal[p].generation

\* An undecided creation, and whatever is live, is of the last generation.
Current ==
    /\ \A o \in Operations : Kind[o] = "create" /\ Outcome(disk, o) = "prepared" =>
          disk.journal[o].generation = disk.last[Target[o]]
    /\ \A c \in Containers : HasRecord(disk, c) => disk.live[c].generation = disk.last[c]

\* A live record was created, and is not the one in quarantine.
Created ==
    \A c \in Containers : HasRecord(disk, c) =>
        \E o \in Operations : /\ IsCreation(disk, o)
                              /\ Target[o] = c
                              /\ disk.journal[o].generation = disk.live[c].generation

Departed ==
    \A o \in Operations :
        disk.quarantine[o].stage # "absent" /\ HasRecord(disk, Target[o]) =>
            disk.live[Target[o]].generation # disk.journal[o].generation

Audited == Sequenced /\ Current /\ Created /\ Departed

\* A step of a handler for o: its own request has waited for the ones before it.
Handles(o) ==
    /\ Outcome(disk, o) = "absent" => \A p \in After[o] : IsDecided(Outcome(disk, p))
    /\ Numbered(disk, disk', o)
    /\ \E ends \in SUBSET {"succeeded", "failed"} : JournalStep(disk, disk', o, ends)
    /\ \E statuses : Touches(disk, disk', o, statuses)

\* The disk changes by a handler or by an observation.
LEMMA DiskSteps ==
  ASSUME Inv, Quarantined, [Next]_vars
  PROVE  \/ UNCHANGED disk
         \/ \E o \in Operations : Handles(o)
         \/ \E c, g, seen : Observed(c, g, seen)
<1>1. ASSUME NEW k \in Callers, NEW o \in Operations, Submit(k, o) PROVE Handles(o)
  <2>1. PICK r \in Prepare(disk, o) : Handled(k, o, r) BY Zenon, <1>1 DEF Submit
  <2>2. Delivers(disk, Prepare(disk, o), o, {"succeeded"}) BY Zenon, PrepareDelivers DEF Inv
  <2>3. Confined(disk, Prepare(disk, o), o, {}) BY Zenon, PrepareConfined DEF Inv, Quarantined, Tombs
  <2>4. Numbered(disk, r.disk, o) BY Zenon, <2>1, PrepareNumbers DEF Inv
  <2>5. disk' = r.disk BY Zenon, <2>1 DEF Handled
  <2>6. JournalStep(disk, disk', o, {"succeeded"}) /\ Touches(disk, disk', o, {})
    BY Zenon, <2>1, <2>2, <2>3, <2>5 DEF Confined, Delivers
  <2>7. {"succeeded"} \in SUBSET {"succeeded", "failed"} BY Zenon
  <2>8. \A p \in After[o] : IsDecided(Outcome(disk, p)) BY Zenon, <1>1 DEF Submit
  <2>9. QED BY Zenon, <2>4, <2>5, <2>6, <2>7, <2>8 DEF Handles
<1>2. ASSUME NEW k \in Callers, Settle(k) PROVE call[k].op \in Operations /\ Handles(call[k].op)
  <2> DEFINE o == call[k].op
             reply == call[k].reply
             results == IF reply = "refused" THEN FailOperation(disk, o)
                                             ELSE Complete(disk, o, reply)
             ends == IF reply = "refused" THEN {"failed"} ELSE {"succeeded"}
             statuses == IF reply = "refused" THEN {}
                         ELSE {Settled(Kind[o], disk.live[Target[o]].status, reply)}
  <2>1. PICK r \in results : Handled(k, o, r) BY Zenon, <1>2 DEF Settle
  <2>2. o \in Operations BY Zenon, <1>2, CallType DEF Inv, Settle
  <2>3. Delivers(disk, results, o, ends) BY Zenon, <2>2, FailOperationDelivers, CompleteDelivers DEF Inv
  <2>4. Confined(disk, results, o, statuses)
    BY Zenon, <2>2, FailOperationConfined, CompleteConfined DEF Inv
  <2>5. Outcome(disk, o) # "absent"
    BY ZenonT(40), <1>2, <2>2 DEF Inv, Held, Evidence, Settle, Replies, Observations
  <2>6. r \in Complete(disk, o, reply) \cup FailOperation(disk, o) BY Zenon, <2>1
  <2>7. Numbered(disk, r.disk, o) BY Zenon, <2>2, <2>5, <2>6, SettleNumbers DEF Inv
  <2>8. ends \in SUBSET {"succeeded", "failed"} BY Zenon
  <2> HIDE DEF o, reply, results, ends, statuses
  <2>9. disk' = r.disk BY Zenon, <2>1 DEF Handled
  <2>10. JournalStep(disk, disk', o, ends) /\ Touches(disk, disk', o, statuses)
    BY Zenon, <2>1, <2>3, <2>4, <2>9 DEF Confined, Delivers
  <2>11. Handles(o) BY Zenon, <2>5, <2>7, <2>8, <2>9, <2>10 DEF Handles
  <2>12. QED BY Zenon, <2>2, <2>11 DEF o
<1>3. ASSUME NEW k \in Callers, CommitObservation(k) PROVE \E c, g, seen : Observed(c, g, seen)
  BY Zenon, <1>3, CommitObservationSees
<1>4. ASSUME NEW c \in Containers, Recover(c)
      PROVE  UNCHANGED disk \/ \E g, seen : Observed(c, g, seen)
  BY Zenon, <1>4, RecoverSees
<1>5. ASSUME \/ \E k \in Callers : Dispatch(k) \/ Acknowledge(k)
             \/ \E k \in Callers, c \in Containers : Query(k, c)
             \/ \E c \in Containers, g \in 1 .. MaxGeneration : ProcessExits(c, g)
             \/ Crash \/ Open \/ Serve \/ UNCHANGED vars
      PROVE  UNCHANGED disk
  BY Zenon, <1>5 DEF Dispatch, Acknowledge, Query, ProcessExits, Crash, Open, Serve, vars
<1>6. QED BY Zenon, <1>1, <1>2, <1>3, <1>4, <1>5 DEF Next

\* Ordered creations overlap with no other creation and no delete.
LEMMA OneAtATime ==
  ASSUME CreatesAreOrdered, Sequenced, NEW o \in Operations, NEW p \in Operations,
         o # p, Target[o] = Target[p], Kind[o] = "create", Kind[p] \in {"create", "delete"},
         Outcome(disk, o) \in {"absent", "prepared"}, Outcome(disk, p) # "absent"
  PROVE  p \in After[o] /\ (Outcome(disk, o) = "prepared" => IsDecided(Outcome(disk, p)))
<1>1. o \notin After[p] BY Zenon DEF Sequenced, IsDecided
<1>2. p \in After[o] BY Zenon, <1>1 DEF CreatesAreOrdered
<1>3. QED BY Zenon, <1>2 DEF Sequenced

\* A handler keeps the order.
LEMMA HandlesSequenced ==
  ASSUME Inv, Inv', Sequenced, NEW o \in Operations, Handles(o)
  PROVE  Sequenced'
<1>1. PICK ends \in SUBSET {"succeeded", "failed"} : JournalStep(disk, disk', o, ends)
  BY Zenon DEF Handles
<1>2. \A p \in Operations : IsDecided(Outcome(disk, p)) => disk'.journal[p] = disk.journal[p]
  BY Zenon, <1>1 DEF JournalStep, IsDecided, Outcome
<1>3. \A p \in Operations : After[p] \subseteq Operations BY Zenon, ServiceAssumption
<1>4. ASSUME NEW p \in Operations, Kind[p] \in {"create", "delete"}, Outcome(disk', p) # "absent",
             NEW q \in After[p]
      PROVE  IsDecided(Outcome(disk, q)) /\ disk'.journal[q] = disk.journal[q]
  <2>1. CASE Outcome(disk, p) # "absent" BY Zenon, <1>2, <1>3, <1>4, <2>1 DEF Sequenced
  <2>2. CASE Outcome(disk, p) = "absent"
    <3>1. p = o BY Zenon, <1>1, <1>4, <2>2 DEF JournalStep, Outcome
    <3>2. QED BY Zenon, <1>2, <1>3, <1>4, <2>2, <3>1 DEF Handles
  <2>3. QED BY Zenon, <2>1, <2>2
<1>5. ASSUME NEW q \in Operations, NEW p \in Operations, Kind[p] = "create", q \in After[p],
             Target[q] = Target[p], Outcome(disk', p) # "absent"
      PROVE  disk'.journal[q].generation < disk'.journal[p].generation
  <2>1. IsDecided(Outcome(disk, q)) /\ disk'.journal[q] = disk.journal[q] BY Zenon, <1>4, <1>5
  <2>2. CASE Outcome(disk, p) # "absent"
    <3>1. disk'.journal[p].generation = disk.journal[p].generation
      BY Zenon, <1>1, <2>2 DEF JournalStep, Outcome
    <3>2. QED BY Zenon, <1>5, <2>1, <2>2, <3>1 DEF Sequenced
  <2>3. CASE Outcome(disk, p) = "absent"
    <3>1. p = o BY Zenon, <1>1, <1>5, <2>3 DEF JournalStep, Outcome
    <3>2. /\ disk'.last[Target[o]] = disk.last[Target[o]] + 1
          /\ disk'.journal[o].generation = disk'.last[Target[o]]
      BY Zenon, <1>5, <2>3, <3>1 DEF Handles, Numbered
    <3>3. disk.journal[q].generation \in 1 .. disk.last[Target[o]]
      BY ZenonT(40), <1>5, <2>1, <3>1 DEF Inv, Sound, Fenced, AuditOperations, IsDecided
    <3>4. disk.last[Target[o]] \in Nat
      BY RequestAssumption DEF Inv, TypeOK, Disks, Generations
    <3>5. QED BY SMTT(40), <2>1, <3>1, <3>2, <3>3, <3>4
  <2>4. QED BY Zenon, <2>2, <2>3
<1>6. ASSUME NEW p \in Operations, Kind[p] \in {"create", "delete"}, Outcome(disk', p) # "absent",
             NEW q \in After[p]
      PROVE  IsDecided(Outcome(disk', q))
  BY Zenon, <1>4, <1>6 DEF Outcome
<1>7. QED BY ZenonT(40), <1>5, <1>6 DEF Sequenced

\* A handler keeps the generations current.
LEMMA HandlesCurrent ==
  ASSUME CreatesAreOrdered, Inv, Inv', Sequenced, Sequenced', Current,
         NEW o \in Operations, Handles(o)
  PROVE  Current'
<1>1. PICK ends \in SUBSET {"succeeded", "failed"} : JournalStep(disk, disk', o, ends)
  BY Zenon DEF Handles
<1>2. PICK statuses : Touches(disk, disk', o, statuses) BY Zenon DEF Handles
<1>3. Target[o] \in Containers BY Zenon, RequestAssumption
<1>4. ASSUME NEW p \in Operations, Kind[p] = "create", Outcome(disk', p) = "prepared"
      PROVE  disk'.journal[p].generation = disk'.last[Target[p]]
  <2>0. Target[p] \in Containers BY Zenon, RequestAssumption
  <2>1. CASE disk'.last[Target[p]] = disk.last[Target[p]]
    <3>1. Outcome(disk, p) # "absent"
      <4>1. CASE p = o
        <5>1. disk.last[Target[o]] \in Nat
          BY <1>3, RequestAssumption DEF Inv, TypeOK, Disks, Generations
        <5>2. QED BY SMTT(60), <1>4, <2>1, <4>1, <5>1 DEF Handles, Numbered
      <4>2. CASE p # o BY Zenon, <1>1, <1>4, <4>2 DEF JournalStep, Outcome
      <4>3. QED BY Zenon, <4>1, <4>2
    <3>2. disk'.journal[p] = disk.journal[p]
      BY Zenon, <1>1, <1>4, <3>1 DEF JournalStep, Outcome
    <3>3. QED BY Zenon, <1>4, <2>1, <3>2 DEF Current, Outcome
  <2>2. CASE disk'.last[Target[p]] # disk.last[Target[p]]
    <3>1. /\ Kind[o] = "create" /\ Outcome(disk, o) = "absent" /\ Target[p] = Target[o]
          /\ Outcome(disk', o) = "absent" \/ disk'.journal[o].generation = disk'.last[Target[o]]
      BY ZenonT(40), <2>0, <2>2 DEF Handles, Numbered
    <3>2. CASE p = o BY Zenon, <1>4, <3>1, <3>2
    <3>3. CASE p # o
      <4>1. Outcome(disk, p) = "prepared" BY Zenon, <1>1, <1>4, <3>3 DEF JournalStep, Outcome
      <4>2. p \in After[o] BY Zenon, <1>4, <3>1, <3>3, <4>1, OneAtATime
      <4>3. QED BY Zenon, <3>1, <4>1, <4>2 DEF Handles, IsDecided
    <3>4. QED BY Zenon, <3>2, <3>3
  <2>3. QED BY Zenon, <2>1, <2>2
<1>5. ASSUME NEW c \in Containers, HasRecord(disk', c)
      PROVE  disk'.live[c].generation = disk'.last[c]
  <2>1. CASE c = Target[o] /\ Builds(disk, disk', o)
    BY ZenonT(40), <1>4, <1>5, <2>1 DEF Builds
  <2>2. CASE /\ HasRecord(disk, c) /\ disk'.live[c].generation = disk.live[c].generation
    <3>1. disk'.last[c] = disk.last[c]
      BY ZenonT(40), <2>2 DEF Handles, Numbered, HasDirectory, HasRecord
    <3>2. QED BY Zenon, <2>2, <3>1 DEF Current
  <2>3. CASE c = Target[o] /\ Moves(disk, disk', o)
    BY SMTT(40), <1>5, <2>3 DEF Moves, NoDirectory, Partial, HasRecord
  <2>4. CASE disk'.live[c] = disk.live[c] BY Zenon, <1>5, <2>2, <2>4 DEF HasRecord
  <2>5. CASE c = Target[o] /\ Rewrites(disk, disk', o, statuses)
    BY ZenonT(40), <2>2, <2>5 DEF Rewrites, Loaded
  <2>6. QED BY ZenonT(40), <1>2, <2>1, <2>3, <2>4, <2>5 DEF Touches, Stays
<1>6. QED BY Zenon, <1>4, <1>5 DEF Current

\* A handler rebuilds its own container only, and never one that is in quarantine.
LEMMA HandlesDeparted ==
  ASSUME CreatesAreOrdered, Inv, Inv', Quarantined, Quarantined', Sequenced', Created, Departed,
         NEW o \in Operations, Handles(o)
  PROVE  Created' /\ Departed'
<1>1. PICK ends \in SUBSET {"succeeded", "failed"} : JournalStep(disk, disk', o, ends)
  BY Zenon DEF Handles
<1>2. PICK statuses : Touches(disk, disk', o, statuses) BY Zenon DEF Handles
<1>3. Target[o] \in Containers BY Zenon, RequestAssumption
<1>4. ASSUME NEW c \in Containers, HasRecord(disk', c)
      PROVE  \/ /\ c = Target[o] /\ Kind[o] = "create" /\ Outcome(disk', o) = "prepared"
                /\ disk'.live[c].generation = disk'.journal[o].generation
                /\ disk'.quarantine = disk.quarantine
             \/ /\ HasRecord(disk, c) /\ disk'.live[c].generation = disk.live[c].generation
                /\ \A p \in Operations : Target[p] = c => disk'.quarantine[p] = disk.quarantine[p]
  <2>1. disk.quarantine \in [Operations -> Directories] /\ disk'.quarantine \in [Operations -> Directories]
    BY Zenon DEF Inv, TypeOK, Disks
  <2>2. CASE c # Target[o] BY Zenon, <1>2, <1>4, <2>2 DEF Touches, HasRecord
  <2>3. NoDirectory.stage = "absent" BY Zenon DEF NoDirectory, Partial
  <2>4. disk'.live[c] # NoDirectory BY Zenon, <1>4, <2>3 DEF HasRecord
  <2>5. CASE c = Target[o] /\ disk'.quarantine[o] = disk.quarantine[o]
    <3>1. \A p \in Operations : disk'.quarantine[p] = disk.quarantine[p] BY ZenonT(40), <1>2, <2>5 DEF Touches
    <3>2. disk'.quarantine = disk.quarantine BY SMTT(60), <2>1, <3>1
    <3>3. CASE Stays(disk, disk', o) BY ZenonT(40), <1>4, <2>5, <3>1, <3>3 DEF Stays, HasRecord
    <3>4. CASE Rewrites(disk, disk', o, statuses) BY ZenonT(40), <1>4, <2>5, <3>1, <3>4 DEF Rewrites, Loaded
    <3>5. CASE Builds(disk, disk', o) BY ZenonT(40), <1>4, <2>5, <3>2, <3>5 DEF Builds
    <3>6. ~Moves(disk, disk', o) BY Zenon, <2>5, <2>4 DEF Moves
    <3>7. QED BY ZenonT(40), <1>2, <3>3, <3>4, <3>5, <3>6 DEF Touches
  <2>6. CASE c = Target[o] /\ disk'.quarantine[o] # disk.quarantine[o]
    <3>1. Moves(disk, disk', o) BY Zenon, <1>2, <2>6 DEF Touches, Stays, Rewrites, Builds
    <3>2. QED BY Zenon, <2>6, <2>4, <3>1 DEF Moves
  <2>7. QED BY ZenonT(40), <2>2, <2>5, <2>6
<1>5. \A p \in Operations : Outcome(disk, p) # "absent" =>
         Outcome(disk', p) # "absent" /\ disk'.journal[p].generation = disk.journal[p].generation
  BY Zenon, <1>1 DEF JournalStep, Outcome
<1>6. ASSUME NEW c \in Containers, HasRecord(disk', c)
      PROVE  \E p \in Operations : /\ IsCreation(disk', p)
                                   /\ Target[p] = c
                                   /\ disk'.journal[p].generation = disk'.live[c].generation
  <2>1. CASE /\ c = Target[o] /\ Kind[o] = "create" /\ Outcome(disk', o) = "prepared"
             /\ disk'.live[c].generation = disk'.journal[o].generation
    BY Zenon, <2>1 DEF IsCreation
  <2>2. CASE HasRecord(disk, c) /\ disk'.live[c].generation = disk.live[c].generation
    <3>1. PICK p \in Operations : /\ IsCreation(disk, p) /\ Target[p] = c
                                  /\ disk.journal[p].generation = disk.live[c].generation
      BY Zenon, <2>2 DEF Created
    <3>2. QED BY ZenonT(40), <1>5, <2>2, <3>1 DEF IsCreation
  <2>3. QED BY ZenonT(40), <1>4, <1>6, <2>1, <2>2
<1>7. ASSUME NEW p \in Operations, disk'.quarantine[p].stage # "absent", HasRecord(disk', Target[p])
      PROVE  disk'.live[Target[p]].generation # disk'.journal[p].generation
  <2>1. Target[p] \in Containers BY Zenon, RequestAssumption
  <2>2. /\ \/ Kind[p] = "create" /\ Outcome(disk', p) = "failed"
           \/ Kind[p] = "delete" /\ Outcome(disk', p) \in {"prepared", "succeeded"}
        /\ disk'.journal[p].generation = disk'.quarantine[p].generation
    BY ZenonT(40), <1>7 DEF Quarantined, Tombs, TombstoneAgrees
  <2>3. CASE /\ Target[p] = Target[o] /\ Kind[o] = "create" /\ Outcome(disk', o) = "prepared"
             /\ disk'.live[Target[p]].generation = disk'.journal[o].generation
    <3>1. p # o BY Zenon, <2>2, <2>3
    <3>2. CASE Kind[p] = "create"
      BY ZenonT(40), <2>2, <2>3, <3>1, <3>2 DEF Inv, Sound, Fenced, AuditOperations, IsCreation
    <3>3. CASE Kind[p] = "delete"
      <4>1. p \in After[o] \/ o \in After[p] BY Zenon, <2>3, <3>1, <3>3 DEF CreatesAreOrdered
      <4>2. o \notin After[p] BY Zenon, <2>2, <2>3, <3>3 DEF Sequenced, IsDecided
      <4>3. disk'.journal[p].generation < disk'.journal[o].generation
        BY ZenonT(30), <2>3, <4>1, <4>2 DEF Sequenced
      <4>4. disk'.journal[p].generation \in Nat /\ disk'.journal[o].generation \in Nat
        BY SMTT(40), RequestAssumption DEF Inv, TypeOK, Disks, JournalEntries, Generations
      <4>5. QED BY SMTT(60), <2>3, <4>3, <4>4
    <3>4. QED BY Zenon, <2>2, <3>2, <3>3
  <2>4. CASE /\ HasRecord(disk, Target[p])
             /\ disk'.live[Target[p]].generation = disk.live[Target[p]].generation
             /\ disk'.quarantine[p] = disk.quarantine[p]
    <3>1. CASE Outcome(disk, p) # "absent" BY Zenon, <1>5, <1>7, <2>4, <3>1 DEF Departed
    <3>2. CASE Outcome(disk, p) = "absent"
      BY ZenonT(40), <1>7, <2>4, <3>2 DEF Quarantined, Tombs, TombstoneAgrees
    <3>3. QED BY Zenon, <3>1, <3>2
  <2>5. QED BY ZenonT(40), <1>4, <1>7, <2>1, <2>3, <2>4
<1>8. QED BY Zenon, <1>6, <1>7 DEF Created, Departed

\* An observation moves no generation.
LEMMA ObservedAudited ==
  ASSUME Inv, Inv', Quarantined, Quarantined', Audited, [Next]_vars,
         NEW c, NEW g, NEW seen, Observed(c, g, seen)
  PROVE  Audited'
<1>1. \A p \in Operations : Kind[p] \in {"create", "delete"} => disk'.journal[p] = disk.journal[p]
  BY Zenon DEF Observed, Sees
<1>2. \A p \in Operations : IsDecided(Outcome(disk, p)) => disk'.journal[p] = disk.journal[p]
  <2>1. Journals \/ Fails \/ UNCHANGED disk BY Zenon, StepKinds
  <2>2. disk'.journal = disk.journal \/ Advances(disk, disk')
    BY Zenon, <2>1, StepAdvances DEF Journals, Fails
  <2>3. QED BY Zenon, <2>2 DEF Advances
<1>3. \A p \in Operations : After[p] \subseteq Operations BY Zenon, ServiceAssumption
<1>4. Sequenced'
  <2>1. ASSUME NEW p \in Operations, Kind[p] \in {"create", "delete"}, Outcome(disk', p) # "absent",
               NEW q \in After[p]
        PROVE  IsDecided(Outcome(disk', q)) /\ disk'.journal[q] = disk.journal[q]
    <3>1. Outcome(disk, p) # "absent" BY Zenon, <1>1, <2>1 DEF Outcome
    <3>2. IsDecided(Outcome(disk, q)) /\ q \in Operations
      BY ZenonT(40), <1>3, <2>1, <3>1 DEF Audited, Sequenced
    <3>3. QED BY Zenon, <1>2, <3>2 DEF Outcome
  <2>2. ASSUME NEW q \in Operations, NEW p \in Operations, Kind[p] = "create", q \in After[p],
               Target[q] = Target[p], Outcome(disk', p) # "absent"
        PROVE  disk'.journal[q].generation < disk'.journal[p].generation
    <3>1. disk'.journal[q] = disk.journal[q] /\ disk'.journal[p] = disk.journal[p]
      BY Zenon, <1>1, <2>1, <2>2
    <3>2. QED BY Zenon, <2>2, <3>1 DEF Audited, Sequenced, Outcome
  <2>3. QED BY Zenon, <2>1, <2>2 DEF Sequenced
<1>5. /\ disk'.last = disk.last /\ disk'.quarantine = disk.quarantine
      /\ \A b \in Containers : HasRecord(disk', b) =>
            HasRecord(disk, b) /\ disk'.live[b].generation = disk.live[b].generation
  BY Zenon DEF Observed, Sees, HasRecord
<1>6. Current' BY ZenonT(40), <1>1, <1>5 DEF Audited, Current, Outcome
<1>7. Created'
  <2> SUFFICES ASSUME NEW b \in Containers, HasRecord(disk', b)
               PROVE  \E p \in Operations : /\ IsCreation(disk', p)
                                            /\ Target[p] = b
                                            /\ disk'.journal[p].generation = disk'.live[b].generation
    BY Zenon, SMTT(40) DEF Created
  <2>1. PICK p \in Operations : /\ IsCreation(disk, p) /\ Target[p] = b
                                /\ disk.journal[p].generation = disk.live[b].generation
    BY Zenon, <1>5 DEF Audited, Created
  <2>2. QED BY Zenon, <1>1, <1>5, <2>1 DEF IsCreation, Outcome
<1>8. Departed'
  <2> SUFFICES ASSUME NEW p \in Operations, disk'.quarantine[p].stage # "absent",
                      HasRecord(disk', Target[p])
               PROVE  disk'.live[Target[p]].generation # disk'.journal[p].generation
    BY Zenon DEF Departed
  <2>1. Kind[p] \in {"create", "delete"} BY Zenon DEF Quarantined, Tombs, TombstoneAgrees
  <2>2. Target[p] \in Containers BY Zenon, RequestAssumption
  <2>3. QED BY Zenon, <1>1, <1>5, <2>1, <2>2 DEF Audited, Departed
<1>9. QED BY Zenon, <1>4, <1>6, <1>7, <1>8 DEF Audited

\* What the audit asks for is inductive for clients that wait.
LEMMA NextAudited ==
  ASSUME CreatesAreOrdered
  PROVE  Inv /\ Inv' /\ Quarantined /\ Quarantined' /\ Audited /\ [Next]_vars => Audited'
<1> SUFFICES ASSUME Inv, Inv', Quarantined, Quarantined', Audited, [Next]_vars
             PROVE  Audited'
  BY Zenon
<1>1. CASE UNCHANGED disk BY Zenon, <1>1 DEF Audited, Sequenced, Current, Created, Departed
<1>2. ASSUME NEW o \in Operations, Handles(o) PROVE Audited'
  <2>1. Sequenced' BY Zenon, <1>2, HandlesSequenced DEF Audited
  <2>2. Current' BY Zenon, <1>2, <2>1, HandlesCurrent DEF Audited
  <2>3. Created' /\ Departed' BY Zenon, <1>2, <2>1, HandlesDeparted DEF Audited
  <2>4. QED BY Zenon, <2>1, <2>2, <2>3 DEF Audited
<1>3. ASSUME NEW c, NEW g, NEW seen, Observed(c, g, seen) PROVE Audited' BY Zenon, <1>3, ObservedAudited
<1>4. QED BY Zenon, <1>1, <1>2, <1>3, DiskSteps

\* An empty state root has no generations.
LEMMA InitAudited == Init => Audited
<1> SUFFICES ASSUME Init PROVE Audited BY Zenon
<1>1. /\ \A o \in Operations : Outcome(disk, o) = "absent" /\ disk.quarantine[o].stage = "absent"
      /\ \A c \in Containers : ~HasRecord(disk, c)
  BY Zenon DEF Init, EmptyDisk, Outcome, NoDirectory, Partial, HasRecord
<1>2. QED BY Zenon, <1>1 DEF Audited, Sequenced, Current, Created, Departed

-----------------------------------------------------------------------------
(* Theorems.                                                                 *)

\* A quarantined directory is the record that its operation claimed: no handler,
\* however it is cut short, moves another's or leaves a partial one behind.
THEOREM TombstonesAgreeHolds == Spec => []TombstonesAgree
<1>1. Quarantined => TombstonesAgree BY Zenon DEF Quarantined, Tombs, TombstonesAgree
<1>2. Spec => []Quarantined BY InitQuarantined, NextQuarantined, InvHolds, PTL DEF Spec
<1>3. QED BY <1>1, <1>2, PTL

\* The durable status is never ahead of the driver: what a handler commits is
\* what the driver answered or was seen in, and the driver never goes back.
THEOREM DurableNeverAheadHolds == Spec => []DurableNeverAhead
<1>1. Honest => DurableNeverAhead BY Zenon DEF Honest
<1>2. Spec => [](Quarantined /\ Honest)
  BY InitQuarantined, NextQuarantined, InitHonest, NextHonest, InvHolds, PTL DEF Spec
<1>3. QED BY <1>1, <1>2, PTL

\* The invariant of the audit, for clients that wait.
LEMMA AuditedHolds == CreatesAreOrdered => (Spec => [](Inv /\ Quarantined /\ Audited))
<1> SUFFICES ASSUME CreatesAreOrdered PROVE Spec => [](Inv /\ Quarantined /\ Audited)
  BY Zenon
<1>1. Inv /\ Inv' /\ Quarantined /\ Quarantined' /\ Audited /\ [Next]_vars => Audited'
  BY Zenon, NextAudited
<1>2. QED BY <1>1, InitQuarantined, NextQuarantined, InitAudited, InvHolds, PTL DEF Spec

\* For clients that wait for the answers about a container ID, no handler, however
\* it is cut short, leaves a state root that audit_startup_state rejects, unless
\* list already rejects a directory without a record.
THEOREM StateIsAuditableHolds == CreatesAreOrdered => (Spec => []StateIsAuditable)
<1> SUFFICES ASSUME CreatesAreOrdered PROVE Spec => []StateIsAuditable
  BY Zenon
<1>1. Inv /\ Quarantined /\ Audited => StateIsAuditable
  <2> SUFFICES ASSUME Inv, Quarantined, Audited, ListAccepts(disk) PROVE AuditAccepts(disk)
    BY Zenon DEF StateIsAuditable
  <2>1. AuditOperations(disk) BY Zenon DEF Inv, Sound, Fenced
  <2>2. \A c \in Containers : AuditContainer(disk, c)
    BY Zenon DEF AuditContainer, ListAccepts, Inv, Sound, Claims, Audited, Current, Created
  <2>3. \A o \in Operations : Target[o] \in Containers BY Zenon, RequestAssumption
  <2>4. \A o \in Operations : TombstoneAgrees(disk, o) /\ TombstoneIsNotLive(disk, o)
    BY Zenon, <2>3 DEF TombstoneIsNotLive, ListAccepts, Quarantined, Tombs, Audited, Departed
  <2>5. QED BY Zenon, <2>1, <2>2, <2>4 DEF AuditAccepts
<1>2. QED BY <1>1, AuditedHolds, PTL

\* For the same clients the live record is of the last allocated generation, and
\* no generation is both live and in quarantine.
THEOREM LiveGenerationIsCurrentHolds == CreatesAreOrdered => (Spec => []LiveGenerationIsCurrent)
<1> SUFFICES ASSUME CreatesAreOrdered PROVE Spec => []LiveGenerationIsCurrent
  BY Zenon
<1>1. Audited => LiveGenerationIsCurrent
  BY Zenon DEF LiveGenerationIsCurrent, TombstoneIsNotLive, Audited, Current, Departed
<1>2. QED BY <1>1, AuditedHolds, PTL

==============================================================================
