-------------------------- MODULE HostServiceProofs --------------------------
(* Theorems about the host service, for every set of containers, operations  *)
(* and callers and every bound.                                              *)
EXTENDS HostService, DurableStoreProofs

-----------------------------------------------------------------------------
(* The host service.                                                         *)

\* What a call knows while it waits: a dispatched operation is journaled and its
\* evidence is still with the driver, an answer is the driver's recorded one,
\* only a decided operation is acknowledged, and no two calls hold one operation.
Held ==
    /\ \A k \in Callers :
          /\ call[k].stage = "dispatch" =>
                replay[call[k].op] # "released" /\ Outcome(disk, call[k].op) # "absent"
          /\ call[k].stage = "settle" =>
                call[k].reply \in Replies /\ replay[call[k].op] = call[k].reply
          /\ call[k].stage = "ack" => IsDecided(Outcome(disk, call[k].op))
    /\ \A k, l \in Callers : k # l /\ call[k].op \in Operations => call[l].op # call[k].op

\* What the driver's record of an operation says about the operation.
Evidence ==
    \A o \in Operations :
        /\ replay[o] = "released" => IsDecided(Outcome(disk, o))
        /\ Outcome(disk, o) = "absent" => replay[o] = "none"
        /\ replay[o] \in {"none", "refused"} => executed[o] = 0
        /\ executed[o] <= 1

Inv == TypeOK /\ Sound(disk) /\ Held /\ Evidence

\* A fresh state root and an idle service satisfy the invariant.
LEMMA InitInv == Init => Inv
<1> SUFFICES ASSUME Init PROVE Inv BY Zenon
<1>1. Sound(disk) BY Zenon, EmptyDiskSound DEF Init
<1>2. TypeOK
  BY <1>1, RequestAssumption, ServiceAssumption
  DEF Init, TypeOK, Sound, MachineStates, ReplayRecords
<1>3. Held BY Zenon, RequestAssumption DEF Init, Held, Idle
<1>4. Evidence BY DEF Init, Evidence
<1>5. QED BY Zenon, <1>1, <1>2, <1>3, <1>4 DEF Inv

\* The journal as the calls see it: no decided operation changes, none vanishes.
Advances(d, e) ==
    \A p \in Operations :
        /\ IsDecided(Outcome(d, p)) => e.journal[p] = d.journal[p]
        /\ Outcome(e, p) = "absent" => Outcome(d, p) = "absent"

\* A handler that writes one journal entry moves the journal on.
LEMMA StepAdvances ==
  ASSUME NEW d, NEW e, NEW o \in Operations, NEW ends \in SUBSET {"succeeded", "failed"},
         JournalStep(d, e, o, ends)
  PROVE  Advances(d, e)
<1> SUFFICES ASSUME NEW p \in Operations
             PROVE  /\ IsDecided(Outcome(d, p)) => e.journal[p] = d.journal[p]
                    /\ Outcome(e, p) = "absent" => Outcome(d, p) = "absent"
  BY Zenon DEF Advances
<1>1. CASE p # o BY Zenon, <1>1 DEF JournalStep, Outcome
<1>2. CASE p = o BY Zenon, <1>2 DEF JournalStep, Outcome, IsDecided
<1>3. QED BY Zenon, <1>1, <1>2

\* The parts of the type invariant, by variable.
LEMMA CallType ==
  ASSUME TypeOK, NEW k \in Callers
  PROVE  /\ call[k] \in {Idle} \cup OperationCalls \cup StateCalls
         /\ call[k].stage \in {"dispatch", "settle", "ack"} => call[k].op \in Operations
         /\ call[k].stage = "observe" => /\ call[k].container \in Containers
                                         /\ call[k].generation \in Generations
                                         /\ call[k].reply \in Observations
<1>1. call[k] \in {Idle} \cup OperationCalls \cup StateCalls BY Zenon DEF TypeOK
<1>2. QED BY <1>1 DEF Idle, OperationCalls, StateCalls

\* The state between calls: a step that moves the journal on and leaves every
\* call alone, or ends it, keeps what the remaining calls know.
LEMMA ReturnHeld ==
  ASSUME TypeOK, Held, Advances(disk, disk'), UNCHANGED replay,
         \A k \in Callers : call'[k] = call[k] \/ call'[k] = Idle
  PROVE  Held'
<1>1. ASSUME NEW k \in Callers
      PROVE  /\ call'[k].stage = "dispatch" =>
                  replay'[call'[k].op] # "released" /\ Outcome(disk', call'[k].op) # "absent"
             /\ call'[k].stage = "settle" =>
                  call'[k].reply \in Replies /\ replay'[call'[k].op] = call'[k].reply
             /\ call'[k].stage = "ack" => IsDecided(Outcome(disk', call'[k].op))
  <2>1. CASE call'[k] = Idle BY <2>1 DEF Idle
  <2>2. CASE call'[k] = call[k]
    <3>1. call[k].stage \in {"dispatch", "settle", "ack"} => call[k].op \in Operations
      BY Zenon, CallType
    <3>2. QED BY <2>2, <3>1 DEF Held, Advances, Outcome
  <2>3. QED BY Zenon, <2>1, <2>2
<1>2. ASSUME NEW k \in Callers, NEW l \in Callers, k # l, call'[k].op \in Operations
      PROVE  call'[l].op # call'[k].op
  <2>1. NoOperation \notin Operations BY Zenon, RequestAssumption
  <2>2. call'[k] = call[k] BY <1>2, <2>1 DEF Idle
  <2>3. QED BY <1>2, <2>1, <2>2 DEF Held, Idle
<1>3. QED BY Zenon, <1>1, <1>2 DEF Held

\* The driver's records, when the journal moves on.
LEMMA AdvanceEvidence ==
  ASSUME Evidence, Advances(disk, disk'), UNCHANGED <<replay, executed>>
  PROVE  Evidence'
BY Zenon DEF Evidence, Advances, Outcome

\* A handler of the store that delivers keeps the invariant.
LEMMA HandledInv ==
  ASSUME Inv, NEW k \in Callers, NEW o \in Operations, NEW r, NEW results, NEW ends,
         ends \in SUBSET {"succeeded", "failed"},
         \A l \in Callers \ {k} : call[l].op # o,
         Delivers(disk, results, o, ends), r \in results,
         Handled(k, o, r),
         UNCHANGED <<host, pending, machine, replay, executed>>
  PROVE  Inv'
<1>1. /\ disk' = r.disk /\ Sound(disk') /\ JournalStep(disk, disk', o, ends)
      /\ r.next \in Labels
      /\ r.next = "dispatch" => Outcome(disk', o) = "prepared"
      /\ r.next = "ack" => IsDecided(Outcome(disk', o))
  BY Zenon DEF Delivers, Handled
<1>2. Advances(disk, disk') BY Zenon, <1>1, StepAdvances
<1>3. Evidence' BY Zenon, <1>2, AdvanceEvidence DEF Inv
<1>4. CASE r.next \in {"torn", "error", "observed"}
  <2>1. Return(k) /\ (Fault \/ NoFault) BY Zenon, <1>4 DEF Handled
  <2>2. TypeOK'
    <3>1. call' \in [Callers -> {Idle} \cup OperationCalls \cup StateCalls]
      BY Zenon, <2>1 DEF Inv, TypeOK, Return
    <3>2. faults' \in 0 .. MaxFaults
      BY <2>1, ServiceAssumption DEF Inv, TypeOK, Fault, NoFault
    <3>3. QED BY Zenon, <1>1, <3>1, <3>2 DEF Inv, TypeOK, Sound
  <2>3. \A l \in Callers : call'[l] = call[l] \/ call'[l] = Idle
    BY Zenon, <2>1 DEF Return, Inv, TypeOK
  <2>4. Held' BY Zenon, <1>2, <2>3, ReturnHeld DEF Inv
  <2>5. QED BY Zenon, <1>1, <1>3, <2>2, <2>4 DEF Inv
<1>5. CASE r.next \in {"dispatch", "ack"}
  <2> DEFINE new == OperationCall(r.next, o, "none")
  <2>1. call' = [call EXCEPT ![k] = new] /\ NoFault BY Zenon, <1>5 DEF Handled
  <2>2. new \in OperationCalls /\ new.op = o /\ new.stage = r.next
    BY Zenon, <1>5 DEF OperationCall, OperationCalls
  <2> HIDE DEF new
  <2>3. TypeOK'
    <3>1. call' \in [Callers -> {Idle} \cup OperationCalls \cup StateCalls]
      BY Zenon, <2>1, <2>2 DEF Inv, TypeOK
    <3>2. QED BY Zenon, <1>1, <2>1, <3>1 DEF Inv, TypeOK, Sound, NoFault
  <2>4. call'[k] = new /\ \A l \in Callers \ {k} : call'[l] = call[l]
    BY Zenon, <2>1 DEF Inv, TypeOK
  <2>5. Held'
    <3>1. ASSUME NEW l \in Callers
          PROVE  /\ call'[l].stage = "dispatch" =>
                      replay'[call'[l].op] # "released" /\ Outcome(disk', call'[l].op) # "absent"
                 /\ call'[l].stage = "settle" =>
                      call'[l].reply \in Replies /\ replay'[call'[l].op] = call'[l].reply
                 /\ call'[l].stage = "ack" => IsDecided(Outcome(disk', call'[l].op))
      <4>1. CASE l = k
        <5>1. r.next = "dispatch" => replay'[o] # "released"
          BY Zenon, <1>1, <1>3 DEF Evidence, IsDecided
        <5>2. QED BY Zenon, <1>1, <1>5, <2>2, <2>4, <4>1, <5>1
      <4>2. CASE l # k
        <5>1. call[l].stage \in {"dispatch", "settle", "ack"} => call[l].op \in Operations
          BY Zenon, CallType DEF Inv
        <5>2. call'[l] = call[l] BY Zenon, <2>4, <4>2
        <5>3. QED BY <1>2, <5>1, <5>2 DEF Inv, Held, Advances, Outcome
      <4>3. QED BY Zenon, <4>1, <4>2
    <3>2. ASSUME NEW l \in Callers, NEW m \in Callers, l # m, call'[l].op \in Operations
          PROVE  call'[m].op # call'[l].op
      BY <2>2, <2>4, <3>2 DEF Inv, Held
    <3>3. QED BY Zenon, <3>1, <3>2 DEF Held
  <2>6. QED BY Zenon, <1>1, <1>3, <2>3, <2>5 DEF Inv
<1>6. QED BY Zenon, <1>1, <1>4, <1>5 DEF Labels

\* A client request: the gate, then the prepare handler.
LEMMA SubmitInv ==
  ASSUME Inv, NEW k \in Callers, NEW o \in Operations, Submit(k, o)
  PROVE  Inv'
<1>1. PICK r \in Prepare(disk, o) : Handled(k, o, r) BY Zenon DEF Submit
<1>2. Delivers(disk, Prepare(disk, o), o, {"succeeded"}) BY Zenon, PrepareDelivers DEF Inv
<1>3. \A l \in Callers \ {k} : call[l].op # o BY Zenon DEF Submit, GateIsFree
<1>4. UNCHANGED <<host, pending, machine, replay, executed>> BY Zenon DEF Submit
<1>5. QED BY Zenon, <1>1, <1>2, <1>3, <1>4, HandledInv

\* Committing the driver's answer: complete_<kind> or fail_operation.
LEMMA SettleInv ==
  ASSUME Inv, NEW k \in Callers, Settle(k)
  PROVE  Inv'
<1> DEFINE o == call[k].op
           reply == call[k].reply
           results == IF reply = "refused" THEN FailOperation(disk, o) ELSE Complete(disk, o, reply)
           ends == IF reply = "refused" THEN {"failed"} ELSE {"succeeded"}
<1>1. PICK r \in results : Handled(k, o, r) BY Zenon DEF Settle
<1>2. o \in Operations BY Zenon, CallType DEF Inv, Settle
<1>3. Delivers(disk, results, o, ends) BY Zenon, <1>2, FailOperationDelivers, CompleteDelivers DEF Inv
<1>4. \A l \in Callers \ {k} : call[l].op # o BY Zenon, <1>2 DEF Inv, Held
<1>5. UNCHANGED <<host, pending, machine, replay, executed>> BY Zenon DEF Settle
<1>6. ends \in SUBSET {"succeeded", "failed"} BY Zenon
<1> HIDE DEF results, ends, o
<1>7. QED BY Zenon, <1>1, <1>2, <1>3, <1>4, <1>5, <1>6, HandledInv

\* The driver has answered, and its record of the operation is the answer.
LEMMA AnsweredHeld ==
  ASSUME Inv, NEW k \in Callers, NEW o \in Operations, NEW reply \in Replies,
         call[k].op = o, call[k].stage = "dispatch", Answered(k, o, reply),
         replay' = [replay EXCEPT ![o] = reply], UNCHANGED disk
  PROVE  /\ Held'
         /\ call' \in [Callers -> {Idle} \cup OperationCalls \cup StateCalls]
         /\ faults' \in 0 .. MaxFaults
         /\ replay' \in [Operations -> ReplayRecords]
<1> DEFINE new == OperationCall("settle", o, reply)
<1>1. /\ new \in OperationCalls /\ new.op = o /\ new.stage = "settle" /\ new.reply = reply
  BY Zenon DEF OperationCall, OperationCalls
<1>2. \/ call' = [call EXCEPT ![k] = new] /\ NoFault
      \/ call' = [call EXCEPT ![k] = Idle] /\ Fault
  BY Zenon DEF Answered, Return
<1> HIDE DEF new
<1>3. call' \in [Callers -> {Idle} \cup OperationCalls \cup StateCalls]
  BY Zenon, <1>1, <1>2 DEF Inv, TypeOK
<1>4. faults' \in 0 .. MaxFaults
  BY <1>2, ServiceAssumption DEF Inv, TypeOK, Fault, NoFault
<1>5. /\ replay' \in [Operations -> ReplayRecords]
      /\ replay'[o] = reply /\ \A p \in Operations \ {o} : replay'[p] = replay[p]
  BY Zenon DEF Inv, TypeOK, ReplayRecords
<1>6. /\ call'[k] = new \/ call'[k] = Idle
      /\ \A l \in Callers \ {k} : call'[l] = call[l]
  BY Zenon, <1>2 DEF Inv, TypeOK
<1>7. \A l \in Callers \ {k} : call[l].op # o BY Zenon DEF Inv, Held
<1>8. Held'
  <2>1. ASSUME NEW l \in Callers
        PROVE  /\ call'[l].stage = "dispatch" =>
                    replay'[call'[l].op] # "released" /\ Outcome(disk', call'[l].op) # "absent"
               /\ call'[l].stage = "settle" =>
                    call'[l].reply \in Replies /\ replay'[call'[l].op] = call'[l].reply
               /\ call'[l].stage = "ack" => IsDecided(Outcome(disk', call'[l].op))
    <3>1. CASE l = k BY <1>1, <1>5, <1>6, <3>1 DEF Idle
    <3>2. CASE l # k
      <4>1. call[l].stage \in {"dispatch", "settle", "ack"} => call[l].op \in Operations \ {o}
        BY Zenon, <1>7, <3>2, CallType DEF Inv
      <4>2. call'[l] = call[l] BY Zenon, <1>6, <3>2
      <4>3. QED BY <1>5, <4>1, <4>2 DEF Inv, Held
    <3>3. QED BY Zenon, <3>1, <3>2
  <2>2. ASSUME NEW l \in Callers, NEW m \in Callers, l # m, call'[l].op \in Operations
        PROVE  call'[m].op # call'[l].op
    <3>1. NoOperation \notin Operations BY Zenon, RequestAssumption
    <3>2. QED BY <1>1, <1>6, <1>7, <2>2, <3>1 DEF Inv, Held, Idle
  <2>3. QED BY Zenon, <2>1, <2>2 DEF Held
<1>9. QED BY Zenon, <1>3, <1>4, <1>5, <1>8

\* What the driver makes of a generation is one of its answers.
LEMMA EffectType ==
  ASSUME NEW kind \in Kinds, NEW state, NEW made \in Effect(kind, state)
  PROVE  made \in MachineStates /\ made \in Replies /\ made \notin {"none", "refused", "released"}
BY Zenon DEF Effect, Kinds, MachineStates, Replies, Observations, IsRunning

\* The driver call, replayed, carried out, refused or lost.
LEMMA DispatchInv ==
  ASSUME Inv, NEW k \in Callers, Dispatch(k)
  PROVE  Inv'
<1> DEFINE o == call[k].op
<1>1. /\ o \in Operations /\ call[k].stage = "dispatch"
      /\ UNCHANGED <<disk, host, pending>>
      /\ replay[o] # "released" /\ Outcome(disk, o) # "absent"
  BY Zenon, CallType DEF Inv, Dispatch, Held
<1>2. replay[o] \in Replies \/ replay[o] = "none"
  BY Zenon, <1>1 DEF Inv, TypeOK, ReplayRecords
<1>3. CASE DriverReplays(k, o)
  <2>1. /\ replay[o] \in Replies /\ Answered(k, o, replay[o]) /\ UNCHANGED driverVars
    BY Zenon, <1>3 DEF DriverReplays
  <2>2. replay' = [replay EXCEPT ![o] = replay[o]]
    BY Zenon, <2>1 DEF driverVars, Inv, TypeOK
  <2>3. Held' /\ TypeOK'
    <3>1. /\ Held' /\ call' \in [Callers -> {Idle} \cup OperationCalls \cup StateCalls]
          /\ faults' \in 0 .. MaxFaults /\ replay' \in [Operations -> ReplayRecords]
      BY Zenon, <1>1, <2>1, <2>2, AnsweredHeld
    <3>2. UNCHANGED <<machine, executed>> BY Zenon, <2>1 DEF driverVars
    <3>3. QED BY Zenon, <1>1, <3>1, <3>2 DEF Inv, TypeOK
  <2>4. Evidence' BY Zenon, <1>1, <2>1 DEF Inv, Evidence, driverVars
  <2>5. QED BY Zenon, <1>1, <2>3, <2>4 DEF Inv
<1>4. CASE DriverExecutes(k, o)
  <2> DEFINE c == Target[o]
             g == disk.journal[o].generation
  <2>1. replay[o] = "none" /\ executed[o] = 0
    BY Zenon, <1>1, <1>2, <1>4 DEF DriverExecutes, Inv, Evidence
  <2>2. PICK state \in Effect(Kind[o], machine[c][g]) :
              /\ machine' = [machine EXCEPT ![c][g] = state]
              /\ replay' = [replay EXCEPT ![o] = state]
              /\ executed' = [executed EXCEPT ![o] = @ + 1]
              /\ Answered(k, o, state)
    BY ZenonT(30), <1>4 DEF DriverExecutes
  <2>3. Kind[o] \in Kinds BY Zenon, <1>1, RequestAssumption
  <2>4. state \in MachineStates /\ state \in Replies /\ state \notin {"none", "refused", "released"}
    BY Zenon, <2>3, EffectType
  <2>5. /\ Held' /\ call' \in [Callers -> {Idle} \cup OperationCalls \cup StateCalls]
        /\ faults' \in 0 .. MaxFaults /\ replay' \in [Operations -> ReplayRecords]
    BY Zenon, <1>1, <2>2, <2>4, AnsweredHeld
  <2>6. machine' \in [Containers -> [1 .. MaxGeneration -> MachineStates]]
    <3> DEFINE row == [machine[c] EXCEPT ![g] = state]
    <3>1. c \in Containers BY Zenon, <1>1, RequestAssumption
    <3>2. machine \in [Containers -> [1 .. MaxGeneration -> MachineStates]] BY Zenon DEF Inv, TypeOK
    <3>3. machine' = [machine EXCEPT ![c] = row] BY Zenon, <2>2
    <3> HIDE DEF c, g
    <3>4. machine[c] \in [1 .. MaxGeneration -> MachineStates] BY Zenon, <3>1, <3>2
    <3>5. row \in [1 .. MaxGeneration -> MachineStates] BY Zenon, <2>4, <3>4
    <3> HIDE DEF row
    <3>6. QED BY ZenonT(30), <3>2, <3>3, <3>5
  <2>7. /\ executed' \in [Operations -> Nat] /\ executed'[o] = 1
        /\ \A p \in Operations \ {o} : executed'[p] = executed[p]
    <3>1. executed \in [Operations -> Nat] BY Zenon DEF Inv, TypeOK
    <3>2. executed' = [executed EXCEPT ![o] = executed[o] + 1] BY Zenon, <2>2
    <3> HIDE DEF o
    <3>3. o \in Operations /\ executed[o] = 0 BY Zenon, <1>1, <2>1
    <3>4. QED BY <3>1, <3>2, <3>3
  <2>8. TypeOK' BY Zenon, <1>1, <2>5, <2>6, <2>7 DEF Inv, TypeOK
  <2>9. replay'[o] = state /\ \A p \in Operations \ {o} : replay'[p] = replay[p]
    BY ZenonT(30), <1>1, <2>2 DEF Inv, TypeOK
  <2>10. Evidence'
    <3> SUFFICES ASSUME NEW p \in Operations
                 PROVE  /\ replay'[p] = "released" => IsDecided(Outcome(disk', p))
                        /\ Outcome(disk', p) = "absent" => replay'[p] = "none"
                        /\ replay'[p] \in {"none", "refused"} => executed'[p] = 0
                        /\ executed'[p] <= 1
      BY Zenon, SMTT(30) DEF Evidence
    <3>1. CASE p = o
      <4>1. Outcome(disk', o) # "absent" BY Zenon, <1>1 DEF Outcome
      <4>2. executed'[o] <= 1 BY SMTT(30), <2>7
      <4>3. replay'[o] \notin {"none", "refused", "released"} BY Zenon, <2>4, <2>9
      <4>4. QED BY Zenon, <3>1, <4>1, <4>2, <4>3
    <3>2. CASE p # o BY Zenon, <1>1, <2>7, <2>9, <3>2 DEF Inv, Evidence
    <3>3. QED BY Zenon, <3>1, <3>2
  <2>11. QED BY Zenon, <1>1, <2>5, <2>8, <2>10 DEF Inv
<1>5. CASE DriverRefuses(k, o)
  <2>1. /\ replay[o] = "none" /\ replay' = [replay EXCEPT ![o] = "refused"]
        /\ Answered(k, o, "refused") /\ UNCHANGED <<machine, executed>>
    BY Zenon, <1>2, <1>5 DEF DriverRefuses
  <2>2. "refused" \in Replies BY Zenon DEF Replies
  <2>3. Held' /\ TypeOK'
    <3>1. /\ Held' /\ call' \in [Callers -> {Idle} \cup OperationCalls \cup StateCalls]
          /\ faults' \in 0 .. MaxFaults /\ replay' \in [Operations -> ReplayRecords]
      BY Zenon, <1>1, <2>1, <2>2, AnsweredHeld
    <3>2. QED BY Zenon, <1>1, <2>1, <3>1 DEF Inv, TypeOK
  <2>4. replay'[o] = "refused" /\ \A p \in Operations \ {o} : replay'[p] = replay[p]
    BY Zenon, <1>1, <2>1 DEF Inv, TypeOK
  <2>5. Evidence'
    BY Zenon, <1>1, <2>1, <2>4 DEF Inv, Evidence
  <2>6. QED BY Zenon, <1>1, <2>3, <2>5 DEF Inv
<1>6. CASE DriverUnavailable(k, o)
  <2>1. Fault /\ Return(k) /\ UNCHANGED driverVars BY Zenon, <1>6 DEF DriverUnavailable
  <2>2. /\ call' \in [Callers -> {Idle} \cup OperationCalls \cup StateCalls]
        /\ \A l \in Callers : call'[l] = call[l] \/ call'[l] = Idle
    BY Zenon, <2>1 DEF Return, Inv, TypeOK
  <2>3. faults' \in 0 .. MaxFaults BY <2>1, ServiceAssumption DEF Inv, TypeOK, Fault
  <2>4. TypeOK' BY Zenon, <1>1, <2>1, <2>2, <2>3 DEF Inv, TypeOK, driverVars
  <2>5. Advances(disk, disk') BY Zenon, <1>1 DEF Advances
  <2>6. Held' BY Zenon, <2>1, <2>2, <2>5, ReturnHeld DEF Inv, driverVars
  <2>7. Evidence' BY Zenon, <2>1, <2>5, AdvanceEvidence DEF Inv, driverVars
  <2>8. QED BY Zenon, <1>1, <2>4, <2>6, <2>7 DEF Inv
<1>7. QED BY Zenon, <1>3, <1>4, <1>5, <1>6 DEF Dispatch

\* acknowledge_operation releases the record of a decided operation.
LEMMA AcknowledgeInv ==
  ASSUME Inv, NEW k \in Callers, Acknowledge(k)
  PROVE  Inv'
<1> DEFINE o == call[k].op
<1>1. /\ o \in Operations /\ call[k].stage = "ack" /\ IsDecided(Outcome(disk, o))
      /\ UNCHANGED <<disk, host, pending, machine, executed>>
      /\ Return(k) /\ (Fault \/ NoFault)
      /\ replay' = [replay EXCEPT ![o] = "released"] \/ UNCHANGED replay
  BY Zenon, CallType DEF Inv, Acknowledge, Held
<1>2. /\ call' \in [Callers -> {Idle} \cup OperationCalls \cup StateCalls]
      /\ call'[k] = Idle /\ \A l \in Callers \ {k} : call'[l] = call[l]
  BY Zenon, <1>1 DEF Return, Inv, TypeOK
<1>3. faults' \in 0 .. MaxFaults BY <1>1, ServiceAssumption DEF Inv, TypeOK, Fault, NoFault
<1>4. /\ replay' \in [Operations -> ReplayRecords]
      /\ replay'[o] = "released" \/ replay'[o] = replay[o]
      /\ \A p \in Operations \ {o} : replay'[p] = replay[p]
  BY Zenon, <1>1 DEF Inv, TypeOK, ReplayRecords
<1>5. TypeOK' BY Zenon, <1>1, <1>2, <1>3, <1>4 DEF Inv, TypeOK
<1>6. Held'
  <2>1. ASSUME NEW l \in Callers
        PROVE  /\ call'[l].stage = "dispatch" =>
                    replay'[call'[l].op] # "released" /\ Outcome(disk', call'[l].op) # "absent"
               /\ call'[l].stage = "settle" =>
                    call'[l].reply \in Replies /\ replay'[call'[l].op] = call'[l].reply
               /\ call'[l].stage = "ack" => IsDecided(Outcome(disk', call'[l].op))
    <3>1. CASE l = k BY <1>2, <3>1 DEF Idle
    <3>2. CASE l # k
      <4>1. call[l].stage \in {"dispatch", "settle", "ack"} => call[l].op \in Operations \ {o}
        BY Zenon, <1>1, <3>2, CallType DEF Inv, Held
      <4>2. call'[l] = call[l] BY Zenon, <1>2, <3>2
      <4>3. QED BY SMTT(30), <1>1, <1>4, <4>1, <4>2 DEF Inv, Held
    <3>3. QED BY Zenon, <3>1, <3>2
  <2>2. ASSUME NEW l \in Callers, NEW m \in Callers, l # m, call'[l].op \in Operations
        PROVE  call'[m].op # call'[l].op
    <3>1. NoOperation \notin Operations BY Zenon, RequestAssumption
    <3>2. QED BY <1>2, <2>2, <3>1 DEF Inv, Held, Idle
  <2>3. QED BY Zenon, <2>1, <2>2 DEF Held
<1>7. Evidence'
  <2> SUFFICES ASSUME NEW p \in Operations
               PROVE  /\ replay'[p] = "released" => IsDecided(Outcome(disk', p))
                      /\ Outcome(disk', p) = "absent" => replay'[p] = "none"
                      /\ replay'[p] \in {"none", "refused"} => executed'[p] = 0
                      /\ executed'[p] <= 1
    BY Zenon DEF Evidence
  <2>1. CASE p = o BY Zenon, <1>1, <1>4, <2>1 DEF Inv, Evidence, IsDecided
  <2>2. CASE p # o BY Zenon, <1>1, <1>4, <2>2 DEF Inv, Evidence
  <2>3. QED BY Zenon, <2>1, <2>2
<1>8. QED BY Zenon, <1>1, <1>5, <1>6, <1>7 DEF Inv

\* A commit of an observation, by a call or by startup recovery, moves the
\* journal on.
LEMMA ObservedAdvances ==
  ASSUME NEW d, NEW r, ObservedStep(d, r)
  PROVE  Advances(d, r.disk)
<1>1. CASE r.disk.journal = d.journal BY Zenon, <1>1 DEF Advances, Outcome
<1>2. CASE \E o \in Operations : JournalStep(d, r.disk, o, {"succeeded"})
  BY Zenon, <1>2, StepAdvances
<1>3. QED BY Zenon, <1>1, <1>2 DEF ObservedStep

\* A step that ends calls at most, and moves the journal on.
LEMMA QuietInv ==
  ASSUME Inv, Sound(disk'), Advances(disk, disk'), TypeOK',
         UNCHANGED <<replay, executed>>,
         \A k \in Callers : call'[k] = call[k] \/ call'[k] = Idle
  PROVE  Inv'
BY Zenon, ReturnHeld, AdvanceEvidence DEF Inv

\* The second half of a state query.
LEMMA CommitObservationInv ==
  ASSUME Inv, NEW k \in Callers, CommitObservation(k)
  PROVE  Inv'
<1>1. PICK r \in Observe(disk, call[k].container, call[k].generation, call[k].reply) :
         Handled(k, NoOperation, r)
  BY Zenon DEF CommitObservation
<1>2. /\ call[k].container \in Containers /\ call[k].generation \in Generations
      /\ call[k].reply \in Observations
  BY Zenon, CallType DEF Inv, CommitObservation
<1>3. ObservedStep(disk, r) BY Zenon, <1>1, <1>2, ObserveDelivers DEF Inv
<1>4. /\ Sound(disk') /\ Advances(disk, disk') BY Zenon, <1>1, <1>3, ObservedAdvances DEF ObservedStep, Handled
<1>5. Return(k) /\ (Fault \/ NoFault) BY Zenon, <1>1, <1>3 DEF ObservedStep, Handled
<1>6. UNCHANGED <<host, pending, machine, replay, executed>> BY Zenon DEF CommitObservation
<1>7. /\ call' \in [Callers -> {Idle} \cup OperationCalls \cup StateCalls]
      /\ \A l \in Callers : call'[l] = call[l] \/ call'[l] = Idle
  BY Zenon, <1>5 DEF Return, Inv, TypeOK
<1>8. faults' \in 0 .. MaxFaults BY <1>5, ServiceAssumption DEF Inv, TypeOK, Fault, NoFault
<1>9. TypeOK' BY Zenon, <1>4, <1>6, <1>7, <1>8 DEF Inv, TypeOK, Sound
<1>10. QED BY Zenon, <1>4, <1>6, <1>7, <1>9, QuietInv

\* Startup recovery of one container.
LEMMA RecoverInv ==
  ASSUME Inv, NEW c \in Containers, Recover(c)
  PROVE  Inv'
<1> DEFINE g == disk.live[c].generation
           seen == machine[c][g]
<1>1. UNCHANGED <<call, machine, replay, executed>> BY Zenon DEF Recover
<1>2. CASE pending' = pending \ {c} /\ UNCHANGED <<disk, host, faults>>
  <2>1. TypeOK' BY Zenon, <1>1, <1>2 DEF Inv, TypeOK
  <2>2. Sound(disk') /\ Advances(disk, disk') BY Zenon, <1>2 DEF Inv, Advances
  <2>3. QED BY Zenon, <1>1, <2>1, <2>2, QuietInv
<1>3. CASE /\ seen \in Observations
           /\ \E r \in Observe(disk, c, g, seen) :
                /\ disk' = r.disk
                /\ IF r.next = "observed"
                     THEN pending' = pending \ {c} /\ UNCHANGED host /\ NoFault
                     ELSE pending' = {} /\ host' = "down"
                          /\ IF r.next = "torn" THEN Fault ELSE NoFault
  <2>1. PICK r \in Observe(disk, c, g, seen) :
                /\ disk' = r.disk
                /\ IF r.next = "observed"
                     THEN pending' = pending \ {c} /\ UNCHANGED host /\ NoFault
                     ELSE pending' = {} /\ host' = "down"
                          /\ IF r.next = "torn" THEN Fault ELSE NoFault
    BY Zenon, <1>3
  <2>2. g \in Generations BY Zenon DEF Inv, TypeOK, Disks, Directories
  <2>3. ObservedStep(disk, r) BY Zenon, <1>3, <2>1, <2>2, ObserveDelivers DEF Inv
  <2>4. Sound(disk') /\ Advances(disk, disk') BY Zenon, <2>1, <2>3, ObservedAdvances DEF ObservedStep
  <2>5. /\ pending' \subseteq Containers /\ host' \in {"down", "opening", "up"}
        /\ Fault \/ NoFault
    BY Zenon, <2>1 DEF Inv, TypeOK
  <2>6. faults' \in 0 .. MaxFaults BY <2>5, ServiceAssumption DEF Inv, TypeOK, Fault, NoFault
  <2>7. TypeOK' BY Zenon, <1>1, <2>4, <2>5, <2>6 DEF Inv, TypeOK, Sound
  <2>8. QED BY Zenon, <1>1, <2>4, <2>7, QuietInv
<1>4. QED BY Zenon, <1>2, <1>3 DEF Recover

\* The first half of a state query.
LEMMA QueryInv ==
  ASSUME Inv, NEW k \in Callers, NEW c \in Containers, Query(k, c)
  PROVE  Inv'
<1> DEFINE g == disk.live[c].generation
           new == [stage |-> "observe", op |-> NoOperation, container |-> c,
                   generation |-> g, reply |-> machine[c][g]]
<1>1. /\ call' = [call EXCEPT ![k] = new] /\ machine[c][g] \in Observations
      /\ UNCHANGED <<disk, host, pending, machine, replay, executed, faults>>
  BY Zenon DEF Query
<1>2. g \in Generations BY Zenon DEF Inv, TypeOK, Disks, Directories
<1>3. new \in StateCalls /\ new.stage = "observe" /\ new.op = NoOperation
  BY Zenon, <1>1, <1>2 DEF StateCalls
<1> HIDE DEF new
<1>4. TypeOK' BY Zenon, <1>1, <1>3 DEF Inv, TypeOK
<1>5. call'[k] = new /\ \A l \in Callers \ {k} : call'[l] = call[l]
  BY Zenon, <1>1 DEF Inv, TypeOK
<1>6. Held'
  <2>1. NoOperation \notin Operations BY Zenon, RequestAssumption
  <2>2. \A l \in Callers : call'[l].stage # "observe" => call'[l] = call[l] BY Zenon, <1>3, <1>5
  <2>3. \A l \in Callers : call'[l].op \in Operations => call'[l] = call[l] BY Zenon, <1>3, <1>5, <2>1
  <2>4. \A l \in Callers : call'[l].op \in {call[l].op, NoOperation} BY Zenon, <1>3, <1>5
  <2>5. QED BY <1>1, <2>1, <2>2, <2>3, <2>4 DEF Inv, Held
<1>7. Evidence' BY Zenon, <1>1 DEF Inv, Evidence
<1>8. QED BY Zenon, <1>1, <1>4, <1>6, <1>7 DEF Inv

\* A workload exits by itself.
LEMMA ProcessExitsInv ==
  ASSUME Inv, NEW c \in Containers, NEW g \in 1 .. MaxGeneration, ProcessExits(c, g)
  PROVE  Inv'
<1>1. /\ machine' = [machine EXCEPT ![c][g] = "stopped"]
      /\ UNCHANGED <<disk, host, pending, call, replay, executed, faults>>
  BY Zenon DEF ProcessExits
<1>2. machine' \in [Containers -> [1 .. MaxGeneration -> MachineStates]]
  <2> DEFINE row == [machine[c] EXCEPT ![g] = "stopped"]
  <2>1. row \in [1 .. MaxGeneration -> MachineStates]
    BY Zenon DEF Inv, TypeOK, MachineStates, Observations
  <2>2. machine' = [machine EXCEPT ![c] = row] BY Zenon, <1>1
  <2> HIDE DEF row
  <2>3. QED BY Zenon, <2>1, <2>2 DEF Inv, TypeOK
<1>3. TypeOK' BY Zenon, <1>1, <1>2 DEF Inv, TypeOK
<1>4. Sound(disk') /\ Advances(disk, disk') BY Zenon, <1>1 DEF Inv, Advances
<1>5. QED BY Zenon, <1>1, <1>3, <1>4, QuietInv

\* The host dies; its calls are gone, its disk and the driver stay.
LEMMA CrashInv ==
  ASSUME Inv, Crash
  PROVE  Inv'
<1>1. faults' \in 0 .. MaxFaults BY ServiceAssumption DEF Inv, TypeOK, Crash, Fault
<1>2. TypeOK' BY Zenon, <1>1 DEF Inv, TypeOK, Crash
<1>3. Sound(disk') /\ Advances(disk, disk') BY Zenon DEF Inv, Advances, Crash
<1>4. QED BY Zenon, <1>2, <1>3, QuietInv DEF Crash

\* Opening the state root and beginning to serve.
LEMMA OpenServeInv ==
  ASSUME Inv, Open \/ Serve
  PROVE  Inv'
<1>1. TypeOK' BY Zenon DEF Inv, TypeOK, Open, Serve
<1>2. Sound(disk') /\ Advances(disk, disk') BY Zenon DEF Inv, Advances, Open, Serve
<1>3. QED BY Zenon, <1>1, <1>2, QuietInv DEF Open, Serve

\* The invariant is inductive.
LEMMA NextInv == Inv /\ [Next]_vars => Inv'
<1> SUFFICES ASSUME Inv, [Next]_vars PROVE Inv' BY Zenon
<1>1. CASE UNCHANGED vars
  <2>1. TypeOK' BY Zenon, <1>1 DEF Inv, TypeOK, vars
  <2>2. Sound(disk') /\ Advances(disk, disk') BY Zenon, <1>1 DEF Inv, Advances, vars
  <2>3. QED BY Zenon, <1>1, <2>1, <2>2, QuietInv DEF vars
<1>2. CASE Next
  BY Zenon, <1>2, SubmitInv, DispatchInv, SettleInv, AcknowledgeInv, QueryInv, CommitObservationInv,
     ProcessExitsInv, CrashInv, OpenServeInv, RecoverInv
  DEF Next
<1>3. QED BY Zenon, <1>1, <1>2

-----------------------------------------------------------------------------
(* What a step of the service is, seen from the operations.                  *)

\* One operation is accepted or succeeds, or nothing is decided.
Journals == \/ disk'.journal = disk.journal
            \/ \E o \in Operations : JournalStep(disk, disk', o, {"succeeded"})

\* One operation that the driver has refused fails.
Fails == \E o \in Operations : /\ JournalStep(disk, disk', o, {"failed"})
                               /\ replay[o] = "refused"

\* The driver answers an operation for the first time.
Answers == \E o \in Operations, reply \in Replies :
    /\ Outcome(disk, o) # "absent"
    /\ replay[o] = "none"
    /\ replay' = [replay EXCEPT ![o] = reply]
    /\ UNCHANGED executed \/ executed' = [executed EXCEPT ![o] = @ + 1]

\* The driver forgets a decided operation.
Forgets == \E o \in Operations :
    /\ IsDecided(Outcome(disk, o))
    /\ replay' = [replay EXCEPT ![o] = "released"]
    /\ UNCHANGED executed

\* Every step writes the journal or the driver's records, never both.
LEMMA StepKinds ==
  ASSUME Inv, [Next]_vars
  PROVE  \/ (Journals \/ Fails) /\ UNCHANGED <<replay, executed>>
         \/ (Answers \/ Forgets) /\ UNCHANGED disk
<1>1. ASSUME NEW k \in Callers, NEW o \in Operations, Submit(k, o)
      PROVE  Journals /\ UNCHANGED <<replay, executed>>
  <2>1. PICK r \in Prepare(disk, o) : Handled(k, o, r) BY Zenon, <1>1 DEF Submit
  <2>2. JournalStep(disk, disk', o, {"succeeded"})
    BY Zenon, <2>1, PrepareDelivers DEF Inv, Delivers, Handled
  <2>3. QED BY Zenon, <1>1, <2>2 DEF Journals, Submit
<1>2. ASSUME NEW k \in Callers, Settle(k)
      PROVE  (Journals \/ Fails) /\ UNCHANGED <<replay, executed>>
  <2> DEFINE o == call[k].op
             reply == call[k].reply
  <2>1. o \in Operations /\ replay[o] = reply /\ UNCHANGED <<replay, executed>>
    BY Zenon, <1>2, CallType DEF Inv, Settle, Held
  <2>2. CASE reply = "refused"
    <3>1. PICK r \in FailOperation(disk, o) : Handled(k, o, r) BY Zenon, <1>2, <2>2 DEF Settle
    <3>2. JournalStep(disk, disk', o, {"failed"})
      BY Zenon, <2>1, <3>1, FailOperationDelivers DEF Inv, Delivers, Handled
    <3>3. QED BY Zenon, <2>1, <2>2, <3>2 DEF Fails
  <2>3. CASE reply # "refused"
    <3>1. PICK r \in Complete(disk, o, reply) : Handled(k, o, r) BY Zenon, <1>2, <2>3 DEF Settle
    <3>2. JournalStep(disk, disk', o, {"succeeded"})
      BY Zenon, <2>1, <3>1, CompleteDelivers DEF Inv, Delivers, Handled
    <3>3. QED BY Zenon, <2>1, <3>2 DEF Journals
  <2>4. QED BY Zenon, <2>2, <2>3
<1>3. ASSUME NEW k \in Callers, Dispatch(k)
      PROVE  UNCHANGED <<disk, replay, executed>> \/ (Answers /\ UNCHANGED disk)
  <2> DEFINE o == call[k].op
  <2>1. /\ o \in Operations /\ UNCHANGED disk
        /\ replay[o] # "released" /\ Outcome(disk, o) # "absent"
    BY Zenon, <1>3, CallType DEF Inv, Dispatch, Held
  <2>2. replay[o] \in Replies \/ replay[o] = "none"
    BY Zenon, <2>1 DEF Inv, TypeOK, ReplayRecords
  <2>3. CASE DriverReplays(k, o) \/ DriverUnavailable(k, o)
    BY Zenon, <2>1, <2>3 DEF DriverReplays, DriverUnavailable, driverVars
  <2>4. CASE DriverExecutes(k, o)
    <3>1. PICK state \in Effect(Kind[o], machine[Target[o]][disk.journal[o].generation]) :
              /\ replay' = [replay EXCEPT ![o] = state]
              /\ executed' = [executed EXCEPT ![o] = @ + 1]
      BY ZenonT(30), <2>4 DEF DriverExecutes
    <3>2. Kind[o] \in Kinds BY Zenon, <2>1, RequestAssumption
    <3>3. state \in Replies BY Zenon, <3>1, <3>2, EffectType
    <3>4. replay[o] = "none" BY Zenon, <2>2, <2>4 DEF DriverExecutes
    <3>5. QED BY Zenon, <2>1, <3>1, <3>3, <3>4 DEF Answers
  <2>5. CASE DriverRefuses(k, o)
    <3>1. /\ replay[o] = "none" /\ replay' = [replay EXCEPT ![o] = "refused"]
          /\ UNCHANGED executed
      BY Zenon, <2>2, <2>5 DEF DriverRefuses
    <3>2. "refused" \in Replies BY Zenon DEF Replies
    <3>3. QED BY Zenon, <2>1, <3>1, <3>2 DEF Answers
  <2>6. QED BY Zenon, <1>3, <2>3, <2>4, <2>5 DEF Dispatch
<1>4. ASSUME NEW k \in Callers, Acknowledge(k)
      PROVE  UNCHANGED <<disk, replay, executed>> \/ (Forgets /\ UNCHANGED disk)
  <2>1. call[k].op \in Operations /\ IsDecided(Outcome(disk, call[k].op))
    BY Zenon, <1>4, CallType DEF Inv, Acknowledge, Held
  <2>2. QED BY Zenon, <1>4, <2>1 DEF Acknowledge, Forgets
<1>5. ASSUME NEW k \in Callers, CommitObservation(k)
      PROVE  Journals /\ UNCHANGED <<replay, executed>>
  <2>1. PICK r \in Observe(disk, call[k].container, call[k].generation, call[k].reply) :
           Handled(k, NoOperation, r)
    BY Zenon, <1>5 DEF CommitObservation
  <2>2. /\ call[k].container \in Containers /\ call[k].generation \in Generations
        /\ call[k].reply \in Observations
    BY Zenon, <1>5, CallType DEF Inv, CommitObservation
  <2>3. ObservedStep(disk, r) BY Zenon, <2>1, <2>2, ObserveDelivers DEF Inv
  <2>4. QED BY Zenon, <1>5, <2>1, <2>3 DEF CommitObservation, ObservedStep, Handled, Journals
<1>6. ASSUME NEW c \in Containers, Recover(c)
      PROVE  Journals /\ UNCHANGED <<replay, executed>>
  <2> DEFINE g == disk.live[c].generation
             seen == machine[c][g]
  <2>1. g \in Generations BY Zenon DEF Inv, TypeOK, Disks, Directories
  <2>2. \A r \in Observe(disk, c, g, seen) : seen \in Observations => ObservedStep(disk, r)
    BY Zenon, <2>1, ObserveDelivers DEF Inv
  <2>3. \/ UNCHANGED disk
        \/ seen \in Observations /\ \E r \in Observe(disk, c, g, seen) : disk' = r.disk
    BY Zenon, <1>6 DEF Recover
  <2>4. Journals BY Zenon, <2>2, <2>3 DEF Journals, ObservedStep
  <2>5. QED BY Zenon, <1>6, <2>4 DEF Recover
<1>7. ASSUME \/ \E k \in Callers, c \in Containers : Query(k, c)
             \/ \E c \in Containers, g \in 1 .. MaxGeneration : ProcessExits(c, g)
             \/ Crash \/ Open \/ Serve
             \/ UNCHANGED vars
      PROVE  UNCHANGED <<disk, replay, executed>>
  BY Zenon, <1>7 DEF Query, ProcessExits, Crash, Open, Serve, vars
<1>8. UNCHANGED disk => Journals BY Zenon DEF Journals
<1>9. QED BY Zenon, <1>1, <1>2, <1>3, <1>4, <1>5, <1>6, <1>7, <1>8 DEF Next

-----------------------------------------------------------------------------
(* Theorems.                                                                 *)

\* The inductive invariant holds of every behaviour.
THEOREM InvHolds == Spec => []Inv
<1>1. QED BY InitInv, NextInv, PTL DEF Spec

\* Every variable keeps its type; in particular no fault exceeds the budget and
\* no generation exceeds the bound (next_generation refuses at the limit).
THEOREM TypeCorrect == Spec => []TypeOK
<1>1. Inv => TypeOK BY Zenon DEF Inv
<1>2. QED BY <1>1, InvHolds, PTL

\* The driver carries an operation out at most once.
THEOREM EffectOnceHolds == Spec => []EffectOnce
<1>1. Inv => EffectOnce BY Zenon DEF Inv, Evidence, EffectOnce
<1>2. QED BY <1>1, InvHolds, PTL

\* acknowledge_operation is called for decided operations only, and a released
\* operation is not dispatched again.
THEOREM ReleasedIsDecidedHolds == Spec => []ReleasedIsDecided
<1>1. Inv => ReleasedIsDecided BY Zenon DEF Inv, Evidence, Held, ReleasedIsDecided
<1>2. QED BY <1>1, InvHolds, PTL

\* Whatever is cut short, a claim names an operation that can release it.
THEOREM ClaimsAreRecoverableHolds == Spec => []ClaimsAreRecoverable
<1>1. Inv => ClaimsAreRecoverable BY Zenon DEF Inv, Sound, Claims, ClaimsAreRecoverable
<1>2. QED BY <1>1, InvHolds, PTL

\* Operations are fenced by allocated generations, one creation for each.
THEOREM OperationsAreFencedHolds == Spec => []OperationsAreFenced
<1>1. Inv => OperationsAreFenced BY Zenon DEF Inv, Sound, Fenced, OperationsAreFenced
<1>2. QED BY <1>1, InvHolds, PTL

\* A success is journaled after its events.
THEOREM SucceededIsAnnouncedHolds == Spec => []SucceededIsAnnounced
<1>1. Inv => SucceededIsAnnounced BY Zenon DEF Inv, Sound, Announced, SucceededIsAnnounced
<1>2. QED BY <1>1, InvHolds, PTL

\* A decided operation is never decided again: no handler, observation or
\* recovery step rewrites its journal entry.
THEOREM OutcomeIsFinalHolds == Spec => OutcomeIsFinal
<1>1. Inv /\ [Next]_vars =>
        [\A o \in Operations :
            IsDecided(Outcome(disk, o)) => disk'.journal[o] = disk.journal[o]]_vars
  <2> SUFFICES ASSUME Inv, [Next]_vars, NEW o \in Operations, IsDecided(Outcome(disk, o))
               PROVE  disk'.journal[o] = disk.journal[o]
    BY Zenon
  <2>1. CASE Journals
    <3>1. disk'.journal = disk.journal \/ Advances(disk, disk')
      BY Zenon, <2>1, StepAdvances DEF Journals
    <3>2. QED BY Zenon, <3>1 DEF Advances
  <2>2. CASE Fails
    <3>1. Advances(disk, disk') BY Zenon, <2>2, StepAdvances DEF Fails
    <3>2. QED BY Zenon, <3>1 DEF Advances
  <2>3. QED BY Zenon, <2>1, <2>2, StepKinds
<1>2. QED BY <1>1, InvHolds, PTL DEF Spec, OutcomeIsFinal

\* The contract's variables are what the service makes of its own.
LEMMA ContractInit == Init => Contract!Init
<1> SUFFICES ASSUME Init PROVE Contract!Init BY Zenon
<1>1. \A o \in Operations : Outcome(disk, o) = "absent" BY Zenon DEF Init, EmptyDisk, Outcome
<1>2. \A o \in Operations : replay[o] = "none" BY Zenon DEF Init
<1>3. "none" \notin Replies BY Zenon DEF Replies, Observations
<1>4. QED BY Zenon, <1>1, <1>2, <1>3 DEF Init, Contract!Init

\* Every step of the service is a step of the contract, or stutters.
LEMMA ContractStep ==
  ASSUME Inv, Inv', [Next]_vars
  PROVE  [Contract!Next]_(Contract!vars)
<1> DEFINE outcome == [o \in Operations |-> Outcome(disk, o)]
           kept(record) == IF record \in Replies THEN "kept" ELSE record
           evidence == [o \in Operations |-> kept(replay[o])]
<1>1. ASSUME disk'.journal = disk.journal PROVE outcome' = outcome
  BY Zenon, <1>1 DEF Outcome
<1>2. UNCHANGED replay => evidence' = evidence BY Zenon
<1>3. ASSUME NEW o \in Operations, NEW ends, JournalStep(disk, disk', o, ends)
      PROVE  \/ outcome' = outcome
             \/ outcome[o] = "absent" /\ outcome' = [outcome EXCEPT ![o] = "prepared"]
             \/ /\ outcome[o] = "prepared"
                /\ \E e \in ends : outcome' = [outcome EXCEPT ![o] = e]
  <2>1. \A p \in Operations \ {o} : Outcome(disk', p) = Outcome(disk, p)
    BY Zenon, <1>3 DEF JournalStep, Outcome
  <2>2. ASSUME NEW e, Outcome(disk', o) = e PROVE outcome' = [outcome EXCEPT ![o] = e]
    BY Zenon, <2>1, <2>2
  <2>3. CASE disk'.journal[o] = disk.journal[o]
    <3>1. Outcome(disk', o) = Outcome(disk, o) BY Zenon, <2>3 DEF Outcome
    <3>2. QED BY Zenon, <2>1, <3>1
  <2>4. CASE Outcome(disk, o) = "absent" /\ Outcome(disk', o) = "prepared"
    BY Zenon, <2>2, <2>4
  <2>5. CASE Outcome(disk, o) = "prepared" /\ Outcome(disk', o) \in ends
    BY Zenon, <2>2, <2>5
  <2>6. QED BY Zenon, <1>3, <2>3, <2>4, <2>5 DEF JournalStep
<1>4. CASE Journals /\ UNCHANGED <<replay, executed>>
  <2>1. evidence' = evidence /\ executed' = executed BY Zenon, <1>2, <1>4
  <2>2. CASE disk'.journal = disk.journal
    BY Zenon, <1>1, <2>1, <2>2 DEF Contract!vars
  <2>3. CASE \E o \in Operations : JournalStep(disk, disk', o, {"succeeded"})
    <3>1. PICK o \in Operations : JournalStep(disk, disk', o, {"succeeded"}) BY Zenon, <2>3
    <3>2. CASE outcome' = outcome BY Zenon, <2>1, <3>2 DEF Contract!vars
    <3>3. CASE outcome[o] = "absent" /\ outcome' = [outcome EXCEPT ![o] = "prepared"]
      BY Zenon, <2>1, <3>3 DEF Contract!Next, Contract!Accept
    <3>4. CASE outcome[o] = "prepared" /\ outcome' = [outcome EXCEPT ![o] = "succeeded"]
      BY Zenon, <2>1, <3>4 DEF Contract!Next, Contract!Succeed
    <3>5. \/ outcome' = outcome
          \/ outcome[o] = "absent" /\ outcome' = [outcome EXCEPT ![o] = "prepared"]
          \/ outcome[o] = "prepared" /\ outcome' = [outcome EXCEPT ![o] = "succeeded"]
      <4> HIDE DEF outcome, evidence
      <4>1. \/ outcome' = outcome
            \/ outcome[o] = "absent" /\ outcome' = [outcome EXCEPT ![o] = "prepared"]
            \/ /\ outcome[o] = "prepared"
               /\ \E e \in {"succeeded"} : outcome' = [outcome EXCEPT ![o] = e]
        BY SMTT(30), <1>3, <3>1
      <4>2. QED BY Zenon, <4>1
    <3>6. QED BY Zenon, <3>2, <3>3, <3>4, <3>5
  <2>4. QED BY Zenon, <1>4, <2>2, <2>3 DEF Journals
<1>5. CASE Fails /\ UNCHANGED <<replay, executed>>
  <2>1. evidence' = evidence /\ executed' = executed BY Zenon, <1>2, <1>5
  <2>2. PICK o \in Operations : JournalStep(disk, disk', o, {"failed"}) /\ replay[o] = "refused"
    BY Zenon, <1>5 DEF Fails
  <2>3. evidence[o] = "kept" /\ executed[o] = 0
    BY Zenon, <2>2 DEF Inv, Evidence, Replies
  <2>4. CASE outcome' = outcome BY Zenon, <2>1, <2>4 DEF Contract!vars
  <2>5. CASE outcome[o] = "absent" /\ outcome' = [outcome EXCEPT ![o] = "prepared"]
    BY Zenon, <2>1, <2>5 DEF Contract!Next, Contract!Accept
  <2>6. CASE outcome[o] = "prepared" /\ outcome' = [outcome EXCEPT ![o] = "failed"]
    BY Zenon, <2>1, <2>3, <2>6 DEF Contract!Next, Contract!Fail
  <2>7. \/ outcome' = outcome
        \/ outcome[o] = "absent" /\ outcome' = [outcome EXCEPT ![o] = "prepared"]
        \/ outcome[o] = "prepared" /\ outcome' = [outcome EXCEPT ![o] = "failed"]
    <3> HIDE DEF outcome, evidence
    <3>1. \/ outcome' = outcome
          \/ outcome[o] = "absent" /\ outcome' = [outcome EXCEPT ![o] = "prepared"]
          \/ /\ outcome[o] = "prepared"
             /\ \E e \in {"failed"} : outcome' = [outcome EXCEPT ![o] = e]
      BY Zenon, <1>3, <2>2
    <3>2. QED BY Zenon, <3>1
  <2>8. QED BY Zenon, <2>4, <2>5, <2>6, <2>7
<1>6. CASE Answers /\ UNCHANGED disk
  <2>1. outcome' = outcome BY Zenon, <1>6
  <2>2. PICK o \in Operations, reply \in Replies :
           /\ Outcome(disk, o) # "absent"
           /\ replay[o] = "none"
           /\ replay' = [replay EXCEPT ![o] = reply]
           /\ UNCHANGED executed \/ executed' = [executed EXCEPT ![o] = @ + 1]
    BY Zenon, <1>6 DEF Answers
  <2>3. replay \in [Operations -> ReplayRecords] BY Zenon DEF Inv, TypeOK
  <2>4. evidence' = [evidence EXCEPT ![o] = "kept"] BY Zenon, <2>2, <2>3
  <2>5. outcome[o] # "absent" /\ evidence[o] = "none"
    BY Zenon, <2>2 DEF Replies, Observations
  <2> HIDE DEF outcome, evidence
  <2>6. QED BY Zenon, <2>1, <2>2, <2>4, <2>5 DEF Contract!Next, Contract!Answer, outcome, evidence
<1>7. CASE Forgets /\ UNCHANGED disk
  <2>1. outcome' = outcome BY Zenon, <1>7
  <2>2. PICK o \in Operations :
           /\ IsDecided(Outcome(disk, o))
           /\ replay' = [replay EXCEPT ![o] = "released"]
           /\ UNCHANGED executed
    BY Zenon, <1>7 DEF Forgets
  <2>3. replay \in [Operations -> ReplayRecords] /\ "released" \notin Replies
    BY Zenon DEF Inv, TypeOK, Replies, Observations
  <2>4. evidence' = [evidence EXCEPT ![o] = "released"] BY Zenon, <2>2, <2>3
  <2>5. outcome[o] \in {"succeeded", "failed"} BY Zenon, <2>2 DEF IsDecided
  <2>6. QED BY Zenon, <2>1, <2>2, <2>4, <2>5 DEF Contract!Next, Contract!Release, Contract!Decided
<1>8. QED BY Zenon, <1>4, <1>5, <1>6, <1>7, StepKinds

\* The service, with its crashes, torn writes, lost replies, repeated requests
\* and concurrent callers, implements the contract of an operation ID.
THEOREM Implementation == Spec => ImplementsContract
<1>1. QED
  BY ContractInit, ContractStep, InvHolds, PTL DEF Spec, ImplementsContract, Contract!Spec
==============================================================================
