------------------------- MODULE JournalTaskProofs -------------------------
(* The event journal, the task of the shim and its execs, for any number of  *)
(* events, pollers, deletes, callers and incarnations.  The three are        *)
(* separate specifications; each has its inductive invariant, JournalInv,    *)
(* TaskInv and ExecInv, and its theorems.                                    *)
EXTENDS EventJournal, ShimTask, ShimExec, FiniteSetTheorems, WellFoundedInduction, TLAPS

-----------------------------------------------------------------------------
(* Least and greatest elements.                                              *)

\* A non-empty set of naturals has a least element.
LEMMA LeastNatural ==
    ASSUME NEW T \in SUBSET Nat, T # {}
    PROVE  \E m \in T : \A y \in T : m <= y
<1>1. PICK m \in T : \A y \in T : ~(<<y, m>> \in OpToRel(<, Nat))
  BY Zenon, NatLessThanWellFounded, WFMin
<1>2. \A y \in T : ~(y < m)
  BY Zenon, <1>1 DEF OpToRel
<1> QED BY <1>2

\* Max of a bounded non-empty set of naturals is its greatest element.
LEMMA GreatestNatural ==
    ASSUME NEW T \in SUBSET Nat, T # {}, NEW b \in Nat, \A x \in T : x <= b
    PROVE  Max(T) \in T /\ \A x \in T : x <= Max(T)
<1> DEFINE U == {n \in Nat : b - n \in T}
<1>1. U \in SUBSET Nat /\ U # {}
  <2>1. PICK x \in T : TRUE
    BY Zenon
  <2>2. b - x \in Nat /\ b - (b - x) = x
    BY <2>1
  <2> QED BY Zenon, <2>1, <2>2
<1>2. PICK m \in U : \A y \in U : m <= y
  BY Zenon, <1>1, LeastNatural
<1>3. b - m \in T
  BY Zenon, <1>2
<1>4. \A x \in T : b - m >= x
  <2> TAKE x \in T
  <2>1. b - x \in Nat /\ b - (b - x) = x
    OBVIOUS
  <2>2. m <= b - x
    BY Zenon, <1>2, <2>1
  <2> QED BY <1>2, <2>1, <2>2
<1>5. \E x \in T : \A y \in T : x >= y
  BY Zenon, <1>3, <1>4
<1>6. Max(T) \in T /\ \A y \in T : Max(T) >= y
  BY Zenon, <1>5 DEF Max
<1> QED BY Zenon, <1>6

-----------------------------------------------------------------------------
(* A batch: the first elements of what is pending.                           *)

First(P, n) == {s \in P : Cardinality({t \in P : t <= s}) <= n}

\* A batch is closed downwards: no pending sequence is skipped.
LEMMA FirstIsPrefix ==
    ASSUME NEW N \in Nat, NEW P \in SUBSET (1 .. N), NEW n \in Nat,
           NEW s \in P, NEW t \in First(P, n), s <= t
    PROVE  s \in First(P, n)
<1> DEFINE D(x) == {y \in P : y <= x}
<1>1. IsFiniteSet(D(t))
  <2>1. IsFiniteSet(1 .. N)
    BY FS_Interval
  <2> QED BY Zenon, <2>1, FS_Subset
<1>2. D(s) \in SUBSET D(t)
  <2>1. t \in P /\ \A y \in P : y \in Nat
    BY DEF First
  <2>2. ASSUME NEW y \in P, y <= s PROVE y <= t
    <3>1. y \in Nat /\ s \in Nat /\ t \in Nat
      BY Zenon, <2>1
    <3> QED BY <2>2, <3>1
  <2> QED BY Zenon, <2>2
<1>3. Cardinality(D(s)) <= Cardinality(D(t)) /\ Cardinality(D(t)) <= n
  BY Zenon, <1>1, <1>2, FS_Subset DEF First
<1>4. Cardinality(D(s)) \in Nat /\ Cardinality(D(t)) \in Nat
  BY Zenon, <1>1, <1>2, FS_Subset, FS_CardinalityType
<1> QED BY <1>3, <1>4 DEF First

\* It is everything, or it is full.
LEMMA FirstIsFull ==
    ASSUME NEW N \in Nat, NEW P \in SUBSET (1 .. N), NEW n \in Nat \ {0}
    PROVE  First(P, n) = P \/ Cardinality(First(P, n)) = n
<1> DEFINE B == First(P, n)
           D(x) == {y \in P : y <= x}
<1>1. IsFiniteSet(P) /\ B \subseteq P /\ IsFiniteSet(B) /\ Cardinality(B) \in Nat
  <2>1. IsFiniteSet(1 .. N)
    BY FS_Interval
  <2>2. IsFiniteSet(P) /\ B \in SUBSET P
    BY Zenon, <2>1, FS_Subset DEF First
  <2> HIDE DEF B
  <2> QED BY Zenon, <2>2, FS_Subset, FS_CardinalityType
<1>2. SUFFICES ASSUME P \ B # {} PROVE Cardinality(B) = n
  BY Zenon, <1>1
<1>3. PICK m \in P \ B : \A y \in P \ B : m <= y
  <2> HIDE DEF B
  <2>1. \A y \in P \ B : y \in Nat
    OBVIOUS
  <2> DEFINE T == P \ B
  <2>2. T \in SUBSET Nat /\ T # {}
    BY Zenon, <1>2, <2>1
  <2> HIDE DEF T
  <2>3. \E x \in T : \A y \in T : x <= y
    BY Zenon, <2>2, LeastNatural
  <2> QED BY Zenon, <2>3 DEF T
<1>4. D(m) = B \cup {m}
  <2>1. ASSUME NEW y \in P, y <= m PROVE y \in B \cup {m}
    BY <1>3, <2>1
  <2>2. ASSUME NEW y \in B PROVE y <= m
    <3>1. CASE m <= y
      BY Zenon, <1>1, <1>3, <3>1, FirstIsPrefix
    <3>2. y \in 1 .. N /\ m \in 1 .. N
      BY Zenon, <1>1
    <3> QED BY <3>1, <3>2
  <2> QED BY Zenon, <1>1, <1>3, <2>1, <2>2
<1>5. Cardinality(D(m)) = Cardinality(B) + 1
  <2> HIDE DEF B, D
  <2> QED BY ZenonT(40), <1>1, <1>3, <1>4, FS_AddElement
<1>6. ~(Cardinality(D(m)) <= n)
  BY Zenon, <1>3 DEF First
<1>7. Cardinality(B) <= n
  <2>1. CASE B = {}
    BY <2>1, FS_EmptySet
  <2>2. CASE B # {}
    <3>1. Max(B) \in B /\ \A x \in B : x <= Max(B)
      <4> HIDE DEF B
      <4>1. B \in SUBSET Nat /\ \A x \in B : x <= N
        BY <1>1
      <4> QED BY Zenon, <2>2, <4>1, GreatestNatural
    <3>2. D(Max(B)) = B
      <4>1. ASSUME NEW y \in P, y <= Max(B) PROVE y \in B
        BY Zenon, <3>1, <4>1, FirstIsPrefix
      <4> QED BY Zenon, <1>1, <3>1, <4>1
    <3>3. Cardinality(D(Max(B))) <= n
      BY Zenon, <3>1 DEF First
    <3> QED BY Zenon, <3>2, <3>3
  <2> QED BY Zenon, <2>1, <2>2
<1> QED BY <1>1, <1>5, <1>6, <1>7

\* What a poll returns, and where its cursor ends: the batch is what is pending
\* up to there, and the cursor stays within the journal.
LEMMA BatchEndsAtCursor ==
    ASSUME NEW p, NEW after \in 0 .. MaxSequence, sequence \in 0 .. MaxSequence,
           after <= sequence, \A s \in Pending(p, after) : s <= sequence
    PROVE  LET next == NextSequence(p, after)
           IN  /\ next \in after .. sequence
               /\ Batch(p, after) = {s \in Pending(p, after) : s <= next}
               /\ Batch(p, after) = {} => next = sequence
<1> DEFINE P == Pending(p, after)
           B == Batch(p, after)
           next == NextSequence(p, after)
<1>1. P \in SUBSET (1 .. MaxSequence) /\ \A s \in P : s > after
  BY Zenon DEF Pending, Sequences
<1>2. B = First(P, Limit) /\ B \subseteq P
  BY Zenon DEF Batch, First
<1> HIDE DEF P, B
<1>3. CASE Cardinality(B) = Limit
  <2>1. next = Max(B) /\ B # {}
    BY Zenon, <1>3, JournalAssumption, FS_EmptySet DEF NextSequence, B
  <2>2. Max(B) \in B /\ \A x \in B : x <= Max(B)
    BY <1>1, <1>2, <2>1, JournalAssumption, GreatestNatural
  <2>3. ASSUME NEW s \in P, s <= next PROVE s \in B
    BY Zenon, <1>1, <1>2, <2>1, <2>2, <2>3, JournalAssumption, FirstIsPrefix
  <2>4. next \in after .. sequence
    BY <1>1, <1>2, <2>1, <2>2, JournalAssumption DEF P
  <2>5. B = {s \in P : s <= next}
    BY Zenon, <1>2, <2>1, <2>2, <2>3
  <2> HIDE DEF next
  <2> QED BY Zenon, <2>1, <2>4, <2>5 DEF P, B, next
<1>4. CASE Cardinality(B) # Limit
  <2>1. B = P
    BY Zenon, <1>1, <1>2, <1>4, JournalAssumption, FirstIsFull
  <2>2. next = Max({after, sequence})
    BY Zenon, <1>4 DEF NextSequence, B
  <2>3. Max({after, sequence}) = sequence
    <3>1. /\ Max({after, sequence}) \in {after, sequence}
          /\ \A x \in {after, sequence} : x <= Max({after, sequence})
      BY GreatestNatural, JournalAssumption
    <3> QED BY <3>1
  <2>4. \A s \in P : s <= next
    BY Zenon, <2>2, <2>3 DEF P
  <2> HIDE DEF next
  <2>5. next \in after .. sequence /\ B = {s \in P : s <= next}
    BY <2>1, <2>2, <2>3, <2>4
  <2> QED BY Zenon, <2>2, <2>3, <2>5 DEF P, B, next
<1> QED BY Zenon, <1>3, <1>4

-----------------------------------------------------------------------------
(* The journal.                                                              *)

\* What a poll in progress may rely on: its cursor is within the journal and no
\* event it should return lies between its client's cursor and its own.
Cursors ==
    \A p \in Pollers :
        /\ client[p] <= sequence
        /\ \A s \in Sequences : s > client[p] => seen[p][s] = 0
        /\ poll[p].stage # "idle" =>
              /\ client[p] <= poll[p].after /\ poll[p].after <= sequence
              /\ \A i \in Matches[p] : claim[i] <= client[p] \/ claim[i] > poll[p].after

Claimed == \A i \in announced : claim[i] # 0

JournalInv ==
    /\ TypeOK /\ AuditEventJournal /\ Claimed
    /\ Cursors /\ ReceivedExactlyOnce /\ NoLostWakeup

\* An empty journal satisfies the invariant.
LEMMA JournalInitially == Init => JournalInv
<1> SUFFICES ASSUME Init PROVE JournalInv
  BY Zenon
<1>1. TypeOK
  BY JournalAssumption DEF Init, TypeOK, Idle
<1>2. AuditEventJournal /\ Claimed
  BY JournalAssumption DEF Init, AuditEventJournal, Claimed, Sequences
<1>3. Cursors
  BY JournalAssumption DEF Init, Cursors, Idle, Sequences
<1>4. ReceivedExactlyOnce /\ NoLostWakeup
  BY Zenon, JournalAssumption DEF Init, ReceivedExactlyOnce, NoLostWakeup, Idle
<1> QED BY Zenon, <1>1, <1>2, <1>3, <1>4 DEF JournalInv

\* A fault is counted within its bound.
LEMMA FaultCounted == ASSUME TypeOK, Fault PROVE faults' \in 0 .. MaxFaults
BY JournalAssumption DEF TypeOK, Fault

\* A record that is written is the one its claim asks for.
LEMMA RecordOfClaim ==
    ASSUME TypeOK, AuditEventJournal, NEW i \in Identities, claim[i] # 0
    PROVE  /\ claim[i] \in Sequences
           /\ record[claim[i]] \in {i, Nobody}
<1>1. claim[i] \in Sequences
  BY JournalAssumption DEF TypeOK, Sequences
<1>2. CASE record[claim[i]] # Nobody
  <2>1. record[claim[i]] \in Identities /\ claim[record[claim[i]]] = claim[i]
    BY Zenon, <1>1, <1>2 DEF TypeOK, AuditEventJournal
  <2> QED BY Zenon, <1>1, <2>1 DEF AuditEventJournal
<1> QED BY Zenon, <1>1, <1>2

\* The repair writes missing records and changes none.
LEMMA RepairedRecords ==
    ASSUME TypeOK, AuditEventJournal, NEW s \in Sequences
    PROVE  /\ Repaired[s] \in Identities \cup {Nobody}
           /\ Repaired[s] # Nobody => s <= sequence /\ claim[Repaired[s]] = s
           /\ record[s] # Nobody => Repaired[s] = record[s]
           /\ \A i \in Identities : claim[i] = s => Repaired[s] = i
<1>1. CASE \E i \in Identities : claim[i] = s
  <2>1. PICK i \in Identities : claim[i] = s
    BY Zenon, <1>1
  <2>2. \A j \in Identities : claim[j] = s => j = i
    BY <2>1, JournalAssumption DEF AuditEventJournal, Sequences
  <2>3. Repaired[s] = i
    BY Zenon, <1>1, <2>1, <2>2 DEF Repaired
  <2>4. i # Nobody
    BY Zenon, JournalAssumption
  <2>5. record[s] \in {i, Nobody}
    BY <2>1, RecordOfClaim, JournalAssumption DEF Sequences
  <2>6. s <= sequence
    BY Zenon, <2>1 DEF AuditEventJournal
  <2> QED BY Zenon, <2>1, <2>2, <2>3, <2>4, <2>5, <2>6
<1>2. CASE ~\E i \in Identities : claim[i] = s
  <2>1. Repaired[s] = record[s]
    BY Zenon, <1>2 DEF Repaired
  <2> QED BY Zenon, <1>2, <2>1 DEF TypeOK, AuditEventJournal
<1> QED BY Zenon, <1>1, <1>2

-----------------------------------------------------------------------------
(* Appends.                                                                  *)

\* A poll that has been notified or not.
Notified == \A p \in Pollers : /\ poll'[p].stage = poll[p].stage
                               /\ poll'[p].after = poll[p].after
                               /\ poll'[p].notified \/ poll'[p].notified = poll[p].notified

\* notify_waiters marks polls as notified and changes nothing else of them.
LEMMA NotifyKeeps ==
    ASSUME TypeOK, NotifyWaiters
    PROVE  /\ poll' \in [Pollers -> [stage : {"idle", "registered", "waiting"},
                                     after : 0 .. MaxSequence, notified : BOOLEAN]]
           /\ Notified
           /\ \A p \in Pollers : poll'[p].stage # "idle" => poll'[p].notified
BY ZenonT(30) DEF TypeOK, NotifyWaiters, Notified

\* A new sequence, and perhaps its claim and its record.
LEMMA NewSequence ==
    ASSUME JournalInv, NEW i \in Identities, claim[i] = 0, sequence < MaxSequence,
           sequence' = sequence + 1,
           \/ claim' = claim /\ record' = record
           \/ /\ claim' = [claim EXCEPT ![i] = sequence']
              /\ record' \in {record, [record EXCEPT ![sequence'] = i]},
           Notified, UNCHANGED <<client, seen>>
    PROVE  /\ sequence' \in 0 .. MaxSequence
           /\ claim' \in [Identities -> 0 .. MaxSequence]
           /\ record' \in [Sequences -> Identities \cup {Nobody}]
           /\ AuditEventJournal' /\ Cursors' /\ ReceivedExactlyOnce'
           /\ \A j \in Identities : claim[j] # 0 => claim'[j] = claim[j]
           /\ \A s \in Sequences : record[s] # Nobody => record'[s] = record[s]
<1>1. /\ sequence \in 0 .. MaxSequence /\ sequence' \in Sequences /\ TypeOK /\ MaxSequence \in Nat
  BY JournalAssumption DEF JournalInv, TypeOK, Sequences
<1>2. \A j \in Identities : /\ claim[j] \in 0 .. sequence
                            /\ claim'[j] = claim[j] \/ (j = i /\ claim'[j] = sequence')
  BY <1>1 DEF JournalInv, TypeOK, AuditEventJournal
<1>3. record[sequence'] = Nobody
  BY <1>1 DEF JournalInv, AuditEventJournal
<1>4. \A s \in Sequences : \/ record'[s] = record[s]
                           \/ s = sequence' /\ record'[s] = i /\ claim'[i] = sequence'
  <2>1. CASE record' = record
    BY Zenon, <2>1
  <2>2. CASE claim' = [claim EXCEPT ![i] = sequence'] /\ record' = [record EXCEPT ![sequence'] = i]
    <3>1. claim'[i] = sequence'
      BY Zenon, <1>1, <2>2 DEF TypeOK
    <3>2. \A s \in Sequences : record'[s] = IF s = sequence' THEN i ELSE record[s]
      BY Zenon, <1>1, <2>2 DEF TypeOK
    <3> QED BY Zenon, <3>1, <3>2
  <2> QED BY Zenon, <2>1, <2>2
<1>5. claim' \in [Identities -> 0 .. MaxSequence]
  <2>1. claim \in [Identities -> 0 .. MaxSequence] /\ sequence' \in 0 .. MaxSequence
    BY <1>1 DEF TypeOK, Sequences
  <2> QED BY Zenon, <2>1
<1>6. record' \in [Sequences -> Identities \cup {Nobody}]
  BY Zenon, <1>1 DEF TypeOK
<1>7. \A j \in Identities : claim[j] # 0 => claim'[j] = claim[j]
  BY Zenon, <1>2
<1>8. AuditEventJournal'
  <2>1. \A j \in Identities : claim'[j] <= sequence'
    BY <1>1, <1>2
  <2>2. ASSUME NEW j \in Identities, NEW k \in Identities, j # k, claim'[j] = claim'[k]
        PROVE  claim'[j] = 0
    BY <1>1, <1>2, <2>2 DEF JournalInv, AuditEventJournal
  <2>3. ASSUME NEW s \in Sequences, record'[s] # Nobody
        PROVE  s <= sequence' /\ claim'[record'[s]] = s
    <3>1. CASE record'[s] = record[s]
      <4>1. record[s] \in Identities /\ s <= sequence /\ claim[record[s]] = s /\ s # 0 /\ s \in Nat
        BY <1>1, <2>3, <3>1 DEF JournalInv, TypeOK, AuditEventJournal, Sequences
      <4> QED BY <1>1, <1>7, <3>1, <4>1
    <3>2. CASE s = sequence' /\ record'[s] = i /\ claim'[i] = sequence'
      BY <1>1, <3>2 DEF Sequences
    <3> QED BY Zenon, <1>4, <3>1, <3>2
  <2> QED BY Zenon, <2>1, <2>2, <2>3 DEF AuditEventJournal
<1>9. Cursors'
  <2> SUFFICES ASSUME NEW p \in Pollers
               PROVE  /\ client[p] <= sequence'
                      /\ \A s \in Sequences : s > client[p] => seen[p][s] = 0
                      /\ poll'[p].stage # "idle" =>
                            /\ client[p] <= poll'[p].after /\ poll'[p].after <= sequence'
                            /\ \A j \in Matches[p] :
                                  claim'[j] <= client[p] \/ claim'[j] > poll'[p].after
    BY Zenon DEF Cursors
  <2>1. client[p] \in Nat /\ poll[p].after \in Nat
    BY <1>1 DEF TypeOK
  <2>2. /\ client[p] <= sequence
        /\ \A s \in Sequences : s > client[p] => seen[p][s] = 0
        /\ poll[p].stage # "idle" =>
              /\ client[p] <= poll[p].after /\ poll[p].after <= sequence
              /\ \A j \in Matches[p] : claim[j] <= client[p] \/ claim[j] > poll[p].after
    BY Zenon DEF JournalInv, Cursors
  <2>3. Matches[p] \subseteq Identities
    BY Zenon, JournalAssumption
  <2>4. poll'[p].stage = poll[p].stage /\ poll'[p].after = poll[p].after
    BY Zenon DEF Notified
  <2> QED BY <1>1, <1>2, <2>1, <2>2, <2>3, <2>4
<1>10. ReceivedExactlyOnce'
  <2> SUFFICES ASSUME NEW p \in Pollers, NEW j \in Identities, claim'[j] # 0
               PROVE  seen[p][claim'[j]] =
                         IF claim'[j] <= client[p] /\ j \in Matches[p] THEN 1 ELSE 0
    BY Zenon DEF ReceivedExactlyOnce
  <2>1. CASE claim'[j] = claim[j]
    BY Zenon, <2>1 DEF JournalInv, ReceivedExactlyOnce
  <2>2. CASE claim'[j] = sequence'
    <3>1. client[p] <= sequence /\ client[p] \in Nat
      BY <1>1 DEF JournalInv, Cursors, TypeOK
    <3>2. sequence' > client[p] /\ ~(sequence' <= client[p])
      BY <1>1, <3>1
    <3>3. seen[p][sequence'] = 0
      BY Zenon, <1>1, <3>2 DEF JournalInv, Cursors
    <3> QED BY Zenon, <2>2, <3>2, <3>3
  <2> QED BY Zenon, <1>2, <2>1, <2>2
<1>11. \A s \in Sequences : record[s] # Nobody => record'[s] = record[s]
  BY Zenon, <1>3, <1>4
<1> QED BY <1>1, <1>5, <1>6, <1>7, <1>8, <1>9, <1>10, <1>11 DEF Sequences

\* The record of a claim is written again, or for the first time.
LEMMA OldSequence ==
    ASSUME JournalInv, NEW i \in Identities, claim[i] # 0,
           record' = [record EXCEPT ![claim[i]] = i], UNCHANGED <<sequence, claim, client, seen>>,
           Notified
    PROVE  /\ record' \in [Sequences -> Identities \cup {Nobody}]
           /\ AuditEventJournal' /\ Cursors' /\ ReceivedExactlyOnce'
           /\ \A s \in Sequences : record[s] # Nobody => record'[s] = record[s]
<1>1. TypeOK /\ claim[i] \in Sequences /\ record[claim[i]] \in {i, Nobody}
  BY Zenon, RecordOfClaim DEF JournalInv
<1>2. \A s \in Sequences : record'[s] = IF s = claim[i] THEN i ELSE record[s]
  BY Zenon, <1>1 DEF TypeOK
<1>3. record' \in [Sequences -> Identities \cup {Nobody}]
  BY Zenon, <1>1 DEF TypeOK
<1>4. AuditEventJournal'
  BY <1>2 DEF JournalInv, AuditEventJournal
<1>5. Cursors' /\ ReceivedExactlyOnce'
  BY Zenon DEF JournalInv, Cursors, ReceivedExactlyOnce, Notified
<1> QED BY Zenon, <1>1, <1>2, <1>3, <1>4, <1>5

\* What every step keeps: the sequences that were given out.
Forever ==
    /\ \A i \in Identities : claim[i] # 0 => claim'[i] = claim[i]
    /\ \A s \in Sequences : record[s] # Nobody => record'[s] = record[s]

\* An append that takes the next sequence for a new event.
LEMMA AppendNewStep ==
    ASSUME JournalInv, NEW i \in Identities, AppendNew(i) PROVE JournalInv' /\ Forever
<1>1. /\ claim[i] = 0 /\ sequence < MaxSequence /\ sequence' = sequence + 1
      /\ claim' = [claim EXCEPT ![i] = sequence']
      /\ record' = [record EXCEPT ![sequence'] = i]
      /\ announced' = announced \cup {i} /\ NotifyWaiters /\ UNCHANGED <<up, client, seen, faults>>
  BY Zenon DEF AppendNew
<1>2. /\ TypeOK
      /\ poll' \in [Pollers -> [stage : {"idle", "registered", "waiting"},
                                after : 0 .. MaxSequence, notified : BOOLEAN]]
      /\ Notified /\ \A p \in Pollers : poll'[p].stage # "idle" => poll'[p].notified
  BY Zenon, <1>1, NotifyKeeps DEF JournalInv
<1>3. /\ sequence' \in 0 .. MaxSequence
      /\ claim' \in [Identities -> 0 .. MaxSequence]
      /\ record' \in [Sequences -> Identities \cup {Nobody}]
      /\ AuditEventJournal' /\ Cursors' /\ ReceivedExactlyOnce'
      /\ \A j \in Identities : claim[j] # 0 => claim'[j] = claim[j]
      /\ \A s \in Sequences : record[s] # Nobody => record'[s] = record[s]
  BY Zenon, <1>1, <1>2, NewSequence
<1>4. TypeOK'
  BY Zenon, <1>1, <1>2, <1>3 DEF TypeOK
<1>5. Claimed'
  <2>1. claim'[i] # 0
    BY <1>1, <1>2 DEF TypeOK
  <2> QED BY Zenon, <1>1, <1>2, <1>3, <2>1 DEF JournalInv, Claimed, TypeOK
<1>6. NoLostWakeup'
  BY Zenon, <1>2 DEF NoLostWakeup
<1> QED BY Zenon, <1>3, <1>4, <1>5, <1>6 DEF JournalInv, Forever

\* An append of an event whose claim exists: it writes or finds its record.
LEMMA AppendAgainStep ==
    ASSUME JournalInv, NEW i \in Identities, AppendAgain(i) PROVE JournalInv' /\ Forever
<1>1. /\ claim[i] # 0 /\ record' = [record EXCEPT ![claim[i]] = i]
      /\ announced' = announced \cup {i} /\ NotifyWaiters
      /\ UNCHANGED <<sequence, claim, up, client, seen, faults>>
  BY Zenon DEF AppendAgain
<1>2. /\ TypeOK
      /\ poll' \in [Pollers -> [stage : {"idle", "registered", "waiting"},
                                after : 0 .. MaxSequence, notified : BOOLEAN]]
      /\ Notified /\ \A p \in Pollers : poll'[p].stage # "idle" => poll'[p].notified
  BY Zenon, <1>1, NotifyKeeps DEF JournalInv
<1>3. /\ record' \in [Sequences -> Identities \cup {Nobody}]
      /\ AuditEventJournal' /\ Cursors' /\ ReceivedExactlyOnce'
      /\ \A s \in Sequences : record[s] # Nobody => record'[s] = record[s]
  BY Zenon, <1>1, <1>2, OldSequence
<1>4. TypeOK'
  BY Zenon, <1>1, <1>2, <1>3 DEF TypeOK
<1>5. Claimed'
  BY Zenon, <1>1 DEF JournalInv, Claimed
<1>6. NoLostWakeup'
  BY Zenon, <1>2 DEF NoLostWakeup
<1> QED BY Zenon, <1>1, <1>3, <1>4, <1>5, <1>6 DEF JournalInv, Forever

\* An append that fails after its claim or after its record.
LEMMA AppendInterruptedStep ==
    ASSUME JournalInv, NEW i \in Identities, AppendInterrupted(i) PROVE JournalInv' /\ Forever
<1>1. Fault /\ UNCHANGED <<announced, up, client, seen, poll>>
  BY Zenon DEF AppendInterrupted
<1>2. TypeOK /\ faults' \in 0 .. MaxFaults /\ Notified
  BY Zenon, <1>1, FaultCounted DEF JournalInv, Notified
<1>3. /\ sequence' \in 0 .. MaxSequence
      /\ claim' \in [Identities -> 0 .. MaxSequence]
      /\ record' \in [Sequences -> Identities \cup {Nobody}]
      /\ AuditEventJournal' /\ Cursors' /\ ReceivedExactlyOnce'
      /\ \A j \in Identities : claim[j] # 0 => claim'[j] = claim[j]
      /\ \A s \in Sequences : record[s] # Nobody => record'[s] = record[s]
  <2>1. CASE /\ claim[i] = 0 /\ sequence < MaxSequence /\ sequence' = sequence + 1
             /\ \/ claim' = claim /\ record' = record
                \/ /\ claim' = [claim EXCEPT ![i] = sequence']
                   /\ record' \in {record, [record EXCEPT ![sequence'] = i]}
    BY Zenon, <1>1, <1>2, <2>1, NewSequence
  <2>2. CASE claim[i] # 0 /\ record' = [record EXCEPT ![claim[i]] = i] /\ UNCHANGED <<sequence, claim>>
    BY Zenon, <1>1, <1>2, <2>2, OldSequence DEF TypeOK
  <2> QED BY Zenon, <2>1, <2>2 DEF AppendInterrupted
<1>4. TypeOK'
  BY Zenon, <1>1, <1>2, <1>3 DEF TypeOK
<1>5. Claimed' /\ NoLostWakeup'
  BY Zenon, <1>1, <1>2, <1>3 DEF JournalInv, Claimed, NoLostWakeup, TypeOK
<1> QED BY Zenon, <1>3, <1>4, <1>5 DEF JournalInv, Forever

-----------------------------------------------------------------------------
(* Polls.                                                                    *)

Polls == [stage : {"idle", "registered", "waiting"}, after : 0 .. MaxSequence, notified : BOOLEAN]

\* The events that a poll from its cursor returns, and those it does not.
LEMMA PollBatch ==
    ASSUME JournalInv, NEW p \in Pollers, poll[p].stage # "idle"
    PROVE  LET after == poll[p].after
               next == NextSequence(p, after)
           IN  /\ next \in after .. sequence
               /\ Batch(p, after) = {} => next = sequence
               /\ Batch(p, after) \subseteq Sequences
               /\ \A s \in Batch(p, after) : s > after /\ s <= next
               /\ \A i \in Identities : after < claim[i] /\ claim[i] <= next =>
                     (claim[i] \in Batch(p, after) <=> i \in Matches[p])
<1> DEFINE after == poll[p].after
           next == NextSequence(p, after)
           P == Pending(p, after)
           B == Batch(p, after)
<1>1. /\ TypeOK /\ AuditEventJournal /\ sequence \in 0 .. MaxSequence
      /\ after \in 0 .. MaxSequence /\ after <= sequence
  BY Zenon DEF JournalInv, TypeOK, Cursors
<1>2. Matches[p] \subseteq Identities /\ Nobody \notin Matches[p]
  BY Zenon, JournalAssumption
<1>3. \A s \in P : s <= sequence
  BY Zenon, <1>1, <1>2, RepairedRecords DEF Pending
<1>4. /\ next \in after .. sequence
      /\ B = {s \in P : s <= next}
      /\ B = {} => next = sequence
  BY Zenon, <1>1, <1>3, BatchEndsAtCursor
<1>5. P \subseteq Sequences /\ \A s \in P : s > after
  BY Zenon DEF Pending
<1>6. ASSUME NEW i \in Identities, after < claim[i], claim[i] <= next
      PROVE  claim[i] \in B <=> i \in Matches[p]
  <2>1. claim[i] \in Sequences
    BY <1>1, <1>6, JournalAssumption DEF TypeOK, Sequences
  <2>2. Repaired[claim[i]] = i
    BY Zenon, <1>1, <2>1, RepairedRecords
  <2>3. claim[i] \in P <=> i \in Matches[p]
    BY Zenon, <1>1, <1>6, <2>1, <2>2, JournalAssumption DEF Pending, Sequences
  <2> QED BY Zenon, <1>4, <1>6, <2>3
<1> QED BY Zenon, <1>4, <1>5, <1>6

\* Writing claimed records that are missing changes no record that is there.
LEMMA RepairStep ==
    ASSUME JournalInv, UNCHANGED <<sequence, claim>>, NEW repaired \in SUBSET Sequences,
           record' = [s \in Sequences |-> IF s \in repaired THEN Repaired[s] ELSE record[s]]
    PROVE  /\ record' \in [Sequences -> Identities \cup {Nobody}]
           /\ AuditEventJournal' /\ Forever
<1>1. TypeOK /\ AuditEventJournal
  BY Zenon DEF JournalInv
<1>2. \A s \in Sequences : /\ record'[s] \in {Repaired[s], record[s]}
                           /\ record[s] \in Identities \cup {Nobody}
  BY Zenon, <1>1 DEF TypeOK
<1>3. record' \in [Sequences -> Identities \cup {Nobody}]
  BY Zenon, <1>1, <1>2, RepairedRecords
<1>4. \A s \in Sequences : record'[s] # Nobody => s <= sequence /\ claim[record'[s]] = s
  BY Zenon, <1>1, <1>2, RepairedRecords DEF AuditEventJournal
<1>5. AuditEventJournal'
  BY Zenon, <1>1, <1>4 DEF AuditEventJournal
<1>6. Forever
  BY Zenon, <1>1, <1>2, RepairedRecords DEF Forever
<1> QED BY Zenon, <1>3, <1>5, <1>6

\* A step that reads: the journal is at most repaired, and of the polls only
\* one changes.
LEMMA OnePoll ==
    ASSUME JournalInv, NEW p \in Pollers, NEW q \in Polls, NEW next \in 0 .. MaxSequence,
           poll' = [poll EXCEPT ![p] = q], client' = [client EXCEPT ![p] = next],
           seen' = seen \/ seen' = [seen EXCEPT ![p] = seen'[p]],
           seen'[p] \in [Sequences -> Nat],
           UNCHANGED <<sequence, claim, announced>>,
           next <= sequence,
           \A s \in Sequences : s > next => seen'[p][s] = 0,
           q.stage # "idle" =>
              /\ next <= q.after /\ q.after <= sequence
              /\ \A i \in Matches[p] : claim[i] <= next \/ claim[i] > q.after,
           q.stage = "waiting" /\ ~q.notified =>
              \A i \in announced \cap Matches[p] : claim[i] <= q.after,
           \A i \in Identities : claim[i] # 0 =>
              seen'[p][claim[i]] = IF claim[i] <= next /\ i \in Matches[p] THEN 1 ELSE 0
    PROVE  /\ client' \in [Pollers -> 0 .. MaxSequence]
           /\ seen' \in [Pollers -> [Sequences -> Nat]]
           /\ poll' \in [Pollers -> Polls]
           /\ Claimed' /\ Cursors' /\ ReceivedExactlyOnce' /\ NoLostWakeup'
<1>1. TypeOK /\ poll \in [Pollers -> Polls]
  BY Zenon DEF JournalInv, TypeOK, Polls
<1>2. \A r \in Pollers : /\ poll'[r] = IF r = p THEN q ELSE poll[r]
                         /\ client'[r] = IF r = p THEN next ELSE client[r]
  BY Zenon, <1>1 DEF TypeOK
<1>3. \A r \in Pollers \ {p} : seen'[r] = seen[r]
  BY Zenon, <1>1 DEF TypeOK
<1>4. /\ client' \in [Pollers -> 0 .. MaxSequence]
      /\ poll' \in [Pollers -> Polls]
  BY Zenon, <1>1 DEF TypeOK
<1>5. seen' \in [Pollers -> [Sequences -> Nat]]
  BY Zenon, <1>1 DEF TypeOK
<1>6. Claimed'
  BY Zenon DEF JournalInv, Claimed
<1>7. Cursors'
  <2> SUFFICES ASSUME NEW r \in Pollers
               PROVE  /\ client'[r] <= sequence
                      /\ \A s \in Sequences : s > client'[r] => seen'[r][s] = 0
                      /\ poll'[r].stage # "idle" =>
                            /\ client'[r] <= poll'[r].after /\ poll'[r].after <= sequence
                            /\ \A i \in Matches[r] :
                                  claim[i] <= client'[r] \/ claim[i] > poll'[r].after
    BY Zenon DEF Cursors
  <2>1. CASE r = p
    BY <1>2, <2>1
  <2>2. CASE r # p
    BY SMTT(30), <1>2, <1>3, <2>2 DEF JournalInv, Cursors
  <2> QED BY Zenon, <2>1, <2>2
<1>8. ReceivedExactlyOnce'
  <2> SUFFICES ASSUME NEW r \in Pollers, NEW i \in Identities, claim[i] # 0
               PROVE  seen'[r][claim[i]] =
                         IF claim[i] <= client'[r] /\ i \in Matches[r] THEN 1 ELSE 0
    BY Zenon DEF ReceivedExactlyOnce
  <2>1. CASE r = p
    BY <1>2, <2>1
  <2>2. CASE r # p
    BY <1>2, <1>3, <2>2 DEF JournalInv, ReceivedExactlyOnce
  <2> QED BY Zenon, <2>1, <2>2
<1>9. NoLostWakeup'
  BY Zenon, <1>2 DEF JournalInv, NoLostWakeup
<1> QED BY Zenon, <1>4, <1>5, <1>6, <1>7, <1>8, <1>9

\* The same when the client learns nothing.
LEMMA SilentPoll ==
    ASSUME JournalInv, NEW p \in Pollers, NEW q \in Polls, poll' = [poll EXCEPT ![p] = q],
           UNCHANGED <<sequence, claim, announced, client, seen>>,
           q.stage # "idle" =>
              /\ client[p] <= q.after /\ q.after <= sequence
              /\ \A i \in Matches[p] : claim[i] <= client[p] \/ claim[i] > q.after,
           q.stage = "waiting" /\ ~q.notified =>
              \A i \in announced \cap Matches[p] : claim[i] <= q.after
    PROVE  /\ client' \in [Pollers -> 0 .. MaxSequence]
           /\ seen' \in [Pollers -> [Sequences -> Nat]]
           /\ poll' \in [Pollers -> Polls]
           /\ Claimed' /\ Cursors' /\ ReceivedExactlyOnce' /\ NoLostWakeup'
<1>1. /\ client[p] \in 0 .. MaxSequence /\ client = [client EXCEPT ![p] = client[p]]
      /\ seen[p] \in [Sequences -> Nat] /\ client[p] <= sequence
      /\ \A s \in Sequences : s > client[p] => seen[p][s] = 0
  BY Zenon DEF JournalInv, TypeOK, Cursors
<1>2. \A i \in Identities : claim[i] # 0 =>
         seen[p][claim[i]] = IF claim[i] <= client[p] /\ i \in Matches[p] THEN 1 ELSE 0
  BY Zenon DEF JournalInv, ReceivedExactlyOnce
<1> QED BY ZenonT(40), <1>1, <1>2, OnePoll

\* A poll registers for notification before it reads.
LEMMA BeginStep == ASSUME JournalInv, NEW p \in Pollers, Begin(p) PROVE JournalInv' /\ Forever
<1> DEFINE q == [stage |-> "registered", after |-> client[p], notified |-> FALSE]
<1>1. /\ poll' = [poll EXCEPT ![p] = q]
      /\ UNCHANGED <<sequence, claim, record, announced, up, client, seen, faults>>
  BY Zenon DEF Begin, Register
<1>2. /\ q \in Polls /\ q.stage = "registered" /\ q.after = client[p] /\ client[p] \in Nat
      /\ client[p] <= sequence /\ Matches[p] \subseteq Identities
      /\ \A i \in Identities : claim[i] \in Nat
  BY JournalAssumption DEF JournalInv, TypeOK, Cursors, Polls
<1> HIDE DEF q
<1>3. /\ client' \in [Pollers -> 0 .. MaxSequence]
      /\ seen' \in [Pollers -> [Sequences -> Nat]] /\ poll' \in [Pollers -> Polls]
      /\ Claimed' /\ Cursors' /\ ReceivedExactlyOnce' /\ NoLostWakeup'
  <2>1. client[p] <= q.after /\ \A i \in Matches[p] : claim[i] <= client[p] \/ claim[i] > q.after
    BY <1>2
  <2> QED BY Zenon, <1>1, <1>2, <2>1, SilentPoll
<1> QED BY Zenon, <1>1, <1>3 DEF JournalInv, TypeOK, Polls, AuditEventJournal, Forever

\* A notified poll registers again.
LEMMA WakeStep == ASSUME JournalInv, NEW p \in Pollers, Wake(p) PROVE JournalInv' /\ Forever
<1> DEFINE q == [stage |-> "registered", after |-> poll[p].after, notified |-> FALSE]
<1>1. /\ poll[p].stage = "waiting" /\ poll' = [poll EXCEPT ![p] = q]
      /\ UNCHANGED <<sequence, claim, record, announced, up, client, seen, faults>>
  BY Zenon DEF Wake, Register
<1>2. /\ q \in Polls /\ q.stage = "registered" /\ q.after = poll[p].after
      /\ client[p] <= q.after /\ q.after <= sequence
      /\ \A i \in Matches[p] : claim[i] <= client[p] \/ claim[i] > q.after
  BY Zenon, SMTT(30), <1>1 DEF JournalInv, TypeOK, Cursors, Polls
<1> HIDE DEF q
<1>3. /\ client' \in [Pollers -> 0 .. MaxSequence]
      /\ seen' \in [Pollers -> [Sequences -> Nat]] /\ poll' \in [Pollers -> Polls]
      /\ Claimed' /\ Cursors' /\ ReceivedExactlyOnce' /\ NoLostWakeup'
  BY Zenon, <1>1, <1>2, SilentPoll
<1> QED BY Zenon, <1>1, <1>3 DEF JournalInv, TypeOK, Polls, AuditEventJournal, Forever

\* A poll cut short, with part of the repair done.
LEMMA PollInterruptedStep ==
    ASSUME JournalInv, NEW p \in Pollers, PollInterrupted(p) PROVE JournalInv' /\ Forever
<1>1. /\ Fault /\ poll' = [poll EXCEPT ![p] = Idle]
      /\ UNCHANGED <<sequence, claim, announced, up, client, seen>>
  BY Zenon DEF PollInterrupted
<1>2. Idle \in Polls /\ Idle.stage = "idle"
  BY JournalAssumption DEF Idle, Polls
<1>3. /\ client' \in [Pollers -> 0 .. MaxSequence]
      /\ seen' \in [Pollers -> [Sequences -> Nat]] /\ poll' \in [Pollers -> Polls]
      /\ Claimed' /\ Cursors' /\ ReceivedExactlyOnce' /\ NoLostWakeup'
  BY ZenonT(40), <1>1, <1>2, SilentPoll
<1>4. record' \in [Sequences -> Identities \cup {Nobody}] /\ AuditEventJournal' /\ Forever
  <2>1. PICK repaired \in SUBSET Sequences :
           record' = [s \in Sequences |-> IF s \in repaired THEN Repaired[s] ELSE record[s]]
    BY Zenon DEF PollInterrupted
  <2> QED BY Zenon, SMTT(40), <1>1, <2>1, RepairStep
<1>5. faults' \in 0 .. MaxFaults
  BY Zenon, <1>1, FaultCounted DEF JournalInv
<1> QED BY Zenon, <1>1, <1>3, <1>4, <1>5 DEF JournalInv, TypeOK, Polls

\* A poll whose time is up answers with the cursor it was given.
LEMMA ExpireStep == ASSUME JournalInv, NEW p \in Pollers, Expire(p) PROVE JournalInv' /\ Forever
<1> DEFINE next == poll[p].after
<1>1. /\ poll[p].stage = "waiting" /\ client' = [client EXCEPT ![p] = next]
      /\ poll' = [poll EXCEPT ![p] = Idle]
      /\ UNCHANGED <<sequence, claim, record, announced, up, seen, faults>>
  BY Zenon DEF Expire
<1>2. Idle \in Polls /\ Idle.stage = "idle"
  BY JournalAssumption DEF Idle, Polls
<1>3. /\ next \in 0 .. MaxSequence /\ client[p] \in Nat /\ client[p] <= next /\ next <= sequence
      /\ \A i \in Matches[p] : claim[i] <= client[p] \/ claim[i] > next
      /\ seen[p] \in [Sequences -> Nat] /\ \A i \in Identities : claim[i] \in Nat
  BY SMTT(40), <1>1 DEF JournalInv, TypeOK, Cursors
<1>4. \A s \in Sequences : s > next => seen[p][s] = 0
  BY SMTT(40), <1>3, JournalAssumption DEF JournalInv, Cursors, Sequences
<1>5. \A i \in Identities : claim[i] # 0 =>
         seen[p][claim[i]] = IF claim[i] <= next /\ i \in Matches[p] THEN 1 ELSE 0
  BY <1>3 DEF JournalInv, ReceivedExactlyOnce
<1> HIDE DEF next
<1>6. /\ client' \in [Pollers -> 0 .. MaxSequence]
      /\ seen' \in [Pollers -> [Sequences -> Nat]] /\ poll' \in [Pollers -> Polls]
      /\ Claimed' /\ Cursors' /\ ReceivedExactlyOnce' /\ NoLostWakeup'
  BY Zenon, <1>1, <1>2, <1>3, <1>4, <1>5, OnePoll
<1> QED BY Zenon, <1>1, <1>6 DEF JournalInv, TypeOK, Polls, AuditEventJournal, Forever

\* A poll that reads: it answers with a batch, or waits when there is none.
LEMMA PollEventsStep ==
    ASSUME JournalInv, NEW p \in Pollers, PollEvents(p) PROVE JournalInv' /\ Forever
<1> DEFINE after == poll[p].after
           batch == Batch(p, after)
           next == NextSequence(p, after)
<1>1. /\ poll[p].stage = "registered" /\ record' = Repaired
      /\ UNCHANGED <<sequence, claim, announced, up, faults>>
  BY Zenon DEF PollEvents
<1>2. /\ next \in after .. sequence
      /\ batch = {} => next = sequence
      /\ batch \subseteq Sequences
      /\ \A s \in batch : s > after /\ s <= next
      /\ \A i \in Identities : after < claim[i] /\ claim[i] <= next =>
            (claim[i] \in batch <=> i \in Matches[p])
  BY Zenon, <1>1, PollBatch
<1>3. /\ sequence \in 0 .. MaxSequence /\ MaxSequence \in Nat
      /\ after \in Nat /\ client[p] \in Nat /\ client[p] <= after /\ after <= sequence
      /\ \A i \in Matches[p] : claim[i] <= client[p] \/ claim[i] > after
      /\ Matches[p] \subseteq Identities
      /\ \A i \in Identities : claim[i] \in Nat /\ claim[i] <= sequence
      /\ \A s \in Sequences : s > client[p] => seen[p][s] = 0
      /\ seen[p] \in [Sequences -> Nat] /\ seen \in [Pollers -> [Sequences -> Nat]]
      /\ poll[p].notified \in BOOLEAN /\ announced \subseteq Identities
  BY <1>1, JournalAssumption DEF JournalInv, TypeOK, Cursors, AuditEventJournal
<1>4. record' \in [Sequences -> Identities \cup {Nobody}] /\ AuditEventJournal' /\ Forever
  <2>1. record' = [s \in Sequences |-> IF s \in Sequences THEN Repaired[s] ELSE record[s]]
    BY Zenon, <1>1 DEF Repaired
  <2> QED BY Zenon, SMTT(40), <1>1, <2>1, RepairStep
<1> HIDE DEF next, batch
<1>5. /\ client' \in [Pollers -> 0 .. MaxSequence]
      /\ seen' \in [Pollers -> [Sequences -> Nat]] /\ poll' \in [Pollers -> Polls]
      /\ Claimed' /\ Cursors' /\ ReceivedExactlyOnce' /\ NoLostWakeup'
  <2>1. CASE /\ client' = [client EXCEPT ![p] = next]
             /\ seen' = [seen EXCEPT ![p] =
                            [s \in Sequences |-> @[s] + (IF s \in batch THEN 1 ELSE 0)]]
             /\ poll' = [poll EXCEPT ![p] = Idle]
    <3>1. Idle \in Polls /\ Idle.stage = "idle"
      BY JournalAssumption DEF Idle, Polls
    <3>2. seen'[p] = [s \in Sequences |-> seen[p][s] + (IF s \in batch THEN 1 ELSE 0)]
      BY Zenon, <1>3, <2>1
    <3>3. \A s \in Sequences : seen'[p][s] = IF s \in batch THEN seen[p][s] + 1 ELSE seen[p][s]
      BY <1>3, <3>2
    <3>4. seen'[p] \in [Sequences -> Nat] /\ seen' = [seen EXCEPT ![p] = seen'[p]]
      BY <1>3, <2>1, <3>2
    <3>5. next \in 0 .. MaxSequence /\ next <= sequence
      BY SMTT(40), <1>2, <1>3
    <3>6. \A s \in Sequences : s > next => seen'[p][s] = 0
      <4> SUFFICES ASSUME NEW s \in Sequences, s > next PROVE seen'[p][s] = 0
        BY Zenon, SMTT(40)
      <4>1. s \in Nat /\ s > client[p] /\ ~(s <= next)
        BY SMTT(40), <1>2, <1>3, <3>5 DEF Sequences
      <4> QED BY Zenon, SMTT(40), <1>2, <1>3, <3>3, <4>1
    <3>7. ASSUME NEW i \in Identities, claim[i] # 0
          PROVE  seen'[p][claim[i]] = IF claim[i] <= next /\ i \in Matches[p] THEN 1 ELSE 0
      <4>1. claim[i] \in Sequences /\ claim[i] \in Nat
        BY SMTT(40), <1>3, <3>7 DEF Sequences
      <4>2. seen[p][claim[i]] = IF claim[i] <= client[p] /\ i \in Matches[p] THEN 1 ELSE 0
        BY Zenon, <3>7 DEF JournalInv, ReceivedExactlyOnce
      <4>3. CASE claim[i] <= after
        <5>1. claim[i] \notin batch /\ claim[i] <= next
          BY <1>2, <1>3, <4>1, <4>3
        <5> QED BY SMTT(40), <1>3, <3>3, <4>1, <4>2, <4>3, <5>1
      <4>4. CASE after < claim[i] /\ claim[i] <= next
        <5>1. claim[i] \in batch <=> i \in Matches[p]
          BY Zenon, <1>2, <4>4
        <5>2. seen[p][claim[i]] = 0
          BY <1>3, <4>1, <4>4
        <5> QED BY <3>3, <4>1, <4>4, <5>1, <5>2
      <4>5. CASE claim[i] > next
        BY <1>2, <1>3, <3>5, <3>6, <4>1, <4>5
      <4> QED BY SMTT(40), <1>3, <3>5, <4>1, <4>3, <4>4, <4>5
    <3> QED BY ZenonT(60), <1>1, <2>1, <3>1, <3>4, <3>5, <3>6, <3>7, OnePoll
  <2>2. CASE /\ batch = {} /\ UNCHANGED <<client, seen>>
             /\ poll' = [poll EXCEPT ![p].stage = "waiting", ![p].after = next]
    <3> DEFINE q == [poll[p] EXCEPT !.stage = "waiting", !.after = next]
    <3>1. next = sequence
      BY Zenon, <1>2, <2>2
    <3>2. /\ q \in Polls /\ q.stage = "waiting" /\ q.after = sequence
          /\ poll' = [poll EXCEPT ![p] = q]
      BY Zenon, <1>3, <2>2, <3>1 DEF Polls, JournalInv, TypeOK
    <3> HIDE DEF q
    <3>3. \A i \in Matches[p] : claim[i] <= client[p]
      <4> SUFFICES ASSUME NEW i \in Matches[p], claim[i] > client[p] PROVE FALSE
        BY <1>3
      <4>1. after < claim[i] /\ claim[i] <= next
        BY <1>3, <3>1
      <4> QED BY Zenon, <1>2, <1>3, <2>2, <4>1
    <3>4. \A i \in announced \cap Matches[p] : claim[i] <= q.after
      BY Zenon, <1>3, <3>2
    <3>5. client[p] <= q.after /\ q.after <= sequence
      BY <1>3, <3>2
    <3> QED BY Zenon, <1>1, <2>2, <3>2, <3>3, <3>4, <3>5, SilentPoll
  <2> QED BY Zenon, SMTT(30), <2>1, <2>2 DEF PollEvents, batch, next
<1> QED BY Zenon, <1>1, <1>4, <1>5 DEF JournalInv, TypeOK, Polls

\* A crash loses the polls and nothing on disk.
LEMMA JournalCrashStep == ASSUME JournalInv, Crash PROVE JournalInv' /\ Forever
<1>1. /\ Fault /\ up' = FALSE /\ poll' = [p \in Pollers |-> Idle]
      /\ UNCHANGED <<sequence, claim, record, announced, client, seen>>
  BY Zenon DEF Crash
<1>2. Idle \in Polls /\ Idle.stage = "idle"
  BY JournalAssumption DEF Idle, Polls
<1>3. faults' \in 0 .. MaxFaults
  BY Zenon, <1>1, FaultCounted DEF JournalInv
<1>4. TypeOK'
  BY Zenon, <1>1, <1>2, <1>3 DEF JournalInv, TypeOK, Polls
<1>5. AuditEventJournal' /\ Claimed' /\ ReceivedExactlyOnce' /\ Forever
  BY Zenon, <1>1 DEF JournalInv, AuditEventJournal, Claimed, ReceivedExactlyOnce, Forever
<1>6. Cursors' /\ NoLostWakeup'
  BY Zenon, <1>1, <1>2 DEF JournalInv, Cursors, NoLostWakeup
<1> QED BY Zenon, <1>4, <1>5, <1>6 DEF JournalInv

\* A restart, or nothing at all.
LEMMA ReopenStep == ASSUME JournalInv, Reopen \/ UNCHANGED vars PROVE JournalInv' /\ Forever
<1>1. /\ up' \in {up, TRUE}
      /\ UNCHANGED <<sequence, claim, record, announced, client, seen, poll, faults>>
  BY Zenon DEF Reopen, vars
<1> QED BY ZenonT(40), <1>1 DEF JournalInv, TypeOK, AuditEventJournal, Claimed, Cursors,
                                ReceivedExactlyOnce, NoLostWakeup, Forever

\* Every step keeps the invariant.
LEMMA JournalStep == JournalInv /\ [Next]_vars => JournalInv' /\ Forever
BY Zenon, AppendNewStep, AppendAgainStep, AppendInterruptedStep, BeginStep, PollEventsStep,
   PollInterruptedStep, WakeStep, ExpireStep, JournalCrashStep, ReopenStep DEF Next

-----------------------------------------------------------------------------
(* The theorems.                                                             *)

\* The inductive invariant of the journal: types, the audit, and what the
\* cursors of clients and polls say of each other and of the journal.
THEOREM JournalInvHolds == Spec => []JournalInv
BY JournalInitially, JournalStep, PTL DEF Spec

\* The startup audit accepts the journal in every state an interrupted append
\* or repair can leave.
THEOREM JournalIsAuditableHolds == Spec => []JournalIsAuditable
<1>1. JournalInv => JournalIsAuditable
  BY Zenon DEF JournalInv, JournalIsAuditable
<1> QED BY <1>1, JournalInvHolds, PTL

\* append_event and the repair never renumber a claimed identity and never
\* replace a record.
THEOREM SequencesAreForeverHolds == Spec => SequencesAreForever
<1>1. JournalInv /\ [Next]_vars => [Forever]_vars
  BY Zenon, JournalStep
<1> QED BY <1>1, JournalInvHolds, PTL DEF Spec, SequencesAreForever, Forever

\* Cursors, filters, batch limits, lost polls and host crashes never make
\* poll_events skip an event or return one twice.
THEOREM ReceivedExactlyOnceHolds == Spec => []ReceivedExactlyOnce
<1>1. JournalInv => ReceivedExactlyOnce
  BY Zenon DEF JournalInv
<1> QED BY <1>1, JournalInvHolds, PTL

\* A long poll that registers before it reads misses no notification.
THEOREM NoLostWakeupHolds == Spec => []NoLostWakeup
<1>1. JournalInv => NoLostWakeup
  BY Zenon DEF JournalInv
<1> QED BY <1>1, JournalInvHolds, PTL
-----------------------------------------------------------------------------
(* Create, Delete and DeleteShim.                                            *)

Deletes == [step : {"idle", "store", "delete", "remove", "files", "intent"},
            exit : Nat, receipt : Nat]

TaskTypes ==
    /\ shim \in {"serving", "broken", "down"}
    /\ held \in Nat \cup {Nil}
    /\ intent \in BOOLEAN
    /\ metadata \in Nat \cup {Nil}
    /\ deleted \in Nat
    /\ mounted \in BOOLEAN
    /\ creator \in {"idle", "intent", "create", "drop", "persist", "rollback", "tidy"}
    /\ deleter \in [Deleters -> Deletes]
    /\ cleaner \in Deletes
    /\ machine \in {"none", "created", "refused", "stopped", "deleted"}
    /\ request \in BOOLEAN
    /\ clock \in Nat
    /\ answers \in SUBSET Nat
    /\ cleaned \in BOOLEAN
    /\ taskFaults \in Nat

Made == machine \in {"created", "stopped", "deleted"}
NoDelete == \A d \in Deleters : deleter[d].step = "idle"

\* Who may be at work together: DeleteShim only without a shim, a shim only
\* while it serves, and Create without a Delete.
Roles ==
    /\ shim # "serving" => held = Nil /\ creator = "idle" /\ NoDelete
    /\ creator # "idle" => NoDelete /\ deleted = 0 /\ ~cleaned
    /\ cleaner.step # "idle" => shim = "down" /\ machine = "deleted" /\ answers = {}
    /\ cleaner.step = "intent" => metadata = Nil
    /\ cleaned => held = Nil

\* What the steps of Create have established.
Creation ==
    /\ creator \notin {"idle", "tidy"} => held = Nil
    /\ creator = "create" => request \/ machine # "none"
    /\ creator = "drop" => machine \in {"refused", "deleted"}
    /\ creator \in {"persist", "rollback", "tidy"} => Made
    /\ creator = "tidy" => metadata # Nil

\* What a task, a Delete and a receipt say about the container and its files.
Receipts ==
    /\ held # Nil \/ deleted # 0 => Made /\ (metadata = Nil => ~intent)
    /\ \A d \in Deleters : deleter[d].step # "idle" =>
          /\ Made
          /\ held = Nil => machine = "deleted" /\ metadata = Nil /\ ~intent
    /\ \A d \in Deleters : deleter[d].step \in {"delete", "remove"} =>
          deleter[d].receipt = deleted /\ deleted # 0
    /\ \A d \in Deleters : deleter[d].step = "remove" => machine = "deleted"
    /\ cleaner.step = "files" => cleaner.receipt = deleted

\* After an answer nothing is left but the receipt that gave it.
Answered ==
    answers # {} => /\ answers = {deleted} /\ deleted # 0
                    /\ machine = "deleted"
                    /\ held = Nil /\ metadata = Nil /\ ~intent

TaskInv ==
    /\ TaskTypes /\ ContainerIsRecorded /\ CleanupIsComplete
    /\ Roles /\ Creation /\ Receipts /\ Answered

\* A shim without a task satisfies the invariant.
LEMMA TaskInitially == TaskInit => TaskInv
<1> SUFFICES ASSUME TaskInit PROVE TaskInv
  BY Zenon
<1> USE DEF TaskInit, IdleDelete
<1>1. TaskTypes
  <2>1. intent \in BOOLEAN /\ mounted \in BOOLEAN /\ request \in BOOLEAN /\ cleaned \in BOOLEAN
    BY Zenon
  <2> QED BY Zenon, <2>1 DEF TaskTypes, Deletes
<1>2. NoDelete
  BY Zenon DEF NoDelete
<1>3. ~intent /\ ~cleaned /\ ~request
  BY Zenon
<1> QED
  BY Zenon, <1>1, <1>2, <1>3 DEF TaskInv, ContainerIsRecorded, CleanupIsComplete, Exists, Roles, Creation,
                          Receipts, Answered, NoDelete

\* A flag that was lowered or left alone, and one that was raised or left alone.
LEMMA Lowered ==
    ASSUME NEW P, NEW Q, Q \in BOOLEAN, P \in {Q, FALSE}
    PROVE  P \in BOOLEAN /\ (P => Q)
<1>1. CASE P = FALSE
  BY Zenon, <1>1
<1>2. CASE P = Q
  BY <1>2, SMT
<1> QED BY Zenon, <1>1, <1>2

\* A flag that is kept or set is never cleared.
LEMMA Raised ==
    ASSUME NEW P, NEW Q, Q \in BOOLEAN, P \in {Q, TRUE}
    PROVE  P \in BOOLEAN /\ (Q => P)
<1>1. CASE P = TRUE
  BY Zenon, <1>1
<1>2. CASE P = Q
  BY <1>2, SMT
<1> QED BY Zenon, <1>1, <1>2

\* A step that works or fails counts its faults.
LEMMA FaultsCounted ==
    ASSUME taskFaults \in Nat, Works \/ TaskFault
    PROVE  taskFaults' \in Nat /\ (TaskFault => taskFaults' # taskFaults)
BY DEF Works, TaskFault

\* The intent and the mount go; neither comes back.
LEMMA IntentRemoved ==
    ASSUME TaskTypes, RemoveIntentAndUnmount
    PROVE  /\ intent' \in BOOLEAN /\ mounted' \in BOOLEAN /\ taskFaults' \in Nat
           /\ intent' => intent
<1>1. intent' \in {intent, FALSE} /\ mounted' \in {mounted, FALSE} /\ (Works \/ TaskFault)
  BY Zenon DEF RemoveIntentAndUnmount
<1>2. intent \in BOOLEAN /\ mounted \in BOOLEAN /\ taskFaults \in Nat
  BY Zenon DEF TaskTypes
<1> QED
  BY Zenon, <1>1, <1>2, Lowered, FaultsCounted

\* The metadata go last, and without a fault everything goes.
LEMMA FilesRemoved ==
    ASSUME TaskTypes, RemoveFiles
    PROVE  /\ intent' \in BOOLEAN /\ mounted' \in BOOLEAN /\ taskFaults' \in Nat
           /\ metadata' \in {metadata, Nil}
           /\ intent' => intent
           /\ ~intent' \/ metadata' = metadata
           /\ taskFaults' = taskFaults => ~intent' /\ metadata' = Nil
<1>1. intent' \in {intent, FALSE} /\ mounted' \in {mounted, FALSE} /\ (Works \/ TaskFault)
  BY Zenon DEF RemoveFiles
<1>2. intent \in BOOLEAN /\ mounted \in BOOLEAN /\ taskFaults \in Nat
  BY Zenon DEF TaskTypes
<1>3. /\ intent' \in BOOLEAN /\ mounted' \in BOOLEAN /\ taskFaults' \in Nat
      /\ intent' => intent
      /\ TaskFault => taskFaults' # taskFaults
  BY Zenon, <1>1, <1>2, Lowered, FaultsCounted
<1>4. /\ metadata' \in {metadata, Nil}
      /\ ~intent' \/ metadata' = metadata
      /\ TaskFault \/ (~intent' /\ metadata' = Nil)
  BY ZenonT(30), <1>3 DEF RemoveFiles
<1> QED BY Zenon, <1>3, <1>4

\* Every step of the task keeps the invariant.
LEMMA TaskStep == TaskInv /\ [TaskNext]_taskVars => TaskInv'
<1> SUFFICES ASSUME TaskInv, [TaskNext]_taskVars PROVE TaskInv'
  BY Zenon
<1> USE NilAssumption, TaskAssumption
<1> USE DEF TaskInv, TaskTypes, ContainerIsRecorded, CleanupIsComplete, Exists, Roles, Creation,
            Receipts, Answered, Made, NoDelete, fileVars, containerVars
<1>1. CASE RuntimeCreates
  <2>1. request /\ ~request' /\ request' \in BOOLEAN
    BY Zenon, <1>1 DEF RuntimeCreates
  <2> QED BY <1>1, <2>1 DEF RuntimeCreates
<1>2. CASE ContainerStops
  BY <1>2 DEF ContainerStops
<1>3. CASE MountRootfs
  BY Zenon, <1>3 DEF MountRootfs
<1>4. CASE StoreIntent
  <2>1. /\ intent' \in BOOLEAN /\ mounted' \in BOOLEAN /\ request' \in BOOLEAN
        /\ (intent => intent') /\ (request => request')
        /\ (intent' /\ request' /\ creator' = "create") \/ (request' = request /\ creator' = "idle")
    <3>1. /\ intent' \in {intent, TRUE} /\ request' \in {request, TRUE}
          /\ mounted' \in BOOLEAN
          /\ \/ intent' = TRUE /\ request' = TRUE /\ creator' = "create"
             \/ request' = request /\ creator' = "idle"
      BY Zenon, <1>4 DEF StoreIntent
    <3> QED BY Zenon, <3>1, Raised
  <2>2. taskFaults' \in Nat
    BY Zenon, <1>4, FaultsCounted DEF StoreIntent
  <2>3. /\ creator = "intent"
        /\ UNCHANGED <<shim, held, metadata, deleted, deleter, cleaner, machine, clock, answers,
                       cleaned>>
    BY Zenon, <1>4 DEF StoreIntent
  <2> QED BY Zenon, <2>1, <2>2, <2>3
<1>5. CASE Created
  BY <1>5 DEF Created, Works, TaskFault
<1>6. CASE DropIntent
  <2>1. RemoveIntentAndUnmount
    BY Zenon, <1>6 DEF DropIntent
  <2> QED BY Zenon, <1>6, <2>1, IntentRemoved DEF DropIntent
<1>7. CASE PersistTask
  BY <1>7 DEF PersistTask, Works, TaskFault
<1>8. CASE RollBack
  <2>1. CASE machine' = "deleted" /\ RemoveIntentAndUnmount
    BY ZenonT(30), <1>8, <2>1, IntentRemoved DEF RollBack
  <2>2. CASE TaskFault /\ UNCHANGED <<machine, intent, mounted>>
    BY <1>8, <2>2 DEF RollBack, TaskFault
  <2> QED BY Zenon, <1>8, <2>1, <2>2 DEF RollBack
<1>9. CASE TidyCreate
  <2>1. intent' \in BOOLEAN /\ (intent' => intent)
    <3>1. intent' \in {intent, FALSE}
      BY Zenon, <1>9 DEF TidyCreate
    <3> QED BY Zenon, <3>1, Lowered
  <2>2. taskFaults' \in Nat /\ deleted' \in {deleted, 0}
    BY Zenon, <1>9, FaultsCounted DEF TidyCreate
  <2> QED BY Zenon, <1>9, <2>1, <2>2 DEF TidyCreate
<1>10. CASE RecordTaskExit
  BY <1>10 DEF RecordTaskExit, Tick, Works, TaskFault
<1>11. ASSUME NEW d \in Deleters, SnapshotTask(d) PROVE TaskInv'
  BY Zenon, SMTT(40), <1>11 DEF SnapshotTask, Deletes
<1>12. ASSUME NEW d \in Deleters, StoreReceipt(d) PROVE TaskInv'
  BY <1>12 DEF StoreReceipt, Receipt, Tick, Works, TaskFault, Deletes, IdleDelete
<1>13. ASSUME NEW d \in Deleters, DeleteContainer(d) PROVE TaskInv'
  BY SMTT(40), <1>13 DEF DeleteContainer, Works, TaskFault, Deletes, IdleDelete
<1>14. ASSUME NEW d \in Deleters, CommitDelete(d) PROVE TaskInv'
  <2>1. CASE held # Nil /\ RemoveFiles
    BY <1>14, <2>1, FilesRemoved DEF CommitDelete, Deletes, IdleDelete
  <2>2. CASE held = Nil /\ Works /\ UNCHANGED <<held, intent, mounted, metadata, answers>>
    BY Zenon, <1>14, <2>2 DEF CommitDelete, Works, Deletes, IdleDelete
  <2> QED BY ZenonT(30), <1>14, <2>1, <2>2 DEF CommitDelete
<1>15. CASE ReplayDelete
  BY Zenon, <1>15 DEF ReplayDelete, Deletes, IdleDelete
<1>16. CASE TaskCrash
  BY SMTT(40), <1>16 DEF TaskCrash, TaskFault, Deletes, IdleDelete
<1>17. CASE RestoreTask
  <2>1. intent' \in BOOLEAN /\ (intent' => intent)
    <3>1. intent' \in {intent, FALSE}
      BY Zenon, <1>17 DEF RestoreTask
    <3> QED BY Zenon, <3>1, Lowered
  <2>2. CASE /\ metadata = Nil /\ shim' = "serving" /\ Works
             /\ UNCHANGED <<held, clock, intent, metadata, deleted>>
    BY ZenonT(30), <1>17, <2>1, <2>2 DEF RestoreTask, Works
  <2>3. CASE metadata # Nil /\ Exists /\ Works /\ shim' = "serving"
    <3>1. /\ shim = "down" /\ cleaner.step = "idle"
          /\ clock' \in {clock, clock + 1} /\ metadata' \in {metadata, clock'}
          /\ held' = metadata' /\ deleted' = 0 /\ intent' = FALSE
          /\ UNCHANGED <<mounted, creator, deleter, cleaner, machine, request, answers, cleaned,
                         taskFaults>>
      BY ZenonT(30), <1>17, <2>3 DEF RestoreTask, Works, Tick
    <3>2. clock' \in Nat /\ metadata' \in Nat /\ metadata' # Nil /\ metadata # Nil
      BY SMTT(40), <2>3, <3>1
    <3> QED BY ZenonT(30), <2>3, <3>1, <3>2
  <2>4. CASE metadata # Nil /\ shim' = "broken"
    BY SMTT(40), <1>17, <2>1, <2>4 DEF RestoreTask, Works, TaskFault
  <2> QED BY Zenon, <1>17, <2>2, <2>3, <2>4 DEF RestoreTask
<1>18. CASE CleanContainer
  <2>1. taskFaults' \in Nat
    BY Zenon, <1>18, FaultsCounted DEF CleanContainer
  <2>2. CASE /\ metadata # Nil /\ machine' = "deleted"
             /\ deleted' = IF Exists THEN 0 ELSE deleted
             /\ cleaner' = [IdleDelete EXCEPT !.step = "files", !.receipt = deleted']
    <3>1. deleted' \in Nat
      BY Zenon, <2>2
    <3>2. cleaner'.step = "files" /\ cleaner'.receipt = deleted' /\ cleaner' \in Deletes
      BY Zenon, <2>2, <3>1 DEF IdleDelete, Deletes
    <3> QED BY Zenon, <1>18, <2>1, <2>2, <3>1, <3>2 DEF CleanContainer
  <2>3. CASE /\ metadata # Nil /\ machine' = machine /\ cleaner' = cleaner
             /\ deleted' \in {deleted, IF Exists THEN 0 ELSE deleted}
    BY <1>18, <2>1, <2>3 DEF CleanContainer
  <2>4. CASE metadata = Nil /\ intent /\ machine' = "deleted" /\ deleted' = deleted
             /\ cleaner' = [IdleDelete EXCEPT !.step = "intent"]
    <3>1. cleaner'.step = "intent" /\ cleaner' \in Deletes
      BY Zenon, <2>4 DEF IdleDelete, Deletes
    <3> QED BY Zenon, <1>18, <2>1, <2>4, <3>1 DEF CleanContainer
  <2>5. CASE metadata = Nil /\ intent /\ UNCHANGED <<deleted, cleaner>>
             /\ machine' \in IF machine = "none" THEN {"none", "created", "refused"} ELSE {machine}
    BY Zenon, <1>18, <2>1, <2>5 DEF CleanContainer
  <2> QED BY Zenon, <1>18, <2>2, <2>3, <2>4, <2>5 DEF CleanContainer
<1>19. CASE CleanFiles
  <2>1. cleaned' \in BOOLEAN /\ (cleaned' => taskFaults' = taskFaults) /\ RemoveFiles
    BY ZenonT(30), <1>19 DEF CleanFiles
  <2> QED BY Zenon, <1>19, <2>1, FilesRemoved DEF CleanFiles, Deletes, IdleDelete
<1>20. CASE CleanIntent
  <2>1. /\ intent' \in BOOLEAN /\ mounted' \in BOOLEAN /\ cleaned' \in BOOLEAN
        /\ intent' => intent
        /\ cleaned' => cleaned \/ ~intent'
    <3>1. /\ intent' \in {intent, FALSE} /\ mounted' \in {mounted, FALSE}
          /\ cleaned' \in {cleaned, TRUE}
          /\ cleaned' = cleaned \/ intent' = FALSE
      BY Zenon, <1>20 DEF CleanIntent
    <3>2. intent' \in BOOLEAN /\ mounted' \in BOOLEAN /\ cleaned' \in BOOLEAN /\ (intent' => intent)
      BY Zenon, <3>1, Lowered, Raised
    <3>3. CASE cleaned' = cleaned
      BY Zenon, <3>2, <3>3
    <3>4. CASE intent' = FALSE
      BY Zenon, <3>2, <3>4
    <3> QED BY Zenon, <3>1, <3>3, <3>4
  <2>2. taskFaults' \in Nat /\ deleted' \in {deleted, 0}
    BY Zenon, <1>20, FaultsCounted DEF CleanIntent
  <2> QED BY SMTT(40), <1>20, <2>1, <2>2 DEF CleanIntent, Deletes, IdleDelete
<1>21. CASE CleanNothing
  <2>1. cleaned' \in BOOLEAN /\ ~intent
    BY Zenon, <1>21 DEF CleanNothing
  <2> QED BY Zenon, <1>21, <2>1 DEF CleanNothing
<1>22. CASE UNCHANGED taskVars
  BY <1>22 DEF taskVars
<1> QED
  BY Zenon, <1>1, <1>2, <1>3, <1>4, <1>5, <1>6, <1>7, <1>8, <1>9, <1>10, <1>11, <1>12, <1>13, <1>14,
     <1>15, <1>16, <1>17, <1>18, <1>19, <1>20, <1>21, <1>22 DEF TaskNext

\* The inductive invariant of the task: it adds who may be at work together and
\* what the receipt means to the three properties below.
THEOREM TaskInvHolds == TaskSpec => []TaskInv
BY TaskInitially, TaskStep, PTL DEF TaskSpec

\* rollback_created_task and delete_shim: a container that exists or may yet
\* come to exist is named by a file of the bundle.
THEOREM ContainerIsRecordedHolds == TaskSpec => []ContainerIsRecorded
<1>1. TaskInv => ContainerIsRecorded
  BY Zenon DEF TaskInv
<1> QED BY <1>1, TaskInvHolds, PTL

\* delete_shim: after it has succeeded there is no container, intent or metadata.
THEOREM CleanupIsCompleteHolds == TaskSpec => []CleanupIsComplete
<1>1. TaskInv => CleanupIsComplete
  BY Zenon DEF TaskInv
<1> QED BY <1>1, TaskInvHolds, PTL

\* delete_task and delete_shim: all answers from a receipt give one exit time.
THEOREM AnswersAgreeHolds == TaskSpec => []AnswersAgree
<1>1. TaskInv => AnswersAgree
  BY Zenon DEF TaskInv, Answered, AnswersAgree
<1> QED BY <1>1, TaskInvHolds, PTL

-----------------------------------------------------------------------------
(* An exec ID.                                                               *)

Calls == [stage : {"idle", "stage", "create", "attach", "watch", "register", "watched", "check",
                   "sleep"},
          inc : 0 .. MaxIncarnation, wait : BOOLEAN, woken : BOOLEAN]
Starting == {"stage", "create", "attach", "register"}

ExecTypes ==
    /\ exec \in Execs \cup {Nil}
    /\ execSeq \in 0 .. MaxIncarnation
    /\ disk \in [exec : Execs \cup {Nil}, seq : 0 .. MaxIncarnation]
    /\ receipt \in [inc : Incarnations, exit : 0 .. MaxIncarnation] \cup {Nil}
    /\ serving \in BOOLEAN
    /\ calls \in [Callers -> Calls]
    /\ \A c \in Callers : calls[c].stage \in Starting => calls[c].inc \in Incarnations
    /\ monitor \in [inc : Incarnations, waits : BOOLEAN] \cup {Nil}
    /\ process \in [Incarnations -> {"none", "running", "exited"}]
    /\ overtaken \in BOOLEAN

\* Without a shim there is neither exec nor request in memory.
Stopped ==
    ~serving => exec = Nil /\ monitor = Nil /\ \A c \in Callers : calls[c].stage = "idle"

\* An exit is recorded under its own incarnation, once its process has exited.
Exits(x) == x # Nil /\ x.exit # 0 => x.exit = x.inc /\ process[x.inc] = "exited"

\* A receipt that may answer a Delete is the last incarnation's.
ReceiptsFollow ==
    /\ disk.exec = Nil /\ receipt # Nil => receipt.inc = latest
    /\ serving /\ exec = Nil /\ receipt # Nil => receipt.inc = latest
    /\ exec # Nil => latest = exec.inc

Holds(x, i) == x # Nil /\ x.inc = i

\* A process that runs, or that a request is about to create, belongs to the
\* exec in memory, which is in the metadata too; without a shim, to the latter.
Owned ==
    overtaken \/
    /\ \A i \in Incarnations : process[i] = "running" =>
          IF serving THEN Holds(exec, i) ELSE Holds(disk.exec, i)
    /\ \A c \in Callers : calls[c].stage \in {"stage", "create", "attach"} =>
          Holds(exec, calls[c].inc) \/ process[calls[c].inc] = "exited"
    /\ exec # Nil /\ process[exec.inc] # "exited" => Holds(disk.exec, exec.inc)

ExecInv ==
    ExecTypes /\ Stopped /\ Exits(exec) /\ Exits(disk.exec) /\ ReceiptsFollow /\ Owned

-----------------------------------------------------------------------------
(* Requests and the monitor.                                                 *)

Creating == {"stage", "create", "attach"}

\* What may become of the requests and the monitor of a shim that serves: a
\* request on its way to a process is for the exec in memory, or was before.
Served ==
    /\ serving
    /\ calls' \in [Callers -> Calls]
    /\ \A c \in Callers : calls'[c].stage \in Starting => calls'[c].inc \in Incarnations
    /\ \A c \in Callers : calls'[c].stage \in Creating =>
          \/ calls[c].stage \in Creating /\ calls[c].inc = calls'[c].inc
          \/ Holds(exec, calls'[c].inc)
    /\ monitor' \in [inc : Incarnations, waits : BOOLEAN] \cup {Nil}

\* The exec keeps its incarnation, and is stored or not.
Updated ==
    /\ \/ exec' = exec /\ disk' = disk
       \/ /\ exec # Nil /\ exec' \in Execs /\ exec'.inc = exec.inc /\ Exits(exec)'
          /\ disk' \in {disk, [exec |-> exec', seq |-> execSeq]}
    /\ UNCHANGED <<execSeq, receipt, serving, process, latest, overtaken>>

\* A step that changes the exec of the current incarnation, stored or not.
LEMMA UpdatedStep == ASSUME ExecInv, Served, Updated PROVE ExecInv'
<1>1. /\ UNCHANGED <<execSeq, receipt, serving, process, latest, overtaken>>
      /\ serving /\ ExecTypes
  BY Zenon DEF Served, Updated, ExecInv
<1>2. /\ exec' \in Execs \cup {Nil} /\ disk' \in [exec : Execs \cup {Nil}, seq : 0 .. MaxIncarnation]
      /\ exec' = Nil <=> exec = Nil
      /\ exec # Nil => exec'.inc = exec.inc
      /\ \/ disk' = disk
         \/ exec # Nil /\ disk'.exec = exec'
      /\ Exits(exec)'
  <2>1. CASE exec' = exec /\ disk' = disk
    BY Zenon, <1>1, <2>1 DEF ExecTypes, ExecInv, Exits
  <2>2. CASE /\ exec # Nil /\ exec' \in Execs /\ exec'.inc = exec.inc /\ Exits(exec)'
             /\ disk' \in {disk, [exec |-> exec', seq |-> execSeq]}
    BY <1>1, <2>2, ExecAssumption DEF ExecTypes
  <2> QED BY Zenon, <2>1, <2>2 DEF Updated
<1>3. ExecTypes'
  BY Zenon, <1>1, <1>2 DEF ExecTypes, Served
<1>4. Stopped'
  BY Zenon, <1>1 DEF Stopped
<1>5. Exits(disk.exec)'
  <2>1. CASE disk' = disk
    BY Zenon, <1>1, <2>1 DEF ExecInv, Exits
  <2>2. CASE disk'.exec = exec'
    BY Zenon, <1>2, <2>2 DEF Exits
  <2> QED BY Zenon, <1>2, <2>1, <2>2
<1>6. ReceiptsFollow'
  <2>1. disk'.exec = Nil => disk.exec = Nil
    BY Zenon, <1>2
  <2> QED BY Zenon, <1>1, <1>2, <2>1 DEF ExecInv, ReceiptsFollow
<1>7. Owned'
  <2> SUFFICES ASSUME ~overtaken PROVE Owned'
    BY Zenon, <1>1 DEF Owned
  <2>1. \A i \in Incarnations : process[i] = "running" => Holds(exec, i)'
    BY Zenon, <1>1, <1>2 DEF ExecInv, Owned, Holds
  <2>2. ASSUME NEW c \in Callers, calls'[c].stage \in Creating
        PROVE  Holds(exec', calls'[c].inc) \/ process[calls'[c].inc] = "exited"
    <3>1. Holds(exec, calls'[c].inc) \/ process[calls'[c].inc] = "exited"
      BY Zenon, <2>2 DEF Served, ExecInv, Owned, Creating
    <3> QED BY Zenon, <1>2, <3>1 DEF Holds
  <2>3. exec' # Nil /\ process[exec'.inc] # "exited" => Holds(disk'.exec, exec'.inc)
    BY Zenon, <1>2 DEF ExecInv, Owned, Holds
  <2> QED BY Zenon, <1>1, <2>1, <2>2, <2>3 DEF Owned, Holds, Creating
<1> QED BY Zenon, <1>2, <1>3, <1>4, <1>5, <1>6, <1>7 DEF ExecInv

\* One request changes.
LEMMA OneCall ==
    ASSUME ExecInv, serving, NEW c \in Callers, NEW r \in Calls, calls' = [calls EXCEPT ![c] = r],
           r.stage \in Starting => r.inc \in Incarnations,
           r.stage \in Creating =>
              Holds(exec, r.inc) \/ (calls[c].stage \in Creating /\ calls[c].inc = r.inc),
           monitor' \in [inc : Incarnations, waits : BOOLEAN] \cup {Nil}
    PROVE  Served
<1>1. calls \in [Callers -> Calls]
  BY Zenon DEF ExecInv, ExecTypes
<1>2. calls' \in [Callers -> Calls] /\ \A d \in Callers : calls'[d] = IF d = c THEN r ELSE calls[d]
  BY Zenon, <1>1
<1> QED BY Zenon, <1>2 DEF Served, ExecInv, ExecTypes

\* No incarnation is below the bound.
LEMMA ZeroInRange == 0 \in 0 .. MaxIncarnation
BY ExecAssumption

\* An idle caller is neither starting nor creating.
LEMMA IdleIsCall ==
    IdleCall \in Calls /\ IdleCall.stage \notin Starting /\ IdleCall.stage \notin Creating
BY ExecAssumption DEF IdleCall, Calls, Starting, Creating

\* Waiters are woken.
LEMMA WokenCalls ==
    ASSUME NEW cs \in [Callers -> Calls]
    PROVE  /\ Woken(cs) \in [Callers -> Calls]
           /\ \A c \in Callers : Woken(cs)[c].stage = cs[c].stage /\ Woken(cs)[c].inc = cs[c].inc
BY Zenon DEF Woken, Calls

\* A process is created for the exec that holds it, or exits.
LEMMA ProcessStep ==
    ASSUME ExecInv, Served \/ UNCHANGED <<calls, monitor>>,
           UNCHANGED <<exec, execSeq, disk, receipt, serving, latest, overtaken>>,
           process' \in [Incarnations -> {"none", "running", "exited"}],
           \A i \in Incarnations : process[i] = "exited" => process'[i] = "exited",
           \A i \in Incarnations : process'[i] = "running" =>
              \/ overtaken \/ process[i] = "running"
              \/ IF serving THEN Holds(exec, i) ELSE Holds(disk.exec, i)
    PROVE  ExecInv'
<1>1. /\ ExecTypes /\ calls' \in [Callers -> Calls]
      /\ \A c \in Callers : calls'[c].stage \in Starting => calls'[c].inc \in Incarnations
      /\ monitor' \in [inc : Incarnations, waits : BOOLEAN] \cup {Nil}
      /\ \A c \in Callers : calls'[c].stage \in Creating =>
            \/ calls[c].stage \in Creating /\ calls[c].inc = calls'[c].inc
            \/ Holds(exec, calls'[c].inc)
  BY Zenon DEF Served, ExecInv, ExecTypes
<1>2. ExecTypes'
  BY Zenon, <1>1 DEF ExecTypes
<1>3. Stopped'
  BY Zenon DEF Served, ExecInv, Stopped
<1>4. /\ exec # Nil => exec.inc \in Incarnations
      /\ disk.exec # Nil => disk.exec.inc \in Incarnations
  BY Zenon, <1>1 DEF ExecTypes, Execs
<1>5. Exits(exec)' /\ Exits(disk.exec)'
  BY Zenon, <1>4 DEF ExecInv, Exits
<1>6. ReceiptsFollow'
  BY Zenon DEF ExecInv, ReceiptsFollow
<1>7. Owned'
  <2> SUFFICES ASSUME ~overtaken PROVE Owned'
    BY Zenon DEF Owned
  <2>1. \A i \in Incarnations : process'[i] = "running" =>
           IF serving THEN Holds(exec, i) ELSE Holds(disk.exec, i)
    BY Zenon DEF ExecInv, Owned
  <2>2. ASSUME NEW c \in Callers, calls'[c].stage \in Creating
        PROVE  Holds(exec, calls'[c].inc) \/ process'[calls'[c].inc] = "exited"
    <3>1. Holds(exec, calls'[c].inc) \/ process[calls'[c].inc] = "exited"
      BY Zenon, SMTT(40), <1>1, <2>2 DEF ExecInv, Owned, Creating
    <3>2. calls'[c].inc \in Incarnations
      BY Zenon, <1>1, <2>2 DEF Creating, Starting
    <3> QED BY Zenon, <3>1, <3>2
  <2>3. exec # Nil /\ process'[exec.inc] # "exited" => Holds(disk.exec, exec.inc)
    BY Zenon, <1>4 DEF ExecInv, Owned
  <2> QED BY Zenon, <2>1, <2>2, <2>3 DEF Owned, Holds, Creating
<1> QED BY Zenon, <1>2, <1>3, <1>5, <1>6, <1>7 DEF ExecInv

-----------------------------------------------------------------------------
(* Start.                                                                    *)

\* Requests and monitors exist only in a shim that serves.
LEMMA InService ==
    ASSUME ExecInv, NEW c \in Callers, calls[c].stage # "idle" PROVE serving /\ calls[c] \in Calls
BY Zenon DEF ExecInv, Stopped, ExecTypes

\* A request that answers leaves its caller idle.
LEMMA EndStep ==
    ASSUME ExecInv, serving, NEW c \in Callers, EndCall(c), UNCHANGED monitor PROVE Served
<1>1. monitor' \in [inc : Incarnations, waits : BOOLEAN] \cup {Nil}
  BY Zenon DEF ExecInv, ExecTypes
<1> QED BY Zenon, <1>1, IdleIsCall, OneCall DEF EndCall

\* Start finds the exec under its ID.
LEMMA StartStep == ASSUME ExecInv, NEW c \in Callers, StartExec(c) PROVE ExecInv'
<1> DEFINE r == [IdleCall EXCEPT !.inc = exec.inc,
                    !.stage = IF exec.stage = "added" THEN "stage" ELSE "create"]
<1>1. /\ serving /\ exec # Nil /\ calls' = [calls EXCEPT ![c] = r]
      /\ UNCHANGED <<exec, execSeq, disk, receipt, serving, monitor, process, latest, overtaken>>
  BY Zenon DEF StartExec
<1>2. exec \in Execs
  BY Zenon, <1>1 DEF ExecInv, ExecTypes
<1>3. r \in Calls /\ r.inc = exec.inc /\ r.inc \in Incarnations
  <2>1. exec.inc \in Incarnations /\ exec.inc \in 0 .. MaxIncarnation
    BY <1>2, ExecAssumption DEF Execs, Incarnations
  <2> QED BY Zenon, <2>1 DEF IdleCall, Calls
<1> HIDE DEF r
<1>4. Holds(exec, r.inc)
  BY Zenon, <1>1, <1>3 DEF Holds
<1>5. monitor' \in [inc : Incarnations, waits : BOOLEAN] \cup {Nil}
  BY Zenon, <1>1 DEF ExecInv, ExecTypes
<1>6. Served
  BY Zenon, <1>1, <1>3, <1>4, <1>5, OneCall
<1>7. Updated
  BY Zenon, <1>1 DEF Updated
<1> QED BY Zenon, <1>6, <1>7, UpdatedStep

\* A request goes on to another stage.
LEMMA StageStep ==
    ASSUME ExecInv, NEW c \in Callers, calls[c].stage # "idle", UNCHANGED monitor,
           NEW stage \in {"create", "attach", "watch", "watched", "sleep"},
           stage \in Creating => calls[c].stage \in Creating,
           calls' = [calls EXCEPT ![c].stage = stage]
    PROVE  Served
<1> DEFINE r == [calls[c] EXCEPT !.stage = stage]
<1>1. /\ serving /\ calls[c] \in Calls
      /\ calls[c].stage \in Starting => calls[c].inc \in Incarnations
      /\ monitor' \in [inc : Incarnations, waits : BOOLEAN] \cup {Nil}
  BY Zenon, InService DEF ExecInv, ExecTypes
<1>2. /\ r \in Calls /\ r.inc = calls[c].inc /\ r.stage = stage
      /\ calls' = [calls EXCEPT ![c] = r]
  BY Zenon, <1>1 DEF Calls, ExecInv, ExecTypes
<1> HIDE DEF r
<1>3. r.stage \in Starting => r.inc \in Incarnations
  BY Zenon, <1>1, <1>2 DEF Starting, Creating
<1> QED BY Zenon, <1>1, <1>2, <1>3, OneCall

\* Start makes the exec Starting and stores it.
LEMMA StageStartStep == ASSUME ExecInv, NEW c \in Callers, StageStart(c) PROVE ExecInv'
<1>1. /\ calls[c].stage = "stage"
      /\ UNCHANGED <<execSeq, receipt, serving, monitor, process, latest, overtaken>>
  BY Zenon DEF StageStart
<1>2. serving
  BY Zenon, <1>1, InService
<1>3. Served
  <2>1. CASE EndCall(c)
    BY Zenon, <1>1, <1>2, <2>1, EndStep
  <2>2. CASE calls' = [calls EXCEPT ![c].stage = "create"]
    BY Zenon, <1>1, <2>2, StageStep DEF Creating
  <2> QED BY Zenon, <2>1, <2>2 DEF StageStart
<1>4. Updated
  <2>1. CASE exec = Nil
    BY Zenon, <1>1, <2>1 DEF StageStart, Updated
  <2>2. CASE exec # Nil
    <3>1. /\ exec' = [exec EXCEPT !.stage = "starting"]
          /\ disk' \in {disk, [exec |-> exec', seq |-> execSeq]}
      BY Zenon, <2>2 DEF StageStart, Persisted, PersistFailed
    <3>2. /\ exec' \in Execs /\ exec'.inc = exec.inc /\ exec'.exit = exec.exit
      BY Zenon, <2>2, <3>1 DEF ExecInv, ExecTypes, Execs
    <3>3. Exits(exec)'
      BY Zenon, <1>1, <2>2, <3>2 DEF ExecInv, Exits
    <3> QED BY Zenon, <1>1, <2>2, <3>1, <3>2, <3>3 DEF Updated
  <2> QED BY Zenon, <2>1, <2>2
<1> QED BY Zenon, <1>3, <1>4, UpdatedStep

\* The process of the incarnation is looked up or created; the answer may be lost.
LEMMA CreateStep == ASSUME ExecInv, NEW c \in Callers, CreateExec(c) PROVE ExecInv'
<1> DEFINE i == calls[c].inc
<1>1. /\ calls[c].stage = "create"
      /\ UNCHANGED <<exec, execSeq, disk, receipt, serving, monitor, latest, overtaken>>
      /\ process' = process \/ CreateProcess(i)
  BY Zenon DEF CreateExec
<1>2. /\ serving /\ i \in Incarnations
      /\ process \in [Incarnations -> {"none", "running", "exited"}]
      /\ overtaken \/ Holds(exec, i) \/ process[i] = "exited"
  BY Zenon, <1>1, InService DEF ExecInv, ExecTypes, Owned, Starting
<1>3. Served
  <2>1. CASE EndCall(c)
    BY Zenon, <1>1, <1>2, <2>1, EndStep
  <2>2. CASE calls' = [calls EXCEPT ![c].stage = "attach"]
    BY Zenon, <1>1, <2>2, StageStep DEF Creating
  <2> QED BY Zenon, <2>1, <2>2 DEF CreateExec
<1>4. /\ process' \in [Incarnations -> {"none", "running", "exited"}]
      /\ \A j \in Incarnations : process[j] = "exited" => process'[j] = "exited"
      /\ \A j \in Incarnations : process'[j] = "running" =>
            overtaken \/ process[j] = "running" \/ Holds(exec, j)
  <2>1. CASE process' = process
    BY Zenon, <1>2, <2>1
  <2>2. CASE CreateProcess(i)
    <3>1. process' = [process EXCEPT ![i] = IF process[i] = "none" THEN "running" ELSE process[i]]
      BY Zenon, <2>2 DEF CreateProcess
    <3> HIDE DEF i
    <3> QED BY Zenon, <1>2, <3>1
  <2> QED BY Zenon, <1>1, <2>1, <2>2
<1> QED BY Zenon, <1>1, <1>2, <1>3, <1>4, ProcessStep

\* Start records the process, or kills it when its exec is gone.
LEMMA AttachStep == ASSUME ExecInv, NEW c \in Callers, AttachProcess(c) PROVE ExecInv'
<1>1. /\ calls[c].stage = "attach"
      /\ UNCHANGED <<execSeq, receipt, serving, monitor, latest, overtaken>>
  BY Zenon DEF AttachProcess
<1>2. /\ serving /\ calls[c] \in Calls /\ calls[c].inc \in Incarnations
      /\ calls \in [Callers -> Calls]
      /\ process \in [Incarnations -> {"none", "running", "exited"}]
  BY Zenon, <1>1, InService DEF ExecInv, ExecTypes, Starting
<1>3. CASE exec = Nil
  <2>1. /\ process' = [process EXCEPT ![calls[c].inc] = "exited"]
        /\ EndCall(c) /\ UNCHANGED <<exec, disk>>
    BY Zenon, <1>3 DEF AttachProcess
  <2>2. Served
    BY Zenon, <1>1, <1>2, <2>1, EndStep
  <2>3. /\ process' \in [Incarnations -> {"none", "running", "exited"}]
        /\ \A j \in Incarnations : process[j] = "exited" => process'[j] = "exited"
        /\ \A j \in Incarnations : process'[j] = "running" => process[j] = "running"
    BY Zenon, <1>2, <2>1
  <2> QED BY Zenon, SMTT(40), <1>1, <2>1, <2>2, <2>3, ProcessStep
<1>4. CASE exec # Nil
  <2>1. /\ exec' = [exec EXCEPT !.stage = "started", !.process = calls[c].inc]
        /\ disk' \in {disk, [exec |-> exec', seq |-> execSeq]} /\ UNCHANGED process
        /\ calls' = Woken([calls EXCEPT ![c].stage = "watch"]) \/ EndCall(c)
    BY Zenon, <1>4 DEF AttachProcess, Persisted, PersistFailed
  <2>2. exec' \in Execs /\ exec'.inc = exec.inc /\ exec'.exit = exec.exit
    BY Zenon, <1>2, <1>4, <2>1 DEF ExecInv, ExecTypes, Execs, Calls
  <2>3. Exits(exec)'
    BY Zenon, <1>4, <2>1, <2>2 DEF ExecInv, Exits
  <2>4. Updated
    BY Zenon, <1>1, <1>4, <2>1, <2>2, <2>3 DEF Updated
  <2>5. Served
    <3>1. CASE EndCall(c)
      BY Zenon, <1>1, <1>2, <3>1, EndStep
    <3>2. CASE calls' = Woken([calls EXCEPT ![c].stage = "watch"])
      <4> DEFINE cs == [calls EXCEPT ![c].stage = "watch"]
      <4>1. /\ cs \in [Callers -> Calls] /\ cs[c].stage = "watch"
            /\ \A d \in Callers \ {c} : cs[d] = calls[d]
        BY Zenon, <1>2 DEF Calls
      <4> HIDE DEF cs
      <4>2. /\ calls' \in [Callers -> Calls]
            /\ \A d \in Callers : calls'[d].stage = cs[d].stage /\ calls'[d].inc = cs[d].inc
        BY Zenon, <3>2, <4>1, WokenCalls DEF cs
      <4> QED BY Zenon, <1>1, <1>2, <4>1, <4>2 DEF Served, ExecInv, ExecTypes, Starting, Creating
    <3> QED BY Zenon, <2>1, <3>1, <3>2
  <2> QED BY Zenon, <2>4, <2>5, UpdatedStep
<1> QED BY Zenon, <1>3, <1>4

-----------------------------------------------------------------------------
(* Exit monitor and Wait.                                                    *)

\* Start looks for a process to watch.
LEMMA WatchStep == ASSUME ExecInv, NEW c \in Callers, WatchExit(c) PROVE ExecInv'
<1> DEFINE r == [calls[c] EXCEPT !.stage = IF exec = Nil THEN "watched" ELSE "register",
                                 !.inc = IF exec = Nil THEN 0 ELSE exec.inc]
<1>1. /\ calls[c].stage = "watch"
      /\ calls' = [calls EXCEPT ![c].stage = IF exec = Nil THEN "watched" ELSE "register",
                                ![c].inc = IF exec = Nil THEN 0 ELSE exec.inc]
      /\ UNCHANGED <<exec, execSeq, disk, receipt, serving, monitor, process, latest, overtaken>>
  BY Zenon DEF WatchExit
<1>2. serving /\ calls[c] \in Calls /\ calls \in [Callers -> Calls]
  BY Zenon, <1>1, InService DEF ExecInv, ExecTypes
<1>3. /\ r \in Calls /\ r.stage \in {"watched", "register"}
      /\ r.stage = "register" => r.inc \in Incarnations
      /\ calls' = [calls EXCEPT ![c] = r]
  <2>1. exec # Nil => exec.inc \in Incarnations /\ exec.inc \in 0 .. MaxIncarnation
    BY SMTT(40), ExecAssumption DEF ExecInv, ExecTypes, Execs, Incarnations
  <2>2. /\ (IF exec = Nil THEN "watched" ELSE "register") \in {"watched", "register"}
        /\ (IF exec = Nil THEN 0 ELSE exec.inc) \in 0 .. MaxIncarnation
    BY Zenon, <2>1, ZeroInRange
  <2>3. r \in Calls /\ calls' = [calls EXCEPT ![c] = r]
    BY Zenon, <1>1, <1>2, <2>2 DEF Calls
  <2>4. /\ r.stage = IF exec = Nil THEN "watched" ELSE "register"
        /\ r.inc = IF exec = Nil THEN 0 ELSE exec.inc
    BY Zenon, <1>2 DEF Calls
  <2> QED BY ZenonT(30), <2>1, <2>2, <2>3, <2>4
<1> HIDE DEF r
<1>4. monitor' \in [inc : Incarnations, waits : BOOLEAN] \cup {Nil}
  BY Zenon, <1>1 DEF ExecInv, ExecTypes
<1>5. Served
  BY Zenon, <1>2, <1>3, <1>4, OneCall DEF Starting, Creating
<1> QED BY Zenon, <1>1, <1>5, UpdatedStep DEF Updated

\* The exit monitor is registered for the process.
LEMMA RegisterStep == ASSUME ExecInv, NEW c \in Callers, RegisterMonitor(c) PROVE ExecInv'
<1> DEFINE r == [calls[c] EXCEPT !.stage = "watched"]
<1>1. /\ calls[c].stage = "register"
      /\ monitor' = IF monitor = Nil THEN [inc |-> calls[c].inc, waits |-> FALSE] ELSE monitor
      /\ calls' = [calls EXCEPT ![c].stage = "watched"]
      /\ UNCHANGED <<exec, execSeq, disk, receipt, serving, process, latest, overtaken>>
  BY Zenon DEF RegisterMonitor
<1>2. /\ serving /\ calls[c] \in Calls /\ calls \in [Callers -> Calls]
      /\ calls[c].inc \in Incarnations
  BY Zenon, <1>1, InService DEF ExecInv, ExecTypes, Starting
<1>3. r \in Calls /\ r.stage = "watched" /\ calls' = [calls EXCEPT ![c] = r]
  BY Zenon, <1>1, <1>2 DEF Calls
<1> HIDE DEF r
<1>4. monitor' \in [inc : Incarnations, waits : BOOLEAN] \cup {Nil}
  BY Zenon, <1>1, <1>2 DEF ExecInv, ExecTypes
<1>5. Served
  BY Zenon, <1>2, <1>3, <1>4, OneCall DEF Starting, Creating
<1> QED BY Zenon, <1>1, <1>5, UpdatedStep DEF Updated

\* A start whose monitor runs answers.
LEMMA WatchedStep == ASSUME ExecInv, NEW c \in Callers, Watched(c) PROVE ExecInv'
<1>1. /\ calls[c].stage = "watched"
      /\ calls' = [calls EXCEPT ![c].stage = "sleep"] \/ EndCall(c)
      /\ UNCHANGED <<exec, execSeq, disk, receipt, serving, monitor, process, latest, overtaken>>
  BY Zenon DEF Watched
<1>2. serving
  BY Zenon, <1>1, InService
<1>3. Served
  BY Zenon, <1>1, <1>2, EndStep, StageStep DEF Creating
<1> QED BY Zenon, <1>1, <1>3, UpdatedStep DEF Updated

\* Wait looks for an exit.
LEMMA WaitStep == ASSUME ExecInv, NEW c \in Callers, WaitExec(c) PROVE ExecInv'
<1> DEFINE r == [IdleCall EXCEPT !.stage = "check", !.wait = TRUE]
<1>1. /\ serving /\ calls' = [calls EXCEPT ![c] = r]
      /\ UNCHANGED <<exec, execSeq, disk, receipt, serving, monitor, process, latest, overtaken>>
  BY Zenon DEF WaitExec
<1>2. r \in Calls /\ r.stage = "check"
  BY Zenon, ZeroInRange DEF IdleCall, Calls
<1> HIDE DEF r
<1>3. monitor' \in [inc : Incarnations, waits : BOOLEAN] \cup {Nil}
  BY Zenon, SMTT(40), <1>1 DEF ExecInv, ExecTypes
<1>4. Served
  BY Zenon, <1>1, <1>2, <1>3, OneCall DEF Starting, Creating
<1> QED BY Zenon, <1>1, <1>4, UpdatedStep DEF Updated

\* A woken Wait looks again.
LEMMA CheckStep == ASSUME ExecInv, NEW c \in Callers, CheckExit(c) PROVE ExecInv'
<1> DEFINE r == IF waitError \/ exec = Nil \/ (exec # Nil /\ exec.exit # 0) THEN IdleCall
                ELSE [calls[c] EXCEPT !.woken = FALSE,
                                      !.stage = IF exec.process # 0 THEN "watch" ELSE "sleep"]
<1>1. /\ calls[c].stage \in {"check", "sleep"}
      /\ calls' = [calls EXCEPT ![c] = r]
      /\ UNCHANGED <<exec, execSeq, disk, receipt, serving, monitor, process, latest, overtaken>>
  BY Zenon DEF CheckExit
<1>2. serving /\ calls[c] \in Calls
  BY Zenon, <1>1, InService
<1>3. r \in Calls /\ r.stage \in {"idle", "watch", "sleep"}
  <2>1. IdleCall \in Calls /\ IdleCall.stage = "idle"
    BY Zenon, ZeroInRange DEF IdleCall, Calls
  <2>2. \A stage \in {"watch", "sleep"} :
           LET w == [calls[c] EXCEPT !.woken = FALSE, !.stage = stage]
           IN  w \in Calls /\ w.stage = stage
    BY Zenon, <1>2 DEF Calls
  <2> QED BY Zenon, <2>1, <2>2
<1> HIDE DEF r
<1>4. monitor' \in [inc : Incarnations, waits : BOOLEAN] \cup {Nil}
  BY Zenon, <1>1 DEF ExecInv, ExecTypes
<1>5. Served
  BY Zenon, <1>1, <1>2, <1>3, <1>4, OneCall DEF Starting, Creating
<1> QED BY Zenon, <1>1, <1>5, UpdatedStep DEF Updated

\* The monitor ends or goes on, and may wake the waiters.
LEMMA MonitorServed ==
    ASSUME ExecInv, monitor # Nil, monitor' \in [inc : Incarnations, waits : BOOLEAN] \cup {Nil},
           calls' = calls \/ calls' = Woken(calls)
    PROVE  Served
<1>1. serving /\ calls \in [Callers -> Calls]
  BY Zenon DEF ExecInv, Stopped, ExecTypes
<1>2. /\ calls' \in [Callers -> Calls]
      /\ \A c \in Callers : calls'[c].stage = calls[c].stage /\ calls'[c].inc = calls[c].inc
  BY <1>1, WokenCalls
<1> QED BY Zenon, <1>1, <1>2 DEF Served, ExecInv, ExecTypes

\* The monitor sees the exit of its process.
LEMMA ObserveStep == ASSUME ExecInv, ObserveExit PROVE ExecInv'
<1>1. /\ monitor # Nil
      /\ calls' = calls \/ calls' = Woken(calls)
      /\ monitor' = Nil \/ monitor' = [monitor EXCEPT !.waits = TRUE]
      /\ UNCHANGED <<exec, execSeq, disk, receipt, serving, process, latest, overtaken>>
  BY Zenon DEF ObserveExit, MonitorFails
<1>2. monitor' \in [inc : Incarnations, waits : BOOLEAN] \cup {Nil}
  BY Zenon, <1>1 DEF ExecInv, ExecTypes
<1> QED BY Zenon, <1>1, <1>2, MonitorServed, UpdatedStep DEF Updated

\* The monitor records the exit for the exec it was started for.
LEMMA RecordStep == ASSUME ExecInv, RecordExecExit PROVE ExecInv'
<1>1. /\ monitor # Nil /\ process[monitor.inc] = "exited" /\ monitor' = Nil
      /\ calls' = calls \/ calls' = Woken(calls)
      /\ UNCHANGED <<execSeq, receipt, serving, process, latest, overtaken>>
  BY Zenon DEF RecordExecExit, MonitorFails
<1>2. Served
  BY Zenon, <1>1, MonitorServed
<1>3. Updated
  <2>1. CASE ~Current(monitor.inc)
    BY Zenon, <1>1, <2>1 DEF RecordExecExit, Updated
  <2>2. CASE Current(monitor.inc)
    <3>1. /\ exec # Nil /\ exec.inc = monitor.inc /\ monitor.inc \in Incarnations
          /\ exec' = [exec EXCEPT !.stage = "exited", !.exit = monitor.inc]
          /\ disk' \in {disk, [exec |-> exec', seq |-> execSeq]}
      BY Zenon, <1>1, <2>2
         DEF RecordExecExit, Persisted, PersistFailed, Current, ExecInv, ExecTypes
    <3>2. monitor.inc \in 0 .. MaxIncarnation
      BY <3>1, ExecAssumption DEF Incarnations
    <3>3. exec' \in Execs /\ exec'.inc = exec.inc /\ exec'.exit = monitor.inc
      BY Zenon, <3>1, <3>2 DEF ExecInv, ExecTypes, Execs
    <3>4. Exits(exec)'
      BY Zenon, <1>1, <3>1, <3>3 DEF Exits
    <3> QED BY Zenon, <1>1, <3>1, <3>3, <3>4 DEF Updated
  <2> QED BY Zenon, <2>1, <2>2
<1> QED BY Zenon, <1>2, <1>3, UpdatedStep

\* A process exits.
LEMMA ProcessExitStep == ASSUME ExecInv, NEW i \in Incarnations, ProcessExits(i) PROVE ExecInv'
<1>1. /\ process' = [process EXCEPT ![i] = "exited"]
      /\ UNCHANGED <<exec, execSeq, disk, receipt, serving, calls, monitor, latest, overtaken>>
  BY Zenon DEF ProcessExits
<1>2. /\ process' \in [Incarnations -> {"none", "running", "exited"}]
      /\ \A j \in Incarnations : process[j] = "exited" => process'[j] = "exited"
      /\ \A j \in Incarnations : process'[j] = "running" => process[j] = "running"
  BY Zenon, <1>1 DEF ExecInv, ExecTypes
<1> QED BY Zenon, <1>1, <1>2, ProcessStep

-----------------------------------------------------------------------------
(* Exec and Delete.                                                          *)

\* Exec takes the next incarnation for the ID.
LEMMA AddStep == ASSUME ExecInv, AddExec PROVE ExecInv'
<1> DEFINE n == execSeq + 1
           x == [inc |-> n, stage |-> "added", process |-> 0, exit |-> 0]
<1>1. /\ serving /\ exec = Nil /\ execSeq < MaxIncarnation
      /\ UNCHANGED <<serving, calls, monitor, process, overtaken>>
  BY Zenon DEF AddExec
<1>2. n \in Incarnations /\ n \in 0 .. MaxIncarnation
  BY <1>1, ExecAssumption DEF ExecInv, ExecTypes, Incarnations
<1>3. x \in Execs /\ x # Nil /\ x.inc = n /\ x.exit = 0
  <2>1. x \in Execs
    BY Zenon, <1>2, ZeroInRange DEF Execs
  <2> QED BY Zenon, <2>1, ExecAssumption
<1> HIDE DEF n, x
<1>4. ASSUME ~overtaken
      PROVE  /\ \A i \in Incarnations : process[i] # "running"
             /\ \A c \in Callers : calls[c].stage \in Creating => process[calls[c].inc] = "exited"
  BY Zenon, <1>1, <1>4 DEF ExecInv, Owned, Holds, Creating
<1>5. CASE /\ exec' = x /\ execSeq' = n /\ latest' = n
           /\ disk' = [exec |-> x, seq |-> n] /\ receipt' \in {Nil, receipt}
  <2>1. disk' \in [exec : Execs \cup {Nil}, seq : 0 .. MaxIncarnation] /\ disk'.exec = x
    BY Zenon, <1>2, <1>3, <1>5
  <2>2. ExecTypes'
    BY Zenon, <1>1, <1>2, <1>3, <1>5, <2>1 DEF ExecInv, ExecTypes
  <2>3. Stopped' /\ Exits(exec)' /\ Exits(disk.exec)' /\ ReceiptsFollow'
    BY Zenon, SMTT(40), <1>1, <1>3, <1>5, <2>1 DEF Stopped, Exits, ReceiptsFollow
  <2>4. Owned'
    BY Zenon, <1>1, <1>3, <1>4, <1>5, <2>1 DEF Owned, Holds, Creating
  <2> QED BY Zenon, <2>2, <2>3, <2>4 DEF ExecInv
<1>6. CASE disk' \in {disk, [exec |-> x, seq |-> n]} /\ UNCHANGED <<exec, execSeq, receipt, latest>>
  <2>1. /\ disk' \in [exec : Execs \cup {Nil}, seq : 0 .. MaxIncarnation]
        /\ disk'.exec = disk.exec \/ disk'.exec = x
    BY <1>2, <1>3, <1>6 DEF ExecInv, ExecTypes
  <2>2. ExecTypes'
    BY Zenon, <1>1, <1>6, <2>1 DEF ExecInv, ExecTypes
  <2>3. Stopped' /\ Exits(exec)'
    BY Zenon, <1>1, <1>6 DEF Stopped, Exits
  <2>4. Exits(disk.exec)' /\ ReceiptsFollow'
    BY Zenon, <1>1, <1>3, <1>6, <2>1 DEF ExecInv, Exits, ReceiptsFollow
  <2>5. Owned'
    BY Zenon, <1>1, <1>4, <1>6 DEF Owned, Holds, Creating
  <2> QED BY Zenon, <2>2, <2>3, <2>4, <2>5 DEF ExecInv
<1> QED BY Zenon, <1>5, <1>6 DEF AddExec, PersistFailed, n, x

\* Delete writes a receipt and removes the exec.
LEMMA DeleteStep == ASSUME ExecInv, DeleteExec PROVE ExecInv'
<1> DEFINE r == ReceiptOf(exec)
<1>1. /\ serving /\ exec # Nil /\ ~Running(exec)
      /\ UNCHANGED <<execSeq, serving, calls, process, latest>>
      /\ overtaken' = (overtaken \/ exec.process = 0)
  BY Zenon DEF DeleteExec
<1>2. /\ exec \in Execs /\ execSeq \in 0 .. MaxIncarnation
      /\ r \in [inc : Incarnations, exit : 0 .. MaxIncarnation] /\ r.inc = latest
  BY Zenon, <1>1 DEF ExecInv, ExecTypes, Execs, ReceiptOf, ReceiptsFollow
<1> HIDE DEF r
<1>3. overtaken' \in BOOLEAN /\ overtaken => overtaken'
  <2>1. overtaken' \in BOOLEAN
    BY Zenon, <1>1
  <2>2. overtaken => overtaken'
    BY Zenon, <1>1
  <2> QED BY Zenon, <2>1, <2>2
<1>4. ~overtaken' => ~overtaken /\ exec.exit # 0
  BY Zenon, <1>1 DEF Running
<1>5. ASSUME ~overtaken' PROVE ~overtaken /\ process[exec.inc] = "exited"
  BY Zenon, SMTT(40), <1>1, <1>4, <1>5 DEF ExecInv, Exits
<1>6. ASSUME ~overtaken'
      PROVE  /\ \A i \in Incarnations : process[i] # "running"
             /\ \A c \in Callers : calls[c].stage \in Creating => process[calls[c].inc] = "exited"
  BY Zenon, SMTT(40), <1>1, <1>5, <1>6 DEF ExecInv, Owned, Holds, Creating
<1>7. CASE /\ disk' = [exec |-> Nil, seq |-> execSeq] /\ receipt' = r /\ exec' = Nil /\ monitor' = Nil
  <2>1. ExecTypes'
    BY Zenon, <1>1, <1>2, <1>3, <1>7 DEF ExecInv, ExecTypes
  <2>2. Stopped' /\ Exits(exec)' /\ Exits(disk.exec)' /\ ReceiptsFollow'
    BY Zenon, <1>1, <1>2, <1>7 DEF Stopped, Exits, ReceiptsFollow
  <2>3. Owned'
    BY Zenon, <1>1, <1>6, <1>7 DEF Owned, Creating
  <2> QED BY Zenon, <2>1, <2>2, <2>3 DEF ExecInv
<1>8. CASE /\ receipt' \in {receipt, r} /\ UNCHANGED <<exec, monitor>>
           /\ \/ disk' = disk
              \/ receipt' = r /\ disk' = [exec |-> Nil, seq |-> execSeq]
  <2>1. ExecTypes'
    BY <1>1, <1>2, <1>3, <1>8 DEF ExecInv, ExecTypes
  <2>2. Stopped' /\ Exits(exec)'
    BY Zenon, <1>1, <1>8 DEF ExecInv, Stopped, Exits
  <2>3. Exits(disk.exec)' /\ ReceiptsFollow'
    BY SMTT(30), <1>1, <1>2, <1>8 DEF ExecInv, Exits, ReceiptsFollow
  <2>4. Owned'
    <3> SUFFICES ASSUME ~overtaken' PROVE Owned'
      BY Zenon DEF Owned
    <3> QED BY Zenon, <1>1, <1>5, <1>6, <1>8 DEF Owned, Creating
  <2> QED BY Zenon, <2>1, <2>2, <2>3, <2>4 DEF ExecInv
<1> QED BY Zenon, <1>7, <1>8 DEF DeleteExec, Persisted, PersistFailed, r

-----------------------------------------------------------------------------
(* Crash and rehydration.                                                    *)

\* A crash loses the calls, the monitor and the exec in memory.
LEMMA CrashStep == ASSUME ExecInv, ExecCrash PROVE ExecInv'
<1>1. /\ serving /\ serving' = FALSE /\ exec' = Nil /\ execSeq' = 0 /\ monitor' = Nil
      /\ calls' = [c \in Callers |-> IdleCall]
      /\ UNCHANGED <<disk, receipt, process, latest, overtaken>>
  BY Zenon DEF ExecCrash
<1>2. IdleCall \in Calls /\ IdleCall.stage = "idle"
  BY Zenon, ZeroInRange DEF IdleCall, Calls
<1>3. ExecTypes'
  BY Zenon, <1>1, <1>2, ZeroInRange DEF ExecInv, ExecTypes, Starting
<1>4. Stopped' /\ Exits(exec)'
  BY Zenon, <1>1, <1>2 DEF Stopped, Exits
<1>5. Exits(disk.exec)' /\ ReceiptsFollow'
  BY Zenon, <1>1 DEF ExecInv, Exits, ReceiptsFollow
<1>6. Owned'
  <2> SUFFICES ASSUME ~overtaken PROVE Owned'
    BY Zenon, <1>1 DEF Owned
  <2>1. \A i \in Incarnations : process[i] = "running" => Holds(disk.exec, i)
    BY Zenon, SMTT(40), <1>1 DEF ExecInv, Owned, Holds
  <2> QED BY Zenon, <1>1, <1>2, <2>1 DEF Owned, Holds
<1> QED BY Zenon, <1>3, <1>4, <1>5, <1>6 DEF ExecInv

\* Rehydration removes the receipt of an exec that is still on disk.
LEMMA RestoreReceiptsStep == ASSUME ExecInv, RestoreReceipts PROVE ExecInv'
<1>1. /\ receipt' = Nil
      /\ UNCHANGED <<exec, execSeq, disk, serving, calls, monitor, process, latest, overtaken>>
  BY Zenon DEF RestoreReceipts
<1> QED BY Zenon, <1>1 DEF ExecInv, ExecTypes, Stopped, Exits, ReceiptsFollow, Owned, Holds

\* Rehydration looks up or creates the process of a Starting or Started exec.
LEMMA RestoreProcessStep == ASSUME ExecInv, RestoreProcess PROVE ExecInv'
<1> DEFINE i == disk.exec.inc
<1>1. /\ ~serving /\ disk.exec # Nil /\ CreateProcess(i)
      /\ UNCHANGED <<exec, execSeq, disk, receipt, serving, calls, monitor, latest, overtaken>>
  BY Zenon DEF RestoreProcess, Recreated
<1>2. i \in Incarnations /\ Holds(disk.exec, i)
  BY Zenon, SMTT(40), <1>1 DEF ExecInv, ExecTypes, Execs, Holds
<1>3. process' = [process EXCEPT ![i] = IF process[i] = "none" THEN "running" ELSE process[i]]
  BY Zenon, <1>1 DEF CreateProcess
<1> HIDE DEF i
<1>4. /\ process' \in [Incarnations -> {"none", "running", "exited"}]
      /\ \A j \in Incarnations : process[j] = "exited" => process'[j] = "exited"
      /\ \A j \in Incarnations : process'[j] = "running" =>
            process[j] = "running" \/ Holds(disk.exec, j)
  BY Zenon, <1>2, <1>3 DEF ExecInv, ExecTypes
<1> QED BY Zenon, <1>1, <1>4, ProcessStep

\* The exec that rehydration builds is the one on disk, no earlier in its life.
LEMMA RestoredKeeps ==
    ASSUME ExecTypes
    PROVE  /\ RestoredExec \in Execs \cup {Nil}
           /\ RestoredExec = Nil <=> disk.exec = Nil
           /\ disk.exec # Nil => /\ RestoredExec.inc = disk.exec.inc
                                /\ RestoredExec.exit = disk.exec.exit
<1>1. CASE Recreated(disk.exec)
  <2>1. disk.exec \in Execs /\ disk.exec.inc \in 0 .. MaxIncarnation
    BY <1>1, ExecAssumption DEF ExecTypes, Recreated, Execs, Incarnations
  <2>2. RestoredExec = [disk.exec EXCEPT !.stage = "started", !.process = disk.exec.inc]
    BY Zenon, <1>1 DEF RestoredExec
  <2>3. RestoredExec \in Execs /\ RestoredExec.inc = disk.exec.inc
        /\ RestoredExec.exit = disk.exec.exit
    BY Zenon, <2>1, <2>2 DEF Execs
  <2> QED BY ZenonT(30), <2>1, <2>3, ExecAssumption
<1>2. CASE ~Recreated(disk.exec)
  BY Zenon, <1>2 DEF RestoredExec, ExecTypes
<1> QED BY Zenon, <1>1, <1>2

\* Rehydration installs the exec and serves.
LEMMA RestoreStep == ASSUME ExecInv, RestoreExec PROVE ExecInv'
<1> DEFINE x == RestoredExec
<1>1. ~serving /\ UNCHANGED <<receipt, calls, process, overtaken>> /\ ExecTypes
  BY Zenon DEF RestoreExec, ExecInv
<1>2. /\ exec = Nil /\ monitor = Nil /\ \A c \in Callers : calls[c].stage = "idle"
  BY Zenon, <1>1 DEF ExecInv, Stopped
<1>3. /\ x \in Execs \cup {Nil}
      /\ x = Nil <=> disk.exec = Nil
      /\ disk.exec # Nil => x.inc = disk.exec.inc /\ x.exit = disk.exec.exit
  BY Zenon, <1>1, RestoredKeeps
<1> HIDE DEF x
<1>4. CASE /\ disk' = [exec |-> x, seq |-> disk.seq] /\ exec' = x /\ execSeq' = disk.seq
           /\ latest' = IF x = Nil THEN latest ELSE x.inc
           /\ monitor' = IF x # Nil /\ Running(x) THEN [inc |-> x.inc, waits |-> FALSE] ELSE Nil
           /\ serving' = TRUE
  <2>1. /\ monitor' \in [inc : Incarnations, waits : BOOLEAN] \cup {Nil}
        /\ disk' \in [exec : Execs \cup {Nil}, seq : 0 .. MaxIncarnation]
        /\ disk'.exec = x /\ execSeq' \in 0 .. MaxIncarnation
    <3>1. disk.seq \in 0 .. MaxIncarnation
      BY Zenon, <1>1 DEF ExecTypes
    <3>2. x # Nil => x.inc \in Incarnations
      BY Zenon, <1>3 DEF Execs
    <3>3. monitor' \in [inc : Incarnations, waits : BOOLEAN] \cup {Nil}
      BY Zenon, <1>4, <3>2
    <3> HIDE DEF x
    <3> QED BY Zenon, SMTT(40), <1>3, <1>4, <3>1, <3>3
  <2>2. ExecTypes'
    BY Zenon, <1>1, <1>3, <1>4, <2>1 DEF ExecTypes
  <2>3. Stopped' /\ Exits(exec)' /\ Exits(disk.exec)'
    BY Zenon, <1>1, <1>3, <1>4, <2>1 DEF ExecInv, Stopped, Exits
  <2>4. ReceiptsFollow'
    BY Zenon, SMTT(40), <1>1, <1>3, <1>4, <2>1 DEF ExecInv, ReceiptsFollow
  <2>5. Owned'
    BY Zenon, SMTT(40), <1>1, <1>2, <1>3, <1>4, <2>1 DEF ExecInv, Owned, Holds
  <2> QED BY Zenon, <2>2, <2>3, <2>4, <2>5 DEF ExecInv
<1>5. CASE /\ disk' \in {disk, [exec |-> x, seq |-> disk.seq]}
           /\ UNCHANGED <<exec, execSeq, latest, monitor, serving>>
  <2>1. /\ disk' \in [exec : Execs \cup {Nil}, seq : 0 .. MaxIncarnation]
        /\ disk'.exec = x \/ disk'.exec = disk.exec
    <3>1. disk \in [exec : Execs \cup {Nil}, seq : 0 .. MaxIncarnation]
      BY Zenon, <1>1 DEF ExecTypes
    <3>2. CASE disk' = disk
      BY Zenon, <3>1, <3>2
    <3>3. CASE disk' = [exec |-> x, seq |-> disk.seq]
      BY Zenon, <1>3, <3>1, <3>3
    <3> QED BY Zenon, <1>5, <3>2, <3>3
  <2>2. ExecTypes'
    BY Zenon, <1>1, <1>5, <2>1 DEF ExecTypes
  <2>3. Stopped' /\ Exits(exec)'
    BY Zenon, <1>1, <1>2, <1>5 DEF Stopped, Exits
  <2>4. Exits(disk.exec)' /\ ReceiptsFollow'
    BY Zenon, SMTT(40), <1>1, <1>2, <1>3, <1>5, <2>1 DEF ExecInv, Exits, ReceiptsFollow
  <2>5. Owned'
    BY Zenon, <1>1, <1>2, <1>3, <1>5, <2>1 DEF ExecInv, Owned, Holds
  <2> QED BY Zenon, <2>2, <2>3, <2>4, <2>5 DEF ExecInv
<1> QED BY Zenon, <1>4, <1>5 DEF RestoreExec, Persisted, PersistFailed, x

-----------------------------------------------------------------------------
(* The theorems.                                                             *)

\* A shim without an exec satisfies the invariant.
LEMMA ExecInitially == ExecInit => ExecInv
<1> SUFFICES ASSUME ExecInit PROVE ExecInv
  BY Zenon
<1>1. IdleCall \in Calls /\ IdleCall.stage = "idle"
  BY Zenon, SMTT(30), ZeroInRange DEF IdleCall, Calls
<1>2. ExecTypes
  BY Zenon, <1>1, ZeroInRange DEF ExecInit, ExecTypes, Starting
<1>3. Stopped /\ Exits(exec) /\ Exits(disk.exec) /\ ReceiptsFollow
  BY Zenon DEF ExecInit, Stopped, Exits, ReceiptsFollow
<1>4. Owned
  BY Zenon, SMTT(40), <1>1 DEF ExecInit, Owned
<1> QED BY Zenon, <1>2, <1>3, <1>4 DEF ExecInv

\* The inductive invariant of an exec ID: receipts, exits, and the processes
\* that memory, metadata and requests in progress account for.
THEOREM ExecInvHolds == ExecSpec => []ExecInv
<1>1. ExecInv /\ [ExecNext]_execVars => ExecInv'
  <2> SUFFICES ASSUME ExecInv, [ExecNext]_execVars PROVE ExecInv'
    BY Zenon
  <2>1. CASE UNCHANGED execVars
    BY Zenon, <2>1 DEF execVars, ExecInv, ExecTypes, Stopped, Exits, ReceiptsFollow, Owned, Holds
  <2>2. ASSUME NEW c \in Callers, StartExec(c) \/ WaitExec(c) \/ CallStep(c) PROVE ExecInv'
    BY Zenon, <2>2, StartStep, WaitStep, StageStartStep, CreateStep, AttachStep, WatchStep, RegisterStep,
       WatchedStep, CheckStep DEF CallStep
  <2> QED BY Zenon, <2>1, <2>2, AddStep, DeleteStep, ObserveStep, RecordStep, ProcessExitStep, CrashStep,
             RestoreReceiptsStep, RestoreProcessStep, RestoreStep
             DEF ExecNext, MonitorStep
<1> QED BY <1>1, ExecInitially, PTL DEF ExecSpec

\* The delete journal answers for the incarnation that held the ID last,
\* whatever stores fail and wherever the shim crashes.
THEOREM ReceiptIsLatestHolds == ExecSpec => []ReceiptIsLatest
<1>1. ExecInv => ReceiptIsLatest
  BY Zenon DEF ExecInv, ReceiptsFollow, ReceiptIsLatest
<1> QED BY <1>1, ExecInvHolds, PTL

\* No monitor records the exit of one incarnation in another.
THEOREM ExitIsOwnHolds == ExecSpec => []ExitIsOwn
<1>1. ExecInv => ExitIsOwn
  BY Zenon DEF ExecInv, Exits, ExitIsOwn
<1> QED BY <1>1, ExecInvHolds, PTL

\* A process without an exec needs a Delete that overtook the record of the
\* process: crashes, failed stores and lost answers never leave one.
THEOREM NoOrphanExecHolds == ExecSpec => []NoOrphanExec
<1>1. ExecInv => NoOrphanExec
  BY Zenon DEF ExecInv, Owned, Holds, NoOrphanExec
<1> QED BY <1>1, ExecInvHolds, PTL

==============================================================================
