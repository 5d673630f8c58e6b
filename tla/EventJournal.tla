---------------------------- MODULE EventJournal ----------------------------
(* The durable event journal and its long polls                              *)
(* (crates/runtime/src/state/event.rs).                                      *)
(*                                                                           *)
(* An append makes three durable writes: the global sequence, the claim that *)
(* binds a deterministic identity to its sequence, and the record under that *)
(* sequence.  Each can be the last before an I/O error or the death of the   *)
(* host.  Appends and polls run under the store mutex and are atomic with    *)
(* respect to each other; a long poll holds it only while it reads, and      *)
(* sleeps on a tokio Notify in between.                                      *)
EXTENDS Naturals, FiniteSets, FiniteSetsExt

CONSTANTS Identities,      \* identities of the events the runtime may append
          Nobody,          \* no identity
          Pollers,         \* clients, each with an exclusive cursor of its own
          Matches,         \* the identities each client's filter lets through
          Limit,           \* the batch limit of a poll
          MaxSequence,     \* the largest sequence (u64 in the code)
          MaxFaults        \* interrupted appends and polls, and crashes

ASSUME JournalAssumption ==
    /\ Nobody \notin Identities
    /\ Matches \in [Pollers -> SUBSET Identities]
    /\ Limit \in Nat \ {0}
    /\ MaxSequence \in Nat
    /\ MaxFaults \in Nat

VARIABLES
    sequence,     \* events/sequence.json
    claim,        \* events/keys: the sequence of each claimed identity, or 0
    record,       \* events/records: the identity under each sequence, or Nobody
    announced,    \* identities whose append has returned to its operation
    up,           \* the host runs
    client,       \* the cursor each client would poll with next
    seen,         \* how often each client has received each sequence
    poll,         \* the poll of each client
    faults

vars == <<sequence, claim, record, announced, up, client, seen, poll, faults>>

Sequences == 1 .. MaxSequence

Idle == [stage |-> "idle", after |-> 0, notified |-> FALSE]

TypeOK ==
    /\ sequence \in 0 .. MaxSequence
    /\ claim \in [Identities -> 0 .. MaxSequence]
    /\ record \in [Sequences -> Identities \cup {Nobody}]
    /\ announced \subseteq Identities
    /\ up \in BOOLEAN
    /\ client \in [Pollers -> 0 .. MaxSequence]
    /\ seen \in [Pollers -> [Sequences -> Nat]]
    /\ poll \in [Pollers -> [stage : {"idle", "registered", "waiting"},
                             after : 0 .. MaxSequence, notified : BOOLEAN]]
    /\ faults \in 0 .. MaxFaults

Init ==
    /\ sequence = 0
    /\ claim = [i \in Identities |-> 0]
    /\ record = [s \in Sequences |-> Nobody]
    /\ announced = {}
    /\ up = TRUE
    /\ client = [p \in Pollers |-> 0]
    /\ seen = [p \in Pollers |-> [s \in Sequences |-> 0]]
    /\ poll = [p \in Pollers |-> Idle]
    /\ faults = 0

Fault ==
    /\ faults < MaxFaults
    /\ faults' = faults + 1

-----------------------------------------------------------------------------
(* append_event, under the store mutex.                                      *)

\* Mutant: Notify::notify_one, which reaches one of them.
NotifyOne ==
    IF \A p \in Pollers : poll[p].stage = "idle" THEN UNCHANGED poll
    ELSE \E p \in Pollers : /\ poll[p].stage # "idle"
                             /\ poll' = [poll EXCEPT ![p].notified = TRUE]

\* Notify::notify_waiters reaches exactly the polls that are registered.
NotifyWaiters ==
    poll' = [p \in Pollers |-> IF poll[p].stage = "idle" THEN poll[p]
                                ELSE [poll[p] EXCEPT !.notified = TRUE]]

\* A new identity: sequence, claim, record, then the notification.
AppendNew(i) ==
    /\ up
    /\ claim[i] = 0
    /\ sequence < MaxSequence
    /\ sequence' = sequence + 1
    /\ claim' = [claim EXCEPT ![i] = sequence']
    /\ record' = [record EXCEPT ![sequence'] = i]
    /\ announced' = announced \cup {i}
    /\ NotifyWaiters
    /\ UNCHANGED <<up, client, seen, faults>>

\* Mutant: a repeated identity takes a new sequence.
AppendAgainRenumbers(i) ==
    /\ up
    /\ claim[i] # 0
    /\ sequence < MaxSequence
    /\ sequence' = sequence + 1
    /\ claim' = [claim EXCEPT ![i] = sequence']
    /\ record' = [record EXCEPT ![sequence'] = i]
    /\ announced' = announced \cup {i}
    /\ NotifyWaiters
    /\ UNCHANGED <<up, client, seen, faults>>

\* A repeated identity keeps its sequence; a missing record is written.
AppendAgain(i) ==
    /\ up
    /\ claim[i] # 0
    /\ record' = [record EXCEPT ![claim[i]] = i]
    /\ announced' = announced \cup {i}
    /\ NotifyWaiters
    /\ UNCHANGED <<sequence, claim, up, client, seen, faults>>

\* Mutant: the record is written before the claim.
AppendInterruptedRecordFirst(i) ==
    /\ up
    /\ claim[i] = 0
    /\ sequence < MaxSequence
    /\ Fault
    /\ sequence' = sequence + 1
    /\ record' = [record EXCEPT ![sequence'] = i]
    /\ UNCHANGED <<claim, announced, up, client, seen, poll>>

\* An append cut short after its first, second or third write; a repeated one
\* has at most a missing record to write.
AppendInterrupted(i) ==
    /\ up
    /\ Fault
    /\ \/ /\ claim[i] = 0
          /\ sequence < MaxSequence
          /\ sequence' = sequence + 1
          /\ \/ UNCHANGED <<claim, record>>
             \/ /\ claim' = [claim EXCEPT ![i] = sequence']
                /\ record' \in {record, [record EXCEPT ![sequence'] = i]}
       \/ /\ claim[i] # 0
          /\ record' = [record EXCEPT ![claim[i]] = i]
          /\ UNCHANGED <<sequence, claim>>
    /\ UNCHANGED <<announced, up, client, seen, poll>>

-----------------------------------------------------------------------------
(* events: register for notifications, poll, and sleep if there was nothing. *)

Register(p, after) ==
    poll' = [poll EXCEPT ![p] = [stage |-> "registered", after |-> after, notified |-> FALSE]]

Begin(p) ==
    /\ up
    /\ poll[p] = Idle
    /\ Register(p, client[p])
    /\ UNCHANGED <<sequence, claim, record, announced, up, client, seen, faults>>

\* repair_pending_event_records: every claim gets its record.
Repaired ==
    [s \in Sequences |-> IF \E i \in Identities : claim[i] = s
                           THEN CHOOSE i \in Identities : claim[i] = s
                           ELSE record[s]]

\* The matching records behind the cursor, and the first Limit of them.
Pending(p, after) ==
    {s \in Sequences : s > after /\ Repaired[s] \in Matches[p]}

Batch(p, after) ==
    {s \in Pending(p, after) : Cardinality({t \in Pending(p, after) : t <= s}) <= Limit}

\* Mutant: the cursor always moves to the end of the journal.
NextSequenceIsLast(p, after) == Max({after, sequence})

\* A full batch ends at its last event, any other at the end of the journal.
NextSequence(p, after) ==
    IF Cardinality(Batch(p, after)) = Limit
      THEN Max(Batch(p, after))
      ELSE Max({after, sequence})

\* poll_events with its repair; an empty batch leaves the call waiting.
PollEvents(p) ==
    LET after == poll[p].after
        batch == Batch(p, after)
        next == NextSequence(p, after)
    IN  /\ up
        /\ poll[p].stage = "registered"
        /\ record' = Repaired
        /\ IF batch # {}
             THEN /\ client' = [client EXCEPT ![p] = next]
                  /\ seen' = [seen EXCEPT ![p] =
                                [s \in Sequences |-> @[s] + (IF s \in batch THEN 1 ELSE 0)]]
                  /\ poll' = [poll EXCEPT ![p] = Idle]
             ELSE /\ poll' = [poll EXCEPT ![p].stage = "waiting", ![p].after = next]
                  /\ UNCHANGED <<client, seen>>
        /\ UNCHANGED <<sequence, claim, announced, up, faults>>

\* A poll cut short: part of the repair is done, the client learns nothing.
PollInterrupted(p) ==
    /\ up
    /\ poll[p].stage = "registered"
    /\ Fault
    /\ \E repaired \in SUBSET Sequences :
          record' = [s \in Sequences |-> IF s \in repaired THEN Repaired[s] ELSE record[s]]
    /\ poll' = [poll EXCEPT ![p] = Idle]
    /\ UNCHANGED <<sequence, claim, announced, up, client, seen>>

\* Mutant: a notified call goes on from the end of the journal.
WakeAtEnd(p) ==
    /\ up
    /\ poll[p].stage = "waiting"
    /\ poll[p].notified
    /\ Register(p, sequence)
    /\ UNCHANGED <<sequence, claim, record, announced, up, client, seen, faults>>

\* A notified call registers again and polls from where the last poll ended.
Wake(p) ==
    /\ up
    /\ poll[p].stage = "waiting"
    /\ poll[p].notified
    /\ Register(p, poll[p].after)
    /\ UNCHANGED <<sequence, claim, record, announced, up, client, seen, faults>>

\* The deadline: the empty batch and its cursor are returned.
Expire(p) ==
    /\ up
    /\ poll[p].stage = "waiting"
    /\ client' = [client EXCEPT ![p] = poll[p].after]
    /\ poll' = [poll EXCEPT ![p] = Idle]
    /\ UNCHANGED <<sequence, claim, record, announced, up, seen, faults>>

-----------------------------------------------------------------------------
Crash ==
    /\ up
    /\ Fault
    /\ up' = FALSE
    /\ poll' = [p \in Pollers |-> Idle]
    /\ UNCHANGED <<sequence, claim, record, announced, client, seen>>

\* audit_event_journal, which the host runs before it serves again.
AuditEventJournal ==
    /\ \A i \in Identities : claim[i] <= sequence
    /\ \A i, j \in Identities : i # j /\ claim[i] = claim[j] => claim[i] = 0
    /\ \A s \in Sequences : record[s] # Nobody =>
          s <= sequence /\ claim[record[s]] = s

Reopen ==
    /\ ~up
    /\ AuditEventJournal
    /\ up' = TRUE
    /\ UNCHANGED <<sequence, claim, record, announced, client, seen, poll, faults>>

Next ==
    \/ \E i \in Identities : AppendNew(i)
    \/ \E i \in Identities : AppendAgain(i)
    \/ \E i \in Identities : AppendInterrupted(i)
    \/ \E p \in Pollers : Begin(p)
    \/ \E p \in Pollers : PollEvents(p)
    \/ \E p \in Pollers : PollInterrupted(p)
    \/ \E p \in Pollers : Wake(p)
    \/ \E p \in Pollers : Expire(p)
    \/ Crash
    \/ Reopen

Spec == Init /\ [][Next]_vars

\* Clients keep polling, the host is reopened, and no deadline need ever pass.
Fairness ==
    /\ \A p \in Pollers : WF_vars(Begin(p)) /\ WF_vars(PollEvents(p)) /\ WF_vars(Wake(p))
    /\ WF_vars(Reopen)

FairSpec == Spec /\ Fairness

-----------------------------------------------------------------------------
(* Properties.                                                               *)

\* The startup audit accepts the journal at every point an append or a repair
\* can be cut short: identities have sequences of their own, and no record
\* stands without the claim it belongs to.
JournalIsAuditable == AuditEventJournal

\* An identity keeps the sequence it was first claimed under, and a record,
\* once readable, keeps its contents.
SequencesAreForever ==
    [][/\ \A i \in Identities : claim[i] # 0 => claim'[i] = claim[i]
       /\ \A s \in Sequences : record[s] # Nobody => record'[s] = record[s]]_vars

\* Behind a client's cursor every claimed event its filter lets through has been
\* received exactly once, and none that it does not; ahead of it, nothing has.
ReceivedExactlyOnce ==
    \A p \in Pollers, i \in Identities : claim[i] # 0 =>
        seen[p][claim[i]] = IF claim[i] <= client[p] /\ i \in Matches[p] THEN 1 ELSE 0

\* A call does not sleep on an event: whenever an append has returned, every
\* waiting call it matters to has been notified.
NoLostWakeup ==
    \A p \in Pollers : poll[p].stage = "waiting" /\ ~poll[p].notified =>
        \A i \in announced \cap Matches[p] : claim[i] <= poll[p].after

\* An event whose append has returned reaches every client that keeps polling,
\* though none of its calls ever runs into its deadline.
AnnouncedIsReceived ==
    \A p \in Pollers, i \in Identities :
        i \in announced /\ i \in Matches[p] ~> claim[i] # 0 /\ seen[p][claim[i]] = 1
=============================================================================
