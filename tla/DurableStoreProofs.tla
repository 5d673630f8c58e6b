------------------------- MODULE DurableStoreProofs -------------------------
(* What every handler of the durable store preserves, for every set of       *)
(* containers and operations and every bound: whichever prefix of its writes *)
(* reaches the disk, the disk stays sound, and the journal moves by one step *)
(* of one operation.                                                         *)
EXTENDS DurableStore, TLAPS

Labels == {"torn", "error", "dispatch", "ack", "observed"}

-----------------------------------------------------------------------------
(* The single durable writes.                                                *)

\* An absent directory is a directory value.
LEMMA NoDirectoryType == NoDirectory \in Directories
BY RequestAssumption DEF NoDirectory, Partial, Directories, Generations

\* Journaling writes one entry and nothing else.
LEMMA JournaledWrite ==
  ASSUME NEW d \in Disks, NEW o \in Operations, NEW outcome \in Outcomes,
         NEW g \in Generations
  PROVE  LET e == Journaled(d, o, outcome, g)
         IN  /\ e \in Disks
             /\ e.journal[o] = [outcome |-> outcome, generation |-> g]
             /\ \A p \in Operations \ {o} : e.journal[p] = d.journal[p]
             /\ e.last = d.last /\ e.live = d.live
             /\ e.quarantine = d.quarantine /\ e.events = d.events
BY Zenon DEF Journaled, Disks, JournalEntries

\* Deciding writes one outcome and keeps its generation.
LEMMA DecideWrite ==
  ASSUME NEW d \in Disks, NEW o \in Operations, NEW outcome \in Outcomes
  PROVE  LET e == Decide(d, o, outcome)
         IN  /\ e \in Disks
             /\ e.journal[o] = [outcome |-> outcome, generation |-> d.journal[o].generation]
             /\ \A p \in Operations \ {o} : e.journal[p] = d.journal[p]
             /\ e.last = d.last /\ e.live = d.live
             /\ e.quarantine = d.quarantine /\ e.events = d.events
BY Zenon DEF Decide, Disks, JournalEntries

\* Writing a record touches the status and the claim of one live directory.
LEMMA RecordWrite ==
  ASSUME NEW d \in Disks, NEW c \in Containers, NEW status \in Statuses \cup {"none"},
         NEW active \in Operations \cup {NoOperation}
  PROVE  LET e == WriteRecord(d, c, status, active)
         IN  /\ e \in Disks
             /\ e.live[c].stage = d.live[c].stage
             /\ e.live[c].bundle = d.live[c].bundle
             /\ e.live[c].generation = d.live[c].generation
             /\ e.live[c].status = status
             /\ e.live[c].active = active
             /\ \A b \in Containers \ {c} : e.live[b] = d.live[b]
             /\ e.last = d.last /\ e.journal = d.journal
             /\ e.quarantine = d.quarantine /\ e.events = d.events
<1> DEFINE directory == [d.live[c] EXCEPT !.status = status, !.active = active]
<1>1. d.live[c] \in Directories BY Zenon DEF Disks
<1>2. /\ directory \in Directories
      /\ directory.stage = d.live[c].stage /\ directory.bundle = d.live[c].bundle
      /\ directory.generation = d.live[c].generation
      /\ directory.status = status /\ directory.active = active
  BY Zenon, <1>1 DEF Directories
<1>3. WriteRecord(d, c, status, active) = [d EXCEPT !.live[c] = directory]
  BY Zenon DEF WriteRecord, PutLive
<1> HIDE DEF directory
<1>4. QED BY <1>2, <1>3 DEF Disks

\* Emitting adds events.
LEMMA EmitWrite ==
  ASSUME NEW d \in Disks, NEW events \in SUBSET Events
  PROVE  LET e == Emit(d, events)
         IN  /\ e \in Disks
             /\ e.events = d.events \cup events
             /\ e.last = d.last /\ e.journal = d.journal
             /\ e.quarantine = d.quarantine /\ e.live = d.live
BY Zenon DEF Emit, Disks

\* The quarantine move takes a live directory out of the live namespace.
LEMMA MoveWrite ==
  ASSUME NEW d \in Disks, NEW o \in Operations
  PROVE  LET e == MoveToQuarantine(d, o)
         IN  /\ e \in Disks
             /\ e.live[Target[o]] = NoDirectory
             /\ \A b \in Containers \ {Target[o]} : e.live[b] = d.live[b]
             /\ e.quarantine[o] = d.live[Target[o]]
             /\ \A p \in Operations \ {o} : e.quarantine[p] = d.quarantine[p]
             /\ e.last = d.last /\ e.journal = d.journal /\ e.events = d.events
<1>1. Target[o] \in Containers BY Zenon, RequestAssumption
<1>2. QED BY Zenon, <1>1, NoDirectoryType DEF MoveToQuarantine, Disks

\* The events of an operation are events.
LEMMA OwnEventType ==
  ASSUME NEW d \in Disks, NEW o \in Operations
  PROVE  /\ \A s \in Suffixes : {OwnEvent(d, o, s)} \in SUBSET Events
         /\ AnnouncedBy(d, o) \in SUBSET Events
<1>1. Target[o] \in Containers /\ Kind[o] \in Kinds /\ d.journal[o].generation \in Generations
  BY Zenon, RequestAssumption DEF Disks, JournalEntries
<1>2. \A s \in Suffixes : {OwnEvent(d, o, s)} \in SUBSET Events
  BY <1>1 DEF OwnEvent, ContainerEvent, Events
<1>3. AnnouncedBy(d, o) \in SUBSET Events
  BY <1>1, <1>2 DEF AnnouncedBy, Events, Suffixes, Kinds
<1>4. QED BY Zenon, <1>2, <1>3

-----------------------------------------------------------------------------
(* What every disk satisfies, whichever write was the last one.              *)

\* Operations and live records are fenced by the allocated generations.
Fenced(d) ==
    /\ AuditOperations(d)
    /\ \A c \in Containers : HasRecord(d, c) => d.live[c].generation \in 1 .. d.last[c]

Claims(d) == \A c \in Containers : HasRecord(d, c) => ClaimIsRecoverable(d, c)

Announced(d) ==
    \A o \in Operations : Outcome(d, o) = "succeeded" => AnnouncedBy(d, o) \subseteq d.events

Sound(d) == d \in Disks /\ Fenced(d) /\ Claims(d) /\ Announced(d)

\* The event of an operation depends on the generation it is fenced to alone.
LEMMA SameAnnouncement ==
  ASSUME NEW d, NEW e, NEW o \in Operations,
         d.journal[o].generation = e.journal[o].generation
  PROVE  AnnouncedBy(d, o) = AnnouncedBy(e, o)
BY Zenon DEF AnnouncedBy, OwnEvent, ContainerEvent

\* The empty disk is sound.
LEMMA EmptyDiskSound == Sound(EmptyDisk)
<1>1. EmptyDisk \in Disks
  BY NoDirectoryType, RequestAssumption
  DEF EmptyDisk, Disks, JournalEntries, Outcomes, Generations
<1>2. \A o \in Operations : Outcome(EmptyDisk, o) = "absent" BY Zenon DEF EmptyDisk, Outcome
<1>3. \A c \in Containers : ~HasRecord(EmptyDisk, c)
  BY Zenon DEF EmptyDisk, HasRecord, NoDirectory, Partial
<1>4. QED BY Zenon, <1>1, <1>2, <1>3
  DEF Sound, Fenced, Claims, Announced, AuditOperations, IsCreation

\* Emitting events keeps a disk sound.
LEMMA EmitSound ==
  ASSUME NEW d, Sound(d), NEW events \in SUBSET Events
  PROVE  Sound(Emit(d, events))
<1> DEFINE e == Emit(d, events)
<1>0. d \in Disks BY Zenon DEF Sound
<1>1. /\ e \in Disks /\ e.events = d.events \cup events
      /\ e.last = d.last /\ e.journal = d.journal /\ e.live = d.live
  BY Zenon, <1>0, EmitWrite
<1> HIDE DEF e
<1>2. Fenced(e) BY <1>1 DEF Sound, Fenced, AuditOperations, Outcome, IsCreation, HasRecord
<1>3. Claims(e) BY <1>1 DEF Sound, Claims, HasRecord, ClaimIsRecoverable, Outcome
<1>4. Announced(e)
  <2> SUFFICES ASSUME NEW o \in Operations, Outcome(e, o) = "succeeded"
               PROVE  AnnouncedBy(e, o) \subseteq e.events
    BY Zenon DEF Announced
  <2>1. AnnouncedBy(e, o) = AnnouncedBy(d, o) BY Zenon, <1>1, SameAnnouncement
  <2>2. AnnouncedBy(d, o) \subseteq d.events BY Zenon, <1>1 DEF Sound, Announced, Outcome
  <2>3. QED BY Zenon, <2>1, <2>2, <1>1
<1>5. QED BY Zenon, <1>1, <1>2, <1>3, <1>4 DEF Sound, e

\* Writing a record keeps a disk sound if the claim it carries is none, the
\* one it had, or that of a prepared operation of this generation.
LEMMA RecordSound ==
  ASSUME NEW d, Sound(d), NEW c \in Containers, NEW status \in Statuses \cup {"none"},
         NEW active \in Operations \cup {NoOperation},
         \/ active = NoOperation
         \/ active = d.live[c].active
         \/ /\ active \in Operations
            /\ Target[active] = c
            /\ d.journal[active].generation = d.live[c].generation
            /\ Outcome(d, active) = "prepared"
  PROVE  Sound(WriteRecord(d, c, status, active))
<1> DEFINE e == WriteRecord(d, c, status, active)
<1>0. d \in Disks /\ d.live[c] \in Directories BY Zenon DEF Sound, Disks
<1>1. /\ e \in Disks
      /\ e.live[c].stage = d.live[c].stage
      /\ e.live[c].generation = d.live[c].generation
      /\ e.live[c].active = active
      /\ \A b \in Containers \ {c} : e.live[b] = d.live[b]
      /\ e.last = d.last /\ e.journal = d.journal /\ e.events = d.events
  BY <1>0, RecordWrite
<1> HIDE DEF e
<1>3. Fenced(e)
  BY SMTT(30), <1>1 DEF Sound, Fenced, AuditOperations, Outcome, IsCreation, HasRecord
<1>4. Claims(e) BY <1>1 DEF Sound, Claims, HasRecord, ClaimIsRecoverable, Outcome
<1>5. Announced(e)
  <2> SUFFICES ASSUME NEW o \in Operations, Outcome(e, o) = "succeeded"
               PROVE  AnnouncedBy(e, o) \subseteq e.events
    BY Zenon DEF Announced
  <2>1. AnnouncedBy(e, o) = AnnouncedBy(d, o) BY Zenon, <1>1, SameAnnouncement
  <2>2. AnnouncedBy(d, o) \subseteq d.events BY Zenon, <1>1 DEF Sound, Announced, Outcome
  <2>3. QED BY Zenon, <2>1, <2>2, <1>1
<1>6. QED BY Zenon, <1>1, <1>3, <1>4, <1>5 DEF Sound, e

\* Deciding a prepared operation keeps a disk sound if no live record claims it
\* any more, a failed creation excepted, and if its events are there when it
\* succeeds.
LEMMA DecideSound ==
  ASSUME NEW d, Sound(d), NEW o \in Operations, NEW outcome \in {"succeeded", "failed"},
         Outcome(d, o) = "prepared",
         \/ outcome = "failed" /\ Kind[o] = "create"
         \/ HasRecord(d, Target[o]) => d.live[Target[o]].active # o,
         outcome = "succeeded" => AnnouncedBy(d, o) \subseteq d.events
  PROVE  Sound(Decide(d, o, outcome))
<1> DEFINE e == Decide(d, o, outcome)
<1>0. d \in Disks /\ outcome \in Outcomes BY Zenon DEF Sound, Outcomes
<1>1. /\ e \in Disks
      /\ e.journal[o] = [outcome |-> outcome, generation |-> d.journal[o].generation]
      /\ \A p \in Operations \ {o} : e.journal[p] = d.journal[p]
      /\ e.last = d.last /\ e.live = d.live /\ e.events = d.events
  BY <1>0, DecideWrite
<1> HIDE DEF e
<1>2. /\ \A p \in Operations : e.journal[p].generation = d.journal[p].generation
      /\ \A p \in Operations \ {o} : Outcome(e, p) = Outcome(d, p)
      /\ Outcome(e, o) = outcome
  BY <1>1 DEF Outcome
<1>3. Fenced(e)
  <2>1. AuditOperations(e)
    BY <1>1, <1>2 DEF Sound, Fenced, AuditOperations, IsCreation
  <2>2. QED BY Zenon, <1>1, <2>1 DEF Sound, Fenced, HasRecord
<1>4. Claims(e)
  <2> SUFFICES ASSUME NEW c \in Containers, HasRecord(e, c), e.live[c].active # NoOperation
               PROVE  /\ Target[e.live[c].active] = c
                      /\ e.journal[e.live[c].active].generation = e.live[c].generation
                      /\ \/ Outcome(e, e.live[c].active) = "prepared"
                         \/ /\ Kind[e.live[c].active] = "create"
                            /\ Outcome(e, e.live[c].active) = "failed"
    BY Zenon DEF Claims, ClaimIsRecoverable
  <2> DEFINE a == d.live[c].active
  <2>1. a \in Operations /\ e.live[c].active = a
    BY <1>0, <1>1 DEF Disks, Directories
  <2>2. /\ HasRecord(d, c)
        /\ Target[a] = c
        /\ d.journal[a].generation = d.live[c].generation
        /\ \/ Outcome(d, a) = "prepared"
           \/ Kind[a] = "create" /\ Outcome(d, a) = "failed"
    BY <1>1 DEF Sound, Claims, ClaimIsRecoverable, HasRecord
  <2>3. CASE a # o BY <2>1, <2>2, <2>3, <1>1, <1>2
  <2>4. CASE a = o BY <2>1, <2>2, <2>4, <1>1, <1>2
  <2>5. QED BY Zenon, <2>3, <2>4
<1>5. Announced(e)
  <2> SUFFICES ASSUME NEW p \in Operations, Outcome(e, p) = "succeeded"
               PROVE  AnnouncedBy(e, p) \subseteq e.events
    BY Zenon DEF Announced
  <2>1. AnnouncedBy(e, p) = AnnouncedBy(d, p) BY <1>2, SameAnnouncement
  <2>2. AnnouncedBy(d, p) \subseteq d.events BY Zenon, <1>2 DEF Sound, Announced
  <2>3. QED BY Zenon, <2>1, <2>2, <1>1
<1>6. QED BY Zenon, <1>1, <1>3, <1>4, <1>5 DEF Sound, e

\* Moving a container to quarantine keeps a disk sound.
LEMMA MoveSound ==
  ASSUME NEW d, Sound(d), NEW o \in Operations
  PROVE  Sound(MoveToQuarantine(d, o))
<1> DEFINE e == MoveToQuarantine(d, o)
<1>0. d \in Disks BY Zenon DEF Sound
<1>1. /\ e \in Disks
      /\ e.live[Target[o]] = NoDirectory
      /\ \A b \in Containers \ {Target[o]} : e.live[b] = d.live[b]
      /\ e.last = d.last /\ e.journal = d.journal /\ e.events = d.events
  BY Zenon, <1>0, MoveWrite
<1> HIDE DEF e
<1>2. \A c \in Containers : HasRecord(e, c) => HasRecord(d, c) /\ e.live[c] = d.live[c]
  BY <1>1 DEF HasRecord, NoDirectory, Partial
<1>3. Fenced(e) BY <1>1, <1>2 DEF Sound, Fenced, AuditOperations, Outcome, IsCreation
<1>4. Claims(e) BY <1>1, <1>2 DEF Sound, Claims, ClaimIsRecoverable, Outcome
<1>5. Announced(e)
  <2> SUFFICES ASSUME NEW p \in Operations, Outcome(e, p) = "succeeded"
               PROVE  AnnouncedBy(e, p) \subseteq e.events
    BY Zenon DEF Announced
  <2>1. AnnouncedBy(e, p) = AnnouncedBy(d, p) BY Zenon, <1>1, SameAnnouncement
  <2>2. AnnouncedBy(d, p) \subseteq d.events BY Zenon, <1>1 DEF Sound, Announced, Outcome
  <2>3. QED BY Zenon, <2>1, <2>2, <1>1
<1>6. QED BY Zenon, <1>1, <1>3, <1>4, <1>5 DEF Sound, e

\* Journaling a new intent keeps a disk sound if its generation is allocated
\* and, for a creation, is no other creation's.
LEMMA JournaledSound ==
  ASSUME NEW d, Sound(d), NEW o \in Operations, NEW g \in Generations,
         Outcome(d, o) = "absent",
         g \in 1 .. d.last[Target[o]],
         Kind[o] = "create" => \A p \in Operations :
            IsCreation(d, p) /\ Target[p] = Target[o] => d.journal[p].generation # g
  PROVE  Sound(Journaled(d, o, "prepared", g))
<1> DEFINE e == Journaled(d, o, "prepared", g)
<1>0. d \in Disks /\ "prepared" \in Outcomes BY Zenon DEF Sound, Outcomes
<1>1. /\ e \in Disks
      /\ e.journal[o] = [outcome |-> "prepared", generation |-> g]
      /\ \A p \in Operations \ {o} : e.journal[p] = d.journal[p]
      /\ e.last = d.last /\ e.live = d.live /\ e.events = d.events
  BY <1>0, JournaledWrite
<1> HIDE DEF e
<1>2. /\ e.journal[o].generation = g
      /\ Outcome(e, o) = "prepared"
      /\ \A p \in Operations \ {o} : Outcome(e, p) = Outcome(d, p)
  BY <1>1 DEF Outcome
<1>3. Fenced(e)
  <2>1. \A p \in Operations : Outcome(e, p) # "absent" =>
           e.journal[p].generation \in 1 .. e.last[Target[p]]
    BY Zenon, <1>1, <1>2 DEF Sound, Fenced, AuditOperations
  <2>2. \A p, q \in Operations :
          p # q /\ IsCreation(e, p) /\ IsCreation(e, q) /\ Target[p] = Target[q]
            => e.journal[p].generation # e.journal[q].generation
    BY <1>1, <1>2 DEF Sound, Fenced, AuditOperations, IsCreation
  <2>3. QED BY Zenon, <1>1, <2>1, <2>2 DEF Sound, Fenced, AuditOperations, HasRecord
<1>4. Claims(e)
  <2> SUFFICES ASSUME NEW c \in Containers, HasRecord(e, c)
               PROVE  ClaimIsRecoverable(e, c)
    BY Zenon DEF Claims
  <2>1. HasRecord(d, c) /\ ClaimIsRecoverable(d, c) /\ e.live[c] = d.live[c]
    BY Zenon, <1>1 DEF Sound, Claims, HasRecord
  <2>2. d.live[c].active \in Operations \cup {NoOperation} BY Zenon, <1>0 DEF Disks, Directories
  <2>3. d.live[c].active # o \/ d.live[c].active = NoOperation
    BY Zenon, <2>1 DEF ClaimIsRecoverable
  <2>4. QED BY <1>1, <1>2, <2>1, <2>2, <2>3 DEF ClaimIsRecoverable
<1>5. Announced(e)
  <2> SUFFICES ASSUME NEW p \in Operations, Outcome(e, p) = "succeeded"
               PROVE  AnnouncedBy(e, p) \subseteq e.events
    BY Zenon DEF Announced
  <2>0. p # o BY Zenon, <1>2
  <2>1. AnnouncedBy(e, p) = AnnouncedBy(d, p) BY Zenon, <2>0, <1>1, SameAnnouncement
  <2>2. AnnouncedBy(d, p) \subseteq d.events BY Zenon, <2>0, <1>2 DEF Sound, Announced
  <2>3. QED BY Zenon, <2>1, <2>2, <1>1
<1>6. QED BY Zenon, <1>1, <1>3, <1>4, <1>5 DEF Sound, e

\* Allocating the next generation keeps a disk sound; no operation has it yet.
LEMMA AllocateSound ==
  ASSUME NEW d, Sound(d), NEW c \in Containers, d.last[c] < MaxGeneration
  PROVE  LET e == [d EXCEPT !.last[c] = d.last[c] + 1]
         IN  /\ Sound(e)
             /\ e.journal = d.journal /\ e.live = d.live
             /\ e.last[c] = d.last[c] + 1
             /\ \A p \in Operations : IsCreation(e, p) /\ Target[p] = c
                   => e.journal[p].generation # d.last[c] + 1
<1> DEFINE e == [d EXCEPT !.last[c] = d.last[c] + 1]
<1>0. d \in Disks /\ d.last \in [Containers -> Generations] BY Zenon DEF Sound, Disks
<1>1. d.last[c] + 1 \in Generations /\ d.last[c] \in Nat
  BY <1>0, RequestAssumption DEF Generations
<1>2. /\ e \in Disks
      /\ e.last[c] = d.last[c] + 1
      /\ \A b \in Containers \ {c} : e.last[b] = d.last[b]
      /\ e.journal = d.journal /\ e.live = d.live /\ e.events = d.events
  BY Zenon, <1>0, <1>1 DEF Disks
<1> HIDE DEF e
<1>3. \A b \in Containers, g \in Nat : g \in 1 .. d.last[b] => g \in 1 .. e.last[b]
  BY <1>0, <1>1, <1>2, RequestAssumption DEF Generations
<1>4. \A p \in Operations : Target[p] \in Containers /\ d.journal[p].generation \in Nat
  BY <1>0, RequestAssumption DEF Disks, JournalEntries, Generations
<1>5. \A b \in Containers : d.live[b].generation \in Nat
  BY <1>0, RequestAssumption DEF Disks, Directories, Generations
<1>6. Fenced(e)
  BY <1>2, <1>3, <1>4, <1>5 DEF Sound, Fenced, AuditOperations, Outcome, IsCreation, HasRecord
<1>7. Claims(e) BY <1>2 DEF Sound, Claims, HasRecord, ClaimIsRecoverable, Outcome
<1>8. Announced(e)
  <2> SUFFICES ASSUME NEW p \in Operations, Outcome(e, p) = "succeeded"
               PROVE  AnnouncedBy(e, p) \subseteq e.events
    BY Zenon DEF Announced
  <2>1. AnnouncedBy(e, p) = AnnouncedBy(d, p) BY Zenon, <1>2, SameAnnouncement
  <2>2. AnnouncedBy(d, p) \subseteq d.events BY Zenon, <1>2 DEF Sound, Announced, Outcome
  <2>3. QED BY Zenon, <2>1, <2>2, <1>2
<1>9. \A p \in Operations : IsCreation(e, p) /\ Target[p] = c
         => e.journal[p].generation # d.last[c] + 1
  <2> SUFFICES ASSUME NEW p \in Operations, IsCreation(e, p), Target[p] = c
               PROVE  e.journal[p].generation # d.last[c] + 1
    BY Zenon
  <2>1. d.journal[p].generation \in 1 .. d.last[c]
    BY Zenon, <1>2 DEF Sound, Fenced, AuditOperations, IsCreation, Outcome
  <2>2. QED BY <1>1, <1>2, <2>1
<1>10. QED BY Zenon, <1>2, <1>6, <1>7, <1>8, <1>9 DEF Sound, e

\* Putting a directory under a container ID keeps a disk sound if it has no
\* record yet, or the record of a prepared operation that claims it.
LEMMA PutLiveSound ==
  ASSUME NEW d, Sound(d), NEW c \in Containers, NEW x \in Directories,
         \/ x.stage # "record"
         \/ /\ x.active \in Operations
            /\ Target[x.active] = c
            /\ Outcome(d, x.active) = "prepared"
            /\ d.journal[x.active].generation = x.generation
  PROVE  LET e == PutLive(d, c, x)
         IN  /\ Sound(e)
             /\ e.journal = d.journal
             /\ e.live[c] = x
<1> DEFINE e == PutLive(d, c, x)
<1>0. d \in Disks BY Zenon DEF Sound
<1>1. /\ e \in Disks
      /\ e.live[c] = x
      /\ \A b \in Containers \ {c} : e.live[b] = d.live[b]
      /\ e.last = d.last /\ e.journal = d.journal /\ e.events = d.events
  BY Zenon, <1>0 DEF Disks, PutLive
<1> HIDE DEF e
<1>2. x.stage = "record" => x.generation \in 1 .. d.last[c]
  BY Zenon DEF Sound, Fenced, AuditOperations, Outcome
<1>3. Fenced(e)
  BY <1>1, <1>2 DEF Sound, Fenced, AuditOperations, Outcome, IsCreation, HasRecord
<1>4. Claims(e) BY <1>1 DEF Sound, Claims, HasRecord, ClaimIsRecoverable, Outcome
<1>5. Announced(e)
  <2> SUFFICES ASSUME NEW p \in Operations, Outcome(e, p) = "succeeded"
               PROVE  AnnouncedBy(e, p) \subseteq e.events
    BY Zenon DEF Announced
  <2>1. AnnouncedBy(e, p) = AnnouncedBy(d, p) BY <1>1, SameAnnouncement
  <2>2. AnnouncedBy(d, p) \subseteq d.events BY Zenon, <1>1 DEF Sound, Announced, Outcome
  <2>3. QED BY Zenon, <2>1, <2>2, <1>1
<1>6. QED BY Zenon, <1>1, <1>3, <1>4, <1>5 DEF Sound, e

-----------------------------------------------------------------------------
(* The handlers.  A handler for o changes no other journal entry, moves its  *)
(* own from absent to prepared or from prepared to one of ends within its    *)
(* generation, dispatches only a prepared operation and acknowledges only a  *)
(* decided one.                                                              *)

JournalStep(d, e, o, ends) ==
    /\ \A p \in Operations \ {o} : e.journal[p] = d.journal[p]
    /\ \/ e.journal[o] = d.journal[o]
       \/ Outcome(d, o) = "absent" /\ Outcome(e, o) = "prepared"
       \/ /\ Outcome(d, o) = "prepared" /\ Outcome(e, o) \in ends
          /\ e.journal[o].generation = d.journal[o].generation

Delivers(d, results, o, ends) ==
    \A r \in results :
        /\ Sound(r.disk)
        /\ JournalStep(d, r.disk, o, ends)
        /\ r.next \in Labels
        /\ r.next = "dispatch" => Outcome(r.disk, o) = "prepared"
        /\ r.next = "ack" => IsDecided(Outcome(r.disk, o))

\* A handler that goes through sound disks delivers.
LEMMA CommittedDelivers ==
  ASSUME NEW d, NEW o \in Operations, NEW steps, NEW last, NEW ends,
         NEW next \in {"error", "dispatch", "ack", "observed"},
         \A e \in steps \cup {last} : Sound(e) /\ JournalStep(d, e, o, ends),
         next = "dispatch" => Outcome(last, o) = "prepared",
         next = "ack" => IsDecided(Outcome(last, o))
  PROVE  Delivers(d, Committed(steps, last, next), o, ends)
<1> SUFFICES ASSUME NEW r \in Committed(steps, last, next)
             PROVE  /\ Sound(r.disk)
                    /\ JournalStep(d, r.disk, o, ends)
                    /\ r.next \in Labels
                    /\ r.next = "dispatch" => Outcome(r.disk, o) = "prepared"
                    /\ r.next = "ack" => IsDecided(Outcome(r.disk, o))
  BY Zenon DEF Delivers
<1>1. \/ r.disk \in steps \cup {last} /\ r.next = "torn"
      \/ r.disk = last /\ r.next = next
  BY DEF Committed, Result
<1>2. QED BY Zenon, <1>1 DEF Labels

\* A handler that refuses leaves the disk alone.
LEMMA RefusedDelivers ==
  ASSUME NEW d, Sound(d), NEW o \in Operations, NEW ends
  PROVE  Delivers(d, Refused(d), o, ends)
BY DEF Delivers, Refused, Result, JournalStep, Labels

\* A write, and then a handler that leaves the journal alone.
LEMMA AfterStep ==
  ASSUME NEW d, NEW m, NEW o \in Operations, NEW ends, NEW results,
         JournalStep(d, m, o, ends),
         Outcome(m, o) # "absent",
         Delivers(m, results, o, {})
  PROVE  Delivers(d, results, o, ends)
<1> SUFFICES ASSUME NEW r \in results PROVE JournalStep(d, r.disk, o, ends)
  BY Zenon DEF Delivers
<1>1. JournalStep(m, r.disk, o, {}) BY Zenon DEF Delivers
<1>2. r.disk.journal[o] = m.journal[o] BY Zenon, <1>1 DEF JournalStep
<1>3. QED BY Zenon, <1>1, <1>2 DEF JournalStep, Outcome

\* Claiming a live record of the operation's generation.
LEMMA ClaimSound ==
  ASSUME NEW d, Sound(d), NEW o \in Operations, Outcome(d, o) = "prepared",
         LoadsExact(d, o)
  PROVE  Sound(Claim(d, o)) /\ Claim(d, o).journal = d.journal
<1>1. Target[o] \in Containers /\ d \in Disks BY Zenon, RequestAssumption DEF Sound
<1>2. d.live[Target[o]].status \in Statuses \cup {"none"} BY Zenon, <1>1 DEF Disks, Directories
<1>3. Claim(d, o).journal = d.journal BY <1>1, <1>2, RecordWrite DEF Claim
<1>4. Sound(WriteRecord(d, Target[o], d.live[Target[o]].status, o))
  <2>1. d.journal[o].generation = d.live[Target[o]].generation BY Zenon DEF LoadsExact
  <2>2. QED BY Zenon, <1>1, <1>2, <2>1, RecordSound
<1>5. QED BY Zenon, <1>3, <1>4 DEF Claim

\* claim_active_operation for a prepared operation.
LEMMA ClaimAndDispatchDelivers ==
  ASSUME NEW d, Sound(d), NEW o \in Operations, Outcome(d, o) = "prepared",
         LoadsExact(d, o)
  PROVE  Delivers(d, ClaimAndDispatch(d, o), o, {})
<1>1. Sound(Claim(d, o)) /\ Claim(d, o).journal = d.journal BY Zenon, ClaimSound
<1>2. \A e \in {d} \cup {Claim(d, o)} : Sound(e) /\ JournalStep(d, e, o, {})
  BY Zenon, <1>1 DEF JournalStep
<1>3. Delivers(d, Committed({d}, Claim(d, o), "dispatch"), o, {})
  BY Zenon, <1>1, <1>2, CommittedDelivers DEF Outcome
<1>4. QED BY Zenon, <1>3, RefusedDelivers DEF ClaimAndDispatch

\* prepare_create of a prepared creation: every prefix of the rebuild is sound.
LEMMA ResumeCreateDelivers ==
  ASSUME NEW d, Sound(d), NEW o \in Operations, Outcome(d, o) = "prepared"
  PROVE  Delivers(d, ResumeCreate(d, o), o, {})
<1> DEFINE made == MakeDirectory(d, o)
           configured == StoreConfig(made, o)
           recorded == StoreContainer(configured, o)
           claimed == Claim(recorded, o)
           last == Emit(claimed, {OwnEvent(d, o, "creating")})
<1>1. /\ Target[o] \in Containers /\ d \in Disks
      /\ Bundle[o] \in Nat
      /\ d.journal[o].generation \in Generations
  BY Zenon, RequestAssumption DEF Sound, Disks, JournalEntries
<1>2. Sound(made) /\ made.journal = d.journal
  <2>1. Partial("directory", 0) \in Directories
    BY RequestAssumption DEF Partial, Directories, Generations
  <2>2. Partial("directory", 0).stage # "record" BY Zenon DEF Partial
  <2>3. QED BY <1>1, <2>1, <2>2, PutLiveSound DEF MakeDirectory
<1>3. Sound(configured) /\ configured.journal = d.journal
  <2> HIDE DEF made
  <2>1. Partial("config", Bundle[o]) \in Directories
    BY <1>1, RequestAssumption DEF Partial, Directories, Generations
  <2>2. Partial("config", Bundle[o]).stage # "record" BY Zenon DEF Partial
  <2>3. QED BY <1>1, <1>2, <2>1, <2>2, PutLiveSound DEF StoreConfig
<1>4. Sound(recorded) /\ recorded.journal = d.journal
  <2> HIDE DEF configured
  <2> DEFINE x == [stage |-> "record", bundle |-> Bundle[o],
                   generation |-> configured.journal[o].generation,
                   status |-> "creating", active |-> o]
  <2>1. x \in Directories BY Zenon, <1>1, <1>3 DEF Directories, Statuses
  <2>2. /\ x.active = o /\ x.generation = configured.journal[o].generation
    BY Zenon
  <2>3. Outcome(configured, o) = "prepared" BY Zenon, <1>3 DEF Outcome
  <2>4. recorded = IF configured.live[Target[o]].stage = "config"
                     THEN PutLive(configured, Target[o], x) ELSE configured
    BY Zenon DEF StoreContainer
  <2> HIDE DEF x, recorded
  <2>5. QED BY <1>1, <1>3, <2>1, <2>2, <2>3, <2>4, PutLiveSound
<1> HIDE DEF made, configured, recorded
<1>5. ASSUME LoadsExact(recorded, o)
      PROVE  Delivers(d, Committed({d, made, configured, recorded, claimed}, last, "dispatch"), o, {})
  <2>1. Sound(claimed) /\ claimed.journal = d.journal
    <3>1. Outcome(recorded, o) = "prepared" BY Zenon, <1>4 DEF Outcome
    <3>2. QED BY Zenon, <1>4, <1>5, <3>1, ClaimSound
  <2> HIDE DEF claimed
  <2>2. {OwnEvent(d, o, "creating")} \in SUBSET Events
    BY Zenon, <1>1, OwnEventType DEF Suffixes
  <2>3. Sound(last) BY Zenon, <2>1, <2>2, EmitSound
  <2>4. last.journal = d.journal BY Zenon, <2>1, <2>2, EmitWrite DEF Sound
  <2> HIDE DEF last
  <2>5. \A e \in {d, made, configured, recorded, claimed} \cup {last} :
           Sound(e) /\ JournalStep(d, e, o, {})
    BY Zenon, <1>2, <1>3, <1>4, <2>1, <2>3, <2>4 DEF JournalStep
  <2>6. Outcome(last, o) = "prepared" BY Zenon, <2>4 DEF Outcome
  <2>7. QED BY Zenon, <2>5, <2>6, CommittedDelivers
<1>6. QED BY Zenon, <1>5, RefusedDelivers
  DEF ResumeCreate, made, configured, recorded

\* prepare_create of a new operation: the generation is allocated, the intent is
\* journaled under it, and no other creation has it.
LEMMA NewCreateDelivers ==
  ASSUME NEW d, Sound(d), NEW o \in Operations, Outcome(d, o) = "absent"
  PROVE  Delivers(d, NewCreate(d, o), o, {"succeeded"})
<1> DEFINE c == Target[o]
           g == d.last[c] + 1
           allocated == [d EXCEPT !.last[c] = d.last[c] + 1]
           journaled == Journaled(allocated, o, "prepared", g)
<1>1. c \in Containers /\ d \in Disks BY Zenon, RequestAssumption DEF Sound
<1>2. ASSUME ~(d.last[c] >= MaxGeneration)
      PROVE  Delivers(d, {Result(d, "torn"), Result(allocated, "torn")} \cup ResumeCreate(journaled, o),
                      o, {"succeeded"})
  <2>1. d.last[c] \in Nat /\ d.last[c] < MaxGeneration /\ g \in Generations /\ g >= 1
    BY <1>1, <1>2, RequestAssumption DEF Disks, Generations
  <2>2. /\ Sound(allocated) /\ allocated.journal = d.journal
        /\ allocated.last[c] = g
        /\ \A p \in Operations : IsCreation(allocated, p) /\ Target[p] = c
              => allocated.journal[p].generation # g
    BY <1>1, <2>1, AllocateSound
  <2> HIDE DEF allocated
  <2>3. g \in 1 .. allocated.last[c] BY <2>1, <2>2
  <2>4. Outcome(allocated, o) = "absent" BY Zenon, <2>2 DEF Outcome
  <2>5. Sound(journaled) BY Zenon, <2>1, <2>2, <2>3, <2>4, JournaledSound
  <2>6. /\ journaled.journal[o] = [outcome |-> "prepared", generation |-> g]
        /\ \A p \in Operations \ {o} : journaled.journal[p] = d.journal[p]
    BY SMTT(30), <2>1, <2>2, JournaledWrite DEF Sound, Outcomes
  <2> HIDE DEF journaled, g
  <2>7. Outcome(journaled, o) = "prepared" BY <2>6 DEF Outcome
  <2>8. JournalStep(d, journaled, o, {"succeeded"}) BY Zenon, <2>6, <2>7 DEF JournalStep
  <2>9. Delivers(d, ResumeCreate(journaled, o), o, {"succeeded"})
    BY Zenon, <2>5, <2>7, <2>8, AfterStep, ResumeCreateDelivers
  <2>10. Delivers(d, {Result(d, "torn"), Result(allocated, "torn")}, o, {"succeeded"})
    BY <2>2 DEF Delivers, Result, JournalStep, Labels
  <2>11. QED BY Zenon, <2>9, <2>10 DEF Delivers
<1>3. QED BY Zenon, <1>2, RefusedDelivers DEF NewCreate

\* reconcile_failed_creation leaves the journal alone.
LEMMA QuarantineDelivers ==
  ASSUME NEW d, Sound(d), NEW o \in Operations, NEW next \in {"error", "ack"},
         Outcome(d, o) = "failed"
  PROVE  Delivers(d, QuarantineFailedCreation(d, o, next), o, {})
<1>1. Sound(MoveToQuarantine(d, o)) /\ MoveToQuarantine(d, o).journal = d.journal
  BY Zenon, MoveSound, MoveWrite DEF Sound
<1>2. ASSUME NEW e \in {d, MoveToQuarantine(d, o)}
      PROVE  Delivers(d, Committed({d}, e, next), o, {})
  <2>1. \A f \in {d} \cup {e} : Sound(f) /\ JournalStep(d, f, o, {})
    BY Zenon, <1>1 DEF JournalStep
  <2>2. IsDecided(Outcome(e, o)) BY Zenon, <1>1 DEF Outcome, IsDecided
  <2>3. QED BY Zenon, <2>1, <2>2, CommittedDelivers
<1>3. QED BY Zenon, <1>2, RefusedDelivers DEF QuarantineFailedCreation

\* A decided operation is answered from the journal.
LEMMA AnsweredDelivers ==
  ASSUME NEW d, Sound(d), NEW o \in Operations, NEW ends, IsDecided(Outcome(d, o))
  PROVE  Delivers(d, Committed({d}, d, "ack"), o, ends)
<1>1. \A f \in {d} \cup {d} : Sound(f) /\ JournalStep(d, f, o, ends) BY Zenon DEF JournalStep
<1>2. QED BY Zenon, <1>1, CommittedDelivers

\* reconcile_succeeded_<kind> leaves the disk alone.
LEMMA ReplaySucceededDelivers ==
  ASSUME NEW d, Sound(d), NEW o \in Operations, NEW ends, IsDecided(Outcome(d, o))
  PROVE  Delivers(d, ReplaySucceeded(d, o), o, ends)
BY Zenon, AnsweredDelivers, RefusedDelivers DEF ReplaySucceeded

\* Delivering without touching the journal is delivering.
LEMMA DeliversMore ==
  ASSUME NEW d, NEW results, NEW o, NEW ends, Delivers(d, results, o, {})
  PROVE  Delivers(d, results, o, ends)
BY Zenon DEF Delivers, JournalStep

\* A journal entry has one of the four outcomes.
LEMMA OutcomeType ==
  ASSUME NEW d, Sound(d), NEW o \in Operations
  PROVE  Outcome(d, o) \in Outcomes
BY Zenon DEF Sound, Disks, JournalEntries, Outcome

\* prepare_create.
LEMMA PrepareCreateDelivers ==
  ASSUME NEW d, Sound(d), NEW o \in Operations
  PROVE  Delivers(d, PrepareCreate(d, o), o, {"succeeded"})
<1>1. CASE Outcome(d, o) = "absent" BY Zenon, <1>1, NewCreateDelivers DEF PrepareCreate
<1>2. CASE Outcome(d, o) = "prepared"
  BY Zenon, <1>2, ResumeCreateDelivers, DeliversMore DEF PrepareCreate
<1>3. CASE Outcome(d, o) = "succeeded"
  BY <1>3, ReplaySucceededDelivers DEF PrepareCreate, IsDecided
<1>4. CASE Outcome(d, o) = "failed"
  BY Zenon, <1>4, QuarantineDelivers, DeliversMore DEF PrepareCreate
<1>5. QED BY Zenon, <1>1, <1>2, <1>3, <1>4, OutcomeType DEF Outcomes

\* The tail of a completion: the claim goes first, the events before the journal.
LEMMA FinishDelivers ==
  ASSUME NEW d, Sound(d), NEW o \in Operations, Outcome(d, o) = "prepared",
         NEW status \in Statuses \cup {"none"}
  PROVE  Delivers(d, Finish(d, o, status), o, {"succeeded"})
<1> DEFINE record == WriteRecord(d, Target[o], status, NoOperation)
           announced == Emit(record, AnnouncedBy(d, o))
           ending == status = "stopped" /\ Kind[o] \in {"start", "kill"}
           stopped == IF ending THEN Emit(announced, {OwnEvent(d, o, "stopped")})
                                ELSE announced
           last == Decide(stopped, o, "succeeded")
<1>1. Target[o] \in Containers /\ d \in Disks BY Zenon, RequestAssumption DEF Sound
<1>2. Sound(record) /\ record.journal = d.journal /\ record.live[Target[o]].active = NoOperation
  BY <1>1, RecordSound, RecordWrite
<1> HIDE DEF record
<1>3. AnnouncedBy(d, o) \in SUBSET Events /\ {OwnEvent(d, o, "stopped")} \in SUBSET Events
  BY Zenon, <1>1, OwnEventType DEF Suffixes
<1>4. /\ Sound(announced) /\ announced.journal = d.journal /\ announced.live = record.live
      /\ AnnouncedBy(d, o) \subseteq announced.events
  <2>1. record \in Disks BY Zenon, <1>2 DEF Sound
  <2>2. QED BY <1>2, <1>3, <2>1, EmitSound, EmitWrite
<1> HIDE DEF announced
<1>5. /\ Sound(stopped) /\ stopped.journal = d.journal /\ stopped.live = record.live
      /\ AnnouncedBy(d, o) \subseteq stopped.events
  <2>1. announced \in Disks BY Zenon, <1>4 DEF Sound
  <2>2. CASE ending
    <3>1. stopped = Emit(announced, {OwnEvent(d, o, "stopped")}) BY Zenon, <2>2
    <3>2. QED BY <1>3, <1>4, <2>1, <3>1, EmitSound, EmitWrite
  <2>3. CASE ~ending BY Zenon, <1>4, <2>3
  <2>4. QED BY Zenon, <2>2, <2>3
<1> HIDE DEF stopped
<1>6. /\ Sound(last)
      /\ Outcome(last, o) = "succeeded" /\ last.journal[o].generation = d.journal[o].generation
      /\ \A p \in Operations \ {o} : last.journal[p] = d.journal[p]
  <2>1. AnnouncedBy(stopped, o) \subseteq stopped.events
    BY Zenon, <1>5, SameAnnouncement
  <2>2. Outcome(stopped, o) = "prepared" BY Zenon, <1>5 DEF Outcome
  <2>3. stopped.live[Target[o]].active # o BY Zenon, <1>2, <1>5, RequestAssumption
  <2>4. Sound(last) BY Zenon, <1>5, <2>1, <2>2, <2>3, DecideSound
  <2>5. stopped \in Disks /\ "succeeded" \in Outcomes BY Zenon, <1>5 DEF Sound, Outcomes
  <2>6. /\ last.journal[o] = [outcome |-> "succeeded", generation |-> stopped.journal[o].generation]
        /\ \A p \in Operations \ {o} : last.journal[p] = stopped.journal[p]
    BY Zenon, <2>5, DecideWrite
  <2>7. QED BY <1>5, <2>4, <2>6 DEF Outcome
<1> HIDE DEF last
<1>7. \A e \in {d, record, announced, stopped} \cup {last} :
         Sound(e) /\ JournalStep(d, e, o, {"succeeded"})
  BY Zenon, <1>2, <1>4, <1>5, <1>6 DEF JournalStep
<1>8. IsDecided(Outcome(last, o)) BY Zenon, <1>6 DEF IsDecided
<1>9. Delivers(d, Committed({d, record, announced, stopped}, last, "ack"), o, {"succeeded"})
  BY Zenon, <1>7, <1>8, CommittedDelivers
<1>10. QED BY Zenon, <1>9 DEF Finish, record, announced, stopped, last

\* A new mutation is journaled under the generation of the live record.
LEMMA JournaledMutation ==
  ASSUME NEW d, Sound(d), NEW o \in Operations, Outcome(d, o) = "absent",
         Kind[o] # "create", HasRecord(d, Target[o])
  PROVE  LET e == Journaled(d, o, "prepared", d.live[Target[o]].generation)
         IN  Delivers(d, {Result(d, "torn")} \cup ClaimAndDispatch(e, o), o, {"succeeded"})
<1> DEFINE g == d.live[Target[o]].generation
           e == Journaled(d, o, "prepared", g)
<1>1. Target[o] \in Containers /\ d \in Disks /\ "prepared" \in Outcomes
  BY Zenon, RequestAssumption DEF Sound, Outcomes
<1>2. g \in Generations /\ g \in 1 .. d.last[Target[o]]
  BY Zenon, <1>1 DEF Disks, Directories, Sound, Fenced
<1>3. Sound(e) BY Zenon, <1>2, JournaledSound
<1>4. /\ e.journal[o] = [outcome |-> "prepared", generation |-> g]
      /\ \A p \in Operations \ {o} : e.journal[p] = d.journal[p]
      /\ e.live = d.live
  BY <1>1, <1>2, JournaledWrite
<1> HIDE DEF e
<1>5. LoadsExact(e, o)
  <2>1. e.live[Target[o]].stage = "record" BY Zenon, <1>4 DEF HasRecord
  <2>2. e.live[Target[o]].generation = g BY Zenon, <1>4
  <2> HIDE DEF g
  <2>3. e.journal[o].generation = g BY <1>4
  <2>4. QED BY Zenon, <2>1, <2>2, <2>3 DEF LoadsExact, HasRecord
<1> HIDE DEF g
<1>6. Outcome(e, o) = "prepared" BY <1>4 DEF Outcome
<1>7. JournalStep(d, e, o, {"succeeded"}) BY Zenon, <1>4, <1>6 DEF JournalStep
<1>8. Delivers(d, ClaimAndDispatch(e, o), o, {"succeeded"})
  BY Zenon, <1>3, <1>5, <1>6, <1>7, AfterStep, ClaimAndDispatchDelivers
<1>9. Delivers(d, {Result(d, "torn")}, o, {"succeeded"})
  BY DEF Delivers, Result, JournalStep, Labels
<1>10. QED BY Zenon, <1>8, <1>9 DEF Delivers, e, g

\* A live directory has a status, or none while it is being made.
LEMMA StatusType ==
  ASSUME NEW d, Sound(d), NEW c \in Containers
  PROVE  d.live[c].status \in Statuses \cup {"none"}
BY Zenon DEF Sound, Disks, Directories

\* prepare_start, prepare_kill, prepare_freezer, prepare_update.
LEMMA PrepareMutationDelivers ==
  ASSUME NEW d, Sound(d), NEW o \in Operations, Kind[o] # "create"
  PROVE  Delivers(d, PrepareMutation(d, o), o, {"succeeded"})
<1>0. Target[o] \in Containers BY Zenon, RequestAssumption
<1>1. CASE Outcome(d, o) = "absent"
  <2>1. Delivers(d, NewMutation(d, o), o, {"succeeded"})
    BY Zenon, <1>1, JournaledMutation, RefusedDelivers DEF NewMutation
  <2>2. QED BY Zenon, <1>1, <2>1 DEF PrepareMutation
<1>2. CASE Outcome(d, o) = "prepared"
  <2>1. Delivers(d, Finish(d, o, d.live[Target[o]].status), o, {"succeeded"})
    BY Zenon, <1>0, <1>2, StatusType, FinishDelivers
  <2>2. ASSUME LoadsExact(d, o) PROVE Delivers(d, ClaimAndDispatch(d, o), o, {"succeeded"})
    BY Zenon, <1>2, <2>2, ClaimAndDispatchDelivers, DeliversMore
  <2>3. Delivers(d, ResumeMutation(d, o), o, {"succeeded"})
    BY Zenon, <2>1, <2>2, RefusedDelivers DEF ResumeMutation
  <2>4. QED BY Zenon, <1>2, <2>3 DEF PrepareMutation
<1>3. CASE Outcome(d, o) = "succeeded"
  BY <1>3, AnsweredDelivers, ReplaySucceededDelivers DEF PrepareMutation, IsDecided
<1>4. CASE Outcome(d, o) = "failed"
  BY Zenon, <1>4, RefusedDelivers DEF PrepareMutation
<1>5. QED BY Zenon, <1>1, <1>2, <1>3, <1>4, OutcomeType DEF Outcomes

\* What a completion commits is a status.
LEMMA SettledType ==
  ASSUME NEW kind \in Kinds, NEW status \in Statuses \cup {"none"}, NEW reply,
         Settled(kind, status, reply) # "refused"
  PROVE  Settled(kind, status, reply) \in Statuses \cup {"none"}
BY Zenon DEF Settled, Kinds, Statuses, Transition, IsRunning

\* complete_create, complete_start, complete_kill, complete_freezer, complete_update.
LEMMA CompleteMutationDelivers ==
  ASSUME NEW d, Sound(d), NEW o \in Operations, NEW reply
  PROVE  Delivers(d, CompleteMutation(d, o, reply), o, {"succeeded"})
<1> DEFINE settled == Settled(Kind[o], d.live[Target[o]].status, reply)
<1>1. ASSUME Outcome(d, o) = "prepared", settled # "refused"
      PROVE  Delivers(d, Finish(d, o, settled), o, {"succeeded"})
  <2>1. Target[o] \in Containers /\ Kind[o] \in Kinds BY Zenon, RequestAssumption
  <2>2. settled \in Statuses \cup {"none"} BY Zenon, <1>1, <2>1, StatusType, SettledType
  <2>3. QED BY Zenon, <1>1, <2>2, FinishDelivers
<1> HIDE DEF settled
<1>2. CASE Outcome(d, o) = "prepared"
  BY Zenon, <1>1, <1>2, RefusedDelivers DEF CompleteMutation, settled
<1>3. CASE Outcome(d, o) = "succeeded"
  BY <1>3, AnsweredDelivers DEF CompleteMutation, IsDecided
<1>4. CASE Outcome(d, o) \notin {"prepared", "succeeded"}
  BY Zenon, <1>4, RefusedDelivers DEF CompleteMutation
<1>5. QED BY Zenon, <1>2, <1>3, <1>4

\* The tail of a delete, from a disk on which the record is no longer the
\* operation's.
LEMMA FinishDeleteDelivers ==
  ASSUME NEW d, Sound(d), NEW o \in Operations, NEW steps, NEW m, Sound(m),
         Outcome(d, o) = "prepared", m.journal = d.journal,
         \A e \in steps : Sound(e) /\ e.journal = d.journal,
         HasRecord(m, Target[o]) => m.live[Target[o]].active # o
  PROVE  Delivers(d, FinishDelete(steps, m, o), o, {"succeeded"})
<1> DEFINE stopped == Emit(m, {OwnEvent(m, o, "stopped")})
           deleted == Emit(stopped, AnnouncedBy(m, o))
           last == Decide(deleted, o, "succeeded")
<1>1. AnnouncedBy(m, o) \in SUBSET Events /\ {OwnEvent(m, o, "stopped")} \in SUBSET Events
  BY Zenon, OwnEventType DEF Suffixes, Sound
<1>2. Sound(stopped) /\ stopped.journal = d.journal /\ stopped.live = m.live
  BY Zenon, <1>1, EmitSound, EmitWrite DEF Sound
<1> HIDE DEF stopped
<1>3. /\ Sound(deleted) /\ deleted.journal = d.journal /\ deleted.live = m.live
      /\ AnnouncedBy(m, o) \subseteq deleted.events
  <2>1. stopped \in Disks BY Zenon, <1>2 DEF Sound
  <2>2. QED BY Zenon, <1>1, <1>2, <2>1, EmitSound, EmitWrite
<1> HIDE DEF deleted
<1>4. /\ Sound(last)
      /\ Outcome(last, o) = "succeeded" /\ last.journal[o].generation = d.journal[o].generation
      /\ \A p \in Operations \ {o} : last.journal[p] = d.journal[p]
  <2>1. AnnouncedBy(deleted, o) \subseteq deleted.events BY Zenon, <1>3, SameAnnouncement
  <2>2. Outcome(deleted, o) = "prepared" BY Zenon, <1>3 DEF Outcome
  <2>3. HasRecord(deleted, Target[o]) => deleted.live[Target[o]].active # o
    BY Zenon, <1>3 DEF HasRecord
  <2>4. Sound(last) BY Zenon, <1>3, <2>1, <2>2, <2>3, DecideSound
  <2>5. deleted \in Disks /\ "succeeded" \in Outcomes BY Zenon, <1>3 DEF Sound, Outcomes
  <2>6. /\ last.journal[o] = [outcome |-> "succeeded", generation |-> deleted.journal[o].generation]
        /\ \A p \in Operations \ {o} : last.journal[p] = deleted.journal[p]
    BY Zenon, <2>5, DecideWrite
  <2>7. QED BY <1>3, <2>4, <2>6 DEF Outcome
<1> HIDE DEF last
<1>5. \A e \in (steps \cup {m, stopped, deleted}) \cup {last} :
         Sound(e) /\ JournalStep(d, e, o, {"succeeded"})
  BY Zenon, <1>2, <1>3, <1>4 DEF JournalStep
<1>6. IsDecided(Outcome(last, o)) BY Zenon, <1>4 DEF IsDecided
<1>7. Delivers(d, Committed(steps \cup {m, stopped, deleted}, last, "ack"), o, {"succeeded"})
  BY Zenon, <1>5, <1>6, CommittedDelivers
<1>8. QED BY Zenon, <1>7 DEF FinishDelete, stopped, deleted, last

\* A record of another generation is not claimed by the operation.
LEMMA OtherGenerationUnclaimed ==
  ASSUME NEW d, Sound(d), NEW o \in Operations, AlreadyMoved(d, o)
  PROVE  HasRecord(d, Target[o]) => d.live[Target[o]].active # o
<1> SUFFICES ASSUME HasRecord(d, Target[o]), d.live[Target[o]].active = o PROVE FALSE
  BY Zenon
<1>1. Target[o] \in Containers /\ o # NoOperation BY Zenon, RequestAssumption
<1>2. d.journal[o].generation = d.live[Target[o]].generation
  BY Zenon, <1>1 DEF Sound, Claims, ClaimIsRecoverable
<1>3. QED BY Zenon, <1>2 DEF AlreadyMoved, HasRecord, HasDirectory

\* The tail of a delete whose directory has moved in an earlier call.
LEMMA MovedDeleteDelivers ==
  ASSUME NEW d, Sound(d), NEW o \in Operations, Outcome(d, o) = "prepared", AlreadyMoved(d, o)
  PROVE  Delivers(d, FinishDelete({d}, d, o), o, {"succeeded"})
BY Zenon, OtherGenerationUnclaimed, FinishDeleteDelivers

\* prepare_delete.
LEMMA PrepareDeleteDelivers ==
  ASSUME NEW d, Sound(d), NEW o \in Operations, Kind[o] # "create"
  PROVE  Delivers(d, PrepareDelete(d, o), o, {"succeeded"})
<1>1. CASE Outcome(d, o) = "absent"
  <2>1. Delivers(d, NewDelete(d, o), o, {"succeeded"})
    BY Zenon, <1>1, JournaledMutation, RefusedDelivers DEF NewDelete
  <2>2. QED BY Zenon, <1>1, <2>1 DEF PrepareDelete
<1>2. CASE Outcome(d, o) = "prepared"
  <2>1. ASSUME StillLive(d, o) PROVE Delivers(d, ClaimAndDispatch(d, o), o, {"succeeded"})
    BY Zenon, <1>2, <2>1, ClaimAndDispatchDelivers, DeliversMore DEF StillLive
  <2>2. QED BY Zenon, <1>2, <2>1, MovedDeleteDelivers, RefusedDelivers DEF PrepareDelete
<1>3. CASE Outcome(d, o) = "succeeded"
  BY <1>3, AnsweredDelivers DEF PrepareDelete, IsDecided
<1>4. CASE Outcome(d, o) = "failed"
  BY Zenon, <1>4, RefusedDelivers DEF PrepareDelete
<1>5. QED BY Zenon, <1>1, <1>2, <1>3, <1>4, OutcomeType DEF Outcomes

\* complete_delete.
LEMMA CompleteDeleteDelivers ==
  ASSUME NEW d, Sound(d), NEW o \in Operations
  PROVE  Delivers(d, CompleteDelete(d, o), o, {"succeeded"})
<1>1. CASE Outcome(d, o) = "prepared"
  <2> DEFINE m == MoveToQuarantine(d, o)
  <2>1. Sound(m) /\ m.journal = d.journal /\ m.live[Target[o]] = NoDirectory
    BY Zenon, MoveSound, MoveWrite DEF Sound
  <2>2. ~HasRecord(m, Target[o]) BY <2>1 DEF HasRecord, NoDirectory, Partial
  <2> HIDE DEF m
  <2>3. Delivers(d, FinishDelete({d}, m, o), o, {"succeeded"})
    BY Zenon, <1>1, <2>1, <2>2, FinishDeleteDelivers
  <2>4. QED BY Zenon, <1>1, <2>3, MovedDeleteDelivers, RefusedDelivers DEF CompleteDelete, m
<1>2. CASE Outcome(d, o) = "succeeded"
  BY <1>2, AnsweredDelivers DEF CompleteDelete, IsDecided
<1>3. CASE Outcome(d, o) \notin {"prepared", "succeeded"}
  BY Zenon, <1>3, RefusedDelivers DEF CompleteDelete
<1>4. QED BY Zenon, <1>1, <1>2, <1>3

\* fail_operation of a creation: journaled as failed, then quarantined.
LEMMA FailCreationDelivers ==
  ASSUME NEW d, Sound(d), NEW o \in Operations, Outcome(d, o) = "prepared",
         Kind[o] = "create"
  PROVE  Delivers(d, FailCreation(d, o), o, {"failed"})
<1> DEFINE failed == Decide(d, o, "failed")
<1>1. Sound(failed) BY Zenon, DecideSound
<1>2. d \in Disks /\ "failed" \in Outcomes BY Zenon DEF Sound, Outcomes
<1>3. /\ failed.journal[o] = [outcome |-> "failed", generation |-> d.journal[o].generation]
      /\ \A p \in Operations \ {o} : failed.journal[p] = d.journal[p]
  BY Zenon, <1>2, DecideWrite
<1> HIDE DEF failed
<1>4. Outcome(failed, o) = "failed" BY <1>3 DEF Outcome
<1>5. JournalStep(d, failed, o, {"failed"}) BY <1>3, <1>4 DEF JournalStep
<1>6. Delivers(failed, QuarantineFailedCreation(failed, o, "ack"), o, {})
  BY Zenon, <1>1, <1>4, QuarantineDelivers
<1>7. Delivers(d, QuarantineFailedCreation(failed, o, "ack"), o, {"failed"})
  BY Zenon, <1>4, <1>5, <1>6, AfterStep
<1>8. Delivers(d, {Result(d, "torn")}, o, {"failed"})
  BY DEF Delivers, Result, JournalStep, Labels
<1>9. QED BY Zenon, <1>7, <1>8 DEF FailCreation, failed, Delivers

\* fail_operation of any other kind: the claim is released, then it is journaled.
LEMMA FailMutationDelivers ==
  ASSUME NEW d, Sound(d), NEW o \in Operations, Outcome(d, o) = "prepared"
  PROVE  Delivers(d, FailMutation(d, o), o, {"failed"})
<1> DEFINE released == WriteRecord(d, Target[o], d.live[Target[o]].status, NoOperation)
           last == Decide(released, o, "failed")
<1>1. Target[o] \in Containers /\ d \in Disks BY Zenon, RequestAssumption DEF Sound
<1>2. Sound(released) /\ released.journal = d.journal /\ released.live[Target[o]].active = NoOperation
  <2>1. d.live[Target[o]].status \in Statuses \cup {"none"} BY Zenon, <1>1, StatusType
  <2>2. Sound(released) BY Zenon, <1>1, <2>1, RecordSound
  <2>3. released.journal = d.journal /\ released.live[Target[o]].active = NoOperation
    BY <1>1, <2>1, RecordWrite
  <2>4. QED BY Zenon, <2>2, <2>3
<1> HIDE DEF released
<1>3. released \in Disks /\ "failed" \in Outcomes BY Zenon, <1>2 DEF Sound, Outcomes
<1>4. Sound(last)
  <2>1. Outcome(released, o) = "prepared" BY Zenon, <1>2 DEF Outcome
  <2>2. released.live[Target[o]].active # o BY Zenon, <1>2, RequestAssumption
  <2>3. QED BY Zenon, <1>2, <2>1, <2>2, DecideSound
<1>5. /\ last.journal[o] = [outcome |-> "failed", generation |-> released.journal[o].generation]
      /\ \A p \in Operations \ {o} : last.journal[p] = released.journal[p]
  BY Zenon, <1>3, DecideWrite
<1> HIDE DEF last
<1>6. Outcome(last, o) = "failed" BY <1>5 DEF Outcome
<1>7. \A e \in {d, released} \cup {last} : Sound(e) /\ JournalStep(d, e, o, {"failed"})
  BY <1>2, <1>4, <1>5, <1>6 DEF JournalStep
<1>8. Delivers(d, Committed({d, released}, last, "ack"), o, {"failed"})
  BY Zenon, <1>6, <1>7, CommittedDelivers DEF IsDecided
<1>9. QED BY Zenon, <1>8, RefusedDelivers DEF FailMutation, released, last

\* fail_operation, whatever the journal says of the operation.
LEMMA FailOperationDelivers ==
  ASSUME NEW d, Sound(d), NEW o \in Operations
  PROVE  Delivers(d, FailOperation(d, o), o, {"failed"})
<1>1. CASE Outcome(d, o) = "prepared"
  BY Zenon, <1>1, FailCreationDelivers, FailMutationDelivers DEF FailOperation
<1>2. CASE Outcome(d, o) = "failed"
  <2>1. Delivers(d, QuarantineFailedCreation(d, o, "ack"), o, {"failed"})
    BY Zenon, <1>2, QuarantineDelivers, DeliversMore
  <2>2. Delivers(d, Committed({d}, d, "ack"), o, {"failed"})
    BY <1>2, AnsweredDelivers DEF IsDecided
  <2>3. QED BY Zenon, <1>2, <2>1, <2>2 DEF FailOperation
<1>3. CASE Outcome(d, o) \notin {"prepared", "failed"}
  BY Zenon, <1>3, RefusedDelivers DEF FailOperation
<1>4. QED BY Zenon, <1>1, <1>2, <1>3

\* The prepare handler and the complete handler of any kind.
LEMMA PrepareDelivers ==
  ASSUME NEW d, Sound(d), NEW o \in Operations
  PROVE  Delivers(d, Prepare(d, o), o, {"succeeded"})
<1>1. CASE Kind[o] = "create" BY Zenon, <1>1, PrepareCreateDelivers DEF Prepare
<1>2. CASE Kind[o] = "delete" BY Zenon, <1>2, PrepareDeleteDelivers DEF Prepare
<1>3. CASE Kind[o] \notin {"create", "delete"} BY Zenon, <1>3, PrepareMutationDelivers DEF Prepare
<1>4. QED BY Zenon, <1>1, <1>2, <1>3

\* The complete handler of any kind decides its own operation or nothing.
LEMMA CompleteDelivers ==
  ASSUME NEW d, Sound(d), NEW o \in Operations, NEW reply
  PROVE  Delivers(d, Complete(d, o, reply), o, {"succeeded"})
BY Zenon, CompleteDeleteDelivers, CompleteMutationDelivers DEF Complete

\* What an observation commits is a status.
LEMMA ReconciledType ==
  ASSUME NEW status \in Statuses \cup {"none"}, NEW seen \in Observations, NEW starting,
         Reconciled(status, seen, starting) # "refused"
  PROVE  Reconciled(status, seen, starting) \in Statuses \cup {"none"}
BY Zenon DEF Reconciled, Statuses, Observations, Transition, IsRunning

\* observe_state_inner ends on a sound disk; it decides the operation that
\* holds the claim, or it leaves the journal alone.
ObservedStep(d, r) ==
    /\ Sound(r.disk)
    /\ r.next \in {"torn", "error", "observed"}
    /\ \/ r.disk.journal = d.journal
       \/ \E o \in Operations : JournalStep(d, r.disk, o, {"succeeded"})

\* An observation decides the operation whose claim it has released.
LEMMA ObservedDecision ==
  ASSUME NEW d, NEW e, Sound(e), e.journal = d.journal, NEW o \in Operations,
         Outcome(d, o) = "prepared", e.live[Target[o]].active # o,
         AnnouncedBy(d, o) \subseteq e.events
  PROVE  /\ Sound(Decide(e, o, "succeeded"))
         /\ JournalStep(d, Decide(e, o, "succeeded"), o, {"succeeded"})
<1> DEFINE last == Decide(e, o, "succeeded")
<1>1. Outcome(e, o) = "prepared" BY Zenon DEF Outcome
<1>2. AnnouncedBy(e, o) \subseteq e.events BY Zenon, SameAnnouncement
<1>3. Sound(last) BY Zenon, <1>1, <1>2, DecideSound
<1>4. e \in Disks /\ "succeeded" \in Outcomes BY Zenon DEF Sound, Outcomes
<1>5. /\ last.journal[o] = [outcome |-> "succeeded", generation |-> e.journal[o].generation]
      /\ \A p \in Operations \ {o} : last.journal[p] = e.journal[p]
  BY Zenon, <1>4, DecideWrite
<1> HIDE DEF last
<1>6. Outcome(last, o) = "succeeded" BY <1>5 DEF Outcome
<1>7. JournalStep(d, last, o, {"succeeded"}) BY <1>5, <1>6 DEF JournalStep
<1>8. QED BY Zenon, <1>3, <1>7 DEF last

\* A handler that leaves the journal alone until its last write.
LEMMA ObservedCommit ==
  ASSUME NEW d, NEW steps, NEW last, NEW r \in Committed(steps, last, "observed"),
         \A e \in steps : Sound(e) /\ e.journal = d.journal,
         Sound(last),
         \/ last.journal = d.journal
         \/ \E o \in Operations : JournalStep(d, last, o, {"succeeded"})
  PROVE  ObservedStep(d, r)
<1>1. \/ r.disk \in steps /\ r.next = "torn"
      \/ r.disk = last /\ r.next \in {"torn", "observed"}
  BY DEF Committed, Result
<1>2. QED BY Zenon, <1>1 DEF ObservedStep

\* observe_state_inner delivers what ObservedStep says.
LEMMA ObserveDelivers ==
  ASSUME NEW d, Sound(d), NEW c \in Containers, NEW g \in Generations,
         NEW seen \in Observations, NEW r \in Observe(d, c, g, seen)
  PROVE  ObservedStep(d, r)
<1> DEFINE active == d.live[c].active
           status == d.live[c].status
           claimed == active # NoOperation
           completes == claimed /\ ObservationCompletes(Kind[active], seen)
           settled == Reconciled(status, seen, claimed /\ Kind[active] = "start")
           owner == IF completes THEN NoOperation ELSE active
           record == WriteRecord(d, c, settled, owner)
           announced == IF completes THEN Emit(record, AnnouncedBy(d, active)) ELSE record
           exited == seen = "stopped" /\ status # "stopped"
           stopped == IF exited THEN Emit(announced, {ContainerEvent(c, g, "stopped")})
                                ELSE announced
           last == IF completes THEN Decide(stopped, active, "succeeded") ELSE stopped
           accepted == /\ HasRecord(d, c)
                       /\ d.live[c].generation = g
                       /\ claimed => ClaimIsPrepared(d, c)
                       /\ settled # "refused"
<1>0. Observe(d, c, g, seen) =
        IF accepted THEN Committed({d, record, announced, stopped}, last, "observed")
                    ELSE Refused(d)
  BY Zenon DEF Observe
<1> HIDE DEF active, status, claimed, completes, settled, owner, record, announced,
             exited, stopped, last, accepted
<1>1. CASE ~accepted
  <2>1. r \in Refused(d) BY Zenon, <1>0, <1>1
  <2>2. r.disk = d /\ r.next \in {"torn", "error"} BY <2>1 DEF Refused, Result
  <2>3. QED BY Zenon, <2>2 DEF ObservedStep
<1>2. CASE accepted
  <2>1. d \in Disks BY Zenon DEF Sound
  <2>2. status \in Statuses \cup {"none"} BY Zenon, <2>1, StatusType DEF status
  <2>3. active \in Operations \cup {NoOperation} BY Zenon, <2>1 DEF Disks, Directories, active
  <2>4. claimed => /\ active \in Operations
                   /\ Target[active] = c
                   /\ Outcome(d, active) = "prepared"
    <3>1. claimed => ClaimIsPrepared(d, c) BY Zenon, <1>2 DEF accepted
    <3>2. ClaimIsPrepared(d, c) => Target[active] = c /\ Outcome(d, active) = "prepared"
      BY DEF ClaimIsPrepared, Outcome, active
    <3>3. claimed => active \in Operations BY Zenon, <2>3 DEF claimed
    <3>4. QED BY Zenon, <3>1, <3>2, <3>3
  <2>5. settled \in Statuses \cup {"none"}
    <3>1. settled # "refused" BY Zenon, <1>2 DEF accepted
    <3>2. QED BY Zenon, <2>2, <3>1, ReconciledType DEF settled
  <2>6. owner \in {active, NoOperation} BY Zenon DEF owner
  <2>7. /\ Sound(record) /\ record.journal = d.journal
        /\ record.live[c].active = owner
    <3>1. owner \in Operations \cup {NoOperation} BY Zenon, <2>3, <2>6
    <3>2. owner = NoOperation \/ owner = d.live[c].active BY Zenon, <2>6 DEF active
    <3>3. Sound(record) BY Zenon, <2>5, <3>1, <3>2, RecordSound DEF record
    <3>4. record.journal = d.journal /\ record.live[c].active = owner
      BY <2>1, <2>5, <3>1, RecordWrite DEF record
    <3>5. QED BY Zenon, <3>3, <3>4
  <2>8. {ContainerEvent(c, g, "stopped")} \in SUBSET Events
    BY DEF ContainerEvent, Events, Suffixes
  <2>9. completes => claimed BY Zenon DEF completes
  <2>10. /\ Sound(announced) /\ announced.journal = d.journal
         /\ announced.live = record.live
         /\ completes => AnnouncedBy(d, active) \subseteq announced.events
    <3>1. CASE completes
      <4>1. AnnouncedBy(d, active) \in SUBSET Events
        BY Zenon, <2>1, <2>4, <2>9, <3>1, OwnEventType
      <4>2. announced = Emit(record, AnnouncedBy(d, active)) BY Zenon, <3>1 DEF announced
      <4>3. record \in Disks BY Zenon, <2>7 DEF Sound
      <4>4. Sound(announced) BY Zenon, <2>7, <4>1, <4>2, EmitSound
      <4>5. /\ announced.events = record.events \cup AnnouncedBy(d, active)
            /\ announced.journal = record.journal /\ announced.live = record.live
        BY Zenon, <4>1, <4>2, <4>3, EmitWrite
      <4>6. QED BY Zenon, <2>7, <4>4, <4>5
    <3>2. CASE ~completes
      <4>1. announced = record BY Zenon, <3>2 DEF announced
      <4>2. QED BY Zenon, <2>7, <3>2, <4>1
    <3>3. QED BY Zenon, <3>1, <3>2
  <2>11. /\ Sound(stopped) /\ stopped.journal = d.journal
         /\ stopped.live = record.live
         /\ completes => AnnouncedBy(d, active) \subseteq stopped.events
    <3>1. CASE exited
      <4>1. stopped = Emit(announced, {ContainerEvent(c, g, "stopped")})
        BY Zenon, <3>1 DEF stopped
      <4>2. announced \in Disks BY Zenon, <2>10 DEF Sound
      <4>3. Sound(stopped) BY Zenon, <2>8, <2>10, <4>1, EmitSound
      <4>4. /\ announced.events \subseteq stopped.events
            /\ stopped.journal = announced.journal /\ stopped.live = announced.live
        BY <2>8, <4>1, <4>2, EmitWrite
      <4>5. QED BY Zenon, <2>10, <4>3, <4>4
    <3>2. CASE ~exited
      <4>1. stopped = announced BY Zenon, <3>2 DEF stopped
      <4>2. QED BY Zenon, <2>10, <4>1
    <3>3. QED BY Zenon, <3>1, <3>2
  <2>12. r \in Committed({d, record, announced, stopped}, last, "observed") BY Zenon, <1>0, <1>2
  <2>13. \A e \in {d, record, announced, stopped} : Sound(e) /\ e.journal = d.journal
    BY Zenon, <2>7, <2>10, <2>11
  <2>14. CASE completes
    <3>1. active \in Operations /\ Target[active] = c /\ Outcome(d, active) = "prepared"
      BY Zenon, <2>4, <2>9, <2>14
    <3>2. last = Decide(stopped, active, "succeeded") BY Zenon, <2>14 DEF last
    <3>3. owner = NoOperation BY Zenon, <2>14 DEF owner
    <3>4. active # NoOperation BY Zenon, <3>1, RequestAssumption
    <3>5. stopped.live[Target[active]].active # active
      BY Zenon, <2>7, <2>11, <3>1, <3>3, <3>4
    <3>6. Sound(last) /\ JournalStep(d, last, active, {"succeeded"})
      BY Zenon, <2>11, <2>14, <3>1, <3>2, <3>5, ObservedDecision
    <3>7. QED BY <2>12, <2>13, <3>1, <3>6, ObservedCommit
  <2>15. CASE ~completes
    <3>1. last = stopped BY Zenon, <2>15 DEF last
    <3>2. QED BY <2>11, <2>12, <2>13, <3>1, ObservedCommit
  <2>16. QED BY Zenon, <2>14, <2>15
<1>3. QED BY Zenon, <1>1, <1>2

-----------------------------------------------------------------------------
(* The directories.  A handler for o touches the live directory of its       *)
(* container and its own quarantine directory and no other.  It leaves them  *)
(* alone, rewrites a record of its generation that is unclaimed or its own,  *)
(* builds the container it creates, or moves such a record to quarantine.    *)

Stays(d, e, o) ==
    /\ e.live[Target[o]] = d.live[Target[o]]
    /\ e.quarantine[o] = d.quarantine[o]

\* The live record that o may change: of its generation, and not claimed by others.
Loaded(d, e, o) ==
    /\ HasRecord(d, Target[o])
    /\ MayOwn(d, o)
    /\ d.live[Target[o]].generation = e.journal[o].generation

Rewrites(d, e, o, statuses) ==
    /\ Loaded(d, e, o)
    /\ HasRecord(e, Target[o])
    /\ MayOwn(e, o)
    /\ e.live[Target[o]].generation = d.live[Target[o]].generation
    /\ e.live[Target[o]].status \in {d.live[Target[o]].status} \cup statuses
    /\ e.quarantine[o] = d.quarantine[o]
    /\ Kind[o] = "create" => Outcome(e, o) # "failed"

Builds(d, e, o) ==
    /\ Kind[o] = "create"
    /\ Outcome(e, o) = "prepared"
    /\ ~HasRecord(d, Target[o])
    /\ HasRecord(e, Target[o]) =>
          /\ e.live[Target[o]].generation = e.journal[o].generation
          /\ e.live[Target[o]].status = "creating"
          /\ e.live[Target[o]].active = o
    /\ e.quarantine[o] = d.quarantine[o]

Moves(d, e, o) ==
    /\ Loaded(d, e, o)
    /\ d.quarantine[o].stage = "absent"
    /\ e.live[Target[o]] = NoDirectory
    /\ e.quarantine[o] = d.live[Target[o]]
    /\ \/ Kind[o] = "create" /\ Outcome(e, o) = "failed"
       \/ Kind[o] = "delete" /\ Outcome(e, o) \in {"prepared", "succeeded"}

Touches(d, e, o, statuses) ==
    /\ \A b \in Containers \ {Target[o]} : e.live[b] = d.live[b]
    /\ \A p \in Operations \ {o} : e.quarantine[p] = d.quarantine[p]
    /\ Stays(d, e, o) \/ Rewrites(d, e, o, statuses) \/ Builds(d, e, o) \/ Moves(d, e, o)

\* A prepared operation whose container is live, in its generation and its own.
Holds(d, o) ==
    /\ Outcome(d, o) = "prepared"
    /\ LoadsExact(d, o)
    /\ d.live[Target[o]].active = o
    /\ Kind[o] = "delete" => d.quarantine[o].stage = "absent"

Confined(d, results, o, statuses) ==
    \A r \in results :
        /\ Touches(d, r.disk, o, statuses)
        /\ r.next = "dispatch" => Holds(r.disk, o)

\* A handler whose every disk is within bounds is confined.
LEMMA CommittedConfined ==
  ASSUME NEW d, NEW o \in Operations, NEW steps, NEW last, NEW next, NEW statuses,
         next \in {"error", "ack", "observed"} \/ (next = "dispatch" /\ Holds(last, o)),
         \A e \in steps \cup {last} : Touches(d, e, o, statuses)
  PROVE  Confined(d, Committed(steps, last, next), o, statuses)
<1> SUFFICES ASSUME NEW r \in Committed(steps, last, next)
             PROVE  Touches(d, r.disk, o, statuses) /\ (r.next = "dispatch" => Holds(r.disk, o))
  BY Zenon DEF Confined
<1>1. \/ r.disk \in steps \cup {last} /\ r.next = "torn"
      \/ r.disk = last /\ r.next = next
  BY DEF Committed, Result
<1>2. QED BY Zenon, <1>1

\* A disk that has the directories of d is within bounds.
LEMMA SameDirectories ==
  ASSUME NEW d, NEW e, NEW o \in Operations, NEW statuses,
         e.live = d.live, e.quarantine = d.quarantine
  PROVE  Touches(d, e, o, statuses)
BY Zenon DEF Touches, Stays

\* A handler that refuses touches nothing.
LEMMA RefusedConfined ==
  ASSUME NEW d, NEW o \in Operations, NEW statuses
  PROVE  Confined(d, Refused(d), o, statuses)
<1>1. Touches(d, d, o, statuses) BY Zenon, SameDirectories
<1>2. QED BY <1>1 DEF Confined, Refused, Result

\* A decided operation is answered from the journal; nothing is touched.
LEMMA AnsweredConfined ==
  ASSUME NEW d, NEW o \in Operations, NEW next \in {"error", "ack"}, NEW statuses
  PROVE  Confined(d, Committed({d}, d, next), o, statuses)
<1>1. \A e \in {d} \cup {d} : Touches(d, e, o, statuses) BY Zenon, SameDirectories
<1>2. QED BY Zenon, <1>1, CommittedConfined

\* What a handler makes of a disk with the directories of d.
LEMMA ConfinedAfter ==
  ASSUME NEW d, NEW m, NEW o \in Operations, NEW results, NEW statuses,
         m.live = d.live, m.quarantine = d.quarantine,
         Confined(m, results, o, statuses)
  PROVE  Confined(d, results, o, statuses)
<1> SUFFICES ASSUME NEW r \in results PROVE Touches(d, r.disk, o, statuses) BY Zenon DEF Confined
<1>1. Touches(m, r.disk, o, statuses) BY Zenon DEF Confined
<1>2. QED BY ZenonT(40), <1>1
  DEF Touches, Stays, Rewrites, Builds, Moves, Loaded, HasRecord, MayOwn

\* Allowing more statuses keeps a handler confined.
LEMMA ConfinedMore ==
  ASSUME NEW d, NEW o \in Operations, NEW results, NEW statuses, Confined(d, results, o, {})
  PROVE  Confined(d, results, o, statuses)
<1> SUFFICES ASSUME NEW r \in results PROVE Touches(d, r.disk, o, statuses) BY Zenon DEF Confined
<1>1. Touches(d, r.disk, o, {}) BY Zenon DEF Confined
<1>2. QED BY Zenon, <1>1 DEF Touches, Rewrites

\* A disk whose only new directory is a rewritten record of o.
LEMMA RewriteTouches ==
  ASSUME NEW d \in Disks, NEW e, NEW o \in Operations, NEW statuses,
         NEW status \in Statuses \cup {"none"}, NEW active \in {o, NoOperation},
         HasRecord(d, Target[o]), MayOwn(d, o),
         d.live[Target[o]].generation = e.journal[o].generation,
         e.live = WriteRecord(d, Target[o], status, active).live,
         e.quarantine = d.quarantine,
         status \in {d.live[Target[o]].status} \cup statuses,
         Kind[o] = "create" => Outcome(e, o) # "failed"
  PROVE  Touches(d, e, o, statuses)
<1> DEFINE m == WriteRecord(d, Target[o], status, active)
<1>1. Target[o] \in Containers BY Zenon, RequestAssumption
<1>2. /\ m.live[Target[o]].stage = d.live[Target[o]].stage
      /\ m.live[Target[o]].generation = d.live[Target[o]].generation
      /\ m.live[Target[o]].status = status
      /\ m.live[Target[o]].active = active
      /\ \A b \in Containers \ {Target[o]} : m.live[b] = d.live[b]
  BY SMTT(40), <1>1, RecordWrite
<1>3. e.live = m.live BY Zenon
<1> HIDE DEF m
<1>4. Rewrites(d, e, o, statuses)
  BY Zenon, <1>2, <1>3 DEF Rewrites, Loaded, HasRecord, MayOwn
<1>5. QED BY Zenon, <1>2, <1>3, <1>4 DEF Touches

\* claim_active_operation on a record that o may own.
LEMMA ClaimTouches ==
  ASSUME NEW d, Sound(d), NEW o \in Operations, Outcome(d, o) = "prepared",
         LoadsExact(d, o), MayOwn(d, o)
  PROVE  /\ Touches(d, Claim(d, o), o, {})
         /\ Claim(d, o) \in Disks
         /\ LoadsExact(Claim(d, o), o) /\ Outcome(Claim(d, o), o) = "prepared"
         /\ Claim(d, o).live[Target[o]].active = o
         /\ Claim(d, o).quarantine = d.quarantine
<1> DEFINE status == d.live[Target[o]].status
           e == WriteRecord(d, Target[o], status, o)
<1>1. Target[o] \in Containers /\ d \in Disks BY Zenon, RequestAssumption DEF Sound
<1>2. status \in Statuses \cup {"none"} BY <1>1, StatusType
<1> HIDE DEF status
<1>3. /\ e \in Disks
      /\ e.live[Target[o]].stage = d.live[Target[o]].stage
      /\ e.live[Target[o]].generation = d.live[Target[o]].generation
      /\ e.live[Target[o]].active = o
      /\ e.journal = d.journal /\ e.quarantine = d.quarantine
  BY SMTT(40), <1>1, <1>2, RecordWrite
<1>4. Claim(d, o) = e BY Zenon DEF Claim, status
<1>5. Outcome(e, o) = "prepared" /\ LoadsExact(e, o)
  BY Zenon, <1>3 DEF Outcome, LoadsExact, HasRecord
<1>6. HasRecord(d, Target[o]) /\ d.live[Target[o]].generation = e.journal[o].generation
  BY Zenon, <1>3 DEF LoadsExact
<1>7. Touches(d, e, o, {})
  BY Zenon, <1>1, <1>2, <1>3, <1>5, <1>6, RewriteTouches DEF status
<1> HIDE DEF e
<1>8. QED BY Zenon, <1>3, <1>4, <1>5, <1>7

\* claim_active_operation of a prepared operation.
LEMMA ClaimAndDispatchConfined ==
  ASSUME NEW d, Sound(d), NEW o \in Operations, Outcome(d, o) = "prepared",
         LoadsExact(d, o), Kind[o] = "delete" => d.quarantine[o].stage = "absent"
  PROVE  Confined(d, ClaimAndDispatch(d, o), o, {})
<1>1. ASSUME MayOwn(d, o)
      PROVE  Confined(d, Committed({d}, Claim(d, o), "dispatch"), o, {})
  <2>1. Holds(Claim(d, o), o) BY Zenon, <1>1, ClaimTouches DEF Holds
  <2>2. \A e \in {d} \cup {Claim(d, o)} : Touches(d, e, o, {})
    BY Zenon, <1>1, ClaimTouches, SameDirectories
  <2>3. QED BY Zenon, <2>1, <2>2, CommittedConfined
<1>2. QED BY Zenon, <1>1, RefusedConfined DEF ClaimAndDispatch
\* Putting a directory under a container ID changes nothing else.
LEMMA PutLiveWrite ==
  ASSUME NEW d \in Disks, NEW c \in Containers, NEW x \in Directories
  PROVE  LET e == PutLive(d, c, x)
         IN  /\ e \in Disks
             /\ e.live[c] = x
             /\ \A b \in Containers \ {c} : e.live[b] = d.live[b]
             /\ e.last = d.last /\ e.journal = d.journal
             /\ e.quarantine = d.quarantine /\ e.events = d.events
BY Zenon DEF Disks, PutLive

\* How far a creation has come: a record that was there is as it was, and one
\* that was not is the operation's own.
Underway(d, e, o) ==
    /\ e \in Disks
    /\ e.journal = d.journal
    /\ e.quarantine = d.quarantine
    /\ e.last = d.last
    /\ \A b \in Containers \ {Target[o]} : e.live[b] = d.live[b]
    /\ HasRecord(d, Target[o]) => e.live[Target[o]] = d.live[Target[o]]
    /\ ~HasRecord(d, Target[o]) /\ HasRecord(e, Target[o]) =>
          /\ e.live[Target[o]].generation = d.journal[o].generation
          /\ e.live[Target[o]].status = "creating"
          /\ e.live[Target[o]].active = o

\* Each step of reconcile_prepared_container takes a creation further.
LEMMA CreationUnderway ==
  ASSUME NEW d, Sound(d), NEW o \in Operations
  PROVE  LET made == MakeDirectory(d, o)
             configured == StoreConfig(made, o)
             recorded == StoreContainer(configured, o)
         IN  Underway(d, made, o) /\ Underway(d, configured, o) /\ Underway(d, recorded, o)
<1> DEFINE c == Target[o]
           made == MakeDirectory(d, o)
           configured == StoreConfig(made, o)
           recorded == StoreContainer(configured, o)
<1>1. /\ c \in Containers /\ d \in Disks
      /\ Bundle[o] \in Nat
      /\ d.journal[o].generation \in Generations
  BY Zenon, RequestAssumption DEF Sound, Disks, JournalEntries
<1>2. Underway(d, d, o) BY Zenon, <1>1 DEF Underway
<1>3. ASSUME NEW m, Underway(d, m, o), NEW x \in Directories, m.live[c].stage # "record",
             x.stage = "record" => /\ x.generation = d.journal[o].generation
                                   /\ x.status = "creating"
                                   /\ x.active = o
      PROVE  Underway(d, PutLive(m, c, x), o)
  <2> DEFINE e == PutLive(m, c, x)
  <2>1. m \in Disks BY Zenon, <1>3 DEF Underway
  <2>2. /\ e \in Disks /\ e.live[c] = x
        /\ \A b \in Containers \ {c} : e.live[b] = m.live[b]
        /\ e.last = m.last /\ e.journal = m.journal /\ e.quarantine = m.quarantine
    BY <1>1, <2>1, PutLiveWrite
  <2> HIDE DEF e
  <2>3. ~HasRecord(d, c) BY Zenon, <1>3 DEF Underway, HasRecord
  <2>4. QED BY Zenon, <1>3, <2>2, <2>3 DEF Underway, HasRecord, e
<1>4. Underway(d, made, o)
  <2>1. Partial("directory", 0) \in Directories
    BY RequestAssumption DEF Partial, Directories, Generations
  <2>2. Partial("directory", 0).stage = "directory" BY Zenon DEF Partial
  <2>3. CASE HasDirectory(d, c) BY Zenon, <1>2, <2>3 DEF MakeDirectory
  <2>4. CASE ~HasDirectory(d, c)
    <3>1. made = PutLive(d, c, Partial("directory", 0)) BY Zenon, <2>4 DEF MakeDirectory
    <3>2. d.live[c].stage # "record" BY Zenon, <2>4 DEF HasDirectory
    <3>3. QED BY Zenon, <1>2, <1>3, <2>1, <2>2, <3>1, <3>2
  <2>5. QED BY Zenon, <2>3, <2>4
<1> HIDE DEF made
<1>5. Underway(d, configured, o)
  <2>1. Partial("config", Bundle[o]) \in Directories
    BY <1>1, RequestAssumption DEF Partial, Directories, Generations
  <2>2. Partial("config", Bundle[o]).stage = "config" BY Zenon DEF Partial
  <2>3. CASE made.live[c].stage # "directory" BY Zenon, <1>4, <2>3 DEF StoreConfig
  <2>4. CASE made.live[c].stage = "directory"
    <3>1. configured = PutLive(made, c, Partial("config", Bundle[o])) BY Zenon, <2>4 DEF StoreConfig
    <3>2. QED BY Zenon, <1>3, <1>4, <2>1, <2>2, <2>4, <3>1
  <2>5. QED BY Zenon, <2>3, <2>4
<1> HIDE DEF configured
<1>6. Underway(d, recorded, o)
  <2> DEFINE x == [stage |-> "record", bundle |-> Bundle[o],
                   generation |-> configured.journal[o].generation,
                   status |-> "creating", active |-> o]
  <2>1. configured.journal = d.journal BY Zenon, <1>5 DEF Underway
  <2>2. /\ x \in Directories /\ x.active = o /\ x.status = "creating"
        /\ x.generation = d.journal[o].generation
    BY Zenon, <1>1, <2>1 DEF Directories, Statuses
  <2>3. recorded = IF configured.live[c].stage = "config"
                     THEN PutLive(configured, c, x) ELSE configured
    BY Zenon DEF StoreContainer
  <2> HIDE DEF x, recorded
  <2>4. QED BY Zenon, <1>3, <1>5, <2>2, <2>3
<1>7. QED BY Zenon, <1>4, <1>5, <1>6 DEF made, configured

\* A creation that is under way touches what it may.
LEMMA UnderwayTouches ==
  ASSUME NEW d, NEW e, NEW o \in Operations, Kind[o] = "create",
         Outcome(d, o) = "prepared", Underway(d, e, o)
  PROVE  Touches(d, e, o, {})
<1>1. Outcome(e, o) = "prepared" BY Zenon DEF Underway, Outcome
<1>2. CASE HasRecord(d, Target[o]) BY Zenon, <1>2 DEF Underway, Touches, Stays
<1>3. CASE ~HasRecord(d, Target[o])
  BY Zenon, <1>1, <1>3 DEF Underway, Touches, Builds
<1>4. QED BY Zenon, <1>2, <1>3

\* prepare_create of a prepared creation.
LEMMA ResumeCreateConfined ==
  ASSUME NEW d, Sound(d), NEW o \in Operations, Outcome(d, o) = "prepared",
         Kind[o] = "create"
  PROVE  Confined(d, ResumeCreate(d, o), o, {})
<1> DEFINE c == Target[o]
           made == MakeDirectory(d, o)
           configured == StoreConfig(made, o)
           recorded == StoreContainer(configured, o)
           claimed == Claim(recorded, o)
           last == Emit(claimed, {OwnEvent(d, o, "creating")})
<1>1. Underway(d, made, o) /\ Underway(d, configured, o) /\ Underway(d, recorded, o)
  BY Zenon, CreationUnderway
<1>2. c \in Containers /\ d \in Disks BY Zenon, RequestAssumption DEF Sound
<1> HIDE DEF made, configured, recorded
<1>3. ASSUME LoadsExact(recorded, o), MayOwn(recorded, o)
      PROVE  Confined(d, Committed({d, made, configured, recorded, claimed}, last, "dispatch"), o, {})
  <2> DEFINE status == recorded.live[c].status
  <2>1. /\ recorded \in Disks /\ recorded.journal = d.journal
        /\ recorded.quarantine = d.quarantine
        /\ \A b \in Containers \ {c} : recorded.live[b] = d.live[b]
    BY Zenon, <1>1 DEF Underway
  <2>11. recorded.live[c] \in Directories BY Zenon, <1>2, <2>1 DEF Disks
  <2>2. status \in Statuses \cup {"none"} BY ZenonT(30), <2>11 DEF Directories
  <2>12. recorded \in Disks /\ c \in Containers /\ o \in Operations \cup {NoOperation}
    BY Zenon, <1>2, <2>1
  <2> HIDE DEF status
  <2> DEFINE m == WriteRecord(recorded, c, status, o)
  <2>3. /\ m \in Disks
        /\ m.live[c].stage = recorded.live[c].stage
        /\ m.live[c].generation = recorded.live[c].generation
        /\ m.live[c].status = status
        /\ m.live[c].active = o
        /\ \A b \in Containers \ {c} : m.live[b] = recorded.live[b]
        /\ m.journal = recorded.journal /\ m.quarantine = recorded.quarantine
    BY <2>12, <2>2, RecordWrite
  <2>31. claimed = m BY Zenon DEF Claim, status
  <2> USE DEF status
  <2> HIDE DEF m
  <2>4. /\ claimed \in Disks
        /\ claimed.live[c].stage = recorded.live[c].stage
        /\ claimed.live[c].generation = recorded.live[c].generation
        /\ claimed.live[c].status = status
        /\ claimed.live[c].active = o
        /\ \A b \in Containers \ {c} : claimed.live[b] = recorded.live[b]
        /\ claimed.journal = d.journal /\ claimed.quarantine = d.quarantine
    BY Zenon, <2>1, <2>3, <2>31
  <2> HIDE DEF claimed
  <2>5. {OwnEvent(d, o, "creating")} \in SUBSET Events BY Zenon, <1>2, OwnEventType DEF Suffixes
  <2>6. last.live = claimed.live /\ last.journal = d.journal /\ last.quarantine = d.quarantine
    BY Zenon, <2>4, <2>5, EmitWrite
  <2> HIDE DEF last
  <2>7. HasRecord(recorded, c) /\ recorded.live[c].generation = d.journal[o].generation
    BY Zenon, <1>3, <2>1 DEF LoadsExact
  <2>8. ASSUME NEW e \in {claimed, last} PROVE Touches(d, e, o, {}) /\ Holds(e, o)
    <3>1. /\ e.live = claimed.live /\ e.journal = d.journal /\ e.quarantine = d.quarantine
      BY Zenon, <2>4, <2>6
    <3>2. Outcome(e, o) = "prepared" BY Zenon, <3>1 DEF Outcome
    <3>3. /\ e.live[c].stage = "record" /\ e.live[c].active = o
          /\ e.live[c].generation = d.journal[o].generation
      BY Zenon, <2>4, <2>7, <3>1 DEF HasRecord
    <3>4. Holds(e, o) BY Zenon, <3>1, <3>2, <3>3 DEF Holds, LoadsExact, HasRecord
    <3>5. CASE HasRecord(d, c)
      <4>1. recorded.live[c] = d.live[c] BY Zenon, <1>1, <3>5 DEF Underway
      <4>2. MayOwn(d, o) BY Zenon, <1>3, <4>1 DEF MayOwn
      <4>3. Rewrites(d, e, o, {})
        BY Zenon, <2>4, <2>7, <3>1, <3>2, <3>3, <3>5, <4>1, <4>2
        DEF Rewrites, Loaded, HasRecord, MayOwn
      <4>4. QED BY Zenon, <2>1, <2>4, <3>1, <3>4, <4>3 DEF Touches
    <3>6. CASE ~HasRecord(d, c)
      <4>1. status = "creating" BY Zenon, <1>1, <2>7, <3>6 DEF Underway
      <4>2. Builds(d, e, o)
        BY Zenon, <2>4, <3>1, <3>2, <3>3, <3>6, <4>1 DEF Builds, HasRecord
      <4>3. QED BY Zenon, <2>1, <2>4, <3>1, <3>4, <4>2 DEF Touches
    <3>7. QED BY Zenon, <3>5, <3>6
  <2>9. \A e \in {d, made, configured, recorded, claimed} \cup {last} : Touches(d, e, o, {})
    BY Zenon, <1>1, <2>8, SameDirectories, UnderwayTouches
  <2>10. QED BY Zenon, <2>8, <2>9, CommittedConfined
<1>4. QED BY Zenon, <1>3, RefusedConfined DEF ResumeCreate, made, configured, recorded
\* prepare_create of a new operation builds on a disk with the same directories.
LEMMA NewCreateConfined ==
  ASSUME NEW d, Sound(d), NEW o \in Operations, Outcome(d, o) = "absent",
         Kind[o] = "create"
  PROVE  Confined(d, NewCreate(d, o), o, {})
<1> DEFINE c == Target[o]
           g == d.last[c] + 1
           allocated == [d EXCEPT !.last[c] = d.last[c] + 1]
           journaled == Journaled(allocated, o, "prepared", g)
<1>1. c \in Containers /\ d \in Disks BY Zenon, RequestAssumption DEF Sound
<1>2. ASSUME ~(d.last[c] >= MaxGeneration)
      PROVE  Confined(d, {Result(d, "torn"), Result(allocated, "torn")} \cup ResumeCreate(journaled, o),
                      o, {})
  <2>1. d.last[c] \in Nat /\ d.last[c] < MaxGeneration /\ g \in Generations /\ g >= 1
    BY <1>1, <1>2, RequestAssumption DEF Disks, Generations
  <2>2. /\ Sound(allocated)
        /\ allocated.journal = d.journal /\ allocated.live = d.live
        /\ allocated.last[c] = g
        /\ \A p \in Operations : IsCreation(allocated, p) /\ Target[p] = c
              => allocated.journal[p].generation # g
    BY Zenon, <1>1, <2>1, AllocateSound
  <2>3. allocated.quarantine = d.quarantine BY Zenon, <1>1 DEF Disks
  <2> HIDE DEF allocated
  <2>4. g \in 1 .. allocated.last[c] BY <2>1, <2>2
  <2>5. Outcome(allocated, o) = "absent" BY Zenon, <2>2 DEF Outcome
  <2>6. Sound(journaled) BY Zenon, <2>1, <2>2, <2>4, <2>5, JournaledSound
  <2>7. /\ journaled.journal[o] = [outcome |-> "prepared", generation |-> g]
        /\ journaled.live = allocated.live /\ journaled.quarantine = allocated.quarantine
    BY SMTT(30), <2>1, <2>2, JournaledWrite DEF Sound, Outcomes
  <2> HIDE DEF journaled, g
  <2>8. Outcome(journaled, o) = "prepared" BY <2>7 DEF Outcome
  <2>9. Confined(journaled, ResumeCreate(journaled, o), o, {})
    BY Zenon, <2>6, <2>8, ResumeCreateConfined
  <2>10. Confined(d, ResumeCreate(journaled, o), o, {})
    BY Zenon, <2>2, <2>3, <2>7, <2>9, ConfinedAfter
  <2>11. Touches(d, d, o, {}) /\ Touches(d, allocated, o, {})
    BY Zenon, <2>2, <2>3, SameDirectories
  <2>12. Confined(d, {Result(d, "torn"), Result(allocated, "torn")}, o, {})
    BY <2>11 DEF Confined, Result
  <2>13. QED BY Zenon, <2>10, <2>12 DEF Confined
<1>3. QED BY Zenon, <1>2, RefusedConfined DEF NewCreate

\* The quarantine move of a record that the operation may own.
LEMMA MoveTouches ==
  ASSUME NEW d, Sound(d), NEW o \in Operations, NEW e, NEW statuses,
         LoadsExact(d, o), MayOwn(d, o), d.quarantine[o].stage = "absent",
         e.live = MoveToQuarantine(d, o).live,
         e.quarantine = MoveToQuarantine(d, o).quarantine,
         e.journal[o].generation = d.journal[o].generation,
         \/ Kind[o] = "create" /\ Outcome(e, o) = "failed"
         \/ Kind[o] = "delete" /\ Outcome(e, o) \in {"prepared", "succeeded"}
  PROVE  Touches(d, e, o, statuses)
<1> DEFINE m == MoveToQuarantine(d, o)
<1>1. /\ m.live[Target[o]] = NoDirectory
      /\ \A b \in Containers \ {Target[o]} : m.live[b] = d.live[b]
      /\ m.quarantine[o] = d.live[Target[o]]
      /\ \A p \in Operations \ {o} : m.quarantine[p] = d.quarantine[p]
  BY Zenon, MoveWrite DEF Sound
<1>2. e.live = m.live /\ e.quarantine = m.quarantine BY Zenon
<1> HIDE DEF m
<1>3. Moves(d, e, o) BY Zenon, <1>1, <1>2 DEF Moves, Loaded, LoadsExact
<1>4. QED BY Zenon, <1>1, <1>2, <1>3 DEF Touches

\* reconcile_failed_creation moves its own record or nothing.
LEMMA QuarantineConfined ==
  ASSUME NEW d, Sound(d), NEW o \in Operations, NEW next \in {"error", "ack"},
         Outcome(d, o) = "failed", Kind[o] = "create", NEW statuses
  PROVE  Confined(d, QuarantineFailedCreation(d, o, next), o, statuses)
<1>1. ASSUME d.quarantine[o].stage = "absent", LoadsExact(d, o), MayOwn(d, o)
      PROVE  Confined(d, Committed({d}, MoveToQuarantine(d, o), next), o, statuses)
  <2> DEFINE m == MoveToQuarantine(d, o)
  <2>1. m.journal = d.journal BY Zenon, MoveWrite DEF Sound
  <2>2. Outcome(m, o) = "failed" BY Zenon, <2>1 DEF Outcome
  <2>3. Touches(d, m, o, statuses) BY Zenon, <1>1, <2>1, <2>2, MoveTouches
  <2>4. \A e \in {d} \cup {m} : Touches(d, e, o, statuses) BY Zenon, <2>3, SameDirectories
  <2>5. QED BY Zenon, <2>4, CommittedConfined
<1>2. QED BY Zenon, <1>1, AnsweredConfined, RefusedConfined DEF QuarantineFailedCreation

\* reconcile_succeeded_<kind> touches nothing.
LEMMA ReplaySucceededConfined ==
  ASSUME NEW d, NEW o \in Operations, NEW statuses
  PROVE  Confined(d, ReplaySucceeded(d, o), o, statuses)
BY Zenon, AnsweredConfined, RefusedConfined DEF ReplaySucceeded

\* prepare_create.
LEMMA PrepareCreateConfined ==
  ASSUME NEW d, Sound(d), NEW o \in Operations, Kind[o] = "create"
  PROVE  Confined(d, PrepareCreate(d, o), o, {})
<1>1. CASE Outcome(d, o) = "absent" BY Zenon, <1>1, NewCreateConfined DEF PrepareCreate
<1>2. CASE Outcome(d, o) = "prepared" BY Zenon, <1>2, ResumeCreateConfined DEF PrepareCreate
<1>3. CASE Outcome(d, o) = "succeeded" BY Zenon, <1>3, ReplaySucceededConfined DEF PrepareCreate
<1>4. CASE Outcome(d, o) = "failed" BY Zenon, <1>4, QuarantineConfined DEF PrepareCreate
<1>5. QED BY Zenon, <1>1, <1>2, <1>3, <1>4, OutcomeType DEF Outcomes

\* The tail of a completion writes the record of the operation alone.
LEMMA FinishConfined ==
  ASSUME NEW d, Sound(d), NEW o \in Operations, Outcome(d, o) = "prepared",
         LoadsExact(d, o), MayOwn(d, o), NEW statuses,
         NEW status \in Statuses \cup {"none"},
         status \in {d.live[Target[o]].status} \cup statuses
  PROVE  Confined(d, Finish(d, o, status), o, statuses)
<1> DEFINE record == WriteRecord(d, Target[o], status, NoOperation)
           announced == Emit(record, AnnouncedBy(d, o))
           ending == status = "stopped" /\ Kind[o] \in {"start", "kill"}
           stopped == IF ending THEN Emit(announced, {OwnEvent(d, o, "stopped")})
                                ELSE announced
           last == Decide(stopped, o, "succeeded")
<1>1. Target[o] \in Containers /\ d \in Disks BY Zenon, RequestAssumption DEF Sound
<1>2. record \in Disks /\ record.journal = d.journal /\ record.quarantine = d.quarantine
  BY <1>1, RecordWrite
<1>3. AnnouncedBy(d, o) \in SUBSET Events /\ {OwnEvent(d, o, "stopped")} \in SUBSET Events
  BY Zenon, <1>1, OwnEventType DEF Suffixes
<1>4. ASSUME NEW e, e.live = record.live, e.quarantine = d.quarantine,
             e.journal[o].generation = d.journal[o].generation, Outcome(e, o) # "failed"
      PROVE  Touches(d, e, o, statuses)
  <2>1. HasRecord(d, Target[o]) /\ d.live[Target[o]].generation = e.journal[o].generation
    BY Zenon, <1>4 DEF LoadsExact
  <2>2. NoOperation \in {o, NoOperation} BY Zenon
  <2>3. QED BY Zenon, <1>1, <1>4, <2>1, <2>2, RewriteTouches
<1> HIDE DEF record
<1>5. /\ announced \in Disks /\ announced.journal = d.journal
      /\ announced.live = record.live /\ announced.quarantine = d.quarantine
  BY Zenon, <1>2, <1>3, EmitWrite
<1> HIDE DEF announced
<1>6. /\ stopped \in Disks /\ stopped.journal = d.journal
      /\ stopped.live = record.live /\ stopped.quarantine = d.quarantine
  <2>1. CASE ending
    <3>1. stopped = Emit(announced, {OwnEvent(d, o, "stopped")}) BY Zenon, <2>1
    <3>2. QED BY Zenon, <1>3, <1>5, <3>1, EmitWrite
  <2>2. CASE ~ending BY Zenon, <1>5, <2>2
  <2>3. QED BY Zenon, <2>1, <2>2
<1> HIDE DEF stopped
<1>7. /\ last.journal[o] = [outcome |-> "succeeded", generation |-> d.journal[o].generation]
      /\ last.live = record.live /\ last.quarantine = d.quarantine
  <2>1. "succeeded" \in Outcomes BY Zenon DEF Outcomes
  <2>2. QED BY <1>6, <2>1, DecideWrite
<1> HIDE DEF last
<1>8. Outcome(last, o) = "succeeded" /\ last.journal[o].generation = d.journal[o].generation
  BY <1>7 DEF Outcome
<1>9. \A e \in {record, announced, stopped} : Outcome(e, o) # "failed"
  BY Zenon, <1>2, <1>5, <1>6 DEF Outcome
<1>10. \A e \in {d, record, announced, stopped} \cup {last} : Touches(d, e, o, statuses)
  BY Zenon, <1>2, <1>4, <1>5, <1>6, <1>7, <1>8, <1>9, SameDirectories
<1>11. Confined(d, Committed({d, record, announced, stopped}, last, "ack"), o, statuses)
  BY Zenon, <1>10, CommittedConfined
<1>12. QED BY Zenon, <1>11 DEF Finish, record, announced, stopped, last
\* A new mutation claims the live record it is journaled against.
LEMMA JournaledConfined ==
  ASSUME NEW d, Sound(d), NEW o \in Operations, Outcome(d, o) = "absent",
         Kind[o] # "create", HasRecord(d, Target[o]), d.quarantine[o].stage = "absent"
  PROVE  LET e == Journaled(d, o, "prepared", d.live[Target[o]].generation)
         IN  Confined(d, {Result(d, "torn")} \cup ClaimAndDispatch(e, o), o, {})
<1> DEFINE g == d.live[Target[o]].generation
           e == Journaled(d, o, "prepared", g)
<1>1. Target[o] \in Containers /\ d \in Disks /\ "prepared" \in Outcomes
  BY Zenon, RequestAssumption DEF Sound, Outcomes
<1>2. g \in Generations /\ g \in 1 .. d.last[Target[o]]
  BY Zenon, <1>1 DEF Disks, Directories, Sound, Fenced
<1>3. Sound(e) BY Zenon, <1>2, JournaledSound
<1>4. /\ e.journal[o] = [outcome |-> "prepared", generation |-> g]
      /\ e.live = d.live /\ e.quarantine = d.quarantine
  BY <1>1, <1>2, JournaledWrite
<1> HIDE DEF e
<1>5. LoadsExact(e, o)
  <2>1. e.live[Target[o]].stage = "record" BY Zenon, <1>4 DEF HasRecord
  <2>2. e.live[Target[o]].generation = g BY Zenon, <1>4
  <2> HIDE DEF g
  <2>3. e.journal[o].generation = g BY <1>4
  <2>4. QED BY Zenon, <2>1, <2>2, <2>3 DEF LoadsExact, HasRecord
<1> HIDE DEF g
<1>6. Outcome(e, o) = "prepared" BY <1>4 DEF Outcome
<1>7. e.quarantine[o].stage = "absent" BY Zenon, <1>4
<1>8. Confined(e, ClaimAndDispatch(e, o), o, {})
  BY Zenon, <1>3, <1>5, <1>6, <1>7, ClaimAndDispatchConfined
<1>9. Confined(d, ClaimAndDispatch(e, o), o, {}) BY Zenon, <1>4, <1>8, ConfinedAfter
<1>10. Touches(d, d, o, {}) BY Zenon, SameDirectories
<1>11. Confined(d, {Result(d, "torn")}, o, {}) BY <1>10 DEF Confined, Result
<1>12. QED BY Zenon, <1>9, <1>11 DEF Confined, e, g

\* prepare_start, prepare_kill, prepare_freezer, prepare_update.
LEMMA PrepareMutationConfined ==
  ASSUME NEW d, Sound(d), NEW o \in Operations, Kind[o] \notin {"create", "delete"},
         TombstoneAgrees(d, o)
  PROVE  Confined(d, PrepareMutation(d, o), o, {})
<1>0. Target[o] \in Containers BY Zenon, RequestAssumption
<1>1. CASE Outcome(d, o) = "absent"
  <2>1. d.quarantine[o].stage = "absent" BY Zenon, <1>1 DEF TombstoneAgrees
  <2>2. Confined(d, NewMutation(d, o), o, {})
    BY Zenon, <1>1, <2>1, JournaledConfined, RefusedConfined DEF NewMutation
  <2>3. QED BY Zenon, <1>1, <2>2 DEF PrepareMutation
<1>2. CASE Outcome(d, o) = "prepared"
  <2>1. ASSUME LoadsExact(d, o), MayOwn(d, o)
        PROVE  Confined(d, Finish(d, o, d.live[Target[o]].status), o, {})
    BY Zenon, <1>0, <1>2, <2>1, StatusType, FinishConfined
  <2>2. ASSUME LoadsExact(d, o) PROVE Confined(d, ClaimAndDispatch(d, o), o, {})
    BY Zenon, <1>2, <2>2, ClaimAndDispatchConfined
  <2>3. Confined(d, ResumeMutation(d, o), o, {})
    BY Zenon, <2>1, <2>2, RefusedConfined DEF ResumeMutation
  <2>4. QED BY Zenon, <1>2, <2>3 DEF PrepareMutation
<1>3. CASE Outcome(d, o) = "succeeded"
  BY Zenon, <1>3, AnsweredConfined, ReplaySucceededConfined DEF PrepareMutation
<1>4. CASE Outcome(d, o) = "failed" BY Zenon, <1>4, RefusedConfined DEF PrepareMutation
<1>5. QED BY Zenon, <1>1, <1>2, <1>3, <1>4, OutcomeType DEF Outcomes

\* complete_create, complete_start, complete_kill, complete_freezer, complete_update:
\* the only new status is the settled one.
LEMMA CompleteMutationConfined ==
  ASSUME NEW d, Sound(d), NEW o \in Operations, NEW reply
  PROVE  Confined(d, CompleteMutation(d, o, reply), o,
                  {Settled(Kind[o], d.live[Target[o]].status, reply)})
<1> DEFINE settled == Settled(Kind[o], d.live[Target[o]].status, reply)
<1>1. ASSUME Outcome(d, o) = "prepared", LoadsExact(d, o), MayOwn(d, o), settled # "refused"
      PROVE  Confined(d, Finish(d, o, settled), o, {settled})
  <2>1. Target[o] \in Containers /\ Kind[o] \in Kinds BY Zenon, RequestAssumption
  <2>2. settled \in Statuses \cup {"none"} BY Zenon, <1>1, <2>1, StatusType, SettledType
  <2> HIDE DEF settled
  <2>3. QED BY Zenon, <1>1, <2>2, FinishConfined
<1> HIDE DEF settled
<1>2. CASE Outcome(d, o) = "prepared"
  BY Zenon, <1>1, <1>2, RefusedConfined DEF CompleteMutation, settled
<1>3. CASE Outcome(d, o) = "succeeded"
  BY Zenon, <1>3, AnsweredConfined DEF CompleteMutation
<1>4. CASE Outcome(d, o) \notin {"prepared", "succeeded"}
  BY Zenon, <1>4, RefusedConfined DEF CompleteMutation
<1>5. QED BY Zenon, <1>2, <1>3, <1>4 DEF settled

\* The tail of a delete adds events and the outcome.
LEMMA FinishDeleteConfined ==
  ASSUME NEW d, Sound(d), NEW o \in Operations, NEW m \in Disks, NEW statuses,
         m.journal = d.journal, Outcome(d, o) = "prepared",
         \A e : /\ e.live = m.live /\ e.quarantine = m.quarantine
                /\ e.journal[o].generation = d.journal[o].generation
                /\ Outcome(e, o) \in {"prepared", "succeeded"}
                => Touches(d, e, o, statuses)
  PROVE  Confined(d, FinishDelete({d}, m, o), o, statuses)
<1> DEFINE stopped == Emit(m, {OwnEvent(m, o, "stopped")})
           deleted == Emit(stopped, AnnouncedBy(m, o))
           last == Decide(deleted, o, "succeeded")
<1>1. AnnouncedBy(m, o) \in SUBSET Events /\ {OwnEvent(m, o, "stopped")} \in SUBSET Events
  BY Zenon, OwnEventType DEF Suffixes
<1>2. /\ stopped \in Disks /\ stopped.journal = d.journal
      /\ stopped.live = m.live /\ stopped.quarantine = m.quarantine
  BY Zenon, <1>1, EmitWrite
<1> HIDE DEF stopped
<1>3. /\ deleted \in Disks /\ deleted.journal = d.journal
      /\ deleted.live = m.live /\ deleted.quarantine = m.quarantine
  BY Zenon, <1>1, <1>2, EmitWrite
<1> HIDE DEF deleted
<1>4. /\ last.journal[o] = [outcome |-> "succeeded", generation |-> d.journal[o].generation]
      /\ last.live = m.live /\ last.quarantine = m.quarantine
  <2>1. "succeeded" \in Outcomes BY Zenon DEF Outcomes
  <2>2. QED BY <1>3, <2>1, DecideWrite
<1> HIDE DEF last
<1>5. Outcome(last, o) = "succeeded" /\ last.journal[o].generation = d.journal[o].generation
  BY <1>4 DEF Outcome
<1>6. \A e \in {m, stopped, deleted} : Outcome(e, o) = "prepared" BY Zenon, <1>2, <1>3 DEF Outcome
<1>7. \A e \in ({d} \cup {m, stopped, deleted}) \cup {last} : Touches(d, e, o, statuses)
  BY Zenon, <1>2, <1>3, <1>4, <1>5, <1>6, SameDirectories
<1>8. Confined(d, Committed({d} \cup {m, stopped, deleted}, last, "ack"), o, statuses)
  BY Zenon, <1>7, CommittedConfined
<1>9. QED BY Zenon, <1>8 DEF FinishDelete, stopped, deleted, last

\* The tail of a delete whose directory has moved in an earlier call.
LEMMA MovedDeleteConfined ==
  ASSUME NEW d, Sound(d), NEW o \in Operations, Outcome(d, o) = "prepared", NEW statuses
  PROVE  Confined(d, FinishDelete({d}, d, o), o, statuses)
<1>1. \A e : e.live = d.live /\ e.quarantine = d.quarantine => Touches(d, e, o, statuses)
  BY Zenon, SameDirectories
<1>2. d \in Disks BY Zenon DEF Sound
<1>3. QED BY Zenon, <1>1, <1>2, FinishDeleteConfined

\* prepare_delete.
LEMMA PrepareDeleteConfined ==
  ASSUME NEW d, Sound(d), NEW o \in Operations, Kind[o] = "delete", TombstoneAgrees(d, o)
  PROVE  Confined(d, PrepareDelete(d, o), o, {})
<1>1. CASE Outcome(d, o) = "absent"
  <2>1. d.quarantine[o].stage = "absent" BY Zenon, <1>1 DEF TombstoneAgrees
  <2>2. Confined(d, NewDelete(d, o), o, {})
    BY Zenon, <1>1, <2>1, JournaledConfined, RefusedConfined DEF NewDelete
  <2>3. QED BY Zenon, <1>1, <2>2 DEF PrepareDelete
<1>2. CASE Outcome(d, o) = "prepared"
  <2>1. ASSUME StillLive(d, o) PROVE Confined(d, ClaimAndDispatch(d, o), o, {})
    BY Zenon, <1>2, <2>1, ClaimAndDispatchConfined DEF StillLive
  <2>2. QED BY Zenon, <1>2, <2>1, MovedDeleteConfined, RefusedConfined DEF PrepareDelete
<1>3. CASE Outcome(d, o) = "succeeded" BY Zenon, <1>3, AnsweredConfined DEF PrepareDelete
<1>4. CASE Outcome(d, o) = "failed" BY Zenon, <1>4, RefusedConfined DEF PrepareDelete
<1>5. QED BY Zenon, <1>1, <1>2, <1>3, <1>4, OutcomeType DEF Outcomes

\* complete_delete moves its own record or nothing.
LEMMA CompleteDeleteConfined ==
  ASSUME NEW d, Sound(d), NEW o \in Operations, Kind[o] = "delete", NEW statuses
  PROVE  Confined(d, CompleteDelete(d, o), o, statuses)
<1>1. CASE Outcome(d, o) = "prepared"
  <2> DEFINE m == MoveToQuarantine(d, o)
  <2>1. m \in Disks /\ m.journal = d.journal BY Zenon, MoveWrite DEF Sound
  <2>2. ASSUME StillLive(d, o), MayOwn(d, o)
        PROVE  Confined(d, FinishDelete({d}, m, o), o, statuses)
    <3>1. \A e : /\ e.live = m.live /\ e.quarantine = m.quarantine
                 /\ e.journal[o].generation = d.journal[o].generation
                 /\ Outcome(e, o) \in {"prepared", "succeeded"}
                 => Touches(d, e, o, statuses)
      BY Zenon, <2>2, MoveTouches DEF StillLive
    <3> HIDE DEF m
    <3>2. QED BY Zenon, <1>1, <2>1, <3>1, FinishDeleteConfined
  <2>3. QED BY Zenon, <1>1, <2>2, MovedDeleteConfined, RefusedConfined DEF CompleteDelete
<1>2. CASE Outcome(d, o) = "succeeded" BY Zenon, <1>2, AnsweredConfined DEF CompleteDelete
<1>3. CASE Outcome(d, o) \notin {"prepared", "succeeded"}
  BY Zenon, <1>3, RefusedConfined DEF CompleteDelete
<1>4. QED BY Zenon, <1>1, <1>2, <1>3
\* fail_operation of a creation: nothing but the quarantine move.
LEMMA FailCreationConfined ==
  ASSUME NEW d, Sound(d), NEW o \in Operations, Outcome(d, o) = "prepared",
         Kind[o] = "create", NEW statuses
  PROVE  Confined(d, FailCreation(d, o), o, statuses)
<1> DEFINE failed == Decide(d, o, "failed")
<1>1. Sound(failed) BY Zenon, DecideSound
<1>2. d \in Disks /\ "failed" \in Outcomes BY Zenon DEF Sound, Outcomes
<1>3. /\ failed.journal[o] = [outcome |-> "failed", generation |-> d.journal[o].generation]
      /\ failed.live = d.live /\ failed.quarantine = d.quarantine
  BY Zenon, <1>2, DecideWrite
<1> HIDE DEF failed
<1>4. Outcome(failed, o) = "failed" BY <1>3 DEF Outcome
<1>5. Confined(failed, QuarantineFailedCreation(failed, o, "ack"), o, statuses)
  BY Zenon, <1>1, <1>4, QuarantineConfined
<1>6. Confined(d, QuarantineFailedCreation(failed, o, "ack"), o, statuses)
  BY Zenon, <1>3, <1>5, ConfinedAfter
<1>7. Touches(d, d, o, statuses) BY Zenon, SameDirectories
<1>8. Confined(d, {Result(d, "torn")}, o, statuses) BY SMTT(40), <1>7 DEF Confined, Result
<1>9. QED BY Zenon, <1>6, <1>8 DEF FailCreation, failed, Confined

\* fail_operation of any other kind releases the claim and keeps the status.
LEMMA FailMutationConfined ==
  ASSUME NEW d, Sound(d), NEW o \in Operations, Outcome(d, o) = "prepared",
         Kind[o] # "create"
  PROVE  Confined(d, FailMutation(d, o), o, {})
<1> DEFINE status == d.live[Target[o]].status
           released == WriteRecord(d, Target[o], status, NoOperation)
           last == Decide(released, o, "failed")
<1>1. Target[o] \in Containers /\ d \in Disks BY Zenon, RequestAssumption DEF Sound
<1>2. status \in Statuses \cup {"none"} BY Zenon, <1>1, StatusType
<1>3. released \in Disks /\ released.journal = d.journal /\ released.quarantine = d.quarantine
  BY <1>1, <1>2, RecordWrite
<1>4. ASSUME LoadsExact(d, o), MayOwn(d, o),
             NEW e, e.live = released.live, e.quarantine = d.quarantine,
             e.journal[o].generation = d.journal[o].generation
      PROVE  Touches(d, e, o, {})
  <2>1. HasRecord(d, Target[o]) /\ d.live[Target[o]].generation = e.journal[o].generation
    BY Zenon, <1>4 DEF LoadsExact
  <2>2. NoOperation \in {o, NoOperation} /\ status \in {d.live[Target[o]].status} \cup {} BY Zenon, SMTT(40)
  <2>3. QED BY Zenon, <1>1, <1>2, <1>4, <2>1, <2>2, RewriteTouches
<1> HIDE DEF released
<1>5. /\ last.journal[o] = [outcome |-> "failed", generation |-> d.journal[o].generation]
      /\ last.live = released.live /\ last.quarantine = d.quarantine
  <2>1. "failed" \in Outcomes BY Zenon DEF Outcomes
  <2>2. QED BY <1>3, <2>1, DecideWrite
<1> HIDE DEF last
<1>6. last.journal[o].generation = d.journal[o].generation BY <1>5
<1>7. ASSUME LoadsExact(d, o), MayOwn(d, o)
      PROVE  Confined(d, Committed({d, released}, last, "ack"), o, {})
  <2>1. \A e \in {d, released} \cup {last} : Touches(d, e, o, {})
    BY Zenon, <1>3, <1>4, <1>5, <1>6, <1>7, SameDirectories
  <2>2. QED BY Zenon, <2>1, CommittedConfined
<1>8. QED BY Zenon, <1>7, RefusedConfined DEF FailMutation, released, last

\* fail_operation keeps every status.
LEMMA FailOperationConfined ==
  ASSUME NEW d, Sound(d), NEW o \in Operations
  PROVE  Confined(d, FailOperation(d, o), o, {})
<1>1. CASE Outcome(d, o) = "prepared"
  BY Zenon, <1>1, FailCreationConfined, FailMutationConfined DEF FailOperation
<1>2. CASE Outcome(d, o) = "failed"
  BY Zenon, <1>2, QuarantineConfined, AnsweredConfined DEF FailOperation
<1>3. CASE Outcome(d, o) \notin {"prepared", "failed"}
  BY Zenon, <1>3, RefusedConfined DEF FailOperation
<1>4. QED BY Zenon, <1>1, <1>2, <1>3

\* The prepare handler of any kind keeps every status.
LEMMA PrepareConfined ==
  ASSUME NEW d, Sound(d), NEW o \in Operations, TombstoneAgrees(d, o)
  PROVE  Confined(d, Prepare(d, o), o, {})
<1>1. CASE Kind[o] = "create" BY Zenon, <1>1, PrepareCreateConfined DEF Prepare
<1>2. CASE Kind[o] = "delete" BY Zenon, <1>2, PrepareDeleteConfined DEF Prepare
<1>3. CASE Kind[o] \notin {"create", "delete"} BY Zenon, <1>3, PrepareMutationConfined DEF Prepare
<1>4. QED BY Zenon, <1>1, <1>2, <1>3

\* The complete handler of any kind writes no status but the settled one.
LEMMA CompleteConfined ==
  ASSUME NEW d, Sound(d), NEW o \in Operations, NEW reply
  PROVE  Confined(d, Complete(d, o, reply), o,
                  {Settled(Kind[o], d.live[Target[o]].status, reply)})
BY Zenon, CompleteDeleteConfined, CompleteMutationConfined DEF Complete

-----------------------------------------------------------------------------
(* The generation counters and the quarantine directories that stay.         *)

Fields == {"last", "journal", "live", "quarantine", "events"}

\* A disk e whose field f is that of d.
Keeps(d, e, f) == Fields \subseteq DOMAIN e /\ e[f] = d[f]

AllKeep(d, results, f) == \A r \in results : Keeps(d, r.disk, f)

\* A disk keeps its own fields.
LEMMA KeepsItself ==
  ASSUME NEW d \in Disks, NEW f
  PROVE  Keeps(d, d, f)
BY Zenon DEF Keeps, Fields, Disks

\* No write but the move and the allocation changes either field.
LEMMA WritesKeep ==
  ASSUME NEW d, NEW e, NEW f \in {"last", "quarantine"}, Keeps(d, e, f)
  PROVE  /\ \A events : Keeps(d, Emit(e, events), f)
         /\ \A o, outcome : Keeps(d, Decide(e, o, outcome), f)
         /\ \A o, outcome, g : Keeps(d, Journaled(e, o, outcome, g), f)
         /\ \A c, x : Keeps(d, PutLive(e, c, x), f)
         /\ \A c, status, active : Keeps(d, WriteRecord(e, c, status, active), f)
<1>1. \A events : Keeps(d, Emit(e, events), f) BY Zenon DEF Keeps, Emit, Fields
<1>2. \A o, outcome : Keeps(d, Decide(e, o, outcome), f) BY Zenon DEF Keeps, Decide, Fields
<1>3. \A o, outcome, g : Keeps(d, Journaled(e, o, outcome, g), f) BY Zenon DEF Keeps, Journaled, Fields
<1>4. \A c, x : Keeps(d, PutLive(e, c, x), f) BY Zenon DEF Keeps, PutLive, Fields
<1>5. \A c, status, active : Keeps(d, WriteRecord(e, c, status, active), f) BY Zenon, <1>4 DEF WriteRecord
<1>6. QED BY Zenon, <1>1, <1>2, <1>3, <1>4, <1>5

\* The move keeps the counters.
LEMMA MoveKeeps ==
  ASSUME NEW d, NEW e, NEW o, Keeps(d, e, "last")
  PROVE  Keeps(d, MoveToQuarantine(e, o), "last")
BY Zenon DEF Keeps, MoveToQuarantine, Fields

\* A handler keeps what each of its disks keeps.
LEMMA CommittedKeep ==
  ASSUME NEW d, NEW f, NEW steps, NEW last, NEW next,
         \A e \in steps \cup {last} : Keeps(d, e, f)
  PROVE  AllKeep(d, Committed(steps, last, next), f)
BY DEF AllKeep, Committed, Result

\* A handler that refuses, and one that answers from the journal.
LEMMA RefusedKeep ==
  ASSUME NEW d, NEW e, NEW f, Keeps(d, e, f)
  PROVE  /\ AllKeep(d, Refused(e), f)
         /\ \A next : AllKeep(d, Committed({e}, e, next), f)
         /\ AllKeep(d, {Result(e, "torn")}, f)
BY DEF AllKeep, Committed, Refused, Result
\* The tails of the handlers.
LEMMA TailsKeep ==
  ASSUME NEW d, NEW e, NEW f \in {"last", "quarantine"}, Keeps(d, e, f), NEW o
  PROVE  /\ AllKeep(d, ClaimAndDispatch(e, o), f)
         /\ \A status : AllKeep(d, Finish(e, o, status), f)
         /\ \A steps : (\A s \in steps : Keeps(d, s, f)) => AllKeep(d, FinishDelete(steps, e, o), f)
<1>1. AllKeep(d, ClaimAndDispatch(e, o), f)
  <2>1. Keeps(d, Claim(e, o), f) BY Zenon, WritesKeep DEF Claim
  <2>2. AllKeep(d, Committed({e}, Claim(e, o), "dispatch"), f) BY Zenon, <2>1, CommittedKeep
  <2>3. QED BY Zenon, <2>2, RefusedKeep DEF ClaimAndDispatch
<1>2. ASSUME NEW status PROVE AllKeep(d, Finish(e, o, status), f)
  <2> DEFINE record == WriteRecord(e, Target[o], status, NoOperation)
             announced == Emit(record, AnnouncedBy(e, o))
             ending == status = "stopped" /\ Kind[o] \in {"start", "kill"}
             stopped == IF ending THEN Emit(announced, {OwnEvent(e, o, "stopped")})
                                  ELSE announced
             last == Decide(stopped, o, "succeeded")
  <2>1. Keeps(d, record, f) BY Zenon, WritesKeep
  <2> HIDE DEF record
  <2>2. Keeps(d, announced, f) BY Zenon, <2>1, WritesKeep
  <2> HIDE DEF announced
  <2>3. Keeps(d, stopped, f) BY Zenon, <2>2, WritesKeep
  <2> HIDE DEF stopped
  <2>4. Keeps(d, last, f) BY Zenon, <2>3, WritesKeep
  <2> HIDE DEF last
  <2>5. AllKeep(d, Committed({e, record, announced, stopped}, last, "ack"), f)
    BY Zenon, <2>1, <2>2, <2>3, <2>4, CommittedKeep
  <2>6. QED BY Zenon, <2>5 DEF Finish, record, announced, stopped, last
<1>3. ASSUME NEW steps, \A s \in steps : Keeps(d, s, f)
      PROVE  AllKeep(d, FinishDelete(steps, e, o), f)
  <2> DEFINE stopped == Emit(e, {OwnEvent(e, o, "stopped")})
             deleted == Emit(stopped, AnnouncedBy(e, o))
             last == Decide(deleted, o, "succeeded")
  <2>1. Keeps(d, stopped, f) BY Zenon, WritesKeep
  <2> HIDE DEF stopped
  <2>2. Keeps(d, deleted, f) BY Zenon, <2>1, WritesKeep
  <2> HIDE DEF deleted
  <2>3. Keeps(d, last, f) BY Zenon, <2>2, WritesKeep
  <2> HIDE DEF last
  <2>4. AllKeep(d, Committed(steps \cup {e, stopped, deleted}, last, "ack"), f)
    BY Zenon, <1>3, <2>1, <2>2, <2>3, CommittedKeep
  <2>5. QED BY Zenon, <2>4 DEF FinishDelete, stopped, deleted, last
<1>4. QED BY Zenon, <1>1, <1>2, <1>3

\* prepare_create of a prepared creation.
LEMMA ResumeCreateKeeps ==
  ASSUME NEW d, NEW e, NEW f \in {"last", "quarantine"}, Keeps(d, e, f), NEW o
  PROVE  AllKeep(d, ResumeCreate(e, o), f)
<1> DEFINE made == MakeDirectory(e, o)
           configured == StoreConfig(made, o)
           recorded == StoreContainer(configured, o)
           claimed == Claim(recorded, o)
           last == Emit(claimed, {OwnEvent(e, o, "creating")})
<1>1. Keeps(d, made, f) BY Zenon, WritesKeep DEF MakeDirectory
<1> HIDE DEF made
<1>2. Keeps(d, configured, f) BY Zenon, <1>1, WritesKeep DEF StoreConfig
<1> HIDE DEF configured
<1>3. Keeps(d, recorded, f) BY Zenon, <1>2, WritesKeep DEF StoreContainer
<1> HIDE DEF recorded
<1>4. Keeps(d, claimed, f) BY Zenon, <1>3, WritesKeep DEF Claim
<1> HIDE DEF claimed
<1>5. Keeps(d, last, f) BY Zenon, <1>4, WritesKeep
<1> HIDE DEF last
<1>6. AllKeep(d, Committed({e, made, configured, recorded, claimed}, last, "dispatch"), f)
  BY Zenon, <1>1, <1>2, <1>3, <1>4, <1>5, CommittedKeep
<1>7. QED BY Zenon, <1>6, RefusedKeep DEF ResumeCreate, made, configured, recorded, claimed, last

\* reconcile_failed_creation keeps the counters.
LEMMA QuarantineKeeps ==
  ASSUME NEW d, NEW e, Keeps(d, e, "last"), NEW o, NEW next
  PROVE  AllKeep(d, QuarantineFailedCreation(e, o, next), "last")
<1>1. Keeps(d, MoveToQuarantine(e, o), "last") BY Zenon, MoveKeeps
<1>2. AllKeep(d, Committed({e}, MoveToQuarantine(e, o), next), "last") BY Zenon, <1>1, CommittedKeep
<1>3. QED BY Zenon, <1>2, RefusedKeep DEF QuarantineFailedCreation

\* prepare_delete keeps the counters, and moves nothing.
LEMMA PrepareDeleteKeeps ==
  ASSUME NEW d, Sound(d), NEW o \in Operations, NEW f \in {"last", "quarantine"}
  PROVE  AllKeep(d, PrepareDelete(d, o), f)
<1> DEFINE journaled == Journaled(d, o, "prepared", d.live[Target[o]].generation)
<1>1. Keeps(d, d, f) BY Zenon, KeepsItself DEF Sound
<1>2. Keeps(d, journaled, f) BY Zenon, <1>1, WritesKeep
<1>3. AllKeep(d, {Result(d, "torn")} \cup ClaimAndDispatch(journaled, o), f)
  BY Zenon, <1>1, <1>2, TailsKeep, RefusedKeep DEF AllKeep
<1>4. AllKeep(d, NewDelete(d, o), f) BY Zenon, <1>1, <1>3, RefusedKeep DEF NewDelete
<1>5. AllKeep(d, FinishDelete({d}, d, o), f) BY Zenon, <1>1, TailsKeep
<1>6. QED BY ZenonT(40), <1>1, <1>4, <1>5, OutcomeType, TailsKeep, RefusedKeep DEF PrepareDelete, Outcomes

\* Only a new creation takes a generation.
LEMMA PrepareKeeps ==
  ASSUME NEW d, Sound(d), NEW o \in Operations, Kind[o] # "create" \/ Outcome(d, o) # "absent"
  PROVE  AllKeep(d, Prepare(d, o), "last")
<1>1. Keeps(d, d, "last") BY Zenon, KeepsItself DEF Sound
<1>2. Outcome(d, o) \in {"absent", "prepared", "succeeded", "failed"} BY Zenon, OutcomeType DEF Outcomes
<1>3. CASE Kind[o] = "create"
  <2>1. AllKeep(d, PrepareCreate(d, o), "last")
    <3>1. AllKeep(d, ResumeCreate(d, o), "last") BY Zenon, <1>1, ResumeCreateKeeps
    <3>2. AllKeep(d, QuarantineFailedCreation(d, o, "error"), "last") BY Zenon, <1>1, QuarantineKeeps
    <3>3. AllKeep(d, ReplaySucceeded(d, o), "last") BY Zenon, <1>1, RefusedKeep DEF ReplaySucceeded
    <3>4. QED BY Zenon, <1>2, <1>3, <3>1, <3>2, <3>3 DEF PrepareCreate
  <2>2. QED BY Zenon, <1>3, <2>1 DEF Prepare
<1>4. CASE Kind[o] = "delete" BY Zenon, <1>4, PrepareDeleteKeeps DEF Prepare
<1>5. CASE Kind[o] \notin {"create", "delete"}
  <2> DEFINE journaled == Journaled(d, o, "prepared", d.live[Target[o]].generation)
  <2>1. Keeps(d, journaled, "last") BY Zenon, <1>1, WritesKeep
  <2>2. AllKeep(d, {Result(d, "torn")} \cup ClaimAndDispatch(journaled, o), "last")
    BY Zenon, <1>1, <2>1, TailsKeep, RefusedKeep DEF AllKeep
  <2>3. AllKeep(d, NewMutation(d, o), "last") BY Zenon, <1>1, <2>2, RefusedKeep DEF NewMutation
  <2>4. AllKeep(d, ResumeMutation(d, o), "last") BY Zenon, <1>1, TailsKeep, RefusedKeep DEF ResumeMutation
  <2>5. AllKeep(d, ReplaySucceeded(d, o), "last") BY Zenon, <1>1, RefusedKeep DEF ReplaySucceeded
  <2>6. AllKeep(d, PrepareMutation(d, o), "last")
    BY Zenon, <1>1, <1>2, <2>3, <2>4, <2>5, RefusedKeep DEF PrepareMutation
  <2>7. QED BY Zenon, <1>5, <2>6 DEF Prepare
<1>6. QED BY Zenon, <1>3, <1>4, <1>5

\* No completion and no failure takes a generation.
LEMMA SettleKeeps ==
  ASSUME NEW d, Sound(d), NEW o \in Operations
  PROVE  /\ \A reply : AllKeep(d, Complete(d, o, reply), "last")
         /\ AllKeep(d, FailOperation(d, o), "last")
<1>1. Keeps(d, d, "last") BY Zenon, KeepsItself DEF Sound
<1>2. Outcome(d, o) \in {"absent", "prepared", "succeeded", "failed"} BY Zenon, OutcomeType DEF Outcomes
<1>3. AllKeep(d, CompleteDelete(d, o), "last")
  <2>1. Keeps(d, MoveToQuarantine(d, o), "last") BY Zenon, <1>1, MoveKeeps
  <2>2. AllKeep(d, FinishDelete({d}, MoveToQuarantine(d, o), o), "last") BY Zenon, <1>1, <2>1, TailsKeep
  <2>3. AllKeep(d, FinishDelete({d}, d, o), "last") BY Zenon, <1>1, TailsKeep
  <2>4. QED BY Zenon, <1>1, <1>2, <2>2, <2>3, RefusedKeep DEF CompleteDelete
<1>4. ASSUME NEW reply PROVE AllKeep(d, CompleteMutation(d, o, reply), "last")
  <2> DEFINE settled == Settled(Kind[o], d.live[Target[o]].status, reply)
  <2>1. AllKeep(d, Finish(d, o, settled), "last") BY Zenon, <1>1, TailsKeep
  <2>2. QED BY Zenon, <1>1, <1>2, <2>1, RefusedKeep DEF CompleteMutation
<1>5. AllKeep(d, FailOperation(d, o), "last")
  <2> DEFINE failed == Decide(d, o, "failed")
             released == WriteRecord(d, Target[o], d.live[Target[o]].status, NoOperation)
             last == Decide(released, o, "failed")
  <2>1. Keeps(d, failed, "last") BY Zenon, <1>1, WritesKeep
  <2>2. AllKeep(d, FailCreation(d, o), "last")
    BY Zenon, <1>1, <2>1, QuarantineKeeps, RefusedKeep DEF FailCreation, AllKeep
  <2>3. Keeps(d, released, "last") BY Zenon, <1>1, WritesKeep
  <2>4. Keeps(d, last, "last") BY Zenon, <2>3, WritesKeep
  <2>5. AllKeep(d, Committed({d, released}, last, "ack"), "last") BY Zenon, <1>1, <2>3, <2>4, CommittedKeep
  <2>6. AllKeep(d, FailMutation(d, o), "last") BY Zenon, <1>1, <2>5, RefusedKeep DEF FailMutation
  <2>7. QED BY Zenon, <1>1, <2>2, <2>6, QuarantineKeeps, RefusedKeep DEF FailOperation
<1>6. QED BY Zenon, <1>3, <1>4, <1>5 DEF Complete
\* How the counters go with a handler for o: they stay, or a new creation takes
\* the next generation of a container that has no directory.
Numbered(d, e, o) ==
    \/ /\ e.last = d.last
       /\ Kind[o] = "create" /\ Outcome(d, o) = "absent" => Outcome(e, o) = "absent"
    \/ /\ Kind[o] = "create"
       /\ Outcome(d, o) = "absent"
       /\ ~HasDirectory(d, Target[o])
       /\ \A b \in Containers \ {Target[o]} : e.last[b] = d.last[b]
       /\ e.last[Target[o]] = d.last[Target[o]] + 1
       /\ \/ Outcome(e, o) = "absent" /\ e.live = d.live
          \/ Outcome(e, o) = "prepared" /\ e.journal[o].generation = e.last[Target[o]]

\* prepare_create of a new operation takes the next generation.
LEMMA NewCreateNumbers ==
  ASSUME NEW d, Sound(d), NEW o \in Operations, Outcome(d, o) = "absent",
         Kind[o] = "create", NEW r \in NewCreate(d, o)
  PROVE  Numbered(d, r.disk, o)
<1> DEFINE c == Target[o]
           g == d.last[c] + 1
           allocated == [d EXCEPT !.last[c] = d.last[c] + 1]
           journaled == Journaled(allocated, o, "prepared", g)
<1>1. c \in Containers /\ d \in Disks BY Zenon, RequestAssumption DEF Sound
<1>2. CASE r.disk = d BY Zenon, <1>2 DEF Numbered
<1>3. CASE ~HasDirectory(d, c) /\ ~(d.last[c] >= MaxGeneration) /\ r.disk # d
  <2>1. d.last[c] \in Nat /\ d.last[c] < MaxGeneration /\ g \in Generations /\ g >= 1
    BY <1>1, <1>3, RequestAssumption DEF Disks, Generations
  <2>2. /\ Sound(allocated)
        /\ allocated.journal = d.journal /\ allocated.live = d.live
        /\ allocated.last[c] = g
        /\ \A p \in Operations : IsCreation(allocated, p) /\ Target[p] = c
              => allocated.journal[p].generation # g
    BY Zenon, <1>1, <2>1, AllocateSound
  <2>3. \A b \in Containers \ {c} : allocated.last[b] = d.last[b] BY Zenon, <1>1 DEF Disks
  <2>4. r = Result(allocated, "torn") \/ r \in ResumeCreate(journaled, o)
    BY <1>3 DEF NewCreate, Result
  <2> HIDE DEF allocated
  <2>5. Outcome(allocated, o) = "absent" BY Zenon, <2>2 DEF Outcome
  <2>6. CASE r = Result(allocated, "torn")
    BY Zenon, <1>3, <2>2, <2>3, <2>5, <2>6 DEF Numbered, Result
  <2>7. CASE r \in ResumeCreate(journaled, o)
    <3>1. g \in 1 .. allocated.last[c] BY <2>1, <2>2
    <3>2. Sound(journaled) BY Zenon, <2>1, <2>2, <2>5, <3>1, JournaledSound
    <3>3. /\ journaled.journal[o] = [outcome |-> "prepared", generation |-> g]
          /\ journaled.last = allocated.last
      BY SMTT(40), <2>1, <2>2, JournaledWrite DEF Sound, Outcomes
    <3> HIDE DEF journaled
    <3>4. Outcome(journaled, o) = "prepared" BY <3>3 DEF Outcome
    <3>5. JournalStep(journaled, r.disk, o, {}) BY Zenon, <2>7, <3>2, <3>4, ResumeCreateDelivers DEF Delivers
    <3>6. r.disk.journal[o] = journaled.journal[o] BY Zenon, <3>4, <3>5 DEF JournalStep
    <3>7. Keeps(journaled, journaled, "last") BY Zenon, <3>2, KeepsItself DEF Sound
    <3>8. r.disk.last = journaled.last BY <2>7, <3>7, ResumeCreateKeeps DEF AllKeep, Keeps
    <3>9. Outcome(r.disk, o) = "prepared" /\ r.disk.journal[o].generation = g
      BY <3>3, <3>6 DEF Outcome
    <3>10. QED BY Zenon, <1>3, <2>2, <2>3, <3>3, <3>8, <3>9 DEF Numbered
  <2>8. QED BY Zenon, <2>4, <2>6, <2>7
<1>4. QED BY <1>2, <1>3 DEF NewCreate, Refused, Result

\* The prepare handler of any kind.
LEMMA PrepareNumbers ==
  ASSUME NEW d, Sound(d), NEW o \in Operations, NEW r \in Prepare(d, o)
  PROVE  Numbered(d, r.disk, o)
<1>1. CASE Kind[o] = "create" /\ Outcome(d, o) = "absent"
  BY Zenon, <1>1, NewCreateNumbers DEF Prepare, PrepareCreate
<1>2. CASE ~(Kind[o] = "create" /\ Outcome(d, o) = "absent")
  BY Zenon, <1>2, PrepareKeeps DEF AllKeep, Keeps, Numbered
<1>3. QED BY Zenon, <1>1, <1>2

\* complete_<kind> and fail_operation take no generation and accept no creation.
LEMMA SettleNumbers ==
  ASSUME NEW d, Sound(d), NEW o \in Operations, NEW reply,
         Outcome(d, o) # "absent",
         NEW r \in Complete(d, o, reply) \cup FailOperation(d, o)
  PROVE  Numbered(d, r.disk, o)
BY SettleKeeps DEF AllKeep, Keeps, Numbered

-----------------------------------------------------------------------------
(* Observations.                                                             *)

\* What an observation of generation g of c may touch: the status becomes the
\* observed one, and the claim is released only by the operation it completes,
\* which is never a creation or a delete.
Sees(d, e, c, g, seen) ==
    /\ \A b \in Containers \ {c} : e.live[b] = d.live[b]
    /\ e.quarantine = d.quarantine
    /\ e.last = d.last
    /\ \A p \in Operations : Kind[p] \in {"create", "delete"} => e.journal[p] = d.journal[p]
    /\ \/ e.live[c] = d.live[c]
       \/ /\ HasRecord(d, c) /\ HasRecord(e, c)
          /\ d.live[c].generation = g
          /\ e.live[c].generation = g
          /\ e.live[c].status = seen
          /\ \/ e.live[c].active = d.live[c].active
             \/ /\ e.live[c].active = NoOperation
                /\ Kind[d.live[c].active] \notin {"create", "delete"}

\* What an observation commits is what was observed.
LEMMA ReconciledIsSeen ==
  ASSUME NEW status \in Statuses \cup {"none"}, NEW seen \in Observations, NEW starting,
         Reconciled(status, seen, starting) # "refused"
  PROVE  Reconciled(status, seen, starting) = seen
BY Zenon DEF Reconciled, Statuses, Observations, Transition, IsRunning

\* observe_state_inner.
LEMMA ObserveSees ==
  ASSUME NEW d, Sound(d), NEW c \in Containers, NEW g \in Generations,
         NEW seen \in Observations, NEW r \in Observe(d, c, g, seen)
  PROVE  Sees(d, r.disk, c, g, seen)
<1> DEFINE active == d.live[c].active
           status == d.live[c].status
           claimed == active # NoOperation
           completes == claimed /\ ObservationCompletes(Kind[active], seen)
           settled == Reconciled(status, seen, claimed /\ Kind[active] = "start")
           owner == IF completes THEN NoOperation ELSE active
           record == WriteRecord(d, c, settled, owner)
           announced == IF completes THEN Emit(record, AnnouncedBy(d, active)) ELSE record
           exited == seen = "stopped" /\ status # "stopped"
           stopped == IF exited THEN Emit(announced, {ContainerEvent(c, g, "stopped")})
                                ELSE announced
           last == IF completes THEN Decide(stopped, active, "succeeded") ELSE stopped
           accepted == /\ HasRecord(d, c)
                       /\ d.live[c].generation = g
                       /\ claimed => ClaimIsPrepared(d, c)
                       /\ settled # "refused"
<1>0. Observe(d, c, g, seen) =
        IF accepted THEN Committed({d, record, announced, stopped}, last, "observed")
                    ELSE Refused(d)
  BY Zenon DEF Observe
<1> HIDE DEF active, status, claimed, completes, settled, owner, record, announced,
             exited, stopped, last, accepted
<1>1. Sees(d, d, c, g, seen) BY Zenon DEF Sees
<1>2. CASE ~accepted
  <2>1. r.disk = d BY <1>0, <1>2 DEF Refused, Result
  <2>2. QED BY Zenon, <1>1, <2>1
<1>3. CASE accepted
  <2>1. d \in Disks BY Zenon DEF Sound
  <2>2. status \in Statuses \cup {"none"} BY Zenon, <2>1, StatusType DEF status
  <2>3. active \in Operations \cup {NoOperation} BY Zenon, <2>1 DEF Disks, Directories, active
  <2>4. completes => active \in Operations /\ Kind[active] \notin {"create", "delete"}
    <3>1. completes => claimed /\ ObservationCompletes(Kind[active], seen) BY Zenon DEF completes
    <3>2. claimed => active \in Operations BY Zenon, <2>3 DEF claimed
    <3>3. ~ObservationCompletes("create", seen) /\ ~ObservationCompletes("delete", seen)
      BY Zenon DEF ObservationCompletes
    <3>4. QED BY Zenon, <3>1, <3>2, <3>3
  <2>5. settled = seen /\ seen \in Statuses \cup {"none"}
    <3>1. settled # "refused" BY Zenon, <1>3 DEF accepted
    <3>2. settled = seen BY Zenon, <2>2, <3>1, ReconciledIsSeen DEF settled
    <3>3. QED BY Zenon, <3>2 DEF Observations, Statuses
  <2>6. owner \in Operations \cup {NoOperation} BY Zenon, <2>3 DEF owner
  <2>7. /\ record \in Disks /\ record.journal = d.journal
        /\ record.live[c].stage = d.live[c].stage
        /\ record.live[c].generation = d.live[c].generation
        /\ record.live[c].status = seen
        /\ record.live[c].active = owner
        /\ \A b \in Containers \ {c} : record.live[b] = d.live[b]
        /\ record.quarantine = d.quarantine /\ record.last = d.last
    BY SMTT(40), <2>1, <2>5, <2>6, RecordWrite DEF record
  <2>8. ASSUME NEW e, e.live = record.live, e.quarantine = d.quarantine, e.last = d.last,
               \A p \in Operations : Kind[p] \in {"create", "delete"} => e.journal[p] = d.journal[p]
        PROVE  Sees(d, e, c, g, seen)
    <3>1. HasRecord(d, c) /\ d.live[c].generation = g BY Zenon, <1>3 DEF accepted
    <3>2. owner = active \/ (owner = NoOperation /\ Kind[active] \notin {"create", "delete"})
      BY Zenon, <2>4 DEF owner
    <3>3. QED BY Zenon, <2>7, <2>8, <3>1, <3>2 DEF Sees, HasRecord, active
  <2>9. {ContainerEvent(c, g, "stopped")} \in SUBSET Events
    BY DEF ContainerEvent, Events, Suffixes
  <2>10. /\ announced \in Disks /\ announced.journal = d.journal /\ announced.live = record.live
         /\ announced.quarantine = d.quarantine /\ announced.last = d.last
    <3>1. CASE completes
      <4>1. AnnouncedBy(d, active) \in SUBSET Events BY Zenon, <2>1, <2>4, <3>1, OwnEventType
      <4>2. announced = Emit(record, AnnouncedBy(d, active)) BY Zenon, <3>1 DEF announced
      <4>3. QED BY Zenon, <2>7, <4>1, <4>2, EmitWrite
    <3>2. CASE ~completes
      <4>1. announced = record BY Zenon, <3>2 DEF announced
      <4>2. QED BY Zenon, <2>7, <4>1
    <3>3. QED BY Zenon, <3>1, <3>2
  <2>11. /\ stopped \in Disks /\ stopped.journal = d.journal /\ stopped.live = record.live
         /\ stopped.quarantine = d.quarantine /\ stopped.last = d.last
    <3>1. CASE exited
      <4>1. stopped = Emit(announced, {ContainerEvent(c, g, "stopped")}) BY Zenon, <3>1 DEF stopped
      <4>2. QED BY Zenon, <2>9, <2>10, <4>1, EmitWrite
    <3>2. CASE ~exited
      <4>1. stopped = announced BY Zenon, <3>2 DEF stopped
      <4>2. QED BY Zenon, <2>10, <4>1
    <3>3. QED BY Zenon, <3>1, <3>2
  <2>12. /\ last.live = record.live /\ last.quarantine = d.quarantine /\ last.last = d.last
         /\ \A p \in Operations : Kind[p] \in {"create", "delete"} => last.journal[p] = d.journal[p]
    <3>1. CASE completes
      <4>1. last = Decide(stopped, active, "succeeded") BY Zenon, <3>1 DEF last
      <4>2. "succeeded" \in Outcomes BY Zenon DEF Outcomes
      <4>3. /\ last.live = stopped.live /\ last.quarantine = stopped.quarantine
            /\ last.last = stopped.last
            /\ \A p \in Operations \ {active} : last.journal[p] = stopped.journal[p]
        BY ZenonT(40), <2>4, <2>11, <3>1, <4>1, <4>2, DecideWrite
      <4>4. QED BY Zenon, <2>4, <2>11, <3>1, <4>3
    <3>2. CASE ~completes
      <4>1. last = stopped BY Zenon, <3>2 DEF last
      <4>2. QED BY Zenon, <2>11, <4>1
    <3>3. QED BY Zenon, <3>1, <3>2
  <2>13. \A e \in {d, record, announced, stopped, last} : Sees(d, e, c, g, seen)
    BY Zenon, <1>1, <2>7, <2>8, <2>10, <2>11, <2>12
  <2>14. r.disk \in {d, record, announced, stopped, last}
    BY <1>0, <1>3 DEF Committed, Result
  <2>15. QED BY Zenon, <2>13, <2>14
<1>4. QED BY Zenon, <1>2, <1>3
-----------------------------------------------------------------------------
(* Quarantine.  A failed creation that has not been moved yet still holds    *)
(* the claim of its record, so what is moved is what the operation claimed.  *)

FailedHolds(d, o) ==
    /\ Kind[o] = "create"
    /\ Outcome(d, o) = "failed"
    /\ d.quarantine[o].stage = "absent"
    /\ LoadsExact(d, o)
    => d.live[Target[o]].active = o

Tombs(d) == \A o \in Operations : TombstoneAgrees(d, o) /\ FailedHolds(d, o)

\* A handler for another operation cannot take a record away from its holder.
LEMMA TouchHolds ==
  ASSUME NEW d, NEW e, NEW o \in Operations, NEW p \in Operations, o # p,
         NEW statuses, NEW ends,
         Touches(d, e, o, statuses), JournalStep(d, e, o, ends), Holds(d, p)
  PROVE  Holds(e, p)
<1>1. e.journal[p] = d.journal[p] /\ e.quarantine[p] = d.quarantine[p]
  BY Zenon DEF JournalStep, Touches
<1>2. e.live[Target[p]] = d.live[Target[p]]
  <2>1. CASE Target[p] # Target[o] BY Zenon, <2>1, RequestAssumption DEF Touches
  <2>2. CASE Target[p] = Target[o]
    <3>1. d.live[Target[o]].active = p /\ HasRecord(d, Target[o]) BY Zenon, <2>2 DEF Holds, LoadsExact
    <3>2. ~MayOwn(d, o) BY Zenon, <3>1, RequestAssumption DEF MayOwn
    <3>3. Stays(d, e, o) BY ZenonT(40), <3>1, <3>2 DEF Touches, Rewrites, Moves, Builds, Loaded
    <3>4. QED BY Zenon, <2>2, <3>3 DEF Stays
  <2>3. QED BY Zenon, <2>1, <2>2
<1>3. QED BY Zenon, <1>1, <1>2 DEF Holds, LoadsExact, HasRecord, Outcome

\* An observation cannot release a creation or a delete.
LEMMA SeesHolds ==
  ASSUME NEW d, NEW e, NEW c \in Containers, NEW g, NEW seen, NEW p \in Operations,
         Kind[p] \in {"create", "delete"}, Sees(d, e, c, g, seen), Holds(d, p)
  PROVE  Holds(e, p)
<1>1. e.journal[p] = d.journal[p] /\ e.quarantine[p] = d.quarantine[p] BY Zenon DEF Sees
<1>2. /\ HasRecord(e, Target[p]) /\ e.live[Target[p]].active = p
      /\ e.live[Target[p]].generation = d.live[Target[p]].generation
  <2>1. CASE Target[p] # c \/ e.live[c] = d.live[c]
    BY Zenon, <2>1, RequestAssumption DEF Sees, Holds, LoadsExact, HasRecord
  <2>2. CASE Target[p] = c /\ e.live[c] # d.live[c]
    BY Zenon, <2>2 DEF Sees, Holds
  <2>3. QED BY Zenon, <2>1, <2>2
<1>3. QED BY Zenon, <1>1, <1>2 DEF Holds, LoadsExact, Outcome

\* A handler keeps the quarantine in agreement with the journal if a creation
\* or delete that moves or fails holds its record.
LEMMA TouchTombs ==
  ASSUME NEW d, Sound(d), NEW e, Sound(e), Tombs(d), NEW o \in Operations,
         NEW statuses, NEW ends \in SUBSET {"succeeded", "failed"},
         Touches(d, e, o, statuses), JournalStep(d, e, o, ends),
         /\ Kind[o] \in {"create", "delete"}
         /\ e.quarantine[o] # d.quarantine[o] \/ Outcome(e, o) = "failed"
         => Holds(d, o) \/ Outcome(d, o) = "failed"
  PROVE  Tombs(e)
<1>1. ASSUME NEW p \in Operations, p # o PROVE TombstoneAgrees(e, p)
  <2>1. e.journal[p] = d.journal[p] /\ e.quarantine[p] = d.quarantine[p]
    BY Zenon, <1>1 DEF JournalStep, Touches
  <2>2. QED BY SMTT(40), <2>1 DEF Tombs, TombstoneAgrees, Outcome
<1>2. ASSUME NEW p \in Operations, p # o PROVE FailedHolds(e, p)
  <2> SUFFICES ASSUME Kind[p] = "create", Outcome(e, p) = "failed",
                      e.quarantine[p].stage = "absent", LoadsExact(e, p)
               PROVE  e.live[Target[p]].active = p
    BY Zenon DEF FailedHolds
  <2>1. e.journal[p] = d.journal[p] /\ e.quarantine[p] = d.quarantine[p]
    BY ZenonT(40), <1>2 DEF JournalStep, Touches
  <2>2. LoadsExact(d, p) => d.live[Target[p]].active = p
    BY Zenon, <2>1 DEF Tombs, FailedHolds, Outcome
  <2>3. CASE e.live[Target[p]] = d.live[Target[p]]
    BY Zenon, <2>1, <2>2, <2>3 DEF LoadsExact, HasRecord
  <2>4. CASE e.live[Target[p]] # d.live[Target[p]]
    <3>1. Target[p] = Target[o] /\ ~Stays(d, e, o)
      BY Zenon, <2>4, RequestAssumption DEF Touches, Stays
    <3>2. CASE Rewrites(d, e, o, statuses)
      <4>1. LoadsExact(d, p) BY ZenonT(40), <2>1, <3>1, <3>2 DEF Rewrites, Loaded, LoadsExact
      <4>2. QED BY Zenon, <1>2, <2>2, <3>1, <3>2, <4>1, RequestAssumption DEF Rewrites, Loaded, MayOwn
    <3>3. CASE Builds(d, e, o)
      <4>1. IsCreation(e, o) /\ IsCreation(e, p) BY Zenon, <3>3 DEF Builds, IsCreation
      <4>2. e.journal[o].generation # e.journal[p].generation
        BY ZenonT(40), <1>2, <3>1, <4>1 DEF Sound, Fenced, AuditOperations
      <4>3. QED BY Zenon, <3>1, <3>3, <4>2 DEF Builds, LoadsExact
    <3>4. CASE Moves(d, e, o)
      BY SMTT(40), <3>1, <3>4 DEF Moves, LoadsExact, HasRecord, NoDirectory, Partial
    <3>5. QED BY Zenon, <3>1, <3>2, <3>3, <3>4 DEF Touches
  <2>5. QED BY Zenon, <2>3, <2>4
<1>3. CASE Moves(d, e, o) /\ e.quarantine[o] # d.quarantine[o]
  <2>1. /\ e.quarantine[o] = d.live[Target[o]] /\ HasRecord(d, Target[o])
        /\ d.live[Target[o]].generation = e.journal[o].generation
        /\ d.quarantine[o].stage = "absent"
        /\ e.live[Target[o]] = NoDirectory
        /\ \/ Kind[o] = "create" /\ Outcome(e, o) = "failed"
           \/ Kind[o] = "delete" /\ Outcome(e, o) \in {"prepared", "succeeded"}
    BY ZenonT(40), <1>3 DEF Moves, Loaded
  <2>2. d.live[Target[o]].active = o
    <3>1. CASE Holds(d, o) BY Zenon, <3>1 DEF Holds
    <3>2. CASE Outcome(d, o) = "failed"
      <4>1. e.journal[o] = d.journal[o] BY Zenon, <3>2 DEF JournalStep
      <4>2. Kind[o] = "create" BY Zenon, <2>1, <3>2, <4>1 DEF Outcome
      <4>3. LoadsExact(d, o) BY Zenon, <2>1, <4>1 DEF LoadsExact
      <4>4. QED BY Zenon, <2>1, <3>2, <4>2, <4>3 DEF Tombs, FailedHolds
    <3>3. QED BY Zenon, <1>3, <2>1, <3>1, <3>2
  <2>3. TombstoneAgrees(e, o) BY Zenon, <2>1, <2>2 DEF TombstoneAgrees, HasRecord
  <2>4. FailedHolds(e, o)
    BY Zenon, <2>1 DEF FailedHolds, LoadsExact, HasRecord, NoDirectory, Partial
  <2>5. QED BY Zenon, <1>1, <1>2, <2>3, <2>4 DEF Tombs
<1>4. CASE e.quarantine[o] = d.quarantine[o]
  <2>1. TombstoneAgrees(e, o)
    <3> SUFFICES ASSUME e.quarantine[o].stage # "absent"
                 PROVE  /\ \/ Kind[o] = "create" /\ Outcome(e, o) = "failed"
                           \/ Kind[o] = "delete" /\ Outcome(e, o) \in {"prepared", "succeeded"}
                        /\ e.journal[o].generation = d.journal[o].generation
      BY SMTT(40), <1>4 DEF Tombs, TombstoneAgrees
    <3>1. \/ Kind[o] = "create" /\ Outcome(d, o) = "failed"
          \/ Kind[o] = "delete" /\ Outcome(d, o) \in {"prepared", "succeeded"}
      BY Zenon, <1>4 DEF Tombs, TombstoneAgrees
    <3>2. CASE e.journal[o] = d.journal[o] BY Zenon, <3>1, <3>2 DEF Outcome
    <3>3. CASE e.journal[o] # d.journal[o]
      <4>1. /\ Outcome(d, o) = "prepared" /\ Outcome(e, o) \in {"succeeded", "failed"}
            /\ e.journal[o].generation = d.journal[o].generation
        BY Zenon, <3>1, <3>3 DEF JournalStep
      <4>2. Outcome(e, o) # "failed" BY Zenon, <1>4, <3>1, <4>1 DEF Holds
      <4>3. QED BY Zenon, <3>1, <4>1, <4>2
    <3>4. QED BY Zenon, <3>2, <3>3
  <2>2. FailedHolds(e, o)
    <3> SUFFICES ASSUME Kind[o] = "create", Outcome(e, o) = "failed",
                        e.quarantine[o].stage = "absent", LoadsExact(e, o)
                 PROVE  e.live[Target[o]].active = o
      BY Zenon DEF FailedHolds
    <3>1. Stays(d, e, o)
      <4>1. e.live[Target[o]].stage = "record" BY ZenonT(40) DEF LoadsExact, HasRecord
      <4>2. NoDirectory.stage = "absent" BY Zenon DEF NoDirectory, Partial
      <4>3. ~Moves(d, e, o) BY Zenon, <4>1, <4>2 DEF Moves
      <4>4. ~Builds(d, e, o) BY Zenon DEF Builds
      <4>5. \A s : ~Rewrites(d, e, o, s) BY ZenonT(40) DEF Rewrites
      <4>6. QED BY ZenonT(40), <4>3, <4>4, <4>5 DEF Touches
    <3>2. CASE Holds(d, o) BY Zenon, <3>1, <3>2 DEF Stays, Holds
    <3>3. CASE Outcome(d, o) = "failed"
      <4>1. e.journal[o] = d.journal[o] BY Zenon, <3>3 DEF JournalStep
      <4>2. LoadsExact(d, o) BY Zenon, <3>1, <4>1 DEF Stays, LoadsExact, HasRecord
      <4>3. QED BY Zenon, <1>4, <3>1, <3>3, <4>2 DEF Tombs, FailedHolds, Stays
    <3>4. QED BY Zenon, <3>2, <3>3
  <2>3. QED BY Zenon, <1>1, <1>2, <2>1, <2>2 DEF Tombs
<1>5. QED BY ZenonT(40), <1>3, <1>4 DEF Touches, Stays, Rewrites, Builds

\* An observation keeps the quarantine in agreement with the journal.
LEMMA SeesTombs ==
  ASSUME NEW d, NEW e, NEW c \in Containers, NEW g, NEW seen,
         Tombs(d), Sees(d, e, c, g, seen)
  PROVE  Tombs(e)
<1> SUFFICES ASSUME NEW p \in Operations PROVE TombstoneAgrees(e, p) /\ FailedHolds(e, p)
  BY Zenon DEF Tombs
<1>1. e.quarantine = d.quarantine BY Zenon DEF Sees
<1>2. Kind[p] \in {"create", "delete"} => e.journal[p] = d.journal[p] BY Zenon DEF Sees
<1>3. TombstoneAgrees(e, p) BY SMTT(40), <1>1, <1>2 DEF Tombs, TombstoneAgrees, Outcome
<1>4. FailedHolds(e, p)
  <2> SUFFICES ASSUME Kind[p] = "create", Outcome(e, p) = "failed",
                      e.quarantine[p].stage = "absent", LoadsExact(e, p)
               PROVE  e.live[Target[p]].active = p
    BY Zenon DEF FailedHolds
  <2>1. e.journal[p] = d.journal[p] BY Zenon, <1>2
  <2>2. LoadsExact(d, p) => d.live[Target[p]].active = p
    BY Zenon, <1>1, <2>1 DEF Tombs, FailedHolds, Outcome
  <2>3. CASE Target[p] # c \/ e.live[c] = d.live[c]
    <3>1. e.live[Target[p]] = d.live[Target[p]] BY Zenon, <2>3, RequestAssumption DEF Sees
    <3>2. QED BY Zenon, <2>1, <2>2, <3>1 DEF LoadsExact, HasRecord
  <2>4. CASE Target[p] = c /\ e.live[c] # d.live[c]
    <3>1. LoadsExact(d, p) BY Zenon, <2>1, <2>4 DEF Sees, LoadsExact
    <3>2. QED BY Zenon, <2>2, <2>4, <3>1 DEF Sees
  <2>5. QED BY Zenon, <2>3, <2>4
<1>5. QED BY Zenon, <1>3, <1>4

\* Nothing is in quarantine on the empty disk.
LEMMA EmptyDiskTombs == Tombs(EmptyDisk)
BY Zenon DEF Tombs, TombstoneAgrees, FailedHolds, EmptyDisk, NoDirectory, Partial, Outcome
=============================================================================
