SPECIFICATION MCJournalsSpec
CONSTANTS
    e1 = e1
    e2 = e2
    all = all
    some = some
    Identities = {e1, e2}
    Nobody = Nobody
    Pollers = {all, some}
    Matches <- Filters
    Limit = 1
    MaxSequence = 3
    MaxFaults = 2
    Nil = Nil
    Bundles = {x1}
    Signals = {s1}
    MaxCliIncarnation = 2
    MaxCliSequence = 2
    MaxForeign = 1
    MaxCliFaults = 2
INVARIANTS
    JournalIsAuditable
    ReceivedExactlyOnce
    NoLostWakeup
    
    
PROPERTIES
    SequencesAreForever
    AnnouncedIsReceived
