SPECIFICATION MCShimSpec
CONSTANTS
    Nil = Nil
    Rpcs = {r1, r2}
    Asks <- MCAsks
    MaxSequence = 2
    MaxControlFaults = 1
    Callers = {c1, c2}
    MaxIncarnation = 2
    MaxExecFaults = 2
    MaxChunks = 3
    MaxStdinFaults = 2
    MaxOutput = 3
    MaxOutputFaults = 2
    Deleters = {d1, d2}
    MaxClock = 4
    MaxTaskFaults = 3
INVARIANTS
    EffectsAreJournaled
    SequenceNamesOneRequest
    
    ReceiptIsLatest
    ExitIsOwn
    NoOrphanExec
    InputIsOrdered
    
    CloseIOIsTrue
    OutputHasNoGap
    
    
    
PROPERTIES
    RequestsAreAnswered
    WaitReturns
    CloseIOIsAnswered
    CommittedIsNotRepeated
CHECK_DEADLOCK FALSE
