SPECIFICATION OutputSpec
CONSTANTS
    Nil = Nil
    MaxOutput = 2
    MaxOutputFaults = 1
INVARIANT ResumesUndelivered
CHECK_DEADLOCK FALSE
