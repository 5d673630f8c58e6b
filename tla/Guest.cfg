SPECIFICATION MCAgentSpec
CONSTANTS
    op1 = op1
    op2 = op2
    t1 = t1
    t2 = t2
    Nothing = Nothing
    HostOps = {op1, op2}
    Requests <- MCRequests
    Tasks <- MCTasks
    MaxChunks = 2
    Execs = {"e1"}
    Generations = {1, 2}
    MaxRecords = 2
    MaxGuestFaults = 1
    MaxCancels = 1
SYMMETRY MCSymmetry
INVARIANTS
    InputIsExact
    AcknowledgedLeavesNothing
    NoOrphanProcess
PROPERTY
    DriverKeepsContract
CHECK_DEADLOCK FALSE
