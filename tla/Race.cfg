CONSTANTS
    c1 = c1
    k1 = k1
    k2 = k2
    create = create
    start = start
    kill = kill
    delete = delete
    pause = pause
    resume = resume
    update = update
    recreate = recreate
    NoOperation = NoOperation
    Kind <- Kinds1
    Target <- OneContainer
    Bundle <- OneBundle
    Containers = {c1}
    Operations = {create, kill, delete}
    Forced = {}
    After <- Unordered
    MaxGeneration = 2
    MaxFaults = 0
    Callers = {k1, k2}
SPECIFICATION FairSpec
INVARIANT DriverCallsAreExclusive
