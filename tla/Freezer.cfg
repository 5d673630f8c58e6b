CONSTANTS
    c1 = c1
    k1 = k1
    k2 = k2
    create = create
    start = start
    kill = kill
    delete = delete
    pause = pause
    resume = resume
    update = update
    recreate = recreate
    NoOperation = NoOperation
    Kind <- Kinds1
    Target <- OneContainer
    Bundle <- OneBundle
    Containers = {c1}
    Operations = {create, start, pause, resume, update}
    Forced = {}
    After <- StartedFirst
    MaxGeneration = 1
    MaxFaults = 2
    Callers = {k1, k2}
SPECIFICATION Spec
SYMMETRY CallerSymmetry
INVARIANTS
    SucceededIsAnnounced
