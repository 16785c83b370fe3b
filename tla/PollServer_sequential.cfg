SPECIFICATION FairSpec
CONSTANTS
    v1 = v1
    v2 = v2
    p1 = p1
    c1 = c1
    Voters = {v1, v2}
    Procs = {p1}
    Options = {c1}
    Hidden = Hidden
    NoOne = NoOne
    NoPoll = NoPoll
    NoTally = NoTally
    Versions = {2, 3}
    PreRegs <- MCNoPreRegs
    ProverOn = TRUE
    MaxEvents = 7
    DiskFails = TRUE
    MaxFaults = 2
INVARIANTS
    OneVotePerRegistration
    SlotsTrackRegistry
PROPERTIES
    SignaturesAppendOnly
    StoredVoteIsLogged
    AggregationCloses
CHECK_DEADLOCK FALSE
