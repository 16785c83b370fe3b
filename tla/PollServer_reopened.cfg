SPECIFICATION FairSpec
CONSTANTS
    v1 = v1
    v2 = v2
    p1 = p1
    p2 = p2
    c1 = c1
    Voters = {v1, v2}
    Procs = {p1, p2}
    Options = {c1}
    Hidden = Hidden
    NoOne = NoOne
    NoPoll = NoPoll
    NoTally = NoTally
    Versions = {3}
    PreRegs <- MCNoPreRegs
    ProverOn = TRUE
    MaxEvents = 5
    DiskFails = FALSE
    MaxFaults = 0
PROPERTIES
    TalliedPollIsClosed
CHECK_DEADLOCK FALSE
