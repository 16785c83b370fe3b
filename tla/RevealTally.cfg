SPECIFICATION FairSpec
CONSTANTS
    v1 = v1
    v2 = v2
    p1 = p1
    p2 = p2
    c1 = c1
    c2 = c2
    Voters = {v1, v2}
    Options = {c1, c2}
    Bins = {c1}
    Tiers = {1, 2}
    Procs = {p1, p2}
    MaxFaults = 2
    NoOne = NoOne
    NoVote = NoVote
    NoProof = NoProof
    Torn = Torn
INVARIANTS
    TypeOK
    CountsWithinReveals
    BundlesOpenVotes
    ProofCountsReveals
PROPERTIES
    RevealIsPermanent
    RevealIsBundled
CHECK_DEADLOCK FALSE
