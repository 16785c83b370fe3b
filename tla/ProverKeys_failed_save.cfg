SPECIFICATION Spec
CONSTANTS
    transfer = transfer
    tallyDecrypt = tallyDecrypt
    tally256 = tally256
    main = main
    cli = cli
    p1 = p1
    p2 = p2
    Small = {transfer}
    Decrypt = tallyDecrypt
    Big = tally256
    Server = main
    CLIs = {}
    Procs = {p1, p2}
    MaxSetups = 3
    MaxFailures = 1
    MaxCrashes = 0
    NoCircuit = NoCircuit
    NoOne = NoOne
    Torn = Torn
INVARIANTS
    FailedSaveRecompiles
CHECK_DEADLOCK FALSE
