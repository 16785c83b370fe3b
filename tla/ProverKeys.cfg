SPECIFICATION FairSpec
CONSTANTS
    transfer = transfer
    tallyDecrypt = tallyDecrypt
    tally256 = tally256
    main = main
    cli = cli
    p1 = p1
    p2 = p2
    Small = {transfer}
    Decrypt = tallyDecrypt
    Big = tally256
    Server = main
    CLIs = {cli}
    Procs = {p1, p2}
    MaxSetups = 3
    MaxFailures = 1
    MaxCrashes = 1
    NoCircuit = NoCircuit
    NoOne = NoOne
    Torn = Torn
INVARIANTS
    TypeOK
    KeysFit
    ServedKeysVerify
    BareOnlyAfterPartialSave
PROPERTIES
    WholeKeysStay
    CompiledOnce
    AskersReturn
CHECK_DEADLOCK FALSE
