SPECIFICATION Spec
CONSTANTS
    Letters <- MCLetters
    MaxInt = 7
    MaxDepth = 3
    WordMax = 31
    Numerals <- MCNumerals
    Addresses <- MCAddresses
    StateNames <- MCStateNames
    Span = 4
    Prime = 11
    Words <- MCWords
    DslDigits <- MCDslDigits
    KnownTypes = {"address", "uint256", "bool", "amount"}
    Reserved <- MCReserved
    zero = zero
    alice = alice
    bob = bob
    Accounts <- MCAccounts
    Zero = zero
    Ids = {1, 2}
    TextOf <- MCTextOf
    Word = 3
    Holds <- ConditionHolds
    NumberInputs <- MCNumberInputs
    Scenarios <- MCScenarios
    Commitments = {1, 2}
SYMMETRY MCSymmetry
INVARIANTS
    TypeOK
    GeneratedWellFormed
    Parity
    EnginesAgree
    SupplyMatches
PROPERTIES
    ImplementsLedger
    VotesWithinPoll
CHECK_DEADLOCK FALSE
