SPECIFICATION Spec
CONSTANTS
    Letters <- MCLetters
    MaxInt = 7
    MaxDepth = 2
    WordMax = 31
    Numerals <- MCNumerals
    Addresses <- MCAddresses
    StateNames = {"bal"}
    Span = 4
    Prime = 11
    Words <- MCWords
    DslDigits <- MCDslDigits
    KnownTypes = {"address", "uint256", "bool", "amount"}
    Reserved <- MCReserved
    Fragments <- MCFragments
    MapNames = {"bal"}
    NumNames = {"x"}
    AddrNames = {"a"}
    Cells = {0, 1, 2, 3}
    Markings <- MCMarkings
INVARIANTS
    TypeOK
    ParserMatchesGrammar
    TranslationKeepsTree
    ContractAgrees
    RangeChecksMatch
    SumsAreConserved
    BuiltIsValid
    GuardKept
CHECK_DEADLOCK FALSE
