CONSTANTS
    Elements = {"soft", "hard"}
    NColls = 3
    NBases = 2
    Known = {1}
    Chains <- MCChains
    Modes = {"none", "truthful", "certified"}
    BinSets <- MCBinSets
SPECIFICATION Spec
INVARIANTS
    TypeOK
    FactsSound
    OnlyBaseBetweenQueries
    LedgerBacked
    BinsSound
CHECK_DEADLOCK FALSE
