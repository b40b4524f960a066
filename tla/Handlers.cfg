SPECIFICATION Spec
CONSTANTS
    Size = 4
    Radix = 4
    Slots = 2
    Chunk = 2
    MaxPage = 2
    Ceiling = 3
    MaxEdits = 2
    Names <- MCNames
    Within <- MCWithin
    Rank <- MCRank
    Loaded <- MCLoaded
    Edits <- MCEdits
    Queries <- MCQueries
    Images <- MCImages
    Patterns <- MCPatterns
    Budgets <- MCBudgets
    Graphs <- MCGraphs
INVARIANTS
    RetryConverges
    
    ScansFindAll
    SignatureIsUnique
    WalksComplete
CHECK_DEADLOCK FALSE
