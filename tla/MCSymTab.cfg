SPECIFICATION Spec
CONSTANTS
    Names = {"x", "y", "z"}
    FuncNames = {"f", "g"}
    ParamNames = {"p"}
    Types = {"integer", "string"}
    Buckets <- MCBuckets
    Hash <- MCHash
    MaxBlocks = 3
    MaxUid = 3
    MaxItems = 4
CONSTRAINT BlocksOrLists
INVARIANTS
    TypeOK
    TablesWellFormed
    LookupIsInnermost
    UidsUnique
PROPERTIES
    ImplementsScopes
    FunctionsStay
