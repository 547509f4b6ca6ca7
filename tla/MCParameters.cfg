SPECIFICATION Spec
CONSTANTS
    Names = {"x", "y", "z"}
    FuncNames = {"f", "g"}
    ParamNames = {"p", "q"}
    Types = {"integer", "string"}
    Buckets <- MCBuckets
    Hash <- MCHash
    MaxBlocks = 1
    MaxUid = 1
    MaxItems = 4
CONSTRAINT ParametersOnly
PROPERTY ParametersInOrder
