SPECIFICATION Spec
CONSTANTS
    Lexemes <- MCLexemes
    VarType <- MCVarType
    MaxTokens = 7
CONSTRAINT Alphabets
INVARIANTS
    TypeOK
    HandleFits
    PostfixIsReference
    RejectsOnlyNonSentences
    TypedAsDocumented
    ZeroDivisionIsReal
    LiteralZeroRejected
    PostfixIsComplete
