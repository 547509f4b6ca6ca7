SPECIFICATION ExprSpec
CONSTANTS
    Lexemes <- MCLexemes
    VarType <- MCVarType
    MaxTokens = 8
    MaxItems = 2
CONSTRAINT Tapes
INVARIANTS
    TreeIsExpression
    NoExpressionDropped
PROPERTY
    CallerTerminates
