SPECIFICATION ExprSpec
CONSTANTS
    Lexemes <- MCLexemes
    VarType <- MCVarType
    MaxTokens = 5
    MaxItems = 1
INVARIANT HashIsUnary
