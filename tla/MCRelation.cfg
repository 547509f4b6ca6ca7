SPECIFICATION Spec
CONSTANTS
    Lexemes <- MCLexemes
    VarType <- MCVarType
    MaxTokens = 4
INVARIANT RelationsAsDocumented
