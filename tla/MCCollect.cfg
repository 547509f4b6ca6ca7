SPECIFICATION Spec
CONSTANTS
    Lexemes <- MCLexemes
    VarType <- MCVarType
    MaxTokens = 4
INVARIANTS
    TokensConserved
    ReturnContract
PROPERTIES
    ImplementsCall
    Terminates
    StepsProgress
