SPECIFICATION Spec
CONSTANT
    Texts <- MCTexts
INVARIANTS
    TypeOK
    TokensAreLexemes
    LineNumbers
PROPERTY
    ScannerTerminates
