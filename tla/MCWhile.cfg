SPECIFICATION Spec
CONSTANTS
    Number <- MCNumber
    Programs <- MCLoops
    Codes <- MCCodes
    Input <- MCInput
INVARIANT LoopsAsDocumented
