SPECIFICATION Spec
CONSTANTS
    Number <- MCNumber
    Programs <- MCPrograms
    Codes <- MCCodes
    Input <- MCInput
INVARIANTS TranslationIsCorrect BuiltinsAsDocumented ControlStaysInFunctions
PROPERTY Finishes
