SPECIFICATION Spec
CONSTANTS
    Inputs <- MCInputs
    Builtins <- MCBuiltins
INVARIANTS
    TreeIsProgram
    ProgramsAreAccepted
    AcceptsOnlyPrograms
    GeneratorContract
PROPERTY
    Terminates
    CallsProgress
