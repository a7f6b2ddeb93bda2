SPECIFICATION Spec
CONSTANTS
    Letter = {"A", "B", "x"}
    Tag = {"t", "u"}
    NoTag = NoTag
    Commands <- SomeCommands
    Vaults <- SomeVaults
    Outer <- SomeOuter
INVARIANTS
    TypeOK
    OneScan
    FilesGone
    ProgramAsTyped
    TemplateIsEnv
CHECK_DEADLOCK FALSE
