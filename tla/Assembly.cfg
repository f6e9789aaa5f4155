CONSTANTS
    Programs <- MCPrograms
    SectionNames = {"", "abs", "S"}
    UserLocals = {"1$"}
    GeneratedNames <- MCGeneratedNames
    MaxStatements = 60
    MaxLines = 40
    HostSize = 256
    MaxSaved = 2
    MaxConds = 3
SPECIFICATION MCSpec
INVARIANTS TypeOK ReferencesResolved GeneratedOnce PassesAgree
INVARIANTS DirectoryHolds ExpansionIsNested
CHECK_DEADLOCK FALSE
