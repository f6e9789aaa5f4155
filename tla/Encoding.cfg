CONSTANTS
    WordSize = 4096
    HostSize = 32768
    Literal <- MCLiteral
    Symbols <- MCSymbols
    Abs <- MCAbs
    Registers <- MCRegisters
    Programs <- MCPrograms
    Section = "MAIN"
    EarlySymbols <- MCEarly
    LateSymbols <- MCLate
SPECIFICATION Spec
INVARIANTS TypeOK WordsAsWritten OperandsAsWritten
INVARIANTS BranchesReach LocationsAgree ConditionsAsWritten
CHECK_DEADLOCK FALSE
