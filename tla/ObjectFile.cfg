SPECIFICATION Spec
CONSTANTS
    Sections <- MCSections
    Transfer = 1
    ComplexExprs <- MCComplexExprs
    Palettes <- MCPalettes
    TextMax = 10
    RldMax = 16
    GsdMax = 26
    AccumMax = 14
    Origins = {0, 7}
    MaxStores = 3
    MaxMoves = 2
    ImageWords = 4
INVARIANTS TypeOK BuffersFit RldFollowsText SectorsNumbered RomHoldsProgram TapeWithoutWarning
PROPERTY ImplementsImage
CHECK_DEADLOCK FALSE
