SPECIFICATION Spec
CONSTANTS
    Sections <- MCSections
    Transfer = 1
    ComplexExprs <- MCComplexExprs
    Palettes <- RomPalettes
    TextMax = 10
    RldMax = 16
    GsdMax = 26
    AccumMax = 14
    Origins = {0, 7}
    MaxStores = 3
    MaxMoves = 2
    ImageWords = 4
INVARIANT RomIsResolved
CHECK_DEADLOCK FALSE
