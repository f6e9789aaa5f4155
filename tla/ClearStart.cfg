SPECIFICATION Spec
CONSTANTS
    LastBlock = 1
    LastCommand = 2
    MaxSectors = 2
    Unruly = {"clear_start"}
INVARIANT DataInPlace
