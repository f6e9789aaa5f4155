SPECIFICATION FairSpec
CONSTANTS
    LastBlock = 1
    LastCommand = 3
    MaxSectors = 2
    Unruly = {}
INVARIANTS TypeOK DataInPlace BufferExclusive
PROPERTIES SectorDone NoStrayDma ImplementsStore TransferEnds
