SPECIFICATION FairSpec
CONSTANTS
    Devices = {"kw", "rl"}
    Kind <- KindHere
    Level <- LevelHere
    Rank <- RankHere
    Buses <- Configured
    Ipls = {0, 5, 6}
    Pirs <- SomePirs
    Insns = {"wait", "spl", "reset", "halt"}
    NprInputs = {FALSE, TRUE}
    ResetTime = 1
    Masked = {"kw", "rl"}
PROPERTIES TrapIsGranted
