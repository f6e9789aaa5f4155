SPECIFICATION FairSpec
CONSTANTS
    Devices = {"kl"}
    Kind <- KindHere
    Level <- LevelHere
    Rank <- RankHere
    Buses <- Configured
    Ipls = {0}
    Pirs <- NoPirs
    Insns = {}
    NprInputs = {FALSE}
    ResetTime = 1
    Masked = {}
PROPERTIES GrantComesFromCpu
