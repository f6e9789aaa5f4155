SPECIFICATION LiveSpec
CONSTANTS
    Devices = {"rh", "xu", "kl", "do"}
    Kind <- KindHere
    Level <- LevelHere
    Rank <- RankHere
    Buses <- Mixed
    Ipls = {0, 5}
    Pirs <- NoPirs
    Insns = {"spl"}
    NprInputs = {FALSE}
    ResetTime = 1
    Masked = {"rh", "xu"}
PROPERTIES HandshakeEnds RequestServed
