SPECIFICATION FairSpec
CONSTANTS
    Devices = {"kl", "do", "rk", "rl", "kw", "ad", "dr", "ts"}
    Kind <- KindHere
    Level <- LevelHere
    Rank <- RankHere
    Buses <- Pairs
    Ipls = {0, 6}
    Pirs <- NoPirs
    Insns = {"spl", "reset"}
    NprInputs = {FALSE}
    ResetTime = 1
    Masked = {"kl", "do", "rk", "rl", "kw", "ad"}
INVARIANTS TypeOK OneGrant
PROPERTIES ImplementsService TrapIsGranted ReleaseLosesNothing
