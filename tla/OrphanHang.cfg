SPECIFICATION FairSpec
CONSTANTS
    Devices = {"rh0"}
    Rank <- RankHere
    Movers = {}
    Withdraws = {}
    Abandons = {"rh0"}
    Burst = 1
    Lengths = {1}
    ResetTime = 1
PROPERTIES BusComesBack
