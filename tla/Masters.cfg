SPECIFICATION FairSpec
CONSTANTS
    Devices = {"rl0", "tm0", "xu0"}
    Rank <- RankHere
    Movers = {"xu0"}
    Withdraws = {"tm0"}
    Abandons = {}
    Burst = 2
    Lengths = {0, 1, 2}
    ResetTime = 1
INVARIANTS TypeOK OneMaster
PROPERTIES NoStaleStrobe ImplementsOwner BusComesBack BusGranted
