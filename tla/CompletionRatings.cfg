SPECIFICATION Spec
CONSTANTS
    Games = {1, 2}
    Players = {1, 2}
    WhiteOf <- PairWhite
    BlackOf <- PairBlack
    Rated = {1, 2}
    AiGames = {}
    Tournament = {}
    RematchOf <- SecondIsRematch
    Workers = {1}
    FirstElo <- MCFirstElo
    Gain <- MCGain
    HalfGain <- MCHalfGain
    Outcomes = {"1-0", "0-1", "1/2-1/2"}
    MaxFaults = 0
    MaxRepeats = 0
    MaxCrashes = 0
PROPERTY RatingsAccumulate
