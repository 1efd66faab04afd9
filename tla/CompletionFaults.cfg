SPECIFICATION Spec
CONSTANTS
    Games = {1, 2}
    Players = {1, 2}
    WhiteOf <- MixedWhite
    BlackOf <- MixedBlack
    Rated = {1}
    AiGames = {2}
    Tournament = {1}
    RematchOf <- NoRematch
    Workers = {1, 2}
    FirstElo <- LowFirstElo
    Gain <- MCGain
    HalfGain <- MCHalfGain
    Outcomes = {"1-0", "0-1", "1/2-1/2"}
    MaxFaults = 2
    MaxRepeats = 1
    MaxCrashes = 1
INVARIANTS SavesAreClean StandingsBehindReplay
PROPERTY ImplementsLedger
