SPECIFICATION LiveSpec
CONSTANTS
    Games = {1, 2, 3}
    Players = {1, 2}
    WhiteOf <- SeriesWhite
    BlackOf <- SeriesBlack
    Rated = {1, 2}
    AiGames = {}
    Tournament = {}
    RematchOf <- SecondIsRematch
    Workers = {1, 2}
    FirstElo <- MCFirstElo
    Gain <- MCGain
    HalfGain <- MCHalfGain
    Outcomes = {"1-0"}
    MaxFaults = 1
    MaxRepeats = 0
    MaxCrashes = 0
    Descriptors = {1}
    w1 = w1
    Crew = {w1}
    Interval = 1
    Timeout = 1
    WriteCap = 1
    Conditions = {"silence", "stall", "send", "time"}
    MaxConnected = 1
    MaxBacklog = 1
INVARIANT StreamHasNoHole
PROPERTIES EveryGameSettled 
