SPECIFICATION Spec
CONSTANTS
    Players = {1, 2}
    Elo <- MCElo
    Formats = {"swiss", "winners_advance"}
    SwissRounds = 2
    Deadline = 1
    FirstStart = 2
    Lead = 1
    Duration = 1
    QuickGames = TRUE
    MaxRounds = 3
    MaxDraws = 0
    Mishaps = {"fault", "correction", "departure"}
    MaxMishaps = 2
INVARIANT RoundsAreSound
PROPERTY DecidedStays
CHECK_DEADLOCK FALSE
