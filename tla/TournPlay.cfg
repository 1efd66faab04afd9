SPECIFICATION Spec
CONSTANTS
    Players = {1, 2, 3}
    Elo <- MCElo
    Formats = {"swiss", "winners_advance"}
    SwissRounds = 2
    Deadline = 1
    FirstStart = 2
    Lead = 1
    Duration = 1
    QuickGames = FALSE
    MaxRounds = 4
    MaxDraws = 2
    Mishaps = {}
    MaxMishaps = 0
INVARIANT FieldIsPaired
PROPERTY EventCompletes
CHECK_DEADLOCK FALSE
