SPECIFICATION Spec
CONSTANTS
    Kinds = {"human", "tournament"}
    Conns = {1, 2, 3}
    Players = {1, 2}
    Owner <- MCOwner
    Watchers = {3}
    Closers = {1, 2, 3}
    BaseTime = 1
    Increments = {0}
    DrawTTL = 1
    RematchTTL = 1
    Grace = 1
    MoveLag = 0
    MaxMoves = 1
    MaxTime = 2
CHECK_DEADLOCK FALSE
PROPERTIES SeatsAreSafe OutcomeJustified
