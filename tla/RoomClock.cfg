SPECIFICATION Spec
CONSTANTS
    Kinds = {"human", "ai"}
    Conns = {1, 2}
    Players = {1, 2}
    Owner <- MCOwner
    Watchers = {}
    Closers = {}
    BaseTime = 2
    Increments = {0, 1}
    DrawTTL = 1
    RematchTTL = 1
    Grace = 1
    MoveLag = 2
    MaxMoves = 2
    MaxTime = 4
CHECK_DEADLOCK FALSE
INVARIANTS ClocksAddUp CompletedOnce DrawOfferIsCurrent
