SPECIFICATION Spec
CONSTANTS
    Scenes = {"game", "engine", "stream", "queue"}
    Openings <- Games
    Graphs <- GameGraphs
    Slots = 5
    Budgets <- Limits
    QuiescencePly = 3
    MaxSearches = 2
    Base = 8
    Wide = 3
    MaskLength = 2
    MaxFrame = 64
    Chunks = {1, 2, 3, 5, 13, 40}
    Clients <- SomeClients
    Throwing <- SomeThrow
    c1 = c1  c2 = c2  c3 = c3  c4 = c4
    Seekers = {c1, c2, c3, c4}
    Elos = {0, 2, 3}
    TimeControls = {"10+5", "3+2"}
    BaseRange = 2
    WidenEvery = 2
    Widening = 1
    MaxTime = 2
INVARIANTS StreamIsServed  PositionsAreSound TextsReadBack EvaluationIsFair
    SearchIsHonest
PROPERTY QueueIsFair
SYMMETRY SeekerSymmetry
CHECK_DEADLOCK FALSE
