SPECIFICATION Spec
CONSTANTS
    Scenes = {"seats", "offers", "transport", "broadcast", "tournament", "pool", "migrations", "views", "requests"}
    Fds = {1, 2, 3}
    Players = {1, 2}
    Requests = {"create", "ai", "join", "queue", "spectate", "resume", "offer", "accept"}
    MaxRooms = 3
    MaxConnections = 3
    MaxOffers = 1
    Descriptors = {1}
    w1 = w1  w2 = w2
    Crew = {w1, w2}
    Interval = 1
    Timeout = 1
    WriteCap = 1
    Conditions = {}
    MaxConnected = 2
    MaxBacklog = 2
    MaxPlies = 2
    MaxAsked = 2
    Lines = {1, 2}
    MaxSockets = 2
    MaxUpsets = 1
    Borrowers = {1, 2, 3}
    Slots = {1, 2}
    MaxOutages = 2
    Runners = {1, 2, 3}
    MaxTrouble = 3
    Visitors = {1, 2}
    Events = {1, 2}
    CacheCapacity = 1
    MaxChanges = 2
INVARIANTS DescriptorsInheritNothing OneRoomPerOffer CallbackIsExact EveryoneIsTold PoolIsSound
    MigratesOnce ViewsAreCurrent RequestsAreScreened
 
CHECK_DEADLOCK FALSE
