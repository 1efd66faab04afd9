\* The five parts of authentication, one scene each.
SPECIFICATION Spec
CONSTANTS
    Scenes = {"sessions", "accounts", "keys", "limits", "cache"}
    Players = {1}
    Workers = {1, 2}
    Grace = 1
    AccessTtl = 2
    RefreshTtl = 3
    MaxTokens = 3
    MaxTime = 4
    MaxSignOuts = 1
    MaxDbFaults = 1
    Owner <- MailOwner
    Names = {"c", "d"}
    MailWorkers = {1, 2}
    Legacy <- LegacyAccounts
    ResetTtl = 1
    LinkTtl = 1
    Hour = 2
    PerHour = 2
    QueueCap = 1
    MaxAccounts = 3
    MaxLinks = 2
    MaxRequests = 3
    MaxMailTime = 1
    Ips = {1, 2}
    KeyWorkers = {1, 2}
    KeyTtl = 1
    MaxPerIp = 1
    MaxTotal = 2
    SealedTypes = {"login"}
    PlainTypes = {"refresh"}
    MaxKeys = 3
    MaxKeyTime = 2
    BucketKeys = {1, 2}
    Burst = 2
    Interval = 2
    BucketTtl = 2
    MaxLimitTime = 4
    Kids = {"k1", "k2"}
    CacheTtl = 2
    Cooldown = 2
    FetchTime = 1
    MaxCacheTime = 6
INVARIANTS OneCurrentToken RefreshAnswersRight KeyStoreIsExact RateRespected
    ProviderKeysAreCurrent
PROPERTIES SignOutsStick 
CHECK_DEADLOCK FALSE
