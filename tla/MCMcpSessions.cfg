CONSTANTS
    Id = {i1, i2}
    Task = {t1, t2}
    Ticker = ticker
    MaxSessions = 1
    Cancellable = {"sweep", "next", "forget", "count", "create", "restore", "has", "use", "touch", "remove"}
    None = None
SPECIFICATION FairSpec
INVARIANTS TypeOK LiveSessionsAreTracked OvershootIsBounded
PROPERTY QuietSessionsVanish
