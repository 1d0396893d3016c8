SPECIFICATION InventorySpec
CONSTANTS
    NoToken = 0
    NoTotal <- MCNoTotal
    MaxRequests = 3
    MaxElapsed = 5
    Interval = 1
    Timeout = 1
    BaseDelay = 1
    MaxRetries = 2
    MaxRedirects = 1
    Commands = {r1, r2}
    Lanes = {"article", "posts"}
    RobotsAnswers = {"allowed", "denied"}
    Editions = {"first", "second"}
    Posts = {"a", "b", "c"}
    Catalogues <- MCCatalogues
    PageSize = 1
    Bounds <- MCBounds
    Troubles = {"http_429"}
    RetryAfters = {0}
    Latencies = {1}
    TTL = 0
    MaxTime = 1
    MaxChanges = 1
    MaxCrashes = 1
SYMMETRY MCSymmetry
INVARIANTS PageUnderRobots LabelsTell CompleteIsWhole
