SPECIFICATION AllFairSpec
CONSTANTS
    Parts = {"memberships", "notifications", "outbox", "cache", "locks"}
    Plans = {"Regular"}  Modes = {"one_time", "subscription"}
    MaxTime = 2  MaxObjects = 2
    Firings = {"e1", "e2", "e3"}  Bad = {"e3"}  Listeners = {"s1"}
    QueueSize = 2  BatchSize = 2  MaxTries = 3  MaxStops = 2
    LostAnswers = TRUE
    Servers = {"s1", "s2"}  Events = {"e1", "e2"}  Limit = 2  MaxFaults = 2
    AttemptsColumn = TRUE
    Readers = {"r1", "r2"}  Schemes = {"version", "scan", "unawaited"}
    MaxWrites = 2  MaxExpiries = 1
    Sessions = {"t1", "t2"}  Variants = {1, 2}  ProductOf <- OneProduct
CHECK_DEADLOCK FALSE
INVARIANT AllTypeOK
INVARIANT PaidFor
PROPERTY FollowsPeriod
PROPERTY ImplementsLog
PROPERTY EverySettled
INVARIANT PublishedIsInStream
INVARIANT BoundedRepeats
PROPERTY ClaimStands
INVARIANT Fresh
PROPERTY StaleEndsGone
PROPERTY EveryTransactionEnds
