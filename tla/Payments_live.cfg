SPECIFICATION FairSpec
CONSTANTS
    q1 = q1  q2 = q2  k1 = k1  k2 = k2
    Requests = {q1}
    Refunders = {k1}
    Prices = {1}
    MaxCheckouts = 3
    MaxRefunds = 2
    Redelivery = TRUE
PROPERTY PendingIsSettled
CHECK_DEADLOCK FALSE
