SPECIFICATION Spec
CONSTANTS
    q1 = q1  q2 = q2  k1 = k1  k2 = k2
    Requests = {q1, q2}
    Refunders = {k1, k2}
    Prices = {1, 2}
    MaxCheckouts = 2
    MaxRefunds = 2
    Redelivery = TRUE
SYMMETRY Symmetric
INVARIANT TypeOK
INVARIANT ProgressIsPaid
PROPERTY RefundsFenced
PROPERTY NewerEventStands
CHECK_DEADLOCK FALSE
