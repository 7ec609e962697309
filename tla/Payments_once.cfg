SPECIFICATION Spec
CONSTANTS
    q1 = q1  q2 = q2  k1 = k1  k2 = k2
    Requests = {q1}
    Refunders = {k1}
    Prices = {2}
    MaxCheckouts = 3
    MaxRefunds = 2
    Redelivery = FALSE
SYMMETRY Symmetric
INVARIANT PaidOnce
CHECK_DEADLOCK FALSE
