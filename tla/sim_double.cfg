SPECIFICATION SimSpec
CONSTANTS
    Limit = 10
    Workers = {w1, w2}
    Sims = {s1, s2}
    Amounts = {9}
    HoldAmount = 2
    MaxHolds = 1
    MaxBooks = 1
SYMMETRY Symmetry
INVARIANT ExecutedAtMostOnce
CHECK_DEADLOCK FALSE
