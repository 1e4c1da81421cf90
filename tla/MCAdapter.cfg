\* Two outcome tokens of one market and one of another that share the cash;
\* partial fills; an order can fill in the second it was placed and
\* expires with that second.  Every size a call can ask for is allowed.
CONSTANTS
    market = market
    other = other
    k1 = k1
    k2 = k2
    k3 = k3
    o1 = o1
    o2 = o2
    None = None
    Tokens = {k1, k2, k3}
    Conditions = {market, other}
    ConditionOf <- MCConditionOf
    OrderIds = {o1, o2}
    Horizon = 1
    InitialCash = 9
    One = 2
    AdverseTicks = 1
    Latency = 0
    FillWait = 0
    Unit = 2
    Fee = 1
    Sizes = {1, 2, 3, 4, 5, 6}
    Limits = {0, 1, 2}
    Depths = {1, 2}
    Fractions = {1, 2}
    Whole = 2
    MaxDecisions = 2
SPECIFICATION AdapterSpec
SYMMETRY MCSymmetry
INVARIANTS OpenOrdersTracked ReservationsCovered BooksBalance
INVARIANTS SnapshotsHold AttributionIsAccount
PROPERTIES ReservationHonoured FutureUnchanged CallsAreCovered
