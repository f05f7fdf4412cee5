SPECIFICATION MCSpec
CONSTANTS
    ann = ann
    bob = bob
    cy = cy
    bid = bid
    ask1 = ask1
    ask2 = ask2
    c1 = c1
    c2 = c2
    e1 = e1
    None = None
    Null = Null
    spot = spot
    Takers <- MCTakers
    Makers <- MCMakers
    MaxBook = 3
    Callers = {c1, c2}
    Holders = {ann, bob, cy}
    Admins = {}
    LockKeys <- MCKeys
    Orders = {bid, ask1, ask2}
    Terms <- MCTerms
    MatchAsks <- MCAsks
    Editors = {e1}
    NewVolumes = {1}
    Rate = 2
    Ttl = 1
    DayLength = 2
    MaxTime = 1
    MaxMatches = 1
    Amendable = {ask2}
SYMMETRY Symmetric
INVARIANTS
    PairConserves
    MarginConserved
    EndedFreesMargin
    PriceTimePriority
    AllThatCanTrades
\* Matches and the clock are bounded: the system may stop.
CHECK_DEADLOCK FALSE
