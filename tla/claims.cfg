SPECIFICATION Spec
CONSTANTS
    CHAINS <- MCChains
    Participants = {hold, rgy}
    Payloads = {blank, doc, range, wrong}
    Blank = blank
    Consistent = {range}
    Evidenced = {}
    Crossing = {}
    Clients = {c1, c2}
    Sweepers = {}
    Txns = {t1, t2}
    Keys = {k1, k2, k3, k4, k5, k6}
    Refs = {r1, r2}
    Intents <- RetireIntents
    MaxRetries = 2
    SweepLimit = 200
    MaxTime = 0
    MaxFlips = 1
    MaxCrashes = 0
    MaxRepeats = 0
    Deadline = 1
    None = None
    hold = hold
    rgy = rgy
    c1 = c1
    c2 = c2
    s1 = s1
    t1 = t1
    t2 = t2
    k1 = k1
    k2 = k2
    k3 = k3
    k4 = k4
    k5 = k5
    k6 = k6
    k7 = k7
    r1 = r1
    r2 = r2
    blank = blank
    doc = doc
    range = range
    wrong = wrong
SYMMETRY Symmetric
INVARIANTS
    ClaimedOnce
\* Keys, txns and the clock are bounded: the system may stop.
CHECK_DEADLOCK FALSE
