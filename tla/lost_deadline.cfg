SPECIFICATION Spec
CONSTANTS
    CHAINS <- MCChains
    Participants = {hold, rgy}
    Payloads = {blank, doc, range, wrong}
    Blank = blank
    Consistent = {range}
    Evidenced = {}
    Crossing = {}
    Clients = {c1}
    Sweepers = {s1}
    Txns = {t1}
    Keys = {k1, k2, k3, k4}
    Refs = {r1, r2}
    Intents <- DeadlineIntents
    MaxRetries = 3
    SweepLimit = 200
    MaxTime = 1
    MaxFlips = 1
    MaxCrashes = 0
    MaxRepeats = 0
    Deadline = 1
    None = None
    hold = hold
    rgy = rgy
    c1 = c1
    c2 = c2
    s1 = s1
    t1 = t1
    t2 = t2
    k1 = k1
    k2 = k2
    k3 = k3
    k4 = k4
    k5 = k5
    k6 = k6
    k7 = k7
    r1 = r1
    r2 = r2
    blank = blank
    doc = doc
    range = range
    wrong = wrong
SYMMETRY Symmetric
PROPERTIES
    DeadlineNotLost
\* Keys, txns and the clock are bounded: the system may stop.
CHECK_DEADLOCK FALSE
