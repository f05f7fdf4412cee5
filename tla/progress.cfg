SPECIFICATION FairSpec
CONSTANTS
    CHAINS <- MCChains
    Window = 1
    Participants = {reg, other}
    Payloads = {blank, doc}
    Blank = blank
    Consistent = {}
    Evidenced = {}
    Crossing = {}
    Clients = {c1}
    Sweepers = {s1}
    Txns = {t1}
    Keys = {k1, k2, k3}
    Refs = {r1}
    Intents <- WindowIntents
    MaxRetries = 3
    SweepLimit = 200
    MaxTime = 2
    MaxFlips = 0
    MaxCrashes = 1
    MaxRepeats = 1
    None = None
    reg = reg
    other = other
    c1 = c1
    c2 = c2
    s1 = s1
    t1 = t1
    t2 = t2
    k1 = k1
    k2 = k2
    k3 = k3
    k4 = k4
    r1 = r1
    r2 = r2
    blank = blank
    doc = doc
PROPERTIES
    RequestsEnd
    DueTimersLeave
\* Keys, txns and the clock are bounded: the system may stop.
CHECK_DEADLOCK FALSE
