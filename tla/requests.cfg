SPECIFICATION Spec
CONSTANTS
    CHAINS <- MCChains
    Window = 1
    Participants = {reg, other}
    Payloads = {blank, doc}
    Blank = blank
    Consistent = {}
    Evidenced = {}
    Crossing = {}
    Clients = {c1, c2}
    Sweepers = {}
    Txns = {t1, t2}
    Keys = {k1, k2, k3, k4}
    Refs = {r1, r2}
    Intents <- RequestIntents
    MaxRetries = 3
    SweepLimit = 200
    MaxTime = 0
    MaxFlips = 0
    MaxCrashes = 1
    MaxRepeats = 1
    None = None
    reg = reg
    other = other
    c1 = c1
    c2 = c2
    s1 = s1
    t1 = t1
    t2 = t2
    k1 = k1
    k2 = k2
    k3 = k3
    k4 = k4
    r1 = r1
    r2 = r2
    blank = blank
    doc = doc
SYMMETRY Symmetric
INVARIANTS
    GlobalOrder
    GaplessPerTxn
    HashLinked
    OncePerKey
    AnswersHonest
    RefusedOpensNothing
PROPERTIES
    ImplementsLog
\* Keys, txns and the clock are bounded: the system may stop.
CHECK_DEADLOCK FALSE
