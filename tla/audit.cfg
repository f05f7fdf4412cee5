SPECIFICATION Spec
CONSTANTS
    trading = trading
    ann = ann
    bob = bob
    placed = placed
    paid = paid
    None = None
    c1 = c1
    c2 = c2
    w1 = w1
    w2 = w2
    v1 = v1
    Callers = {c1, c2}
    LockKeys = {trading}
    Types = {trading}
    Holders = {ann, bob}
    Entries = {placed, paid}
    Asks <- MCAsks
    Verifiers = {v1}
    Publishers = {w1, w2}
    Ttl = 0
    DayLength = 2
    HourLength = 3
    MaxTime = 2
    Page = 1
    MaxScan = 2
    MaxRows = 1
SYMMETRY Symmetric
INVARIANTS
    AuditInv
    Exclusive
    Unforked
    HeadIsLast
    NoFalseAlarm
    AnchorsGenuine
PROPERTIES
    ImplementsChain
