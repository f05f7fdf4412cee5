SPECIFICATION Spec
CONSTANTS
    ann = ann
    bob = bob
    adm = adm
    k1 = k1
    cy = cy
    d1 = d1
    d2 = d2
    None = None
    Deliveries = {d1, d2}
    Keys = {k1}
    Calls <- MCCalls
    Cycles = {cy}
    Readers = {bob}
    Confirmers = {ann, bob}
    Releasers = {adm}
    Ttl = 1
    DayLength = 2
    MaxTime = 2
SYMMETRY Symmetric
INVARIANTS
    LockedMeansBoth
    ToldIsTrue
    AnswerIsOwn
PROPERTIES
    ConfirmationsStay
    AnswerStays
