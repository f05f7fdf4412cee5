SPECIFICATION FairSpec
CONSTANTS
    Txns = {t1, t2}
    Chains = {ch1, ch2}
    MembersOf <- MCMembersOf
    Participants = {alice, bob}
    Sealers = {night, manual}
    Exporters = {reg}
    Queries <- Whole
    BindChunk = 1
    MaxEvents = 2
    MaxTime = 1
    MaxCrashes = 1
    t1 = t1
    t2 = t2
    ch1 = ch1
    ch2 = ch2
    alice = alice
    bob = bob
    night = night
    manual = manual
    reg = reg
INVARIANTS
    RootsRecompute
    NothingSkipped
    HonestPackVerifies
PROPERTIES
    EventsSealed
