----------------------------- MODULE LockProofs -----------------------------
(***************************************************************************)
(* Lemmas on the locks of AdvisoryLocks, one for each of their steps, for    *)
(* the proofs about the modules that work under them.                       *)
(***************************************************************************)
EXTENDS AdvisoryLocks, TLAPS

\* What is noted is the key of some lease.
LEMMA Noted ==
    ASSUME NoteOverrun
    PROVE  /\ overrun \subseteq overrun'
           /\ \A q \in Callers : Overrun(q)' => lease'[q].key \in overrun'
BY DEF NoteOverrun

\* A request under way has a lease.
LEMMA Leased ==
    ASSUME LocksTypeOK, NEW p \in Callers, phase[p] # "out"
    PROVE  lease[p] \in Lease /\ Mine(p) \in [holder : Holders, expires : Nat] /\ Mine(p) # None
BY LocksAssumption DEF LocksTypeOK, Lease, Mine

\* A request that moves and is not at work disturbs nobody's lock.
LEMMA IdleMoves ==
    ASSUME LocksInv, NEW p \in Callers, UNCHANGED <<clock, locks, overrun>>, ~Working(p)',
           \A q \in Callers \ {p} : phase'[q] = phase[q] /\ lease'[q] = lease[q]
    PROVE  \A q \in Callers : LockOK(q)'
<1> SUFFICES ASSUME NEW q \in Callers PROVE LockOK(q)'
  OBVIOUS
<1>1. CASE q = p
  BY <1>1 DEF LockOK, Overrun
<1>2. CASE q # p
  <2>1. LockOK(q)
    BY DEF LocksInv
  <2>2. phase'[q] = phase[q] /\ lease'[q] = lease[q]
    BY <1>2
  <2>3. \A r \in Callers : Working(r)' => Working(r) /\ lease'[r] = lease[r]
    BY DEF Working
  <2> QED
    BY <2>1, <2>2, <2>3 DEF LockOK, Overrun, Working, Mine
<1> QED
  BY <1>1, <1>2

LEMMA CallKeepsLocks ==
    ASSUME LocksInv, NEW p \in Callers, NEW k \in LockKeys, NEW h \in Holders, Call(p, k, h)
    PROVE  LocksInv'
<1> USE LocksAssumption
<1>t. LocksTypeOK
  BY DEF LocksInv
<1>1. [key |-> k, holder |-> h, expires |-> clock + Ttl] \in Lease
  BY <1>t DEF LocksTypeOK, Lease
<1>2. LocksTypeOK'
  BY <1>t, <1>1 DEF LocksTypeOK, Call, Go
<1>3. ~Working(p)'
  BY <1>t DEF LocksTypeOK, Call, Go, Working
<1>4. \A q \in Callers \ {p} : phase'[q] = phase[q] /\ lease'[q] = lease[q]
  BY <1>t DEF LocksTypeOK, Call, Go
<1>5. UNCHANGED <<clock, locks, overrun>>
  BY DEF Call
<1> QED
  BY <1>2, <1>3, <1>4, <1>5, IdleMoves DEF LocksInv

\* The row of a lock that was not overrun belongs to whoever is at work.
LEMMA RowOfWorker ==
    ASSUME LocksInv, NEW q \in Callers, Working(q), lease[q].key \notin overrun
    PROVE  /\ locks[lease[q].key] = Mine(q)
           /\ ~DatePassed(Mine(q).expires, clock)
BY DEF LocksInv, LockOK, Overrun, Mine

\* A lock is had by taking a row that is not there or whose date has passed.
LEMMA TakingKeepsLocks ==
    ASSUME LocksInv, NEW p \in Callers, phase[p] \in {"insert", "steal"},
           LET row == locks[lease[p].key] IN row = None \/ DatePassed(row.expires, clock),
           locks' = [locks EXCEPT ![lease[p].key] = Mine(p)], Go(p, "inside"),
           UNCHANGED <<clock, lease>>, NoteOverrun
    PROVE  LocksInv'
<1> USE LocksAssumption
<1>t. LocksTypeOK
  BY DEF LocksInv
<1>l. lease[p] \in Lease /\ Mine(p) \in [holder : Holders, expires : Nat] /\ Mine(p) # None
  BY <1>t, Leased
<1>p. /\ phase' = [phase EXCEPT ![p] = "inside"]
      /\ \A q \in Callers : Working(q)' <=> Working(q) \/ q = p
      /\ \A q \in Callers : Mine(q)' = Mine(q)
  BY <1>t DEF LocksTypeOK, Go, Working, Mine
<1>1. \A q \in Callers : Working(q)' => lease[q] \in Lease
  BY <1>t, <1>l, <1>p DEF LocksTypeOK, Working
<1>2. overrun' \subseteq LockKeys
  <2>1. \A q \in Callers : Overrun(q)' => lease[q].key \in LockKeys
    BY <1>1 DEF Overrun, Lease
  <2> QED
    BY <1>t, <2>1 DEF LocksTypeOK, NoteOverrun
<1>3. LocksTypeOK'
  BY <1>t, <1>l, <1>p, <1>2 DEF LocksTypeOK, Lease
<1>4. /\ overrun \subseteq overrun'
      /\ \A q \in Callers : Overrun(q)' => lease[q].key \in overrun'
  BY Noted
<1>5. ASSUME NEW q \in Callers, q # p, Working(q), lease[q].key \notin overrun
      PROVE  lease[q].key # lease[p].key
  <2>1. locks[lease[q].key] = Mine(q) /\ ~DatePassed(Mine(q).expires, clock)
    BY <1>5, RowOfWorker
  <2>2. Mine(q) # None
    BY <1>t, <1>5, Leased DEF Working
  <2> QED
    BY <2>1, <2>2
<1>6. ASSUME NEW q \in Callers PROVE LockOK(q)'
  <2>1. Overrun(q)' => lease'[q].key \in overrun'
    BY <1>4
  <2>2. ASSUME Working(q)', lease[q].key \notin overrun'
        PROVE  /\ locks'[lease[q].key] = Mine(q)
               /\ \A r \in Callers : (Working(r)' /\ lease[r].key = lease[q].key) => r = q
    <3>0. lease[q].key \notin overrun /\ lease[q].key \in LockKeys
      BY <2>2, <1>1, <1>4 DEF Lease
    <3>1. CASE q = p
      <4>1. locks'[lease[p].key] = Mine(p)
        BY <1>t, <3>0, <3>1 DEF LocksTypeOK
      <4> QED
        BY <4>1, <3>0, <3>1, <1>5, <1>p
    <3>2. CASE q # p
      <4>1. Working(q)
        BY <2>2, <3>2, <1>p
      <4>2. lease[q].key # lease[p].key
        BY <4>1, <3>0, <3>2, <1>5
      <4>3. /\ locks[lease[q].key] = Mine(q)
            /\ \A r \in Callers : (Working(r) /\ lease[r].key = lease[q].key) => r = q
        BY <4>1, <3>0 DEF LocksInv, LockOK
      <4>4. locks'[lease[q].key] = locks[lease[q].key]
        BY <1>t, <4>2, <3>0 DEF LocksTypeOK
      <4> QED
        BY <4>2, <4>3, <4>4, <1>p
    <3> QED
      BY <3>1, <3>2
  <2> QED
    BY <2>1, <2>2, <1>p DEF LockOK
<1> QED
  BY <1>3, <1>6 DEF LocksInv

LEMMA InsertKeepsLocks == ASSUME LocksInv, NEW p \in Callers, Insert(p) PROVE LocksInv'
<1>1. CASE locks[lease[p].key] = None
  BY <1>1, TakingKeepsLocks DEF Insert
<1>2. CASE locks[lease[p].key] # None
  <2>t. LocksTypeOK
    BY DEF LocksInv
  <2>1. phase' = [phase EXCEPT ![p] = "steal"] /\ UNCHANGED <<clock, locks, lease>>
    BY <1>2 DEF Insert, Go
  <2>2. ~Working(p)' /\ \A q \in Callers : Working(q)' => Working(q)
    BY <2>t, <2>1 DEF LocksTypeOK, Working
  <2>3. \A q \in Callers : Overrun(q)' => lease[q].key \in overrun
    BY <2>1, <2>2 DEF LocksInv, LockOK, Overrun
  <2>4. overrun' = overrun
    BY <2>1, <2>3 DEF Insert, NoteOverrun
  <2>5. LocksTypeOK'
    BY <2>t, <2>1, <2>4, phase[p] = "insert" DEF LocksTypeOK, Insert
  <2> QED
    BY <2>t, <2>1, <2>2, <2>4, <2>5, IdleMoves DEF LocksInv, LocksTypeOK
<1> QED
  BY <1>1, <1>2

\* A request that leaves keeps the types.
LEMMA LeavingTypes ==
    ASSUME LocksTypeOK, NEW p \in Callers, Leave(p), UNCHANGED <<clock, overrun>>,
           locks' \in [LockKeys -> [holder : Holders, expires : Nat] \cup {None}]
    PROVE  /\ LocksTypeOK'
           /\ ~Working(p)'
           /\ \A q \in Callers \ {p} : phase'[q] = phase[q] /\ lease'[q] = lease[q]
BY DEF LocksTypeOK, Leave, Go, Working

LEMMA StealKeepsLocks == ASSUME LocksInv, NEW p \in Callers, Steal(p) PROVE LocksInv'
<1> DEFINE row == locks[lease[p].key]
<1>1. CASE row # None /\ DatePassed(row.expires, clock)
  BY <1>1, TakingKeepsLocks DEF Steal
<1>2. CASE ~(row # None /\ DatePassed(row.expires, clock))
  <2>t. LocksTypeOK
    BY DEF LocksInv
  <2>1. Leave(p) /\ UNCHANGED <<clock, locks>>
    BY <1>2 DEF Steal
  <2>2. \A q \in Callers : Overrun(q)' => Overrun(q) /\ lease'[q] = lease[q]
    BY <2>t, <2>1 DEF LocksTypeOK, Leave, Go, Working, Overrun
  <2>3. \A q \in Callers : Overrun(q)' => lease'[q].key \in overrun
    BY <2>2 DEF LocksInv, LockOK
  <2>4. overrun' = overrun
    BY <2>3 DEF Steal, NoteOverrun
  <2>5. locks' \in [LockKeys -> [holder : Holders, expires : Nat] \cup {None}]
    BY <2>t, <2>1 DEF LocksTypeOK
  <2> QED
    BY <2>t, <2>1, <2>4, <2>5, LeavingTypes, IdleMoves DEF LocksInv
<1> QED
  BY <1>1, <1>2

LEMMA AbandonKeepsLocks == ASSUME LocksInv, NEW p \in Callers, Abandon(p) PROVE LocksInv'
<1>t. LocksTypeOK
  BY DEF LocksInv
<1>1. Leave(p) /\ UNCHANGED <<clock, locks, overrun>>
  BY DEF Abandon
<1>2. locks' \in [LockKeys -> [holder : Holders, expires : Nat] \cup {None}]
  BY <1>t, <1>1 DEF LocksTypeOK
<1> QED
  BY <1>t, <1>1, <1>2, LeavingTypes, IdleMoves DEF LocksInv

\* Whoever releases is alone under its key, unless the key is overrun.
LEMMA ReleaseKeepsLocks == ASSUME LocksInv, NEW p \in Callers, Release(p) PROVE LocksInv'
<1> USE LocksAssumption
<1>t. LocksTypeOK
  BY DEF LocksInv
<1>w. Working(p)
  BY DEF Release, Working
<1>l. lease[p].key \in LockKeys
  BY <1>t, <1>w, Leased DEF Working, Lease
<1>1. Leave(p) /\ UNCHANGED <<clock, overrun>>
  BY DEF Release
<1>2. /\ locks' \in [LockKeys -> [holder : Holders, expires : Nat] \cup {None}]
      /\ \A k \in LockKeys : k # lease[p].key => locks'[k] = locks[k]
  BY <1>t, <1>l DEF LocksTypeOK, Release
<1>3. /\ LocksTypeOK' /\ ~Working(p)'
      /\ \A q \in Callers \ {p} : phase'[q] = phase[q] /\ lease'[q] = lease[q]
  BY <1>t, <1>1, <1>2, LeavingTypes
<1>4. ASSUME NEW q \in Callers, Working(q)'
      PROVE  /\ Overrun(q)' => lease'[q].key \in overrun'
             /\ lease'[q].key \notin overrun' =>
                   /\ locks'[lease'[q].key] = Mine(q)'
                   /\ \A r \in Callers : (Working(r)' /\ lease'[r].key = lease'[q].key) => r = q
  <2>1. q # p /\ lease'[q] = lease[q] /\ Working(q) /\ Mine(q)' = Mine(q)
    BY <1>3, <1>4 DEF Working, Mine
  <2>2. LockOK(q) /\ lease[q].key \in LockKeys
    BY <1>t, <2>1, Leased DEF LocksInv, Working, Lease
  <2>3. Overrun(q)' => lease'[q].key \in overrun'
    BY <1>1, <2>1, <2>2 DEF LockOK, Overrun
  <2>4. ASSUME lease[q].key \notin overrun
        PROVE  /\ locks'[lease[q].key] = Mine(q)
               /\ \A r \in Callers : (Working(r)' /\ lease'[r].key = lease[q].key) => r = q
    <3>1. lease[p].key # lease[q].key
      BY <1>w, <2>1, <2>2, <2>4 DEF LockOK
    <3>2. \A r \in Callers : Working(r)' => Working(r) /\ lease'[r] = lease[r]
      BY <1>3 DEF Working
    <3> QED
      BY <1>2, <2>1, <2>2, <2>4, <3>1, <3>2 DEF LockOK
  <2> QED
    BY <1>1, <2>1, <2>3, <2>4
<1>5. ASSUME NEW q \in Callers PROVE LockOK(q)'
  BY <1>4 DEF LockOK, Overrun
<1> QED
  BY <1>3, <1>5 DEF LocksInv

LEMMA TickKeepsLocks == ASSUME LocksInv, Tick PROVE LocksInv'
<1> USE LocksAssumption
<1>t. LocksTypeOK
  BY DEF LocksInv
<1>1. UNCHANGED <<locks, lease, phase>> /\ clock' \in 0..MaxTime
  BY <1>t DEF Tick, LocksTypeOK
<1>2. \A q \in Callers : (Working(q)' <=> Working(q)) /\ Mine(q)' = Mine(q)
  BY <1>1 DEF Working, Mine
<1>3. \A q \in Callers : Working(q) => lease[q].key \in LockKeys
  BY <1>t, Leased DEF Working, Lease
<1>4. /\ overrun \subseteq overrun' /\ overrun' \subseteq LockKeys
      /\ \A q \in Callers : Overrun(q)' => lease'[q].key \in overrun'
  <2>1. \A q \in Callers : Overrun(q)' => lease'[q].key \in LockKeys
    BY <1>1, <1>2, <1>3 DEF Overrun
  <2> QED
    BY <1>t, <2>1 DEF Tick, NoteOverrun, LocksTypeOK
<1>5. LocksTypeOK'
  BY <1>t, <1>1, <1>4 DEF LocksTypeOK
<1>6. ASSUME NEW q \in Callers PROVE LockOK(q)'
  BY <1>1, <1>2, <1>4 DEF LocksInv, LockOK
<1> QED
  BY <1>5, <1>6 DEF LocksInv

\* Work goes on under the lock.
LEMMA WorkKeepsLocks ==
    ASSUME LocksInv, NEW p \in Callers, phase[p] = "inside", Go(p, "release"),
           UNCHANGED <<clock, locks, lease, overrun>>
    PROVE  LocksInv'
<1>t. LocksTypeOK
  BY DEF LocksInv
<1>1. phase' = [phase EXCEPT ![p] = "release"]
  BY DEF Go
<1>2. LocksTypeOK'
  BY <1>t, <1>1 DEF LocksTypeOK
<1>3. \A q \in Callers : (Working(q)' <=> Working(q)) /\ Mine(q)' = Mine(q)
  BY <1>t, <1>1 DEF LocksTypeOK, Working, Mine
<1>4. ASSUME NEW q \in Callers PROVE LockOK(q)'
  BY <1>3 DEF LocksInv, LockOK, Overrun
<1> QED
  BY <1>2, <1>4 DEF LocksInv

LEMMA SameLocks == ASSUME LocksInv, UNCHANGED lock_vars PROVE LocksInv'
BY DEF LocksInv, LocksTypeOK, LockOK, Overrun, Working, Mine, lock_vars

LEMMA InitLocks == LocksInit => LocksInv
BY LocksAssumption DEF LocksInit, LocksInv, LocksTypeOK, LockOK, Overrun, Working

\* Two at work under one key: its lease was overrun.
LEMMA LocksExclude == LocksInv => Exclusive
BY DEF LocksInv, LockOK, Exclusive
=============================================================================
