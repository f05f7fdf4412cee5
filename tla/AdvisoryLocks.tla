---------------------------- MODULE AdvisoryLocks ----------------------------
(***************************************************************************)
(* utils/locks.ts: named locks in a table whose primary key is the name.    *)
(* A caller inserts a row, or takes over a row that expired, works, and     *)
(* deletes the row of its key and holder id.  Each action is one awaited D1 *)
(* call.  The work itself belongs to the modules that extend this one.      *)
(***************************************************************************)
EXTENDS Naturals

CONSTANTS
    Callers,     \* requests that run under a lock
    LockKeys,
    Holders,     \* holder ids: the acting participants
    None,        \* no row, no lease
    Ttl,         \* life of a lock
    DayLength,   \* units of the clock in a day of UTC
    MaxTime      \* bound: the clock

Lease == [key : LockKeys, holder : Holders, expires : Nat]

ASSUME LocksAssumption ==
    /\ DayLength \in Nat \ {0}
    /\ Ttl \in Nat /\ MaxTime \in Nat
    /\ None \notin [holder : Holders, expires : Nat] \cup Lease

VARIABLES
    clock,
    locks,     \* advisory_locks by lock_key
    lease,     \* of each caller: its key, holder id and expires_at
    phase,     \* and where it is in withLock
    overrun    \* history: keys under which someone worked past the lease's date

lock_vars == <<clock, locks, lease, phase, overrun>>

LocksInit ==
    /\ clock = 0
    /\ locks = [k \in LockKeys |-> None]
    /\ lease = [p \in Callers |-> None]
    /\ phase = [p \in Callers |-> "out"]
    /\ overrun = {}

Go(p, ph) == phase' = [phase EXCEPT ![p] = ph]
Leave(p) == Go(p, "out") /\ lease' = [lease EXCEPT ![p] = None]
Mine(p) == [holder |-> lease[p].holder, expires |-> lease[p].expires]
Working(p) == phase[p] \in {"inside", "release"}

\* expires_at < datetime('now') compares '2026-01-31T10:00:00.000Z' with
\* '2026-01-31 10:00:05' as text: 'T' sorts after ' ', so only an earlier date
\* makes it true.
DatePassed(expires, t) == expires \div DayLength < t \div DayLength

Overrun(p) == Working(p) /\ DatePassed(lease[p].expires, clock)
NoteOverrun == overrun' = overrun \cup {lease'[p].key : p \in {q \in Callers : Overrun(q)'}}

\* The call of withLock, up to its first await.
Call(p, key, holder) ==
    /\ phase[p] = "out"
    /\ lease' = [lease EXCEPT ![p] = [key |-> key, holder |-> holder, expires |-> clock + Ttl]]
    /\ Go(p, "insert")
    /\ UNCHANGED <<clock, locks, overrun>>

\* Mutant: INSERT OR REPLACE.
InsertReplacing(p) ==
    /\ phase[p] = "insert"
    /\ locks' = [locks EXCEPT ![lease[p].key] = Mine(p)]
    /\ Go(p, "inside")
    /\ UNCHANGED <<clock, lease>>
    /\ NoteOverrun

\* INSERT OR IGNORE
Insert(p) ==
    /\ phase[p] = "insert"
    /\ IF locks[lease[p].key] = None
       THEN locks' = [locks EXCEPT ![lease[p].key] = Mine(p)] /\ Go(p, "inside")
       ELSE Go(p, "steal") /\ UNCHANGED locks
    /\ UNCHANGED <<clock, lease>>
    /\ NoteOverrun

\* Mutant: the UPDATE does not look at expires_at.
StealAny(p) ==
    /\ phase[p] = "steal"
    /\ IF locks[lease[p].key] # None
       THEN locks' = [locks EXCEPT ![lease[p].key] = Mine(p)] /\ Go(p, "inside") /\ UNCHANGED lease
       ELSE Leave(p) /\ UNCHANGED locks
    /\ UNCHANGED clock
    /\ NoteOverrun

\* UPDATE ... WHERE lock_key = ? AND expires_at < datetime('now'); the call
\* throws LockBusyError if no row matches.
Steal(p) ==
    /\ phase[p] = "steal"
    /\ LET row == locks[lease[p].key] IN
       IF row # None /\ DatePassed(row.expires, clock)
       THEN locks' = [locks EXCEPT ![lease[p].key] = Mine(p)] /\ Go(p, "inside") /\ UNCHANGED lease
       ELSE Leave(p) /\ UNCHANGED locks
    /\ UNCHANGED clock
    /\ NoteOverrun

\* The finally block: DELETE WHERE lock_key = ? AND holder_id = ?
Release(p) ==
    /\ phase[p] = "release"
    /\ LET k == lease[p].key IN
       locks' = IF locks[k] # None /\ locks[k].holder = lease[p].holder
                THEN [locks EXCEPT ![k] = None] ELSE locks
    /\ Leave(p)
    /\ UNCHANGED <<clock, overrun>>

\* The isolate ends, or the DELETE fails (its error is swallowed): the row
\* stays.
Abandon(p) ==
    /\ Working(p)
    /\ Leave(p)
    /\ UNCHANGED <<clock, locks, overrun>>

Tick ==
    /\ clock < MaxTime
    /\ clock' = clock + 1
    /\ UNCHANGED <<locks, lease, phase>>
    /\ NoteOverrun

-----------------------------------------------------------------------------
\* Rows, leases and steps have their types.
LocksTypeOK ==
    /\ clock \in 0..MaxTime
    /\ locks \in [LockKeys -> [holder : Holders, expires : Nat] \cup {None}]
    /\ phase \in [Callers -> {"out", "insert", "steal", "inside", "release"}]
    /\ lease \in [Callers -> Lease \cup {None}]
    /\ \A p \in Callers : lease[p] = None <=> phase[p] = "out"
    /\ overrun \subseteq LockKeys

\* Two callers are never at work under one key, unless some caller's work went
\* on past the date on which its lease expired: deleting by holder id, taking
\* over and inserting do not let a second one in before that.
Exclusive ==
    \A p, q \in Callers :
        (p # q /\ Working(p) /\ Working(q) /\ lease[p].key = lease[q].key)
            => lease[p].key \in overrun

-----------------------------------------------------------------------------
(* What the two rest on.                                                    *)

\* Unless its key is overrun, the lock of a request at work is in its name,
\* and it is alone.
LockOK(p) ==
    /\ Overrun(p) => lease[p].key \in overrun
    /\ (Working(p) /\ lease[p].key \notin overrun) =>
          /\ locks[lease[p].key] = Mine(p)
          /\ \A q \in Callers : (Working(q) /\ lease[q].key = lease[p].key) => q = p

LocksInv == LocksTypeOK /\ \A p \in Callers : LockOK(p)
=============================================================================
