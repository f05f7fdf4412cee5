------------------------------- MODULE TxnLog -------------------------------
(***************************************************************************)
(* What the v2 engine promises: one log to which decisions are appended     *)
(* atomically.  Each entry is decided on the txn's current state by an      *)
(* actor entitled to the edge; it either moves the txn along an edge of its *)
(* chain or records a guard's refusal and leaves the txn where it was.  A   *)
(* key and a claim are used once.                                           *)
(***************************************************************************)
EXTENDS ChainDecl, Sequences

CONSTANTS Txns, None

VARIABLES
    log,      \* entries in the order they were decided
    members   \* who holds which role on which txn

entry_vars == <<log, members>>

EntriesOf(t) == {i \in DOMAIN log : log[i].txn = t}
IsLast(t, i) == i \in EntriesOf(t) /\ \A j \in EntriesOf(t) : j <= i

Edges(chain) == IF chain \in DOMAIN CHAINS THEN CHAINS[chain].edges ELSE {}

\* The actor is entitled to edge d on txn t.
Entitled(t, actor, d) ==
    IF actor = TimerActor THEN "system" \in d.by
    ELSE IF d.isNew THEN d.by \ {"system"} # {}
    ELSE \E m \in members : m.txn = t /\ m.participant = actor /\ m.role \in d.by \ {"system"}

\* An opening entry creates its txn; a refused opening leaves it in the
\* chain's initial state.
Opens(e, d) ==
    /\ d.isNew
    /\ EntriesOf(e.txn) = {}
    /\ e.from = Absent
    /\ e.to = IF e.rejected THEN CHAINS[e.chain].initial ELSE d.to

\* A later entry leaves the txn's current state along d, or stays there.
Moves(e, d) ==
    /\ ~d.isNew
    /\ \E i \in DOMAIN log : IsLast(e.txn, i) /\ log[i].to = e.from
    /\ e.from \in d.from
    /\ e.to = IF e.rejected THEN e.from ELSE d.to

Lawful(e) ==
    /\ \E d \in Edges(e.chain) :
          /\ d.id = e.edge
          /\ Entitled(e.txn, e.actor, d)
          /\ Opens(e, d) \/ Moves(e, d)
          /\ (e.claim # None) => d.claims /\ ~e.rejected
    /\ \A i \in DOMAIN log :
          /\ log[i].key # e.key
          /\ (e.claim # None) => log[i].claim # e.claim

\* Parties join only with the entry that opens their txn.
Join(e) ==
    \/ members' = members
    \/ /\ EntriesOf(e.txn) = {} /\ ~e.rejected
       /\ members \subseteq members'
       /\ \A m \in members' \ members : m.txn = e.txn

Decide ==
    LET e == log'[Len(log')] IN
    /\ Len(log') = Len(log) + 1
    /\ log' = Append(log, e)
    /\ Lawful(e)
    /\ Join(e)

Init == log = <<>> /\ members = {}

Spec == Init /\ [][Decide]_entry_vars
=============================================================================
