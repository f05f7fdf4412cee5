------------------------------ MODULE AppendOnly ------------------------------
(***************************************************************************)
(* What the audit chain promises: per entity type a sequence of entries to  *)
(* which one entry at a time is appended and from which nothing is taken,   *)
(* and a mark up to which it was verified, which lies within it.            *)
(***************************************************************************)
EXTENDS Naturals, Sequences

CONSTANTS Types, Entries

VARIABLES chain, verified

vars == <<chain, verified>>

Init ==
    /\ chain = [t \in Types |-> <<>>]
    /\ verified = [t \in Types |-> 0]

Extend(t) ==
    /\ \E e \in Entries : chain' = [chain EXCEPT ![t] = Append(@, e)]
    /\ UNCHANGED verified

Verify(t) ==
    /\ \E n \in 1..Len(chain[t]) : verified' = [verified EXCEPT ![t] = n]
    /\ UNCHANGED chain

Next == \E t \in Types : Extend(t) \/ Verify(t)

Spec == Init /\ [][Next]_vars
=============================================================================
