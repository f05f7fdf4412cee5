------------------------------- MODULE MCAudit -------------------------------
(* Two requests of two participants on one chain, a verifier that starts    *)
(* anywhere, and two publications of one hour.                              *)
EXTENDS AuditSafety, TLC

CONSTANTS trading, ann, bob, placed, paid, c1, c2, w1, w2, v1

MCAsks == {[type |-> trading, holder |-> ann, entry |-> placed],
           [type |-> trading, holder |-> bob, entry |-> paid]}

Symmetric == Permutations(Callers) \cup Permutations(Publishers)
=============================================================================
