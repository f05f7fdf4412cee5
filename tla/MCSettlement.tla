----------------------------- MODULE MCSettlement -----------------------------
(* One cycle: ann confirms the cash under a key and, by mistake, asks for a *)
(* release under the same key; bob confirms the energy, uses ann's key for  *)
(* the cash, and looks; an administrator releases.  Each may come again.    *)
EXTENDS SettlementDvp, TLC

CONSTANTS ann, bob, adm, k1, cy, d1, d2

Body(op) == [op |-> op, cycle |-> cy]

MCCalls == {[key |-> k1, scope |-> ann, body |-> Body("cash")],
            [key |-> k1, scope |-> ann, body |-> Body("release")],
            [key |-> k1, scope |-> bob, body |-> Body("cash")],
            [key |-> None, scope |-> bob, body |-> Body("energy")],
            [key |-> None, scope |-> adm, body |-> Body("release")],
            [key |-> None, scope |-> bob, body |-> Body("view")]}

Symmetric == Permutations(Deliveries)
=============================================================================
