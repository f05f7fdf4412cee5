------------------------------- MODULE MCSeal -------------------------------
(* Two txns with different members, whose acts name two chains; the nightly *)
(* seal and a manual one; an export of everything, in two statements, and   *)
(* one of a chain, a party and a time.                                      *)
EXTENDS MerkleSeal, TLC

CONSTANTS t1, t2, ch1, ch2, alice, bob, night, manual, reg

MCMembersOf == (t1 :> {alice}) @@ (t2 :> {alice, bob})

All == [chains |-> Chains, from |-> 0, to |-> MaxTime, participants |-> {}]

Whole == {All, [All EXCEPT !.chains = {ch1}, !.to = 0, !.participants = {bob}]}
=============================================================================
