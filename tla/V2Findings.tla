----------------------------- MODULE V2Findings -----------------------------
(***************************************************************************)
(* Statements the repository's comments make of the engine that some        *)
(* interleaving or some chain breaks.  Each is the property of one run,     *)
(* which exhibits the behaviour.                                            *)
(***************************************************************************)
EXTENDS V2Safety

\* "A transient throw leaves the row in place for the next sweep; a definitive
\* engine rejection deletes it": a due row is deleted only when its txn moved,
\* is closed, or the engine recorded a decision on that firing.
DeadlineNotLost ==
    [][\A r \in timers \ timers' :
          events' # events \/ KeyUsed(TimerKey(r)) \/ txns[r.txn].closed]_vars

\* "a second retirement of any identical range trips": a claim is refused
\* only if its range was already put through the same edge.
BurnRefusedOnceBurnt ==
    [][\A p \in Clients :
          (pc[p] # "replied" /\ pc'[p] = "replied" /\ reply'[p].code = "THROWN")
              => \E i \in DOMAIN events :
                    events[i].edge = cmd[p].edge /\ events[i].claim = draft[p].event.claim]_vars
=============================================================================
