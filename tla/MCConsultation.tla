--------------------------- MODULE MCConsultation ---------------------------
(* The engine on the two consultation chains.  Each run gives Intents one   *)
(* of the sets below.                                                       *)
EXTENDS V2Findings, V2Invariant, Consultations, TLC

CONSTANTS reg, other, c1, c2, s1, t1, t2, k1, k2, k3, k4, r1, r2, blank, doc

MCChains == [consultation_notice |-> ConsultationNotice,
             public_consultation |-> PublicConsultation]

\* What the theorem on closed txns asks of the declarations.
ASSUME MCChainsFinal == TerminalsFinal

Ask(chain, edge, actor, input, reason) ==
    [chain |-> chain, edge |-> edge, actor |-> actor, input |-> input,
     reason |-> reason, parties |-> {}]

Notice(edge) == Ask("consultation_notice", edge, reg, doc, TRUE)

\* Openings and moves, with every mistake step 1 to 5 refuses.
RequestIntents ==
    {Notice("open"), Notice("publish_notice"),
     Ask("consultation_notice", "publish_notice", other, doc, TRUE),
     Ask("consultation_notice", "open", reg, blank, TRUE),
     Ask("consultation_notice", "publish_notise", reg, doc, TRUE)}

\* A comment window that is opened, extended and closed early.
WindowIntents ==
    {Notice("open"), Notice("publish_notice"), Notice("extend_comment_period")}

Symmetric == Permutations(Clients) \cup Permutations(Refs)
=============================================================================
