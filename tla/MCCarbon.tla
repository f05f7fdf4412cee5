------------------------------ MODULE MCCarbon ------------------------------
(* The engine on the carbon chains: guards, claims and an SLA timer.        *)
EXTENDS V2Findings, V2Invariant, CarbonChains, TLC

CONSTANTS hold, rgy, c1, c2, s1, t1, t2, k1, k2, k3, k4, k5, k6, k7, r1, r2,
          blank, doc, range, wrong

MCChains == [carbon_issuance |-> IssuanceChain, carbon_retirement |-> RetirementChain,
             carbon_reversal |-> ReversalChain]

\* What the theorem on closed txns asks of the declarations.
ASSUME MCChainsFinal == TerminalsFinal

Ask(chain, edge, actor, input) ==
    [chain |-> chain, edge |-> edge, actor |-> actor, input |-> input, reason |-> TRUE,
     parties |-> IF edge = "open"
                 THEN {[participant |-> rgy, role |-> "registry", field |-> "registry_party"]}
                 ELSE {}]
Retirement(edge, actor, input) == Ask("carbon_retirement", edge, actor, input)
Issuance(edge, actor, input) == Ask("carbon_issuance", edge, actor, input)
Reversal(edge, actor, input) == Ask("carbon_reversal", edge, actor, input)

\* One serial range is retired, to the end.
RetireIntents ==
    {Retirement("open", hold, range), Retirement("submit", hold, blank),
     Retirement("retire", rgy, blank)}

\* It is issued as well.
MintIntents ==
    RetireIntents \cup {Issuance("open", hold, range)} \cup
    {Issuance(e, rgy, blank) : e \in {"begin_review", "confirm_verification", "issue"}}

\* A reversal made good from the range; the sweep cancels the buffer, or the
\* registry does.
DeadlineIntents ==
    {Reversal("open", hold, doc), Reversal("begin_assessment", rgy, blank),
     Reversal("authorise_compensation", rgy, range), Reversal("cancel_buffer", rgy, blank)}

Symmetric == Permutations(Clients) \cup Permutations(Refs)
=============================================================================
