----------------------------- MODULE ChainDecl -----------------------------
(***************************************************************************)
(* The declarative vocabulary of the v2 domain: a chain is data (an initial *)
(* state, its terminal states, its edges and its timers), and the engine is *)
(* the only code.  Names, labels, legal bases and field types are left out: *)
(* the engine's control does not depend on them.                            *)
(***************************************************************************)
EXTENDS Naturals

CONSTANTS
    CHAINS,        \* deps.chains: chain key -> declaration
    Participants,  \* users; the JWT subject is the participant id
    Payloads,      \* abstract values of the business fields
    Blank,         \* the payload of a command that carries no input
    Consistent,    \* payloads whose serial range matches its quantity
    Evidenced,     \* payloads that name the reference a sign-off needs
    Crossing       \* payloads that cross to the regulator (size, hazard...)

Absent == "absent"   \* a name that is not there: null in the code
TimerActor == "system:timer"
Classes == {"sla", "time_bar"}
Guards == {"counterpartyDistinct", "complianceHaltClear", "executionEvidencePresent",
           "regulatorPresentIfStrategic", "creditApprovalPresent", "cpEvidencePresent",
           "serialRangeConsistent", "completenessEvidencePresent",
           "regulatorPresentIfCritical", "regulatorPresentIfHighHazard"}

\* TransitionDecl.  needs: what step 5 demands of the command ("input",
\* "reason"); claims: the edge declares a unique claim key.
EdgeDecl == [id: STRING, isNew: BOOLEAN, from: SUBSET STRING, to: STRING,
             by: SUBSET STRING, becomes: STRING, guards: SUBSET Guards,
             needs: SUBSET {"input", "reason"}, claims: BOOLEAN]

\* TimerDecl: armed on entering onState, fires the edge `fire` after `after`.
TimerDecl == [onState: STRING, after: Nat, fire: STRING, class: Classes, reason: BOOLEAN]

ChainRecord == [initial: STRING, terminal: SUBSET STRING,
                edges: SUBSET EdgeDecl, timers: SUBSET TimerDecl]

\* A user or the sweep; a party row binds a participant to a role on a txn.
Actors == Participants \cup {TimerActor}
Attachment == [participant: Participants, role: STRING, field: STRING]

\* True of any string literal, which the provers do not know.
ASSUME AbsentAssumption == Absent \in STRING

ASSUME ChainsAssumption ==
    \A k \in DOMAIN CHAINS : CHAINS[k] \in ChainRecord

ASSUME PayloadsAssumption ==
    /\ Blank \in Payloads
    /\ Consistent \subseteq Payloads
    /\ Evidenced \subseteq Payloads
    /\ Crossing \subseteq Payloads

-----------------------------------------------------------------------------
(* Constructors for the chain modules.                                      *)

Open(to, by, becomes, guards) ==
    [id |-> "open", isNew |-> TRUE, from |-> {}, to |-> to, by |-> by,
     becomes |-> becomes, guards |-> guards, needs |-> {"input"}, claims |-> FALSE]

Move(id, from, to, by, guards, needs) ==
    [id |-> id, isNew |-> FALSE, from |-> from, to |-> to, by |-> by,
     becomes |-> Absent, guards |-> guards, needs |-> needs, claims |-> FALSE]

Claiming(edge) == [edge EXCEPT !.claims = TRUE]

-----------------------------------------------------------------------------
(* The guard registry.  fields are the txn's own, input the command's, live *)
(* the live party rows.  Payloads merge field by field in the code; one     *)
(* payload stands for all the fields a guard or a claim reads.              *)

Merge(fields, input) == IF input = Blank THEN fields ELSE input

HasRegulator(live) == \E a \in live : a.role = "regulator"

\* Two or more live rows must not all name one participant.
Distinct(live) ==
    (\E a, b \in live : a # b) => \E a, b \in live : a.participant # b.participant

GuardHolds(g, fields, input, live, halted) ==
    CASE g = "counterpartyDistinct" -> Distinct(live)
      [] g = "complianceHaltClear" -> ~halted
      [] g = "serialRangeConsistent" -> Merge(fields, input) \in Consistent
      [] g \in {"executionEvidencePresent", "creditApprovalPresent",
                "cpEvidencePresent", "completenessEvidencePresent"} -> input \in Evidenced
      [] g = "regulatorPresentIfStrategic" -> fields \in Crossing => HasRegulator(live)
      [] g \in {"regulatorPresentIfCritical", "regulatorPresentIfHighHazard"} ->
            Merge(fields, input) \in Crossing => HasRegulator(live)
=============================================================================
