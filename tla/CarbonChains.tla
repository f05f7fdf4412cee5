---------------------------- MODULE CarbonChains ----------------------------
(***************************************************************************)
(* Three chains as data that take serial ranges under permanent unique     *)
(* claims, all in one table of claims.  carbon_issuance mints serials and  *)
(* carbon_retirement burns them.  carbon_reversal reports a reversal,      *)
(* assesses it, authorises its make-good for a range of buffer serials and *)
(* cancels them: by the registry, or by the SLA timer when nobody acted    *)
(* within Deadline (14 days).                                              *)
(***************************************************************************)
EXTENDS ChainDecl

CONSTANT Deadline

ASSUME DeadlineAssumption == Deadline \in Nat \ {0}

CarbonGuards == {"complianceHaltClear", "serialRangeConsistent"}

IssuanceChain ==
  [initial |-> "requested",
   terminal |-> {"issued", "rejected", "withdrawn"},
   edges |->
     {Open("requested", {"holder", "operator"}, "holder", CarbonGuards),
      Move("begin_review", {"requested"}, "under_review", {"registry"}, {}, {}),
      Move("confirm_verification", {"under_review"}, "verified", {"registry"},
           {"serialRangeConsistent"}, {}),
      Claiming(Move("issue", {"verified"}, "issued", {"registry"}, CarbonGuards, {})),
      Move("reject", {"requested", "under_review"}, "rejected", {"registry"}, {}, {"reason"}),
      Move("withdraw", {"requested", "under_review"}, "withdrawn", {"holder"}, {}, {"reason"})},
   timers |-> {}]

RetirementChain ==
  [initial |-> "draft",
   terminal |-> {"retired", "rejected", "withdrawn"},
   edges |->
     {Open("draft", {"holder", "operator"}, "holder", CarbonGuards),
      Move("submit", {"draft"}, "submitted", {"holder"}, CarbonGuards, {}),
      Claiming(Move("retire", {"submitted"}, "retired", {"registry"}, CarbonGuards, {})),
      Move("reject", {"submitted"}, "rejected", {"registry"}, {}, {"reason"}),
      Move("withdraw", {"draft", "submitted"}, "withdrawn", {"holder"}, {}, {"reason"})},
   timers |-> {}]

ReversalChain ==
  [initial |-> "reported",
   terminal |-> {"compensated", "rejected", "withdrawn"},
   edges |->
     {Open("reported", {"holder", "operator"}, "holder", {"complianceHaltClear"}),
      Move("begin_assessment", {"reported"}, "under_assessment", {"registry", "operator"}, {}, {}),
      Move("authorise_compensation", {"under_assessment"}, "compensation_pending", {"registry"},
           CarbonGuards, {"input"}),
      Claiming(Move("cancel_buffer", {"compensation_pending"}, "compensated",
                    {"registry", "system"}, CarbonGuards, {})),
      Move("reject", {"reported", "under_assessment"}, "rejected",
           {"registry", "regulator"}, {}, {"reason"}),
      Move("withdraw", {"reported"}, "withdrawn", {"holder"}, {}, {"reason"})},
   timers |->
     {[onState |-> "compensation_pending", after |-> Deadline, fire |-> "cancel_buffer",
       class |-> "sla", reason |-> FALSE]}]
=============================================================================
