--------------------------- MODULE Consultations ---------------------------
(***************************************************************************)
(* Two chains as data: the regulator's consultation notice and the NERSA    *)
(* style public consultation.  Both carry a comment-window time-bar on a    *)
(* state that also has a self edge, so a window is re-armed while the sweep *)
(* may already hold the previous timer row.                                 *)
(* Window is the length of the comment window (30 days) in clock units.     *)
(***************************************************************************)
EXTENDS ChainDecl

CONSTANT Window

ASSUME WindowAssumption == Window \in Nat \ {0}

ConsultationNotice ==
  [initial |-> "draft",
   terminal |-> {"decision_published", "withdrawn", "cancelled"},
   edges |->
     {Open("draft", {"regulator", "operator"}, "regulator", {}),
      Move("publish_notice", {"draft"}, "comment_open", {"regulator"}, {}, {"input"}),
      Move("extend_comment_period", {"comment_open"}, "comment_open", {"regulator"}, {}, {}),
      Move("close_comments", {"comment_open"}, "under_review", {"regulator", "system"}, {}, {}),
      Move("publish_outcome", {"under_review"}, "decision_published", {"regulator"}, {}, {"input"}),
      Move("withdraw_draft", {"draft"}, "withdrawn", {"regulator", "operator"}, {}, {"reason"}),
      Move("cancel_consultation", {"comment_open", "under_review"}, "cancelled",
           {"regulator"}, {}, {"reason"})},
   timers |->
     {[onState |-> "comment_open", after |-> Window, fire |-> "close_comments",
       class |-> "time_bar", reason |-> FALSE]}]

PublicConsultation ==
  [initial |-> "drafted",
   terminal |-> {"outcome_published", "cancelled", "withdrawn"},
   edges |->
     {Open("drafted", {"regulator", "operator"}, "regulator", {}),
      Move("publish", {"drafted"}, "open_for_comment", {"regulator"}, {}, {}),
      Move("record_comment", {"open_for_comment"}, "open_for_comment",
           {"regulator", "operator"}, {}, {}),
      Move("close_comments", {"open_for_comment"}, "comments_closed",
           {"regulator", "system"}, {}, {}),
      Move("begin_review", {"comments_closed"}, "under_review", {"regulator"}, {}, {}),
      Move("publish_outcome", {"under_review"}, "outcome_published", {"regulator"}, {}, {"input"}),
      Move("withdraw_draft", {"drafted"}, "withdrawn", {"regulator", "operator"}, {}, {"reason"}),
      Move("cancel_consultation", {"open_for_comment", "comments_closed", "under_review"},
           "cancelled", {"regulator"}, {}, {"reason"})},
   timers |->
     {[onState |-> "open_for_comment", after |-> Window, fire |-> "close_comments",
       class |-> "time_bar", reason |-> FALSE]}]
=============================================================================
