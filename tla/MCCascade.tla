------------------------------- MODULE MCCascade -------------------------------
(* One fired event, a split of two parts, two operators.                    *)
EXTENDS Cascade

CONSTANTS e1, o1, o2
=============================================================================
