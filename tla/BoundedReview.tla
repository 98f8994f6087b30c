--------------------------- MODULE BoundedReview ---------------------------
(***************************************************************************)
(* What a reflection loop promises, however it reviews and revises: work   *)
(* is shipped only out of a review, it is sent back no more often than the *)
(* budget of the run allows, and a loop that cannot go on fails instead of *)
(* shipping.                                                               *)
(***************************************************************************)
EXTENDS Naturals

VARIABLES budget,  \* how often the run may send its work back
          phase,   \* what the loop is doing
          reviews  \* reviews given so far

vars == <<budget, phase, reviews>>

Init == budget \in Nat /\ phase = "drafting" /\ reviews = 0

Submit == phase = "drafting" /\ phase' = "reviewing" /\ reviews' = reviews

SendBack ==
  /\ phase = "reviewing" /\ reviews < budget
  /\ phase' = "drafting" /\ reviews' = reviews + 1

Ship == phase = "reviewing" /\ phase' = "shipped" /\ reviews' = reviews + 1

Fail ==
  /\ phase \in {"drafting", "reviewing"}
  /\ phase' = "failed" /\ reviews' = reviews

Next == (Submit \/ SendBack \/ Ship \/ Fail) /\ budget' = budget

Spec == Init /\ [][Next]_vars
=============================================================================
