-------------------------- MODULE MCConstraintRollout --------------------------
(* Four rows, two of them comments in the community rollout.              *)
EXTENDS ConstraintRollout

MCIds == 1..4
MCCommentIds == {3, 4}
MCGuests == {"g1", "g2"}
===============================================================================
