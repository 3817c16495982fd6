-------------------------- MODULE MCExpertReviews --------------------------
(* Instances of ExpertReviews for TLC. *)
EXTENDS ExpertReviews, TLC
=============================================================================
