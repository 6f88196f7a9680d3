--------------------------- MODULE MCRatingFlow ----------------------------
(* Instances of RatingFlow for TLC.                                        *)
EXTENDS RatingFlow

CONSTANTS e1, e2, u1, u2
=============================================================================
