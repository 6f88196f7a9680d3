--------------------------- MODULE MCVoteControls ---------------------------
(* Instance of VoteControls for TLC.                                       *)
EXTENDS VoteControls
=============================================================================
