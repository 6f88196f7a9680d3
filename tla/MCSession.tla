----------------------------- MODULE MCSession ------------------------------
(* An instance of Session for TLC.                                         *)
EXTENDS Session

CONSTANTS a1, a2
=============================================================================
