--------------------------- MODULE MCInvitations ---------------------------
(* Instances of Invitations for TLC.                                       *)
EXTENDS Invitations

CONSTANTS i1, i2, s1, s2, u1, u2

TwoUsers == [i \in Invites |-> IF i = i1 THEN u1 ELSE u2]
=============================================================================
