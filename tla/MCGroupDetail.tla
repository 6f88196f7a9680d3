--------------------------- MODULE MCGroupDetail ---------------------------
(* An instance of GroupDetail for TLC: two groups, an event in each.       *)
EXTENDS GroupDetail

CONSTANTS g1, g2
EventsOfBoth == <<g1, g2>>
=============================================================================
