----------------------------- MODULE MCGroupTab -----------------------------
(* An instance of GroupTab for TLC: two groups listed and one created; the *)
(* search bar's text matches the second; a group of two members and one of *)
(* a single member; each query finds another user.                         *)
EXTENDS GroupTab

CONSTANTS n1, n2, t, u1, u2, q1, q2
TwoListed == <<n1, n2>>
SecondMatches == t :> {n2}
Memberships == <<{u1, u2}, {u2}, {u1}>>
OneFound == (q1 :> {u1}) @@ (q2 :> {u2})

(* The list, the join and the search share no state but the row opened.    *)
(* They are combined as far as this: the search screen is opened with one  *)
(* members screen and no group created; a group is created besides two     *)
(* members screens only while the list's other requests are at rest.       *)
FewTaps ==
  IF screen > 0
  THEN visit = 1 /\ groups = Len(Listed)
  ELSE \/ visit + groups <= Len(Listed) + 2
       \/ text = NoText /\ details \cup creations \cup subscriptions = {}
=============================================================================
