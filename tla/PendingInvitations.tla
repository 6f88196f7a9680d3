------------------------ MODULE PendingInvitations -------------------------
(***************************************************************************)
(* What the screen of pending invitations promises to a user who answers   *)
(* one invitation at a time: an invitation is offered once, it leaves the  *)
(* list only when the server accepted an answer to it, and every other     *)
(* invitation stays.  Invitations, with Overlap = FALSE, implements it.    *)
(***************************************************************************)
EXTENDS FiniteSets

CONSTANTS Entry, Kind

VARIABLES
  offered,   \* invitations on the list
  asked,     \* the answer awaiting the server's reply, if any
  settled    \* invitations whose answer the server accepted

vars == <<offered, asked, settled>>

Init == offered = {} /\ asked = {} /\ settled = {}

Offer(e) ==
  /\ e \notin offered \cup settled
  /\ offered' = offered \cup {e}
  /\ UNCHANGED <<asked, settled>>

Ask(e, kind) ==
  /\ asked = {}
  /\ e \in offered
  /\ asked' = {[entry |-> e, kind |-> kind]}
  /\ UNCHANGED <<offered, settled>>

Accept(e) ==
  /\ \E kind \in Kind : asked = {[entry |-> e, kind |-> kind]}
  /\ asked' = {}
  /\ offered' = offered \ {e}
  /\ settled' = settled \cup {e}

Refuse ==
  /\ asked # {}
  /\ asked' = {}
  /\ UNCHANGED <<offered, settled>>

Next ==
  \/ \E e \in Entry : Offer(e) \/ Accept(e)
  \/ \E e \in Entry, kind \in Kind : Ask(e, kind)
  \/ Refuse

Spec == Init /\ [][Next]_vars
=============================================================================
