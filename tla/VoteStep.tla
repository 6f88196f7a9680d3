------------------------------ MODULE VoteStep ------------------------------
(***************************************************************************)
(* What the four vote views promise DataProvider, each of them one step of *)
(* a rating: a view on top collects answers and leaves a grade in its slot *)
(* once all of them are given (a Computed view: as it is left), and only   *)
(* then leads on, to the view that comes After it and to no other, unless  *)
(* it is Skippable and has no answer yet.  RatingFlow builds a rating out  *)
(* of such steps; Quiz and VoteControls are the views.                     *)
(***************************************************************************)
EXTENDS Integers

CONSTANTS
  Views,        \* the vote views
  Entry,        \* those a rating, or the part of it looked at, begins with
  After,        \* the view that comes after each, NoView after the last
  Skippable,    \* those that can be left before the first answer
  Computed,     \* those that compute their grade as they are left
  Abandonable   \* those an alert may replace

NoView == "none"

VARIABLES
  view,      \* the vote view on top, if any
  session,   \* the newest rating session
  progress,  \* answers given on the view: none, some, all
  writer     \* the session that wrote each view's grade, 0 when nil

vars == <<view, session, progress, writer>>

Init ==
  /\ view = NoView /\ session = 0 /\ progress = "none"
  /\ writer = [v \in Views |-> 0]

(* An event is selected.                                                   *)
NewSession ==
  /\ view = NoView
  /\ session' = session + 1
  /\ UNCHANGED <<view, progress, writer>>

Open(v) ==
  /\ view = NoView
  /\ view' = v
  /\ session' \in {session, session + 1}
  /\ UNCHANGED <<progress, writer>>

Answer ==
  /\ view # NoView
  /\ progress # "all"
  /\ progress' = "some"
  /\ UNCHANGED <<view, session, writer>>

Finish ==
  /\ view # NoView
  /\ progress # "all"
  /\ progress' = "all"
  /\ writer' = [writer EXCEPT ![view] = session]
  /\ UNCHANGED <<view, session>>

LeaveFor(v) ==
  /\ view' = v
  /\ progress' = "none"
  /\ UNCHANGED session

Save ==
  /\ view \in Views
  /\ progress = "all" \/ (progress = "none" /\ view \in Skippable)
  /\ LeaveFor(After[view])
  /\ UNCHANGED writer

Compute ==
  /\ view \in Computed
  /\ LeaveFor(After[view])
  /\ writer' = [writer EXCEPT ![view] = session]

Abandon ==
  /\ view \in Abandonable
  /\ LeaveFor(NoView)
  /\ UNCHANGED writer

Next ==
  \/ NewSession \/ Answer \/ Finish \/ Save \/ Compute \/ Abandon
  \/ \E v \in Entry : Open(v)

Spec == Init /\ [][Next]_vars
=============================================================================
