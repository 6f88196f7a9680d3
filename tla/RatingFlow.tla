----------------------------- MODULE RatingFlow ----------------------------
(***************************************************************************)
(* Rating a colleague after an event: DetailViewController opens a         *)
(* VoteViewController for the selected event and asks the server whom to   *)
(* rate; four vote views follow each other, each leaving its grade in a    *)
(* slot of DataProvider; the last one sends the rating and shows a new     *)
(* tab bar, from where the next event can be selected.                     *)
(*                                                                         *)
(* A session is one VoteViewController and the views it leads to.  Views   *)
(* are presented full screen on top of each other and never dismissed, so  *)
(* only the newest can be touched, but the completion handlers of older    *)
(* sessions may still run.  The questionnaires themselves are in Quiz and  *)
(* Loyalty; here a grade is the session that computed it.                  *)
(***************************************************************************)
EXTENDS Sequences, Integers

CONSTANTS
  Events,       \* identifiers of events
  NoEvent,      \* the identifier of an event decoded without one
  Members,      \* users that may be rated
  NoUser,       \* User(id: nil ...), sent when nobody is left to rate
  MaxSessions   \* bound on the events selected

ASSUME NoEventAssumption == NoEvent \notin Events
ASSUME NoUserAssumption == NoUser \notin Members
ASSUME MaxSessionsAssumption == MaxSessions \in Nat

Session == 1..MaxSessions
NoGrade == 0    \* the slot is nil
Grade == {NoGrade} \cup Session
NoView == 0

(* A subject is a user together with the lookup that returned it; the      *)
(* lookup is history, for the properties.                                  *)
Subject == [user : Members \cup {NoUser}, lookup : Session]
NoSubject == [user |-> NoUser, lookup |-> 0]

Lookup == [session : Session, event : Events, user : Members \cup {NoUser}]
Block == [view : Session, subject : Subject]
Slots == {"discipline", "professionalism", "efficiency", "loyalty"}
Rating == [session : Session, event : Events, subject : Subject,
           grades : [Slots -> Session]]

Screens == {"home", "loading", "vote", "alert", "second", "third", "fourth"}

VARIABLES
  \* the screen
  screen,      \* the view on top
  session,     \* the newest session
  event,       \* its eventId
  subject,     \* subjectUserId of its VoteViewController
  carried,     \* subjectUserId of the views after it
  progress,    \* answers given on the view on top: none, some, all
  \* DataProvider
  owner,       \* whose closure completionSearchUnansweredUser holds
  grades,      \* the four grades, each the session that wrote it
  \* requests and queued blocks
  unanswered,  \* GET /api/event/rating/<id>/unanswered in flight
  profiles,    \* GET /api/user/<id> in flight for a lookup
  mainQueue,   \* blocks that set the subject
  puts,        \* PUT /api/response/rating in flight
  \* the server
  rated,       \* <<event, user>> pairs it has a rating for
  trap,        \* the run-time failure that stopped the process, if any
  \* history, for the properties
  ratings,     \* every rating sent
  pendingAt,   \* lookups in flight when a session's closure was registered
  failed       \* lookups that ended without a user or an empty list

viewVars == <<screen, session, event, subject, carried, progress>>
slotVars == <<owner, grades>>
netVars  == <<unanswered, profiles, mainQueue, puts, rated>>
histVars == <<ratings, pendingAt, failed>>
vars == <<viewVars, slotVars, netVars, trap, histVars>>

Running == trap = "none"

Init ==
  /\ screen = "home" /\ session = 0 /\ event = NoEvent
  /\ subject = NoSubject /\ carried = NoSubject /\ progress = "none"
  /\ owner = NoView /\ grades = [s \in Slots |-> NoGrade]
  /\ unanswered = {} /\ profiles = {} /\ mainQueue = <<>> /\ puts = {}
  /\ \E done \in SUBSET Events : rated = done \X Members    \* by earlier launches
  /\ trap = "none"
  /\ ratings = {} /\ pendingAt = [s \in Session |-> {}] /\ failed = {}

-----------------------------------------------------------------------------
(* Main thread: the views.                                                 *)

(* Mutant: the subject survives the view that learned it.                  *)
SelectEventKeepsSubject(e) ==
  /\ Running
  /\ screen = "home"
  /\ session < MaxSessions
  /\ screen' = "loading"
  /\ session' = session + 1
  /\ event' = e
  /\ subject' = subject
  /\ unanswered' = IF e = NoEvent
                     THEN unanswered
                     ELSE unanswered \cup {[session |-> session', event |-> e, user |-> NoUser]}
  /\ UNCHANGED <<carried, progress, slotVars, profiles, mainQueue, puts, rated,
                 trap, histVars>>

(* didSelectRowAt: an event with an identifier is looked up, then a new    *)
(* VoteViewController is presented.                                        *)
SelectEvent(e) ==
  /\ Running
  /\ screen = "home"
  /\ session < MaxSessions
  /\ screen' = "loading"
  /\ session' = session + 1
  /\ event' = e
  /\ subject' = NoSubject
  /\ unanswered' = IF e = NoEvent
                     THEN unanswered
                     ELSE unanswered \cup {[session |-> session', event |-> e, user |-> NoUser]}
  /\ UNCHANGED <<carried, progress, slotVars, profiles, mainQueue, puts, rated,
                 trap, histVars>>

(* Mutant: the slot is not filled.                                         *)
VoteViewDidLoadNoSlot ==
  /\ Running
  /\ screen = "loading"
  /\ screen' = "vote"
  /\ progress' = "none"
  /\ owner' = owner
  /\ pendingAt' = [pendingAt EXCEPT ![session] =
                     {l.session : l \in unanswered \cup profiles}]
  /\ UNCHANGED <<session, event, subject, carried, grades, netVars, trap,
                 ratings, failed>>

(* Its viewDidLoad disables the save button and puts its closure in the    *)
(* slot.  The lookup issued just before may already be answered.           *)
VoteViewDidLoad ==
  /\ Running
  /\ screen = "loading"
  /\ screen' = "vote"
  /\ progress' = "none"
  /\ owner' = session
  /\ pendingAt' = [pendingAt EXCEPT ![session] =
                     {l.session : l \in unanswered \cup profiles}]
  /\ UNCHANGED <<session, event, subject, carried, grades, netVars, trap,
                 ratings, failed>>

(* The last answer of a view: endQuiz writes its grade into the slot.      *)
Finish(slot) ==
  /\ progress' = "all"
  /\ grades' = [grades EXCEPT ![slot] = session]
  /\ UNCHANGED <<screen, session, event, subject, carried, owner, netVars,
                 trap, histVars>>

EndFirstQuiz ==
  /\ Running
  /\ screen = "vote"
  /\ progress = "none"
  /\ Finish("discipline")

(* Mutant: the save button is enabled as the view loads.                   *)
SaveFirstEnabled ==
  /\ Running
  /\ screen = "vote"
  /\ progress # "some"
  /\ screen' = "second"
  /\ progress' = "none"
  /\ carried' = subject
  /\ UNCHANGED <<session, event, subject, slotVars, netVars, trap, histVars>>

(* saveButtonTapped of VoteViewController: the second view starts with the *)
(* subject known at this moment.  Its save button is enabled from the      *)
(* start, and only its first answer disables it.                           *)
SaveFirst ==
  /\ Running
  /\ screen = "vote"
  /\ progress = "all"
  /\ screen' = "second"
  /\ progress' = "none"
  /\ carried' = subject
  /\ UNCHANGED <<session, event, subject, slotVars, netVars, trap, histVars>>

AnswerSecondQuiz ==
  /\ Running
  /\ screen = "second"
  /\ progress = "none"
  /\ progress' = "some"
  /\ UNCHANGED <<screen, session, event, subject, carried, slotVars, netVars,
                 trap, histVars>>

EndSecondQuiz ==
  /\ Running
  /\ screen = "second"
  /\ progress = "some"
  /\ Finish("professionalism")

(* Mutant: the third view is left out.                                     *)
SaveSecondSkips ==
  /\ Running
  /\ screen = "second"
  /\ progress # "some"
  /\ screen' = "fourth"
  /\ progress' = "none"
  /\ UNCHANGED <<session, event, subject, carried, slotVars, netVars, trap,
                 histVars>>

SaveSecond ==
  /\ Running
  /\ screen = "second"
  /\ progress # "some"
  /\ screen' = "third"
  /\ progress' = "none"
  /\ UNCHANGED <<session, event, subject, carried, slotVars, netVars, trap,
                 histVars>>

(* ThirdVoteView adds up its sliders when it is saved.                     *)
SaveThird ==
  /\ Running
  /\ screen = "third"
  /\ screen' = "fourth"
  /\ progress' = "none"
  /\ grades' = [grades EXCEPT !["efficiency"] = session]
  /\ UNCHANGED <<session, event, subject, carried, owner, netVars, trap,
                 histVars>>

EndLoyaltyQuiz ==
  /\ Running
  /\ screen = "fourth"
  /\ progress = "none"
  /\ Finish("loyalty")

(* Mutant: missing grades are not looked for.                              *)
CompleteWithoutGrades == event # NoEvent /\ carried.user # NoUser

Complete ==
  /\ event # NoEvent
  /\ carried.user # NoUser
  /\ \A s \in Slots : grades[s] # NoGrade

(* saveButtonTapped of FourthVoteView: the rating is sent when its event,  *)
(* its subject and the four grades are there; the new tab bar follows in   *)
(* any case.                                                               *)
SaveFourth ==
  LET rating == [session |-> session, event |-> event, subject |-> carried,
                 grades |-> grades]
  IN /\ Running
     /\ screen = "fourth"
     /\ progress = "all"
     /\ screen' = "home"
     /\ progress' = "none"
     /\ IF Complete
          THEN puts' = puts \cup {rating} /\ ratings' = ratings \cup {rating}
          ELSE UNCHANGED <<puts, ratings>>
     /\ UNCHANGED <<session, event, subject, carried, slotVars, unanswered,
                    profiles, mainQueue, rated, trap, pendingAt, failed>>

(* OK on the alert shows a new tab bar.                                    *)
DismissAlert ==
  /\ Running
  /\ screen = "alert"
  /\ screen' = "home"
  /\ progress' = "none"
  /\ UNCHANGED <<session, event, subject, carried, slotVars, netVars, trap,
                 histVars>>

(* Mutant: the block sets the subject of whatever view is newest.          *)
RunBlockAnyView ==
  /\ Running
  /\ mainQueue # <<>>
  /\ mainQueue' = Tail(mainQueue)
  /\ subject' = Head(mainQueue).subject
  /\ UNCHANGED <<screen, session, event, carried, progress, slotVars,
                 unanswered, profiles, puts, rated, trap, histVars>>

(* A queued block sets subjectUserId of the view it was created for.       *)
RunBlock ==
  /\ Running
  /\ mainQueue # <<>>
  /\ mainQueue' = Tail(mainQueue)
  /\ subject' = IF Head(mainQueue).view = session
                  THEN Head(mainQueue).subject ELSE subject
  /\ UNCHANGED <<screen, session, event, carried, progress, slotVars,
                 unanswered, profiles, puts, rated, trap, histVars>>

-----------------------------------------------------------------------------
(* URLSession's queue: the completion handlers.                            *)

(* Mutant: the alert does not depend on the user.                          *)
CallSlotAlerts(user, lookup) ==
  IF owner = NoView
    THEN UNCHANGED <<mainQueue, screen>>
    ELSE /\ mainQueue' = Append(mainQueue,
              [view |-> owner, subject |-> [user |-> user, lookup |-> lookup]])
         /\ IF owner = session /\ screen = "vote"
              THEN screen' = "alert"
              ELSE screen' = screen

(* Mutant: once the first view is left nobody listens.                     *)
CallSlotFirstViewOnly(user, lookup) ==
  IF owner = NoView \/ screen # "vote"
    THEN UNCHANGED <<mainQueue, screen>>
    ELSE /\ mainQueue' = Append(mainQueue,
              [view |-> owner, subject |-> [user |-> user, lookup |-> lookup]])
         /\ IF user = NoUser /\ owner = session
              THEN screen' = "alert"
              ELSE screen' = screen

(* The slot's closure: it queues the block that sets the subject, and for  *)
(* NoUser presents the alert on its own view, which UIKit ignores unless   *)
(* that view is on top.                                                    *)
CallSlot(user, lookup) ==
  IF owner = NoView
    THEN UNCHANGED <<mainQueue, screen>>
    ELSE /\ mainQueue' = Append(mainQueue,
              [view |-> owner, subject |-> [user |-> user, lookup |-> lookup]])
         /\ IF user = NoUser /\ owner = session /\ screen = "vote"
              THEN screen' = "alert"
              ELSE screen' = screen

(* searchUnansweredUsers names someone the server has no rating for yet,   *)
(* and the profile is requested.  (The server's reading and the handler    *)
(* are one step: what lies between is covered by the profile request.)     *)
UnansweredNamed(l, u) ==
  /\ Running
  /\ l \in unanswered
  /\ <<l.event, u>> \notin rated
  /\ unanswered' = unanswered \ {l}
  /\ profiles' = profiles \cup {[l EXCEPT !.user = u]}
  /\ UNCHANGED <<viewVars, slotVars, mainQueue, puts, rated, trap, histVars>>

(* Nobody is left: the slot is called with a user without identifier.      *)
UnansweredEmpty(l) ==
  /\ Running
  /\ l \in unanswered
  /\ \A u \in Members : <<l.event, u>> \in rated
  /\ unanswered' = unanswered \ {l}
  /\ CallSlot(NoUser, l.session)
  /\ UNCHANGED <<session, event, subject, carried, progress, slotVars, profiles,
                 puts, rated, trap, ratings, pendingAt, failed>>

(* A body without "members" is dropped; no body at all stops the process   *)
(* (data!).                                                                *)
UnansweredFailure(l) ==
  /\ Running
  /\ l \in unanswered
  /\ unanswered' = unanswered \ {l}
  /\ failed' = failed \cup {l.session}
  /\ trap' \in {"none", "lookup"}
  /\ UNCHANGED <<viewVars, slotVars, profiles, mainQueue, puts, rated, ratings,
                 pendingAt>>

ProfileReply(l) ==
  /\ Running
  /\ l \in profiles
  /\ profiles' = profiles \ {l}
  /\ CallSlot(l.user, l.session)
  /\ UNCHANGED <<session, event, subject, carried, progress, slotVars,
                 unanswered, puts, rated, trap, ratings, pendingAt, failed>>

ProfileFailure(l) ==
  /\ Running
  /\ l \in profiles
  /\ profiles' = profiles \ {l}
  /\ failed' = failed \cup {l.session}
  /\ UNCHANGED <<viewVars, slotVars, unanswered, mainQueue, puts, rated, trap,
                 ratings, pendingAt>>

(* The rating's reply is only logged; the server may have recorded the     *)
(* rating or not.  Without a body the process stops (data!).               *)
RatingReply(r) ==
  /\ Running
  /\ r \in puts
  /\ puts' = puts \ {r}
  /\ rated' \in {rated, rated \cup {<<r.event, r.subject.user>>}}
  /\ trap' \in {"none", "rating"}
  /\ UNCHANGED <<viewVars, slotVars, unanswered, profiles, mainQueue, histVars>>

-----------------------------------------------------------------------------
User ==
  \/ \E e \in Events \cup {NoEvent} : SelectEvent(e)
  \/ EndFirstQuiz \/ SaveFirst
  \/ AnswerSecondQuiz \/ EndSecondQuiz \/ SaveSecond
  \/ SaveThird
  \/ EndLoyaltyQuiz \/ SaveFourth
  \/ DismissAlert

NetworkQueue ==
  \/ \E l \in unanswered : \/ \E u \in Members : UnansweredNamed(l, u)
                           \/ UnansweredEmpty(l)
                           \/ UnansweredFailure(l)
  \/ \E l \in profiles : ProfileReply(l) \/ ProfileFailure(l)
  \/ \E r \in puts : RatingReply(r)

Next == User \/ VoteViewDidLoad \/ RunBlock \/ NetworkQueue

Spec == Init /\ [][Next]_vars

(***************************************************************************)
(* Every request ends, queued blocks run and a presented view loads; the   *)
(* user owes nothing.                                                      *)
(***************************************************************************)
Fairness == WF_vars(VoteViewDidLoad) /\ WF_vars(RunBlock) /\ WF_vars(NetworkQueue)

FairSpec == Spec /\ Fairness

-----------------------------------------------------------------------------
(* Type invariant.                                                         *)
TypeOK ==
  /\ screen \in Screens
  /\ session \in 0..MaxSessions
  /\ event \in Events \cup {NoEvent}
  /\ subject \in Subject \cup {NoSubject}
  /\ carried \in Subject \cup {NoSubject}
  /\ progress \in {"none", "some", "all"}
  /\ owner \in {NoView} \cup Session
  /\ grades \in [Slots -> Grade]
  /\ unanswered \subseteq Lookup
  /\ profiles \subseteq Lookup
  /\ mainQueue \in Seq(Block)
  /\ puts \subseteq Rating
  /\ rated \subseteq Events \X (Members \cup {NoUser})
  /\ trap \in {"none", "lookup", "rating"}
  /\ ratings \subseteq Rating
  /\ pendingAt \in [Session -> SUBSET Session]
  /\ failed \subseteq Session

(***************************************************************************)
(* The slots of DataProvider outlive the views and are never cleared, but  *)
(* three of the four grades in a rating were given in the session that     *)
(* sends it.                                                               *)
(***************************************************************************)
GradesOfThisSession ==
  \A r \in ratings :
    \A s \in Slots \ {"professionalism"} : r.grades[s] = r.session

(***************************************************************************)
(* What the second view's save button asks of the user (to choose answers) *)
(* before it leads on: the grade for professionalism too was given in the  *)
(* session that sends it.                                                  *)
(***************************************************************************)
AllGradesOfThisSession ==
  \A r \in ratings : \A s \in Slots : r.grades[s] = r.session

(***************************************************************************)
(* The slot takes the reply of any lookup, keyed by nothing.  Still, the   *)
(* subject of a rating comes from the session's own lookup or from one     *)
(* that was in flight when the session's closure was registered, and one   *)
(* lookup never gives its user to two ratings.                             *)
(***************************************************************************)
LateLookupOnly ==
  \A r \in ratings : r.subject.lookup \in pendingAt[r.session]

OneRatingPerLookup ==
  \A r, q \in ratings :
    (r.session = q.session \/ r.subject.lookup = q.subject.lookup) => r = q

(***************************************************************************)
(* The alert says that nobody is left to rate for the selected event.      *)
(***************************************************************************)
AlertIsTrue ==
  (screen = "alert") => \A u \in Members : <<event, u>> \in rated

(***************************************************************************)
(* It tells the truth when no lookup of an earlier session was in flight   *)
(* as this session's closure was registered.                               *)
(***************************************************************************)
AlertTrueUnlessLate ==
  (screen = "alert" /\ pendingAt[session] \subseteq {session}) => AlertIsTrue

(***************************************************************************)
(* A user who stays on the first view learns whom to rate, or that there   *)
(* is nobody, unless the session's lookup fails: its closure is in the     *)
(* slot for as long as the view is on top.                                 *)
(***************************************************************************)
LookupPending(s) == s \in {l.session : l \in unanswered \cup profiles}

SubjectIsShown ==
  \A s \in Session :
    (screen = "vote" /\ session = s /\ LookupPending(s))
      ~> \/ screen # "vote" \/ session # s
         \/ subject # NoSubject \/ s \in failed \/ ~Running

(***************************************************************************)
(* The answer to a lookup that was in flight when its own session's view   *)
(* loaded is never lost without a failure: until it is the subject (or a   *)
(* late one came before it) the lookup is still in flight or a block for   *)
(* that view is queued, whatever earlier sessions and their lookups do:    *)
(* nobody takes the slot from the newest session.                          *)
(***************************************************************************)
OwnLookupIsOnItsWay ==
  (session # 0 /\ screen # "loading" /\ session \in pendingAt[session]) =>
    \/ LookupPending(session)
    \/ \E k \in 1..Len(mainQueue) : mainQueue[k].view = session
    \/ subject # NoSubject
    \/ session \in failed

(***************************************************************************)
(* A rating is built of the steps the vote views promise: it begins with   *)
(* the first view and takes the four in their order, no view is left out   *)
(* or opened from elsewhere, and each is left for the next only with its   *)
(* grade written in this session, the untouched second one excepted.  Only *)
(* the alert on the first view ends it before the fourth.                  *)
(***************************************************************************)
VoteViews == {"vote", "second", "third", "fourth"}

SlotOf ==
  [v \in VoteViews |-> CASE v = "vote"   -> "discipline"
                         [] v = "second" -> "professionalism"
                         [] v = "third"  -> "efficiency"
                         [] v = "fourth" -> "loyalty"]

ViewAfter ==
  [v \in VoteViews |-> CASE v = "vote"   -> "second"
                         [] v = "second" -> "third"
                         [] v = "third"  -> "fourth"
                         [] v = "fourth" -> "none"]

InView == screen \in VoteViews

Step == INSTANCE VoteStep WITH
  Views <- VoteViews, Entry <- {"vote"}, After <- ViewAfter,
  Skippable <- {"second"}, Computed <- {"third"}, Abandonable <- {"vote"},
  view     <- IF InView THEN screen ELSE "none",
  progress <- IF InView THEN progress ELSE "none",
  writer   <- [v \in VoteViews |-> grades[SlotOf[v]]]

ImplementsVoteStep == Step!Spec
=============================================================================
