------------------------- MODULE RatingFlowProofs --------------------------
(***************************************************************************)
(* Theorems about RatingFlow, for every set of events and members and any  *)
(* number of sessions.                                                     *)
(***************************************************************************)
EXTENDS RatingFlow, TLAPS

-----------------------------------------------------------------------------
(* Sequences: what a queue of blocks gains and loses.                      *)

LEMMA QueueAppend ==
  ASSUME NEW S, NEW s \in Seq(S), NEW b \in S
  PROVE  /\ Append(s, b) \in Seq(S)
         /\ Len(Append(s, b)) = Len(s) + 1
         /\ \A j \in 1..(Len(s) + 1) : Append(s, b)[j] = IF j = Len(s) + 1 THEN b ELSE s[j]
  OBVIOUS

LEMMA QueueTail ==
  ASSUME NEW S, NEW s \in Seq(S), s # <<>>
  PROVE  /\ Tail(s) \in Seq(S) /\ Len(Tail(s)) = Len(s) - 1 /\ Len(s) \in Nat \ {0}
         /\ \A j \in 1..(Len(s) - 1) : Tail(s)[j] = s[j + 1]
         /\ Head(s) = s[1] /\ Head(s) \in S
  OBVIOUS

(* The lookup for which the server named a member.                         *)
LEMMA NamedLookup ==
  ASSUME NEW l \in Lookup, NEW u \in Members
  PROVE  [l EXCEPT !.user = u] \in Lookup /\ [l EXCEPT !.user = u].user = u
BY DEF Lookup

-----------------------------------------------------------------------------
(* The type invariant.  A lookup at the profile stage names a member, and  *)
(* a view on the screen belongs to a session.                              *)

ProfileType ==
  /\ \A l \in profiles : l.user \in Members
  /\ (screen # "home") => session # 0

LEMMA TypeInit == Init => TypeOK /\ ProfileType
  BY MaxSessionsAssumption, NoUserAssumption
  DEF Init, TypeOK, ProfileType, NoSubject, NoView, NoGrade, Slots, Grade, Screens

LEMMA CallSlotType ==
  ASSUME TypeOK, NEW user \in Members \cup {NoUser}, NEW lookup \in Session,
         CallSlot(user, lookup)
  PROVE  /\ mainQueue' \in Seq(Block)
         /\ screen' \in {screen, "alert"}
         /\ (screen' # screen) => screen = "vote"
<1>1. CASE owner = NoView
  BY <1>1 DEF TypeOK, CallSlot
<1>2. CASE owner # NoView
  <2> DEFINE b == [view |-> owner, subject |-> [user |-> user, lookup |-> lookup]]
  <2>1. b \in Block
    BY <1>2 DEF TypeOK, Block, Subject
  <2>2. /\ mainQueue' = Append(mainQueue, b) /\ screen' \in {screen, "alert"}
        /\ (screen' # screen) => screen = "vote"
    BY <1>2 DEF CallSlot
  <2> HIDE DEF b
  <2> QED BY <2>1, <2>2, QueueAppend DEF TypeOK
<1> QED BY <1>1, <1>2

LEMMA TypeStep == TypeOK /\ ProfileType /\ [Next]_vars => (TypeOK /\ ProfileType)'
<1> SUFFICES ASSUME TypeOK, ProfileType, [Next]_vars PROVE (TypeOK /\ ProfileType)'
  OBVIOUS
<1> DEFINE Goal == (TypeOK /\ ProfileType)'
<1> USE DEF TypeOK, ProfileType, viewVars, slotVars, netVars, histVars, Screens, Grade
<1>1. ASSUME NEW e \in Events \cup {NoEvent}, SelectEvent(e)
      PROVE  Goal
  <2>1. session' \in Session /\ session' \in 0..MaxSessions
    BY <1>1, MaxSessionsAssumption DEF SelectEvent, Session
  <2>2. e # NoEvent => [session |-> session', event |-> e, user |-> NoUser] \in Lookup
    BY <2>1 DEF Lookup
  <2> QED BY <1>1, <2>1, <2>2 DEF SelectEvent
<1>2. CASE EndFirstQuiz
  <2>1. session \in Grade
    BY MaxSessionsAssumption DEF Session, NoGrade
  <2> QED BY <1>2, <2>1 DEF EndFirstQuiz, Finish, Slots
<1>3. CASE SaveFirst
  BY <1>3 DEF SaveFirst
<1>4. CASE AnswerSecondQuiz
  BY <1>4 DEF AnswerSecondQuiz
<1>5. CASE EndSecondQuiz
  <2>1. session \in Grade
    BY MaxSessionsAssumption DEF Session, NoGrade
  <2> QED BY <1>5, <2>1 DEF EndSecondQuiz, Finish, Slots
<1>6. CASE SaveSecond
  BY <1>6 DEF SaveSecond
<1>7. CASE SaveThird
  <2>1. session \in Grade
    BY MaxSessionsAssumption DEF Session, NoGrade
  <2> QED BY <1>7, <2>1 DEF SaveThird, Slots
<1>8. CASE EndLoyaltyQuiz
  <2>1. session \in Grade
    BY MaxSessionsAssumption DEF Session, NoGrade
  <2> QED BY <1>8, <2>1 DEF EndLoyaltyQuiz, Finish, Slots
<1>9. CASE SaveFourth
  <2>1. Complete => [session |-> session, event |-> event, subject |-> carried,
                     grades |-> grades] \in Rating
    <3> SUFFICES ASSUME Complete
                 PROVE  /\ session \in Session /\ event \in Events /\ carried \in Subject
                        /\ grades \in [Slots -> Session]
      BY DEF Rating
    <3>1. grades \in [Slots -> Session]
      BY DEF Complete, NoGrade
    <3>2. carried \in Subject /\ event \in Events
      BY DEF Complete, NoSubject
    <3>3. session # 0
      BY <1>9 DEF SaveFourth
    <3> QED BY <3>1, <3>2, <3>3, MaxSessionsAssumption DEF Session
  <2> QED BY <1>9, <2>1 DEF SaveFourth
<1>10. CASE DismissAlert
  BY <1>10 DEF DismissAlert
<1>11. CASE VoteViewDidLoad
  <2>1. {l.session : l \in unanswered \cup profiles} \subseteq Session
    BY DEF Lookup
  <2>2. session \in Session
    BY <1>11, MaxSessionsAssumption DEF VoteViewDidLoad, Session
  <2>3. pendingAt' \in [Session -> SUBSET Session]
    BY <1>11, <2>1 DEF VoteViewDidLoad
  <2> QED BY <1>11, <2>2, <2>3 DEF VoteViewDidLoad
<1>12. CASE RunBlock
  <2>1. mainQueue' \in Seq(Block) /\ Head(mainQueue) \in Block
    BY <1>12, QueueTail DEF RunBlock
  <2>2. Head(mainQueue).subject \in Subject
    BY <2>1 DEF Block
  <2> QED BY <1>12, <2>1, <2>2 DEF RunBlock
<1>13. ASSUME NEW l \in unanswered, NEW u \in Members, UnansweredNamed(l, u)
      PROVE  Goal
  <2>1. [l EXCEPT !.user = u] \in Lookup /\ [l EXCEPT !.user = u].user = u
    BY NamedLookup
  <2> QED BY <1>13, <2>1 DEF UnansweredNamed
<1>14. ASSUME NEW l \in unanswered, UnansweredEmpty(l)
      PROVE  Goal
  <2>1. l.session \in Session
    BY DEF Lookup
  <2>2. CallSlot(NoUser, l.session)
    BY <1>14 DEF UnansweredEmpty
  <2>3. /\ mainQueue' \in Seq(Block) /\ screen' \in {screen, "alert"}
        /\ (screen' # screen) => screen = "vote"
    BY <2>1, <2>2, CallSlotType
  <2> QED BY <1>14, <2>3 DEF UnansweredEmpty
<1>15. ASSUME NEW l \in unanswered, UnansweredFailure(l)
      PROVE  Goal
  BY <1>15 DEF UnansweredFailure, Lookup
<1>16. ASSUME NEW l \in profiles, ProfileReply(l)
      PROVE  Goal
  <2>1. l.session \in Session /\ l.user \in Members
    BY DEF Lookup
  <2>2. CallSlot(l.user, l.session)
    BY <1>16 DEF ProfileReply
  <2>3. /\ mainQueue' \in Seq(Block) /\ screen' \in {screen, "alert"}
        /\ (screen' # screen) => screen = "vote"
    BY <2>1, <2>2, CallSlotType
  <2> QED BY <1>16, <2>3 DEF ProfileReply
<1>17. ASSUME NEW l \in profiles, ProfileFailure(l)
      PROVE  Goal
  BY <1>17 DEF ProfileFailure, Lookup
<1>18. ASSUME NEW r \in puts, RatingReply(r)
      PROVE  Goal
  <2>1. <<r.event, r.subject.user>> \in Events \X (Members \cup {NoUser})
    BY DEF Rating, Subject
  <2> QED BY <1>18, <2>1 DEF RatingReply
<1>19. CASE UNCHANGED vars
  BY <1>19 DEF vars
<1> QED BY <1>1, <1>2, <1>3, <1>4, <1>5, <1>6, <1>7, <1>8, <1>9, <1>10, <1>11,
           <1>12, <1>13, <1>14, <1>15, <1>16, <1>17, <1>18, <1>19
        DEF Next, User, NetworkQueue

(* Every variable keeps its type in every reachable state.                 *)
THEOREM TypeCorrect == Spec => []TypeOK
  BY TypeInit, TypeStep, PTL DEF Spec

LEMMA TypeInvariant == Spec => [](TypeOK /\ ProfileType)
  BY TypeInit, TypeStep, PTL DEF Spec

-----------------------------------------------------------------------------
(* Calling the slot queues one block for its owner, or does nothing; only  *)
(* NoUser, on the newest view, raises the alert.                           *)

LEMMA CallSlotEffect ==
  ASSUME TypeOK, NEW user \in Members \cup {NoUser}, NEW lookup \in Session,
         CallSlot(user, lookup)
  PROVE  /\ \/ mainQueue' = mainQueue
            \/ \E b \in Block :
                 /\ b.view = owner /\ b.subject.user = user /\ b.subject.lookup = lookup
                 /\ mainQueue' = Append(mainQueue, b)
         /\ \/ screen' = screen
            \/ /\ user = NoUser /\ owner = session /\ owner # NoView
               /\ screen = "vote" /\ screen' = "alert"
<1>1. CASE owner = NoView
  BY <1>1 DEF CallSlot
<1>2. CASE owner # NoView
  <2> DEFINE b == [view |-> owner, subject |-> [user |-> user, lookup |-> lookup]]
  <2>1. b \in Block /\ b.view = owner /\ b.subject.user = user /\ b.subject.lookup = lookup
    BY <1>2 DEF TypeOK, Block, Subject
  <2>2. /\ mainQueue' = Append(mainQueue, b)
        /\ \/ screen' = screen
           \/ /\ user = NoUser /\ owner = session
              /\ screen = "vote" /\ screen' = "alert"
    BY <1>2 DEF CallSlot
  <2> HIDE DEF b
  <2> QED BY <1>2, <2>1, <2>2
<1> QED BY <1>1, <1>2

-----------------------------------------------------------------------------
(***************************************************************************)
(* Grades.  A view can only be on top when the views before it in the      *)
(* session have written their slots, the second one excepted; and the      *)
(* newest session has sent nothing until it is home again.                 *)
(***************************************************************************)
GradesInv ==
  /\ (screen = "vote" /\ progress = "all") => grades["discipline"] = session
  /\ screen \in {"second", "third", "fourth"} => grades["discipline"] = session
  /\ screen = "fourth" => grades["efficiency"] = session
  /\ (screen = "fourth" /\ progress = "all") => grades["loyalty"] = session
  /\ \A r \in ratings : r.session <= session /\ (r.session = session => screen = "home")
  /\ GradesOfThisSession

LEMMA GradesStep == TypeOK /\ ProfileType /\ GradesInv /\ [Next]_vars => GradesInv'
<1> SUFFICES ASSUME TypeOK, ProfileType, GradesInv, [Next]_vars PROVE GradesInv'
  OBVIOUS
<1> USE DEF GradesInv, GradesOfThisSession, Slots, viewVars, slotVars, netVars, histVars
<1>t. session \in Nat /\ \A r \in ratings : r.session \in Nat
  BY MaxSessionsAssumption DEF TypeOK, Rating, Session
<1>g. \A s \in Slots : s \in DOMAIN grades
  BY DEF TypeOK
<1>1. ASSUME NEW e \in Events \cup {NoEvent}, SelectEvent(e)
      PROVE  GradesInv'
  BY <1>1, <1>t DEF SelectEvent
<1>2. CASE EndFirstQuiz
  BY <1>2, <1>t, <1>g DEF EndFirstQuiz, Finish
<1>3. CASE SaveFirst
  BY <1>3 DEF SaveFirst
<1>4. CASE AnswerSecondQuiz
  BY <1>4 DEF AnswerSecondQuiz
<1>5. CASE EndSecondQuiz
  BY <1>5, <1>t, <1>g DEF EndSecondQuiz, Finish
<1>6. CASE SaveSecond
  BY <1>6 DEF SaveSecond
<1>7. CASE SaveThird
  BY <1>7, <1>t, <1>g DEF SaveThird
<1>8. CASE EndLoyaltyQuiz
  BY <1>8, <1>t, <1>g DEF EndLoyaltyQuiz, Finish
<1>9. CASE SaveFourth
  BY <1>9, <1>t DEF SaveFourth
<1>10. CASE DismissAlert
  BY <1>10 DEF DismissAlert
<1>11. CASE VoteViewDidLoad
  BY <1>11 DEF VoteViewDidLoad
<1>12. CASE RunBlock
  BY <1>12 DEF RunBlock
<1>13. ASSUME NEW l \in unanswered, NEW u \in Members, UnansweredNamed(l, u)
      PROVE  GradesInv'
  BY <1>13 DEF UnansweredNamed
<1>14. ASSUME NEW l \in unanswered, UnansweredEmpty(l)
      PROVE  GradesInv'
  <2>1. screen' = screen \/ (screen = "vote" /\ screen' = "alert")
    BY <1>14, CallSlotEffect DEF UnansweredEmpty, TypeOK, Lookup, ProfileType
  <2> QED BY <1>14, <2>1 DEF UnansweredEmpty
<1>15. ASSUME NEW l \in unanswered, UnansweredFailure(l)
      PROVE  GradesInv'
  BY <1>15 DEF UnansweredFailure
<1>16. ASSUME NEW l \in profiles, ProfileReply(l)
      PROVE  GradesInv'
  <2>1. screen' = screen \/ (screen = "vote" /\ screen' = "alert")
    BY <1>16, CallSlotEffect DEF ProfileReply, TypeOK, Lookup, ProfileType
  <2> QED BY <1>16, <2>1 DEF ProfileReply
<1>17. ASSUME NEW l \in profiles, ProfileFailure(l)
      PROVE  GradesInv'
  BY <1>17 DEF ProfileFailure
<1>18. ASSUME NEW r \in puts, RatingReply(r)
      PROVE  GradesInv'
  BY <1>18 DEF RatingReply
<1>19. CASE UNCHANGED vars
  BY <1>19 DEF vars
<1> QED BY <1>1, <1>2, <1>3, <1>4, <1>5, <1>6, <1>7, <1>8, <1>9, <1>10, <1>11,
           <1>12, <1>13, <1>14, <1>15, <1>16, <1>17, <1>18, <1>19
        DEF Next, User, NetworkQueue

LEMMA GradesInvariant == Spec => [](TypeOK /\ ProfileType /\ GradesInv)
<1>1. Init => GradesInv
  BY DEF Init, GradesInv, GradesOfThisSession
<1> QED BY <1>1, TypeInvariant, GradesStep, PTL DEF Spec

(* All grades but professionalism were given in the session that sends     *)
(* them.                                                                   *)
THEOREM GradesOfThisSessionHolds == Spec => []GradesOfThisSession
<1>1. GradesInv => GradesOfThisSession
  BY DEF GradesInv
<1> QED BY <1>1, GradesInvariant, PTL

-----------------------------------------------------------------------------
(***************************************************************************)
(* Lookups.  One lookup is in one place: in flight, in a queued block, in  *)
(* the subject of the newest view, in the views after it, or in a rating;  *)
(* only the two last may share it, and then within one session.            *)
(***************************************************************************)
InFlight == unanswered \cup profiles

Later == {"second", "third", "fourth"}

FlightInv ==
  /\ \A l \in InFlight : l.session <= session /\ (l.session = session => l.event = event)
  /\ \A l, m \in InFlight : l.session = m.session => l = m
  /\ unanswered \cap profiles = {}

QueueInv ==
  /\ \A i \in 1..Len(mainQueue) :
       /\ mainQueue[i].subject.lookup <= session
       /\ \A l \in InFlight : l.session # mainQueue[i].subject.lookup
       /\ mainQueue[i].view <= session
       /\ mainQueue[i].view = session => owner = session
  /\ \A i, j \in 1..Len(mainQueue) :
       mainQueue[i].subject.lookup = mainQueue[j].subject.lookup => i = j

Unused(lookup) ==
  /\ lookup <= session
  /\ \A l \in InFlight : l.session # lookup
  /\ \A i \in 1..Len(mainQueue) : mainQueue[i].subject.lookup # lookup

UsedInv ==
  /\ Unused(subject.lookup)
  /\ screen \in Later => /\ Unused(carried.lookup)
                         /\ \A r \in ratings : r.subject.lookup # carried.lookup
  /\ \A r \in ratings :
       /\ Unused(r.subject.lookup)
       /\ r.subject.lookup = subject.lookup => r.session = session

OwnerInv ==
  /\ owner <= session
  /\ screen = "loading" => owner # session /\ subject = NoSubject

LookupInv == FlightInv /\ QueueInv /\ UsedInv /\ OwnerInv /\ OneRatingPerLookup

AllInv == TypeOK /\ ProfileType /\ GradesInv /\ LookupInv

(* What the arithmetic below needs of the types.                           *)
LEMMA LookupTypes ==
  ASSUME TypeOK
  PROVE  /\ session \in Nat /\ owner \in Nat /\ Len(mainQueue) \in Nat
         /\ subject.lookup \in Nat /\ carried.lookup \in Nat
         /\ \A l \in InFlight : l.session \in Nat \ {0}
         /\ \A r \in ratings : r.session \in Nat \ {0} /\ r.subject.lookup \in Nat \ {0}
         /\ \A i \in 1..Len(mainQueue) :
              /\ mainQueue[i].view \in Nat \ {0}
              /\ mainQueue[i].subject \in Subject
              /\ mainQueue[i].subject.lookup \in Nat \ {0}
<1> USE MaxSessionsAssumption DEF Session
<1>1. session \in Nat /\ owner \in Nat
  BY DEF TypeOK, NoView
<1>2. subject.lookup \in Nat /\ carried.lookup \in Nat
  BY DEF TypeOK, Subject, NoSubject
<1>3. \A l \in InFlight : l.session \in Nat \ {0}
  BY DEF TypeOK, InFlight, Lookup
<1>4. \A r \in ratings : r.session \in Nat \ {0} /\ r.subject.lookup \in Nat \ {0}
  BY DEF TypeOK, Rating, Subject
<1>5. Len(mainQueue) \in Nat /\ \A i \in 1..Len(mainQueue) : mainQueue[i] \in Block
  BY DEF TypeOK
<1>6. \A b \in Block : b.view \in Nat \ {0} /\ b.subject \in Subject /\ b.subject.lookup \in Nat \ {0}
  BY DEF Block, Subject
<1> QED BY <1>1, <1>2, <1>3, <1>4, <1>5, <1>6

(* A step of the views alone.                                              *)
LEMMA LookupFrame ==
  ASSUME AllInv,
         InFlight' \subseteq InFlight, unanswered' \cap profiles' = {},
         UNCHANGED <<mainQueue, session, event, subject, carried, owner, ratings>>,
         screen' \in Later => screen \in Later, screen' = "loading" => screen = "loading"
  PROVE  LookupInv'
<1>1. FlightInv'
  BY DEF AllInv, LookupInv, FlightInv, InFlight
<1>2. QueueInv'
  BY DEF AllInv, LookupInv, QueueInv
<1>3. UsedInv'
  BY DEF AllInv, LookupInv, UsedInv, Unused
<1>4. OwnerInv' /\ OneRatingPerLookup'
  BY DEF AllInv, LookupInv, OwnerInv, OneRatingPerLookup
<1> QED BY <1>1, <1>2, <1>3, <1>4 DEF LookupInv

(* A reply that calls the slot moves its lookup into a queued block.       *)
LEMMA LookupCall ==
  ASSUME AllInv, NEW l \in InFlight,
         InFlight' = InFlight \ {l}, unanswered' \cap profiles' = {},
         NEW user \in Members \cup {NoUser}, CallSlot(user, l.session),
         UNCHANGED <<session, event, subject, carried, owner, ratings>>
  PROVE  LookupInv'
<1>0. TypeOK /\ l.session \in Session
  BY DEF AllInv, TypeOK, InFlight, Lookup
<1>1. screen' = screen \/ screen' = "alert"
  BY <1>0, CallSlotEffect
<1>2. CASE mainQueue' = mainQueue
  BY <1>1, <1>2, LookupFrame DEF Later
<1>3. CASE \E b \in Block : /\ b.view = owner /\ b.subject.lookup = l.session
                           /\ mainQueue' = Append(mainQueue, b)
  <2>1. PICK b \in Block : /\ b.view = owner /\ b.subject.lookup = l.session
                          /\ mainQueue' = Append(mainQueue, b)
    BY <1>3
  <2>2. /\ Len(mainQueue') = Len(mainQueue) + 1 /\ Len(mainQueue) \in Nat
        /\ \A j \in 1..Len(mainQueue) : mainQueue'[j] = mainQueue[j]
        /\ mainQueue'[Len(mainQueue) + 1] = b
        /\ \A j \in 1..Len(mainQueue') : j \in 1..Len(mainQueue) \/ j = Len(mainQueue) + 1
    BY <1>0, <2>1, QueueAppend DEF TypeOK
  <2>3. \A m \in InFlight' : m \in InFlight /\ m.session # l.session
    BY DEF AllInv, LookupInv, FlightInv
  <2>4. FlightInv'
    BY <2>3 DEF AllInv, LookupInv, FlightInv
  <2>5. QueueInv'
    <3>1. ASSUME NEW j \in 1..Len(mainQueue')
          PROVE  /\ mainQueue'[j].subject.lookup <= session
                 /\ \A m \in InFlight' : m.session # mainQueue'[j].subject.lookup
                 /\ mainQueue'[j].view <= session
                 /\ mainQueue'[j].view = session => owner = session
      <4>1. CASE j \in 1..Len(mainQueue)
        BY <2>2, <2>3, <4>1 DEF AllInv, LookupInv, QueueInv
      <4>2. CASE j = Len(mainQueue) + 1
        BY <2>1, <2>2, <2>3, <4>2 DEF AllInv, LookupInv, FlightInv, OwnerInv
      <4> QED BY <2>2, <4>1, <4>2
    <3>2. ASSUME NEW i \in 1..Len(mainQueue'), NEW j \in 1..Len(mainQueue'),
                 mainQueue'[i].subject.lookup = mainQueue'[j].subject.lookup
          PROVE  i = j
      <4>1. \A k \in 1..Len(mainQueue) : mainQueue[k].subject.lookup # l.session
        BY DEF AllInv, LookupInv, QueueInv
      <4>2. CASE i \in 1..Len(mainQueue) /\ j \in 1..Len(mainQueue)
        BY <2>2, <3>2, <4>2 DEF AllInv, LookupInv, QueueInv
      <4>3. CASE i = Len(mainQueue) + 1 /\ j = Len(mainQueue) + 1
        BY <4>3
      <4>4. CASE i = Len(mainQueue) + 1 /\ j \in 1..Len(mainQueue)
        BY <2>1, <2>2, <3>2, <4>1, <4>4
      <4>5. CASE i \in 1..Len(mainQueue) /\ j = Len(mainQueue) + 1
        BY <2>1, <2>2, <3>2, <4>1, <4>5
      <4> QED BY <2>2, <4>2, <4>3, <4>4, <4>5
    <3> QED BY <3>1, <3>2 DEF QueueInv
  <2>6. ASSUME NEW k, Unused(k) PROVE Unused(k)'
    BY <2>1, <2>2, <2>3, <2>6 DEF Unused
  <2>7. UsedInv'
    BY <1>1, <2>6 DEF AllInv, LookupInv, UsedInv, Later
  <2>8. OwnerInv' /\ OneRatingPerLookup'
    BY <1>1 DEF AllInv, LookupInv, OwnerInv, OneRatingPerLookup
  <2> QED BY <2>4, <2>5, <2>7, <2>8 DEF LookupInv
<1> QED BY <1>0, <1>2, <1>3, CallSlotEffect

LEMMA LookupStep == AllInv /\ [Next]_vars => LookupInv'
<1> SUFFICES ASSUME AllInv, [Next]_vars PROVE LookupInv'
  OBVIOUS
<1> USE DEF viewVars, slotVars, netVars, histVars
<1>d. unanswered \cap profiles = {} /\ TypeOK
  BY DEF AllInv, LookupInv, FlightInv
<1>1. ASSUME NEW e \in Events \cup {NoEvent}, SelectEvent(e)
      PROVE  LookupInv'
  <2>1. session' = session + 1 /\ session \in Nat /\ event' = e /\ subject' = NoSubject
        /\ screen' = "loading" /\ UNCHANGED <<mainQueue, owner, carried, ratings, profiles>>
    BY <1>1, <1>d, LookupTypes DEF SelectEvent
  <2>2. ASSUME NEW m \in InFlight'
        PROVE  m \in InFlight \/ (m.session = session' /\ m.event = event' /\ m.user = NoUser /\ m \in unanswered')
    BY <1>1, <2>1, <2>2 DEF SelectEvent, InFlight
  <2>3. \A m, n \in InFlight' : (m \notin InFlight /\ n \notin InFlight) => m = n
    BY <1>1 DEF SelectEvent, InFlight
  <2>4. \A m \in InFlight : m.session \in Nat /\ m.session <= session
    BY <1>d, LookupTypes DEF AllInv, LookupInv, FlightInv
  <2>5. \A m \in InFlight' : m \in InFlight \/ m.session = session + 1
    BY <2>1, <2>2
  <2>6. FlightInv'
    <3>1. \A m \in InFlight' : m.session <= session' /\ (m.session = session' => m.event = event')
      BY <2>1, <2>2, <2>4
    <3>2. \A m, n \in InFlight' : m.session = n.session => m = n
      BY <2>1, <2>3, <2>4, <2>5 DEF AllInv, LookupInv, FlightInv
    <3>3. unanswered' \cap profiles' = {}
      <4>1. \A m \in unanswered' : m \in unanswered \/ m.session = session + 1
        BY <1>1, <2>1 DEF SelectEvent
      <4>2. \A m \in profiles' : m \in profiles /\ m.session # session + 1
        BY <2>1, <2>4 DEF InFlight
      <4> QED BY <1>d, <4>1, <4>2
    <3> QED BY <3>1, <3>2, <3>3 DEF FlightInv
  <2>7. ASSUME NEW k \in Nat, k <= session, Unused(k) PROVE Unused(k)'
    BY <2>1, <2>5, <2>7 DEF Unused
  <2>8. QueueInv'
    BY <1>d, <2>1, <2>5, LookupTypes DEF AllInv, LookupInv, QueueInv, OwnerInv
  <2>9. UsedInv'
    <3>1. Unused(0)'
      BY <1>d, <2>1, <2>4, <2>5, LookupTypes DEF Unused, InFlight
    <3>2. \A r \in ratings : r.subject.lookup \in Nat \ {0} /\ Unused(r.subject.lookup)
                           /\ r.subject.lookup <= session
      BY <1>d, LookupTypes DEF AllInv, LookupInv, UsedInv, Unused
    <3> QED BY <2>1, <2>7, <3>1, <3>2 DEF UsedInv, NoSubject, Later
  <2>10. OwnerInv' /\ OneRatingPerLookup'
    BY <1>d, <2>1, LookupTypes DEF AllInv, LookupInv, OwnerInv, OneRatingPerLookup
  <2> QED BY <2>6, <2>8, <2>9, <2>10 DEF LookupInv
<1>2. CASE EndFirstQuiz
  BY <1>2, <1>d, LookupFrame DEF EndFirstQuiz, Finish, InFlight, Later
<1>3. CASE SaveFirst
  <2>1. /\ carried' = subject /\ screen = "vote" /\ screen' = "second"
        /\ UNCHANGED <<unanswered, profiles, mainQueue, session, event, subject, owner, ratings>>
    BY <1>3 DEF SaveFirst
  <2>2. FlightInv' /\ QueueInv' /\ OwnerInv' /\ OneRatingPerLookup'
    BY <2>1 DEF AllInv, LookupInv, FlightInv, QueueInv, OwnerInv, OneRatingPerLookup, InFlight
  <2>3. \A k : Unused(k) => Unused(k)'
    BY <2>1 DEF Unused, InFlight
  <2>4. \A r \in ratings : r.subject.lookup # subject.lookup
    BY <2>1 DEF AllInv, LookupInv, UsedInv, GradesInv
  <2>5. UsedInv'
    BY <2>1, <2>3, <2>4 DEF AllInv, LookupInv, UsedInv
  <2> QED BY <2>2, <2>5 DEF LookupInv
<1>4. CASE AnswerSecondQuiz
  BY <1>4, <1>d, LookupFrame DEF AnswerSecondQuiz, InFlight, Later
<1>5. CASE EndSecondQuiz
  BY <1>5, <1>d, LookupFrame DEF EndSecondQuiz, Finish, InFlight, Later
<1>6. CASE SaveSecond
  BY <1>6, <1>d, LookupFrame DEF SaveSecond, InFlight, Later
<1>7. CASE SaveThird
  BY <1>7, <1>d, LookupFrame DEF SaveThird, InFlight, Later
<1>8. CASE EndLoyaltyQuiz
  BY <1>8, <1>d, LookupFrame DEF EndLoyaltyQuiz, Finish, InFlight, Later
<1>9. CASE SaveFourth
  <2>1. /\ screen = "fourth" /\ screen' = "home"
        /\ UNCHANGED <<unanswered, profiles, mainQueue, session, event, subject, carried, owner>>
    BY <1>9 DEF SaveFourth
  <2>2. CASE ratings' = ratings
    BY <1>d, <2>1, <2>2, LookupFrame DEF InFlight, Later
  <2>3. CASE ratings' # ratings
    <3>1. PICK q : q.session = session /\ q.subject = carried /\ ratings' = ratings \cup {q}
      BY <1>9, <2>3 DEF SaveFourth
    <3>2. FlightInv' /\ QueueInv' /\ OwnerInv'
      BY <2>1 DEF AllInv, LookupInv, FlightInv, QueueInv, OwnerInv, InFlight
    <3>3. \A k : Unused(k) => Unused(k)'
      BY <2>1 DEF Unused, InFlight
    <3>4. \A r \in ratings : r.session # session /\ r.subject.lookup # carried.lookup
      BY <2>1 DEF AllInv, LookupInv, UsedInv, GradesInv, Later
    <3>5. OneRatingPerLookup'
      BY <3>1, <3>4 DEF AllInv, LookupInv, OneRatingPerLookup
    <3>6. Unused(carried.lookup)
      BY <2>1 DEF AllInv, LookupInv, UsedInv, Later
    <3>7. UsedInv'
      BY <2>1, <3>1, <3>3, <3>6 DEF AllInv, LookupInv, UsedInv, Later
    <3> QED BY <3>2, <3>5, <3>7 DEF LookupInv
  <2> QED BY <2>2, <2>3
<1>10. CASE DismissAlert
  BY <1>10, <1>d, LookupFrame DEF DismissAlert, InFlight, Later
<1>11. CASE VoteViewDidLoad
  <2>1. /\ owner' = session /\ screen' = "vote"
        /\ UNCHANGED <<unanswered, profiles, mainQueue, session, event, subject, carried, ratings>>
    BY <1>11 DEF VoteViewDidLoad
  <2>2. FlightInv' /\ QueueInv' /\ OneRatingPerLookup'
    BY <2>1 DEF AllInv, LookupInv, FlightInv, QueueInv, OneRatingPerLookup, InFlight
  <2>3. UsedInv'
    BY <2>1 DEF AllInv, LookupInv, UsedInv, Unused, InFlight, Later
  <2>4. OwnerInv'
    BY <1>d, <2>1, LookupTypes DEF OwnerInv
  <2> QED BY <2>2, <2>3, <2>4 DEF LookupInv
<1>12. CASE RunBlock
  <2>1. /\ Len(mainQueue') = Len(mainQueue) - 1 /\ Len(mainQueue) \in Nat \ {0}
        /\ \A j \in 1..Len(mainQueue') :
              mainQueue'[j] = mainQueue[j + 1] /\ j + 1 \in 1..Len(mainQueue) /\ j + 1 # 1
        /\ Head(mainQueue) = mainQueue[1]
    <3>1. mainQueue # <<>> /\ mainQueue' = Tail(mainQueue) /\ mainQueue \in Seq(Block)
      BY <1>12, <1>d DEF RunBlock, TypeOK
    <3>2. /\ Len(mainQueue') = Len(mainQueue) - 1 /\ Len(mainQueue) \in Nat \ {0}
          /\ \A j \in 1..(Len(mainQueue) - 1) : mainQueue'[j] = mainQueue[j + 1]
          /\ Head(mainQueue) = mainQueue[1]
      BY <3>1, QueueTail
    <3>3. \A j \in 1..(Len(mainQueue) - 1) : j + 1 \in 1..Len(mainQueue) /\ j + 1 # 1
      BY <3>2
    <3> QED BY <3>2, <3>3
  <2>2. UNCHANGED <<unanswered, profiles, session, event, carried, owner, ratings, screen>>
    BY <1>12 DEF RunBlock
  <2>3. FlightInv' /\ OneRatingPerLookup'
    BY <2>2 DEF AllInv, LookupInv, FlightInv, OneRatingPerLookup, InFlight
  <2>4. QueueInv'
    <3>1. QueueInv /\ InFlight' = InFlight /\ session' = session /\ owner' = owner
      BY <2>2 DEF AllInv, LookupInv, InFlight
    <3>2. \A j \in 1..Len(mainQueue') :
            /\ mainQueue'[j].subject.lookup <= session'
            /\ \A l \in InFlight' : l.session # mainQueue'[j].subject.lookup
            /\ mainQueue'[j].view <= session'
            /\ mainQueue'[j].view = session' => owner' = session'
      BY <2>1, <3>1 DEF QueueInv
    <3>3. \A i, j \in 1..Len(mainQueue') : i + 1 = j + 1 => i = j
      OBVIOUS
    <3>4. ASSUME NEW i \in 1..Len(mainQueue'), NEW j \in 1..Len(mainQueue'),
                 mainQueue'[i].subject.lookup = mainQueue'[j].subject.lookup
          PROVE  i = j
      <4>1. i + 1 = j + 1
        BY <2>1, <3>1, <3>4 DEF QueueInv
      <4> QED BY <3>3, <4>1
    <3> QED BY <3>2, <3>4 DEF QueueInv
  <2>5. \A k : Unused(k) => Unused(k)'
    BY <2>1, <2>2 DEF Unused, InFlight
  <2>6. CASE mainQueue[1].view # session
    <3>1. subject' = subject
      BY <1>12, <2>1, <2>6 DEF RunBlock
    <3> QED BY <2>2, <2>3, <2>4, <2>5, <3>1 DEF AllInv, LookupInv, UsedInv, OwnerInv
  <2>7. CASE mainQueue[1].view = session
    <3>1. subject' = mainQueue[1].subject /\ 1 \in 1..Len(mainQueue)
      BY <1>12, <2>1, <2>7 DEF RunBlock
    <3>2. Unused(subject.lookup)'
      BY <2>1, <2>2, <3>1 DEF AllInv, LookupInv, QueueInv, Unused, InFlight
    <3>3. \A r \in ratings : r.subject.lookup # subject'.lookup
      BY <3>1 DEF AllInv, LookupInv, UsedInv, Unused
    <3>4. UsedInv'
      BY <2>2, <2>5, <3>2, <3>3 DEF AllInv, LookupInv, UsedInv
    <3>5. OwnerInv'
      BY <2>2, <2>7, <3>1 DEF AllInv, LookupInv, OwnerInv, QueueInv
    <3> QED BY <2>3, <2>4, <3>4, <3>5 DEF LookupInv
  <2> QED BY <2>6, <2>7
<1>13. ASSUME NEW l \in unanswered, NEW u \in Members, UnansweredNamed(l, u)
      PROVE  LookupInv'
  <2> DEFINE m == [l EXCEPT !.user = u]
  <2>1. /\ unanswered' = unanswered \ {l} /\ profiles' = profiles \cup {m}
        /\ UNCHANGED <<mainQueue, session, event, subject, carried, owner, ratings, screen>>
    BY <1>13 DEF UnansweredNamed
  <2>2. m.session = l.session /\ m.event = l.event /\ l \in InFlight /\ l \notin profiles
    BY <1>d DEF InFlight, TypeOK, Lookup
  <2>3. \A k \in InFlight' : \E n \in InFlight : n.session = k.session /\ n.event = k.event
    BY <2>1, <2>2 DEF InFlight
  <2>4. FlightInv'
    <3>1. \A k \in InFlight' : k.session <= session' /\ (k.session = session' => k.event = event')
      BY <2>1, <2>3 DEF AllInv, LookupInv, FlightInv
    <3>2. \A k \in InFlight' : k = m \/ (k \in InFlight /\ k # l)
      BY <2>1, <2>2 DEF InFlight
    <3>3. \A k, n \in InFlight' : k.session = n.session => k = n
      BY <2>2, <3>2 DEF AllInv, LookupInv, FlightInv
    <3>4. m \notin unanswered'
      BY <2>1, <2>2 DEF AllInv, LookupInv, FlightInv, InFlight
    <3>5. unanswered' \cap profiles' = {}
      BY <1>d, <2>1, <3>4
    <3> QED BY <3>1, <3>3, <3>5 DEF FlightInv
  <2>5. QueueInv' /\ UsedInv'
    BY <2>1, <2>3 DEF AllInv, LookupInv, QueueInv, UsedInv, Unused
  <2>6. OwnerInv' /\ OneRatingPerLookup'
    BY <2>1 DEF AllInv, LookupInv, OwnerInv, OneRatingPerLookup
  <2> QED BY <2>4, <2>5, <2>6 DEF LookupInv
<1>14. ASSUME NEW l \in unanswered, UnansweredEmpty(l)
      PROVE  LookupInv'
  <2>1. InFlight' = InFlight \ {l} /\ l \in InFlight /\ unanswered' \cap profiles' = {}
    BY <1>14, <1>d DEF UnansweredEmpty, InFlight
  <2> QED BY <1>14, <2>1, LookupCall DEF UnansweredEmpty
<1>15. ASSUME NEW l \in unanswered, UnansweredFailure(l)
      PROVE  LookupInv'
  BY <1>15, <1>d, LookupFrame DEF UnansweredFailure, InFlight, Later
<1>16. ASSUME NEW l \in profiles, ProfileReply(l)
      PROVE  LookupInv'
  <2>1. InFlight' = InFlight \ {l} /\ l \in InFlight /\ unanswered' \cap profiles' = {}
    BY <1>16, <1>d DEF ProfileReply, InFlight
  <2>2. l.user \in Members
    BY DEF AllInv, ProfileType
  <2> QED BY <1>16, <2>1, <2>2, LookupCall DEF ProfileReply
<1>17. ASSUME NEW l \in profiles, ProfileFailure(l)
      PROVE  LookupInv'
  BY <1>17, <1>d, LookupFrame DEF ProfileFailure, InFlight, Later
<1>18. ASSUME NEW r \in puts, RatingReply(r)
      PROVE  LookupInv'
  BY <1>18, <1>d, LookupFrame DEF RatingReply, InFlight, Later
<1>19. CASE UNCHANGED vars
  BY <1>19, <1>d, LookupFrame DEF vars, InFlight, Later
<1> QED BY <1>1, <1>2, <1>3, <1>4, <1>5, <1>6, <1>7, <1>8, <1>9, <1>10, <1>11,
           <1>12, <1>13, <1>14, <1>15, <1>16, <1>17, <1>18, <1>19
        DEF Next, User, NetworkQueue

LEMMA AllInvariant == Spec => []AllInv
<1>1. Init => LookupInv
  BY MaxSessionsAssumption DEF Init, LookupInv, FlightInv, QueueInv, UsedInv, OwnerInv, Unused,
     InFlight, Later, OneRatingPerLookup, NoSubject, NoView
<1>2. AllInv <=> TypeOK /\ ProfileType /\ GradesInv /\ LookupInv
  BY DEF AllInv
<1> QED BY <1>1, <1>2, GradesInvariant, LookupStep, PTL DEF Spec

(* A session sends at most one rating, and a lookup gives its user to at   *)
(* most one.                                                               *)
THEOREM OneRatingPerLookupHolds == Spec => []OneRatingPerLookup
<1>1. AllInv => OneRatingPerLookup
  BY DEF AllInv, LookupInv
<1> QED BY <1>1, AllInvariant, PTL

-----------------------------------------------------------------------------
(***************************************************************************)
(* A rating is built of the steps VoteStep promises.                       *)
(***************************************************************************)
shown    == IF InView THEN screen ELSE "none"
answered == IF InView THEN progress ELSE "none"
written  == [v \in VoteViews |-> grades[SlotOf[v]]]

LEMMA SlotOfViews ==
  /\ SlotOf["vote"] = "discipline" /\ SlotOf["second"] = "professionalism"
  /\ SlotOf["third"] = "efficiency" /\ SlotOf["fourth"] = "loyalty"
  BY DEF SlotOf, VoteViews

LEMMA GradeWritten ==
  ASSUME TypeOK, NEW v \in VoteViews, grades' = [grades EXCEPT ![SlotOf[v]] = session]
  PROVE  written' = [written EXCEPT ![v] = session]
<1>1. grades \in [Slots -> Grade] /\ \A w \in VoteViews : SlotOf[w] \in Slots
  BY SlotOfViews DEF TypeOK, VoteViews, Slots
<1>2. \A w \in VoteViews : SlotOf[w] = SlotOf[v] => w = v
  BY SlotOfViews DEF VoteViews
<1>3. \A w \in VoteViews : grades'[SlotOf[w]] = IF w = v THEN session ELSE grades[SlotOf[w]]
  BY <1>1, <1>2
<1> QED BY <1>3 DEF written

(* A step that shows nothing new is a stutter.                             *)
LEMMA StepStutter ==
  ASSUME UNCHANGED <<session, progress, grades>>,
         screen' = screen \/ (~InView /\ ~InView')
  PROVE  UNCHANGED Step!vars
  BY DEF Step!vars, InView

(* Presenting the alert abandons the first view.                           *)
LEMMA StepAlert ==
  ASSUME UNCHANGED <<session, progress, grades>>,
         screen = "vote", screen' = "alert"
  PROVE  Step!Next
<1>1. Step!Abandon
  BY DEF Step!Abandon, Step!LeaveFor, Step!NoView, InView, VoteViews
<1> QED BY <1>1 DEF Step!Next

(* The last answer of a view finishes it.                                  *)
LEMMA StepFinish ==
  ASSUME TypeOK, NEW v \in VoteViews, screen = v, progress # "all", Finish(SlotOf[v])
  PROVE  Step!Next
<1>1. UNCHANGED <<screen, session>> /\ progress' = "all"
      /\ written' = [written EXCEPT ![v] = session]
  BY GradeWritten DEF Finish
<1>2. v # "none" /\ InView /\ InView'
  BY <1>1 DEF VoteViews, InView
<1>3. Step!Finish
  BY <1>1, <1>2 DEF Step!Finish, Step!NoView, written
<1> QED BY <1>3 DEF Step!Next

(* The order of the views.                                                 *)
LEMMA ViewOrder ==
  /\ ViewAfter["vote"] = "second" /\ ViewAfter["second"] = "third"
  /\ ViewAfter["third"] = "fourth" /\ ViewAfter["fourth"] = "none"
  BY DEF ViewAfter, VoteViews

(* The save button leads from a finished view, or an untouched second one, *)
(* to the view after it, and from the last one to the tab bar.             *)
LEMMA StepSave ==
  ASSUME NEW v \in VoteViews,
         screen = v, progress = "all" \/ (progress = "none" /\ v = "second"),
         screen' = IF v = "fourth" THEN "home" ELSE ViewAfter[v],
         progress' = "none", UNCHANGED <<session, grades>>
  PROVE  Step!Next
<1>1. InView /\ (IF InView' THEN progress' ELSE "none") = "none"
  BY DEF InView
<1>2. CASE v = "fourth"
  <2>1. ~InView' /\ ViewAfter[v] = "none"
    BY <1>2, ViewOrder DEF InView, VoteViews
  <2>2. Step!Save
    BY <1>1, <2>1 DEF Step!Save, Step!LeaveFor
  <2> QED BY <2>2 DEF Step!Next
<1>3. CASE v # "fourth"
  <2>1. InView' /\ screen' = ViewAfter[v]
    BY <1>3, ViewOrder DEF InView, VoteViews
  <2>2. Step!Save
    BY <1>1, <2>1 DEF Step!Save, Step!LeaveFor
  <2> QED BY <2>2 DEF Step!Next
<1> QED BY <1>2, <1>3

LEMMA StepSimulation == TypeOK /\ ProfileType /\ [Next]_vars => [Step!Next]_(Step!vars)
<1> SUFFICES ASSUME TypeOK, ProfileType, [Next]_vars
             PROVE  Step!Next \/ UNCHANGED Step!vars
  OBVIOUS
<1> DEFINE Goal == Step!Next \/ UNCHANGED Step!vars
<1> USE DEF viewVars, slotVars, netVars, histVars
<1>v. /\ "vote" \in VoteViews /\ "second" \in VoteViews /\ "third" \in VoteViews
      /\ "fourth" \in VoteViews /\ "home" \notin VoteViews /\ "loading" \notin VoteViews
      /\ "alert" \notin VoteViews
  BY DEF VoteViews
<1>1. ASSUME NEW e \in Events \cup {NoEvent}, SelectEvent(e)
      PROVE  Goal
  <2>1. /\ ~InView /\ ~InView' /\ session' = session + 1 /\ grades' = grades
    BY <1>1, <1>v DEF SelectEvent, InView
  <2>2. Step!NewSession
    BY <2>1 DEF Step!NewSession, Step!NoView
  <2> QED BY <2>2 DEF Step!Next
<1>2. CASE EndFirstQuiz
  BY <1>2, <1>v, SlotOfViews, StepFinish DEF EndFirstQuiz
<1>3. CASE SaveFirst
  BY <1>3, <1>v, ViewOrder, StepSave DEF SaveFirst
<1>4. CASE AnswerSecondQuiz
  <2>1. InView /\ InView' /\ screen # "none"
    BY <1>4, <1>v DEF AnswerSecondQuiz, InView
  <2>2. Step!Answer
    BY <1>4, <2>1 DEF AnswerSecondQuiz, Step!Answer, Step!NoView
  <2> QED BY <2>2 DEF Step!Next
<1>5. CASE EndSecondQuiz
  BY <1>5, <1>v, SlotOfViews, StepFinish DEF EndSecondQuiz
<1>6. CASE SaveSecond
  BY <1>6, <1>v, ViewOrder, StepSave DEF SaveSecond, TypeOK
<1>7. CASE SaveThird
  <2>1. /\ InView /\ InView' /\ screen = "third" /\ screen' = "fourth" /\ progress' = "none"
        /\ session' = session
    BY <1>7, <1>v DEF SaveThird, InView
  <2>2. written' = [written EXCEPT !["third"] = session]
    BY <1>7, <1>v, SlotOfViews, GradeWritten DEF SaveThird
  <2>3. Step!Compute
    BY <2>1, <2>2, ViewOrder DEF Step!Compute, Step!LeaveFor, written
  <2> QED BY <1>v, <2>3 DEF Step!Next
<1>8. CASE EndLoyaltyQuiz
  BY <1>8, <1>v, SlotOfViews, StepFinish DEF EndLoyaltyQuiz
<1>9. CASE SaveFourth
  BY <1>9, <1>v, StepSave DEF SaveFourth
<1>10. CASE DismissAlert
  <2>1. ~InView /\ ~InView' /\ UNCHANGED <<session, grades>>
    BY <1>10, <1>v DEF DismissAlert, InView
  <2> QED BY <2>1 DEF Step!vars
<1>11. CASE VoteViewDidLoad
  <2>1. /\ ~InView /\ InView' /\ screen' = "vote" /\ progress' = "none"
        /\ UNCHANGED <<session, grades>>
    BY <1>11, <1>v DEF VoteViewDidLoad, InView
  <2>2. Step!Open("vote")
    BY <2>1 DEF Step!Open, Step!NoView
  <2> QED BY <1>v, <2>2 DEF Step!Next
<1>12. CASE RunBlock
  BY <1>12, StepStutter DEF RunBlock
<1>13. ASSUME NEW l \in unanswered, NEW u \in Members, UnansweredNamed(l, u)
      PROVE  Goal
  BY <1>13, StepStutter DEF UnansweredNamed
<1>14. ASSUME NEW l \in unanswered, UnansweredEmpty(l)
      PROVE  Goal
  <2>1. screen' = screen \/ (screen = "vote" /\ screen' = "alert")
    BY <1>14, CallSlotEffect DEF UnansweredEmpty, TypeOK, Lookup
  <2> QED BY <1>14, <2>1, StepStutter, StepAlert DEF UnansweredEmpty
<1>15. ASSUME NEW l \in unanswered, UnansweredFailure(l)
      PROVE  Goal
  BY <1>15, StepStutter DEF UnansweredFailure
<1>16. ASSUME NEW l \in profiles, ProfileReply(l)
      PROVE  Goal
  <2>1. screen' = screen \/ (screen = "vote" /\ screen' = "alert")
    BY <1>16, CallSlotEffect DEF ProfileReply, TypeOK, Lookup, ProfileType
  <2> QED BY <1>16, <2>1, StepStutter, StepAlert DEF ProfileReply
<1>17. ASSUME NEW l \in profiles, ProfileFailure(l)
      PROVE  Goal
  BY <1>17, StepStutter DEF ProfileFailure
<1>18. ASSUME NEW r \in puts, RatingReply(r)
      PROVE  Goal
  BY <1>18, StepStutter DEF RatingReply
<1>19. CASE UNCHANGED vars
  BY <1>19, StepStutter DEF vars
<1> QED BY <1>1, <1>2, <1>3, <1>4, <1>5, <1>6, <1>7, <1>8, <1>9, <1>10, <1>11,
           <1>12, <1>13, <1>14, <1>15, <1>16, <1>17, <1>18, <1>19
        DEF Next, User, NetworkQueue

(* Whatever the network does, a rating goes through its views step by      *)
(* step.                                                                   *)
THEOREM RatingImplementsVoteStep == Spec => ImplementsVoteStep
<1>1. Init => Step!Init
  <2> SUFFICES ASSUME Init PROVE Step!Init
    OBVIOUS
  <2>1. ~InView /\ session = 0
    BY DEF Init, InView, VoteViews
  <2>2. \A v \in VoteViews : grades[SlotOf[v]] = 0
    BY SlotOfViews DEF Init, VoteViews, Slots, NoGrade
  <2> QED BY <2>1, <2>2 DEF Step!Init, Step!NoView
<1> QED BY <1>1, StepSimulation, TypeInvariant, PTL
        DEF Spec, ImplementsVoteStep, Step!Spec

-----------------------------------------------------------------------------
(* Where the user to be rated comes from, and when the alert that nobody   *)
(* is left can be believed.                                                *)

(***************************************************************************)
(* From the moment a session's closure is in the slot, whatever reaches    *)
(* the session is a lookup that was in flight at that moment: it still is, *)
(* or it waits in a block for the session's view, or is its subject, or    *)
(* was carried on, or is in its rating.                                    *)
(***************************************************************************)
LateInv ==
  /\ owner = session => \A l \in InFlight : l.session \in pendingAt[session]
  /\ \A i \in 1..Len(mainQueue) :
       mainQueue[i].view = session => mainQueue[i].subject.lookup \in pendingAt[session]
  /\ subject # NoSubject => subject.lookup \in pendingAt[session]
  /\ (screen \in Later /\ carried # NoSubject) => carried.lookup \in pendingAt[session]
  /\ LateLookupOnly

SubjectInv == AllInv /\ LateInv /\ AlertTrueUnlessLate

(* Steps that bring no new lookup to any of these places.                  *)
LEMMA LateFrame ==
  ASSUME LateInv,
         \A l \in InFlight' : \E m \in InFlight : m.session = l.session,
         UNCHANGED <<mainQueue, session, subject, carried, owner, pendingAt, ratings>>,
         screen' \in Later => screen \in Later
  PROVE  LateInv'
<1>1. owner' = session' => \A l \in InFlight' : l.session \in pendingAt'[session']
  BY DEF LateInv
<1>2. \A i \in 1..Len(mainQueue') :
        mainQueue'[i].view = session' => mainQueue'[i].subject.lookup \in pendingAt'[session']
  BY DEF LateInv
<1>3. LateLookupOnly'
  BY DEF LateInv, LateLookupOnly
<1> QED BY <1>1, <1>2, <1>3 DEF LateInv

(* Steps that neither show the alert nor change what it is about.          *)
LEMMA AlertFrame ==
  ASSUME AlertTrueUnlessLate,
         screen' = "alert" => screen = "alert" /\ pendingAt' = pendingAt,
         UNCHANGED <<session, event>>, rated \subseteq rated'
  PROVE  AlertTrueUnlessLate'
  BY DEF AlertTrueUnlessLate, AlertIsTrue

(* A reply that calls the slot queues its lookup for the owner's view.     *)
LEMMA LateCall ==
  ASSUME AllInv, LateInv, NEW l \in InFlight, InFlight' \subseteq InFlight,
         NEW user \in Members \cup {NoUser}, CallSlot(user, l.session),
         UNCHANGED <<session, subject, carried, owner, pendingAt, ratings>>
  PROVE  LateInv'
<1>0. TypeOK /\ l.session \in Session
  BY DEF AllInv, TypeOK, InFlight, Lookup
<1>1. screen' = screen \/ screen' = "alert"
  BY <1>0, CallSlotEffect
<1>2. CASE mainQueue' = mainQueue
  BY <1>1, <1>2, LateFrame DEF Later
<1>3. CASE \E b \in Block : /\ b.view = owner /\ b.subject.lookup = l.session
                           /\ mainQueue' = Append(mainQueue, b)
  <2>1. PICK b \in Block : /\ b.view = owner /\ b.subject.lookup = l.session
                          /\ mainQueue' = Append(mainQueue, b)
    BY <1>3
  <2>2. /\ Len(mainQueue') = Len(mainQueue) + 1 /\ Len(mainQueue) \in Nat
        /\ \A j \in 1..Len(mainQueue) : mainQueue'[j] = mainQueue[j]
        /\ mainQueue'[Len(mainQueue) + 1] = b
        /\ \A j \in 1..Len(mainQueue') : j \in 1..Len(mainQueue) \/ j = Len(mainQueue) + 1
    BY <1>0, <2>1, QueueAppend DEF TypeOK
  <2>3. ASSUME NEW j \in 1..Len(mainQueue'), mainQueue'[j].view = session
        PROVE  mainQueue'[j].subject.lookup \in pendingAt[session]
    <3>1. CASE j \in 1..Len(mainQueue)
      BY <2>2, <2>3, <3>1 DEF LateInv
    <3>2. CASE j = Len(mainQueue) + 1
      <4>1. mainQueue'[j] = b /\ owner = session
        BY <2>1, <2>2, <2>3, <3>2
      <4>2. b.subject.lookup = l.session /\ l.session \in pendingAt[session]
        BY <2>1, <4>1 DEF LateInv
      <4> QED BY <4>1, <4>2
    <3> QED BY <2>2, <3>1, <3>2
  <2>4. owner = session => \A m \in InFlight' : m.session \in pendingAt[session]
    BY DEF LateInv
  <2>5. (screen' \in Later /\ carried # NoSubject) => carried.lookup \in pendingAt[session]
    BY <1>1 DEF LateInv, Later
  <2>6. LateLookupOnly'
    BY DEF LateInv, LateLookupOnly
  <2> QED BY <2>3, <2>4, <2>5, <2>6 DEF LateInv
<1>4. \/ mainQueue' = mainQueue
      \/ \E b \in Block : /\ b.view = owner /\ b.subject.lookup = l.session
                         /\ mainQueue' = Append(mainQueue, b)
  <2>1. PICK lookup \in Session : lookup = l.session
    BY <1>0
  <2>2. CallSlot(user, lookup)
    BY <2>1
  <2> QED BY <1>0, <2>1, <2>2, CallSlotEffect
<1> QED BY <1>2, <1>3, <1>4

LEMMA SubjectStep == SubjectInv /\ [Next]_vars => LateInv' /\ AlertTrueUnlessLate'
<1> SUFFICES ASSUME SubjectInv, [Next]_vars PROVE LateInv' /\ AlertTrueUnlessLate'
  OBVIOUS
<1> DEFINE Goal == LateInv' /\ AlertTrueUnlessLate'
<1> USE DEF viewVars, slotVars, netVars, histVars
<1>d. TypeOK /\ AllInv /\ LateInv /\ AlertTrueUnlessLate
  BY DEF SubjectInv, AllInv
<1>l. "home" \notin Later /\ "loading" \notin Later /\ "vote" \notin Later /\ "alert" \notin Later
  BY DEF Later
<1>1. ASSUME NEW e \in Events \cup {NoEvent}, SelectEvent(e)
      PROVE  Goal
  <2>1. /\ session' = session + 1 /\ session \in Nat /\ subject' = NoSubject
        /\ screen' = "loading" /\ UNCHANGED <<mainQueue, owner, ratings, pendingAt>>
    BY <1>1, <1>d, LookupTypes DEF SelectEvent
  <2>2. owner \in Nat /\ owner <= session
    BY <1>d, LookupTypes DEF AllInv, LookupInv, OwnerInv
  <2>3. \A i \in 1..Len(mainQueue) : mainQueue[i].view \in Nat /\ mainQueue[i].view <= session
    BY <1>d, LookupTypes DEF AllInv, LookupInv, QueueInv
  <2>4. owner' # session' /\ \A i \in 1..Len(mainQueue') : mainQueue'[i].view # session'
    BY <2>1, <2>2, <2>3
  <2>5. LateLookupOnly'
    BY <1>d, <2>1 DEF LateInv, LateLookupOnly
  <2>6. LateInv'
    BY <1>l, <2>1, <2>4, <2>5 DEF LateInv
  <2>7. AlertTrueUnlessLate'
    BY <2>1 DEF AlertTrueUnlessLate
  <2> QED BY <2>6, <2>7
<1>2. CASE EndFirstQuiz
  BY <1>2, <1>d, LateFrame, AlertFrame DEF EndFirstQuiz, Finish, InFlight
<1>3. CASE SaveFirst
  <2>1. /\ carried' = subject /\ screen' = "second"
        /\ UNCHANGED <<unanswered, profiles, mainQueue, session, subject, owner, pendingAt, ratings>>
    BY <1>3 DEF SaveFirst
  <2>2. LateInv'
    BY <1>d, <2>1 DEF LateInv, LateLookupOnly, InFlight
  <2>3. AlertTrueUnlessLate'
    BY <2>1 DEF AlertTrueUnlessLate
  <2> QED BY <2>2, <2>3
<1>4. CASE AnswerSecondQuiz
  BY <1>4, <1>d, LateFrame, AlertFrame DEF AnswerSecondQuiz, InFlight
<1>5. CASE EndSecondQuiz
  BY <1>5, <1>d, LateFrame, AlertFrame DEF EndSecondQuiz, Finish, InFlight
<1>6. CASE SaveSecond
  BY <1>6, <1>d, LateFrame, AlertFrame DEF SaveSecond, InFlight, Later
<1>7. CASE SaveThird
  BY <1>7, <1>d, LateFrame, AlertFrame DEF SaveThird, InFlight, Later
<1>8. CASE EndLoyaltyQuiz
  BY <1>8, <1>d, LateFrame, AlertFrame DEF EndLoyaltyQuiz, Finish, InFlight
<1>9. CASE SaveFourth
  <2>1. /\ screen = "fourth" /\ screen' = "home"
        /\ UNCHANGED <<unanswered, profiles, mainQueue, session, event, subject, carried,
                       owner, pendingAt, rated>>
    BY <1>9 DEF SaveFourth
  <2>2. AlertTrueUnlessLate'
    BY <2>1 DEF AlertTrueUnlessLate
  <2>3. CASE ratings' = ratings
    BY <1>d, <1>l, <2>1, <2>2, <2>3, LateFrame DEF InFlight
  <2>4. CASE ratings' # ratings
    <3>1. PICK q : q.session = session /\ q.subject = carried /\ ratings' = ratings \cup {q}
      BY <1>9, <2>4 DEF SaveFourth
    <3>2. carried # NoSubject
      BY <1>9, <2>4 DEF SaveFourth, Complete, NoSubject
    <3>3. carried.lookup \in pendingAt[session]
      BY <1>d, <2>1, <3>2 DEF LateInv, Later
    <3>4. LateLookupOnly'
      BY <1>d, <2>1, <3>1, <3>3 DEF LateInv, LateLookupOnly
    <3>5. LateInv'
      BY <1>d, <1>l, <2>1, <3>4 DEF LateInv, InFlight
    <3> QED BY <2>2, <3>5
  <2> QED BY <2>3, <2>4
<1>10. CASE DismissAlert
  BY <1>10, <1>d, <1>l, LateFrame, AlertFrame DEF DismissAlert, InFlight
<1>11. CASE VoteViewDidLoad
  <2>1. /\ owner' = session /\ screen = "loading" /\ screen' = "vote"
        /\ UNCHANGED <<unanswered, profiles, mainQueue, session, subject, carried, ratings>>
        /\ pendingAt' = [pendingAt EXCEPT ![session] =
                           {l.session : l \in unanswered \cup profiles}]
    BY <1>11 DEF VoteViewDidLoad
  <2>2. session \in Session /\ pendingAt \in [Session -> SUBSET Session]
    BY <1>d, <2>1, MaxSessionsAssumption DEF AllInv, ProfileType, TypeOK, Session
  <2>3. /\ pendingAt'[session] = {l.session : l \in InFlight}
        /\ \A s \in Session : s # session => pendingAt'[s] = pendingAt[s]
    BY <2>1, <2>2 DEF InFlight
  <2>4. \A l \in InFlight' : l.session \in pendingAt'[session]
    BY <2>1, <2>3 DEF InFlight
  <2>5. \A i \in 1..Len(mainQueue) : mainQueue[i].view # session
    BY <1>d, <2>1 DEF AllInv, LookupInv, QueueInv, OwnerInv
  <2>6. subject = NoSubject
    BY <1>d, <2>1 DEF AllInv, LookupInv, OwnerInv
  <2>7. \A r \in ratings : r.session # session /\ r.session \in Session
    BY <1>d, <2>1 DEF AllInv, GradesInv, TypeOK, Rating
  <2>8. LateLookupOnly'
    BY <1>d, <2>1, <2>3, <2>7 DEF LateInv, LateLookupOnly
  <2>9. LateInv'
    BY <1>l, <2>1, <2>4, <2>5, <2>6, <2>8 DEF LateInv
  <2>10. AlertTrueUnlessLate'
    BY <2>1 DEF AlertTrueUnlessLate
  <2> QED BY <2>9, <2>10
<1>12. CASE RunBlock
  <2>1. /\ Len(mainQueue') = Len(mainQueue) - 1 /\ Len(mainQueue) \in Nat \ {0}
        /\ \A j \in 1..Len(mainQueue') :
              mainQueue'[j] = mainQueue[j + 1] /\ j + 1 \in 1..Len(mainQueue)
        /\ Head(mainQueue) = mainQueue[1] /\ 1 \in 1..Len(mainQueue)
    BY <1>12, <1>d, QueueTail DEF RunBlock, TypeOK
  <2>2. UNCHANGED <<unanswered, profiles, session, event, carried, owner, ratings, screen,
                    pendingAt, rated>>
    BY <1>12 DEF RunBlock
  <2>3. subject' # NoSubject => subject'.lookup \in pendingAt[session]
    <3>1. CASE mainQueue[1].view = session
      BY <1>12, <1>d, <2>1, <3>1 DEF RunBlock, LateInv
    <3>2. CASE mainQueue[1].view # session
      BY <1>12, <1>d, <2>1, <3>2 DEF RunBlock, LateInv
    <3> QED BY <3>1, <3>2
  <2>4. \A j \in 1..Len(mainQueue') :
          mainQueue'[j].view = session => mainQueue'[j].subject.lookup \in pendingAt[session]
    BY <1>d, <2>1 DEF LateInv
  <2>5. LateLookupOnly'
    BY <1>d, <2>2 DEF LateInv, LateLookupOnly
  <2>6. LateInv'
    BY <1>d, <2>2, <2>3, <2>4, <2>5 DEF LateInv, InFlight
  <2>7. AlertTrueUnlessLate'
    BY <1>d, <2>2, AlertFrame
  <2> QED BY <2>6, <2>7
<1>13. ASSUME NEW l \in unanswered, NEW u \in Members, UnansweredNamed(l, u)
      PROVE  Goal
  <2>1. /\ profiles' = profiles \cup {[l EXCEPT !.user = u]} /\ unanswered' \subseteq unanswered
        /\ [l EXCEPT !.user = u].session = l.session
        /\ UNCHANGED <<mainQueue, session, event, subject, carried, owner, pendingAt,
                       ratings, screen, rated>>
    BY <1>13, <1>d DEF UnansweredNamed, TypeOK, Lookup
  <2>2. \A k \in InFlight' : \E m \in InFlight : m.session = k.session
    BY <2>1 DEF InFlight
  <2> QED BY <1>d, <2>1, <2>2, LateFrame, AlertFrame
<1>14. ASSUME NEW l \in unanswered, UnansweredEmpty(l)
      PROVE  Goal
  <2>1. /\ CallSlot(NoUser, l.session) /\ l \in InFlight /\ InFlight' \subseteq InFlight
        /\ l.session \in Session
        /\ UNCHANGED <<session, event, subject, carried, owner, pendingAt, ratings, rated>>
    BY <1>14, <1>d DEF UnansweredEmpty, InFlight, TypeOK, Lookup
  <2>2. LateInv'
    BY <1>d, <2>1, LateCall
  <2>3. CASE screen' = screen
    BY <1>d, <2>1, <2>2, <2>3, AlertFrame
  <2>4. CASE screen' # screen
    <3>1. owner = session
      BY <1>d, <2>1, <2>4, CallSlotEffect
    <3>2. l.session \in pendingAt[session]
      BY <1>d, <2>1, <3>1 DEF LateInv
    <3>3. l.session = session => l.event = event
      BY <1>d, <2>1 DEF AllInv, LookupInv, FlightInv
    <3>4. \A u \in Members : <<l.event, u>> \in rated
      BY <1>14 DEF UnansweredEmpty
    <3>5. AlertTrueUnlessLate'
      BY <2>1, <3>2, <3>3, <3>4 DEF AlertTrueUnlessLate, AlertIsTrue
    <3> QED BY <2>2, <3>5
  <2> QED BY <2>3, <2>4
<1>15. ASSUME NEW l \in unanswered, UnansweredFailure(l)
      PROVE  Goal
  BY <1>15, <1>d, LateFrame, AlertFrame DEF UnansweredFailure, InFlight
<1>16. ASSUME NEW l \in profiles, ProfileReply(l)
      PROVE  Goal
  <2>1. /\ CallSlot(l.user, l.session) /\ l \in InFlight /\ InFlight' \subseteq InFlight
        /\ l.session \in Session /\ l.user \in Members /\ l.user # NoUser
        /\ UNCHANGED <<session, event, subject, carried, owner, pendingAt, ratings, rated>>
    BY <1>16, <1>d, NoUserAssumption
    DEF ProfileReply, InFlight, TypeOK, Lookup, AllInv, ProfileType
  <2>2. LateInv'
    BY <1>d, <2>1, LateCall
  <2>3. screen' = screen
    BY <1>d, <2>1, CallSlotEffect
  <2>4. AlertTrueUnlessLate'
    BY <1>d, <2>1, <2>3, AlertFrame
  <2> QED BY <2>2, <2>4
<1>17. ASSUME NEW l \in profiles, ProfileFailure(l)
      PROVE  Goal
  BY <1>17, <1>d, LateFrame, AlertFrame DEF ProfileFailure, InFlight
<1>18. ASSUME NEW r \in puts, RatingReply(r)
      PROVE  Goal
  BY <1>18, <1>d, LateFrame, AlertFrame DEF RatingReply, InFlight
<1>19. CASE UNCHANGED vars
  BY <1>19, <1>d, LateFrame, AlertFrame DEF vars, InFlight
<1> QED BY <1>1, <1>2, <1>3, <1>4, <1>5, <1>6, <1>7, <1>8, <1>9, <1>10, <1>11,
           <1>12, <1>13, <1>14, <1>15, <1>16, <1>17, <1>18, <1>19
        DEF Next, User, NetworkQueue

LEMMA SubjectInvariant == Spec => []SubjectInv
<1>1. Init => LateInv /\ AlertTrueUnlessLate
  BY DEF Init, LateInv, AlertTrueUnlessLate, LateLookupOnly, InFlight, Later
<1>2. SubjectInv <=> AllInv /\ LateInv /\ AlertTrueUnlessLate
  BY DEF SubjectInv
<1> QED BY <1>1, <1>2, AllInvariant, SubjectStep, PTL DEF Spec

(* The user of a rating comes from a lookup that was in flight when the    *)
(* session's closure was put in the slot: the session's own, or a late     *)
(* one; never one of a session to come, nor one already answered.          *)
THEOREM LateLookupOnlyHolds == Spec => []LateLookupOnly
<1>1. SubjectInv => LateLookupOnly
  BY DEF SubjectInv, LateInv
<1> QED BY <1>1, SubjectInvariant, PTL

(* Without a late lookup the alert is right: everyone has been rated for   *)
(* the selected event.                                                     *)
THEOREM AlertTrueUnlessLateHolds == Spec => []AlertTrueUnlessLate
<1>1. SubjectInv => AlertTrueUnlessLate
  BY DEF SubjectInv
<1> QED BY <1>1, SubjectInvariant, PTL

-----------------------------------------------------------------------------
(* A session's own lookup.                                                 *)

(***************************************************************************)
(* From its viewDidLoad on the newest session owns the slot; so the reply  *)
(* to its own lookup becomes a block for its view.                         *)
(***************************************************************************)
OwnInv ==
  /\ (session # 0 /\ screen # "loading") => owner = session
  /\ OwnLookupIsOnItsWay

(* Steps that leave the slot and the queue alone.                          *)
LEMMA OwnFrame ==
  ASSUME OwnInv,
         \A l \in InFlight : l.session \in failed' \/ \E m \in InFlight' : m.session = l.session,
         failed \subseteq failed',
         UNCHANGED <<mainQueue, session, subject, owner, pendingAt>>,
         screen' # "loading" => screen # "loading"
  PROVE  OwnInv'
<1>1. (session # 0 /\ screen # "loading" /\ session \in pendingAt[session]) =>
        \/ LookupPending(session)' \/ session \in failed'
        \/ \E k \in 1..Len(mainQueue) : mainQueue[k].view = session
        \/ subject # NoSubject
  BY DEF OwnInv, OwnLookupIsOnItsWay, LookupPending, InFlight
<1>2. OwnLookupIsOnItsWay'
  BY <1>1 DEF OwnLookupIsOnItsWay
<1> QED BY <1>2 DEF OwnInv

(* A reply that calls the slot.                                            *)
LEMMA OwnCall ==
  ASSUME AllInv, OwnInv, NEW l \in InFlight,
         \A m \in InFlight : m = l \/ m \in InFlight',
         NEW user \in Members \cup {NoUser}, CallSlot(user, l.session),
         UNCHANGED <<session, subject, owner, pendingAt, failed>>
  PROVE  OwnInv'
<1>0. TypeOK /\ l.session \in Session
  BY DEF AllInv, TypeOK, InFlight, Lookup
<1>1. screen' = screen \/ (screen = "vote" /\ screen' = "alert")
  BY DEF CallSlot
<1>2. CASE session = 0 \/ screen = "loading"
  BY <1>1, <1>2 DEF OwnInv, OwnLookupIsOnItsWay
<1>3. CASE session # 0 /\ screen # "loading"
  <2> DEFINE b == [view |-> owner, subject |-> [user |-> user, lookup |-> l.session]]
  <2>1. owner = session /\ owner # NoView
    BY <1>3 DEF OwnInv, NoView
  <2>2. b \in Block /\ b.view = session
    BY <1>0, <2>1 DEF TypeOK, Block, Subject
  <2>3. mainQueue' = Append(mainQueue, b)
    BY <2>1 DEF CallSlot
  <2> HIDE DEF b
  <2>4. /\ Len(mainQueue') = Len(mainQueue) + 1 /\ Len(mainQueue) \in Nat
        /\ mainQueue'[Len(mainQueue) + 1] = b
    BY <1>0, <2>2, <2>3, QueueAppend DEF TypeOK
  <2>5. \E k \in 1..Len(mainQueue') : mainQueue'[k].view = session
    <3>1. Len(mainQueue) + 1 \in 1..Len(mainQueue')
      BY <2>4
    <3> QED BY <2>2, <2>4, <3>1
  <2> QED BY <2>1, <2>5 DEF OwnInv, OwnLookupIsOnItsWay
<1> QED BY <1>2, <1>3

LEMMA OwnStep == SubjectInv /\ OwnInv /\ [Next]_vars => OwnInv'
<1> SUFFICES ASSUME SubjectInv, OwnInv, [Next]_vars PROVE OwnInv'
  OBVIOUS
<1> USE DEF viewVars, slotVars, netVars, histVars
<1>d. TypeOK /\ AllInv
  BY DEF SubjectInv, AllInv
<1>1. ASSUME NEW e \in Events \cup {NoEvent}, SelectEvent(e)
      PROVE  OwnInv'
  BY <1>1 DEF SelectEvent, OwnInv, OwnLookupIsOnItsWay
<1>2. CASE EndFirstQuiz \/ EndSecondQuiz \/ EndLoyaltyQuiz
  BY <1>2, OwnFrame DEF EndFirstQuiz, EndSecondQuiz, EndLoyaltyQuiz, Finish, InFlight
<1>3. CASE SaveFirst \/ SaveSecond \/ SaveThird \/ SaveFourth
  BY <1>3, OwnFrame DEF SaveFirst, SaveSecond, SaveThird, SaveFourth, InFlight
<1>4. CASE AnswerSecondQuiz \/ DismissAlert
  BY <1>4, OwnFrame DEF AnswerSecondQuiz, DismissAlert, InFlight
<1>5. CASE VoteViewDidLoad
  <2>1. /\ owner' = session /\ session' = session /\ screen = "loading"
        /\ UNCHANGED <<unanswered, profiles>>
        /\ pendingAt' = [pendingAt EXCEPT ![session] =
                           {l.session : l \in unanswered \cup profiles}]
    BY <1>5 DEF VoteViewDidLoad
  <2>2. session \in Session /\ pendingAt \in [Session -> SUBSET Session]
    BY <1>d, <2>1, MaxSessionsAssumption DEF AllInv, ProfileType, TypeOK, Session
  <2>3. pendingAt'[session] = {l.session : l \in unanswered \cup profiles}
    BY <2>1, <2>2
  <2>4. session \in pendingAt'[session] => LookupPending(session)'
    BY <2>1, <2>3 DEF LookupPending
  <2> QED BY <2>1, <2>4 DEF OwnInv, OwnLookupIsOnItsWay
<1>6. CASE RunBlock
  <2>1. /\ Len(mainQueue') = Len(mainQueue) - 1 /\ Len(mainQueue) \in Nat \ {0}
        /\ \A j \in 1..(Len(mainQueue) - 1) : mainQueue'[j] = mainQueue[j + 1]
        /\ Head(mainQueue) = mainQueue[1] /\ Head(mainQueue) \in Block
    BY <1>6, <1>d, QueueTail DEF RunBlock, TypeOK
  <2>2. UNCHANGED <<unanswered, profiles, session, owner, screen, pendingAt, failed>>
    BY <1>6 DEF RunBlock
  <2>3. CASE mainQueue[1].view = session
    <3>1. subject' \in Subject
      BY <1>6, <2>1, <2>3 DEF RunBlock, Block
    <3>2. subject' # NoSubject
      BY <3>1, MaxSessionsAssumption DEF Subject, NoSubject, Session
    <3> QED BY <2>2, <3>2 DEF OwnInv, OwnLookupIsOnItsWay
  <2>4. CASE mainQueue[1].view # session
    <3>1. subject' = subject
      BY <1>6, <2>1, <2>4 DEF RunBlock
    <3>2. ASSUME NEW k \in 1..Len(mainQueue), mainQueue[k].view = session
          PROVE  \E j \in 1..Len(mainQueue') : mainQueue'[j].view = session
      <4>1. k # 1 /\ k - 1 \in 1..(Len(mainQueue) - 1) /\ (k - 1) + 1 = k
        BY <2>1, <2>4, <3>2
      <4> QED BY <2>1, <3>2, <4>1
    <3> QED BY <2>2, <3>1, <3>2 DEF OwnInv, OwnLookupIsOnItsWay, LookupPending
  <2> QED BY <2>3, <2>4
<1>7. ASSUME NEW l \in unanswered, NEW u \in Members, UnansweredNamed(l, u)
      PROVE  OwnInv'
  <2>1. /\ profiles' = profiles \cup {[l EXCEPT !.user = u]} /\ unanswered' = unanswered \ {l}
        /\ [l EXCEPT !.user = u].session = l.session
        /\ UNCHANGED <<mainQueue, session, subject, owner, pendingAt, screen, failed>>
    BY <1>7, <1>d DEF UnansweredNamed, TypeOK, Lookup
  <2>2. \A k \in InFlight : \E m \in InFlight' : m.session = k.session
    BY <2>1 DEF InFlight
  <2> QED BY <2>1, <2>2, OwnFrame
<1>8. ASSUME NEW l \in unanswered, UnansweredEmpty(l)
      PROVE  OwnInv'
  <2>1. /\ CallSlot(NoUser, l.session) /\ l \in InFlight
        /\ \A m \in InFlight : m = l \/ m \in InFlight'
        /\ UNCHANGED <<session, subject, owner, pendingAt, failed>>
    BY <1>8 DEF UnansweredEmpty, InFlight
  <2> QED BY <1>d, <2>1, OwnCall
<1>9. ASSUME NEW l \in profiles, ProfileReply(l)
      PROVE  OwnInv'
  <2>1. /\ CallSlot(l.user, l.session) /\ l \in InFlight /\ l.user \in Members
        /\ \A m \in InFlight : m = l \/ m \in InFlight'
        /\ UNCHANGED <<session, subject, owner, pendingAt, failed>>
    BY <1>9, <1>d DEF ProfileReply, InFlight, AllInv, ProfileType
  <2> QED BY <1>d, <2>1, OwnCall
<1>10. ASSUME NEW l \in unanswered \cup profiles, UnansweredFailure(l) \/ ProfileFailure(l)
       PROVE  OwnInv'
  <2>1. /\ \A m \in InFlight : m = l \/ m \in InFlight'
        /\ failed' = failed \cup {l.session}
        /\ UNCHANGED <<mainQueue, session, subject, owner, pendingAt, screen>>
    BY <1>10 DEF UnansweredFailure, ProfileFailure, InFlight
  <2> QED BY <2>1, OwnFrame
<1>11. CASE (\E r \in puts : RatingReply(r)) \/ UNCHANGED vars
  BY <1>11, OwnFrame DEF RatingReply, vars, InFlight
<1> QED BY <1>1, <1>2, <1>3, <1>4, <1>5, <1>6, <1>7, <1>8, <1>9, <1>10, <1>11
        DEF Next, User, NetworkQueue

(* A session's own lookup, unanswered as its view loads, cannot be lost to *)
(* the shared slot: it is in flight, queued for the view, known or failed  *)
(* (VoteViewController 39-60, ResponseRating 56-97).                      *)
THEOREM OwnLookupIsOnItsWayHolds == Spec => []OwnLookupIsOnItsWay
<1>1. Init => OwnInv
  BY DEF Init, OwnInv, OwnLookupIsOnItsWay
<1>2. OwnInv => OwnLookupIsOnItsWay
  BY DEF OwnInv
<1> QED BY <1>1, <1>2, SubjectInvariant, OwnStep, PTL DEF Spec
=============================================================================
