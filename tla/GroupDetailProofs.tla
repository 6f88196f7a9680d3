------------------------- MODULE GroupDetailProofs -------------------------
(***************************************************************************)
(* Theorems about GroupDetail, for any groups and bounds.                  *)
(***************************************************************************)
EXTENDS GroupDetail, TLAPS

LEMMA ListAppend ==
  ASSUME NEW S, NEW s \in Seq(S), NEW x \in S
  PROVE  /\ Append(s, x) \in Seq(S) /\ Len(Append(s, x)) = Len(s) + 1 /\ Len(s) \in Nat
         /\ DOMAIN Append(s, x) = 1..(Len(s) + 1) /\ DOMAIN s = 1..Len(s)
         /\ \A j \in 1..Len(s) : Append(s, x)[j] = s[j]
         /\ Append(s, x)[Len(s) + 1] = x
OBVIOUS

(* A start the server has recorded.                                        *)
LEMMA Recorded ==
  ASSUME NEW s \in Start
  PROVE  LET r == [s EXCEPT !.recorded = TRUE]
         IN /\ r \in Start /\ r.event = s.event /\ r.view = s.view /\ r.recorded = TRUE
BY DEF Start

LEMMA InitType == Init => TypeOK
<1> SUFFICES ASSUME Init PROVE TypeOK
  OBVIOUS
<1>1. /\ top \in {"groups", "detail", "newEvent", "started", "rating"}
      /\ view \in Nat /\ group \in Groups \cup {NoGroup}
      /\ list \in Seq(Event) /\ rows \in 0..Len(list)
  BY DEF Init
<1>2. reload \in BOOLEAN /\ trap \in BOOLEAN
  BY DEF Init
<1>3. listings \subseteq Listing /\ starts \subseteq Start /\ fetches \subseteq Fetch
  BY DEF Init
<1>4. lateOpen \in BOOLEAN /\ overlap \in BOOLEAN
  BY DEF Init
<1>5. count \in Nat /\ due \subseteq Nat
  BY ExistingAssumption DEF Init
<1>6. active \subseteq Event
  BY ExistingAssumption DEF Init, Event
<1> QED BY <1>1, <1>2, <1>3, <1>4, <1>5, <1>6 DEF TypeOK

LEMMA StepType == TypeOK /\ [Next]_vars => TypeOK'
<1> SUFFICES ASSUME TypeOK, [Next]_vars PROVE TypeOK'
  OBVIOUS
<1> USE DEF viewVars, netVars, histVars
<1>0. /\ view \in Nat /\ count \in Nat /\ group \in Groups \cup {NoGroup}
      /\ list \in Seq(Event) /\ Len(list) \in Nat /\ rows \in 0..Len(list)
  BY DEF TypeOK
<1>1. ASSUME NEW g \in Groups \cup {NoGroup}, OpenGroup(g) PROVE TypeOK'
  <2>1. list' \in Seq(Event) /\ rows' \in 0..Len(list')
    BY <1>1 DEF OpenGroup
  <2>2. view' \in Nat /\ group' \in Groups \cup {NoGroup}
    BY <1>0, <1>1 DEF OpenGroup
  <2>3. {[group |-> h, view |-> view + 1] : h \in {g} \cap Groups} \subseteq Listing
    BY <1>0 DEF Listing
  <2>4. listings' \subseteq Listing
    BY <1>1, <2>3 DEF OpenGroup, TypeOK
  <2>5. lateOpen' \in BOOLEAN
    BY <1>1 DEF OpenGroup, Outstanding
  <2>6. overlap' \in BOOLEAN /\ reload' \in BOOLEAN
    BY <1>1 DEF OpenGroup
  <2> QED BY <1>1, <2>1, <2>2, <2>4, <2>5, <2>6 DEF OpenGroup, TypeOK
<1>2. CASE Navigate
  <2>1. top' \in {"groups", "detail", "newEvent", "started", "rating"}
    BY <1>2 DEF Navigate
  <2>2. UNCHANGED <<viewVars, active, netVars, trap, histVars>>
    BY <1>2 DEF Navigate
  <2> QED BY <2>1, <2>2 DEF TypeOK
<1>3. CASE StartTapped
  <2>1. CASE group = NoGroup
    <3>1. UNCHANGED <<viewVars, active, netVars, trap, histVars>> /\ top' = "started"
      BY <1>3, <2>1 DEF StartTapped
    <3> QED BY <3>1 DEF TypeOK
  <2>2. CASE group # NoGroup
    <3> DEFINE s == [event |-> [id |-> count + 1, group |-> group], view |-> view, recorded |-> FALSE]
    <3>1. group \in Groups /\ count + 1 \in Nat
      BY <1>0, <2>2
    <3>2. s \in Start
      BY <1>0, <3>1 DEF Start, Event
    <3>3. /\ top' = "started" /\ count' = count + 1 /\ starts' = starts \cup {s}
          /\ due' = due \cup {count + 1} /\ overlap' = (overlap \/ listings # {})
          /\ UNCHANGED <<viewVars, active, listings, fetches, trap, lateOpen>>
      BY <1>3, <2>2 DEF StartTapped
    <3>4. overlap' \in BOOLEAN
      BY <3>3
    <3>5. starts' \subseteq Start
      BY <3>2, <3>3 DEF TypeOK
    <3> QED BY <3>1, <3>3, <3>4, <3>5 DEF TypeOK
  <2> QED BY <2>1, <2>2
<1>4. CASE Reload
  <2>1. rows' \in 0..Len(list') /\ UNCHANGED <<top, view, group, list, active, netVars, trap, histVars>>
    BY <1>0, <1>4 DEF Reload
  <2>2. reload' \in BOOLEAN
    BY <1>4 DEF Reload
  <2> QED BY <2>1, <2>2 DEF TypeOK
<1>5. ASSUME NEW s \in starts, RecordStart(s) PROVE TypeOK'
  <2>1. s \in Start
    BY DEF TypeOK
  <2>2. s.event \in Event
    BY <2>1 DEF Start
  <2>3. active' \subseteq Event /\ starts' \subseteq Start
    BY <1>5, <2>1, <2>2, Recorded DEF RecordStart, TypeOK
  <2>4. UNCHANGED <<top, viewVars, listings, fetches, trap, histVars>>
    BY <1>5 DEF RecordStart
  <2> QED BY <2>3, <2>4 DEF TypeOK
<1>6. ASSUME NEW l \in listings, ListingReply(l) PROVE TypeOK'
  <2> DEFINE named == {e \in active : e.group = l.group}
  <2>1. l.view \in Nat /\ named \subseteq Event
    BY DEF TypeOK, Listing
  <2>2. {[event |-> e, view |-> l.view, by |-> "listing"] : e \in named} \subseteq Fetch
    BY <2>1 DEF Fetch
  <2>3. {e.id : e \in {e \in named : l.view = view}} \subseteq Nat
    BY <2>1 DEF Event
  <2>4. /\ fetches' = fetches \cup {[event |-> e, view |-> l.view, by |-> "listing"] : e \in named}
        /\ due' = due \cup {e.id : e \in {e \in named : l.view = view}}
        /\ listings' = listings \ {l}
        /\ UNCHANGED <<top, viewVars, active, starts, trap, count, lateOpen, overlap>>
    BY <1>6 DEF ListingReply
  <2> HIDE DEF named
  <2>5. fetches' \subseteq Fetch /\ due' \subseteq Nat /\ listings' \subseteq Listing
    BY <2>2, <2>3, <2>4 DEF TypeOK
  <2> QED BY <2>4, <2>5 DEF TypeOK
<1>7. ASSUME NEW l \in listings, ListingFailure(l) PROVE TypeOK'
  BY <1>7 DEF ListingFailure, TypeOK
<1>8. ASSUME NEW s \in starts, StartReply(s) PROVE TypeOK'
  <2>1. s.event \in Event /\ s.view \in Nat
    BY DEF TypeOK, Start
  <2>2. [event |-> s.event, view |-> s.view, by |-> "start"] \in Fetch
    BY <2>1 DEF Fetch
  <2> QED BY <1>8, <2>2 DEF StartReply, TypeOK
<1>9. ASSUME NEW s \in starts, StartFailure(s) PROVE TypeOK'
  <2>1. trap' \in BOOLEAN
    BY <1>9 DEF StartFailure
  <2> QED BY <1>9, <2>1 DEF StartFailure, TypeOK
<1>10. ASSUME NEW f \in fetches, FetchReply(f) PROVE TypeOK'
  <2>1. f.event \in Event
    BY DEF TypeOK, Fetch
  <2>2. list' = Append(list, f.event) /\ UNCHANGED rows
    BY <1>10 DEF FetchReply
  <2>3. list' \in Seq(Event) /\ Len(list') = Len(list) + 1
    BY <1>0, <2>1, <2>2, ListAppend
  <2>4. rows' \in 0..Len(list')
    BY <1>0, <2>2, <2>3
  <2>5. reload' \in BOOLEAN
    BY <1>10 DEF FetchReply
  <2> QED BY <1>10, <2>3, <2>4, <2>5 DEF FetchReply, TypeOK
<1>11. ASSUME NEW f \in fetches, FetchFailure(f) PROVE TypeOK'
  BY <1>11 DEF FetchFailure, TypeOK
<1>12. CASE UNCHANGED vars
  BY <1>12 DEF vars, TypeOK
<1> QED BY <1>1, <1>2, <1>3, <1>4, <1>5, <1>6, <1>7, <1>8, <1>9, <1>10, <1>11, <1>12
        DEF Next, User, Server, NetworkQueue

(* The types hold in every state.                                          *)
THEOREM TypeCorrect == Spec => []TypeOK
<1> QED BY InitType, StepType, PTL DEF Spec

-----------------------------------------------------------------------------
(* Requests of the newest view are about its group, and unless it was      *)
(* opened late there are no others.                                        *)
Asked(v, g) == v <= view /\ (v = view => g = group) /\ (lateOpen \/ v = view)

ViewInv ==
  /\ \A l \in listings : Asked(l.view, l.group)
  /\ \A s \in starts : Asked(s.view, s.event.group)
  /\ \A f \in fetches : Asked(f.view, f.event.group)

OwnInv == TypeOK /\ ViewInv /\ OwnUnlessLate

LEMMA InitOwn == Init => OwnInv
<1> SUFFICES ASSUME Init PROVE OwnInv
  OBVIOUS
<1>1. ViewInv /\ OwnUnlessLate
  BY DEF Init, ViewInv, OwnUnlessLate
<1> QED BY <1>1, InitType DEF OwnInv

LEMMA StepOwn == OwnInv /\ [Next]_vars => OwnInv'
<1> SUFFICES ASSUME OwnInv, [Next]_vars PROVE ViewInv' /\ OwnUnlessLate'
  BY StepType DEF OwnInv
<1> USE DEF viewVars, netVars, histVars
<1>0. /\ TypeOK /\ ViewInv /\ OwnUnlessLate /\ view \in Nat
      /\ list \in Seq(Event) /\ Len(list) \in Nat
  BY DEF OwnInv, TypeOK
<1>1. ASSUME NEW g \in Groups \cup {NoGroup}, OpenGroup(g)
      PROVE  ViewInv' /\ OwnUnlessLate'
  <2>1. /\ view' = view + 1 /\ group' = g /\ list' = <<>> /\ lateOpen' = Outstanding
        /\ listings' = listings \cup {[group |-> h, view |-> view + 1] : h \in {g} \cap Groups}
        /\ UNCHANGED <<starts, fetches>>
    BY <1>1 DEF OpenGroup
  <2>2. ASSUME NEW v \in Nat, v <= view, Outstanding, NEW h
        PROVE  Asked(v, h)'
    <3>1. v <= view' /\ v # view'
      BY <1>0, <2>1, <2>2
    <3> QED BY <2>1, <2>2, <3>1 DEF Asked
  <2>3. ASSUME NEW l \in listings'
        PROVE  Asked(l.view, l.group)'
    <3>1. CASE l \in listings
      <4>1. l.view \in Nat /\ l.view <= view /\ Outstanding
        BY <1>0, <3>1 DEF TypeOK, Listing, ViewInv, Asked, Outstanding
      <4> QED BY <2>2, <4>1
    <3>2. CASE l \notin listings
      <4>1. l.view = view + 1 /\ l.group = g
        BY <2>1, <3>2
      <4> QED BY <1>0, <2>1, <4>1 DEF Asked
    <3> QED BY <3>1, <3>2
  <2>4. ASSUME NEW s \in starts
        PROVE  Asked(s.view, s.event.group)'
    <3>1. s.view \in Nat /\ s.view <= view /\ Outstanding
      BY <1>0 DEF TypeOK, Start, ViewInv, Asked, Outstanding
    <3> QED BY <2>2, <3>1
  <2>5. ASSUME NEW f \in fetches
        PROVE  Asked(f.view, f.event.group)'
    <3>1. f.view \in Nat /\ f.view <= view /\ Outstanding
      BY <1>0 DEF TypeOK, Fetch, ViewInv, Asked, Outstanding
    <3> QED BY <2>2, <3>1
  <2>6. OwnUnlessLate'
    BY <2>1 DEF OwnUnlessLate
  <2> QED BY <2>1, <2>3, <2>4, <2>5, <2>6 DEF ViewInv
<1>2. CASE Navigate
  BY <1>0, <1>2 DEF Navigate, ViewInv, Asked, OwnUnlessLate
<1>3. CASE StartTapped
  <2>1. UNCHANGED <<view, group, list, lateOpen, listings, fetches>>
    BY <1>3 DEF StartTapped
  <2>2. ASSUME NEW s \in starts', s \notin starts
        PROVE  s.view = view /\ s.event.group = group
    BY <1>3, <2>2 DEF StartTapped
  <2>3. ASSUME NEW s \in starts'
        PROVE  Asked(s.view, s.event.group)
    BY <1>0, <2>2 DEF ViewInv, Asked
  <2> QED BY <1>0, <2>1, <2>3 DEF ViewInv, Asked, OwnUnlessLate
<1>4. CASE Reload
  BY <1>0, <1>4 DEF Reload, ViewInv, Asked, OwnUnlessLate
<1>5. ASSUME NEW s \in starts, RecordStart(s)
      PROVE  ViewInv' /\ OwnUnlessLate'
  <2>1. UNCHANGED <<view, group, list, lateOpen, listings, fetches>>
    BY <1>5 DEF RecordStart
  <2>2. s \in Start
    BY <1>0 DEF TypeOK
  <2>3. ASSUME NEW r \in starts'
        PROVE  \E q \in starts : r.event = q.event /\ r.view = q.view
    BY <1>5, <2>2, Recorded DEF RecordStart
  <2>4. ASSUME NEW r \in starts'
        PROVE  Asked(r.view, r.event.group)
    BY <1>0, <2>3 DEF ViewInv
  <2> QED BY <1>0, <2>1, <2>4 DEF ViewInv, Asked, OwnUnlessLate
<1>6. ASSUME NEW l \in listings, ListingReply(l)
      PROVE  ViewInv' /\ OwnUnlessLate'
  <2>1. UNCHANGED <<view, group, list, lateOpen, starts>> /\ listings' \subseteq listings
    BY <1>6 DEF ListingReply
  <2>2. ASSUME NEW f \in fetches', f \notin fetches
        PROVE  f.view = l.view /\ f.event.group = l.group
    BY <1>6, <2>2 DEF ListingReply
  <2>3. ASSUME NEW f \in fetches'
        PROVE  Asked(f.view, f.event.group)
    BY <1>0, <2>2 DEF ViewInv
  <2> QED BY <1>0, <2>1, <2>3 DEF ViewInv, Asked, OwnUnlessLate
<1>7. ASSUME NEW l \in listings, ListingFailure(l)
      PROVE  ViewInv' /\ OwnUnlessLate'
  BY <1>0, <1>7 DEF ListingFailure, ViewInv, Asked, OwnUnlessLate
<1>8. ASSUME NEW s \in starts, StartReply(s)
      PROVE  ViewInv' /\ OwnUnlessLate'
  <2>1. UNCHANGED <<view, group, list, lateOpen, listings>> /\ starts' \subseteq starts
    BY <1>8 DEF StartReply
  <2>2. ASSUME NEW f \in fetches', f \notin fetches
        PROVE  f.view = s.view /\ f.event = s.event
    BY <1>8, <2>2 DEF StartReply
  <2>3. ASSUME NEW f \in fetches'
        PROVE  Asked(f.view, f.event.group)
    BY <1>0, <2>2 DEF ViewInv
  <2> QED BY <1>0, <2>1, <2>3 DEF ViewInv, Asked, OwnUnlessLate
<1>9. ASSUME NEW s \in starts, StartFailure(s)
      PROVE  ViewInv' /\ OwnUnlessLate'
  BY <1>0, <1>9 DEF StartFailure, ViewInv, Asked, OwnUnlessLate
<1>10. ASSUME NEW f \in fetches, FetchReply(f)
      PROVE  ViewInv' /\ OwnUnlessLate'
  <2>1. /\ UNCHANGED <<view, group, lateOpen, listings, starts>> /\ fetches' \subseteq fetches
        /\ list' = Append(list, f.event)
    BY <1>10 DEF FetchReply
  <2>2. f.event \in Event /\ Asked(f.view, f.event.group)
    BY <1>0 DEF TypeOK, Fetch, ViewInv
  <2>3. ASSUME ~lateOpen, NEW i \in DOMAIN list'
        PROVE  list'[i].group = group
    <3>1. CASE i \in 1..Len(list)
      <4>1. i \in DOMAIN list /\ list'[i] = list[i]
        BY <1>0, <2>1, <2>2, <3>1, ListAppend
      <4> QED BY <1>0, <2>3, <4>1 DEF OwnUnlessLate
    <3>2. CASE i = Len(list) + 1
      <4>1. list'[i] = f.event
        BY <1>0, <2>1, <2>2, <3>2, ListAppend
      <4> QED BY <2>2, <2>3, <4>1 DEF Asked
    <3>3. i \in 1..(Len(list) + 1)
      BY <1>0, <2>1, <2>2, ListAppend
    <3> QED BY <1>0, <3>1, <3>2, <3>3
  <2> QED BY <1>0, <2>1, <2>3 DEF ViewInv, Asked, OwnUnlessLate
<1>11. ASSUME NEW f \in fetches, FetchFailure(f)
      PROVE  ViewInv' /\ OwnUnlessLate'
  BY <1>0, <1>11 DEF FetchFailure, ViewInv, Asked, OwnUnlessLate
<1>12. CASE UNCHANGED vars
  BY <1>0, <1>12 DEF vars, ViewInv, Asked, OwnUnlessLate
<1> QED BY <1>1, <1>2, <1>3, <1>4, <1>5, <1>6, <1>7, <1>8, <1>9, <1>10, <1>11, <1>12
        DEF Next, User, Server, NetworkQueue

(* A group opened with nothing outstanding lists its own events only.      *)
THEOREM OwnListCorrect == Spec => []OwnUnlessLate
<1>1. OwnInv => OwnUnlessLate
  BY DEF OwnInv
<1> QED BY <1>1, InitOwn, StepOwn, PTL DEF Spec

-----------------------------------------------------------------------------
(* Identifiers are never used for two events, and an event the server has  *)
(* not recorded yet is not active.                                         *)
FreshInv ==
  /\ \A e \in active : e.id <= count
  /\ \A s \in starts : s.event.id <= count
  /\ \A f \in fetches : f.event.id <= count
  /\ \A i \in DOMAIN list : list[i].id <= count
  /\ \A d, e \in active : d.id = e.id => d = e
  /\ \A s, t \in starts : s.event.id = t.event.id => s = t
  /\ \A s \in starts, e \in active : s.recorded \/ e.id # s.event.id

(* Unless it came late or overlapped, the listing is the first answer of   *)
(* the view, and each event of the view is in one place.                   *)
FirstInv == listings = {} \/ ( /\ starts = {} /\ fetches = {} /\ list = <<>>
                               /\ \A l, m \in listings : l = m )
ApartInv ==
  /\ \A f, g \in fetches : f.event.id = g.event.id => f = g
  /\ \A f \in fetches, s \in starts : f.event.id # s.event.id
  /\ \A i \in DOMAIN list, f \in fetches : list[i].id # f.event.id
  /\ \A i \in DOMAIN list, s \in starts : list[i].id # s.event.id
  /\ \A i, j \in DOMAIN list : list[i].id = list[j].id => i = j

Calm == ~lateOpen /\ ~overlap
OnceInv == TypeOK /\ FreshInv /\ (Calm => FirstInv /\ ApartInv)

LEMMA InitOnce == Init => OnceInv
<1> SUFFICES ASSUME Init PROVE OnceInv
  OBVIOUS
<1>1. \A e \in active : \E i \in 1..Len(Existing) : e.id = i
  BY ExistingAssumption DEF Init
<1>2. Len(Existing) \in Nat
  BY ExistingAssumption
<1>3. \A e \in active : e.id <= count
  BY <1>1, <1>2 DEF Init
<1>4. \A d, e \in active : d.id = e.id => d = e
  BY DEF Init
<1>5. FreshInv
  BY <1>3, <1>4 DEF Init, FreshInv
<1>6. FirstInv /\ ApartInv
  BY DEF Init, FirstInv, ApartInv
<1> QED BY <1>5, <1>6, InitType DEF OnceInv

LEMMA StepFresh == TypeOK /\ FreshInv /\ [Next]_vars => FreshInv'
<1> SUFFICES ASSUME TypeOK, FreshInv, [Next]_vars PROVE FreshInv'
  OBVIOUS
<1> USE DEF viewVars, netVars, histVars
<1>0. /\ count \in Nat /\ list \in Seq(Event) /\ Len(list) \in Nat
      /\ starts \subseteq Start /\ fetches \subseteq Fetch /\ active \subseteq Event
  BY DEF TypeOK
<1>a. /\ \A s \in starts : s.event.id \in Nat
      /\ \A f \in fetches : f.event.id \in Nat /\ f.event \in Event
      /\ \A e \in active : e.id \in Nat
  BY <1>0 DEF Start, Fetch, Event
<1>b. \A i \in DOMAIN list : list[i].id \in Nat
  <2>1. \A i \in DOMAIN list : list[i] \in Event
    BY <1>0
  <2> QED BY <2>1 DEF Event
<1>1. ASSUME NEW g \in Groups \cup {NoGroup}, OpenGroup(g) PROVE FreshInv'
  BY <1>1 DEF OpenGroup, FreshInv
<1>2. CASE Navigate
  BY <1>2 DEF Navigate, FreshInv
<1>3. CASE StartTapped
  <2>1. CASE group = NoGroup
    BY <1>3, <2>1 DEF StartTapped, FreshInv
  <2>2. CASE group # NoGroup
    <3>1. PICK s : /\ s.event.id = count + 1 /\ starts' = starts \cup {s}
                   /\ count' = count + 1 /\ UNCHANGED <<active, fetches, list>>
      BY <1>3, <2>2 DEF StartTapped
    <3>2. \A n \in Nat : n <= count => n <= count + 1 /\ n # count + 1
      BY <1>0
    <3>3. /\ \A e \in active : e.id <= count'
          /\ \A f \in fetches : f.event.id <= count'
          /\ \A i \in DOMAIN list : list[i].id <= count'
      BY <1>a, <1>b, <3>1, <3>2 DEF FreshInv
    <3>4. \A t \in starts' : t.event.id <= count'
      BY <1>0, <1>a, <3>1, <3>2 DEF FreshInv
    <3>5. \A r, t \in starts' : r.event.id = t.event.id => r = t
      BY <1>a, <3>1, <3>2 DEF FreshInv
    <3>6. \A r \in starts', e \in active : r.recorded \/ e.id # r.event.id
      BY <1>a, <3>1, <3>2 DEF FreshInv
    <3> QED BY <3>1, <3>3, <3>4, <3>5, <3>6 DEF FreshInv
  <2> QED BY <2>1, <2>2
<1>4. CASE Reload
  BY <1>4 DEF Reload, FreshInv
<1>5. ASSUME NEW s \in starts, RecordStart(s) PROVE FreshInv'
  <2>1. PICK r : /\ r.event = s.event /\ r.recorded = TRUE
                 /\ starts' = (starts \ {s}) \cup {r} /\ active' = active \cup {s.event}
                 /\ ~s.recorded /\ UNCHANGED <<fetches, list, count>>
    BY <1>0, <1>5, Recorded DEF RecordStart
  <2>2. \A e \in active : e.id # s.event.id
    BY <2>1 DEF FreshInv
  <2>3. \A d, e \in active' : d.id = e.id => d = e
    BY <2>1, <2>2 DEF FreshInv
  <2>4. \A q, t \in starts' : q.event.id = t.event.id => q = t
    BY <2>1 DEF FreshInv
  <2>5. \A q \in starts', e \in active' : q.recorded \/ e.id # q.event.id
    BY <2>1 DEF FreshInv
  <2>6. (\A e \in active' : e.id <= count) /\ (\A q \in starts' : q.event.id <= count)
    BY <2>1 DEF FreshInv
  <2> QED BY <2>1, <2>3, <2>4, <2>5, <2>6 DEF FreshInv
<1>6. ASSUME NEW l \in listings, ListingReply(l) PROVE FreshInv'
  <2>1. UNCHANGED <<active, starts, list, count>>
    BY <1>6 DEF ListingReply
  <2>2. \A f \in fetches' : f \in fetches \/ f.event \in active
    BY <1>6 DEF ListingReply
  <2>3. \A f \in fetches' : f.event.id <= count
    BY <2>2 DEF FreshInv
  <2> QED BY <2>1, <2>3 DEF FreshInv
<1>7. ASSUME NEW l \in listings, ListingFailure(l) PROVE FreshInv'
  BY <1>7 DEF ListingFailure, FreshInv
<1>8. ASSUME NEW s \in starts, StartReply(s) PROVE FreshInv'
  <2>1. UNCHANGED <<active, list, count>> /\ starts' \subseteq starts
    BY <1>8 DEF StartReply
  <2>2. \A f \in fetches' : f \in fetches \/ f.event = s.event
    BY <1>8 DEF StartReply
  <2>3. \A f \in fetches' : f.event.id <= count
    BY <2>2 DEF FreshInv
  <2> QED BY <2>1, <2>3 DEF FreshInv
<1>9. ASSUME NEW s \in starts, StartFailure(s) PROVE FreshInv'
  BY <1>9 DEF StartFailure, FreshInv
<1>10. ASSUME NEW f \in fetches, FetchReply(f) PROVE FreshInv'
  <2>1. /\ UNCHANGED <<active, starts, count>> /\ fetches' \subseteq fetches
        /\ list' = Append(list, f.event)
    BY <1>10 DEF FetchReply
  <2>2. \A i \in DOMAIN list' : (i \in DOMAIN list /\ list'[i] = list[i]) \/ list'[i] = f.event
    BY <1>0, <1>a, <2>1, ListAppend
  <2>3. \A i \in DOMAIN list' : list'[i].id <= count
    BY <2>2 DEF FreshInv
  <2> QED BY <2>1, <2>3 DEF FreshInv
<1>11. ASSUME NEW f \in fetches, FetchFailure(f) PROVE FreshInv'
  BY <1>11 DEF FetchFailure, FreshInv
<1>12. CASE UNCHANGED vars
  BY <1>12 DEF vars, FreshInv
<1> QED BY <1>1, <1>2, <1>3, <1>4, <1>5, <1>6, <1>7, <1>8, <1>9, <1>10, <1>11, <1>12
        DEF Next, User, Server, NetworkQueue

(* Steps that put nothing new anywhere.                                    *)
LEMMA OnceFrame ==
  ASSUME FirstInv, ApartInv, listings' \subseteq listings, starts' \subseteq starts,
         fetches' \subseteq fetches, list' = list
  PROVE  FirstInv' /\ ApartInv'
<1>1. FirstInv'
  BY DEF FirstInv
<1>2. ApartInv'
  BY DEF ApartInv
<1> QED BY <1>1, <1>2

LEMMA StepOnce == OnceInv /\ [Next]_vars => OnceInv'
<1> SUFFICES ASSUME OnceInv, [Next]_vars PROVE Calm' => FirstInv' /\ ApartInv'
  BY StepType, StepFresh DEF OnceInv
<1> DEFINE Goal == Calm' => FirstInv' /\ ApartInv'
<1> USE DEF viewVars, netVars, histVars
<1>0. /\ TypeOK /\ FreshInv /\ (Calm => FirstInv /\ ApartInv)
      /\ count \in Nat /\ list \in Seq(Event) /\ Len(list) \in Nat
      /\ starts \subseteq Start /\ fetches \subseteq Fetch
  BY DEF OnceInv, TypeOK
<1>1. ASSUME NEW g \in Groups \cup {NoGroup}, OpenGroup(g) PROVE Goal
  <2>1. /\ list' = <<>> /\ lateOpen' = Outstanding /\ UNCHANGED <<starts, fetches>>
        /\ listings' = listings \cup {[group |-> h, view |-> view + 1] : h \in {g} \cap Groups}
    BY <1>1 DEF OpenGroup
  <2>2. CASE Outstanding
    BY <2>1, <2>2 DEF Calm
  <2>3. CASE ~Outstanding
    <3>1. listings = {} /\ starts' = {} /\ fetches' = {}
      BY <2>1, <2>3 DEF Outstanding
    <3>2. \A l, m \in listings' : l = m
      BY <2>1, <3>1
    <3>3. FirstInv'
      BY <2>1, <3>1, <3>2 DEF FirstInv
    <3>4. ApartInv'
      BY <2>1, <3>1 DEF ApartInv
    <3> QED BY <3>3, <3>4
  <2> QED BY <2>2, <2>3
<1>2. CASE Navigate
  BY <1>0, <1>2, OnceFrame DEF Navigate, Calm
<1>3. CASE StartTapped
  <2>1. CASE group = NoGroup
    BY <1>0, <1>3, <2>1, OnceFrame DEF StartTapped, Calm
  <2>2. CASE group # NoGroup
    <3>1. PICK s : /\ s.event.id = count + 1 /\ starts' = starts \cup {s}
                   /\ overlap' = (overlap \/ listings # {})
                   /\ UNCHANGED <<listings, fetches, list, lateOpen>>
      BY <1>3, <2>2 DEF StartTapped
    <3> SUFFICES ASSUME Calm' PROVE FirstInv' /\ ApartInv'
      OBVIOUS
    <3>2. listings = {} /\ ApartInv
      BY <1>0, <3>1 DEF Calm
    <3>3. \A n \in Nat : n <= count => n # count + 1
      BY <1>0
    <3>4. \A f \in fetches : f.event.id # s.event.id
      <4>1. \A f \in fetches : f.event.id \in Nat
        BY <1>0 DEF Fetch, Event
      <4> QED BY <1>0, <3>1, <3>3, <4>1 DEF FreshInv
    <3>5. \A i \in DOMAIN list : list[i].id # s.event.id
      <4>1. \A i \in DOMAIN list : list[i] \in Event
        BY <1>0
      <4>2. \A i \in DOMAIN list : list[i].id \in Nat
        BY <4>1 DEF Event
      <4> QED BY <1>0, <3>1, <3>3, <4>2 DEF FreshInv
    <3>6. FirstInv'
      BY <3>1, <3>2 DEF FirstInv
    <3>7. ApartInv'
      BY <3>1, <3>2, <3>4, <3>5 DEF ApartInv
    <3> QED BY <3>6, <3>7
  <2> QED BY <2>1, <2>2
<1>4. CASE Reload
  BY <1>0, <1>4, OnceFrame DEF Reload, Calm
<1>5. ASSUME NEW s \in starts, RecordStart(s) PROVE Goal
  <2>1. PICK r : /\ r.event = s.event /\ starts' = (starts \ {s}) \cup {r}
                 /\ UNCHANGED <<listings, fetches, list, lateOpen, overlap>>
    BY <1>0, <1>5, Recorded DEF RecordStart
  <2> SUFFICES ASSUME Calm' PROVE FirstInv' /\ ApartInv'
    OBVIOUS
  <2>2. FirstInv /\ ApartInv
    BY <1>0, <2>1 DEF Calm
  <2>3. FirstInv'
    BY <2>1, <2>2 DEF FirstInv
  <2>4. \A t \in starts' : \E q \in starts : t.event = q.event
    BY <2>1
  <2>5. ApartInv'
    BY <2>1, <2>2, <2>4 DEF ApartInv
  <2> QED BY <2>3, <2>5
<1>6. ASSUME NEW l \in listings, ListingReply(l) PROVE Goal
  <2>1. /\ UNCHANGED <<starts, list, lateOpen, overlap>> /\ listings' = listings \ {l}
        /\ \A f \in fetches' \ fetches :
             f.event \in active /\ f = [event |-> f.event, view |-> l.view, by |-> "listing"]
    BY <1>6 DEF ListingReply
  <2> SUFFICES ASSUME Calm' PROVE FirstInv' /\ ApartInv'
    OBVIOUS
  <2>2. starts = {} /\ fetches = {} /\ list = <<>> /\ listings' = {}
    BY <1>0, <2>1 DEF Calm, FirstInv
  <2>3. \A f, g \in fetches' : f.event.id = g.event.id => f = g
    <3>1. ASSUME NEW f \in fetches', NEW g \in fetches', f.event.id = g.event.id
          PROVE  f = g
      <4>1. f.event = g.event
        BY <1>0, <2>1, <2>2, <3>1 DEF FreshInv
      <4> QED BY <2>1, <2>2, <4>1
    <3> QED BY <3>1
  <2>4. FirstInv'
    BY <2>2 DEF FirstInv
  <2>5. ApartInv'
    BY <2>1, <2>2, <2>3 DEF ApartInv
  <2> QED BY <2>4, <2>5
<1>7. ASSUME NEW l \in listings, ListingFailure(l) PROVE Goal
  BY <1>0, <1>7, OnceFrame DEF ListingFailure, Calm
<1>8. ASSUME NEW s \in starts, StartReply(s) PROVE Goal
  <2>1. PICK n : /\ n.event = s.event /\ fetches' = fetches \cup {n}
                 /\ starts' = starts \ {s}
                 /\ UNCHANGED <<listings, list, lateOpen, overlap>>
    BY <1>8 DEF StartReply
  <2> SUFFICES ASSUME Calm' PROVE FirstInv' /\ ApartInv'
    OBVIOUS
  <2>2. ApartInv /\ listings = {}
    BY <1>0, <2>1 DEF Calm, FirstInv
  <2>3. \A t \in starts' : t.event.id # s.event.id
    BY <1>0, <2>1 DEF FreshInv
  <2>4. FirstInv'
    BY <2>1, <2>2 DEF FirstInv
  <2>5. ApartInv'
    BY <2>1, <2>2, <2>3 DEF ApartInv
  <2> QED BY <2>4, <2>5
<1>9. ASSUME NEW s \in starts, StartFailure(s) PROVE Goal
  BY <1>0, <1>9, OnceFrame DEF StartFailure, Calm
<1>10. ASSUME NEW f \in fetches, FetchReply(f) PROVE Goal
  <2>1. /\ fetches' = fetches \ {f} /\ list' = Append(list, f.event)
        /\ UNCHANGED <<listings, starts, lateOpen, overlap>>
    BY <1>10 DEF FetchReply
  <2> SUFFICES ASSUME Calm' PROVE FirstInv' /\ ApartInv'
    OBVIOUS
  <2>2. ApartInv /\ listings = {}
    BY <1>0, <2>1 DEF Calm, FirstInv
  <2>3. f.event \in Event
    BY <1>0 DEF Fetch
  <2>4. /\ DOMAIN list = 1..Len(list) /\ DOMAIN list' = 1..(Len(list) + 1)
        /\ \A i \in DOMAIN list : list'[i] = list[i]
        /\ list'[Len(list) + 1] = f.event
    BY <1>0, <2>1, <2>3, ListAppend
  <2>5. \A i \in DOMAIN list' : i \in DOMAIN list \/ i = Len(list) + 1
    BY <1>0, <2>4
  <2>6. \A i, j \in DOMAIN list' : list'[i].id = list'[j].id => i = j
    BY <2>2, <2>4, <2>5 DEF ApartInv
  <2>7. \A i \in DOMAIN list', g \in fetches' : list'[i].id # g.event.id
    BY <2>1, <2>2, <2>4, <2>5 DEF ApartInv
  <2>8. \A i \in DOMAIN list', s \in starts' : list'[i].id # s.event.id
    BY <2>1, <2>2, <2>4, <2>5 DEF ApartInv
  <2>9. FirstInv'
    BY <2>1, <2>2 DEF FirstInv
  <2>10. ApartInv'
    BY <2>1, <2>2, <2>6, <2>7, <2>8 DEF ApartInv
  <2> QED BY <2>9, <2>10
<1>11. ASSUME NEW f \in fetches, FetchFailure(f) PROVE Goal
  BY <1>0, <1>11, OnceFrame DEF FetchFailure, Calm
<1>12. CASE UNCHANGED vars
  BY <1>0, <1>12, OnceFrame DEF vars, Calm
<1> QED BY <1>1, <1>2, <1>3, <1>4, <1>5, <1>6, <1>7, <1>8, <1>9, <1>10, <1>11, <1>12
        DEF Next, User, Server, NetworkQueue

(* It lists each event once, unless one was started from it too early.     *)
THEOREM OnceListCorrect == Spec => []OnceUnlessOverlap
<1>1. OnceInv => OnceUnlessOverlap
  BY DEF OnceInv, Calm, ApartInv, OnceUnlessOverlap
<1> QED BY <1>1, InitOnce, StepOnce, PTL DEF Spec
-----------------------------------------------------------------------------
(* What the open group is due: where it can be on its way.                 *)
Started(e) == \E s \in starts : s.event.id = e
Fetched(e) == \E f \in fetches : f.event.id = e
InList(e)  == \E i \in 1..Len(list) : list[i].id = e /\ (i <= rows \/ reload)
UnderWay(e) == Started(e) \/ Fetched(e) \/ InList(e)
DueInv == \A e \in due : UnderWay(e)

LEMMA StepDue == TypeOK /\ DueInv /\ [Next]_vars => DueInv'
<1> SUFFICES ASSUME TypeOK, DueInv, [Next]_vars PROVE DueInv'
  OBVIOUS
<1> USE DEF viewVars, netVars, histVars
<1>0. list \in Seq(Event) /\ Len(list) \in Nat /\ rows \in 0..Len(list)
  BY DEF TypeOK
<1>1. ASSUME NEW g \in Groups \cup {NoGroup}, OpenGroup(g) PROVE DueInv'
  BY <1>1 DEF OpenGroup, DueInv
<1>2. CASE StartTapped
  <2>1. CASE group = NoGroup
    BY <1>2, <2>1 DEF StartTapped, DueInv, UnderWay, Started, Fetched, InList
  <2>2. CASE group # NoGroup
    <3> DEFINE s == [event |-> [id |-> count + 1, group |-> group], view |-> view,
                     recorded |-> FALSE]
    <3>1. /\ due' = due \cup {count + 1} /\ starts' = starts \cup {s}
          /\ UNCHANGED <<fetches, list, rows, reload>>
      BY <1>2, <2>2 DEF StartTapped
    <3>2. s.event.id = count + 1
      OBVIOUS
    <3> HIDE DEF s
    <3>3. \A e : UnderWay(e) => UnderWay(e)'
      BY <3>1 DEF UnderWay, Started, Fetched, InList
    <3>4. ASSUME NEW e \in due' PROVE UnderWay(e)'
      <4>1. CASE e \in due
        BY <3>3, <4>1 DEF DueInv
      <4>2. CASE e = count + 1
        BY <3>1, <3>2, <4>2 DEF UnderWay, Started
      <4> QED BY <3>1, <3>4, <4>1, <4>2
    <3> QED BY <3>4 DEF DueInv
  <2> QED BY <2>1, <2>2
<1>3. CASE Reload
  <2>1. reload' = FALSE /\ rows' = Len(list) /\ UNCHANGED <<due, starts, fetches, list>>
    BY <1>3 DEF Reload
  <2>2. \A e : InList(e) => InList(e)'
    BY <1>0, <2>1 DEF InList
  <2> QED BY <2>1, <2>2 DEF DueInv, UnderWay, Started, Fetched
<1>4. ASSUME NEW s \in starts, RecordStart(s) PROVE DueInv'
  <2> DEFINE r == [s EXCEPT !.recorded = TRUE]
  <2>1. starts' = (starts \ {s}) \cup {r} /\ UNCHANGED <<due, fetches, list, rows, reload>>
    BY <1>4 DEF RecordStart
  <2>2. r.event = s.event
    BY Recorded DEF TypeOK
  <2> HIDE DEF r
  <2>3. \A e : Started(e) => Started(e)'
    BY <2>1, <2>2 DEF Started
  <2> QED BY <2>1, <2>3 DEF DueInv, UnderWay, Fetched, InList
<1>5. ASSUME NEW l \in listings, ListingReply(l) PROVE DueInv'
  <2> DEFINE named == {e \in active : e.group = l.group}
             new == {[event |-> e, view |-> l.view, by |-> "listing"] : e \in named}
  <2>1. /\ fetches' = fetches \cup new /\ due' \subseteq due \cup {e.id : e \in named}
        /\ UNCHANGED <<starts, list, rows, reload>>
    BY <1>5 DEF ListingReply
  <2>2. ASSUME NEW d \in named PROVE \E f \in new : f.event = d
    <3> DEFINE f == [event |-> d, view |-> l.view, by |-> "listing"]
    <3>1. f \in new /\ f.event = d
      OBVIOUS
    <3> QED BY <3>1
  <2> HIDE DEF named, new
  <2>3. \A d \in named : Fetched(d.id)'
    BY <2>1, <2>2 DEF Fetched
  <2>4. \A e : UnderWay(e) => UnderWay(e)'
    BY <2>1 DEF UnderWay, Started, Fetched, InList
  <2> QED BY <2>1, <2>3, <2>4 DEF DueInv, UnderWay
<1>6. ASSUME NEW s \in starts, StartReply(s) PROVE DueInv'
  <2>1. PICK n : /\ n.event = s.event /\ fetches' = fetches \cup {n} /\ starts' = starts \ {s}
                 /\ UNCHANGED <<due, list, rows, reload>>
    BY <1>6 DEF StartReply
  <2>2. \A e : Started(e) \/ Fetched(e) => Started(e)' \/ Fetched(e)'
    BY <2>1 DEF Started, Fetched
  <2> QED BY <2>1, <2>2 DEF DueInv, UnderWay, InList
<1>7. ASSUME NEW s \in starts, StartFailure(s) PROVE DueInv'
  BY <1>7 DEF StartFailure, DueInv, UnderWay, Started, Fetched, InList
<1>8. ASSUME NEW f \in fetches, FetchReply(f) PROVE DueInv'
  <2>1. /\ fetches' = fetches \ {f} /\ list' = Append(list, f.event) /\ reload' = TRUE
        /\ UNCHANGED <<due, starts, rows>>
    BY <1>8 DEF FetchReply
  <2>2. f.event \in Event
    BY DEF TypeOK, Fetch
  <2>3. /\ Len(list') = Len(list) + 1 /\ list'[Len(list) + 1] = f.event
        /\ \A i \in 1..Len(list) : list'[i] = list[i]
    BY <1>0, <2>1, <2>2, ListAppend
  <2>4. InList(f.event.id)' /\ \A e : InList(e) => InList(e)'
    <3>1. Len(list) + 1 \in 1..Len(list') /\ \A i \in 1..Len(list) : i \in 1..Len(list')
      BY <1>0, <2>3
    <3>2. \A e : InList(e)' <=> \E i \in 1..Len(list') : list'[i].id = e
      BY <2>1 DEF InList
    <3>3. \E i \in 1..Len(list') : list'[i].id = f.event.id
      BY <2>3, <3>1
    <3>4. InList(f.event.id)'
      BY <2>1, <2>3, <3>1 DEF InList
    <3>5. \A e : InList(e) => InList(e)'
      BY <2>3, <3>1, <3>2 DEF InList
    <3> QED BY <3>4, <3>5
  <2>5. \A e : Fetched(e) => Fetched(e)' \/ e = f.event.id
    BY <2>1 DEF Fetched
  <2>6. ASSUME NEW e \in due' PROVE UnderWay(e)'
    BY <2>1, <2>4, <2>5, <2>6 DEF DueInv, UnderWay, Started
  <2> QED BY <2>6 DEF DueInv
<1>9. ASSUME NEW f \in fetches, FetchFailure(f) PROVE DueInv'
  BY <1>9 DEF FetchFailure, DueInv, UnderWay, Started, Fetched, InList
<1>10. ASSUME \/ Navigate \/ UNCHANGED vars \/ \E l \in listings : ListingFailure(l)
       PROVE  DueInv'
  BY <1>10 DEF Navigate, ListingFailure, vars, DueInv, UnderWay, Started, Fetched, InList
<1> QED BY <1>1, <1>2, <1>3, <1>4, <1>5, <1>6, <1>7, <1>8, <1>9, <1>10
        DEF Next, User, Server, NetworkQueue

(* What the open group asked for is never forgotten, whatever replies come *)
(* in which order: that it comes up then only takes the requests and the   *)
(* reload to end.                                                          *)
THEOREM DueIsUnderWayHolds == Spec => []DueIsUnderWay
<1>1. Init => DueInv
  BY DEF Init, DueInv
<1>2. TypeOK /\ DueInv => DueIsUnderWay
  <2> SUFFICES ASSUME TypeOK, DueInv PROVE DueIsUnderWay
    OBVIOUS
  <2>1. DOMAIN list = 1..Len(list)
    BY DEF TypeOK
  <2> QED BY <2>1 DEF DueInv, UnderWay, Started, Fetched, InList, DueIsUnderWay
<1> QED BY <1>1, <1>2, StepDue, TypeCorrect, PTL DEF Spec
=============================================================================
