------------------------- MODULE InvitationsProofs -------------------------
(***************************************************************************)
(* Theorems about Invitations, for every set of invitations, sockets and   *)
(* users, every bound on the answers, and both kinds of user.              *)
(***************************************************************************)
EXTENDS Invitations, SequenceTheorems, FiniteSetTheorems, TLAPS

(* Removing one element shortens a sequence by one and keeps it typed.     *)
LEMMA RemoveAtType ==
  ASSUME NEW S, NEW s \in Seq(S), NEW r \in 1..Len(s)
  PROVE  /\ RemoveAt(s, r) \in Seq(S)
         /\ Len(RemoveAt(s, r)) = Len(s) - 1
         /\ \A j \in 1..(Len(s) - 1) :
              RemoveAt(s, r)[j] = IF j < r THEN s[j] ELSE s[j + 1]
<1> DEFINE front == SubSeq(s, 1, r - 1)
           back == SubSeq(s, r + 1, Len(s))
<1>1. /\ front \in Seq(S) /\ Len(front) = r - 1
      /\ \A i \in 1..(r - 1) : front[i] = s[i]
  BY SubSeqProperties
<1>2. /\ back \in Seq(S) /\ Len(back) = Len(s) - r
      /\ \A i \in 1..(Len(s) - r) : back[i] = s[r + i]
  <2>1. r + 1 \in Int /\ Len(s) \in Int /\ \A i \in (r + 1)..Len(s) : s[i] \in S
    OBVIOUS
  <2>2. /\ back \in Seq(S)
        /\ Len(back) = IF r + 1 <= Len(s) THEN Len(s) - (r + 1) + 1 ELSE 0
        /\ \A i \in 1..(Len(s) - (r + 1) + 1) : back[i] = s[(r + 1) + i - 1]
    BY <2>1, SubSeqProperties, Z3
  <2> HIDE DEF back
  <2> QED BY <2>2
<1>3. RemoveAt(s, r) = front \o back
  BY DEF RemoveAt
<1> HIDE DEF front, back
<1>4. /\ front \o back \in Seq(S)
      /\ Len(front \o back) = Len(s) - 1
      /\ \A j \in 1..(Len(s) - 1) :
           (front \o back)[j] = IF j <= r - 1 THEN front[j] ELSE back[j - (r - 1)]
  <2>1. /\ front \o back \in Seq(S)
        /\ Len(front \o back) = Len(front) + Len(back)
        /\ \A j \in 1..(Len(front) + Len(back)) :
             (front \o back)[j] = IF j <= Len(front) THEN front[j] ELSE back[j - Len(front)]
    BY <1>1, <1>2, ConcatProperties
  <2>2. Len(front) + Len(back) = Len(s) - 1
    BY <1>1, <1>2
  <2> QED BY <1>1, <2>1, <2>2
<1>5. ASSUME NEW j \in 1..(Len(s) - 1)
      PROVE  (front \o back)[j] = IF j < r THEN s[j] ELSE s[j + 1]
  <2>1. CASE j < r
    BY <1>1, <1>4, <2>1
  <2>2. CASE ~(j < r)
    <3>1. j - (r - 1) \in 1..(Len(s) - r) /\ ~(j <= r - 1)
      BY <2>2
    <3>2. (front \o back)[j] = back[j - (r - 1)]
      BY <1>4, <3>1
    <3>3. back[j - (r - 1)] = s[r + (j - (r - 1))]
      BY <1>2, <3>1
    <3>4. r + (j - (r - 1)) = j + 1
      OBVIOUS
    <3> QED BY <2>2, <3>2, <3>3, <3>4
  <2> QED BY <2>1, <2>2
<1> QED BY <1>3, <1>4, <1>5

(* Appending keeps every row and adds one at the end.                      *)
LEMMA AppendRows ==
  ASSUME NEW S, NEW s \in Seq(S), NEW e \in S
  PROVE  /\ Append(s, e) \in Seq(S)
         /\ Len(Append(s, e)) = Len(s) + 1
         /\ \A j \in 1..Len(s) : Append(s, e)[j] = s[j]
         /\ Append(s, e)[Len(s) + 1] = e
  OBVIOUS

-----------------------------------------------------------------------------
(* The type invariant: one step per action.                                *)

LEMMA TypeInit == Init => TypeOK
  BY SocketsAssumption DEF Init, TypeOK, NoName

LEMMA TypeStep == TypeOK /\ [Next]_vars => TypeOK'
<1> SUFFICES ASSUME TypeOK, [Next]_vars PROVE TypeOK'
  OBVIOUS
<1> USE DEF TypeOK, netVars, reqVars, listVars, tableVars, histVars
<1>1. ASSUME NEW i \in Invites, SendInvitation(i) PROVE TypeOK'
  BY <1>1 DEF SendInvitation, Entry, OpenSockets
<1>2. ASSUME NEW s \in Sockets, Connect(s) PROVE TypeOK'
  BY <1>2 DEF Connect
<1>3. ASSUME NEW s \in Sockets, Disconnect(s) PROVE TypeOK'
  BY <1>3 DEF Disconnect, Entry
<1>4. CASE ReadInvitations
  BY <1>4 DEF ReadInvitations
<1>5. CASE OpenTab
  BY <1>5 DEF OpenTab
<1>6. ASSUME NEW p \in pushes, ReceiveMessage(p) PROVE TypeOK'
  BY <1>6 DEF ReceiveMessage, Entry
<1>7. CASE Reload
  BY <1>7 DEF Reload
<1>8. ASSUME NEW r \in 1..rows, Render(r) PROVE TypeOK'
  <2>1. CASE r <= Len(arrList)
    <3>1. [row |-> r, entry |-> arrList[r], name |-> lastName, epoch |-> removals] \in Cell
      BY <2>1 DEF Cell
    <3> QED BY <1>8, <2>1, <3>1 DEF Render, Running
  <2>2. CASE ~(r <= Len(arrList))
    BY <1>8, <2>2 DEF Render, Running
  <2> QED BY <2>1, <2>2
<1>9. ASSUME NEW c \in cells, NEW kind \in Kind, Tap(c, kind) PROVE TypeOK'
  <2>1. [id |-> taps + 1, kind |-> kind, row |-> c.row, entry |-> c.entry, epoch |-> c.epoch] \in Answer
    BY DEF Cell, Answer
  <2> QED BY <1>9, <2>1 DEF Tap
<1>10. CASE ListReply
  BY <1>10 DEF ListReply, ListedEntry, Entry
<1>11. CASE ListFailure
  BY <1>11 DEF ListFailure
<1>12. ASSUME NEW e \in details, ListedDetail(e) PROVE TypeOK'
  BY <1>12, AppendRows DEF ListedDetail
<1>13. ASSUME NEW e \in details, ListedDetailFailure(e) PROVE TypeOK'
  BY <1>13 DEF ListedDetailFailure, Entry
<1>14. ASSUME NEW e \in details, PushedDetail(e) PROVE TypeOK'
  BY <1>14, AppendRows DEF PushedDetail
<1>15. ASSUME NEW e \in details, PushedDetailFailure(e) PROVE TypeOK'
  BY <1>15 DEF PushedDetailFailure, Entry
<1>16. ASSUME NEW e \in names, NameReply(e) PROVE TypeOK'
  BY <1>16, InitiatorAssumption DEF NameReply, Entry
<1>17. ASSUME NEW e \in names, NameFailure(e) PROVE TypeOK'
  BY <1>17 DEF NameFailure
<1>18. ASSUME NEW a \in answers, AnswerReply(a) PROVE TypeOK'
  <2>1. a.row \in Nat \ {0} /\ a.entry \in Entry
    BY DEF Answer
  <2>0. accepted' \subseteq Entry
    BY <1>18, <2>1 DEF AnswerReply
  <2>2. CASE a.row <= Len(arrList)
    BY <1>18, <2>0, <2>1, <2>2, RemoveAtType DEF AnswerReply, Running
  <2>3. CASE ~(a.row <= Len(arrList))
    BY <1>18, <2>0, <2>3 DEF AnswerReply
  <2> QED BY <2>2, <2>3
<1>19. ASSUME NEW a \in answers, AnswerFailure(a) PROVE TypeOK'
  BY <1>19 DEF AnswerFailure
<1>20. CASE UNCHANGED vars
  BY <1>20 DEF vars
<1> QED BY <1>1, <1>2, <1>3, <1>4, <1>5, <1>6, <1>7, <1>8, <1>9, <1>10, <1>11,
           <1>12, <1>13, <1>14, <1>15, <1>16, <1>17, <1>18, <1>19, <1>20
        DEF Next, Environment, MainThread, NetworkQueue

(* Every variable keeps its type in every reachable state.                 *)
THEOREM TypeCorrect == Spec => []TypeOK
  BY TypeInit, TypeStep, PTL DEF Spec

-----------------------------------------------------------------------------
(***************************************************************************)
(* The table and the answers in flight.  StaleOnlyAfterRemoval alone is    *)
(* not inductive: a removal must not bring an old epoch back to the        *)
(* current one, so epochs never exceed the count of removals; and the      *)
(* traps follow from the rows the table counted before any removal.        *)
(***************************************************************************)
TableInv ==
  /\ StaleOnlyAfterRemoval
  /\ \A x \in cells \cup answers : x.epoch <= removals
  /\ (reloads = 0) => \A c \in cells : c.epoch = removals
  /\ (removals = 0) => rows <= Len(arrList)
  /\ TrapNeedsRemoval

LEMMA TableInit == Init => TableInv
  BY DEF Init, TableInv, StaleOnlyAfterRemoval, TrapNeedsRemoval

(* A step that leaves the table and the answers alone, and only appends,   *)
(* keeps every row current.                                                *)
LEMMA TableAppend ==
  ASSUME TypeOK, TableInv,
         UNCHANGED <<rows, cells, answers, removals>>,
         trap' \in {"none", "decode"} \/ trap' = trap,
         reloads' >= reloads, reloads' \in Nat,
         arrList' = arrList \/ \E e \in Entry : arrList' = Append(arrList, e)
  PROVE  TableInv'
<1>1. /\ Len(arrList') >= Len(arrList) /\ Len(arrList') \in Nat /\ Len(arrList) \in Nat
      /\ \A j \in 1..Len(arrList) : arrList'[j] = arrList[j]
  BY AppendRows DEF TypeOK
<1>2. ASSUME NEW x \in cells \cup answers, RowIsCurrent(x) PROVE RowIsCurrent(x)'
  BY <1>1, <1>2 DEF RowIsCurrent, TypeOK, Cell, Answer
<1>3. StaleOnlyAfterRemoval'
  BY <1>2 DEF TableInv, StaleOnlyAfterRemoval
<1>4. (removals' = 0) => rows' <= Len(arrList')
  BY <1>1 DEF TableInv, TypeOK
<1>5. TrapNeedsRemoval'
  BY DEF TableInv, TrapNeedsRemoval
<1>6. (reloads' = 0) => reloads = 0
  BY DEF TypeOK
<1> QED BY <1>3, <1>4, <1>5, <1>6 DEF TableInv

LEMMA TableStep == TypeOK /\ TableInv /\ [Next]_vars => TableInv'
<1> SUFFICES ASSUME TypeOK, TableInv, [Next]_vars PROVE TableInv'
  OBVIOUS
<1> USE DEF netVars, reqVars, listVars, tableVars, histVars
<1>n. reloads \in Nat /\ reloads + 1 \in Nat /\ reloads >= reloads /\ reloads + 1 >= reloads
  BY DEF TypeOK
<1>1. ASSUME NEW i \in Invites, SendInvitation(i) PROVE TableInv'
  BY <1>1, <1>n, TableAppend DEF SendInvitation
<1>2. ASSUME NEW s \in Sockets, Connect(s) PROVE TableInv'
  BY <1>2, <1>n, TableAppend DEF Connect
<1>3. ASSUME NEW s \in Sockets, Disconnect(s) PROVE TableInv'
  BY <1>3, <1>n, TableAppend DEF Disconnect
<1>4. CASE ReadInvitations
  BY <1>4, <1>n, TableAppend DEF ReadInvitations
<1>5. CASE OpenTab
  BY <1>5, <1>n, TableAppend DEF OpenTab
<1>6. ASSUME NEW p \in pushes, ReceiveMessage(p) PROVE TableInv'
  BY <1>6, <1>n, TableAppend DEF ReceiveMessage
<1>7. CASE Reload
  BY <1>7 DEF Reload, TypeOK, TableInv, StaleOnlyAfterRemoval, RowIsCurrent, TrapNeedsRemoval
<1>8. ASSUME NEW r \in 1..rows, Render(r) PROVE TableInv'
  <2>1. CASE r <= Len(arrList)
    <3>1. PICK c : /\ c.epoch = removals /\ c.row = r /\ c.entry = arrList[r]
                   /\ cells' = cells \cup {c}
      BY <1>8, <2>1 DEF Render
    <3>2. /\ UNCHANGED <<answers, arrList, removals, reloads, rows, trap>>
          /\ RowIsCurrent(c)' /\ c.epoch <= removals
      BY <1>8, <2>1, <3>1 DEF Render, RowIsCurrent, TypeOK
    <3>3. \A x \in cells \cup answers : RowIsCurrent(x)' = RowIsCurrent(x)
      BY <3>2 DEF RowIsCurrent
    <3> QED BY <3>1, <3>2, <3>3 DEF TableInv, StaleOnlyAfterRemoval, TrapNeedsRemoval
  <2>2. CASE ~(r <= Len(arrList))
    <3>1. removals # 0
      BY <2>2 DEF TableInv, TypeOK
    <3>2. UNCHANGED <<cells, answers, arrList, removals, reloads, rows>>
      BY <1>8, <2>2 DEF Render
    <3> QED BY <3>1, <3>2 DEF TableInv, StaleOnlyAfterRemoval, RowIsCurrent,
                              TrapNeedsRemoval, TypeOK
  <2> QED BY <2>1, <2>2
<1>9. ASSUME NEW c \in cells, NEW kind \in Kind, Tap(c, kind) PROVE TableInv'
  <2>1. PICK a : /\ a.epoch = c.epoch /\ a.row = c.row /\ a.entry = c.entry
                 /\ answers' = answers \cup {a}
    BY <1>9 DEF Tap
  <2>2. /\ UNCHANGED <<cells, arrList, removals, reloads, rows, trap>>
        /\ RowIsCurrent(a)' = RowIsCurrent(c)
    BY <1>9, <2>1 DEF Tap, RowIsCurrent
  <2>3. \A x \in cells \cup answers : RowIsCurrent(x)' = RowIsCurrent(x)
    BY <2>2 DEF RowIsCurrent
  <2> QED BY <2>1, <2>2, <2>3 DEF TableInv, StaleOnlyAfterRemoval, TrapNeedsRemoval
<1>10. CASE ListReply
  BY <1>10, <1>n, TableAppend DEF ListReply
<1>11. CASE ListFailure
  BY <1>11, <1>n, TableAppend DEF ListFailure
<1>12. ASSUME NEW e \in details, ListedDetail(e) PROVE TableInv'
  BY <1>12, <1>n, TableAppend DEF ListedDetail, TypeOK
<1>13. ASSUME NEW e \in details, ListedDetailFailure(e) PROVE TableInv'
  BY <1>13, <1>n, TableAppend DEF ListedDetailFailure
<1>14. ASSUME NEW e \in details, PushedDetail(e) PROVE TableInv'
  BY <1>14, <1>n, TableAppend DEF PushedDetail, TypeOK
<1>15. ASSUME NEW e \in details, PushedDetailFailure(e) PROVE TableInv'
  BY <1>15, <1>n, TableAppend DEF PushedDetailFailure
<1>16. ASSUME NEW e \in names, NameReply(e) PROVE TableInv'
  BY <1>16, <1>n, TableAppend DEF NameReply
<1>17. ASSUME NEW e \in names, NameFailure(e) PROVE TableInv'
  BY <1>17, <1>n, TableAppend DEF NameFailure
<1>18. ASSUME NEW a \in answers, AnswerReply(a) PROVE TableInv'
  <2>1. a.row \in Nat \ {0} /\ a.epoch \in Nat
    BY DEF Answer, TypeOK
  <2>2. CASE a.row <= Len(arrList)
    <3>1. /\ answers' = answers \ {a} /\ removals' = removals + 1
          /\ reloads' = reloads + 1 /\ UNCHANGED <<cells, rows, trap>>
      BY <1>18, <2>2 DEF AnswerReply
    <3>2. \A x \in cells \cup answers : x.epoch \in Nat /\ x.epoch <= removals
      BY DEF TypeOK, TableInv, Cell, Answer
    <3>3. \A x \in cells' \cup answers' : x.epoch < removals'
      BY <3>1, <3>2 DEF TypeOK
    <3>4. \A x \in cells' \cup answers' : x.epoch # removals' /\ x.epoch <= removals'
      BY <3>1, <3>2, <3>3 DEF TypeOK
    <3>5. StaleOnlyAfterRemoval'
      BY <3>4 DEF StaleOnlyAfterRemoval
    <3>6. TrapNeedsRemoval' /\ removals' # 0 /\ reloads' # 0
      BY <3>1 DEF TrapNeedsRemoval, TypeOK
    <3> QED BY <3>4, <3>5, <3>6 DEF TableInv
  <2>3. CASE ~(a.row <= Len(arrList))
    <3>1. removals # 0
      <4>1. a.epoch # removals
        BY <2>3 DEF TableInv, StaleOnlyAfterRemoval, RowIsCurrent
      <4> QED BY <2>1, <4>1 DEF TableInv, TypeOK
    <3>2. /\ answers' = answers \ {a}
          /\ UNCHANGED <<cells, arrList, removals, reloads, rows>>
      BY <1>18, <2>3 DEF AnswerReply
    <3> QED BY <3>1, <3>2 DEF TableInv, StaleOnlyAfterRemoval, RowIsCurrent,
                              TrapNeedsRemoval, TypeOK
  <2> QED BY <2>2, <2>3
<1>19. ASSUME NEW a \in answers, AnswerFailure(a) PROVE TableInv'
  BY <1>19 DEF AnswerFailure, TableInv, StaleOnlyAfterRemoval, RowIsCurrent, TrapNeedsRemoval
<1>20. CASE UNCHANGED vars
  BY <1>20, <1>n, TableAppend DEF vars
<1> QED BY <1>1, <1>2, <1>3, <1>4, <1>5, <1>6, <1>7, <1>8, <1>9, <1>10, <1>11,
           <1>12, <1>13, <1>14, <1>15, <1>16, <1>17, <1>18, <1>19, <1>20
        DEF Next, Environment, MainThread, NetworkQueue

LEMMA TableInvariant == Spec => [](TypeOK /\ TableInv)
  BY TypeInit, TypeStep, TableInit, TableStep, PTL DEF Spec

(* A row captured by a cell or an answer is current until a removal.       *)
THEOREM StaleOnlyAfterRemovalHolds == Spec => []StaleOnlyAfterRemoval
<1>1. TableInv => StaleOnlyAfterRemoval
  BY DEF TableInv
<1> QED BY <1>1, TableInvariant, PTL

(* With no reload queued, every cell on the screen is current.             *)
THEOREM SettledTableIsCurrentHolds == Spec => []SettledTableIsCurrent
<1>1. TableInv => SettledTableIsCurrent
  BY DEF TableInv, StaleOnlyAfterRemoval, SettledTableIsCurrent
<1> QED BY <1>1, TableInvariant, PTL

(* No index trap before the first removal.                                 *)
THEOREM TrapNeedsRemovalHolds == Spec => []TrapNeedsRemoval
<1>1. TableInv => TrapNeedsRemoval
  BY DEF TableInv
<1> QED BY <1>1, TableInvariant, PTL

(* An accepted answer whose cell no removal has outdated removes the       *)
(* invitation it was about and no other.                                   *)
THEOREM RemovesAnsweredHolds == Spec => RemovesAnswered
<1> DEFINE A == \A a \in answers : Accepted(a) /\ a.epoch = removals => RemovesOnly(a.entry)
<1>1. TypeOK /\ TableInv /\ [Next]_vars => [A]_vars
  <2> SUFFICES ASSUME TypeOK, TableInv, Next,
                      NEW a \in answers, Accepted(a), a.epoch = removals
               PROVE  RemovesOnly(a.entry)
    OBVIOUS
  <2>1. a \notin answers' /\ ~(arrList' = arrList)
    BY DEF Accepted, TypeOK
  <2>2. PICK b \in answers : AnswerReply(b)
    BY <2>1 DEF Next, Environment, MainThread, NetworkQueue, SendInvitation, Connect,
       Disconnect, ReadInvitations, OpenTab, ReceiveMessage, Reload, Render, Tap,
       ListReply, ListFailure, ListedDetail, ListedDetailFailure, PushedDetail,
       PushedDetailFailure, NameReply, NameFailure, AnswerFailure,
       netVars, reqVars, listVars, tableVars, histVars
  <2>3. b = a
    BY <2>1, <2>2 DEF AnswerReply
  <2>4. arrList' = RemoveAt(arrList, a.row)
    BY <2>1, <2>2, <2>3 DEF AnswerReply
  <2>5. RowIsCurrent(a)
    BY DEF TableInv, StaleOnlyAfterRemoval
  <2>6. a.row \in 1..Len(arrList) /\ arrList[a.row] = a.entry
    BY <2>5 DEF RowIsCurrent, TypeOK, Answer
  <2> QED BY <2>4, <2>6 DEF RemovesOnly
<1>2. Spec => [][A]_vars
  BY <1>1, TableInvariant, PTL DEF Spec
<1> QED BY <1>2 DEF RemovesAnswered

-----------------------------------------------------------------------------
(***************************************************************************)
(* Deliveries.  Each entry is announced, requested and appended at most    *)
(* once; an invitation no delivery of which failed is in the server's      *)
(* answer still to come, or on its way by one of the two paths, or in the  *)
(* list already.                                                           *)
(***************************************************************************)
OnceInv ==
  /\ \A e \in pushes : e.origin # ListOrigin
  /\ \A e \in pushes \cup details \cup arrived :
        e.origin # ListOrigin => e.inv \in created
  /\ pushes \cap (details \cup arrived) = {}
  /\ details \cap arrived = {}
  /\ (listing # "finished") =>
        \A e \in details \cup arrived : e.origin # ListOrigin

OnItsWay(i) ==
  \/ listing \in {"unissued", "issued"}
  \/ listing = "read" /\ i \in snapshot
  \/ \E e \in pushes \cup details \cup arrived : e.inv = i

NotMissedInv == \A i \in created \ lost : OnItsWay(i)

ElementsInv ==
  /\ \A j \in 1..Len(arrList) : arrList[j] \in arrived
  /\ \A i, j \in 1..Len(arrList) : arrList[i] = arrList[j] => i = j
  /\ IsFiniteSet(arrived)
  /\ Cardinality(arrived) = Len(arrList) + removals

LEMMA DeliveryInit == Init => OnceInv /\ NotMissedInv /\ ElementsInv
  BY FS_EmptySet DEF Init, OnceInv, NotMissedInv, ElementsInv

LEMMA OnceStep == TypeOK /\ OnceInv /\ [Next]_vars => OnceInv'
<1> SUFFICES ASSUME TypeOK, OnceInv, [Next]_vars PROVE OnceInv'
  OBVIOUS
<1> USE DEF OnceInv, netVars, reqVars, listVars, tableVars, histVars
<1>1. ASSUME NEW i \in Invites, SendInvitation(i) PROVE OnceInv'
  BY <1>1, SocketsAssumption DEF SendInvitation, OpenSockets
<1>2. ASSUME NEW s \in Sockets, Connect(s) PROVE OnceInv'
  BY <1>2 DEF Connect
<1>3. ASSUME NEW s \in Sockets, Disconnect(s) PROVE OnceInv'
  BY <1>3 DEF Disconnect
<1>4. CASE ReadInvitations
  BY <1>4 DEF ReadInvitations
<1>5. CASE OpenTab
  BY <1>5 DEF OpenTab
<1>6. ASSUME NEW p \in pushes, ReceiveMessage(p) PROVE OnceInv'
  BY <1>6 DEF ReceiveMessage
<1>7. CASE Reload
  BY <1>7 DEF Reload
<1>8. ASSUME NEW r \in 1..rows, Render(r) PROVE OnceInv'
  BY <1>8 DEF Render
<1>9. ASSUME NEW c \in cells, NEW kind \in Kind, Tap(c, kind) PROVE OnceInv'
  BY <1>9 DEF Tap
<1>10. CASE ListReply
  BY <1>10 DEF ListReply, ListedEntry
<1>11. CASE ListFailure
  BY <1>11 DEF ListFailure
<1>12. ASSUME NEW e \in details, ListedDetail(e) PROVE OnceInv'
  BY <1>12 DEF ListedDetail
<1>13. ASSUME NEW e \in details, ListedDetailFailure(e) PROVE OnceInv'
  BY <1>13 DEF ListedDetailFailure
<1>14. ASSUME NEW e \in details, PushedDetail(e) PROVE OnceInv'
  BY <1>14 DEF PushedDetail
<1>15. ASSUME NEW e \in details, PushedDetailFailure(e) PROVE OnceInv'
  BY <1>15 DEF PushedDetailFailure
<1>16. ASSUME NEW e \in names, NameReply(e) PROVE OnceInv'
  BY <1>16 DEF NameReply
<1>17. ASSUME NEW e \in names, NameFailure(e) PROVE OnceInv'
  BY <1>17 DEF NameFailure
<1>18. ASSUME NEW a \in answers, AnswerReply(a) PROVE OnceInv'
  BY <1>18 DEF AnswerReply
<1>19. ASSUME NEW a \in answers, AnswerFailure(a) PROVE OnceInv'
  BY <1>19 DEF AnswerFailure
<1>20. CASE UNCHANGED vars
  BY <1>20 DEF vars
<1> QED BY <1>1, <1>2, <1>3, <1>4, <1>5, <1>6, <1>7, <1>8, <1>9, <1>10, <1>11,
           <1>12, <1>13, <1>14, <1>15, <1>16, <1>17, <1>18, <1>19, <1>20
        DEF Next, Environment, MainThread, NetworkQueue

LEMMA NotMissedStep == TypeOK /\ NotMissedInv /\ [Next]_vars => NotMissedInv'
<1> SUFFICES ASSUME TypeOK, NotMissedInv, [Next]_vars PROVE NotMissedInv'
  OBVIOUS
<1> USE DEF NotMissedInv, OnItsWay, netVars, reqVars, listVars, tableVars, histVars
<1>1. ASSUME NEW i \in Invites, SendInvitation(i) PROVE NotMissedInv'
  <2>1. ASSUME i \notin lost' PROVE OnItsWay(i)'
    <3>1. OpenSockets = Sockets
      BY <1>1, <2>1 DEF SendInvitation
    <3>2. PICK s \in Sockets : TRUE
      BY SocketsAssumption
    <3>3. [inv |-> i, origin |-> s] \in pushes'
      BY <1>1, <3>1, <3>2 DEF SendInvitation
    <3> QED BY <3>3
  <2>2. \A k \in created : OnItsWay(k) => OnItsWay(k)'
    BY <1>1 DEF SendInvitation
  <2> QED BY <1>1, <2>1, <2>2 DEF SendInvitation
<1>2. ASSUME NEW s \in Sockets, Connect(s) PROVE NotMissedInv'
  BY <1>2 DEF Connect
<1>3. ASSUME NEW s \in Sockets, Disconnect(s) PROVE NotMissedInv'
  <2>1. \A e \in pushes : e \in pushes' \/ e.inv \in lost'
    BY <1>3 DEF Disconnect
  <2>2. \A i \in created \ lost' : OnItsWay(i) => OnItsWay(i)'
    BY <1>3, <2>1 DEF Disconnect
  <2> QED BY <1>3, <2>2 DEF Disconnect
<1>4. CASE ReadInvitations
  BY <1>4 DEF ReadInvitations
<1>5. CASE OpenTab
  BY <1>5 DEF OpenTab
<1>6. ASSUME NEW p \in pushes, ReceiveMessage(p) PROVE NotMissedInv'
  <2>1. \A e \in pushes : e \in pushes' \cup details' \/ e.inv \in lost'
    BY <1>6 DEF ReceiveMessage
  <2>2. \A i \in created \ lost' : OnItsWay(i) => OnItsWay(i)'
    BY <1>6, <2>1 DEF ReceiveMessage
  <2> QED BY <1>6, <2>2 DEF ReceiveMessage
<1>7. CASE Reload
  BY <1>7 DEF Reload
<1>8. ASSUME NEW r \in 1..rows, Render(r) PROVE NotMissedInv'
  BY <1>8 DEF Render
<1>9. ASSUME NEW c \in cells, NEW kind \in Kind, Tap(c, kind) PROVE NotMissedInv'
  BY <1>9 DEF Tap
<1>10. CASE ListReply
  <2>1. \A i \in snapshot : ListedEntry(i) \in details' /\ ListedEntry(i).inv = i
    BY <1>10 DEF ListReply, ListedEntry
  <2>2. \A i \in created \ lost : OnItsWay(i) => OnItsWay(i)'
    BY <1>10, <2>1 DEF ListReply
  <2> QED BY <1>10, <2>2 DEF ListReply
<1>11. CASE ListFailure
  BY <1>11 DEF ListFailure
<1>12. ASSUME NEW e \in details, ListedDetail(e) PROVE NotMissedInv'
  BY <1>12 DEF ListedDetail
<1>13. ASSUME NEW e \in details, ListedDetailFailure(e) PROVE NotMissedInv'
  BY <1>13 DEF ListedDetailFailure
<1>14. ASSUME NEW e \in details, PushedDetail(e) PROVE NotMissedInv'
  BY <1>14 DEF PushedDetail, HandlerRegistered
<1>15. ASSUME NEW e \in details, PushedDetailFailure(e) PROVE NotMissedInv'
  BY <1>15 DEF PushedDetailFailure
<1>16. ASSUME NEW e \in names, NameReply(e) PROVE NotMissedInv'
  BY <1>16 DEF NameReply
<1>17. ASSUME NEW e \in names, NameFailure(e) PROVE NotMissedInv'
  BY <1>17 DEF NameFailure
<1>18. ASSUME NEW a \in answers, AnswerReply(a) PROVE NotMissedInv'
  BY <1>18 DEF AnswerReply
<1>19. ASSUME NEW a \in answers, AnswerFailure(a) PROVE NotMissedInv'
  BY <1>19 DEF AnswerFailure
<1>20. CASE UNCHANGED vars
  BY <1>20 DEF vars
<1> QED BY <1>1, <1>2, <1>3, <1>4, <1>5, <1>6, <1>7, <1>8, <1>9, <1>10, <1>11,
           <1>12, <1>13, <1>14, <1>15, <1>16, <1>17, <1>18, <1>19, <1>20
        DEF Next, Environment, MainThread, NetworkQueue

LEMMA ElementsStep == TypeOK /\ OnceInv /\ ElementsInv /\ [Next]_vars => ElementsInv'
<1> SUFFICES ASSUME TypeOK, OnceInv, ElementsInv, [Next]_vars PROVE ElementsInv'
  OBVIOUS
<1> USE DEF ElementsInv, netVars, reqVars, listVars, tableVars, histVars
<1>a. ASSUME NEW e \in details, arrList' = Append(arrList, e), arrived' = arrived \cup {e},
             removals' = removals
      PROVE  ElementsInv'
  <2>1. e \in Entry /\ e \notin arrived
    BY DEF TypeOK, OnceInv
  <2>2. /\ Len(arrList') = Len(arrList) + 1 /\ Len(arrList) \in Nat
        /\ \A j \in 1..Len(arrList) : arrList'[j] = arrList[j]
        /\ arrList'[Len(arrList) + 1] = e
    BY <1>a, <2>1, AppendRows DEF TypeOK
  <2>3. IsFiniteSet(arrived') /\ Cardinality(arrived') = Cardinality(arrived) + 1
    BY <1>a, <2>1, FS_AddElement
  <2>4. \A j \in 1..Len(arrList') : j \in 1..Len(arrList) \/ j = Len(arrList) + 1
    BY <2>2
  <2>5. \A j \in 1..Len(arrList') : arrList'[j] \in arrived'
    BY <1>a, <2>2, <2>4
  <2>6. \A i, j \in 1..Len(arrList') : arrList'[i] = arrList'[j] => i = j
    BY <2>1, <2>2, <2>4
  <2>7. Cardinality(arrived') = Len(arrList') + removals'
    BY <1>a, <2>2, <2>3 DEF TypeOK
  <2> QED BY <2>3, <2>5, <2>6, <2>7
<1>1. ASSUME NEW i \in Invites, SendInvitation(i) PROVE ElementsInv'
  BY <1>1 DEF SendInvitation
<1>2. ASSUME NEW s \in Sockets, Connect(s) PROVE ElementsInv'
  BY <1>2 DEF Connect
<1>3. ASSUME NEW s \in Sockets, Disconnect(s) PROVE ElementsInv'
  BY <1>3 DEF Disconnect
<1>4. CASE ReadInvitations
  BY <1>4 DEF ReadInvitations
<1>5. CASE OpenTab
  BY <1>5 DEF OpenTab
<1>6. ASSUME NEW p \in pushes, ReceiveMessage(p) PROVE ElementsInv'
  BY <1>6 DEF ReceiveMessage
<1>7. CASE Reload
  BY <1>7 DEF Reload
<1>8. ASSUME NEW r \in 1..rows, Render(r) PROVE ElementsInv'
  BY <1>8 DEF Render
<1>9. ASSUME NEW c \in cells, NEW kind \in Kind, Tap(c, kind) PROVE ElementsInv'
  BY <1>9 DEF Tap
<1>10. CASE ListReply
  BY <1>10 DEF ListReply
<1>11. CASE ListFailure
  BY <1>11 DEF ListFailure
<1>12. ASSUME NEW e \in details, ListedDetail(e) PROVE ElementsInv'
  BY <1>12, <1>a DEF ListedDetail
<1>13. ASSUME NEW e \in details, ListedDetailFailure(e) PROVE ElementsInv'
  BY <1>13 DEF ListedDetailFailure
<1>14. ASSUME NEW e \in details, PushedDetail(e) PROVE ElementsInv'
  BY <1>14, <1>a DEF PushedDetail
<1>15. ASSUME NEW e \in details, PushedDetailFailure(e) PROVE ElementsInv'
  BY <1>15 DEF PushedDetailFailure
<1>16. ASSUME NEW e \in names, NameReply(e) PROVE ElementsInv'
  BY <1>16 DEF NameReply
<1>17. ASSUME NEW e \in names, NameFailure(e) PROVE ElementsInv'
  BY <1>17 DEF NameFailure
<1>18. ASSUME NEW a \in answers, AnswerReply(a) PROVE ElementsInv'
  <2>1. CASE a.row <= Len(arrList)
    <3>1. a.row \in 1..Len(arrList)
      BY <2>1 DEF TypeOK, Answer
    <3>2. arrList' = RemoveAt(arrList, a.row) /\ removals' = removals + 1 /\ arrived' = arrived
      BY <1>18, <2>1 DEF AnswerReply
    <3>3. /\ Len(arrList') = Len(arrList) - 1
          /\ \A j \in 1..Len(arrList') :
               arrList'[j] = IF j < a.row THEN arrList[j] ELSE arrList[j + 1]
      <4>1. arrList \in Seq(Entry)
        BY DEF TypeOK
      <4> QED BY <3>1, <3>2, <4>1, RemoveAtType
    <3>4. Len(arrList) \in Nat /\ removals \in Nat /\ a.row \in Nat
      BY <3>1 DEF TypeOK
    <3>5. DEFINE from(j) == IF j < a.row THEN j ELSE j + 1
    <3>6. \A j \in 1..Len(arrList') : from(j) \in 1..Len(arrList) /\ arrList'[j] = arrList[from(j)]
      BY <3>3, <3>4
    <3>7. \A i, j \in 1..Len(arrList') : from(i) = from(j) => i = j
      BY <3>4
    <3> HIDE DEF from
    <3>8. \A j \in 1..Len(arrList') : arrList'[j] \in arrived'
      BY <3>2, <3>6
    <3>9. \A i, j \in 1..Len(arrList') : arrList'[i] = arrList'[j] => i = j
      BY <3>6, <3>7
    <3>10. IsFiniteSet(arrived') /\ Cardinality(arrived') = Len(arrList') + removals'
      BY <3>2, <3>3, <3>4
    <3> QED BY <3>8, <3>9, <3>10
  <2>2. CASE ~(a.row <= Len(arrList))
    <3>1. UNCHANGED <<arrList, removals, arrived>>
      BY <1>18, <2>2 DEF AnswerReply
    <3> QED BY <3>1
  <2> QED BY <2>1, <2>2
<1>19. ASSUME NEW a \in answers, AnswerFailure(a) PROVE ElementsInv'
  BY <1>19 DEF AnswerFailure
<1>20. CASE UNCHANGED vars
  BY <1>20 DEF vars
<1> QED BY <1>1, <1>2, <1>3, <1>4, <1>5, <1>6, <1>7, <1>8, <1>9, <1>10, <1>11,
           <1>12, <1>13, <1>14, <1>15, <1>16, <1>17, <1>18, <1>19, <1>20
        DEF Next, Environment, MainThread, NetworkQueue

LEMMA DeliveryInvariant == Spec => [](TypeOK /\ OnceInv /\ NotMissedInv /\ ElementsInv)
  BY TypeInit, TypeStep, DeliveryInit, OnceStep, NotMissedStep, ElementsStep, PTL DEF Spec

(* Once the network is quiet, an invitation whose deliveries all succeeded *)
(* has been appended to the list.                                          *)
THEOREM MissedOnlyWhenLostHolds == Spec => []MissedOnlyWhenLost
<1>1. TypeOK /\ NotMissedInv => MissedOnlyWhenLost
  BY DEF NotMissedInv, OnItsWay, MissedOnlyWhenLost, Quiet, TypeOK
<1> QED BY <1>1, DeliveryInvariant, PTL

(* No delivery is appended twice, and only removals take elements away.    *)
THEOREM ElementsAccountedForHolds == Spec => []ElementsAccountedFor
<1>1. ElementsInv => ElementsAccountedFor
  BY DEF ElementsInv, ElementsAccountedFor
<1> QED BY <1>1, DeliveryInvariant, PTL

-----------------------------------------------------------------------------
(* The rows of listed invitations.                                         *)

(* Steps that keep the list and the rows, and leave a queued reload.       *)
LEMMA ListedFrame ==
  ASSUME TypeOK, ListedIsInTable, UNCHANGED <<arrList, rows>>,
         reloads' = reloads \/ reloads' = reloads + 1
  PROVE  ListedIsInTable'
<1>1. reloads > 0 => reloads' > 0
  BY DEF TypeOK
<1> QED BY <1>1 DEF ListedIsInTable

LEMMA ListedStep == TypeOK /\ ListedIsInTable /\ [Next]_vars => ListedIsInTable'
<1> SUFFICES ASSUME TypeOK, ListedIsInTable, [Next]_vars PROVE ListedIsInTable'
  OBVIOUS
<1> USE DEF netVars, reqVars, listVars, tableVars, histVars
<1>1. ASSUME NEW i \in Invites, SendInvitation(i) PROVE ListedIsInTable'
  BY <1>1, ListedFrame DEF SendInvitation
<1>2. ASSUME NEW s \in Sockets, Connect(s) \/ Disconnect(s) PROVE ListedIsInTable'
  BY <1>2, ListedFrame DEF Connect, Disconnect
<1>3. CASE ReadInvitations \/ OpenTab
  BY <1>3, ListedFrame DEF ReadInvitations, OpenTab
<1>4. ASSUME NEW p \in pushes, ReceiveMessage(p) PROVE ListedIsInTable'
  BY <1>4, ListedFrame DEF ReceiveMessage
<1>5. CASE Reload
  BY <1>5 DEF Reload, ListedIsInTable
<1>6. ASSUME NEW r \in 1..rows, Render(r) PROVE ListedIsInTable'
  BY <1>6, ListedFrame DEF Render
<1>7. ASSUME NEW c \in cells, NEW kind \in Kind, Tap(c, kind) PROVE ListedIsInTable'
  BY <1>7, ListedFrame DEF Tap
<1>8. CASE ListReply \/ ListFailure
  BY <1>8, ListedFrame DEF ListReply, ListFailure
<1>9. ASSUME NEW e \in details, ListedDetail(e) PROVE ListedIsInTable'
  BY <1>9 DEF ListedDetail, ListedIsInTable, TypeOK
<1>10. ASSUME NEW e \in details, PushedDetail(e) PROVE ListedIsInTable'
  <2>1. e \in Entry /\ e.origin # ListOrigin
    BY <1>10 DEF PushedDetail, TypeOK
  <2>2. UNCHANGED <<rows, reloads>> /\ arrList' \in {arrList, Append(arrList, e)}
    BY <1>10 DEF PushedDetail
  <2>3. CASE arrList' = arrList
    BY <2>2, <2>3, ListedFrame
  <2>4. CASE arrList' = Append(arrList, e)
    <3>1. /\ Len(arrList') = Len(arrList) + 1 /\ Len(arrList) \in Nat
          /\ \A j \in 1..Len(arrList) : arrList'[j] = arrList[j]
          /\ arrList'[Len(arrList) + 1] = e
      BY <2>1, <2>4, AppendRows DEF TypeOK
    <3>2. \A j \in 1..Len(arrList') : j \in 1..Len(arrList) \/ j = Len(arrList) + 1
      BY <3>1
    <3> QED BY <2>1, <2>2, <3>1, <3>2 DEF ListedIsInTable
  <2> QED BY <2>2, <2>3, <2>4
<1>11. ASSUME NEW e \in details, ListedDetailFailure(e) \/ PushedDetailFailure(e)
       PROVE  ListedIsInTable'
  BY <1>11, ListedFrame DEF ListedDetailFailure, PushedDetailFailure
<1>12. ASSUME NEW e \in names, NameReply(e) \/ NameFailure(e) PROVE ListedIsInTable'
  BY <1>12, ListedFrame DEF NameReply, NameFailure
<1>13. ASSUME NEW a \in answers, AnswerReply(a) PROVE ListedIsInTable'
  <2>1. \/ reloads' = reloads + 1
        \/ UNCHANGED <<arrList, rows, reloads>>
    BY <1>13 DEF AnswerReply
  <2>2. reloads' = reloads + 1 => reloads' > 0
    BY DEF TypeOK
  <2> QED BY <2>1, <2>2, ListedFrame DEF ListedIsInTable
<1>14. ASSUME NEW a \in answers, AnswerFailure(a) PROVE ListedIsInTable'
  BY <1>14, ListedFrame DEF AnswerFailure
<1>15. CASE UNCHANGED vars
  BY <1>15, ListedFrame DEF vars
<1> QED BY <1>1, <1>2, <1>3, <1>4, <1>5, <1>6, <1>7, <1>8, <1>9, <1>10, <1>11,
           <1>12, <1>13, <1>14, <1>15
        DEF Next, Environment, MainThread, NetworkQueue

(* A listed invitation is in the table, or a reload that will count its    *)
(* row is queued, through any removals and announcements                   *)
(* (EventController 31-33, 52-55 and 121-124).                             *)
THEOREM ListedIsInTableHolds == Spec => []ListedIsInTable
<1>1. Init => ListedIsInTable
  BY DEF Init, ListedIsInTable
<1> QED BY <1>1, TypeInit, TypeStep, ListedStep, PTL DEF Spec

-----------------------------------------------------------------------------
(***************************************************************************)
(* For a user who lets the table settle between two answers, Invitations   *)
(* implements PendingInvitations, whatever the server, the sockets and the *)
(* order of the replies do.                                                *)
(***************************************************************************)

(* Such a user has at most one answer in flight, and no removal can come   *)
(* between its tap and its reply; so the server has only accepted answers  *)
(* to invitations that were on the list.                                   *)
PatientInv ==
  /\ \A a, b \in answers : a = b
  /\ \A a \in answers : a.epoch = removals
  /\ accepted \subseteq arrived

LEMMA PatientStep ==
  ASSUME Overlap = FALSE
  PROVE  TypeOK /\ TableInv /\ PatientInv /\ ElementsInv /\ [Next]_vars => PatientInv'
<1> SUFFICES ASSUME TypeOK, TableInv, PatientInv, ElementsInv, [Next]_vars PROVE PatientInv'
  OBVIOUS
<1> USE DEF PatientInv, netVars, reqVars, listVars, tableVars, histVars
<1>1. ASSUME NEW i \in Invites, SendInvitation(i) PROVE PatientInv'
  BY <1>1 DEF SendInvitation
<1>2. ASSUME NEW s \in Sockets, Connect(s) PROVE PatientInv'
  BY <1>2 DEF Connect
<1>3. ASSUME NEW s \in Sockets, Disconnect(s) PROVE PatientInv'
  BY <1>3 DEF Disconnect
<1>4. CASE ReadInvitations
  BY <1>4 DEF ReadInvitations
<1>5. CASE OpenTab
  BY <1>5 DEF OpenTab
<1>6. ASSUME NEW p \in pushes, ReceiveMessage(p) PROVE PatientInv'
  BY <1>6 DEF ReceiveMessage
<1>7. CASE Reload
  BY <1>7 DEF Reload
<1>8. ASSUME NEW r \in 1..rows, Render(r) PROVE PatientInv'
  BY <1>8 DEF Render
<1>9. ASSUME NEW c \in cells, NEW kind \in Kind, Tap(c, kind) PROVE PatientInv'
  <2>1. answers = {} /\ c.epoch = removals
    BY <1>9 DEF Tap, MayTap, TableInv
  <2>2. PICK a : a.epoch = c.epoch /\ answers' = answers \cup {a}
    BY <1>9 DEF Tap
  <2>3. UNCHANGED <<removals, accepted, arrived>>
    BY <1>9 DEF Tap
  <2> QED BY <2>1, <2>2, <2>3
<1>10. CASE ListReply
  BY <1>10 DEF ListReply
<1>11. CASE ListFailure
  BY <1>11 DEF ListFailure
<1>12. ASSUME NEW e \in details, ListedDetail(e) PROVE PatientInv'
  BY <1>12 DEF ListedDetail
<1>13. ASSUME NEW e \in details, ListedDetailFailure(e) PROVE PatientInv'
  BY <1>13 DEF ListedDetailFailure
<1>14. ASSUME NEW e \in details, PushedDetail(e) PROVE PatientInv'
  BY <1>14 DEF PushedDetail
<1>15. ASSUME NEW e \in details, PushedDetailFailure(e) PROVE PatientInv'
  BY <1>15 DEF PushedDetailFailure
<1>16. ASSUME NEW e \in names, NameReply(e) PROVE PatientInv'
  BY <1>16 DEF NameReply
<1>17. ASSUME NEW e \in names, NameFailure(e) PROVE PatientInv'
  BY <1>17 DEF NameFailure
<1>18. ASSUME NEW a \in answers, AnswerReply(a) PROVE PatientInv'
  <2>1. /\ answers' = {} /\ arrived' = arrived
        /\ accepted' = accepted \cup {a.entry}
    BY <1>18 DEF AnswerReply
  <2>2. RowIsCurrent(a)
    BY DEF TableInv, StaleOnlyAfterRemoval
  <2>3. a.row \in 1..Len(arrList) /\ arrList[a.row] = a.entry
    BY <2>2 DEF RowIsCurrent, TypeOK, Answer
  <2>4. a.entry \in arrived
    BY <2>3 DEF ElementsInv
  <2> QED BY <2>1, <2>4
<1>19. ASSUME NEW a \in answers, AnswerFailure(a) PROVE PatientInv'
  BY <1>19 DEF AnswerFailure
<1>20. CASE UNCHANGED vars
  BY <1>20 DEF vars
<1> QED BY <1>1, <1>2, <1>3, <1>4, <1>5, <1>6, <1>7, <1>8, <1>9, <1>10, <1>11,
           <1>12, <1>13, <1>14, <1>15, <1>16, <1>17, <1>18, <1>19, <1>20
        DEF Next, Environment, MainThread, NetworkQueue

LEMMA PatientInvariant ==
  ASSUME Overlap = FALSE
  PROVE  Spec => [](TypeOK /\ TableInv /\ PatientInv /\ OnceInv /\ ElementsInv)
<1>1. Init => PatientInv
  BY DEF Init, PatientInv
<1> QED BY <1>1, PatientStep, TableInvariant, DeliveryInvariant, PTL DEF Spec

-----------------------------------------------------------------------------
offered == Range(arrList)
asked   == {[entry |-> a.entry, kind |-> a.kind] : a \in answers}
settled == accepted

LEMMA RefinementInit == Init => Abstract!Init
  BY DEF Init, Abstract!Init, Range

(* A step that leaves the list and the answers alone is a stutter.         *)
LEMMA RefinementStutter ==
  ASSUME UNCHANGED <<arrList, answers, accepted>>
  PROVE  UNCHANGED Abstract!vars
  BY DEF Abstract!vars

(* Appending a delivery that was never appended before offers it.          *)
LEMMA RefinementOffer ==
  ASSUME TypeOK, ElementsInv, PatientInv, NEW e \in Entry, e \notin arrived,
         arrList' = Append(arrList, e), UNCHANGED <<answers, accepted>>
  PROVE  Abstract!Next
<1>1. Range(arrList') = Range(arrList) \cup {e}
  BY AppendRows DEF Range, TypeOK
<1>2. Range(arrList) \subseteq arrived
  BY DEF Range, ElementsInv, TypeOK
<1>3. Abstract!Offer(e)
  BY <1>1, <1>2 DEF Abstract!Offer, PatientInv
<1> QED BY <1>3 DEF Abstract!Next

(* Removing the row of the answered entry accepts it, and keeps the rest.  *)
LEMMA RemoveAtRange ==
  ASSUME NEW S, NEW s \in Seq(S), NEW r \in 1..Len(s),
         \A i, j \in 1..Len(s) : s[i] = s[j] => i = j
  PROVE  Range(RemoveAt(s, r)) = Range(s) \ {s[r]}
<1> DEFINE t == RemoveAt(s, r)
<1>1. /\ t \in Seq(S) /\ Len(t) = Len(s) - 1
      /\ \A j \in 1..(Len(s) - 1) : t[j] = IF j < r THEN s[j] ELSE s[j + 1]
  BY RemoveAtType
<1> HIDE DEF t
<1>2. ASSUME NEW x \in Range(t) PROVE x \in Range(s) \ {s[r]}
  <2>1. PICK j \in 1..(Len(s) - 1) : t[j] = x
    BY <1>1, <1>2 DEF Range
  <2>2. PICK k \in 1..Len(s) : k # r /\ x = s[k]
    BY <1>1, <2>1
  <2> QED BY <2>2 DEF Range
<1>3. ASSUME NEW x \in Range(s) \ {s[r]} PROVE x \in Range(t)
  <2>1. PICK k \in 1..Len(s) : s[k] = x /\ k # r
    BY DEF Range
  <2>2. \E j \in 1..(Len(s) - 1) : t[j] = x
    <3>1. CASE k < r
      BY <1>1, <2>1, <3>1
    <3>2. CASE k > r
      <4>1. k - 1 \in 1..(Len(s) - 1) /\ ~(k - 1 < r) /\ (k - 1) + 1 = k
        BY <2>1, <3>2
      <4> QED BY <1>1, <2>1, <4>1
    <3> QED BY <2>1, <3>1, <3>2
  <2> QED BY <1>1, <2>2 DEF Range
<1> QED BY <1>2, <1>3 DEF t

LEMMA RefinementStep ==
  ASSUME Overlap = FALSE
  PROVE  TypeOK /\ TableInv /\ PatientInv /\ OnceInv /\ ElementsInv /\ [Next]_vars
           => [Abstract!Next]_(Abstract!vars)
<1> SUFFICES ASSUME TypeOK, TableInv, PatientInv, OnceInv, ElementsInv, [Next]_vars
             PROVE  Abstract!Next \/ UNCHANGED Abstract!vars
  OBVIOUS
<1> DEFINE Goal == Abstract!Next \/ UNCHANGED Abstract!vars
<1> USE DEF netVars, reqVars, listVars, tableVars, histVars
<1>1. ASSUME NEW i \in Invites, SendInvitation(i) PROVE Goal
  BY <1>1, RefinementStutter DEF SendInvitation
<1>2. ASSUME NEW s \in Sockets, Connect(s) PROVE Goal
  BY <1>2, RefinementStutter DEF Connect
<1>3. ASSUME NEW s \in Sockets, Disconnect(s) PROVE Goal
  BY <1>3, RefinementStutter DEF Disconnect
<1>4. CASE ReadInvitations
  BY <1>4, RefinementStutter DEF ReadInvitations
<1>5. CASE OpenTab
  BY <1>5, RefinementStutter DEF OpenTab
<1>6. ASSUME NEW p \in pushes, ReceiveMessage(p) PROVE Goal
  BY <1>6, RefinementStutter DEF ReceiveMessage
<1>7. CASE Reload
  BY <1>7, RefinementStutter DEF Reload
<1>8. ASSUME NEW r \in 1..rows, Render(r) PROVE Goal
  BY <1>8, RefinementStutter DEF Render
<1>9. ASSUME NEW c \in cells, NEW kind \in Kind, Tap(c, kind) PROVE Goal
  <2>1. answers = {} /\ reloads = 0 /\ Overlap = FALSE
    BY <1>9 DEF Tap, MayTap
  <2>2. RowIsCurrent(c)
    BY <2>1 DEF TableInv, StaleOnlyAfterRemoval
  <2>3. c.entry \in Range(arrList) /\ c.entry \in Entry
    BY <2>2 DEF RowIsCurrent, Range, TypeOK, Cell
  <2>4. PICK a : a.entry = c.entry /\ a.kind = kind /\ answers' = {a}
    BY <1>9, <2>1 DEF Tap
  <2>5. UNCHANGED <<arrList, accepted>>
    BY <1>9 DEF Tap
  <2>6. Abstract!Ask(c.entry, kind)
    BY <2>1, <2>3, <2>4, <2>5 DEF Abstract!Ask
  <2> QED BY <2>3, <2>6 DEF Abstract!Next
<1>10. CASE ListReply
  BY <1>10, RefinementStutter DEF ListReply
<1>11. CASE ListFailure
  BY <1>11, RefinementStutter DEF ListFailure
<1>12. ASSUME NEW e \in details, ListedDetail(e) PROVE Goal
  <2>1. e \in Entry /\ e \notin arrived
    BY DEF OnceInv, TypeOK
  <2> QED BY <1>12, <2>1, RefinementOffer DEF ListedDetail
<1>13. ASSUME NEW e \in details, ListedDetailFailure(e) PROVE Goal
  BY <1>13, RefinementStutter DEF ListedDetailFailure
<1>14. ASSUME NEW e \in details, PushedDetail(e) PROVE Goal
  <2>1. e \in Entry /\ e \notin arrived
    BY DEF OnceInv, TypeOK
  <2>2. CASE HandlerRegistered
    BY <1>14, <2>1, <2>2, RefinementOffer DEF PushedDetail
  <2>3. CASE ~HandlerRegistered
    BY <1>14, <2>3, RefinementStutter DEF PushedDetail
  <2> QED BY <2>2, <2>3
<1>15. ASSUME NEW e \in details, PushedDetailFailure(e) PROVE Goal
  BY <1>15, RefinementStutter DEF PushedDetailFailure
<1>16. ASSUME NEW e \in names, NameReply(e) PROVE Goal
  BY <1>16, RefinementStutter DEF NameReply
<1>17. ASSUME NEW e \in names, NameFailure(e) PROVE Goal
  BY <1>17, RefinementStutter DEF NameFailure
<1>18. ASSUME NEW a \in answers, AnswerReply(a) PROVE Goal
  <2>1. answers = {a} /\ answers' = {}
    BY <1>18 DEF AnswerReply, PatientInv
  <2>2. RowIsCurrent(a)
    BY DEF PatientInv, TableInv, StaleOnlyAfterRemoval
  <2>3. /\ a.row \in 1..Len(arrList) /\ arrList[a.row] = a.entry
        /\ a.entry \in Entry /\ a.kind \in Kind
    BY <2>2 DEF RowIsCurrent, TypeOK, Answer
  <2>4. arrList' = RemoveAt(arrList, a.row) /\ accepted' = accepted \cup {a.entry}
    BY <1>18, <2>3 DEF AnswerReply
  <2>5. Range(arrList') = Range(arrList) \ {a.entry}
    BY <2>3, <2>4, RemoveAtRange DEF TypeOK, ElementsInv
  <2>6. settled' = settled \cup {a.entry}
    BY <2>4 DEF settled
  <2>7. asked = {[entry |-> a.entry, kind |-> a.kind]} /\ asked' = {}
    BY <2>1 DEF asked
  <2>8. Abstract!Accept(a.entry)
    BY <2>3, <2>5, <2>6, <2>7 DEF Abstract!Accept, asked, settled
  <2> QED BY <2>3, <2>8 DEF Abstract!Next
<1>19. ASSUME NEW a \in answers, AnswerFailure(a) PROVE Goal
  <2>1. answers = {a} /\ answers' = {} /\ UNCHANGED <<arrList, accepted>>
    BY <1>19 DEF AnswerFailure, PatientInv
  <2>2. Abstract!Refuse
    BY <2>1 DEF Abstract!Refuse
  <2> QED BY <2>2 DEF Abstract!Next
<1>20. CASE UNCHANGED vars
  BY <1>20, RefinementStutter DEF vars
<1> QED BY <1>1, <1>2, <1>3, <1>4, <1>5, <1>6, <1>7, <1>8, <1>9, <1>10, <1>11,
           <1>12, <1>13, <1>14, <1>15, <1>16, <1>17, <1>18, <1>19, <1>20
        DEF Next, Environment, MainThread, NetworkQueue

(* A user who answers one invitation at a time sees the abstract list.     *)
THEOREM PatientUserSeesPendingList ==
  ASSUME Overlap = FALSE
  PROVE  Spec => ImplementsPending
<1>1. Spec => Abstract!Init
  BY RefinementInit DEF Spec
<1>2. Spec => [][Abstract!Next]_(Abstract!vars)
  BY RefinementStep, PatientInvariant, PTL DEF Spec
<1> QED BY <1>1, <1>2 DEF ImplementsPending, Abstract!Spec
=============================================================================
