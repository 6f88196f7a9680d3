--------------------------- MODULE GroupTabProofs ---------------------------
(***************************************************************************)
(* Theorems about GroupTab: the members shown, and whom an invitation goes *)
(* to, for any users, groups, queries and bounds.                          *)
(***************************************************************************)
EXTENDS GroupTab, NatRecursion, FiniteSetTheorems

LEMMA SequenceAppend ==
  ASSUME NEW S, NEW s \in Seq(S), NEW x \in S
  PROVE  /\ Append(s, x) \in Seq(S) /\ Len(Append(s, x)) = Len(s) + 1 /\ Len(s) \in Nat
         /\ DOMAIN Append(s, x) = 1..(Len(s) + 1) /\ DOMAIN s = 1..Len(s)
         /\ \A j \in 1..Len(s) : Append(s, x)[j] = s[j]
         /\ Append(s, x)[Len(s) + 1] = x
OBVIOUS

LEMMA SetOfAppend ==
  ASSUME NEW S, NEW s \in Seq(S), NEW x \in S
  PROVE  ToSet(Append(s, x)) = ToSet(s) \cup {x}
<1>1. ToSet(Append(s, x)) = {Append(s, x)[j] : j \in 1..(Len(s) + 1)}
  BY SequenceAppend DEF ToSet
<1>2. ToSet(s) = {s[j] : j \in 1..Len(s)}
  BY SequenceAppend DEF ToSet
<1>3. 1..(Len(s) + 1) = 1..Len(s) \cup {Len(s) + 1}
  BY SequenceAppend
<1> QED BY <1>1, <1>2, <1>3, SequenceAppend

LEMMA SubsetOfSameSize ==
  \A S, T : IsFiniteSet(S) /\ T \subseteq S /\ Cardinality(T) = Cardinality(S) => T = S
<1> SUFFICES ASSUME NEW S, NEW T, IsFiniteSet(S), T \in SUBSET S, Cardinality(T) = Cardinality(S)
             PROVE  S = T
  OBVIOUS
<1> QED BY FS_Subset

LEMMA OneMore ==
  \A S, x : IsFiniteSet(S) /\ x \notin S => Cardinality(S \cup {x}) = Cardinality(S) + 1
<1> SUFFICES ASSUME NEW S, NEW x, IsFiniteSet(S), x \notin S
             PROVE  Cardinality(S \cup {x}) = Cardinality(S) + 1
  OBVIOUS
<1> QED BY FS_AddElement

LEMMA SetOfEmpty == ToSet(<<>>) = {}
BY DEF ToSet

-----------------------------------------------------------------------------
(* What a step does to the list's variables and to those of the screens    *)
(* behind a group.                                                         *)
ListAction ==
  \/ LoadList \/ (\E s \in Texts \cup {NoText} : TextChanged(s))
  \/ (\E r \in DOMAIN shown : OpenRow(r)) \/ (\E n \in Names : CreateTapped(n))
  \/ Reload \/ ListServer \/ ListNetwork
  \/ UNCHANGED listVars

MemberAction ==
  \/ M!OpenMembers(opened.row.id)
  \/ top = "members" /\ M!OpenSearch
  \/ top = "search" /\ \E q \in Queries : M!SearchTapped(q)
  \/ top = "search" /\ M!InviteTapped
  \/ M!MembersNetwork
  \/ UNCHANGED memberVars

LEMMA StepSplits == [Next]_vars => ListAction /\ MemberAction
<1> SUFFICES ASSUME [Next]_vars PROVE ListAction /\ MemberAction
  OBVIOUS
<1>1. CASE OnGroups
  BY <1>1 DEF OnGroups, ListAction, MemberAction
<1>2. CASE OnCreate
  BY <1>2 DEF OnCreate, ListAction, MemberAction
<1>3. CASE OnDetail
  BY <1>3 DEF OnDetail, ListAction, MemberAction
<1>4. CASE OnMembers
  BY <1>4 DEF OnMembers, ListAction, MemberAction
<1>5. CASE OnSearch
  BY <1>5 DEF OnSearch, ListAction, MemberAction
<1>6. CASE Background
  BY <1>6 DEF Background, ListAction, MemberAction
<1>7. CASE UNCHANGED vars
  BY <1>7 DEF vars, ListAction, MemberAction
<1> QED BY <1>1, <1>2, <1>3, <1>4, <1>5, <1>6, <1>7 DEF Next, User

-----------------------------------------------------------------------------
(* Every row and every group on its way has an identifier in range, or a   *)
(* row has none.                                                           *)
ListGood ==
  /\ groups \in 0..MaxGroups
  /\ details \subseteq Group /\ mine \subseteq Group /\ subscriptions \subseteq Group
  /\ creations \subseteq Creation
  /\ groupList \in Seq(Row)
  /\ opened.row.id \in 0..MaxGroups

LEMMA InitListGood == Init => ListGood
<1> SUFFICES ASSUME Init PROVE ListGood
  OBVIOUS
<1>1. InitList
  BY DEF Init
<1>2. \A i \in DOMAIN Listed : [id |-> i, name |-> Listed[i]] \in Group
  BY ListedAssumption DEF Group
<1>3. opened.row.id = 0
  BY <1>1 DEF InitList, NothingOpened, NoId
<1>4. mine \subseteq Group
  BY <1>1, <1>2 DEF InitList
<1> QED BY <1>1, <1>3, <1>4, ListedAssumption DEF InitList, ListGood

LEMMA StepListGood == ListGood /\ ListAction => ListGood'
<1> SUFFICES ASSUME ListGood, ListAction PROVE ListGood'
  OBVIOUS
<1> USE DEF tableVars, createVars
<1>0. Group \subseteq Row /\ \A n \in Names : [id |-> NoId, name |-> n] \in Row
  BY ListedAssumption DEF Group, Row, NoId
<1>1. CASE LoadList
  BY <1>1 DEF LoadList, ListGood
<1>2. ASSUME NEW s \in Texts \cup {NoText}, TextChanged(s) PROVE ListGood'
  BY <1>2 DEF TextChanged, ListGood
<1>3. ASSUME NEW r \in DOMAIN shown, OpenRow(r) PROVE ListGood'
  <2>1. CASE r \in DOMAIN groupList
    <3>1. groupList[r] \in Row
      BY <2>1 DEF ListGood
    <3>2. opened'.row.id \in 0..MaxGroups
      BY <1>3, <2>1, <3>1 DEF OpenRow, Row
    <3> QED BY <1>3, <3>2 DEF OpenRow, ListGood
  <2>2. CASE r \notin DOMAIN groupList
    BY <1>3, <2>2 DEF OpenRow, ListGood
  <2> QED BY <2>1, <2>2
<1>4. ASSUME NEW n \in Names, CreateTapped(n) PROVE ListGood'
  <2>1. groups' \in 0..MaxGroups /\ groups + 1 \in 1..MaxGroups
    BY <1>4, ListedAssumption DEF CreateTapped, ListGood
  <2>2. [group |-> [id |-> groups + 1, name |-> n], recorded |-> FALSE] \in Creation
    BY <2>1 DEF Creation, Group
  <2>3. groupList' \in Seq(Row)
    BY <1>0, <1>4, SequenceAppend DEF CreateTapped, ListGood
  <2> QED BY <1>4, <2>1, <2>2, <2>3 DEF CreateTapped, ListGood
<1>5. CASE Reload
  BY <1>5 DEF Reload, ListGood
<1>6. ASSUME NEW c \in creations, RecordCreation(c) PROVE ListGood'
  <2>1. [c EXCEPT !.recorded = TRUE] \in Creation
    BY DEF ListGood, Creation
  <2> QED BY <1>6, <2>1 DEF RecordCreation, ListGood
<1>7. ASSUME NEW g \in subscriptions, EndSubscription(g) PROVE ListGood'
  <2>1. g \in Group
    BY DEF ListGood
  <2>2. mine' \subseteq Group
    BY <1>7, <2>1 DEF EndSubscription, ListGood
  <2> QED BY <1>7, <2>2 DEF EndSubscription, ListGood
<1>8. CASE ListingReply
  BY <1>8 DEF ListingReply, ListGood
<1>9. CASE ListingFailure
  BY <1>9 DEF ListingFailure, ListGood
<1>10. ASSUME NEW g \in details, DetailReply(g) PROVE ListGood'
  <2>1. g \in Row
    BY <1>0 DEF ListGood
  <2>2. groupList' \in Seq(Row)
    BY <1>10, <2>1, SequenceAppend DEF DetailReply, ListGood
  <2> QED BY <1>10, <2>2 DEF DetailReply, ListGood
<1>11. ASSUME NEW g \in details, DetailFailure(g) PROVE ListGood'
  BY <1>11 DEF DetailFailure, ListGood
<1>12. ASSUME NEW c \in creations, CreationReply(c) PROVE ListGood'
  <2>1. c.group \in Group
    BY DEF ListGood, Creation
  <2> QED BY <1>12, <2>1 DEF CreationReply, ListGood
<1>13. ASSUME NEW c \in creations, CreationFailure(c) PROVE ListGood'
  BY <1>13 DEF CreationFailure, ListGood
<1>14. CASE UNCHANGED listVars
  BY <1>14 DEF listVars, ListGood
<1> QED BY <1>1, <1>2, <1>3, <1>4, <1>5, <1>6, <1>7, <1>8, <1>9, <1>10, <1>11, <1>12, <1>13, <1>14
        DEF ListAction, ListServer, ListNetwork

-----------------------------------------------------------------------------
(* What filtering a sequence returns: each element in its own place, or in *)
(* one that an element left out precedes.                                  *)
LeavesOut(seq, wanted, r) == \E i \in 1..r : seq[i] \notin wanted
InPlace(seq, wanted, part, r) == part[r] = seq[r] \/ LeavesOut(seq, wanted, r)

Filters(f, seq, wanted) ==
  /\ Filtered(seq, wanted) = f[Len(seq)] /\ f[0] = <<>>
  /\ \A i \in 1..Len(seq) :
       f[i] = IF seq[i] \in wanted THEN Append(f[i - 1], seq[i]) ELSE f[i - 1]

LEMMA FilteredRecursion ==
  ASSUME NEW S, NEW seq \in Seq(S), NEW wanted
  PROVE  \E f \in [0..Len(seq) -> Seq(S)] : Filters(f, seq, wanted)
<1> DEFINE n == Len(seq)
<1> DEFINE step == [p \in Nat \X Seq(S) |-> IF p[1] \in 1..n /\ seq[p[1]] \in wanted
                                            THEN Append(p[2], seq[p[1]]) ELSE p[2]]
<1> DEFINE Def(f) == [i \in 0..n |-> IF i = 0 THEN <<>>
                                     ELSE IF seq[i] \in wanted THEN Append(f[i - 1], seq[i])
                                     ELSE f[i - 1]]
<1>1. n \in Nat /\ \A i \in 1..n : seq[i] \in S
  OBVIOUS
<1>2. step \in [Nat \X Seq(S) -> Seq(S)]
  BY <1>1
<1>3. PICK g \in [0..n -> Seq(S)] : g[0] = <<>> /\ \A i \in 1..n : g[i] = step[<<i, g[i - 1]>>]
  <2> HIDE DEF step, n
  <2>1. <<>> \in Seq(S)
    OBVIOUS
  <2>2. PICK g \in [0..n -> Seq(S)] : Recurs(g, n, <<>>, step)
    BY <1>1, <1>2, <2>1, FiniteRecursion
  <2> QED BY <2>2 DEF Recurs
<1>4. ASSUME NEW i \in 1..n
      PROVE  step[<<i, g[i - 1]>>] = IF seq[i] \in wanted THEN Append(g[i - 1], seq[i]) ELSE g[i - 1]
  <2>1. i \in Nat /\ i - 1 \in 0..n /\ g[i - 1] \in Seq(S)
    BY <1>1
  <2> QED BY <2>1
<1>5. g = Def(g)
  <2> HIDE DEF step, n
  <2>1. \A i \in 0..n : i = 0 \/ i \in 1..n
    BY <1>1
  <2> QED BY <1>3, <1>4, <2>1
<1> DEFINE kept == CHOOSE f : f = Def(f)
<1>6. kept = Def(kept)
  <2> HIDE DEF Def
  <2> QED BY <1>5
<1>7. Filtered(seq, wanted) = kept[n]
  BY DEF Filtered
<1> HIDE DEF kept
<1>8. kept[0] = <<>> /\ \A i \in 1..n : kept[i] = IF seq[i] \in wanted
                                                 THEN Append(kept[i - 1], seq[i]) ELSE kept[i - 1]
  <2> DEFINE h == Def(kept)
  <2>1. \A i \in 0..n : h[i] = IF i = 0 THEN <<>>
                               ELSE IF seq[i] \in wanted THEN Append(kept[i - 1], seq[i])
                               ELSE kept[i - 1]
    OBVIOUS
  <2>2. kept = h
    BY <1>6
  <2>3. 0 \in 0..n /\ 1..n \subseteq 0..n /\ \A i \in 1..n : i # 0
    BY <1>1
  <2> HIDE DEF h, n
  <2> QED BY <2>1, <2>2, <2>3
<1>9. kept = [i \in 0..n |-> kept[i]]
  BY <1>6
<1> HIDE DEF n, Def, step
<1>10. \A i \in 0..n : kept[i] \in Seq(S)
  <2> DEFINE K == {i \in 0..n : kept[i] \in Seq(S)}
  <2>1. 0 \in K
    <3>1. <<>> \in Seq(S)
      OBVIOUS
    <3>2. kept[0] \in Seq(S)
      BY <1>8, <3>1, Zenon
    <3> QED BY <1>1, <3>2
  <2>2. ASSUME NEW i \in 1..n, i - 1 \in K PROVE i \in K
    <3>1. Append(kept[i - 1], seq[i]) \in Seq(S) /\ kept[i - 1] \in Seq(S)
      BY <1>1, <2>2
    <3>2. kept[i] \in Seq(S)
      BY <1>8, <3>1
    <3> QED BY <1>1, <3>2
  <2> HIDE DEF K
  <2>3. 0..n \subseteq K
    BY <1>1, <2>1, <2>2, PrefixInduction
  <2> QED BY <2>3 DEF K
<1>11. kept \in [0..n -> Seq(S)]
  BY <1>9, <1>10
<1> QED BY <1>7, <1>8, <1>11 DEF n, Filters

LEMMA FilteredInPlace ==
  ASSUME NEW S, NEW seq \in Seq(S), NEW wanted
  PROVE  /\ Filtered(seq, wanted) \in Seq(S) /\ Len(Filtered(seq, wanted)) <= Len(seq)
         /\ \A r \in 1..Len(Filtered(seq, wanted)) : InPlace(seq, wanted, Filtered(seq, wanted), r)
<1> DEFINE n == Len(seq)
<1>1. n \in Nat /\ \A i \in 1..n : seq[i] \in S
  OBVIOUS
<1>2. PICK f \in [0..n -> Seq(S)] : Filters(f, seq, wanted)
  BY FilteredRecursion
<1>3. /\ Filtered(seq, wanted) = f[n] /\ f[0] = <<>>
      /\ \A i \in 1..n : f[i] = IF seq[i] \in wanted THEN Append(f[i - 1], seq[i]) ELSE f[i - 1]
  BY <1>2 DEF Filters
<1> DEFINE Good(i) ==
      /\ Len(f[i]) <= i
      /\ \A r \in 1..Len(f[i]) : InPlace(seq, wanted, f[i], r)
      /\ Len(f[i]) = i \/ LeavesOut(seq, wanted, Len(f[i]) + 1)
<1> DEFINE K == {i \in 0..n : Good(i)}
<1> HIDE DEF n
<1>4. 0 \in K
  BY <1>1, <1>3
<1>5. ASSUME NEW i \in 1..n, i - 1 \in K PROVE i \in K
  <2> DEFINE k == Len(f[i - 1])
  <2>1. /\ Good(i - 1) /\ seq[i] \in S /\ f[i - 1] \in Seq(S) /\ k \in Nat
        /\ f[i] = IF seq[i] \in wanted THEN Append(f[i - 1], seq[i]) ELSE f[i - 1]
    <3>1. Good(i - 1) /\ i - 1 \in 0..n
      BY <1>5
    <3>2. f[i - 1] \in Seq(S)
      BY <3>1
    <3>3. Len(f[i - 1]) \in Nat
      BY <3>2
    <3> QED BY <1>1, <1>3, <3>1, <3>2, <3>3
  <2>2. CASE seq[i] \in wanted
    <3>1. /\ Len(f[i]) = k + 1 /\ f[i][k + 1] = seq[i]
          /\ \A r \in 1..k : f[i][r] = f[i - 1][r]
      BY <2>1, <2>2, SequenceAppend
    <3>2. LeavesOut(seq, wanted, k + 1) => LeavesOut(seq, wanted, k + 2)
      BY <2>1 DEF LeavesOut
    <3>3. k <= i - 1 /\ (k = i - 1 \/ LeavesOut(seq, wanted, k + 1))
      BY <2>1
    <3>4. ASSUME NEW r \in 1..(k + 1) PROVE InPlace(seq, wanted, f[i], r)
      <4>1. CASE r = k + 1
        BY <3>1, <3>3, <4>1 DEF InPlace
      <4>2. CASE r \in 1..k
        BY <2>1, <3>1, <4>2 DEF InPlace
      <4> QED BY <2>1, <4>1, <4>2
    <3> HIDE DEF k
    <3>5. Len(f[i]) <= i /\ (Len(f[i]) = i \/ LeavesOut(seq, wanted, Len(f[i]) + 1))
      <4>1. k \in Nat /\ i \in Nat /\ Len(f[i]) + 1 = k + 2
        BY <1>1, <2>1, <3>1 DEF k
      <4>2. LeavesOut(seq, wanted, k + 1) => LeavesOut(seq, wanted, Len(f[i]) + 1)
        BY <3>2, <4>1
      <4> QED BY <3>1, <3>3, <4>1, <4>2
    <3> QED BY <1>1, <3>1, <3>4, <3>5
  <2>3. CASE seq[i] \notin wanted
    <3>1. k = i - 1 => LeavesOut(seq, wanted, k + 1)
      BY <2>1, <2>3 DEF LeavesOut
    <3> QED BY <1>1, <2>1, <2>3, <3>1
  <2> QED BY <2>2, <2>3
<1> HIDE DEF K
<1>6. 0..n \subseteq K
  BY <1>1, <1>4, <1>5, PrefixInduction
<1>7. n \in K
  BY <1>1, <1>6
<1> QED BY <1>1, <1>3, <1>7 DEF K, n

-----------------------------------------------------------------------------
(* The rows the table shows, and those a search left, each in the place of *)
(* its group or, during a search, behind a group that was left out.        *)
RowGood(row, r) ==
  /\ r \in 1..Len(groupList)
  /\ \/ groupList[r].name = row
     \/ text # NoText /\ \E i \in 1..r : groupList[i].name \notin Matches[text]

RowsType ==
  /\ listing \in {"unsent", "sent", "done"} /\ reload \in BOOLEAN /\ trap \in BOOLEAN
  /\ text \in Texts \cup {NoText} /\ found \in Seq(Names) /\ shown \in Seq(Names)
  /\ opened \in [shown : Names, row : Row] \cup {NothingOpened}

RowsInv ==
  /\ \A r \in 1..Len(shown) : RowGood(shown[r], r)
  /\ text # NoText => \A r \in 1..Len(found) : RowGood(found[r], r)

LEMMA NamesInPlace ==
  ASSUME NEW rows \in Seq(Row)
  PROVE  /\ NamesOf(rows) \in Seq(Names) /\ Len(NamesOf(rows)) = Len(rows)
         /\ \A r \in 1..Len(rows) : NamesOf(rows)[r] = rows[r].name
<1>1. DOMAIN rows = 1..Len(rows) /\ Len(rows) \in Nat
  OBVIOUS
<1>2. \A r \in 1..Len(rows) : rows[r] \in Row
  OBVIOUS
<1>3. \A r \in 1..Len(rows) : rows[r].name \in Names
  BY <1>2 DEF Row
<1>4. NamesOf(rows) = [r \in 1..Len(rows) |-> rows[r].name]
  BY <1>1 DEF NamesOf
<1> QED BY <1>1, <1>3, <1>4

(* Rows stay good while groups are only appended.                          *)
LEMMA RowsKept ==
  ASSUME ListGood, RowsInv, UNCHANGED <<text, found, shown>>,
         \/ groupList' = groupList
         \/ \E g \in Row : groupList' = Append(groupList, g)
  PROVE  RowsInv'
<1>1. /\ Len(groupList') \in Nat /\ Len(groupList) \in Nat /\ Len(groupList) <= Len(groupList')
      /\ \A r \in 1..Len(groupList) : groupList'[r] = groupList[r]
  <2>1. CASE groupList' = groupList
    BY <2>1 DEF ListGood
  <2>2. CASE \E g \in Row : groupList' = Append(groupList, g)
    <3>1. PICK g \in Row : groupList' = Append(groupList, g)
      BY <2>2
    <3>2. groupList \in Seq(Row)
      BY DEF ListGood
    <3> QED BY <3>1, <3>2, SequenceAppend
  <2> QED BY <2>1, <2>2
<1>2. ASSUME NEW row, NEW r, RowGood(row, r) PROVE RowGood(row, r)'
  <2>1. r \in 1..Len(groupList') /\ r \in 1..Len(groupList)
    BY <1>1, <1>2 DEF RowGood
  <2>2. \A i \in 1..r : i \in 1..Len(groupList)
    BY <1>1, <2>1
  <2> QED BY <1>1, <1>2, <2>1, <2>2 DEF RowGood
<1> QED BY <1>2 DEF RowsInv

(* What a table shows after it has been loaded from good rows.             *)
LEMMA RowsReloaded ==
  ASSUME NEW rows \in Seq(Row), groupList' = rows, UNCHANGED <<text, found>>, shown' = RowsOf(rows),
         text # NoText => \A r \in 1..Len(found) : RowGood(found[r], r)'
  PROVE  \A r \in 1..Len(shown') : RowGood(shown[r], r)'
<1>1. CASE text = NoText
  <2>1. shown' = NamesOf(rows)
    BY <1>1 DEF RowsOf
  <2> QED BY <2>1, NamesInPlace DEF RowGood
<1>2. CASE text # NoText
  BY <1>2 DEF RowsOf
<1> QED BY <1>1, <1>2

LEMMA StepRowsType == RowsType /\ ListGood /\ ListAction => RowsType'
<1> SUFFICES ASSUME RowsType, ListGood, ListAction PROVE RowsType'
  OBVIOUS
<1> USE DEF tableVars, createVars
<1>0. groupList \in Seq(Row) /\ NamesOf(groupList) \in Seq(Names) /\ RowsOf(groupList) \in Seq(Names)
  <2>1. groupList \in Seq(Row)
    BY DEF ListGood
  <2>2. NamesOf(groupList) \in Seq(Names)
    BY <2>1, NamesInPlace
  <2> QED BY <2>1, <2>2 DEF RowsOf, RowsType
<1>1. CASE LoadList \/ ListingReply \/ ListingFailure
  BY <1>1 DEF LoadList, ListingReply, ListingFailure, RowsType
<1>2. ASSUME NEW t \in Texts \cup {NoText}, TextChanged(t) PROVE RowsType'
  <2>1. t # NoText => Matching(t) \in Seq(Names)
    BY <1>0, FilteredInPlace DEF Matching
  <2> QED BY <1>0, <1>2, <2>1 DEF TextChanged, RowsType
<1>3. ASSUME NEW r \in DOMAIN shown, OpenRow(r) PROVE RowsType'
  <2>1. CASE r \in DOMAIN groupList
    <3>1. shown[r] \in Names /\ groupList[r] \in Row
      BY <1>0, <2>1 DEF RowsType
    <3>2. opened' \in [shown : Names, row : Row] /\ UNCHANGED <<listing, reload, text, found, shown, trap>>
      BY <1>3, <2>1, <3>1 DEF OpenRow
    <3> QED BY <3>2 DEF RowsType
  <2>2. CASE r \notin DOMAIN groupList
    BY <1>3, <2>2 DEF OpenRow, RowsType
  <2> QED BY <2>1, <2>2
<1>4. ASSUME NEW n \in Names, CreateTapped(n) PROVE RowsType'
  <2>1. [id |-> NoId, name |-> n] \in Row
    BY ListedAssumption DEF Row, NoId
  <2>2. groupList' \in Seq(Row)
    BY <1>0, <1>4, <2>1, SequenceAppend DEF CreateTapped
  <2>3. shown' \in Seq(Names)
    BY <1>4, <2>2, NamesInPlace DEF CreateTapped, RowsOf, RowsType
  <2> QED BY <1>4, <2>3 DEF CreateTapped, RowsType
<1>5. CASE Reload
  BY <1>0, <1>5 DEF Reload, RowsType
<1>6. ASSUME NEW g \in details, DetailReply(g) \/ DetailFailure(g) PROVE RowsType'
  BY <1>6 DEF DetailReply, DetailFailure, RowsType
<1>7. ASSUME NEW c \in creations, RecordCreation(c) \/ CreationReply(c) \/ CreationFailure(c)
      PROVE  RowsType'
  BY <1>7 DEF RecordCreation, CreationReply, CreationFailure, RowsType
<1>8. ASSUME NEW g \in subscriptions, EndSubscription(g) PROVE RowsType'
  BY <1>8 DEF EndSubscription, RowsType
<1>9. CASE UNCHANGED listVars
  BY <1>9 DEF listVars, RowsType
<1> QED BY <1>1, <1>2, <1>3, <1>4, <1>5, <1>6, <1>7, <1>8, <1>9 DEF ListAction, ListServer, ListNetwork

LEMMA StepRows == RowsInv /\ RowsType /\ ListGood /\ ListAction => RowsInv'
<1> SUFFICES ASSUME RowsInv, RowsType, ListGood, ListAction PROVE RowsInv'
  OBVIOUS
<1> USE DEF tableVars, createVars
<1>0. /\ groupList \in Seq(Row) /\ NamesOf(groupList) \in Seq(Names)
      /\ Len(NamesOf(groupList)) = Len(groupList) /\ Len(groupList) \in Nat
      /\ \A r \in 1..Len(groupList) : NamesOf(groupList)[r] = groupList[r].name
  <2>1. groupList \in Seq(Row) /\ Len(groupList) \in Nat
    BY DEF ListGood
  <2> QED BY <2>1, NamesInPlace
<1>1. ASSUME NEW t \in Texts \cup {NoText}, TextChanged(t) PROVE RowsInv'
  <2>1. CASE t = NoText
    <3>1. text' = NoText /\ shown' = NamesOf(groupList) /\ groupList' = groupList
      BY <1>1, <2>1 DEF TextChanged
    <3> QED BY <1>0, <3>1 DEF RowsInv, RowGood
  <2>2. CASE t # NoText
    <3> DEFINE left == Filtered(NamesOf(groupList), Matches[t])
    <3>1. text' = t /\ found' = left /\ shown' = left /\ groupList' = groupList
      BY <1>1, <2>2 DEF TextChanged, Matching
    <3>2. /\ left \in Seq(Names) /\ Len(left) <= Len(groupList)
          /\ \A r \in 1..Len(left) : InPlace(NamesOf(groupList), Matches[t], left, r)
      BY <1>0, FilteredInPlace
    <3> HIDE DEF left
    <3>3. ASSUME NEW r \in 1..Len(shown') PROVE RowGood(shown[r], r)'
      <4>1. r \in 1..Len(groupList) /\ \A i \in 1..r : i \in 1..Len(groupList)
        BY <1>0, <3>1, <3>2
      <4>2. \/ left[r] = groupList[r].name
            \/ \E i \in 1..r : groupList[i].name \notin Matches[t]
        BY <1>0, <3>1, <3>2, <4>1 DEF InPlace, LeavesOut
      <4> QED BY <2>2, <3>1, <4>1, <4>2 DEF RowGood
    <3>4. found' = shown'
      BY <3>1
    <3> QED BY <3>3, <3>4 DEF RowsInv
  <2> QED BY <2>1, <2>2
<1>2. ASSUME NEW n \in Names, CreateTapped(n) PROVE RowsInv'
  <2> DEFINE rows == Append(groupList, [id |-> NoId, name |-> n])
  <2>1. rows \in Seq(Row) /\ groupList' = rows /\ shown' = RowsOf(rows) /\ UNCHANGED <<text, found>>
    <3>1. [id |-> NoId, name |-> n] \in Row
      BY ListedAssumption DEF Row, NoId
    <3> QED BY <1>0, <1>2, <3>1, SequenceAppend DEF CreateTapped
  <2>2. Len(rows) = Len(groupList) + 1 /\ \A r \in 1..Len(groupList) : rows[r] = groupList[r]
    BY <1>0
  <2> HIDE DEF rows
  <2>3. text # NoText => \A r \in 1..Len(found) : RowGood(found[r], r)'
    <3> SUFFICES ASSUME text # NoText, NEW r \in 1..Len(found) PROVE RowGood(found[r], r)'
      OBVIOUS
    <3>1. RowGood(found[r], r)
      BY DEF RowsInv
    <3>2. r \in 1..Len(groupList) /\ r \in 1..Len(rows) /\ \A i \in 1..r : i \in 1..Len(groupList)
      BY <1>0, <2>2, <3>1 DEF RowGood
    <3> QED BY <2>1, <2>2, <3>1, <3>2 DEF RowGood
  <2> QED BY <2>1, <2>3, RowsReloaded DEF RowsInv
<1>3. CASE Reload
  <2>1. groupList' = groupList /\ shown' = RowsOf(groupList) /\ UNCHANGED <<text, found>>
    BY <1>3 DEF Reload
  <2>2. text # NoText => \A r \in 1..Len(found) : RowGood(found[r], r)'
    BY <2>1 DEF RowsInv, RowGood
  <2> QED BY <1>0, <2>1, <2>2, RowsReloaded DEF RowsInv
<1>4. ASSUME NEW g \in details, DetailReply(g) PROVE RowsInv'
  <2>1. g \in Row
    BY DEF ListGood, Group, Row
  <2> QED BY <1>4, <2>1, RowsKept DEF DetailReply
<1>5. ASSUME \/ LoadList \/ ListServer \/ ListingReply \/ ListingFailure \/ UNCHANGED listVars
             \/ \E r \in DOMAIN shown : OpenRow(r)
             \/ \E g \in details : DetailFailure(g)
             \/ \E c \in creations : CreationReply(c) \/ CreationFailure(c)
      PROVE RowsInv'
  <2>1. UNCHANGED <<groupList, text, found, shown>>
    BY <1>5 DEF LoadList, ListServer, RecordCreation, EndSubscription, ListingReply, ListingFailure,
                listVars, OpenRow, DetailFailure, CreationReply, CreationFailure
  <2> QED BY <2>1, RowsKept
<1> QED BY <1>1, <1>2, <1>3, <1>4, <1>5 DEF ListAction, ListNetwork

-----------------------------------------------------------------------------
(* The join: types, and what the requests of a members screen stand for.   *)
JoinType ==
  /\ visit \in 0..MaxVisits /\ groupId \in 0..MaxGroups
  /\ memberList \in Seq(Users)
  /\ asks \subseteq M!Ask /\ infos \subseteq M!Info
  /\ members \in [1..MaxVisits -> SUBSET Users]
  /\ got \in [1..MaxVisits -> Seq(Users)]

LEMMA StepJoinType == JoinType /\ ListGood /\ MemberAction => JoinType'
<1> SUFFICES ASSUME JoinType, ListGood, MemberAction PROVE JoinType'
  OBVIOUS
<1> USE DEF M!joinVars, M!inviteVars
<1>1. CASE M!OpenMembers(opened.row.id)
  <2>1. visit + 1 \in 1..MaxVisits /\ opened.row.id \in 0..MaxGroups
    BY <1>1, MembersAssumption DEF M!OpenMembers, JoinType, ListGood
  <2>2. [visit |-> visit + 1, group |-> opened.row.id] \in M!Ask
    BY <2>1 DEF M!Ask
  <2> QED BY <1>1, <2>1, <2>2 DEF M!OpenMembers, JoinType
<1>2. CASE M!OpenSearch
  BY <1>2 DEF M!OpenSearch, JoinType
<1>3. ASSUME NEW q \in Queries, M!SearchTapped(q) PROVE JoinType'
  BY <1>3 DEF M!SearchTapped, JoinType
<1>4. CASE M!InviteTapped
  BY <1>4 DEF M!InviteTapped, JoinType
<1>5. ASSUME NEW a \in asks, M!GroupReply(a) PROVE JoinType'
  <2>1. a.visit \in 1..MaxVisits /\ a.group \in 1..MaxGroups
    BY <1>5 DEF M!GroupReply, JoinType, M!Ask, NoId
  <2>2. MembersOf[a.group] \subseteq Users
    BY <2>1, MembersAssumption
  <2>3. {[visit |-> a.visit, user |-> u] : u \in MembersOf[a.group]} \subseteq M!Info
    BY <2>1, <2>2 DEF M!Info
  <2>4. infos' \subseteq M!Info /\ asks' \subseteq M!Ask
    BY <1>5, <2>3 DEF M!GroupReply, JoinType
  <2>5. members' \in [1..MaxVisits -> SUBSET Users]
    BY <1>5, <2>1, <2>2 DEF M!GroupReply, JoinType
  <2> QED BY <1>5, <2>4, <2>5 DEF M!GroupReply, JoinType
<1>6. ASSUME NEW a \in asks, M!GroupFailure(a) PROVE JoinType'
  BY <1>6 DEF M!GroupFailure, JoinType
<1>7. ASSUME NEW i \in infos, M!InfoReply(i) PROVE JoinType'
  <2>1. i.visit \in 1..MaxVisits /\ i.user \in Users
    BY DEF JoinType, M!Info
  <2>2. Append(got[i.visit], i.user) \in Seq(Users)
    BY <2>1, SequenceAppend DEF JoinType
  <2>3. got' = [got EXCEPT ![i.visit] = Append(got[i.visit], i.user)]
    BY <1>7 DEF M!InfoReply
  <2>4. got' \in [1..MaxVisits -> Seq(Users)]
    BY <2>1, <2>2, <2>3 DEF JoinType
  <2>5. memberList' \in Seq(Users)
    BY <1>7, <2>1, <2>4 DEF M!InfoReply, JoinType
  <2> QED BY <1>7, <2>4, <2>5 DEF M!InfoReply, JoinType
<1>8. ASSUME NEW i \in infos, M!InfoFailure(i) PROVE JoinType'
  BY <1>8 DEF M!InfoFailure, JoinType
<1>9. ASSUME NEW s \in searches, M!SearchReply(s) \/ M!SearchFailure(s) PROVE JoinType'
  BY <1>9 DEF M!SearchReply, M!SearchFailure, JoinType
<1>10. ASSUME NEW h \in hits, M!HitReply(h) \/ M!HitFailure(h) PROVE JoinType'
  BY <1>10 DEF M!HitReply, M!HitFailure, JoinType
<1>11. CASE UNCHANGED memberVars
  BY <1>11 DEF memberVars, JoinType
<1> QED BY <1>1, <1>2, <1>3, <1>4, <1>5, <1>6, <1>7, <1>8, <1>9, <1>10, <1>11
        DEF MemberAction, M!MembersNetwork

(* A request for a group is the only one of its screen.                    *)
AskInv ==
  \A a \in asks :
    /\ a.visit <= visit /\ (a.visit = visit => a.group = groupId)
    /\ got[a.visit] = <<>>
    /\ \A i \in infos : i.visit # a.visit
    /\ \A b \in asks : a.visit = b.visit => a = b

(* A member still asked for is a member and not among those that have      *)
(* come.                                                                   *)
InfoInv ==
  \A i \in infos : i.visit <= visit /\ i.user \in members[i.visit] \ ToSet(got[i.visit])

(* What has come are members, each once; the screens not opened yet have   *)
(* none.                                                                   *)
GotInv ==
  \A v \in 1..MaxVisits :
    /\ ToSet(got[v]) \subseteq members[v]
    /\ Len(got[v]) = Cardinality(ToSet(got[v]))
    /\ v > visit => got[v] = <<>> /\ members[v] = {}

(* The newest screen's members are those of its group.                     *)
OwnInv ==
  visit > 0 /\ members[visit] # {} => groupId \in 1..MaxGroups /\ members[visit] = MembersOf[groupId]

JoinInv == AskInv /\ InfoInv /\ GotInv /\ OwnInv /\ M!MembersAllOrNone
JoinState == <<visit, groupId, memberList, asks, infos, members, got>>

LEMMA InitJoin == Init => JoinType /\ JoinInv
<1> SUFFICES ASSUME Init PROVE JoinType /\ JoinInv
  OBVIOUS
<1>1. /\ visit = 0 /\ groupId = 0 /\ memberList = <<>> /\ asks = {} /\ infos = {}
      /\ members = [v \in 1..MaxVisits |-> {}] /\ got = [v \in 1..MaxVisits |-> <<>>]
  BY DEF Init, M!InitMembers, NoId
<1>2. JoinType
  BY <1>1, MembersAssumption, ListedAssumption DEF JoinType
<1>3. GotInv
  BY <1>1, SetOfEmpty, FS_EmptySet DEF GotInv
<1> QED BY <1>1, <1>2, <1>3 DEF JoinInv, AskInv, InfoInv, OwnInv, M!MembersAllOrNone

(* A step that leaves the join alone.                                      *)
LEMMA JoinUnchanged == JoinInv /\ UNCHANGED JoinState => JoinInv'
BY DEF JoinInv, JoinState, AskInv, InfoInv, GotInv, OwnInv, M!MembersAllOrNone

LEMMA OpenKeepsJoin ==
  JoinType /\ JoinInv /\ ListGood /\ M!OpenMembers(opened.row.id) => JoinInv'
<1> SUFFICES ASSUME JoinType, JoinInv, ListGood, M!OpenMembers(opened.row.id) PROVE JoinInv'
  OBVIOUS
<1> DEFINE new == [visit |-> visit + 1, group |-> opened.row.id]
<1>1. /\ visit' = visit + 1 /\ groupId' = opened.row.id /\ memberList' = <<>>
      /\ asks' = asks \cup {new} /\ UNCHANGED <<infos, members, got>>
      /\ visit \in Nat /\ visit + 1 \in 1..MaxVisits
  BY MembersAssumption DEF M!OpenMembers, JoinType
<1>2. \A a \in asks : a.visit \in Nat
  BY DEF JoinType, M!Ask
<1>3. \A i \in infos : i.visit \in Nat
  BY DEF JoinType, M!Info
<1>4. new.visit = visit + 1 /\ new.group = opened.row.id
  OBVIOUS
<1>5. got[visit + 1] = <<>> /\ members[visit + 1] = {}
  BY <1>1 DEF JoinInv, GotInv
<1>6. AskInv'
  <2> SUFFICES ASSUME NEW a \in asks'
               PROVE  /\ a.visit <= visit' /\ (a.visit = visit' => a.group = groupId')
                      /\ got'[a.visit] = <<>>
                      /\ \A i \in infos' : i.visit # a.visit
                      /\ \A b \in asks' : a.visit = b.visit => a = b
    BY DEF AskInv
  <2> HIDE DEF new
  <2>1. CASE a = new
    <3>1. \A i \in infos : i.visit # visit + 1
      BY <1>1, <1>3 DEF JoinInv, InfoInv
    <3>2. \A b \in asks : b.visit # visit + 1
      BY <1>1, <1>2 DEF JoinInv, AskInv
    <3> QED BY <1>1, <1>4, <1>5, <2>1, <3>1, <3>2
  <2>2. CASE a \in asks
    <3>1. a.visit # visit + 1 /\ a.visit <= visit + 1
      BY <1>1, <1>2, <2>2 DEF JoinInv, AskInv
    <3>2. \A b \in asks' : a.visit = b.visit => a = b
      BY <1>1, <1>4, <2>2, <3>1 DEF JoinInv, AskInv
    <3> QED BY <1>1, <2>2, <3>1, <3>2 DEF JoinInv, AskInv
  <2> QED BY <1>1, <2>1, <2>2
<1>7. InfoInv'
  BY <1>1, <1>3 DEF JoinInv, InfoInv
<1>8. GotInv'
  BY <1>1 DEF JoinInv, GotInv
<1>9. OwnInv'
  BY <1>1, <1>5 DEF OwnInv
<1>10. M!MembersAllOrNone'
  BY <1>1 DEF M!MembersAllOrNone
<1> QED BY <1>6, <1>7, <1>8, <1>9, <1>10 DEF JoinInv

LEMMA GroupReplyKeepsJoin ==
  ASSUME JoinType, JoinInv, NEW a \in asks, M!GroupReply(a)
  PROVE  JoinInv'
<1> DEFINE g == MembersOf[a.group]
<1> DEFINE new == {[visit |-> a.visit, user |-> u] : u \in g}
<1>1. a.visit \in 1..MaxVisits /\ a.group \in 1..MaxGroups /\ visit \in Nat
  BY MembersAssumption DEF M!GroupReply, JoinType, M!Ask, NoId
<1>2. /\ asks' = asks \ {a} /\ infos' = infos \cup new
      /\ members' = [members EXCEPT ![a.visit] = g]
      /\ UNCHANGED <<visit, groupId, memberList, got>>
  BY DEF M!GroupReply
<1>3. a.visit <= visit /\ (a.visit = visit => a.group = groupId) /\ got[a.visit] = <<>>
  BY DEF JoinInv, AskInv
<1>4. \A i \in infos : i.visit # a.visit
  BY DEF JoinInv, AskInv
<1>5. \A i \in new : i.visit = a.visit /\ i.user \in g
  OBVIOUS
<1>6. \A v \in 1..MaxVisits : members'[v] = IF v = a.visit THEN g ELSE members[v]
  BY <1>1, <1>2 DEF JoinType
<1>7. \A i \in infos : i.visit \in 1..MaxVisits
  BY DEF JoinType, M!Info
<1> HIDE DEF new, g
<1>8. AskInv'
  <2> SUFFICES ASSUME NEW b \in asks, b # a
               PROVE  /\ b.visit <= visit /\ (b.visit = visit => b.group = groupId)
                      /\ got[b.visit] = <<>>
                      /\ \A i \in infos \cup new : i.visit # b.visit
                      /\ \A c \in asks \ {a} : b.visit = c.visit => b = c
    BY <1>2 DEF AskInv
  <2>1. b.visit # a.visit
    BY DEF JoinInv, AskInv
  <2> QED BY <1>5, <2>1 DEF JoinInv, AskInv
<1>9. InfoInv'
  <2> SUFFICES ASSUME NEW i \in infos \cup new
               PROVE  i.visit <= visit /\ i.user \in members'[i.visit] \ ToSet(got[i.visit])
    BY <1>2 DEF InfoInv
  <2>1. CASE i \in infos
    BY <1>4, <1>6, <1>7, <2>1 DEF JoinInv, InfoInv
  <2>2. CASE i \in new
    BY <1>1, <1>3, <1>5, <1>6, <2>2, SetOfEmpty
  <2> QED BY <2>1, <2>2
<1>10. GotInv'
  <2> SUFFICES ASSUME NEW v \in 1..MaxVisits
               PROVE  /\ ToSet(got[v]) \subseteq members'[v]
                      /\ Len(got[v]) = Cardinality(ToSet(got[v]))
                      /\ v > visit => got[v] = <<>> /\ members'[v] = {}
    BY <1>2 DEF GotInv
  <2>1. CASE v = a.visit
    BY <1>1, <1>3, <2>1, SetOfEmpty DEF JoinInv, GotInv
  <2>2. CASE v # a.visit
    BY <1>6, <2>2 DEF JoinInv, GotInv
  <2> QED BY <2>1, <2>2
<1>11. OwnInv'
  <2> SUFFICES ASSUME visit > 0, members'[visit] # {}
               PROVE  groupId \in 1..MaxGroups /\ members'[visit] = MembersOf[groupId]
    BY <1>2 DEF OwnInv
  <2>1. CASE visit = a.visit
    BY <1>1, <1>3, <1>6, <2>1 DEF g
  <2>2. CASE visit # a.visit
    <3>1. visit \in 1..MaxVisits
      BY <1>1 DEF JoinType
    <3> QED BY <1>6, <2>2, <3>1 DEF JoinInv, OwnInv
  <2> QED BY <2>1, <2>2
<1>12. M!MembersAllOrNone'
  BY <1>2 DEF JoinInv, M!MembersAllOrNone
<1> QED BY <1>8, <1>9, <1>10, <1>11, <1>12 DEF JoinInv

(* The operators of the library are the same in the instance.              *)
LEMMA SameToSet == \A s : M!ToSet(s) = ToSet(s)
BY DEF M!ToSet, ToSet

LEMMA SameCardinality == \A S : M!Cardinality(S) = Cardinality(S)
BY DEF M!Cardinality, Cardinality

LEMMA SameLast == \A s : M!Last(s) = Last(s)
BY DEF M!Last, Last

(* The list is handed over only when as many users as there are members    *)
(* have come, and they are members, each once: so all of them.             *)
LEMMA InfoReplyKeepsJoin ==
  ASSUME JoinType, JoinInv, NEW i \in infos, M!InfoReply(i)
  PROVE  JoinInv'
<1> DEFINE v == i.visit
<1>1. v \in 1..MaxVisits /\ v \in Nat /\ i.user \in Users /\ visit \in Nat
  BY MembersAssumption DEF JoinType, M!Info
<1>2. v <= visit /\ i.user \in members[v] \ ToSet(got[v])
  BY DEF JoinInv, InfoInv
<1>3. /\ infos' = infos \ {i} /\ got' = [got EXCEPT ![v] = Append(got[v], i.user)]
      /\ UNCHANGED <<visit, groupId, asks, members>>
      /\ memberList' = IF v = visit /\ Len(got'[visit]) = Cardinality(members[visit])
                       THEN got'[visit] ELSE memberList
  BY SameCardinality DEF M!InfoReply
<1>4. got[v] \in Seq(Users) /\ members[v] \subseteq Users
  BY <1>1 DEF JoinType
<1>5. \A w \in 1..MaxVisits : got'[w] = IF w = v THEN Append(got[v], i.user) ELSE got[w]
  BY <1>1, <1>3 DEF JoinType
<1>6. ToSet(got[v]) \subseteq members[v] /\ Len(got[v]) = Cardinality(ToSet(got[v]))
  BY <1>1 DEF JoinInv, GotInv
<1>7. IsFiniteSet(members[v]) /\ IsFiniteSet(ToSet(got[v]))
  BY <1>4, <1>6, MembersAssumption, FS_Subset
<1>8. ToSet(got'[v]) = ToSet(got[v]) \cup {i.user}
  BY <1>1, <1>4, <1>5, SetOfAppend
<1>9. Len(got'[v]) = Cardinality(ToSet(got'[v]))
  <2>1. Len(got'[v]) = Len(got[v]) + 1
    <3>1. got'[v] = Append(got[v], i.user)
      BY <1>1, <1>5
    <3>2. Len(Append(got[v], i.user)) = Len(got[v]) + 1
      BY <1>1, <1>4, SequenceAppend
    <3> QED BY <3>1, <3>2
  <2>2. Cardinality(ToSet(got'[v])) = Cardinality(ToSet(got[v])) + 1
    BY <1>2, <1>7, <1>8, OneMore
  <2> QED BY <1>6, <2>1, <2>2
<1> HIDE DEF v
<1>10. AskInv'
  <2>1. \A a \in asks : a.visit # v /\ a.visit \in 1..MaxVisits
    BY DEF JoinInv, AskInv, JoinType, M!Ask, v
  <2> QED BY <1>3, <1>5, <2>1 DEF JoinInv, AskInv
<1>11. InfoInv'
  <2> SUFFICES ASSUME NEW k \in infos, k # i
               PROVE  k.visit <= visit /\ k.user \in members[k.visit] \ ToSet(got'[k.visit])
    BY <1>3 DEF InfoInv
  <2>1. k.visit \in 1..MaxVisits
    BY DEF JoinType, M!Info
  <2>2. k.visit <= visit /\ k.user \in members[k.visit] \ ToSet(got[k.visit])
    BY DEF JoinInv, InfoInv
  <2>3. CASE k.visit = v
    <3>1. k \in [visit : 1..MaxVisits, user : Users] /\ i \in [visit : 1..MaxVisits, user : Users]
      BY DEF JoinType, M!Info
    <3>2. k.visit = i.visit
      BY <2>3 DEF v
    <3>3. k.user # i.user
      BY <3>1, <3>2
    <3> QED BY <1>8, <2>2, <2>3, <3>3
  <2>4. CASE k.visit # v
    BY <1>5, <2>1, <2>2, <2>4
  <2> QED BY <2>3, <2>4
<1>12. GotInv'
  <2> SUFFICES ASSUME NEW w \in 1..MaxVisits
               PROVE  /\ ToSet(got'[w]) \subseteq members[w]
                      /\ Len(got'[w]) = Cardinality(ToSet(got'[w]))
                      /\ w > visit => got'[w] = <<>> /\ members[w] = {}
    BY <1>3 DEF GotInv
  <2>1. CASE w = v
    <3>1. ToSet(got'[v]) \subseteq members[v]
      BY <1>2, <1>6, <1>8
    <3>2. ~ (v > visit)
      BY <1>1, <1>2
    <3> QED BY <1>9, <2>1, <3>1, <3>2
  <2>2. CASE w # v
    BY <1>5, <2>2 DEF JoinInv, GotInv
  <2> QED BY <2>1, <2>2
<1>13. OwnInv'
  BY <1>3 DEF JoinInv, OwnInv
<1>14. M!MembersAllOrNone'
  <2>1. CASE v = visit /\ Len(got'[visit]) = Cardinality(members[visit])
    <3>1. memberList' = got'[v] /\ groupId' = groupId
      BY <1>3, <2>1
    <3>2. groupId \in 1..MaxGroups /\ members[v] = MembersOf[groupId]
      BY <1>1, <1>2, <2>1 DEF JoinInv, OwnInv
    <3>3. ToSet(got'[v]) \subseteq members[v]
      BY <1>2, <1>6, <1>8
    <3>4. Cardinality(ToSet(got'[v])) = Cardinality(members[v])
      BY <1>9, <2>1
    <3>7. ToSet(got'[v]) = members[v]
      BY <1>7, <3>3, <3>4, SubsetOfSameSize
    <3>5. groupId # NoId
      BY <3>2 DEF NoId
    <3>6. Len(memberList') = Cardinality(MembersOf[groupId])
      BY <2>1, <3>1, <3>2
    <3> QED BY <3>1, <3>2, <3>7, <3>5, <3>6, SameToSet, SameCardinality DEF M!MembersAllOrNone
  <2>2. CASE ~(v = visit /\ Len(got'[visit]) = Cardinality(members[visit]))
    <3>1. UNCHANGED <<memberList, groupId>>
      BY <1>3, <2>2
    <3> QED BY <3>1 DEF JoinInv, M!MembersAllOrNone
  <2> QED BY <2>1, <2>2
<1> QED BY <1>10, <1>11, <1>12, <1>13, <1>14 DEF JoinInv

LEMMA StepJoin == JoinType /\ JoinInv /\ ListGood /\ MemberAction => JoinInv'
<1> SUFFICES ASSUME JoinType, JoinInv, ListGood, MemberAction PROVE JoinInv'
  OBVIOUS
<1>1. CASE M!OpenMembers(opened.row.id)
  BY <1>1, OpenKeepsJoin
<1>2. ASSUME NEW a \in asks, M!GroupReply(a) PROVE JoinInv'
  BY <1>2, GroupReplyKeepsJoin
<1>3. ASSUME NEW a \in asks, M!GroupFailure(a) PROVE JoinInv'
  BY <1>3 DEF M!GroupFailure, JoinInv, AskInv, InfoInv, GotInv, OwnInv, M!MembersAllOrNone
<1>4. ASSUME NEW i \in infos, M!InfoReply(i) PROVE JoinInv'
  BY <1>4, InfoReplyKeepsJoin
<1>5. ASSUME NEW i \in infos, M!InfoFailure(i) PROVE JoinInv'
  BY <1>5 DEF M!InfoFailure, JoinInv, AskInv, InfoInv, GotInv, OwnInv, M!MembersAllOrNone
<1>6. ASSUME \/ M!OpenSearch \/ M!InviteTapped \/ UNCHANGED memberVars
             \/ \E q \in Queries : M!SearchTapped(q)
             \/ \E s \in searches : M!SearchReply(s) \/ M!SearchFailure(s)
             \/ \E h \in hits : M!HitReply(h) \/ M!HitFailure(h)
      PROVE JoinInv'
  <2>1. UNCHANGED JoinState
    BY <1>6 DEF M!OpenSearch, M!InviteTapped, M!SearchTapped, M!SearchReply, M!SearchFailure,
                M!HitReply, M!HitFailure, M!joinVars, memberVars, JoinState
  <2> QED BY <2>1, JoinUnchanged
<1> QED BY <1>1, <1>2, <1>3, <1>4, <1>5, <1>6 DEF MemberAction, M!MembersNetwork

-----------------------------------------------------------------------------
(* The screens: the identifier handed on is still that of the row opened.  *)
TopInv ==
  /\ top \in {"groups", "create", "detail", "members", "search"}
  /\ top \in {"members", "search"} => groupId = opened.row.id
  /\ top = "search" => screen > 0

LEMMA StepTop == TopInv /\ screen \in Nat /\ [Next]_vars => TopInv'
<1> SUFFICES ASSUME TopInv, screen \in Nat, [Next]_vars PROVE TopInv'
  OBVIOUS
<1>1. CASE OnGroups
  BY <1>1 DEF OnGroups, TopInv
<1>2. CASE OnCreate
  BY <1>2 DEF OnCreate, TopInv
<1>3. CASE OnDetail
  <2>1. CASE top' = "members" /\ M!OpenMembers(opened.row.id)
    BY <1>3, <2>1 DEF OnDetail, M!OpenMembers, listVars, TopInv
  <2>2. CASE top' = "groups"
    BY <2>2 DEF TopInv
  <2> QED BY <1>3, <2>1, <2>2 DEF OnDetail
<1>4. CASE OnMembers
  <2>1. CASE top' = "search" /\ M!OpenSearch
    BY <1>4, <2>1 DEF OnMembers, M!OpenSearch, M!joinVars, listVars, TopInv
  <2>2. CASE top' = "detail"
    BY <2>2 DEF TopInv
  <2> QED BY <1>4, <2>1, <2>2 DEF OnMembers
<1>5. CASE OnSearch
  <2>1. UNCHANGED <<opened, groupId, screen>> /\ top = "search" /\ top' \in {"search", "members"}
    BY <1>5 DEF OnSearch, M!SearchTapped, M!InviteTapped, M!joinVars, listVars, memberVars
  <2> QED BY <2>1 DEF TopInv
<1>6. CASE (Reload \/ ListServer \/ ListNetwork) /\ UNCHANGED <<top, memberVars>>
  <2>1. UNCHANGED opened
    BY <1>6 DEF Reload, ListServer, RecordCreation, EndSubscription, ListNetwork, ListingReply,
                ListingFailure, DetailReply, DetailFailure, CreationReply, CreationFailure
  <2>2. UNCHANGED <<top, groupId, screen>>
    BY <1>6 DEF memberVars
  <2> QED BY <2>1, <2>2 DEF TopInv
<1>7. CASE M!MembersNetwork /\ UNCHANGED <<top, listVars>>
  <2>1. UNCHANGED <<groupId, screen>>
    BY <1>7 DEF M!MembersNetwork, M!GroupReply, M!GroupFailure, M!InfoReply, M!InfoFailure,
                M!SearchReply, M!SearchFailure, M!HitReply, M!HitFailure, M!joinVars, M!inviteVars
  <2>2. UNCHANGED <<top, opened>>
    BY <1>7 DEF listVars
  <2> QED BY <2>1, <2>2 DEF TopInv
<1>8. CASE UNCHANGED vars
  BY <1>8 DEF vars, listVars, memberVars, TopInv
<1> QED BY <1>1, <1>2, <1>3, <1>4, <1>5, <1>6, <1>7, <1>8 DEF Next, User, Background

-----------------------------------------------------------------------------
(* The search: types, and the order of its answers.                        *)
InviteType ==
  /\ screen \in 0..MaxScreens /\ userList \in Seq(M!Hit)
  /\ searches \subseteq M!Search /\ hits \subseteq M!Hit
  /\ invited \in [receiver : Users \cup {NoUser}, group : 0..MaxGroups]
  /\ searched \in 0..MaxSearches /\ hurried \in BOOLEAN

LEMMA StepInviteType ==
  InviteType /\ JoinType /\ TopInv /\ MemberAction => InviteType'
<1> SUFFICES ASSUME InviteType, JoinType, TopInv, MemberAction PROVE InviteType'
  OBVIOUS
<1> USE DEF M!joinVars, M!inviteVars
<1>1. CASE M!OpenMembers(opened.row.id)
  BY <1>1 DEF M!OpenMembers, InviteType
<1>2. CASE M!OpenSearch
  <2>1. screen' \in 0..MaxScreens /\ userList' = <<>> /\ hurried' = FALSE
        /\ UNCHANGED <<searches, hits, invited, searched>>
    BY <1>2, MembersAssumption DEF M!OpenSearch, InviteType
  <2>2. userList' \in Seq(M!Hit)
    BY <2>1
  <2>3. hurried' \in BOOLEAN
    BY <2>1
  <2> QED BY <2>1, <2>2, <2>3 DEF InviteType
<1>3. ASSUME top = "search", NEW q \in Queries, M!SearchTapped(q) PROVE InviteType'
  <2>1. screen \in 1..MaxScreens /\ searched + 1 \in 1..MaxSearches
    BY <1>3, MembersAssumption DEF M!SearchTapped, InviteType, TopInv
  <2>2. [screen |-> screen, n |-> searched + 1, query |-> q] \in M!Search
    BY <2>1 DEF M!Search
  <2>3. hurried' \in BOOLEAN
    BY <1>3 DEF M!SearchTapped, InviteType
  <2> QED BY <1>3, <2>1, <2>2, <2>3 DEF M!SearchTapped, InviteType
<1>4. CASE M!InviteTapped
  <2>1. userList # <<>> => Last(userList).user \in Users
    <3>1. userList # <<>> => Last(userList) \in M!Hit
      BY DEF InviteType, Last
    <3> QED BY <3>1 DEF M!Hit
  <2>2. invited' \in [receiver : Users \cup {NoUser}, group : 0..MaxGroups]
    BY <1>4, <2>1, SameLast DEF M!InviteTapped, JoinType
  <2> QED BY <1>4, <2>2 DEF M!InviteTapped, InviteType
<1>5. ASSUME NEW a \in asks, M!GroupReply(a) \/ M!GroupFailure(a) PROVE InviteType'
  BY <1>5 DEF M!GroupReply, M!GroupFailure, InviteType
<1>6. ASSUME NEW i \in infos, M!InfoReply(i) \/ M!InfoFailure(i) PROVE InviteType'
  BY <1>6 DEF M!InfoReply, M!InfoFailure, InviteType
<1>7. ASSUME NEW s \in searches, M!SearchReply(s) PROVE InviteType'
  <2>1. s.screen \in 1..MaxScreens /\ s.n \in 1..MaxSearches /\ FoundBy[s.query] \subseteq Users
    BY MembersAssumption DEF InviteType, M!Search
  <2>2. {[screen |-> s.screen, n |-> s.n, user |-> u] : u \in FoundBy[s.query]} \subseteq M!Hit
    BY <2>1 DEF M!Hit
  <2> QED BY <1>7, <2>2 DEF M!SearchReply, InviteType
<1>8. ASSUME NEW s \in searches, M!SearchFailure(s) PROVE InviteType'
  BY <1>8 DEF M!SearchFailure, InviteType
<1>9. ASSUME NEW h \in hits, M!HitReply(h) PROVE InviteType'
  <2>1. h \in M!Hit
    BY DEF InviteType
  <2>2. userList' \in Seq(M!Hit)
    BY <1>9, <2>1, SequenceAppend DEF M!HitReply, InviteType
  <2> QED BY <1>9, <2>2 DEF M!HitReply, InviteType
<1>10. ASSUME NEW h \in hits, M!HitFailure(h) PROVE InviteType'
  BY <1>10 DEF M!HitFailure, InviteType
<1>11. CASE UNCHANGED memberVars
  BY <1>11 DEF memberVars, InviteType
<1> QED BY <1>1, <1>2, <1>3, <1>4, <1>5, <1>6, <1>7, <1>8, <1>9, <1>10, <1>11
        DEF MemberAction, M!MembersNetwork

(* As long as the user waits, the requests in flight for the newest screen *)
(* are all of one search, none older than what the list has, and the list  *)
(* is in the order of the searches.                                        *)
Asked == searches \cup hits
InviteInv ==
  /\ \A s \in Asked : s.screen <= screen /\ s.n <= searched
  /\ \A j \in 1..Len(userList) : userList[j].n <= searched
  /\ ~hurried =>
       /\ \A s, u \in Asked : s.screen = screen /\ u.screen = screen => s.n = u.n
       /\ \A s \in Asked : s.screen = screen =>
            \A j \in 1..Len(userList) : userList[j].n <= s.n
       /\ \A j \in 1..Len(userList) : userList[j].n <= userList[Len(userList)].n

InviteState == <<screen, userList, searches, hits, searched, hurried>>

LEMMA InviteUnchanged == InviteInv /\ UNCHANGED InviteState => InviteInv'
BY DEF InviteInv, InviteState, Asked

(* Fewer requests.                                                         *)
LEMMA InviteFewer ==
  InviteInv /\ Asked' \subseteq Asked /\ UNCHANGED <<screen, userList, searched, hurried>> => InviteInv'
BY DEF InviteInv

LEMMA StepInvite == InviteType /\ InviteInv /\ MemberAction => InviteInv'
<1> SUFFICES ASSUME InviteType, InviteInv, MemberAction PROVE InviteInv'
  OBVIOUS
<1>0. /\ screen \in Nat /\ searched \in Nat /\ Len(userList) \in Nat
      /\ \A s \in Asked : s.screen \in Nat /\ s.n \in Nat
      /\ \A j \in 1..Len(userList) : userList[j].n \in Nat
  <2>1. screen \in Nat /\ searched \in Nat /\ Len(userList) \in Nat
    BY MembersAssumption DEF InviteType
  <2>2. \A s \in searches : s.screen \in Nat /\ s.n \in Nat
    BY MembersAssumption DEF InviteType, M!Search
  <2>3. \A h \in M!Hit : h.screen \in Nat /\ h.n \in Nat
    BY MembersAssumption DEF M!Hit
  <2>4. \A j \in 1..Len(userList) : userList[j] \in M!Hit
    BY DEF InviteType
  <2> QED BY <2>1, <2>2, <2>3, <2>4 DEF InviteType, Asked
<1>1. CASE M!OpenSearch
  <2>1. screen' = screen + 1 /\ userList' = <<>> /\ UNCHANGED <<Asked, searched>>
    BY <1>1 DEF M!OpenSearch, Asked
  <2>2. Len(userList') = 0
    BY <2>1
  <2>3. \A s \in Asked : s.screen # screen' /\ s.screen <= screen' /\ s.n <= searched
    BY <1>0, <2>1 DEF InviteInv
  <2>4. 1..Len(userList') = {}
    BY <2>2
  <2> QED BY <2>1, <2>3, <2>4 DEF InviteInv
<1>2. ASSUME NEW q \in Queries, M!SearchTapped(q) PROVE InviteInv'
  <2> DEFINE new == [screen |-> screen, n |-> searched + 1, query |-> q]
  <2>1. /\ Asked' = Asked \cup {new} /\ searched' = searched + 1
        /\ UNCHANGED <<screen, userList>>
        /\ hurried' = (hurried \/ \E s \in Asked : s.screen = screen)
    BY <1>2 DEF M!SearchTapped, Asked
  <2>2. new.screen = screen /\ new.n = searched + 1
    OBVIOUS
  <2> HIDE DEF new
  <2>3. \A s \in Asked' : s.screen <= screen /\ s.n <= searched + 1
    BY <1>0, <2>1, <2>2 DEF InviteInv
  <2>4. \A j \in 1..Len(userList) : userList[j].n <= searched + 1
    BY <1>0 DEF InviteInv
  <2>5. ASSUME ~hurried'
        PROVE  /\ \A s \in Asked' : s.screen = screen => s = new
               /\ \A j \in 1..Len(userList) : userList[j].n <= userList[Len(userList)].n
    BY <2>1, <2>5 DEF InviteInv
  <2> QED BY <2>1, <2>2, <2>3, <2>4, <2>5 DEF InviteInv
<1>3. ASSUME NEW s \in searches, M!SearchReply(s) PROVE InviteInv'
  <2> DEFINE new == {[screen |-> s.screen, n |-> s.n, user |-> u] : u \in FoundBy[s.query]}
  <2>1. Asked' \subseteq Asked \cup new /\ UNCHANGED <<screen, userList, searched, hurried>>
    BY <1>3 DEF M!SearchReply, Asked
  <2>2. \A h \in new : h.screen = s.screen /\ h.n = s.n
    OBVIOUS
  <2> HIDE DEF new
  <2>3. s \in Asked
    BY DEF Asked
  <2>4. \A h \in Asked' : \E u \in Asked : h.screen = u.screen /\ h.n = u.n
    BY <2>1, <2>2, <2>3
  <2>5. \A h \in Asked' : h.screen <= screen /\ h.n <= searched
    BY <2>4 DEF InviteInv
  <2>6. ASSUME ~hurried
        PROVE  /\ \A h, u \in Asked' : h.screen = screen /\ u.screen = screen => h.n = u.n
               /\ \A h \in Asked' : h.screen = screen =>
                    \A j \in 1..Len(userList) : userList[j].n <= h.n
               /\ \A j \in 1..Len(userList) : userList[j].n <= userList[Len(userList)].n
    BY <2>4, <2>6 DEF InviteInv
  <2> QED BY <2>1, <2>5, <2>6 DEF InviteInv
<1>4. ASSUME NEW s \in searches, M!SearchFailure(s) PROVE InviteInv'
  <2>1. Asked' \subseteq Asked /\ UNCHANGED <<screen, userList, searched, hurried>>
    BY <1>4 DEF M!SearchFailure, Asked
  <2> QED BY <2>1, InviteFewer
<1>5. ASSUME NEW h \in hits, M!HitFailure(h) PROVE InviteInv'
  <2>1. Asked' \subseteq Asked /\ UNCHANGED <<screen, userList, searched, hurried>>
    BY <1>5 DEF M!HitFailure, Asked
  <2> QED BY <2>1, InviteFewer
<1>6. ASSUME NEW h \in hits, M!HitReply(h) PROVE InviteInv'
  <2>1. Asked' \subseteq Asked /\ UNCHANGED <<screen, searched, hurried>>
    BY <1>6 DEF M!HitReply, Asked
  <2>2. h \in Asked /\ h \in M!Hit
    BY DEF Asked, InviteType
  <2>3. CASE h.screen # screen
    <3>1. userList' = userList
      BY <1>6, <2>3 DEF M!HitReply
    <3> QED BY <2>1, <3>1, InviteFewer
  <2>4. CASE h.screen = screen
    <3>1. userList' = Append(userList, h)
      BY <1>6, <2>4 DEF M!HitReply
    <3>2. /\ Len(userList') = Len(userList) + 1
          /\ \A j \in 1..Len(userList) : userList'[j] = userList[j]
          /\ userList'[Len(userList) + 1] = h
      BY <2>2, <3>1, SequenceAppend DEF InviteType
    <3>3. \A j \in 1..Len(userList') : j \in 1..Len(userList) \/ j = Len(userList) + 1
      BY <1>0, <3>2
    <3>4. \A j \in 1..Len(userList') : userList'[j].n <= searched
      BY <2>2, <3>2, <3>3 DEF InviteInv
    <3>5. ASSUME ~hurried
          PROVE  \A j \in 1..Len(userList') : userList'[j].n <= h.n
      BY <1>0, <2>2, <2>4, <3>2, <3>3, <3>5 DEF InviteInv
    <3>6. \A u \in Asked' : u.screen <= screen /\ u.n <= searched
      BY <2>1 DEF InviteInv
    <3>7. ASSUME ~hurried
          PROVE  \A s, u \in Asked' \cup {h} : s.screen = screen /\ u.screen = screen => s.n = u.n
      BY <2>1, <2>2, <3>7 DEF InviteInv
    <3>8. ASSUME ~hurried
          PROVE  \A s \in Asked' : s.screen = screen => s.n = h.n
      BY <2>4, <3>7, <3>8
    <3> QED BY <2>1, <3>2, <3>4, <3>5, <3>6, <3>7, <3>8 DEF InviteInv
  <2> QED BY <2>3, <2>4
<1>7. ASSUME \/ M!OpenMembers(opened.row.id) \/ M!InviteTapped \/ UNCHANGED memberVars
             \/ \E a \in asks : M!GroupReply(a) \/ M!GroupFailure(a)
             \/ \E i \in infos : M!InfoReply(i) \/ M!InfoFailure(i)
      PROVE InviteInv'
  <2>1. UNCHANGED InviteState
    BY <1>7 DEF M!OpenMembers, M!InviteTapped, M!GroupReply, M!GroupFailure, M!InfoReply,
                M!InfoFailure, M!inviteVars, memberVars, InviteState
  <2> QED BY <2>1, InviteUnchanged
<1> QED BY <1>1, <1>2, <1>3, <1>4, <1>5, <1>6, <1>7 DEF MemberAction, M!MembersNetwork

-----------------------------------------------------------------------------
(* The inductive invariant.                                                *)
TabInv == ListGood /\ RowsType /\ RowsInv /\ JoinType /\ JoinInv /\ TopInv /\ InviteType /\ InviteInv

LEMMA InitTab == Init => TabInv
<1> SUFFICES ASSUME Init PROVE TabInv
  OBVIOUS
<1>1. /\ top = "groups" /\ screen = 0 /\ userList = <<>> /\ searches = {} /\ hits = {}
      /\ invited = [receiver |-> NoUser, group |-> 0] /\ searched = 0 /\ hurried = FALSE
  BY DEF Init, M!InitMembers, M!NotInvited, NoId
<1>2. TopInv
  BY <1>1 DEF TopInv
<1>3. InviteType
  <2>1. 0 \in 0..MaxScreens /\ 0 \in 0..MaxSearches /\ 0 \in 0..MaxGroups
    BY MembersAssumption, ListedAssumption
  <2>2. <<>> \in Seq(M!Hit)
    OBVIOUS
  <2>3. hurried \in BOOLEAN
    BY <1>1
  <2> QED BY <1>1, <2>1, <2>2, <2>3 DEF InviteType
<1>4. InviteInv
  <2>1. Asked = {} /\ Len(userList) = 0
    BY <1>1 DEF Asked
  <2>2. 1..Len(userList) = {}
    BY <2>1
  <2> QED BY <2>1, <2>2 DEF InviteInv
<1>5. RowsType
  <2>1. text = NoText /\ found = <<>> /\ shown = <<>> /\ listing = "unsent" /\ reload = FALSE
        /\ opened = NothingOpened /\ trap = FALSE
    BY DEF Init, InitList
  <2>2. <<>> \in Seq(Names) /\ FALSE \in BOOLEAN /\ text \in Texts \cup {NoText}
        /\ opened \in [shown : Names, row : Row] \cup {NothingOpened}
    BY <2>1
  <2> QED BY <2>1, <2>2, Zenon DEF RowsType
<1>6. RowsInv
  <2>1. text = NoText /\ Len(shown) = 0
    BY DEF Init, InitList
  <2> QED BY <2>1 DEF RowsInv
<1> QED BY <1>2, <1>3, <1>4, <1>5, <1>6, InitListGood, InitJoin DEF TabInv

LEMMA StepTab == TabInv /\ [Next]_vars => TabInv'
<1> SUFFICES ASSUME TabInv, [Next]_vars PROVE TabInv'
  OBVIOUS
<1>1. ListAction /\ MemberAction
  BY StepSplits
<1>2. screen \in Nat
  BY MembersAssumption DEF TabInv, InviteType
<1>3. ListGood' /\ RowsType' /\ RowsInv'
  BY <1>1, StepListGood, StepRowsType, StepRows DEF TabInv
<1>4. JoinType' /\ JoinInv'
  BY <1>1, StepJoinType, StepJoin DEF TabInv
<1>5. TopInv'
  BY <1>2, StepTop DEF TabInv
<1>6. InviteType' /\ InviteInv'
  BY <1>1, StepInviteType, StepInvite DEF TabInv
<1> QED BY <1>3, <1>4, <1>5, <1>6 DEF TabInv

LEMMA TabInvariant == Spec => []TabInv
<1> QED BY InitTab, StepTab, PTL DEF Spec

(* The members shown are all the members of the group whose row was        *)
(* tapped, whatever arrives in which order or not at all.                  *)
THEOREM MembersOfTappedGroupHolds == Spec => []MembersOfTappedGroup
<1>1. TabInv => MembersOfTappedGroup
  BY DEF TabInv, TopInv, JoinInv, MembersOfTappedGroup
<1> QED BY <1>1, TabInvariant, PTL

(* A tap on any row of the table opens the group the row shows, or one     *)
(* behind a group that a search left out, and never one beyond the list.   *)
THEOREM RowsOpenWhatTheyShowHolds == Spec => []RowsOpenWhatTheyShow
<1>1. TabInv => RowsOpenWhatTheyShow
  <2> SUFFICES ASSUME TabInv PROVE RowsOpenWhatTheyShow
    OBVIOUS
  <2>1. DOMAIN shown = 1..Len(shown) /\ DOMAIN groupList = 1..Len(groupList)
    BY DEF TabInv, RowsType, ListGood
  <2> QED BY <2>1 DEF TabInv, RowsInv, RowGood, RowsOpenWhatTheyShow
<1> QED BY <1>1, TabInvariant, PTL

(* The types of the whole tab; in particular a join's counter stays within *)
(* the number of members it is compared with.                              *)
THEOREM TypeCorrect == Spec => []TypeOK
<1>1. TabInv => M!MembersTypeOK
  <2> SUFFICES ASSUME TabInv PROVE M!MembersTypeOK
    OBVIOUS
  <2>1. \A v \in 1..MaxVisits : Len(got[v]) <= M!Cardinality(members[v])
    <3> SUFFICES ASSUME NEW v \in 1..MaxVisits
                 PROVE  Len(got[v]) <= Cardinality(members[v])
      BY SameCardinality
    <3>1. members[v] \in SUBSET Users
      BY DEF TabInv, JoinType
    <3>2. IsFiniteSet(members[v])
      BY <3>1, MembersAssumption, FS_Subset
    <3>3. ToSet(got[v]) \in SUBSET members[v] /\ Len(got[v]) = Cardinality(ToSet(got[v]))
      BY DEF TabInv, JoinInv, GotInv
    <3>4. Cardinality(ToSet(got[v])) <= Cardinality(members[v])
      BY <3>2, <3>3, FS_Subset
    <3> QED BY <3>3, <3>4
  <2> QED BY <2>1 DEF TabInv, JoinType, InviteType, M!MembersTypeOK
<1>2. TabInv => top \in {"groups", "create", "detail", "members", "search"} /\ ListTypeOK
  BY DEF TabInv, TopInv, ListGood, RowsType, ListTypeOK
<1>3. TabInv => TypeOK
  BY <1>1, <1>2 DEF TypeOK
<1> QED BY <1>3, TabInvariant, PTL

(* An invitation is for the group whose row was tapped and, if the user    *)
(* waited, for a user of the latest search that found anybody.             *)
THEOREM PatientInvitesLatestHolds == Spec => PatientInvitesLatest
<1>1. TabInv /\ [Next]_vars =>
        [M!PatientInvite /\ (invited' # invited => invited'.group = opened.row.id)]_vars
  <2> SUFFICES ASSUME TabInv, [Next]_vars, invited' # invited
               PROVE  M!PatientInvite /\ invited'.group = opened.row.id
    BY DEF M!PatientInvite
  <2>1. top = "search" /\ M!InviteTapped
    <3>1. MemberAction
      BY StepSplits
    <3> QED BY <3>1 DEF MemberAction, M!OpenMembers, M!OpenSearch, M!SearchTapped, M!MembersNetwork,
              M!GroupReply, M!GroupFailure, M!InfoReply, M!InfoFailure, M!SearchReply,
              M!SearchFailure, M!HitReply, M!HitFailure, M!joinVars, M!inviteVars, memberVars
  <2>2. invited'.group = opened.row.id
    BY <2>1 DEF M!InviteTapped, TabInv, TopInv
  <2>3. ASSUME ~hurried, userList # <<>>
        PROVE  \E i \in DOMAIN userList :
                 /\ userList[i].user = invited'.receiver
                 /\ \A j \in DOMAIN userList : userList[j].n <= userList[i].n
    <3>1. DOMAIN userList = 1..Len(userList) /\ Len(userList) \in 1..Len(userList)
      BY <2>3 DEF TabInv, InviteType
    <3>2. userList[Len(userList)].user = invited'.receiver
      BY <2>1, <2>3, SameLast DEF M!InviteTapped, Last
    <3>3. \A j \in 1..Len(userList) : userList[j].n <= userList[Len(userList)].n
      BY <2>3 DEF TabInv, InviteInv
    <3> QED BY <3>1, <3>2, <3>3
  <2> QED BY <2>2, <2>3 DEF M!PatientInvite
<1> QED BY <1>1, TabInvariant, PTL DEF Spec, PatientInvitesLatest
=============================================================================
