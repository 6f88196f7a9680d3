-------------------------- MODULE VoteControlsProofs ------------------------
(***************************************************************************)
(* Theorems about VoteControls, for every slider range and any number of   *)
(* visits: types, the picks that hide, what each of the two grades is the  *)
(* sum of, and that the two views are steps of a rating.                   *)
(***************************************************************************)
EXTENDS VoteControls, FiniteSetTheorems, TLAPS

(* The tables: three questions, three answers at least, no negative value. *)
LEMMA Tables ==
  /\ Len(Questions) = 3
  /\ \A q \in 1..3, b \in 1..3 : Questions[q][b] \in Nat
<1>1. Len(Questions) = 3
  BY DEF Questions
<1>2. ASSUME NEW q \in 1..3, NEW b \in 1..3
      PROVE  Questions[q][b] \in Nat
  <2>1. Questions[1][b] \in Nat
    BY DEF Questions
  <2>2. Questions[2][b] \in Nat
    BY DEF Questions
  <2>3. Questions[3][b] \in Nat
    BY DEF Questions
  <2> QED BY <2>1, <2>2, <2>3
<1> QED BY <1>1, <1>2

LEMMA WorthType ==
  ASSUME NEW q \in 1..3, NEW picks
  PROVE  WorthOf(Questions[q], picks) \in Nat
BY Tables DEF WorthOf

LEMMA SumType ==
  ASSUME NEW a \in Nat, NEW b \in Nat, NEW c \in Nat, NEW d \in Nat
  PROVE  a + b + c + d \in Nat
OBVIOUS

LEMMA NextIndex ==
  ASSUME NEW c \in 0..3, c # 3
  PROVE  c \in 0..2 /\ c + 1 \in 1..3
OBVIOUS

LEMMA SumOfTwo ==
  ASSUME NEW a \in Nat, NEW b \in Nat
  PROVE  a + b \in Nat
OBVIOUS

LEMMA DecisionType == TypeOK => Decision \in Nat
<1> SUFFICES ASSUME TypeOK PROVE Decision \in Nat
  OBVIOUS
<1>1. value \in [Sliders -> Value]
  BY DEF TypeOK
<1>2. \A s \in Sliders : value[s] \in Nat
  BY <1>1, MaxValueAssumption DEF Value
<1>3. 1 \in Sliders /\ 2 \in Sliders /\ 3 \in Sliders /\ 4 \in Sliders
  BY DEF Sliders
<1>4. value[1] \in Nat /\ value[2] \in Nat /\ value[3] \in Nat /\ value[4] \in Nat
  BY <1>2, <1>3
<1> QED BY <1>4, SumType DEF Decision

LEMMA CountedAppend ==
  ASSUME NEW S, NEW s \in Seq(S), NEW x \in S
  PROVE  /\ Append(s, x) \in Seq(S) /\ Append(s, x) # <<>>
         /\ Len(s) \in Nat /\ Len(Append(s, x)) = Len(s) + 1
         /\ Append(s, x)[Len(s) + 1] = x
OBVIOUS

-----------------------------------------------------------------------------
(* The quiz counts every question once, and is finished after the last.    *)
QuizInv ==
  /\ current = Len(counted)
  /\ finished => current = 3
  /\ current = 3 => finished

Inv == TypeOK /\ QuizInv /\ OnlyCarriedPicksHide

LEMMA InitInv == Init => Inv
<1> SUFFICES ASSUME Init PROVE Inv
  OBVIOUS
<1>1. /\ 0 \in Nat /\ 0 \in 0..3 /\ 0 \in 0..MaxVisits /\ <<>> \in Seq(SUBSET Picks)
      /\ 0 \in Value /\ InitialThumb \in Value
  BY MaxVisitsAssumption, MaxValueAssumption DEF Value, InitialThumb
<1>2. thumb \in [Sliders -> Value] /\ value \in [Sliders -> Value]
  BY <1>1 DEF Init
<1>3. slot \in [Views -> Nat \cup {NoGrade}] /\ writer \in [Views -> 0..MaxVisits]
  BY <1>1 DEF Init
<1>4. finished \in BOOLEAN
  BY DEF Init
<1>5. TypeOK
  BY <1>1, <1>2, <1>3, <1>4, Tables DEF Init, TypeOK, FourthHidden
<1>6. QuizInv /\ OnlyCarriedPicksHide
  BY DEF Init, QuizInv, OnlyCarriedPicksHide, NoView
<1> QED BY <1>5, <1>6 DEF Inv

(* What a new FourthVoteView starts with.                                  *)
LEMMA FreshFourth ==
  ASSUME NewFourth
  PROVE  /\ current' \in 0..Len(Questions) /\ loyalty' \in Nat /\ picked' \subseteq Picks
         /\ selected' \subseteq Buttons /\ hidden' \subseteq Buttons
         /\ finished' \in BOOLEAN /\ counted' \in Seq(SUBSET Picks)
         /\ QuizInv' /\ OnlyCarriedPicksHide'
<1>1. /\ current' \in 0..Len(Questions) /\ loyalty' \in Nat /\ picked' \subseteq Picks
      /\ selected' \subseteq Buttons /\ hidden' \subseteq Buttons
      /\ counted' \in Seq(SUBSET Picks)
  BY Tables DEF NewFourth, FourthHidden
<1>2. finished' \in BOOLEAN
  BY DEF NewFourth
<1>3. QuizInv' /\ OnlyCarriedPicksHide'
  BY DEF NewFourth, QuizInv, OnlyCarriedPicksHide
<1> QED BY <1>1, <1>2, <1>3

LEMMA StepInv == Inv /\ [Next]_vars => Inv'
<1> SUFFICES ASSUME Inv, [Next]_vars PROVE Inv'
  OBVIOUS
<1> USE DEF thirdVars, fourthVars, slotVars
<1>0. TypeOK
  BY DEF Inv
<1>1. CASE OpenThird
  <2>1. TypeOK'
    BY <1>0, <1>1, MaxVisitsAssumption DEF OpenThird, TypeOK, Views
  <2> QED BY <1>1, <2>1 DEF OpenThird, Inv, QuizInv, OnlyCarriedPicksHide
<1>2. ASSUME NEW s \in Sliders, NEW v \in Value, SliderTapped(s, v)
      PROVE  Inv'
  <2>1. TypeOK'
    BY <1>0, <1>2 DEF SliderTapped, TypeOK
  <2> QED BY <1>2, <2>1 DEF SliderTapped, Inv, QuizInv, OnlyCarriedPicksHide
<1>3. CASE SaveThird
  <2>1. thumb' \in [Sliders -> Value] /\ value' \in [Sliders -> Value]
    <3>1. 0 \in Value /\ InitialThumb \in Value
      BY MaxValueAssumption DEF Value, InitialThumb
    <3> QED BY <1>3, <3>1 DEF SaveThird, NewThird
  <2>2. slot' \in [Views -> Nat \cup {NoGrade}] /\ writer' \in [Views -> 0..MaxVisits]
    BY <1>0, <1>3, DecisionType DEF SaveThird, Grade, TypeOK
  <2>3. view' \in Views \cup {NoView} /\ visit' \in 0..MaxVisits
    BY <1>0, <1>3 DEF SaveThird, TypeOK, Views
  <2>4. TypeOK'
    BY <1>3, <2>1, <2>2, <2>3, FreshFourth DEF SaveThird, TypeOK
  <2> QED BY <1>3, <2>4, FreshFourth DEF SaveThird, Inv
<1>4. ASSUME NEW b \in Buttons, AnswerTapped(b)
      PROVE  Inv'
  <2>1. TypeOK'
    BY <1>0, <1>4 DEF AnswerTapped, TypeOK
  <2>2. QuizInv'
    BY <1>4 DEF AnswerTapped, Inv, QuizInv
  <2>3. (picked' \ selected') \subseteq (picked \ selected)
    BY <1>0, <1>4 DEF AnswerTapped, TypeOK
  <2>4. ASSUME selected \cap Picks \subseteq picked
        PROVE  selected' \cap Picks \subseteq picked'
    BY <1>4, <2>4 DEF AnswerTapped
  <2>5. UNCHANGED <<view, finished, counted>>
    BY <1>4 DEF AnswerTapped
  <2> QED BY <2>1, <2>2, <2>3, <2>4, <2>5 DEF Inv, OnlyCarriedPicksHide
<1>5. CASE NextQuestionTapped
  <2>1. /\ view = "fourth" /\ ~finished /\ current' = current + 1
        /\ counted' = Append(counted, picked) /\ picked' = picked
        /\ UNCHANGED <<view, visit, thumb, value>>
        /\ loyalty' = loyalty + WorthOf(Questions[current + 1], picked)
    BY <1>5 DEF NextQuestionTapped
  <2>2. current \in 0..2 /\ current + 1 \in 1..3
    <3>1. current \in 0..3
      BY <1>0, Tables DEF TypeOK
    <3>2. current # 3
      BY <2>1 DEF Inv, QuizInv
    <3> QED BY <3>1, <3>2, NextIndex
  <2>3. loyalty' \in Nat
    <3>1. loyalty \in Nat
      BY <1>0 DEF TypeOK
    <3>2. WorthOf(Questions[current + 1], picked) \in Nat
      BY <2>2, WorthType
    <3> QED BY <2>1, <3>1, <3>2, SumOfTwo
  <2>4. /\ counted' \in Seq(SUBSET Picks) /\ Len(counted') = Len(counted) + 1
        /\ counted' # <<>> /\ counted'[Len(counted) + 1] = picked
    <3>1. counted \in Seq(SUBSET Picks) /\ picked \in SUBSET Picks
      BY <1>0 DEF TypeOK
    <3> QED BY <2>1, <3>1, CountedAppend
  <2>5. current' = Len(counted') /\ current' \in 0..Len(Questions)
    BY <2>1, <2>2, <2>4, Tables DEF Inv, QuizInv
  <2>6. CASE current' < Len(Questions)
    <3>1. /\ hidden' \subseteq Buttons /\ selected' = {}
          /\ UNCHANGED <<finished, slot, writer>>
      BY <1>0, <1>5, <2>6 DEF NextQuestionTapped, NextQuestion, TypeOK
    <3>2. TypeOK'
      <4>1. finished' \in BOOLEAN
        BY <1>0, <3>1 DEF TypeOK
      <4> QED BY <1>0, <2>1, <2>3, <2>4, <2>5, <3>1, <4>1 DEF TypeOK
    <3>3. QuizInv'
      <4>1. ~finished' /\ current' # 3
        BY <2>1, <2>5, <2>6, <3>1, Tables
      <4> QED BY <2>5, <4>1 DEF QuizInv
    <3>4. OnlyCarriedPicksHide'
      <4>1. Last(counted') = picked
        BY <2>4 DEF Last
      <4> QED BY <2>1, <2>4, <3>1, <4>1 DEF OnlyCarriedPicksHide
    <3> QED BY <3>2, <3>3, <3>4 DEF Inv
  <2>7. CASE ~(current' < Len(Questions))
    <3>1. /\ slot' = [slot EXCEPT !["fourth"] = loyalty']
          /\ writer' = [writer EXCEPT !["fourth"] = visit]
          /\ hidden' = Buttons /\ finished' = TRUE /\ selected' = selected
      BY <1>5, <2>7 DEF NextQuestionTapped, EndQuiz, Grade
    <3>2. TypeOK'
      <4>1. slot' \in [Views -> Nat \cup {NoGrade}] /\ writer' \in [Views -> 0..MaxVisits]
        BY <1>0, <2>3, <3>1 DEF TypeOK
      <4>2. finished' \in BOOLEAN
        BY <3>1
      <4> QED BY <1>0, <2>1, <2>3, <2>4, <2>5, <3>1, <4>1, <4>2 DEF TypeOK
    <3>3. QuizInv'
      <4>1. current' = 3
        BY <2>5, <2>7, Tables
      <4> QED BY <2>5, <3>1, <4>1 DEF QuizInv
    <3> QED BY <3>1, <3>2, <3>3 DEF Inv, OnlyCarriedPicksHide
  <2> QED BY <2>6, <2>7
<1>6. CASE SaveFourth
  <2>1. TypeOK'
    BY <1>0, <1>6, FreshFourth DEF SaveFourth, TypeOK
  <2> QED BY <1>6, <2>1, FreshFourth DEF SaveFourth, Inv
<1>7. CASE UNCHANGED vars
  <2>1. TypeOK'
    BY <1>0, <1>7 DEF vars, TypeOK
  <2> QED BY <1>7, <2>1 DEF vars, Inv, QuizInv, OnlyCarriedPicksHide
<1> QED BY <1>1, <1>2, <1>3, <1>4, <1>5, <1>6, <1>7 DEF Next

LEMMA Invariant == Spec => []Inv
BY InitInv, StepInv, PTL DEF Spec

(* Every reachable state is well typed; no grade is negative.              *)
THEOREM TypeCorrect == Spec => []TypeOK
<1>1. Inv => TypeOK
  BY DEF Inv
<1> QED BY <1>1, Invariant, PTL

(* What is shown as selected is counted, and what is counted without being *)
(* shown was counted for the question before.                              *)
THEOREM OnlyCarriedPicksHideHolds == Spec => []OnlyCarriedPicksHide
<1>1. Inv => OnlyCarriedPicksHide
  BY DEF Inv
<1> QED BY <1>1, Invariant, PTL

-----------------------------------------------------------------------------
(* Efficiency.                                                             *)
One(s, S) == IF s \in S THEN 1 ELSE 0

LEMMA OneMore ==
  ASSUME NEW S, NEW x, IsFiniteSet(S)
  PROVE  /\ IsFiniteSet(S \cup {x})
         /\ x \notin S => Cardinality(S \cup {x}) = Cardinality(S) + 1
BY FS_AddElement

LEMMA CountOfFour ==
  ASSUME NEW S \in SUBSET Sliders
  PROVE  Cardinality(S) = One(1, S) + One(2, S) + One(3, S) + One(4, S)
<1> DEFINE Part(k) == {s \in S : s <= k}
<1>0. \A s \in S : s \in Nat /\ 1 <= s /\ s <= 4
  BY DEF Sliders
<1>1. IsFiniteSet(Part(0)) /\ Cardinality(Part(0)) = 0
  <2>1. Part(0) = {}
    BY <1>0
  <2> QED BY <2>1, FS_EmptySet
<1>2. ASSUME NEW k \in Nat, IsFiniteSet(Part(k)), Cardinality(Part(k)) \in Nat
      PROVE  /\ IsFiniteSet(Part(k + 1)) /\ Cardinality(Part(k + 1)) \in Nat
             /\ Cardinality(Part(k + 1)) = Cardinality(Part(k)) + One(k + 1, S)
  <2>1. CASE k + 1 \in S
    <3>1. \A s \in S : s <= k + 1 <=> s <= k \/ s = k + 1
      BY <1>0
    <3>2. ~(k + 1 <= k)
      OBVIOUS
    <3>3. Part(k + 1) = Part(k) \cup {k + 1} /\ k + 1 \notin Part(k)
      BY <2>1, <3>1, <3>2
    <3> HIDE DEF Part
    <3> QED BY <1>2, <2>1, <3>3, OneMore DEF One
  <2>2. CASE k + 1 \notin S
    <3>1. \A s \in S : s <= k + 1 <=> s <= k
      BY <1>0, <2>2
    <3>2. Part(k + 1) = Part(k)
      BY <3>1
    <3> HIDE DEF Part
    <3> QED BY <1>2, <2>2, <3>2 DEF One
  <2> QED BY <2>1, <2>2
<1>3. S = Part(4)
  BY <1>0
<1> HIDE DEF Part
<1>4. IsFiniteSet(Part(1)) /\ Cardinality(Part(1)) \in Nat
      /\ Cardinality(Part(1)) = One(1, S)
  <2>1. 0 + 1 = 1 /\ One(1, S) \in Nat
    BY DEF One
  <2> QED BY <1>1, <1>2, <2>1
<1>5. IsFiniteSet(Part(2)) /\ Cardinality(Part(2)) \in Nat
      /\ Cardinality(Part(2)) = Cardinality(Part(1)) + One(2, S)
  BY <1>2, <1>4, 1 + 1 = 2
<1>6. IsFiniteSet(Part(3)) /\ Cardinality(Part(3)) \in Nat
      /\ Cardinality(Part(3)) = Cardinality(Part(2)) + One(3, S)
  BY <1>2, <1>5, 2 + 1 = 3
<1>7. Cardinality(Part(4)) = Cardinality(Part(3)) + One(4, S)
  BY <1>2, <1>6, 3 + 1 = 4
<1> QED BY <1>3, <1>4, <1>5, <1>6, <1>7

(* A slider was touched and shows its value, or neither.                   *)
ThumbInv == \A s \in Sliders : value[s] = thumb[s] \/ (value[s] = 0 /\ thumb[s] = 1)

LEMMA StepThumb == TypeOK /\ ThumbInv /\ [Next]_vars => ThumbInv'
<1> SUFFICES ASSUME TypeOK, ThumbInv, [Next]_vars PROVE ThumbInv'
  OBVIOUS
<1> USE DEF thirdVars
<1>1. ASSUME NEW s \in Sliders, NEW v \in Value, SliderTapped(s, v)
      PROVE  ThumbInv'
  BY <1>1 DEF SliderTapped, ThumbInv, TypeOK
<1>2. CASE SaveThird
  BY <1>2 DEF SaveThird, NewThird, ThumbInv, InitialThumb
<1>3. CASE UNCHANGED thirdVars
  BY <1>3 DEF ThumbInv
<1> QED BY <1>1, <1>2, <1>3
        DEF Next, OpenThird, AnswerTapped, NextQuestionTapped, SaveFourth, vars

LEMMA DecisionFallsShort ==
  TypeOK /\ ThumbInv =>
    /\ \A s \in Untouched : thumb[s] = InitialThumb
    /\ Decision = thumb[1] + thumb[2] + thumb[3] + thumb[4] - Cardinality(Untouched) * InitialThumb
<1> SUFFICES ASSUME TypeOK, ThumbInv
             PROVE  /\ \A s \in Untouched : thumb[s] = InitialThumb
                    /\ Decision = thumb[1] + thumb[2] + thumb[3] + thumb[4]
                                    - Cardinality(Untouched) * InitialThumb
  OBVIOUS
<1>1. \A s \in Untouched : thumb[s] = InitialThumb
  BY DEF ThumbInv, Untouched, InitialThumb
<1>2. \A s \in Sliders : thumb[s] \in Nat /\ value[s] = thumb[s] - One(s, Untouched)
  BY MaxValueAssumption DEF TypeOK, Value, ThumbInv, Untouched, One
<1>3. Cardinality(Untouched) = One(1, Untouched) + One(2, Untouched) + One(3, Untouched)
                                 + One(4, Untouched)
  BY CountOfFour DEF Untouched
<1>4. \A s : One(s, Untouched) \in Nat
  BY DEF One
<1>5. 1 \in Sliders /\ 2 \in Sliders /\ 3 \in Sliders /\ 4 \in Sliders
  BY DEF Sliders
<1> QED BY <1>1, <1>2, <1>3, <1>4, <1>5 DEF Decision, InitialThumb

(* The grade in the efficiency slot is what the sliders show less one for  *)
(* each that was never touched.                                            *)
THEOREM EfficiencyIsShownHolds == Spec => EfficiencyIsShown
<1>1. Init => ThumbInv
  BY DEF Init, ThumbInv, InitialThumb
<1>2. TypeOK /\ ThumbInv /\ [Next]_vars =>
        [writer'["third"] # writer["third"] =>
           /\ \A s \in Untouched : thumb[s] = InitialThumb
           /\ slot'["third"] = thumb[1] + thumb[2] + thumb[3] + thumb[4]
                                 - Cardinality(Untouched) * InitialThumb]_vars
  <2> SUFFICES ASSUME TypeOK, ThumbInv, [Next]_vars, writer'["third"] # writer["third"]
               PROVE  /\ \A s \in Untouched : thumb[s] = InitialThumb
                      /\ slot'["third"] = thumb[1] + thumb[2] + thumb[3] + thumb[4]
                                            - Cardinality(Untouched) * InitialThumb
    OBVIOUS
  <2>1. SaveThird
    <3>1. ASSUME NextQuestionTapped PROVE writer'["third"] = writer["third"]
      BY <3>1 DEF NextQuestionTapped, NextQuestion, EndQuiz, Grade, slotVars, TypeOK, Views
    <3> QED BY <3>1 DEF Next, OpenThird, SliderTapped, AnswerTapped, SaveFourth, slotVars, vars
  <2>2. slot'["third"] = Decision
    BY <2>1 DEF SaveThird, Grade, TypeOK, Views
  <2> QED BY <2>2, DecisionFallsShort
<1>3. Inv => TypeOK
  BY DEF Inv
<1> QED BY <1>1, <1>2, <1>3, StepThumb, Invariant, PTL DEF Spec, EfficiencyIsShown

-----------------------------------------------------------------------------
(* Loyalty.                                                                *)
Counted(q) == IF q <= Len(counted) THEN WorthOf(Questions[q], counted[q]) ELSE 0
LoyaltyInv == loyalty = Counted(1) + Counted(2) + Counted(3)

(* Together the answers are worth ten at most.                             *)
LEMMA WorthRange ==
  ASSUME NEW picks
  PROVE  /\ WorthOf(Questions[1], picks) \in 0..6
         /\ WorthOf(Questions[2], picks) \in 0..4
         /\ WorthOf(Questions[3], picks) = 0
BY DEF WorthOf, Questions

LEMMA StepLoyalty == Inv /\ LoyaltyInv /\ [Next]_vars => LoyaltyInv'
<1> SUFFICES ASSUME Inv, LoyaltyInv, [Next]_vars PROVE LoyaltyInv'
  OBVIOUS
<1> USE DEF thirdVars, fourthVars, slotVars
<1>1. CASE NewFourth
  <2>1. loyalty' = 0 /\ Len(counted') = 0
    BY <1>1 DEF NewFourth
  <2> QED BY <2>1 DEF LoyaltyInv, Counted
<1>2. CASE NextQuestionTapped
  <2>1. /\ counted' = Append(counted, picked) /\ current = Len(counted) /\ current \in 0..2
        /\ loyalty' = loyalty + WorthOf(Questions[current + 1], picked)
    <3>1. current \in 0..3 /\ current # 3
      BY <1>2, Tables DEF NextQuestionTapped, Inv, TypeOK, QuizInv
    <3> QED BY <1>2, <3>1 DEF NextQuestionTapped, Inv, QuizInv
  <2>2. /\ Len(counted') = current + 1 /\ counted'[current + 1] = picked
        /\ \A q \in 1..current : counted'[q] = counted[q]
    <3>1. counted \in Seq(SUBSET Picks) /\ picked \in SUBSET Picks
      BY DEF Inv, TypeOK
    <3> QED BY <2>1, <3>1
  <2>3. ASSUME NEW q \in 1..3
        PROVE  IF q = current + 1 THEN Counted(q) = 0 /\ Counted(q)' = WorthOf(Questions[q], picked)
               ELSE Counted(q)' = Counted(q)
    <3>1. CASE q = current + 1
      BY <2>1, <2>2, <3>1 DEF Counted
    <3>2. CASE q # current + 1
      BY <2>1, <2>2, <3>2 DEF Counted
    <3> QED BY <3>1, <3>2
  <2>4. \A q \in 1..3 : Counted(q) \in Nat /\ Counted(q)' \in Nat
    BY WorthType DEF Counted
  <2>5. current = 0 \/ current = 1 \/ current = 2
    BY <2>1
  <2>6. loyalty = Counted(1) + Counted(2) + Counted(3)
    BY DEF LoyaltyInv
  <2>7. loyalty' = Counted(1)' + Counted(2)' + Counted(3)'
    <3> DEFINE worth == WorthOf(Questions[current + 1], picked)
    <3>1. Counted(1) \in Nat /\ Counted(2) \in Nat /\ Counted(3) \in Nat /\ worth \in Nat
      BY <2>4, <2>5, WorthType
    <3>2. CASE current = 0
      <4>1. Counted(1) = 0 /\ Counted(1)' = worth /\ Counted(2)' = Counted(2) /\ Counted(3)' = Counted(3)
        BY <2>3, <3>2
      <4> QED BY <2>1, <2>6, <3>1, <4>1
    <3>3. CASE current = 1
      <4>1. Counted(2) = 0 /\ Counted(2)' = worth /\ Counted(1)' = Counted(1) /\ Counted(3)' = Counted(3)
        BY <2>3, <3>3
      <4> QED BY <2>1, <2>6, <3>1, <4>1
    <3>4. CASE current = 2
      <4>1. Counted(3) = 0 /\ Counted(3)' = worth /\ Counted(1)' = Counted(1) /\ Counted(2)' = Counted(2)
        BY <2>3, <3>4
      <4> QED BY <2>1, <2>6, <3>1, <4>1
    <3> QED BY <2>5, <3>2, <3>3, <3>4
  <2> QED BY <2>7 DEF LoyaltyInv
<1>3. CASE UNCHANGED <<loyalty, counted>>
  BY <1>3 DEF LoyaltyInv, Counted
<1> QED BY <1>1, <1>2, <1>3
        DEF Next, OpenThird, SliderTapped, SaveThird, AnswerTapped, SaveFourth, vars

(* The loyalty slot is written once all three questions are answered, with *)
(* what the picks counted for each are worth by that question's table.     *)
THEOREM LoyaltyIsOfAllQuestionsHolds == Spec => LoyaltyIsOfAllQuestions
<1>1. Init => LoyaltyInv
  BY DEF Init, LoyaltyInv, Counted
<1>2. Inv /\ Inv' /\ LoyaltyInv' /\ [Next]_vars =>
        [writer'["fourth"] # writer["fourth"] =>
           /\ Len(counted') = Len(Questions)
           /\ slot'["fourth"] \in 0..MaxLoyalty
           /\ LET worth(q) == WorthOf(Questions[q], counted'[q])
              IN slot'["fourth"] = worth(1) + worth(2) + worth(3)]_vars
  <2> SUFFICES ASSUME Inv, Inv', LoyaltyInv', [Next]_vars, writer'["fourth"] # writer["fourth"]
               PROVE  /\ Len(counted') = Len(Questions)
                      /\ slot'["fourth"] \in 0..MaxLoyalty
                      /\ slot'["fourth"] = WorthOf(Questions[1], counted'[1])
                           + WorthOf(Questions[2], counted'[2]) + WorthOf(Questions[3], counted'[3])
    OBVIOUS
  <2>1. EndQuiz
    <3>1. ASSUME SaveThird PROVE writer'["fourth"] = writer["fourth"]
      BY <3>1 DEF SaveThird, Grade, Inv, TypeOK, Views
    <3> QED BY <3>1 DEF Next, OpenThird, SliderTapped, AnswerTapped, NextQuestionTapped,
              NextQuestion, SaveFourth, slotVars, vars
  <2>2. slot'["fourth"] = loyalty' /\ finished'
    BY <2>1 DEF EndQuiz, Grade, Inv, TypeOK, Views
  <2>3. Len(counted') = 3
    BY <2>2 DEF Inv, QuizInv
  <2>4. loyalty' = WorthOf(Questions[1], counted'[1])
                     + WorthOf(Questions[2], counted'[2]) + WorthOf(Questions[3], counted'[3])
    BY <2>3 DEF LoyaltyInv, Counted
  <2> QED BY <2>2, <2>3, <2>4, Tables, WorthRange DEF MaxLoyalty
<1> QED BY <1>1, <1>2, StepLoyalty, Invariant, PTL DEF Spec, LoyaltyIsOfAllQuestions

-----------------------------------------------------------------------------
(* The views keep the promise RatingFlow relies on.                        *)
THEOREM VoteControlsImplementVoteStep == Spec => ImplementsVoteStep
<1> USE DEF NoView, Step!NoView
<1>1. Init => Step!Init
  BY DEF Init, Step!Init, Progress
<1>2. ASSUME Inv, [Next]_vars
      PROVE  [Step!Next]_(Step!vars)
  <2> USE DEF thirdVars, fourthVars, slotVars
  <2>1. CASE OpenThird
    <3>1. Progress = "none" /\ Progress' = "none"
      BY <2>1 DEF OpenThird, Progress
    <3>2. Step!Open("third")
      BY <2>1, <3>1 DEF OpenThird, Step!Open
    <3> QED BY <3>2 DEF Step!Next, Views
  <2>2. ASSUME NEW s \in Sliders, NEW v \in Value, SliderTapped(s, v)
        PROVE  UNCHANGED Step!vars
    BY <2>2 DEF SliderTapped, Step!vars, Progress
  <2>3. CASE SaveThird
    <3>1. Progress' = "none" /\ view = "third" /\ view' = "fourth" /\ visit' = visit
          /\ writer' = [writer EXCEPT ![view] = visit]
      BY <2>3 DEF SaveThird, NewFourth, Grade, Progress
    <3>2. Step!Compute
      BY <3>1 DEF Views, Step!Compute, Step!LeaveFor
    <3> QED BY <3>2 DEF Step!Next, Views
  <2>4. ASSUME NEW b \in Buttons, AnswerTapped(b)
        PROVE  UNCHANGED Step!vars
    BY <2>4 DEF AnswerTapped, Step!vars, Progress
  <2>5. CASE NextQuestionTapped
    <3>1. /\ view = "fourth" /\ view' = "fourth" /\ visit' = visit
          /\ ~finished /\ current' = current + 1 /\ current \in Nat
      BY <1>2, <2>5 DEF NextQuestionTapped, Inv, TypeOK
    <3>2. Progress # "all" /\ current' # 0
      BY <3>1 DEF Progress
    <3>3. CASE current' < Len(Questions)
      <4>1. Progress' = "some" /\ writer' = writer
        BY <2>5, <3>1, <3>2, <3>3 DEF Progress, NextQuestionTapped, NextQuestion
      <4>2. Step!Answer
        BY <3>1, <3>2, <4>1 DEF Step!Answer
      <4> QED BY <4>2 DEF Step!Next
    <3>4. CASE ~(current' < Len(Questions))
      <4>1. Progress' = "all" /\ writer' = [writer EXCEPT ![view] = visit]
        BY <2>5, <3>1, <3>2, <3>4 DEF Progress, NextQuestionTapped, EndQuiz, Grade
      <4>2. Step!Finish
        BY <3>1, <3>2, <4>1 DEF Step!Finish
      <4> QED BY <4>2 DEF Step!Next
    <3> QED BY <3>3, <3>4
  <2>6. CASE SaveFourth
    <3>1. /\ Progress' = "none" /\ view = "fourth" /\ view' = NoView /\ finished
          /\ UNCHANGED <<visit, writer>>
      BY <2>6 DEF SaveFourth, Progress
    <3>2. Progress = "all"
      BY <1>2, <3>1 DEF Inv, QuizInv, Progress
    <3>3. Step!Save
      BY <3>1, <3>2 DEF Views, Step!Save, Step!LeaveFor
    <3> QED BY <3>3 DEF Step!Next
  <2>7. CASE UNCHANGED vars
    BY <2>7 DEF vars, Step!vars, Progress
  <2> QED BY <1>2, <2>1, <2>2, <2>3, <2>4, <2>5, <2>6, <2>7 DEF Next
<1> QED BY <1>1, <1>2, Invariant, PTL DEF Spec, ImplementsVoteStep, Step!Spec
=============================================================================
