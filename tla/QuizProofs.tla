----------------------------- MODULE QuizProofs -----------------------------
(***************************************************************************)
(* Theorems about Quiz: types, the safety of the unchecked index, what a   *)
(* view that can be saved has been answered, what the grade is the sum of, *)
(* and that the view is a step of a rating.                                *)
(***************************************************************************)
EXTENDS Quiz, NatRecursion

(* The tables: eight and five questions, three values each, none beyond    *)
(* one point.                                                              *)
Question == [value : [1..3 -> -1..1], third : BOOLEAN]

LEMMA QuestionType ==
  ASSUME NEW a \in -1..1, NEW b \in -1..1, NEW c \in -1..1
  PROVE  Two(a, b) \in Question /\ Three(a, b, c) \in Question
<1>1. <<a, b, 0>> \in [1..3 -> -1..1] /\ <<a, b, c>> \in [1..3 -> -1..1]
  OBVIOUS
<1> QED BY <1>1 DEF Question, Two, Three

(* Arithmetic of the question counter and of the grade.                    *)
LEMMA Before ==
  ASSUME NEW i \in Nat, NEW n \in Nat, i < n
  PROVE  i + 1 \in 1..n /\ \A j \in 1..(i + 1) : j \in 1..i \/ j = i + 1
  OBVIOUS

LEMMA Within ==
  ASSUME NEW i \in Nat, NEW n \in Nat, i <= n, NEW g \in Int, -i <= g, g <= i
  PROVE  -n <= g /\ g <= n
  OBVIOUS

LEMMA Tables ==
  ASSUME NEW v \in Views
  PROVE  /\ Questions(v) \in Seq(Question)
         /\ Count(v) \in Nat /\ 2 <= Count(v) /\ Count(v) <= 8
         /\ \A q \in 1..Count(v) : Questions(v)[q].third \in BOOLEAN
         /\ \A q \in 1..Count(v), a \in 1..3 :
              /\ Questions(v)[q].value[a] \in Int
              /\ -1 <= Questions(v)[q].value[a] /\ Questions(v)[q].value[a] <= 1
<1>0. 0 \in -1..1 /\ 1 \in -1..1 /\ -1 \in -1..1
  OBVIOUS
<1>1. VoteQuestions \in Seq(Question) /\ Len(VoteQuestions) = 8
  BY <1>0, QuestionType DEF VoteQuestions
<1>2. SecondQuestions \in Seq(Question) /\ Len(SecondQuestions) = 5
  BY <1>0, QuestionType DEF SecondQuestions
<1>3. /\ Questions(v) \in Seq(Question) /\ Count(v) = Len(Questions(v))
      /\ Count(v) \in Nat /\ 2 <= Count(v) /\ Count(v) <= 8
  <2>1. Questions(v) = VoteQuestions \/ Questions(v) = SecondQuestions
    BY DEF Questions
  <2>2. Questions(v) \in Seq(Question) /\ Len(Questions(v)) \in {5, 8}
    BY <1>1, <1>2, <2>1
  <2>3. Count(v) = Len(Questions(v))
    BY DEF Count
  <2> QED BY <2>2, <2>3
<1>4. ASSUME NEW q \in 1..Count(v)
      PROVE  Questions(v)[q] \in Question
  BY <1>3
<1>5. ASSUME NEW q \in 1..Count(v)
      PROVE  Questions(v)[q].third \in BOOLEAN
  BY <1>4 DEF Question
<1>6. ASSUME NEW q \in 1..Count(v), NEW a \in 1..3
      PROVE  /\ Questions(v)[q].value[a] \in Int
             /\ -1 <= Questions(v)[q].value[a] /\ Questions(v)[q].value[a] <= 1
  <2>1. Questions(v)[q].value[a] \in -1..1
    BY <1>4 DEF Question
  <2> QED BY <2>1
<1> QED BY <1>3, <1>5, <1>6

(***************************************************************************)
(* What the view on top has been answered, and what its buttons allow.     *)
(***************************************************************************)
ViewInv ==
  view # NoView =>
    /\ current = Len(chosen) /\ current <= Count(view)
    /\ -current <= gradeValue /\ gradeValue <= current
    /\ enabled => current < Count(view)
    /\ saveEnabled => current = Count(view) \/ (current = 0 /\ view = "second")
    /\ current = Count(view) => writer[view] = visit

QuizInv == TypeOK /\ ViewInv

LEMMA InitInv == Init => QuizInv
<1> SUFFICES ASSUME Init PROVE QuizInv
  OBVIOUS
<1>1. 0 \in Nat /\ 0 \in Int /\ 0 \in 0..MaxVisits /\ <<>> \in Seq(1..3)
  BY MaxVisitsAssumption
<1>2. /\ slot \in [Views -> Grade \cup {NoGrade}]
      /\ writer \in [Views -> 0..MaxVisits]
  BY <1>1 DEF Init
<1>3. enabled \in BOOLEAN /\ thirdHidden \in BOOLEAN /\ saveEnabled \in BOOLEAN
  BY DEF Init
<1>4. TypeOK
  BY <1>1, <1>2, <1>3 DEF Init, TypeOK
<1>5. ViewInv
  BY DEF Init, ViewInv
<1> QED BY <1>4, <1>5 DEF QuizInv

LEMMA StepInv == QuizInv /\ [Next]_vars => QuizInv'
<1> SUFFICES ASSUME QuizInv, [Next]_vars PROVE QuizInv'
  OBVIOUS
<1>0. TypeOK /\ NoView \notin Views
  BY DEF QuizInv, Views, NoView
<1>1. ASSUME NEW v \in Views, Open(v)
      PROVE  QuizInv'
  <2>1. /\ view' = v /\ current' = 0 /\ gradeValue' = 0 /\ chosen' = <<>> /\ enabled' = TRUE
        /\ slot' = slot /\ writer' = writer /\ visit' \in 0..MaxVisits
    BY <1>0, <1>1, MaxVisitsAssumption DEF Open, ShowQuestion, TypeOK
  <2>2. Count(v) \in Nat /\ 2 <= Count(v) /\ Count(v) <= 8 /\ Questions(v)[1].third \in BOOLEAN
    BY Tables
  <2>3. /\ thirdHidden' \in BOOLEAN /\ (~thirdHidden' => Questions(v)[1].third)
        /\ saveEnabled' \in BOOLEAN /\ (saveEnabled' => v = "second")
    BY <1>1, <2>2 DEF Open, ShowQuestion, SaveEnabledAtStart
  <2>4. TypeOK'
    BY <1>0, <2>1, <2>3 DEF TypeOK
  <2>5. ViewInv'
    <3>1. /\ Len(chosen') = 0 /\ Count(v) # 0 /\ 0 < Count(v) /\ 0 <= Count(v)
          /\ -0 <= 0 /\ 0 <= 0
      BY <2>1, <2>2
    <3>2. /\ current' = Len(chosen') /\ current' <= Count(view')
          /\ current' < Count(view') /\ current' # Count(view')
      BY <2>1, <3>1
    <3>3. -current' <= gradeValue' /\ gradeValue' <= current'
      BY <2>1, <3>1
    <3>4. saveEnabled' => current' = 0 /\ view' = "second"
      BY <2>1, <2>3
    <3> QED BY <3>2, <3>3, <3>4 DEF ViewInv
  <2> QED BY <2>4, <2>5 DEF QuizInv
<1>2. ASSUME NEW a \in 1..3, SelectAnswer(a)
      PROVE  QuizInv'
  <2>1. /\ view \in Views /\ view' = view /\ visit' = visit
        /\ current' = current + 1 /\ chosen' = Append(chosen, a)
        /\ gradeValue' = gradeValue + Questions(view)[current + 1].value[a]
        /\ enabled /\ (a = 3 => ~thirdHidden)
    BY <1>0, <1>2 DEF SelectAnswer, Offered, TypeOK
  <2>2. /\ current = Len(chosen) /\ current < Count(view) /\ current \in Nat
        /\ gradeValue \in Int /\ -current <= gradeValue /\ gradeValue <= current
    BY <1>0, <2>1 DEF QuizInv, ViewInv, TypeOK
  <2>3. Count(view) \in Nat /\ 2 <= Count(view) /\ Count(view) <= 8
    BY <2>1, Tables
  <2>4. /\ gradeValue' \in Int /\ -current' <= gradeValue' /\ gradeValue' <= current'
        /\ current' \in Nat /\ 1 <= current' /\ current' <= Count(view)
    <3> DEFINE point == Questions(view)[current + 1].value[a]
    <3>1. current + 1 \in 1..Count(view)
      BY <2>2, <2>3
    <3>2. point \in Int /\ -1 <= point /\ point <= 1
      BY <2>1, <3>1, Tables
    <3>3. gradeValue' = gradeValue + point
      BY <2>1
    <3> HIDE DEF point
    <3> QED BY <2>1, <2>2, <2>3, <3>2, <3>3
  <2>5. /\ chosen' \in Seq(1..3) /\ Len(chosen') = Len(chosen) + 1
        /\ \A i \in 1..Len(chosen) : chosen'[i] = chosen[i]
        /\ chosen'[Len(chosen) + 1] = a
    BY <1>0, <2>1 DEF TypeOK
  <2>6. CASE current' < Count(view)
    <3>1. /\ enabled' = TRUE /\ saveEnabled' = FALSE /\ slot' = slot /\ writer' = writer
          /\ thirdHidden' = (thirdHidden \/ ~Questions(view)[current' + 1].third)
      BY <1>2, <2>6 DEF SelectAnswer, NextQuestion, ShowQuestion
    <3>2. TypeOK'
      <4>1. current' + 1 \in 1..Count(view)
        BY <2>3, <2>4, <2>6, Before
      <4>2. thirdHidden' \in BOOLEAN
        BY <1>0, <2>1, <3>1, <4>1, Tables DEF TypeOK
      <4>3. enabled' \in BOOLEAN /\ saveEnabled' \in BOOLEAN
        BY <3>1
      <4> QED BY <1>0, <2>1, <2>4, <2>5, <3>1, <4>2, <4>3 DEF TypeOK
    <3>3. ViewInv'
      <4>1. current' = Len(chosen') /\ current' # Count(view)
        BY <2>1, <2>2, <2>3, <2>5, <2>6
      <4> QED BY <2>1, <2>4, <2>6, <3>1, <4>1 DEF ViewInv
    <3> QED BY <3>2, <3>3 DEF QuizInv
  <2>7. CASE ~(current' < Count(view))
    <3>1. /\ enabled' = FALSE /\ saveEnabled' = TRUE /\ thirdHidden' = thirdHidden
          /\ slot' = [slot EXCEPT ![view] = gradeValue']
          /\ writer' = [writer EXCEPT ![view] = visit]
      BY <1>2, <2>7 DEF SelectAnswer, EndQuiz
    <3>2. gradeValue' \in Grade
      <4>1. current' \in Nat /\ current' <= 8 /\ 8 \in Nat
        BY <2>3, <2>4
      <4>2. -8 <= gradeValue' /\ gradeValue' <= 8
        BY <2>4, <4>1, Within
      <4> QED BY <2>4, <4>2 DEF Grade
    <3>3. TypeOK'
      <4>1. slot' \in [Views -> Grade \cup {NoGrade}] /\ writer' \in [Views -> 0..MaxVisits]
        BY <1>0, <3>1, <3>2 DEF TypeOK
      <4>2. enabled' \in BOOLEAN /\ saveEnabled' \in BOOLEAN /\ thirdHidden' \in BOOLEAN
        BY <1>0, <3>1 DEF TypeOK
      <4> QED BY <1>0, <2>1, <2>4, <2>5, <4>1, <4>2 DEF TypeOK
    <3>4. writer'[view] = visit
      BY <1>0, <2>1, <3>1 DEF TypeOK
    <3>5. ViewInv'
      <4>1. current' = Len(chosen') /\ current' = Count(view)
        BY <2>1, <2>2, <2>3, <2>4, <2>5, <2>7
      <4> QED BY <2>1, <2>4, <3>1, <3>4, <4>1 DEF ViewInv
    <3> QED BY <3>3, <3>5 DEF QuizInv
  <2> QED BY <2>6, <2>7
<1>3. ASSUME Leave
      PROVE  QuizInv'
  <2>1. TypeOK'
    BY <1>0, <1>3 DEF Leave, TypeOK
  <2> QED BY <1>3, <2>1 DEF Leave, QuizInv, ViewInv
<1>4. CASE UNCHANGED vars
  BY <1>4 DEF vars, QuizInv, TypeOK, ViewInv
<1> QED BY <1>1, <1>2, <1>3, <1>4 DEF Next, Save, AlertShown

LEMMA Invariant == Spec => []QuizInv
BY InitInv, StepInv, PTL DEF Spec

(* Every reachable state is well typed: the grade of no visit leaves the   *)
(* range of eight questions at one point each.                             *)
THEOREM TypeCorrect == Spec => []TypeOK
<1>1. QuizInv => TypeOK
  BY DEF QuizInv
<1> QED BY <1>1, Invariant, PTL

(* The unchecked index never leaves the table.                             *)
THEOREM AnswersHaveQuestionHolds == Spec => []AnswersHaveQuestion
<1>1. QuizInv => AnswersHaveQuestion
  BY DEF QuizInv, ViewInv, AnswersHaveQuestion
<1> QED BY <1>1, Invariant, PTL

(* A view that can be saved has all its answers or, the second, none.      *)
THEOREM SaveIsAllOrNoneHolds == Spec => []SaveIsAllOrNone
<1>1. QuizInv => SaveIsAllOrNone
  <2> SUFFICES ASSUME QuizInv, view # NoView, saveEnabled
               PROVE  \/ Len(chosen) = Count(view) /\ writer[view] = visit
                      \/ view = "second" /\ chosen = <<>>
    BY DEF SaveIsAllOrNone
  <2>1. chosen \in Seq(1..3) /\ (Len(chosen) = 0 => chosen = <<>>)
    BY DEF QuizInv, TypeOK
  <2> QED BY <2>1 DEF QuizInv, ViewInv
<1> QED BY <1>1, Invariant, PTL

-----------------------------------------------------------------------------
(* What an answer sheet is worth, one answer more at a time.               *)
Sums(f, v, sheet) ==
  /\ SheetValue(v, sheet) = f[Len(sheet)] /\ f[0] = 0
  /\ \A i \in 1..Len(sheet) : f[i] = f[i - 1] + Questions(v)[i].value[sheet[i]]

LEMMA SheetRecursion ==
  ASSUME NEW v \in Views, NEW sheet \in Seq(1..3), Len(sheet) <= Count(v)
  PROVE  \E f : Sums(f, v, sheet)
<1> DEFINE n == Len(sheet)
           point(i) == Questions(v)[i].value[sheet[i]]
           step == [p \in Nat \X Int |-> IF p[1] \in 1..n THEN p[2] + point(p[1]) ELSE p[2]]
           Def(f) == [i \in 0..n |-> IF i = 0 THEN 0 ELSE f[i - 1] + point(i)]
<1>1. n \in Nat /\ \A i \in 1..n : point(i) \in Int
  <2>1. n \in Nat /\ Count(v) \in Nat /\ \A i \in 1..n : i \in 1..Count(v) /\ sheet[i] \in 1..3
    BY Tables
  <2> QED BY <2>1, Tables
<1> HIDE DEF n, point
<1>2. PICK g \in [0..n -> Int] : g[0] = 0 /\ \A i \in 1..n : g[i] = step[<<i, g[i - 1]>>]
  <2> DEFINE S == Int
             base == 0
  <2>1. step \in [Nat \X S -> S] /\ base \in S
    BY <1>1
  <2> HIDE DEF step, S, base
  <2>2. PICK g \in [0..n -> S] : Recurs(g, n, base, step)
    BY <1>1, <2>1, FiniteRecursion
  <2> QED BY <2>2 DEF Recurs, S, base
<1>3. ASSUME NEW i \in 1..n
      PROVE  step[<<i, g[i - 1]>>] = g[i - 1] + point(i)
  <2>1. i \in Nat /\ i - 1 \in 0..n /\ g[i - 1] \in Int
    BY <1>1
  <2> QED BY <2>1
<1>4. g = Def(g)
  <2> HIDE DEF step
  <2>1. \A i \in 0..n : i = 0 \/ i \in 1..n
    BY <1>1
  <2> QED BY <1>2, <1>3, <2>1
<1> DEFINE sum == CHOOSE f : f = Def(f)
<1>5. sum = Def(sum)
  <2> HIDE DEF Def
  <2> QED BY <1>4
<1>6. SheetValue(v, sheet) = sum[n]
  BY DEF SheetValue, n, point
<1> HIDE DEF sum
<1>7. sum[0] = 0 /\ \A i \in 1..n : sum[i] = sum[i - 1] + point(i)
  <2> DEFINE h == Def(sum)
  <2>1. \A i \in 0..n : h[i] = IF i = 0 THEN 0 ELSE sum[i - 1] + point(i)
    OBVIOUS
  <2>2. sum = h
    BY <1>5
  <2>3. 0 \in 0..n /\ 1..n \subseteq 0..n /\ \A i \in 1..n : i # 0
    BY <1>1
  <2> HIDE DEF h
  <2> QED BY <2>1, <2>2, <2>3
<1>8. Sums(sum, v, sheet)
  BY <1>6, <1>7 DEF Sums, n, point
<1> QED BY <1>8

LEMMA SheetEmpty ==
  ASSUME NEW v \in Views
  PROVE  SheetValue(v, <<>>) = 0
<1>1. Len(<<>>) = 0 /\ <<>> \in Seq(1..3) /\ 0 <= Count(v)
  BY Tables
<1>2. PICK f : Sums(f, v, <<>>)
  BY <1>1, SheetRecursion
<1> QED BY <1>2 DEF Sums

LEMMA SheetAppend ==
  ASSUME NEW v \in Views, NEW s \in Seq(1..3), NEW a \in 1..3, Len(s) < Count(v)
  PROVE  SheetValue(v, Append(s, a)) = SheetValue(v, s) + Questions(v)[Len(s) + 1].value[a]
<1> DEFINE t == Append(s, a)
           n == Len(s)
<1>1. /\ n \in Nat /\ t \in Seq(1..3) /\ Len(t) = n + 1 /\ t[n + 1] = a
      /\ \A i \in 1..n : t[i] = s[i]
  OBVIOUS
<1> HIDE DEF t
<1>2. PICK f : Sums(f, v, s)
  <2>1. n <= Count(v)
    BY Tables
  <2> QED BY <2>1, SheetRecursion
<1>3. PICK g : Sums(g, v, t)
  <2>1. Len(t) <= Count(v)
    BY <1>1, Tables
  <2> QED BY <1>1, <2>1, SheetRecursion
<1> HIDE DEF n
<1> DEFINE K == {i \in 0..n : g[i] = f[i]}
<1>4. 0 \in K
  BY <1>1, <1>2, <1>3 DEF Sums
<1>5. ASSUME NEW i \in 1..n, i - 1 \in K PROVE i \in K
  <2>1. i \in 1..(n + 1) /\ t[i] = s[i] /\ g[i - 1] = f[i - 1] /\ i \in 0..n
    BY <1>1, <1>5
  <2>2. f[i] = f[i - 1] + Questions(v)[i].value[s[i]]
    BY <1>2 DEF Sums, n
  <2>3. g[i] = g[i - 1] + Questions(v)[i].value[t[i]]
    BY <1>1, <1>3, <2>1 DEF Sums
  <2> QED BY <2>1, <2>2, <2>3
<1> HIDE DEF K
<1>6. g[n] = f[n]
  <2>1. 0..n \subseteq K
    BY <1>1, <1>4, <1>5, PrefixInduction
  <2>2. n \in 0..n
    BY <1>1
  <2> QED BY <2>1, <2>2 DEF K
<1>7. g[n + 1] = g[n] + Questions(v)[n + 1].value[a]
  <2>1. n + 1 \in 1..(n + 1) /\ (n + 1) - 1 = n
    BY <1>1
  <2> QED BY <1>1, <1>3, <2>1 DEF Sums
<1>8. SheetValue(v, s) = f[n] /\ SheetValue(v, t) = g[n + 1]
  BY <1>1, <1>2, <1>3 DEF Sums, n
<1> QED BY <1>6, <1>7, <1>8 DEF t, n

(* The grade of the view on top is what its sheet is worth so far.         *)
SumInv == view # NoView => gradeValue = SheetValue(view, chosen)

LEMMA StepSum == QuizInv /\ SumInv /\ [Next]_vars => SumInv'
<1> SUFFICES ASSUME QuizInv, SumInv, [Next]_vars PROVE SumInv'
  OBVIOUS
<1>0. TypeOK /\ NoView \notin Views
  BY DEF QuizInv, Views, NoView
<1>1. ASSUME NEW v \in Views, Open(v)
      PROVE  SumInv'
  <2>1. view' = v /\ gradeValue' = 0 /\ chosen' = <<>>
    BY <1>1 DEF Open
  <2> QED BY <2>1, SheetEmpty DEF SumInv
<1>2. ASSUME NEW a \in 1..3, SelectAnswer(a)
      PROVE  SumInv'
  <2>1. /\ view \in Views /\ view' = view /\ chosen' = Append(chosen, a)
        /\ gradeValue' = gradeValue + Questions(view)[current + 1].value[a] /\ enabled
    BY <1>0, <1>2 DEF SelectAnswer, Offered, TypeOK
  <2>2. /\ current = Len(chosen) /\ current < Count(view) /\ chosen \in Seq(1..3)
        /\ gradeValue = SheetValue(view, chosen)
    BY <1>0, <2>1 DEF QuizInv, ViewInv, TypeOK, SumInv
  <2>3. SheetValue(view, Append(chosen, a)) = gradeValue + Questions(view)[current + 1].value[a]
    BY <2>1, <2>2, SheetAppend
  <2> QED BY <2>1, <2>3 DEF SumInv
<1>3. CASE Leave
  BY <1>3 DEF Leave, SumInv
<1>4. CASE UNCHANGED vars
  BY <1>4 DEF vars, SumInv
<1> QED BY <1>1, <1>2, <1>3, <1>4 DEF Next, Save, AlertShown

LEMMA SumInvariant == Spec => []SumInv
<1>1. Init => SumInv
  BY DEF Init, SumInv
<1> QED BY <1>1, StepSum, Invariant, PTL DEF Spec

(* A slot's grade is what a full sheet is worth, each answer by its own    *)
(* question's table and each once.                                         *)
THEOREM GradeIsOfFullSheetHolds == Spec => GradeIsOfFullSheet
<1>1. QuizInv /\ SumInv' /\ QuizInv' /\ [Next]_vars =>
        [\A v \in Views :
           writer'[v] # writer[v] =>
             /\ view = v
             /\ Len(chosen') = Count(v)
             /\ slot'[v] = SheetValue(v, chosen')]_vars
  <2> SUFFICES ASSUME QuizInv, SumInv', QuizInv', [Next]_vars,
                      NEW v \in Views, writer'[v] # writer[v]
               PROVE  view = v /\ Len(chosen') = Count(v) /\ slot'[v] = SheetValue(v, chosen')
    OBVIOUS
  <2>1. PICK a \in 1..3 : SelectAnswer(a) /\ EndQuiz /\ ~(current' < Count(view))
    BY DEF Next, Open, SelectAnswer, NextQuestion, Save, AlertShown, Leave, vars
  <2>2. /\ writer' = [writer EXCEPT ![view] = visit] /\ slot' = [slot EXCEPT ![view] = gradeValue']
        /\ view' = view
    BY <2>1 DEF SelectAnswer, EndQuiz
  <2>3. view = v /\ v # NoView
    BY <2>2 DEF QuizInv, TypeOK, Views, NoView
  <2>4. slot'[v] = gradeValue' /\ gradeValue' = SheetValue(v, chosen')
    BY <2>2, <2>3 DEF QuizInv, TypeOK, SumInv
  <2>5. Len(chosen') = Count(v)
    <3>1. current' = Len(chosen') /\ current' <= Count(v) /\ current' \in Nat /\ Count(v) \in Nat
      BY <2>2, <2>3, Tables DEF QuizInv, ViewInv, TypeOK
    <3> QED BY <2>1, <2>3, <3>1
  <2> QED BY <2>3, <2>4, <2>5
<1> QED BY <1>1, Invariant, SumInvariant, PTL DEF Spec, GradeIsOfFullSheet

-----------------------------------------------------------------------------
(* The view keeps the promise RatingFlow relies on.                        *)
THEOREM QuizImplementsVoteStep == Spec => ImplementsVoteStep
<1>1. Init => Step!Init
  BY DEF Init, Step!Init, Progress, NoView, Step!NoView
<1>2. ASSUME QuizInv, [Next]_vars
      PROVE  [Step!Next]_(Step!vars)
  <2> USE DEF NoView, Step!NoView
  <2>0. TypeOK /\ NoView \notin Views
    BY <1>2 DEF QuizInv, Views
  <2>1. ASSUME NEW v \in Views, Open(v)
        PROVE  Step!Next
    <3>1. Progress = "none" /\ Progress' = "none" /\ visit' = visit + 1
      BY <2>1 DEF Open, Progress
    <3>2. Step!Open(v)
      BY <2>1, <3>1 DEF Open, Step!Open
    <3> QED BY <3>2 DEF Step!Next
  <2>2. ASSUME NEW a \in 1..3, SelectAnswer(a)
        PROVE  Step!Next
    <3>1. /\ view \in Views /\ view' = view /\ visit' = visit
          /\ current' = current + 1 /\ current \in Nat /\ current < Count(view)
      BY <1>2, <2>0, <2>2 DEF SelectAnswer, Offered, TypeOK, QuizInv, ViewInv
    <3>2. Count(view) \in Nat /\ 2 <= Count(view) /\ Count(view) <= 8
      BY <3>1, Tables
    <3>3. Progress # "all"
      BY <3>1, <3>2 DEF Progress
    <3>4. CASE current' < Count(view)
      <4>1. Progress' = "some" /\ writer' = writer
        BY <2>0, <2>2, <3>1, <3>2, <3>4 DEF Progress, SelectAnswer, NextQuestion
      <4>2. Step!Answer
        BY <2>0, <3>1, <3>3, <4>1 DEF Step!Answer
      <4> QED BY <4>2 DEF Step!Next
    <3>5. CASE ~(current' < Count(view))
      <4>1. Progress' = "all" /\ writer' = [writer EXCEPT ![view] = visit]
        BY <2>0, <2>2, <3>1, <3>2, <3>5 DEF Progress, SelectAnswer, EndQuiz
      <4>2. Step!Finish
        BY <2>0, <3>1, <3>3, <4>1 DEF Step!Finish
      <4> QED BY <4>2 DEF Step!Next
    <3> QED BY <3>4, <3>5
  <2>3. CASE Save
    <3>1. /\ view \in Views /\ view' = NoView /\ visit' = visit /\ writer' = writer
          /\ Progress' = "none"
      BY <2>0, <2>3 DEF Save, Leave, TypeOK, Progress
    <3>2. Count(view) \in Nat /\ 2 <= Count(view) /\ Count(view) <= 8 /\ current \in Nat
      BY <2>0, <3>1, Tables DEF TypeOK
    <3>3. Progress = "all" \/ (Progress = "none" /\ view \in {"second"})
      BY <1>2, <2>0, <2>3, <3>1, <3>2 DEF Save, QuizInv, ViewInv, Progress
    <3>4. Step!Save
      BY <3>1, <3>3 DEF Step!Save, Step!LeaveFor
    <3> QED BY <3>4 DEF Step!Next
  <2>4. CASE AlertShown
    <3>1. Progress' = "none"
      BY <2>4 DEF AlertShown, Leave, Progress
    <3>2. Step!Abandon
      BY <2>4, <3>1 DEF AlertShown, Leave, Step!Abandon, Step!LeaveFor
    <3> QED BY <3>2 DEF Step!Next
  <2>5. CASE UNCHANGED vars
    BY <2>5 DEF vars, Step!vars, Progress, Count, Questions
  <2> QED BY <1>2, <2>1, <2>2, <2>3, <2>4, <2>5 DEF Next
<1> QED BY <1>1, <1>2, Invariant, PTL DEF Spec, ImplementsVoteStep, Step!Spec
=============================================================================
