-------------------------------- MODULE Quiz --------------------------------
(***************************************************************************)
(* VoteViewController and SecondVoteView, the same questionnaire twice: a  *)
(* question is shown with two or three answers, the tapped answer's value  *)
(* is added to the grade, and the next question follows; after the last    *)
(* one the grade goes to its slot in DataProvider.  Each visit is a new    *)
(* view object; the slots outlive it.                                      *)
(***************************************************************************)
EXTENDS Integers, Sequences

CONSTANT MaxVisits   \* bound on the views opened

ASSUME MaxVisitsAssumption == MaxVisits \in Nat

Views == {"vote", "second"}
NoView == "none"

(* Questions: the return values of the three answers, and whether the      *)
(* third has a text (an answer without one is not shown).                  *)
Two(a, b) == [value |-> <<a, b, 0>>, third |-> FALSE]
Three(a, b, c) == [value |-> <<a, b, c>>, third |-> TRUE]

VoteQuestions ==
  <<Two(0, 1), Three(0, -1, 0), Two(0, -1), Two(-1, 1),
    Three(1, -1, 1), Two(0, 0), Two(1, 0), Two(-1, 1)>>

SecondQuestions ==
  <<Three(1, 0, -1), Two(1, 0), Two(1, 0), Two(1, 1), Two(1, 0)>>

Questions(v) == IF v = "vote" THEN VoteQuestions ELSE SecondQuestions
Count(v) == Len(Questions(v))

(* Only VoteViewController disables its save button as it loads.           *)
SaveEnabledAtStart(v) == v = "second"

Grade == -8..8
NoGrade == 9    \* the slot is nil

VARIABLES
  view,         \* the view on top, if any
  visit,        \* views opened so far
  \* of the view on top
  current,      \* currentQuestion, from 0
  gradeValue,   \* disciplineGradeValue, professionalism
  enabled,      \* the answer buttons are enabled
  thirdHidden,  \* the third of them is hidden
  saveEnabled,  \* the save button is enabled
  \* DataProvider
  slot,         \* discipline, professionalism
  \* history, for the properties
  chosen,       \* the answers given on the view on top
  writer        \* the visit that wrote each slot

vars == <<view, visit, current, gradeValue, enabled, thirdHidden, saveEnabled,
          slot, chosen, writer>>

Init ==
  /\ view = NoView /\ visit = 0
  /\ current = 0 /\ gradeValue = 0
  /\ enabled = FALSE /\ thirdHidden = FALSE /\ saveEnabled = FALSE
  /\ slot = [v \in Views |-> NoGrade]
  /\ chosen = <<>> /\ writer = [v \in Views |-> 0]

-----------------------------------------------------------------------------
(* showQuestion enables the buttons, and hides the third one when its      *)
(* answer has no text; nothing ever shows it again.                        *)
ShowQuestion(question, hiddenSoFar) ==
  /\ enabled' = TRUE
  /\ thirdHidden' = (hiddenSoFar \/ ~question.third)

(* Mutant: the grade of the visit before is added to.                      *)
OpenKeepsGrade(v) ==
  /\ view = NoView
  /\ visit < MaxVisits
  /\ view' = v
  /\ visit' = visit + 1
  /\ current' = 0
  /\ gradeValue' = gradeValue
  /\ chosen' = <<>>
  /\ saveEnabled' = SaveEnabledAtStart(v)
  /\ ShowQuestion(Questions(v)[1], FALSE)
  /\ UNCHANGED <<slot, writer>>

(* viewDidLoad of a new view.                                              *)
Open(v) ==
  /\ view = NoView
  /\ visit < MaxVisits
  /\ view' = v
  /\ visit' = visit + 1
  /\ current' = 0
  /\ gradeValue' = 0
  /\ chosen' = <<>>
  /\ saveEnabled' = SaveEnabledAtStart(v)
  /\ ShowQuestion(Questions(v)[1], FALSE)
  /\ UNCHANGED <<slot, writer>>

(* What a tap finds: an enabled button, the third only when not hidden.    *)
Offered(a) == enabled /\ (a = 3 => ~thirdHidden)

(* Mutant: the save button is left alone.                                  *)
NextQuestionMaySave ==
  /\ ShowQuestion(Questions(view)[current' + 1], thirdHidden)
  /\ saveEnabled' = saveEnabled
  /\ UNCHANGED <<slot, writer>>

NextQuestion ==
  /\ ShowQuestion(Questions(view)[current' + 1], thirdHidden)
  /\ saveEnabled' = FALSE
  /\ UNCHANGED <<slot, writer>>

(* Mutant: the answer buttons are not disabled.                            *)
EndQuizEnabled ==
  /\ enabled' = TRUE
  /\ saveEnabled' = TRUE
  /\ slot' = [slot EXCEPT ![view] = gradeValue']
  /\ writer' = [writer EXCEPT ![view] = visit]
  /\ UNCHANGED thirdHidden

EndQuiz ==
  /\ enabled' = FALSE
  /\ saveEnabled' = TRUE
  /\ slot' = [slot EXCEPT ![view] = gradeValue']
  /\ writer' = [writer EXCEPT ![view] = visit]
  /\ UNCHANGED thirdHidden

(* Mutant: the last question is left out.                                  *)
SelectAnswerEndsEarly(a) ==
  /\ view # NoView
  /\ Offered(a)
  /\ gradeValue' = gradeValue + Questions(view)[current + 1].value[a]
  /\ chosen' = Append(chosen, a)
  /\ current' = current + 1
  /\ IF current' + 1 < Count(view) THEN NextQuestion ELSE EndQuiz
  /\ UNCHANGED <<view, visit>>

(* selectAnswer, and nextQuestion after it.                                *)
SelectAnswer(a) ==
  /\ view # NoView
  /\ Offered(a)
  /\ gradeValue' = gradeValue + Questions(view)[current + 1].value[a]
  /\ chosen' = Append(chosen, a)
  /\ current' = current + 1
  /\ IF current' < Count(view) THEN NextQuestion ELSE EndQuiz
  /\ UNCHANGED <<view, visit>>

Leave ==
  /\ view' = NoView
  /\ UNCHANGED <<visit, current, gradeValue, enabled, thirdHidden, saveEnabled,
                 slot, chosen, writer>>

(* saveButtonTapped presents the next view over this one.                  *)
Save ==
  /\ view # NoView
  /\ saveEnabled
  /\ Leave

(* The first view may be replaced at any moment by the alert that nobody   *)
(* is left to rate.                                                        *)
AlertShown ==
  /\ view = "vote"
  /\ Leave

Next ==
  \/ \E v \in Views : Open(v)
  \/ \E a \in 1..3 : SelectAnswer(a)
  \/ Save
  \/ AlertShown

Spec == Init /\ [][Next]_vars

-----------------------------------------------------------------------------
(* Type invariant.                                                         *)
TypeOK ==
  /\ view \in Views \cup {NoView}
  /\ visit \in 0..MaxVisits
  /\ current \in Nat
  /\ gradeValue \in Int
  /\ enabled \in BOOLEAN /\ thirdHidden \in BOOLEAN /\ saveEnabled \in BOOLEAN
  /\ slot \in [Views -> Grade \cup {NoGrade}]
  /\ chosen \in Seq(1..3)
  /\ writer \in [Views -> 0..MaxVisits]

(* The value of an answer sheet, from the tables alone.                    *)
SheetValue(v, sheet) ==
  LET sum[i \in 0..Len(sheet)] ==
        IF i = 0 THEN 0 ELSE sum[i - 1] + Questions(v)[i].value[sheet[i]]
  IN sum[Len(sheet)]

(***************************************************************************)
(* The grade in a slot is only ever written for a full answer sheet, and   *)
(* is that sheet's value: no answer is counted twice, skipped or counted   *)
(* against another question.                                               *)
(***************************************************************************)
GradeIsOfFullSheet ==
  [][\A v \in Views :
       writer'[v] # writer[v] =>
         /\ view = v
         /\ Len(chosen') = Count(v)
         /\ slot'[v] = SheetValue(v, chosen')]_vars

(***************************************************************************)
(* selectAnswer indexes the questions with currentQuestion unchecked: the  *)
(* buttons are enabled only while there is a question left to answer.      *)
(***************************************************************************)
AnswersHaveQuestion ==
  (view # NoView /\ enabled) => current < Count(view)

(***************************************************************************)
(* A view leads on with all questions answered or, the second one, with    *)
(* none: a visit's partial sum never reaches the slot nor the next view.   *)
(***************************************************************************)
SaveIsAllOrNone ==
  (view # NoView /\ saveEnabled) =>
    \/ Len(chosen) = Count(view) /\ writer[view] = visit
    \/ view = "second" /\ chosen = <<>>

(***************************************************************************)
(* Each of the two views is a step of a rating.                            *)
(***************************************************************************)
Progress ==
  IF view = NoView \/ current = 0 THEN "none"
  ELSE IF current < Count(view) THEN "some" ELSE "all"

Step == INSTANCE VoteStep WITH
  Entry <- Views, After <- [v \in Views |-> NoView],
  Skippable <- {"second"}, Computed <- {}, Abandonable <- {"vote"},
  session <- visit, progress <- Progress

ImplementsVoteStep == Step!Spec
=============================================================================
