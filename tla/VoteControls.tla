---------------------------- MODULE VoteControls ----------------------------
(***************************************************************************)
(* ThirdVoteView and FourthVoteView, whose grades are not read from what   *)
(* the controls show but from variables their handlers leave behind: four  *)
(* sliders added up as the view is saved, and four toggles whose picks are *)
(* counted at every tap on the next-question button.                       *)
(***************************************************************************)
EXTENDS Integers, Sequences, FiniteSets, SequencesExt

CONSTANTS
  MaxValue,    \* the sliders' maximum (10 in the storyboard)
  MaxVisits    \* bound on the visits

ASSUME MaxValueAssumption == MaxValue \in Nat \ {0}
ASSUME MaxVisitsAssumption == MaxVisits \in Nat

Views == {"third", "fourth"}
NoView == "none"
NoGrade == -1     \* the slot is nil

Sliders == 1..4
Value == 0..MaxValue
InitialThumb == 1    \* the storyboard's value="1"

Buttons == 1..4
Picks == 1..3        \* fourthButtonTapped leaves its variable nil

(* The return values of each question's answers.                           *)
Questions == << <<3, 2, 1>>, <<2, 2, 0>>, <<0, 0, 0, 0>> >>
MaxLoyalty == 10     \* all of them

VARIABLES
  view,       \* the view on top, if any
  visit,      \* ThirdVoteViews presented so far
  \* ThirdVoteView
  thumb,      \* what each slider shows
  value,      \* firstValueSlider .. fourthValueSlider
  \* FourthVoteView
  current,    \* currentQuestion, from 0
  loyalty,    \* the sum so far
  picked,     \* those of first, second, third that are not nil
  selected,   \* buttons shown as selected
  hidden,     \* buttons that are hidden
  finished,   \* the save button has replaced the next-question button
  \* DataProvider
  slot,       \* efficiency, loyalty
  \* history, for the properties
  counted,    \* the picks counted for each question
  writer      \* the visit that wrote each slot

thirdVars == <<thumb, value>>
fourthVars == <<current, loyalty, picked, selected, hidden, finished, counted>>
slotVars == <<slot, writer>>
vars == <<view, visit, thirdVars, fourthVars, slotVars>>

FourthHidden == {b \in Buttons : b > Len(Questions[1])}

Init ==
  /\ view = NoView /\ visit = 0
  /\ thumb = [s \in Sliders |-> InitialThumb] /\ value = [s \in Sliders |-> 0]
  /\ current = 0 /\ loyalty = 0 /\ picked = {} /\ selected = {}
  /\ hidden = FourthHidden /\ finished = FALSE /\ counted = <<>>
  /\ slot = [v \in Views |-> NoGrade] /\ writer = [v \in Views |-> 0]

(* Every visit presents new view objects, whose variables start afresh;    *)
(* they are reset as the view before is left.                              *)
NewThird ==
  /\ thumb' = [s \in Sliders |-> InitialThumb]
  /\ value' = [s \in Sliders |-> 0]

NewFourth ==
  /\ current' = 0 /\ loyalty' = 0 /\ picked' = {} /\ selected' = {}
  /\ hidden' = FourthHidden /\ finished' = FALSE /\ counted' = <<>>

Grade(v, g) ==
  /\ slot' = [slot EXCEPT ![v] = g]
  /\ writer' = [writer EXCEPT ![v] = visit]

-----------------------------------------------------------------------------
(* ThirdVoteView.                                                          *)

OpenThird ==
  /\ view = NoView
  /\ visit < MaxVisits
  /\ view' = "third"
  /\ visit' = visit + 1
  /\ UNCHANGED <<thirdVars, fourthVars, slotVars>>

(* firstSliderTapped .. fourthSliderTapped: wherever it is dragged to, the *)
(* thumb snaps down to a whole value, which is kept.                       *)
SliderTapped(s, v) ==
  /\ view = "third"
  /\ thumb' = [thumb EXCEPT ![s] = v]
  /\ value' = [value EXCEPT ![s] = v]
  /\ UNCHANGED <<view, visit, fourthVars, slotVars>>

(* Mutant: one slider is left out.                                         *)
DecisionOfThree == value[1] + value[2] + value[3]

Decision == value[1] + value[2] + value[3] + value[4]

(* saveButtonTapped writes efficiency and presents a new FourthVoteView,   *)
(* whose viewDidLoad hides the save button and shows the first question.   *)
SaveThird ==
  /\ view = "third"
  /\ Grade("third", Decision)
  /\ view' = "fourth"
  /\ NewThird /\ NewFourth
  /\ UNCHANGED visit

-----------------------------------------------------------------------------
(* FourthVoteView.                                                         *)

(* Mutant: a pick is not taken back.                                       *)
AnswerTappedSticks(b) ==
  /\ view = "fourth"
  /\ b \notin hidden
  /\ selected' = IF b \in selected THEN selected \ {b} ELSE selected \cup {b}
  /\ picked' = IF b \notin Picks THEN picked
               ELSE IF b \in selected THEN picked ELSE picked \cup {b}
  /\ UNCHANGED <<view, visit, thirdVars, current, loyalty, hidden, finished,
                 counted, slotVars>>

(* firstButtonTapped .. fourthButtonTapped toggle the button, and all but  *)
(* the fourth set or clear their variable accordingly.                     *)
AnswerTapped(b) ==
  /\ view = "fourth"
  /\ b \notin hidden
  /\ selected' = IF b \in selected THEN selected \ {b} ELSE selected \cup {b}
  /\ picked' = IF b \notin Picks THEN picked
               ELSE IF b \in selected THEN picked \ {b} ELSE picked \cup {b}
  /\ UNCHANGED <<view, visit, thirdVars, current, loyalty, hidden, finished,
                 counted, slotVars>>

(* multiplayAnswers.                                                       *)
WorthOf(question, picks) ==
  LET worth(b) == IF b \in picks THEN question[b] ELSE 0
  IN worth(1) + worth(2) + worth(3)

(* Mutant: the save button comes a question early.                         *)
NextQuestionMaySave ==
  /\ hidden' = hidden \cup {b \in Buttons : b > Len(Questions[current' + 1])}
  /\ selected' = {}
  /\ finished' = TRUE
  /\ UNCHANGED slotVars

(* showQuestion hides the fourth button when there is no fourth answer;    *)
(* nothing shows it again.  The buttons are deselected, the variables are  *)
(* not cleared.                                                            *)
NextQuestion ==
  /\ hidden' = hidden \cup {b \in Buttons : b > Len(Questions[current' + 1])}
  /\ selected' = {}
  /\ UNCHANGED <<finished, slotVars>>

EndQuiz ==
  /\ Grade("fourth", loyalty')
  /\ hidden' = Buttons
  /\ finished' = TRUE
  /\ UNCHANGED selected

(* Mutant: an answer costs what it is worth.                               *)
NextQuestionTappedMinus ==
  /\ view = "fourth"
  /\ ~finished
  /\ loyalty' = loyalty - WorthOf(Questions[current + 1], picked)
  /\ counted' = Append(counted, picked)
  /\ current' = current + 1
  /\ IF current' < Len(Questions) THEN NextQuestion ELSE EndQuiz
  /\ UNCHANGED <<view, visit, thirdVars, picked>>

(* Mutant: only the last question counts.                                  *)
NextQuestionTappedLast ==
  /\ view = "fourth"
  /\ ~finished
  /\ loyalty' = WorthOf(Questions[current + 1], picked)
  /\ counted' = Append(counted, picked)
  /\ current' = current + 1
  /\ IF current' < Len(Questions) THEN NextQuestion ELSE EndQuiz
  /\ UNCHANGED <<view, visit, thirdVars, picked>>

NextQuestionTapped ==
  /\ view = "fourth"
  /\ ~finished
  /\ loyalty' = loyalty + WorthOf(Questions[current + 1], picked)
  /\ counted' = Append(counted, picked)
  /\ current' = current + 1
  /\ IF current' < Len(Questions) THEN NextQuestion ELSE EndQuiz
  /\ UNCHANGED <<view, visit, thirdVars, picked>>

(* saveButtonTapped: see RatingFlow for the rating it sends.               *)
SaveFourth ==
  /\ view = "fourth"
  /\ finished
  /\ view' = NoView
  /\ NewFourth
  /\ UNCHANGED <<visit, thirdVars, slotVars>>

Next ==
  \/ OpenThird
  \/ \E s \in Sliders, v \in Value : SliderTapped(s, v)
  \/ SaveThird
  \/ \E b \in Buttons : AnswerTapped(b)
  \/ NextQuestionTapped
  \/ SaveFourth

Spec == Init /\ [][Next]_vars

-----------------------------------------------------------------------------
(* Type invariant.                                                         *)
TypeOK ==
  /\ view \in Views \cup {NoView}
  /\ visit \in 0..MaxVisits
  /\ thumb \in [Sliders -> Value] /\ value \in [Sliders -> Value]
  /\ current \in 0..Len(Questions)
  /\ loyalty \in Nat
  /\ picked \subseteq Picks /\ selected \subseteq Buttons /\ hidden \subseteq Buttons
  /\ finished \in BOOLEAN
  /\ slot \in [Views -> Nat \cup {NoGrade}]
  /\ counted \in Seq(SUBSET Picks)
  /\ writer \in [Views -> 0..MaxVisits]

(***************************************************************************)
(* The rating's efficiency falls short of what the sliders show by one for *)
(* every slider that was never touched, and by nothing else.               *)
(***************************************************************************)
Untouched == {s \in Sliders : value[s] # thumb[s]}

EfficiencyIsShown ==
  [][writer'["third"] # writer["third"] =>
       /\ \A s \in Untouched : thumb[s] = InitialThumb
       /\ slot'["third"] =
            thumb[1] + thumb[2] + thumb[3] + thumb[4] - Cardinality(Untouched) * InitialThumb]_vars

(***************************************************************************)
(* An answer that is shown as selected is counted, and one that is counted *)
(* without being shown as selected was counted for the question before: a  *)
(* pick that was not taken back is carried over.                           *)
(***************************************************************************)
OnlyCarriedPicksHide ==
  (view = "fourth" /\ ~finished) =>
    /\ selected \cap Picks \subseteq picked
    /\ picked \ selected \subseteq (IF counted = <<>> THEN {} ELSE Last(counted))

(***************************************************************************)
(* The loyalty slot is only written after all three questions, with what   *)
(* their counted picks are worth, each question by its own table.          *)
(***************************************************************************)
LoyaltyIsOfAllQuestions ==
  [][writer'["fourth"] # writer["fourth"] =>
       /\ Len(counted') = Len(Questions)
       /\ slot'["fourth"] \in 0..MaxLoyalty
       /\ LET worth(q) == WorthOf(Questions[q], counted'[q])
          IN slot'["fourth"] = worth(1) + worth(2) + worth(3)]_vars

(***************************************************************************)
(* The view asks to choose the answers that fit and deselects the buttons  *)
(* for every question: what is counted for a question is what is shown as  *)
(* selected.                                                               *)
(***************************************************************************)
CountedIsSelected ==
  [][counted' # counted /\ counted' # <<>> =>
       Last(counted') = selected \cap Picks]_vars

(***************************************************************************)
(* The two views are steps of a rating, the third before the fourth.       *)
(***************************************************************************)
Progress ==
  IF view # "fourth" \/ current = 0 THEN "none"
  ELSE IF finished THEN "all" ELSE "some"

Step == INSTANCE VoteStep WITH
  Entry <- {"third"}, After <- [v \in Views |-> IF v = "third" THEN "fourth" ELSE NoView],
  Skippable <- {}, Computed <- {"third"}, Abandonable <- {},
  session <- visit, progress <- Progress

ImplementsVoteStep == Step!Spec
=============================================================================
