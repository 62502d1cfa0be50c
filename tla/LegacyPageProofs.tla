--------------------------- MODULE LegacyPageProofs ---------------------------
(***************************************************************************)
(* What a page of the legacy portal shows, for any length of a lifecycle   *)
(* and any number of runs.                                                 *)
(***************************************************************************)
EXTENDS LegacyPage, TLAPS

(* What phase, status and run know of each other.                          *)
PhaseKnown ==
  /\ phase # "idle" => run.no >= 1
  /\ phase = "idle" => status # "pending"
  /\ phase = "showing" =>
       run.reply \in Replies /\ run.shown >= 1 /\ run.tab \in TabsOf[page]
  /\ phase = "asking" /\ page # "swa" => run.tab \in TabsOf[page] /\ timeline = <<>>

(* The identities page knows one verdict, and an answer it has kept.       *)
StatusKnown ==
  /\ page = "swa" => status \in {"pending", "error", "done"}
  /\ page = "swa" /\ phase = "showing" => status = "done"
  /\ status = "done" => page = "swa" /\ data = run.no /\ data >= 1 /\ phase # "asking"
  /\ page # "swa" => head = tab
  /\ page = "swa" /\ data = 0 => timeline = <<>> /\ fields = Blank
  /\ status \in {"retrieved", "expected", "failed"} => page # "swa" /\ phase = "idle"

(* While steps are put on display there is room for those to come.         *)
RoomLeft ==
  phase = "showing" =>
    Len(timeline) <= run.shown + (IF page = "swa" THEN StoryLen - 1 ELSE 0)

(* OwnStory, before the page is at rest.                                   *)
OwnSteps ==
  ~strayed =>
    IF phase = "showing" THEN run.tab = tab /\ timeline = Story(run.no, tab, run.shown)
    ELSE timeline = <<>> \/ \E n \in 1 .. run.no : timeline = Story(n, tab, StoryLen)

OwnFields ==
  ~strayed /\ phase # "showing" =>
    fields = Blank \/ \E n \in 1 .. run.no : fields = Fields(n, tab, tab)

OwnRun ==
  /\ ~strayed /\ phase = "asking" /\ page # "swa" => run.tab = tab
  /\ ~strayed /\ phase = "idle" /\ status \notin {None, "error"} =>
       timeline = Story(run.no, tab, StoryLen) /\ fields = Fields(run.no, tab, tab)

IInv ==
  /\ TypeOK /\ PhaseKnown /\ StatusKnown /\ RoomLeft
  /\ OneRun /\ OwnSteps /\ OwnFields /\ OwnRun



(* The types of single values, without those of records and lists.         *)
Values ==
  /\ page \in Pages /\ tab \in TabsOf[page]
  /\ run.no \in 0 .. MaxRuns /\ run.tab \in TabsOf[page] \cup {None}
  /\ run.reply \in Replies \cup {None} /\ run.shown \in 0 .. StoryLen
  /\ data \in 0 .. run.no /\ phase \in {"idle", "asking", "showing"}
  /\ status \in {None, "pending", "error"} \cup Verdicts
  /\ MaxRuns \in Nat \ {0} /\ StoryLen \in Nat \ {0}
  /\ timeline = <<>> => Len(timeline) = 0

(* The part of the type that is about them.                                *)
SingleTyped ==
  /\ page \in Pages /\ tab \in TabsOf[page] /\ head \in {tab, None}
  /\ phase \in {"idle", "asking", "showing"}
  /\ data \in 0 .. run.no
  /\ status \in {None, "pending", "error"} \cup Verdicts
  /\ strayed \in BOOLEAN

(* What the operations that change the run or extend the list make of      *)
(* them, value by value.                                                   *)
ScenarioStarts ==
  /\ page # "swa" /\ phase = "idle"
  /\ run'.no = run.no + 1 /\ run'.no \in 1 .. MaxRuns /\ run'.tab = tab /\ run'.shown = 0
  /\ phase' = "asking" /\ status' = "pending" /\ timeline' = <<>>
  /\ UNCHANGED <<page, tab, head, data, fields, strayed>>

IdentitiesStart ==
  /\ page = "swa" /\ phase = "idle"
  /\ run'.no = run.no + 1 /\ run'.no \in 1 .. MaxRuns /\ run'.shown = 0
  /\ phase' = "asking" /\ status' = "pending"
  /\ UNCHANGED <<page, tab, head, data, timeline, fields, strayed>>

Answers(t) ==
  /\ phase = "asking" /\ phase' = "showing" /\ run.no \in 1 .. MaxRuns
  /\ run'.no = run.no /\ run'.tab = t /\ run'.reply \in Replies /\ run'.shown = 1
  /\ t \in TabsOf[page] /\ t \in AllTabs
  /\ timeline' = Story(run.no, t, 1) /\ timeline' \in Seq(Item) /\ Len(timeline') = 1
  /\ \A i \in DOMAIN timeline' : timeline'[i].run = run.no
  /\ UNCHANGED <<page, tab, fields>>

ScenarioAnswers ==
  /\ page # "swa" /\ Answers(run.tab)
  /\ UNCHANGED <<head, data, status, strayed>>

IdentitiesAnswer ==
  /\ page = "swa" /\ Answers(tab)
  /\ data' = run.no /\ status' = "done" /\ head' = tab /\ strayed' = FALSE

StepIsAdded ==
  /\ phase = "showing" /\ run.shown < StoryLen /\ run.no \in 1 .. MaxRuns /\ run.tab \in AllTabs
  /\ run'.no = run.no /\ run'.tab = run.tab /\ run'.reply = run.reply /\ run'.shown = run.shown + 1
  /\ timeline' = Append(timeline, [run |-> run.no, tab |-> run.tab, step |-> run.shown + 1])
  /\ timeline' \in Seq(Item) /\ Len(timeline') = Len(timeline) + 1
  /\ \A i \in DOMAIN timeline' : \/ i \in DOMAIN timeline /\ timeline'[i] = timeline[i]
                                 \/ timeline'[i].run = run.no
  /\ UNCHANGED <<page, tab, head, phase, data, fields, status, strayed>>

IdentityIsSelected(t) ==
  /\ page = "swa" /\ t \in TabsOf[page] /\ tab' = t
  /\ strayed' = (phase = "showing")
  /\ IF data = 0 THEN head' = None /\ UNCHANGED <<timeline, fields>>
     ELSE /\ head' = t /\ data \in 1 .. MaxRuns
          /\ timeline' = Story(data, t, StoryLen) /\ fields' = Fields(data, t, t)
          /\ timeline' \in Seq(Item) /\ Len(timeline') = StoryLen
          /\ \A i \in DOMAIN timeline' : timeline'[i].run = data
  /\ UNCHANGED <<page, phase, run, data, status>>

Step(t) ==
  \/ SelectScenario(t) \/ IdentityIsSelected(t)
  \/ ScenarioStarts \/ IdentitiesStart
  \/ Refused \/ ScenarioAnswers \/ IdentitiesAnswer
  \/ StepIsAdded \/ ScenarioShown \/ IdentityShown
  \/ UNCHANGED vars

-----------------------------------------------------------------------------
(* A part of a lifecycle is a list of its steps, all of one run.           *)
LEMMA StoryFacts ==
  ASSUME NEW n \in 1 .. MaxRuns, NEW t \in AllTabs, NEW k \in 0 .. StoryLen
  PROVE  /\ Story(n, t, k) \in Seq(Item) /\ Len(Story(n, t, k)) = k
         /\ \A i \in DOMAIN Story(n, t, k) : Story(n, t, k)[i].run = n
  <1> DEFINE e(i) == [run |-> n, tab |-> t, step |-> i]
  <1>1. \A i \in 1 .. k : e(i) \in Item
    BY LengthAssumption DEF Item
  <1>2. Story(n, t, k) = [i \in 1 .. k |-> e(i)] /\ k \in Nat
    BY LengthAssumption DEF Story
  <1>3. \A i \in 1 .. k : e(i).run = n
    OBVIOUS
  <1> HIDE DEF e
  <1> QED BY <1>1, <1>2, <1>3

(* With its next step it is the next longer part.                          *)
LEMMA StoryGrows ==
  ASSUME NEW n \in 1 .. MaxRuns, NEW t \in AllTabs, NEW k \in 0 .. StoryLen, k < StoryLen
  PROVE  Append(Story(n, t, k), [run |-> n, tab |-> t, step |-> k + 1]) = Story(n, t, k + 1)
  <1> DEFINE e(i) == [run |-> n, tab |-> t, step |-> i]
  <1>1. /\ Story(n, t, k) = [i \in 1 .. k |-> e(i)]
        /\ Story(n, t, k + 1) = [i \in 1 .. k + 1 |-> e(i)]
        /\ [run |-> n, tab |-> t, step |-> k + 1] = e(k + 1) /\ k \in Nat
    BY LengthAssumption DEF Story
  <1> HIDE DEF e
  <1>2. Append([i \in 1 .. k |-> e(i)], e(k + 1)) = [i \in 1 .. k + 1 |-> e(i)]
    BY <1>1
  <1> QED BY <1>1, <1>2

(* The tabs of a page are tabs; only the identities page has its own.      *)
LEMMA TabFacts ==
  ASSUME NEW p \in Pages
  PROVE  TabsOf[p] \subseteq AllTabs /\ p \in {"swa", "sm", "cp", "ccp"}
  BY PagesAssumption DEF TabsOf, AllTabs, IdentityTabs, VaultTabs, CpTabs, CcpTabs

LEMMA ValueFacts ==
  ASSUME TypeOK
  PROVE  Values
  <1>1. run \in [no : 0 .. MaxRuns, tab : TabsOf[page] \cup {None},
                 reply : Replies \cup {None}, shown : 0 .. StoryLen]
    BY DEF TypeOK
  <1>2. timeline = <<>> => Len(timeline) = 0
    OBVIOUS
  <1> QED BY <1>1, <1>2, LengthAssumption, RunsAssumption DEF TypeOK, Values

(* A verdict is one of three.                                              *)
LEMMA VerdictIs ==
  /\ Verdict(run) \in {"retrieved", "expected", "failed"}
  /\ Verdict(run) = "retrieved" <=> run.reply = "retrieved"
  /\ Verdict(run) = "expected" => run.tab \in ExpectFail
  BY DEF Verdict

(* An answer puts the first step of its run on display.                    *)
LEMMA AnswerFacts ==
  ASSUME TypeOK, PhaseKnown
  PROVE  /\ ScenarioAnswered => ScenarioAnswers
         /\ IdentitiesAnswered => IdentitiesAnswer
  <1>1. run \in [no : 0 .. MaxRuns, tab : TabsOf[page] \cup {None},
                 reply : Replies \cup {None}, shown : 0 .. StoryLen]
    BY DEF TypeOK
  <1>2. Values /\ TabsOf[page] \subseteq AllTabs /\ 1 \in 0 .. StoryLen
    BY ValueFacts, TabFacts, LengthAssumption DEF Values
  <1>3. phase = "asking" => run.no \in 1 .. MaxRuns
    BY <1>2 DEF Values, PhaseKnown
  <1>4. ASSUME ScenarioAnswered
        PROVE  ScenarioAnswers
    <2>1. run'.no = run.no /\ run'.tab = run.tab /\ run'.reply \in Replies /\ run'.shown = 1
      BY <1>1, <1>4 DEF ScenarioAnswered
    <2>2. run.tab \in TabsOf[page] /\ run.tab \in AllTabs /\ run.no \in 1 .. MaxRuns
      BY <1>2, <1>3, <1>4 DEF ScenarioAnswered, PhaseKnown
    <2>3. timeline' = Story(run.no, run.tab, 1) /\ 1 \in 0 .. StoryLen
      BY <1>2, <1>4 DEF ScenarioAnswered
    <2>4. /\ timeline' \in Seq(Item) /\ Len(timeline') = 1
          /\ \A i \in DOMAIN timeline' : timeline'[i].run = run.no
      <3>1. /\ Story(run.no, run.tab, 1) \in Seq(Item) /\ Len(Story(run.no, run.tab, 1)) = 1
            /\ \A i \in DOMAIN Story(run.no, run.tab, 1) : Story(run.no, run.tab, 1)[i].run = run.no
        BY <2>2, <2>3, StoryFacts
      <3> QED BY <2>3, <3>1
    <2>5. /\ page # "swa" /\ phase = "asking" /\ phase' = "showing"
          /\ UNCHANGED <<page, tab, head, data, fields, status, strayed>>
      BY <1>4 DEF ScenarioAnswered
    <2> QED BY <2>1, <2>2, <2>3, <2>4, <2>5 DEF ScenarioAnswers, Answers
  <1>5. ASSUME IdentitiesAnswered
        PROVE  IdentitiesAnswer
    <2>1. run'.no = run.no /\ run'.tab = tab /\ run'.reply \in Replies /\ run'.shown = 1
      BY <1>1, <1>5 DEF IdentitiesAnswered, Replies
    <2>2. tab \in TabsOf[page] /\ tab \in AllTabs /\ run.no \in 1 .. MaxRuns
      BY <1>2, <1>3, <1>5 DEF IdentitiesAnswered, Values
    <2>3. timeline' = Story(run.no, tab, 1) /\ 1 \in 0 .. StoryLen
      BY <1>2, <1>5 DEF IdentitiesAnswered
    <2>4. /\ timeline' \in Seq(Item) /\ Len(timeline') = 1
          /\ \A i \in DOMAIN timeline' : timeline'[i].run = run.no
      <3>1. /\ Story(run.no, tab, 1) \in Seq(Item) /\ Len(Story(run.no, tab, 1)) = 1
            /\ \A i \in DOMAIN Story(run.no, tab, 1) : Story(run.no, tab, 1)[i].run = run.no
        BY <2>2, <2>3, StoryFacts
      <3> QED BY <2>3, <3>1
    <2>5. /\ page = "swa" /\ phase = "asking" /\ phase' = "showing"
          /\ data' = run.no /\ status' = "done" /\ head' = tab /\ strayed' = FALSE
          /\ UNCHANGED <<page, tab, fields>>
      BY <1>5 DEF IdentitiesAnswered
    <2> QED BY <2>1, <2>2, <2>3, <2>4, <2>5 DEF IdentitiesAnswer, Answers
  <1> QED BY <1>4, <1>5

(* The timer adds one step, of the run on display.                         *)
LEMMA AddedFacts ==
  ASSUME TypeOK, PhaseKnown, NextStep
  PROVE  StepIsAdded
  <1> DEFINE e == [run |-> run.no, tab |-> run.tab, step |-> run.shown + 1]
  <1>1. Values /\ phase = "showing" /\ run.shown < StoryLen /\ TabsOf[page] \subseteq AllTabs
    BY ValueFacts, TabFacts DEF Values, NextStep
  <1>2. run.no \in 1 .. MaxRuns /\ run.tab \in AllTabs /\ run.shown + 1 \in 1 .. StoryLen
    BY <1>1 DEF Values, PhaseKnown
  <1>3. e \in Item /\ e.run = run.no
    BY <1>2 DEF Item
  <1>4. timeline' = Append(timeline, e) /\ timeline \in Seq(Item)
    BY DEF NextStep, TypeOK
  <1>5. run \in [no : 0 .. MaxRuns, tab : TabsOf[page] \cup {None},
                 reply : Replies \cup {None}, shown : 0 .. StoryLen]
    BY DEF TypeOK
  <1>6. run'.no = run.no /\ run'.tab = run.tab /\ run'.reply = run.reply /\ run'.shown = run.shown + 1
    BY <1>5 DEF NextStep
  <1>7. /\ timeline' \in Seq(Item) /\ Len(timeline') = Len(timeline) + 1
        /\ \A i \in DOMAIN timeline' : \/ i \in DOMAIN timeline /\ timeline'[i] = timeline[i]
                                       \/ timeline'[i].run = run.no
    <2> HIDE DEF e
    <2> QED BY <1>3, <1>4
  <1> QED BY <1>1, <1>2, <1>4, <1>6, <1>7 DEF NextStep, StepIsAdded

(* An identity's tab renders all of the answer that is kept.               *)
LEMMA SelectedFacts ==
  ASSUME TypeOK, NEW t \in AllTabs, SelectIdentity(t)
  PROVE  IdentityIsSelected(t)
  <1>1. CASE data = 0
    BY <1>1 DEF SelectIdentity, IdentityIsSelected
  <1>2. CASE data # 0
    <2>1. Values
      BY ValueFacts
    <2>2. data \in 1 .. MaxRuns /\ StoryLen \in 0 .. StoryLen
      BY <1>2, <2>1 DEF Values
    <2>3. timeline' = Story(data, t, StoryLen)
      BY <1>2 DEF SelectIdentity
    <2>4. /\ timeline' \in Seq(Item) /\ Len(timeline') = StoryLen
          /\ \A i \in DOMAIN timeline' : timeline'[i].run = data
      BY <2>2, <2>3, StoryFacts
    <2> QED BY <1>2, <2>2, <2>3, <2>4 DEF SelectIdentity, IdentityIsSelected
  <1> QED BY <1>1, <1>2

(* So every step of the page is one of these.                              *)
LEMMA StepFacts ==
  ASSUME IInv, [Next]_vars
  PROVE  Values /\ \E t \in AllTabs : Step(t)
  <1>1. TypeOK /\ PhaseKnown /\ Values
    BY ValueFacts DEF IInv
  <1>2. "trusted" \in AllTabs
    BY DEF AllTabs, IdentityTabs
  <1>3. ASSUME NEW t \in AllTabs, Select(t)
        PROVE  Step(t)
    BY <1>1, <1>3, SelectedFacts DEF Select, Step
  <1>4. Start => ScenarioStarts \/ IdentitiesStart
    <2>1. StartScenario => ScenarioStarts
      <3>1. StartScenario => run'.no = run.no + 1 /\ run'.tab = tab /\ run'.shown = 0
        BY DEF StartScenario
      <3>2. run.no < MaxRuns => run.no + 1 \in 1 .. MaxRuns
        BY <1>1 DEF Values
      <3> QED BY <3>1, <3>2 DEF StartScenario, ScenarioStarts
    <2>2. StartIdentities => IdentitiesStart
      <3>1. StartIdentities => run'.no = run.no + 1 /\ run'.shown = 0
        BY DEF StartIdentities
      <3>2. run.no < MaxRuns => run.no + 1 \in 1 .. MaxRuns
        BY <1>1 DEF Values
      <3> QED BY <3>1, <3>2 DEF StartIdentities, IdentitiesStart
    <2> QED BY <2>1, <2>2 DEF Start
  <1>5. Answered => Refused \/ ScenarioAnswers \/ IdentitiesAnswer
    BY <1>1, AnswerFacts DEF Answered
  <1>6. Shown => StepIsAdded \/ ScenarioShown \/ IdentityShown
    BY <1>1, AddedFacts DEF Shown
  <1> QED BY <1>1, <1>2, <1>3, <1>4, <1>5, <1>6 DEF Next, Step

-----------------------------------------------------------------------------
(* A run under way has a number, and one on display an answer.             *)
LEMMA NextPhase ==
  ASSUME IInv, [Next]_vars
  PROVE  PhaseKnown'
  <1> SUFFICES ASSUME Values, NEW t \in AllTabs, Step(t)
               PROVE  PhaseKnown'
    BY StepFacts
  <1> USE DEF IInv, Values, PhaseKnown, StatusKnown, None
  <1>1. CASE SelectScenario(t)
    BY <1>1, TabFacts DEF SelectScenario
  <1>2. CASE IdentityIsSelected(t)
    BY <1>2, TabFacts DEF IdentityIsSelected
  <1>3. CASE ScenarioStarts
    BY <1>3, TabFacts DEF ScenarioStarts
  <1>4. CASE IdentitiesStart
    BY <1>4, TabFacts DEF IdentitiesStart
  <1>5. CASE Refused
    BY <1>5, TabFacts DEF Refused
  <1>6. CASE ScenarioAnswers
    BY <1>6, TabFacts DEF ScenarioAnswers, Answers
  <1>7. CASE IdentitiesAnswer
    BY <1>7, TabFacts DEF IdentitiesAnswer, Answers
  <1>8. CASE StepIsAdded
    BY <1>8, TabFacts DEF StepIsAdded
  <1>9. CASE ScenarioShown
    BY <1>9, TabFacts, VerdictIs DEF ScenarioShown
  <1>10. CASE IdentityShown
    BY <1>10, TabFacts DEF IdentityShown
  <1>11. CASE UNCHANGED vars
    BY <1>11 DEF vars
  <1> QED BY <1>1, <1>2, <1>3, <1>4, <1>5, <1>6, <1>7, <1>8, <1>9, <1>10, <1>11 DEF Step

(* A verdict is of the run that has ended.                                 *)
LEMMA NextStatus ==
  ASSUME IInv, [Next]_vars
  PROVE  StatusKnown'
  <1> SUFFICES ASSUME Values, NEW t \in AllTabs, Step(t)
               PROVE  StatusKnown'
    BY StepFacts
  <1> USE DEF IInv, Values, PhaseKnown, StatusKnown, Verdicts, None
  <1>1. CASE SelectScenario(t)
    BY <1>1, TabFacts DEF SelectScenario
  <1>2. CASE IdentityIsSelected(t)
    BY <1>2, TabFacts DEF IdentityIsSelected
  <1>3. CASE ScenarioStarts
    BY <1>3, TabFacts DEF ScenarioStarts
  <1>4. CASE IdentitiesStart
    BY <1>4, TabFacts DEF IdentitiesStart
  <1>5. CASE Refused
    BY <1>5, TabFacts DEF Refused
  <1>6. CASE ScenarioAnswers
    BY <1>6, TabFacts DEF ScenarioAnswers, Answers
  <1>7. CASE IdentitiesAnswer
    BY <1>7, TabFacts DEF IdentitiesAnswer, Answers
  <1>8. CASE StepIsAdded
    BY <1>8, TabFacts DEF StepIsAdded
  <1>9. CASE ScenarioShown
    BY <1>9, TabFacts, VerdictIs DEF ScenarioShown
  <1>10. CASE IdentityShown
    BY <1>10, TabFacts DEF IdentityShown
  <1>11. CASE UNCHANGED vars
    BY <1>11 DEF vars
  <1> QED BY <1>1, <1>2, <1>3, <1>4, <1>5, <1>6, <1>7, <1>8, <1>9, <1>10, <1>11 DEF Step

(* A list never overtakes its run.                                         *)
LEMMA NextRoom ==
  ASSUME IInv, [Next]_vars
  PROVE  RoomLeft'
  <1> SUFFICES ASSUME Values, NEW t \in AllTabs, Step(t)
               PROVE  RoomLeft'
    BY StepFacts
  <1> USE DEF IInv, Values, PhaseKnown, RoomLeft
  <1>1. CASE SelectScenario(t)
    BY <1>1, TabFacts DEF SelectScenario
  <1>2. CASE IdentityIsSelected(t)
    BY <1>2, TabFacts DEF IdentityIsSelected
  <1>3. CASE ScenarioStarts
    BY <1>3, TabFacts DEF ScenarioStarts
  <1>4. CASE IdentitiesStart
    BY <1>4, TabFacts DEF IdentitiesStart
  <1>5. CASE Refused
    BY <1>5, TabFacts DEF Refused
  <1>6. CASE ScenarioAnswers
    BY <1>6, TabFacts DEF ScenarioAnswers, Answers
  <1>7. CASE IdentitiesAnswer
    BY <1>7, TabFacts DEF IdentitiesAnswer, Answers
  <1>8. CASE StepIsAdded
    BY <1>8, TabFacts DEF StepIsAdded
  <1>9. CASE ScenarioShown
    BY <1>9, TabFacts, VerdictIs DEF ScenarioShown
  <1>10. CASE IdentityShown
    BY <1>10, TabFacts DEF IdentityShown
  <1>11. CASE UNCHANGED vars
    BY <1>11 DEF vars
  <1> QED BY <1>1, <1>2, <1>3, <1>4, <1>5, <1>6, <1>7, <1>8, <1>9, <1>10, <1>11 DEF Step

(* What stands together stays of one run.                                  *)
LEMMA NextOneRun ==
  ASSUME IInv, [Next]_vars
  PROVE  OneRun'
  <1> SUFFICES ASSUME Values, NEW t \in AllTabs, Step(t)
               PROVE  OneRun'
    BY StepFacts
  <1> USE DEF IInv, Values, PhaseKnown, StatusKnown, OneRun, None, Fields
  <1>1. CASE SelectScenario(t)
    BY <1>1, TabFacts DEF SelectScenario
  <1>2. CASE IdentityIsSelected(t)
    BY <1>2, TabFacts DEF IdentityIsSelected
  <1>3. CASE ScenarioStarts
    BY <1>3, TabFacts DEF ScenarioStarts
  <1>4. CASE IdentitiesStart
    BY <1>4, TabFacts DEF IdentitiesStart
  <1>5. CASE Refused
    BY <1>5, TabFacts DEF Refused
  <1>6. CASE ScenarioAnswers
    BY <1>6, TabFacts DEF ScenarioAnswers, Answers
  <1>7. CASE IdentitiesAnswer
    BY <1>7, TabFacts DEF IdentitiesAnswer, Answers
  <1>8. CASE StepIsAdded
    BY <1>8, TabFacts DEF StepIsAdded
  <1>9. CASE ScenarioShown
    BY <1>9, TabFacts, VerdictIs DEF ScenarioShown
  <1>10. CASE IdentityShown
    BY <1>10, TabFacts DEF IdentityShown
  <1>11. CASE UNCHANGED vars
    BY <1>11 DEF vars
  <1> QED BY <1>1, <1>2, <1>3, <1>4, <1>5, <1>6, <1>7, <1>8, <1>9, <1>10, <1>11 DEF Step

(* A list nobody strayed from stays that of the selected tab.              *)
LEMMA NextSteps ==
  ASSUME IInv, [Next]_vars
  PROVE  OwnSteps'
  <1> SUFFICES ASSUME Values, NEW t \in AllTabs, Step(t)
               PROVE  OwnSteps'
    BY StepFacts
  <1> USE DEF IInv, Values, PhaseKnown, StatusKnown, OwnSteps, OwnRun, None
  <1>1. CASE SelectScenario(t)
    BY <1>1, TabFacts DEF SelectScenario
  <1>2. CASE IdentityIsSelected(t)
    <2>1. CASE data = 0
      BY <1>2, <2>1 DEF IdentityIsSelected
    <2>2. CASE data # 0
      <3>1. data \in 1 .. run.no /\ timeline' = Story(data, t, StoryLen) /\ run' = run /\ phase' = phase
        BY <1>2, <2>2 DEF IdentityIsSelected
      <3>2. tab' = t /\ (~strayed' => phase' # "showing")
        BY <1>2 DEF IdentityIsSelected
      <3> QED BY <3>1, <3>2
    <2> QED BY <2>1, <2>2
  <1>3. CASE ScenarioStarts
    BY <1>3, TabFacts DEF ScenarioStarts
  <1>4. CASE IdentitiesStart
    BY <1>4, TabFacts DEF IdentitiesStart
  <1>5. CASE Refused
    BY <1>5, TabFacts DEF Refused
  <1>6. CASE ScenarioAnswers
    BY <1>6, TabFacts DEF ScenarioAnswers, Answers
  <1>7. CASE IdentitiesAnswer
    BY <1>7, TabFacts DEF IdentitiesAnswer, Answers
  <1>8. CASE StepIsAdded
    <2>1. ~strayed' => run.tab = tab /\ timeline = Story(run.no, tab, run.shown)
      BY <1>8 DEF StepIsAdded
    <2>2. run.shown \in 0 .. StoryLen /\ run.shown < StoryLen /\ run.no \in 1 .. MaxRuns /\ run.tab \in AllTabs
      BY <1>8 DEF StepIsAdded
    <2>3. ~strayed' => timeline' = Story(run.no, tab, run.shown + 1)
      <3>1. Append(Story(run.no, run.tab, run.shown), [run |-> run.no, tab |-> run.tab,
          step |-> run.shown + 1])
              = Story(run.no, run.tab, run.shown + 1)
        BY <2>2, StoryGrows
      <3>2. timeline' = Append(timeline, [run |-> run.no, tab |-> run.tab, step |-> run.shown + 1])
        BY <1>8 DEF StepIsAdded
      <3> HIDE DEF IInv, Values, PhaseKnown, StatusKnown, OwnSteps, OwnRun
      <3> QED BY <2>1, <3>1, <3>2
    <2> QED BY <1>8, <2>1, <2>3 DEF StepIsAdded
  <1>9. CASE ScenarioShown
    BY <1>9, TabFacts, VerdictIs DEF ScenarioShown
  <1>10. CASE IdentityShown
    BY <1>10, TabFacts DEF IdentityShown
  <1>11. CASE UNCHANGED vars
    BY <1>11 DEF vars
  <1> QED BY <1>1, <1>2, <1>3, <1>4, <1>5, <1>6, <1>7, <1>8, <1>9, <1>10, <1>11 DEF Step

(* So do the fields.                                                       *)
LEMMA NextFields ==
  ASSUME IInv, [Next]_vars
  PROVE  OwnFields'
  <1> SUFFICES ASSUME Values, NEW t \in AllTabs, Step(t)
               PROVE  OwnFields'
    BY StepFacts
  <1> USE DEF IInv, Values, PhaseKnown, StatusKnown, OwnSteps, OwnFields, None
  <1>1. CASE SelectScenario(t)
    BY <1>1, TabFacts DEF SelectScenario
  <1>2. CASE IdentityIsSelected(t)
    BY <1>2, TabFacts DEF IdentityIsSelected
  <1>3. CASE ScenarioStarts
    BY <1>3, TabFacts DEF ScenarioStarts
  <1>4. CASE IdentitiesStart
    BY <1>4, TabFacts DEF IdentitiesStart
  <1>5. CASE Refused
    BY <1>5, TabFacts DEF Refused
  <1>6. CASE ScenarioAnswers
    BY <1>6, TabFacts DEF ScenarioAnswers, Answers
  <1>7. CASE IdentitiesAnswer
    BY <1>7, TabFacts DEF IdentitiesAnswer, Answers
  <1>8. CASE StepIsAdded
    BY <1>8, TabFacts DEF StepIsAdded
  <1>9. CASE ScenarioShown
    <2>1. ~strayed' => fields' = Fields(run.no, tab, tab)
      BY <1>9 DEF ScenarioShown
    <2>2. run.no \in 1 .. run.no /\ run' = run /\ tab' = tab
      BY <1>9 DEF ScenarioShown
    <2> QED BY <2>1, <2>2
  <1>10. CASE IdentityShown
    <2>1. ~strayed' => fields' = Fields(run.no, tab, tab)
      BY <1>10 DEF IdentityShown
    <2>2. run.no \in 1 .. run.no /\ run' = run /\ tab' = tab
      BY <1>10 DEF IdentityShown
    <2> QED BY <2>1, <2>2
  <1>11. CASE UNCHANGED vars
    BY <1>11 DEF vars
  <1> QED BY <1>1, <1>2, <1>3, <1>4, <1>5, <1>6, <1>7, <1>8, <1>9, <1>10, <1>11 DEF Step

(* So does the run they come from.                                         *)
LEMMA NextOwnRun ==
  ASSUME IInv, [Next]_vars
  PROVE  OwnRun'
  <1> SUFFICES ASSUME Values, NEW t \in AllTabs, Step(t)
               PROVE  OwnRun'
    BY StepFacts
  <1> USE DEF IInv, Values, PhaseKnown, StatusKnown, OwnSteps, OwnFields, OwnRun, None
  <1>1. CASE SelectScenario(t)
    BY <1>1, TabFacts DEF SelectScenario
  <1>2. CASE IdentityIsSelected(t)
    BY <1>2, TabFacts DEF IdentityIsSelected
  <1>3. CASE ScenarioStarts
    BY <1>3, TabFacts DEF ScenarioStarts
  <1>4. CASE IdentitiesStart
    BY <1>4, TabFacts DEF IdentitiesStart
  <1>5. CASE Refused
    BY <1>5, TabFacts DEF Refused
  <1>6. CASE ScenarioAnswers
    BY <1>6, TabFacts DEF ScenarioAnswers, Answers
  <1>7. CASE IdentitiesAnswer
    BY <1>7, TabFacts DEF IdentitiesAnswer, Answers
  <1>8. CASE StepIsAdded
    BY <1>8, TabFacts DEF StepIsAdded
  <1>9. CASE ScenarioShown
    BY <1>9, TabFacts, VerdictIs DEF ScenarioShown
  <1>10. CASE IdentityShown
    BY <1>10, TabFacts DEF IdentityShown
  <1>11. CASE UNCHANGED vars
    BY <1>11 DEF vars
  <1> QED BY <1>1, <1>2, <1>3, <1>4, <1>5, <1>6, <1>7, <1>8, <1>9, <1>10, <1>11 DEF Step

(* The run keeps its type.                                                 *)
LEMMA RunTyped ==
  ASSUME IInv, [Next]_vars
  PROVE  (run \in [no : 0 .. MaxRuns, tab : TabsOf[page] \cup {None},
                   reply : Replies \cup {None}, shown : 0 .. StoryLen])'
  <1> DEFINE R == [no : 0 .. MaxRuns, tab : TabsOf[page] \cup {None},
                   reply : Replies \cup {None}, shown : 0 .. StoryLen]
  <1>1. Values /\ run \in R
    BY ValueFacts DEF IInv, TypeOK
  <1>2. page' = page
    BY DEF Next, Select, SelectScenario, SelectIdentity, Start, StartScenario, StartIdentities,
           Answered, Refused, ScenarioAnswered, IdentitiesAnswered,
           Shown, NextStep, ScenarioShown, IdentityShown, vars
  <1>3. StartScenario \/ StartIdentities => run' \in R
    BY <1>1 DEF StartScenario, StartIdentities, Values
  <1>4. ASSUME NEW g \in R, NEW a \in Replies, NEW u \in TabsOf[page]
        PROVE  [g EXCEPT !.reply = a, !.shown = 1] \in R /\ [g EXCEPT !.tab = u, !.reply = a,
            !.shown = 1] \in R
    <2>1. 1 \in 0 .. StoryLen
      BY LengthAssumption
    <2> QED BY <2>1
  <1>5. ScenarioAnswered \/ IdentitiesAnswered => run' \in R
    <2> HIDE DEF R
    <2>1. "retrieved" \in Replies /\ tab \in TabsOf[page]
      BY <1>1 DEF Replies, Values
    <2>2. \A a \in Replies : [run EXCEPT !.reply = a, !.shown = 1] \in R
      BY <1>1, <1>4, <2>1
    <2>3. [run EXCEPT !.tab = tab, !.reply = "retrieved", !.shown = 1] \in R
      BY <1>1, <1>4, <2>1
    <2>4. ScenarioAnswered => run' \in R
      BY <2>2 DEF ScenarioAnswered
    <2>5. IdentitiesAnswered => run' \in R
      BY <2>3 DEF IdentitiesAnswered
    <2> QED BY <2>4, <2>5
  <1>6. NextStep => run' \in R
    <2>1. NextStep => run.shown + 1 \in 0 .. StoryLen
      BY <1>1 DEF NextStep, Values
    <2> QED BY <1>1, <2>1 DEF NextStep
  <1>7. (\E t \in AllTabs : Select(t)) \/ Refused \/ ScenarioShown \/ IdentityShown \/ UNCHANGED vars
          => run' \in R
    <2>1. (\E t \in AllTabs : Select(t)) \/ Refused \/ ScenarioShown \/ IdentityShown \/ UNCHANGED vars
            => run' = run
      BY DEF Select, SelectScenario, SelectIdentity, Refused, ScenarioShown, IdentityShown, vars
    <2> QED BY <1>1, <2>1
  <1>8. run' \in R
    BY <1>3, <1>5, <1>6, <1>7 DEF Next, Start, Answered, Shown
  <1> QED BY <1>2, <1>8

(* So do the fields, which are never of a run that is yet to come.         *)
LEMMA FieldsTyped ==
  ASSUME IInv, [Next]_vars
  PROVE  (fields \in [run : 0 .. run.no, tab : TabsOf[page] \cup {None},
                      under : TabsOf[page] \cup {None}])'
  <1> SUFFICES ASSUME Values, NEW t \in AllTabs, Step(t)
               PROVE  (fields \in [run : 0 .. run.no, tab : TabsOf[page] \cup {None},
                                   under : TabsOf[page] \cup {None}])'
    BY StepFacts
  <1>1. fields \in [run : 0 .. run.no, tab : TabsOf[page] \cup {None}, under : TabsOf[page] \cup {None}]
    BY DEF IInv, TypeOK
  <1>2. page' = page /\ run'.no \in Nat /\ run'.no >= run.no
    BY DEF Values, Step, SelectScenario, IdentityIsSelected, ScenarioStarts, IdentitiesStart,
        Refused,
           ScenarioAnswers, IdentitiesAnswer, Answers, StepIsAdded, ScenarioShown, IdentityShown, vars
  <1>3. \/ fields' = fields \/ fields' = Blank
        \/ \E n \in 0 .. run.no : \E u, v \in TabsOf[page] : fields' = Fields(n, u, v)
    BY DEF IInv, PhaseKnown, Values, Step, SelectScenario, IdentityIsSelected, ScenarioStarts,
        IdentitiesStart,
           Refused, ScenarioAnswers, IdentitiesAnswer, Answers, StepIsAdded, ScenarioShown, IdentityShown, vars
  <1>4. 0 .. run.no \subseteq 0 .. run'.no /\ 0 \in 0 .. run'.no
    BY <1>2 DEF Values
  <1>5. CASE fields' = fields
    BY <1>1, <1>2, <1>4, <1>5
  <1>6. CASE fields' = Blank
    BY <1>2, <1>4, <1>6 DEF Blank
  <1>7. CASE \E n \in 0 .. run.no : \E u, v \in TabsOf[page] : fields' = Fields(n, u, v)
    BY <1>2, <1>4, <1>7 DEF Fields
  <1> QED BY <1>3, <1>5, <1>6, <1>7

(* So does the list, which has room for what a run still adds.             *)
LEMMA ListTyped ==
  ASSUME IInv, [Next]_vars
  PROVE  (/\ timeline \in Seq(Item)
          /\ Len(timeline) < StoryLen + (IF page = "swa" THEN StoryLen ELSE 1))'
  <1> SUFFICES ASSUME Values, NEW t \in AllTabs, Step(t)
               PROVE  (/\ timeline \in Seq(Item)
                       /\ Len(timeline) < StoryLen + (IF page = "swa" THEN StoryLen ELSE 1))'
    BY StepFacts
  <1>1. /\ timeline \in Seq(Item) /\ Len(timeline) \in Nat
        /\ Len(timeline) < StoryLen + (IF page = "swa" THEN StoryLen ELSE 1)
    BY DEF IInv, TypeOK
  <1>2. page' = page
    BY DEF Step, SelectScenario, IdentityIsSelected, ScenarioStarts, IdentitiesStart, Refused,
           ScenarioAnswers, IdentitiesAnswer, Answers, StepIsAdded, ScenarioShown, IdentityShown, vars
  <1>3. \/ timeline' = timeline \/ timeline' = <<>>
        \/ timeline' \in Seq(Item) /\ Len(timeline') = 1
        \/ timeline' \in Seq(Item) /\ Len(timeline') = StoryLen /\ page = "swa"
        \/ StepIsAdded
    BY DEF Step, SelectScenario, IdentityIsSelected, ScenarioStarts, IdentitiesStart, Refused,
           ScenarioAnswers, IdentitiesAnswer, Answers, ScenarioShown, IdentityShown, vars
  <1>4. CASE timeline' = timeline
    BY <1>1, <1>2, <1>4
  <1>5. CASE timeline' = <<>>
    BY <1>2, <1>5 DEF Values
  <1>6. CASE timeline' \in Seq(Item) /\ Len(timeline') = 1
    BY <1>2, <1>6 DEF Values
  <1>7. CASE timeline' \in Seq(Item) /\ Len(timeline') = StoryLen /\ page = "swa"
    BY <1>2, <1>7 DEF Values
  <1>8. CASE StepIsAdded
    <2>1. timeline' \in Seq(Item) /\ Len(timeline') = Len(timeline) + 1 /\ run.shown < StoryLen /\ phase = "showing"
      BY <1>8 DEF StepIsAdded
    <2>2. Len(timeline) <= run.shown + (IF page = "swa" THEN StoryLen - 1 ELSE 0)
      BY <2>1 DEF IInv, RoomLeft
    <2> QED BY <1>1, <1>2, <2>1, <2>2 DEF Values
  <1> QED BY <1>3, <1>4, <1>5, <1>6, <1>7, <1>8

(* And so do the single values.                                            *)
LEMMA NextValues ==
  ASSUME IInv, [Next]_vars
  PROVE  SingleTyped'
  <1> SUFFICES ASSUME Values, NEW t \in AllTabs, Step(t)
               PROVE  SingleTyped'
    BY StepFacts
  <1> USE DEF IInv, Values, TypeOK, PhaseKnown, StatusKnown, Verdicts, None, SingleTyped
  <1>1. CASE SelectScenario(t)
    BY <1>1, TabFacts DEF SelectScenario
  <1>2. CASE IdentityIsSelected(t)
    BY <1>2, TabFacts DEF IdentityIsSelected
  <1>3. CASE ScenarioStarts
    BY <1>3, TabFacts DEF ScenarioStarts
  <1>4. CASE IdentitiesStart
    BY <1>4, TabFacts DEF IdentitiesStart
  <1>5. CASE Refused
    BY <1>5, TabFacts DEF Refused
  <1>6. CASE ScenarioAnswers
    BY <1>6, TabFacts DEF ScenarioAnswers, Answers
  <1>7. CASE IdentitiesAnswer
    <2>1. run'.no = run.no /\ data' = run.no /\ status' = "done" /\ head' = tab /\ strayed' = FALSE
      BY <1>7 DEF IdentitiesAnswer, Answers
    <2>2. phase' = "showing" /\ page' = page /\ tab' = tab
      BY <1>7 DEF IdentitiesAnswer, Answers
    <2>3. run.no \in 0 .. run.no
      OBVIOUS
    <2> QED BY <2>1, <2>2, <2>3
  <1>8. CASE StepIsAdded
    BY <1>8, TabFacts DEF StepIsAdded
  <1>9. CASE ScenarioShown
    BY <1>9, TabFacts, VerdictIs DEF ScenarioShown
  <1>10. CASE IdentityShown
    BY <1>10, TabFacts DEF IdentityShown
  <1>11. CASE UNCHANGED vars
    BY <1>11 DEF vars
  <1> QED BY <1>1, <1>2, <1>3, <1>4, <1>5, <1>6, <1>7, <1>8, <1>9, <1>10, <1>11 DEF Step

LEMMA NextInv ==
  ASSUME IInv, [Next]_vars
  PROVE  IInv'
  <1>1. TypeOK'
    BY RunTyped, FieldsTyped, ListTyped, NextValues DEF TypeOK, SingleTyped
  <1> QED BY <1>1, NextPhase, NextStatus, NextRoom, NextOneRun, NextSteps, NextFields,
         NextOwnRun DEF IInv

(* It holds when the page has been opened.                                 *)
LEMMA InitInv == Init => IInv
  <1> SUFFICES ASSUME Init  PROVE IInv
    OBVIOUS
  <1>1. run \in [no : 0 .. MaxRuns, tab : TabsOf[page] \cup {None},
                 reply : Replies \cup {None}, shown : 0 .. StoryLen]
    <2>1. 0 \in 0 .. MaxRuns /\ 1 \in 0 .. MaxRuns /\ 0 \in 0 .. StoryLen
      BY LengthAssumption, RunsAssumption
    <2> QED BY <2>1 DEF Init, NoRun
  <1>2. page = "swa" => run.no = 1 /\ run.tab = None /\ run.shown = 0
    BY DEF Init, NoRun
  <1>3. page # "swa" => run.no = 0 /\ run.tab = None /\ run.shown = 0
    BY DEF Init, NoRun
  <1>4. fields = [run |-> 0, tab |-> None,
      under |-> None] /\ data = 0 /\ timeline = <<>> /\ strayed = FALSE
    BY DEF Init, Blank
  <1>5. fields \in [run : 0 .. run.no, tab : TabsOf[page] \cup {None}, under : TabsOf[page] \cup {None}]
    <2>1. 0 \in 0 .. run.no
      BY <1>2, <1>3
    <2> QED BY <1>4, <2>1
  <1>6. timeline \in Seq(Item) /\ Len(timeline) = 0
    BY <1>4
  <1>7. /\ page \in Pages /\ tab \in TabsOf[page]
        /\ IF page = "swa" THEN head = None /\ phase = "asking" /\ status = "pending"
           ELSE head = tab /\ phase = "idle" /\ status = None
    BY DEF Init
  <1>8. TypeOK
    <2>1. data \in 0 .. run.no
      BY <1>2, <1>3, <1>4
    <2>2. Len(timeline) < StoryLen + (IF page = "swa" THEN StoryLen ELSE 1)
      BY <1>6, LengthAssumption
    <2> QED BY <1>1, <1>4, <1>5, <1>6, <1>7, <2>1, <2>2 DEF TypeOK
  <1>9. PhaseKnown /\ StatusKnown /\ RoomLeft
    BY <1>2, <1>3, <1>4, <1>7 DEF PhaseKnown, StatusKnown, RoomLeft, None, Blank
  <1>10. OneRun /\ OwnSteps /\ OwnFields /\ OwnRun
    BY <1>2, <1>3, <1>4, <1>7 DEF OneRun, OwnSteps, OwnFields, OwnRun, None, Blank
  <1> QED BY <1>8, <1>9, <1>10 DEF IInv

-----------------------------------------------------------------------------
(* The invariant holds whatever is clicked and answered, and when.         *)
THEOREM Invariance == Spec => []IInv
  BY InitInv, NextInv, PTL DEF Spec

(* The pages stay in their types: in particular the list of steps is never *)
(* longer than two lifecycles less one step, or one (TypeOK).              *)
THEOREM TypeCorrect == Spec => []TypeOK
  BY Invariance, PTL DEF IInv

(* For any number of runs, what stands together is of one run, and a       *)
(* verdict is true of the scenario that was run (OneRun).                  *)
THEOREM VerdictOfItsRun == Spec => []OneRun
  BY Invariance, PTL DEF IInv

(* A page at rest whose tab was not changed while a run was on display     *)
(* shows the selected scenario and no other (OwnStory).                    *)
THEOREM RestsOnOwnStory == Spec => []OwnStory
  <1>1. IInv => OwnStory
    BY DEF IInv, OwnSteps, OwnFields, OwnRun, OwnStory
  <1> QED BY <1>1, Invariance, PTL

=============================================================================
