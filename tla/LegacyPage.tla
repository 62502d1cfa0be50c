------------------------------ MODULE LegacyPage ------------------------------
(***************************************************************************)
(* The pages that are served when the single-page application is not built *)
(* in (internal/ui/static): identities (app.js), Secrets Manager (sm.js),  *)
(* Credential Provider (cp.js) and Central Credential Provider (ccp.js).   *)
(*                                                                         *)
(* Each page has tabs and one button.  A run disables the button, not the  *)
(* tabs, posts, and renders the lifecycle one step at a time with a timer  *)
(* in between; result fields and verdict are written when it has ended.    *)
(* On the identities page one answer serves all tabs; on the others the    *)
(* answer is of the scenario that was selected at the click.               *)
(***************************************************************************)
EXTENDS Integers, Sequences

CONSTANTS
  Pages,       \* the pages to consider
  StoryLen,    \* steps of a lifecycle
  MaxRuns      \* bound on runs of a page

ASSUME PagesAssumption == Pages \subseteq {"swa", "sm", "cp", "ccp"}
ASSUME LengthAssumption == StoryLen \in Nat \ {0}
ASSUME RunsAssumption == MaxRuns \in Nat \ {0}

VARIABLES
  page,       \* the page that is open
  tab,        \* the tab that is selected
  head,       \* the tab that the heading tells of, None before any answer
  phase,      \* of the run: the button is enabled only when it is "idle"
  run,        \* the latest run: its number, scenario, answer, and
              \* how many of its steps have been put on display
  data,       \* identities page: the run whose answer it keeps, 0 for none
  timeline,   \* the steps on display
  fields,     \* the result fields: of which run and scenario they are
  status,     \* the line of status
  strayed     \* history: a tab was selected while a run was being shown

vars == <<page, tab, head, phase, run, data, timeline, fields, status, strayed>>

None == "none"

IdentityTabs == {"trusted", "untrusted", "unknown", "foreign"}
VaultTabs == {"conjur-jwt", "conjur-iam"}
CpTabs == {"authorized", "invalid-hash", "denied", "dual"}
CcpTabs == {"authorized", "no-cert", "denied", "dual"}

(* The first tab of each is the one that is selected by the script.        *)
TabsOf == [swa |-> IdentityTabs, sm |-> VaultTabs, cp |-> CpTabs, ccp |-> CcpTabs]
FirstTabs == {"trusted", "conjur-jwt", "conjur-iam", "authorized"}

(* The scenarios whose denial is the demonstration (meta.expectFail).      *)
ExpectFail == {"invalid-hash", "no-cert", "denied"}
AllTabs == IdentityTabs \cup VaultTabs \cup CpTabs \cup CcpTabs

Replies == {"retrieved", "denied"}
Verdicts == {"done", "retrieved", "expected", "failed"}

(* Fields as clearResults() leaves them, and as the template has them.     *)
Blank == [run |-> 0, tab |-> None, under |-> None]

(* The first k steps of scenario t of run n.                               *)
Story(n, t, k) == [i \in 1 .. k |-> [run |-> n, tab |-> t, step |-> i]]

(* What a result leaves empty is worded after the tab that is selected     *)
(* (under): "(unregistered hash)", "(none presented)".                     *)
Fields(n, t, u) == [run |-> n, tab |-> t, under |-> u]

(* slip: the verdict is that of the tab selected now, not of the run       *)
VerdictOfTab(r) ==
  IF r.reply = "retrieved" THEN "retrieved"
  ELSE IF tab \in ExpectFail THEN "expected" ELSE "failed"

Verdict(r) ==
  IF r.reply = "retrieved" THEN "retrieved"
  ELSE IF r.tab \in ExpectFail THEN "expected" ELSE "failed"

NoRun == [no |-> 0, tab |-> None, reply |-> None, shown |-> 0]

(* The identities page runs once by itself when it is loaded; a deep link  *)
(* may open Secrets Manager at either of its modes.                        *)
Init ==
  /\ page \in Pages
  /\ tab \in TabsOf[page] \cap FirstTabs
  /\ data = 0 /\ timeline = <<>> /\ fields = Blank /\ strayed = FALSE
  /\ IF page = "swa"
     THEN /\ head = None
          /\ phase = "asking" /\ status = "pending"
          /\ run = [NoRun EXCEPT !.no = 1]
     ELSE head = tab /\ phase = "idle" /\ status = None /\ run = NoRun

-----------------------------------------------------------------------------
(* slip: a tab does not clear the results of the one before                *)
SelectScenarioKeeps(t) ==
  /\ page # "swa" /\ t \in TabsOf[page]
  /\ tab' = t /\ head' = t
  /\ strayed' = (phase # "idle")
  /\ UNCHANGED <<page, phase, run, data, timeline, fields, status>>

(* selectScenario(), selectMode(): clears all results, those of a run that *)
(* is on its way too, and stops nothing.                                   *)
SelectScenario(t) ==
  /\ page # "swa" /\ t \in TabsOf[page]
  /\ tab' = t /\ head' = t
  /\ timeline' = <<>> /\ fields' = Blank /\ status' = None
  /\ strayed' = (phase # "idle")
  /\ UNCHANGED <<page, phase, run, data>>

(* renderScenario(t, false): all of the answer's view of t at once.  A     *)
(* rendering with a timer that is on its way goes on after it.             *)
SelectIdentity(t) ==
  /\ page = "swa" /\ t \in TabsOf[page]
  /\ tab' = t
  /\ strayed' = (phase = "showing")
  /\ IF data = 0 THEN head' = None /\ UNCHANGED <<timeline, fields>>
     ELSE /\ head' = t
          /\ timeline' = Story(data, t, StoryLen)
          /\ fields' = Fields(data, t, t)
  /\ UNCHANGED <<page, phase, run, data, status>>

(* run(): the scenario pages clear the lifecycle and remember the scenario *)
(* of the click, the fields of the run before stay until the answer.       *)
StartScenario ==
  /\ page # "swa" /\ phase = "idle" /\ run.no < MaxRuns
  /\ run' = [no |-> run.no + 1, tab |-> tab, reply |-> None, shown |-> 0]
  /\ phase' = "asking" /\ status' = "pending"
  /\ timeline' = <<>>
  /\ UNCHANGED <<page, tab, head, data, fields, strayed>>

StartIdentities ==
  /\ page = "swa" /\ phase = "idle" /\ run.no < MaxRuns
  /\ run' = [no |-> run.no + 1, tab |-> None, reply |-> None, shown |-> 0]
  /\ phase' = "asking" /\ status' = "pending"
  /\ UNCHANGED <<page, tab, head, data, timeline, fields, strayed>>

(* slip: an early return leaves the button disabled                        *)
RefusedKeepsButton ==
  /\ phase = "asking"
  /\ status' = "error"
  /\ UNCHANGED <<page, tab, head, phase, run, data, timeline, fields, strayed>>

(* The request fails, or is answered with an error: nothing but the status *)
(* changes, and the button is enabled again.                               *)
Refused ==
  /\ phase = "asking"
  /\ status' = "error" /\ phase' = "idle"
  /\ UNCHANGED <<page, tab, head, run, data, timeline, fields, strayed>>

(* renderSteps(): the first step is there at once.                         *)
ScenarioAnswered ==
  /\ page # "swa" /\ phase = "asking"
  /\ \E a \in Replies : run' = [run EXCEPT !.reply = a, !.shown = 1]
  /\ phase' = "showing"
  /\ timeline' = Story(run.no, run.tab, 1)
  /\ UNCHANGED <<page, tab, head, data, fields, status, strayed>>

(* renderScenario(current, true): the answer is kept for all tabs and the  *)
(* one selected now is rendered.                                           *)
IdentitiesAnswered ==
  /\ page = "swa" /\ phase = "asking"
  /\ run' = [run EXCEPT !.tab = tab, !.reply = "retrieved", !.shown = 1]
  /\ data' = run.no
  /\ phase' = "showing" /\ status' = "done"
  /\ head' = tab
  /\ timeline' = Story(run.no, tab, 1)
  /\ strayed' = FALSE
  /\ UNCHANGED <<page, tab, fields>>

(* slip: the loop goes on past the last step                               *)
StepTooMany ==
  /\ phase = "showing" /\ run.shown <= StoryLen
  /\ run' = [run EXCEPT !.shown = @ + 1]
  /\ timeline' = Append(timeline, [run |-> run.no, tab |-> run.tab, step |-> run.shown + 1])
  /\ UNCHANGED <<page, tab, head, phase, data, fields, status, strayed>>

(* The timer of renderSteps(): the next step goes to whatever list there   *)
(* is by now.                                                              *)
NextStep ==
  /\ phase = "showing" /\ run.shown < StoryLen
  /\ run' = [run EXCEPT !.shown = @ + 1]
  /\ timeline' = Append(timeline, [run |-> run.no, tab |-> run.tab, step |-> run.shown + 1])
  /\ UNCHANGED <<page, tab, head, phase, data, fields, status, strayed>>

(* After the last step: the fields and the verdict of the run.             *)
ScenarioShown ==
  /\ page # "swa" /\ phase = "showing" /\ run.shown = StoryLen
  /\ phase' = "idle"
  /\ fields' = Fields(run.no, run.tab, tab)
  /\ status' = Verdict(run)
  /\ UNCHANGED <<page, tab, head, run, data, timeline, strayed>>

IdentityShown ==
  /\ page = "swa" /\ phase = "showing" /\ run.shown = StoryLen
  /\ phase' = "idle"
  /\ fields' = Fields(data, run.tab, run.tab)
  /\ UNCHANGED <<page, tab, head, run, data, timeline, status, strayed>>

Select(t) == SelectScenario(t) \/ SelectIdentity(t)
Start == StartScenario \/ StartIdentities
Answered == Refused \/ ScenarioAnswered \/ IdentitiesAnswered
Shown == NextStep \/ ScenarioShown \/ IdentityShown

Next == (\E t \in AllTabs : Select(t)) \/ Start \/ Answered \/ Shown

(* The server ends every response by its write timeout; timers fire.       *)
Fairness == WF_vars(Answered) /\ WF_vars(Shown)
Spec == Init /\ [][Next]_vars /\ Fairness

-----------------------------------------------------------------------------
Item == [run : 1 .. MaxRuns, tab : AllTabs, step : 1 .. StoryLen]

(* Every variable has its type; a list that was cleared under a run holds  *)
(* at most what the run still appends.                                     *)
TypeOK ==
  /\ page \in Pages /\ tab \in TabsOf[page] /\ head \in {tab, None}
  /\ phase \in {"idle", "asking", "showing"}
  /\ run \in [no : 0 .. MaxRuns, tab : TabsOf[page] \cup {None},
              reply : Replies \cup {None}, shown : 0 .. StoryLen]
  /\ data \in 0 .. run.no
  /\ timeline \in Seq(Item)
  /\ Len(timeline) < StoryLen + (IF page = "swa" THEN StoryLen ELSE 1)
  /\ fields \in [run : 0 .. run.no, tab : TabsOf[page] \cup {None}, under : TabsOf[page] \cup {None}]
  /\ status \in {None, "pending", "error"} \cup Verdicts
  /\ strayed \in BOOLEAN

(* Whatever is clicked while a run is on its way, what comes to stand      *)
(* together is of one run: the steps on display, and with a verdict the    *)
(* fields, and the verdict is true of the scenario that was run, not of    *)
(* the one selected since.                                                 *)
OneRun ==
  /\ \A i \in DOMAIN timeline : timeline[i].run = (IF page = "swa" THEN data ELSE run.no)
  /\ status \in {"retrieved", "expected", "failed"} =>
       /\ fields.run = run.no /\ fields.tab = run.tab
       /\ status = "retrieved" <=> run.reply = "retrieved"
       /\ status = "expected" => run.tab \in ExpectFail
  /\ page = "swa" /\ status = "done" => data = run.no

(* Unless a tab was selected while a run was being shown, a page at rest   *)
(* shows the scenario that is selected: in its steps, complete and in      *)
(* order, in its fields, and in the words for what they lack.  Only an     *)
(* error leaves the fields of the run before.                              *)
OwnStory ==
  phase = "idle" /\ ~strayed =>
    /\ timeline = <<>> \/ \E n \in 1 .. run.no : timeline = Story(n, tab, StoryLen)
    /\ fields = Blank \/ \E n \in 1 .. run.no : fields = Fields(n, tab, tab)
    /\ status \notin {None, "error"} =>
         timeline = Story(run.no, tab, StoryLen) /\ fields = Fields(run.no, tab, tab)

(* The button comes back after every run, however it ends.                 *)
ButtonReturns == phase # "idle" ~> phase = "idle"

=============================================================================
