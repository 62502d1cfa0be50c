---------------------------- MODULE ResolveEngine ----------------------------
(***************************************************************************)
(* The retrieval engine of the portal (ui-cp/src/engine/useResolveEngine   *)
(* .ts) with the App that drives it and the pace queue as this engine uses *)
(* it: only "cp.stage.N" events, so one timer chain and no preemption by   *)
(* an error or by a new request (module PaceQueue has those).              *)
(*                                                                         *)
(* Three activities interleave: the user's clicks, the timers that walk    *)
(* the stages, and the POSTs whose answers land when they land.  `h' is    *)
(* what the hook holds, React state and refs; `shown' is the status of the *)
(* last commit, which the buttons go by, and `seen' is statusRef, which an *)
(* effect copies from there.  After a click React commits and runs the     *)
(* effect before anything else; after a timer or a promise each is a task  *)
(* of its own, with clicks, timers and answers in between.                 *)
(***************************************************************************)
EXTENDS Integers, Sequences, SequencesExt

CONSTANTS
  Scenarios,    \* each with its provider and the stage it is to fail at, -1 for none
  StageCount,   \* StageCount[p]: number of stages of provider p
  MaxRuns,      \* bound on the number of runs
  PaceChoices,  \* paces the user can pick: TRUE is fast, medium or slow, FALSE off
  LeavesEarly   \* may the user leave a run whose POST is not answered yet?

ASSUME StagesAssumption == \A p \in DOMAIN StageCount : StageCount[p] \in Nat \ {0}
ASSUME ScenarioAssumption ==
  \A s \in Scenarios : s.provider \in DOMAIN StageCount /\ s.failStage \in -1 .. StageCount[s.provider] - 1
ASSUME BoundAssumption == MaxRuns \in Nat
ASSUME ChoiceAssumption == /\ PaceChoices \subseteq BOOLEAN /\ TRUE \in PaceChoices
                           /\ LeavesEarly \in BOOLEAN

VARIABLES
  scenario,  \* the scenario selected in the App
  runs,      \* number of the current run, 0 before the first
  inflight,  \* POSTs on their way: the run and the scenario each belongs to
  h,         \* the hook
  shown,     \* the status last committed: what the buttons show
  seen,      \* statusRef.current
  queue,     \* stages waiting in the pace queue
  armed,     \* the queue's timer is set
  walking,   \* the queue's walking flag
  paced      \* the queue's pace is not zero

vars == <<scenario, runs, inflight, h, shown, seen, queue, armed, walking, paced>>

Status == {"idle", "running", "done", "error"}

(* The page shows one provider, the one of its path.                       *)
N == StageCount[scenario.provider]
Posts == [run : 1 .. MaxRuns, scenario : Scenarios]

(* A fetched result, reduced to whose it is and whether it has the secret. *)
Answers == [run : 1 .. MaxRuns, retrieved : BOOLEAN]
NoAnswer == [run |-> 0, retrieved |-> FALSE]
Outcomes == [kind : {"done", "error"}, failStage : -1 .. N - 1]
NoOutcome == [kind |-> "none", failStage |-> -1]

Ok(s) == s.failStage = -1

FreshHook(status) ==
  [status |-> status, stage |-> -1, completed |-> 0, result |-> NoAnswer,
   maxStage |-> -1, pending |-> NoOutcome, fetchRes |-> NoAnswer]

Init ==
  /\ scenario \in Scenarios
  /\ runs = 0 /\ inflight = {}
  /\ h = FreshHook("idle") /\ shown = "idle" /\ seen = "idle"
  /\ queue = <<>> /\ armed = FALSE /\ walking = FALSE /\ paced = TRUE

-----------------------------------------------------------------------------
(* What the hook does when the queue calls it back.                        *)

(* slip: stages are lit as they come, without the furthest-yet guard       *)
LightAny(x, i) ==
  IF seen = "running"
    THEN [x EXCEPT !.maxStage = i, !.stage = i, !.completed = i] ELSE x

(* slip: a stage is lit only as the successor of the one before            *)
LightNext(x, i) ==
  IF seen = "running" /\ i = x.maxStage + 1
    THEN [x EXCEPT !.maxStage = i, !.stage = i, !.completed = i] ELSE x

(* subscribe(): a stage event lights its stage if it is the furthest yet.  *)
Light(x, i) ==
  IF seen = "running" /\ i > x.maxStage
    THEN [x EXCEPT !.maxStage = i, !.stage = i, !.completed = i] ELSE x

(* onStateChange("walking") *)
Wake(x) == IF x.status \in {"done", "error"} THEN x ELSE [x EXCEPT !.status = "running"]

(* slip: the settling callback is gated by the status ref like the other   *)
SettleIfSeen(x) ==
  IF x.pending = NoOutcome \/ seen # "running" THEN x
  ELSE [x EXCEPT !.pending = NoOutcome, !.stage = -1, !.status = x.pending.kind,
          !.completed = IF x.pending.kind = "done" THEN N ELSE x.pending.failStage]

(* slip: every walk that ends is taken for a success                       *)
SettleDone(x) ==
  IF x.pending = NoOutcome THEN x
  ELSE [x EXCEPT !.pending = NoOutcome, !.stage = -1, !.completed = N, !.status = "done"]

(* slip: an error clears the progress, as an unexpected one does           *)
SettleFromZero(x) ==
  IF x.pending = NoOutcome THEN x
  ELSE [x EXCEPT !.pending = NoOutcome, !.stage = -1, !.status = x.pending.kind,
          !.completed = IF x.pending.kind = "done" THEN N ELSE 0]

(* onStateChange("idle"): the pending outcome, if any, is applied.         *)
Settle(x) ==
  IF x.pending = NoOutcome THEN x
  ELSE [x EXCEPT !.pending = NoOutcome, !.stage = -1,
          !.result = IF x.fetchRes = NoAnswer THEN @ ELSE x.fetchRes,
          !.completed = IF x.pending.kind = "done" THEN N
                        ELSE IF x.pending.failStage > 0 THEN x.pending.failStage ELSE 0,
          !.status = x.pending.kind]

-----------------------------------------------------------------------------
Furthest(i, S) == \A j \in S : j <= i

WakeIfIdle(x) == IF walking THEN x ELSE Wake(x)

(* The whole walk in one go, with the pace off: after each stage the queue *)
(* falls idle, so the outcome is applied after stage 0 and the rest of the *)
(* stages follow it; they are a rising sequence, so the last one shows.    *)
AtOnce(x, target) ==
  LET first == Settle(Light(WakeIfIdle(x), 0))
  IN  IF target = 0 THEN first ELSE Light(Wake(first), target)

(* walk(target): push the stages 0 .. target into the queue.               *)
Walk(x, target, timer) ==
  \/ /\ timer
     /\ queue' = queue \o [i \in 1 .. target + 1 |-> i - 1]
     /\ h' = x
     /\ armed' = TRUE
     /\ UNCHANGED walking
  \/ /\ ~timer /\ paced
     /\ queue' = [i \in 1 .. target |-> i]
     /\ h' = Light(WakeIfIdle(x), 0)
     /\ armed' = TRUE
     /\ walking' = TRUE
  \/ /\ ~timer /\ ~paced
     /\ queue' = <<>>
     /\ h' = AtOnce(x, target)
     /\ armed' = FALSE
     /\ walking' = FALSE

(* slip: the queue is emptied but its timer is not cleared                 *)
FlushQueueOnly == queue' = <<>> /\ UNCHANGED <<armed, walking>>

(* preemptAndFlush() leaves walking as it is.                              *)
Flush == queue' = <<>> /\ armed' = FALSE /\ UNCHANGED walking

-----------------------------------------------------------------------------
MayLeave == LeavesEarly \/ inflight = {}

(* Retrieve: the button is disabled while the page shows "running".  An    *)
(* expected denial is animated at once, an expected success awaits its     *)
(* POST.                                                                   *)
Run ==
  /\ shown # "running" /\ MayLeave /\ runs < MaxRuns
  /\ runs' = runs + 1
  /\ inflight' = inflight \cup {[run |-> runs + 1, scenario |-> scenario]}
  /\ \/ Ok(scenario) /\ h' = FreshHook("running") /\ Flush
     \/ /\ ~Ok(scenario)
        /\ Walk([FreshHook("running") EXCEPT
                   !.pending = [kind |-> "error", failStage |-> scenario.failStage]],
                scenario.failStage, FALSE)
  /\ shown' = h'.status /\ seen' = h'.status
  /\ UNCHANGED <<scenario, paced>>

(* slip: the waiting outcome survives a reset                              *)
ResetKeepsOutcome ==
  /\ MayLeave
  /\ h' = [FreshHook("idle") EXCEPT !.pending = h.pending]
  /\ Flush
  /\ shown' = "idle" /\ seen' = "idle"
  /\ UNCHANGED <<scenario, runs, inflight, paced>>

(* reset(): from the Reset button, or Escape at any point in the page.     *)
Reset ==
  /\ MayLeave
  /\ h' = FreshHook("idle")
  /\ Flush
  /\ shown' = "idle" /\ seen' = "idle"
  /\ UNCHANGED <<scenario, runs, inflight, paced>>

(* slip: picking a use case keeps the last result                          *)
SelectKeepsResult(s) ==
  /\ shown # "running" /\ MayLeave /\ s.provider = scenario.provider
  /\ scenario' = s
  /\ h' = [FreshHook("idle") EXCEPT !.result = h.result]
  /\ Flush
  /\ shown' = "idle" /\ seen' = "idle"
  /\ UNCHANGED <<runs, inflight, paced>>

(* Picking a use case resets too; its buttons are disabled like Retrieve.  *)
SelectScenario(s) ==
  /\ shown # "running" /\ MayLeave /\ s.provider = scenario.provider
  /\ scenario' = s
  /\ h' = FreshHook("idle")
  /\ Flush
  /\ shown' = "idle" /\ seen' = "idle"
  /\ UNCHANGED <<runs, inflight, paced>>

SelectPace(p) ==
  /\ paced' = p
  /\ UNCHANGED <<scenario, runs, inflight, h, shown, seen, queue, armed, walking>>

(* slip: the walk goes one stage past the last                             *)
LandWalksTooFar(f, retrieved) ==
  /\ inflight' = inflight \ {f}
  /\ Walk([h EXCEPT !.pending = [kind |-> IF retrieved THEN "done" ELSE "error",
                                failStage |-> IF retrieved THEN -1 ELSE 0]],
          IF retrieved THEN N ELSE 0, armed)
  /\ UNCHANGED <<scenario, runs, shown, seen, paced>>

(* A POST is answered.  The fetch never rejects; it stores its result      *)
(* whatever run is current, and that of an expected success then sets the  *)
(* outcome and walks.                                                      *)
Land(f, retrieved) ==
  LET answer == [run |-> f.run, retrieved |-> retrieved]
      told == [h EXCEPT !.fetchRes = answer, !.result = answer]
      outcome == [kind |-> IF retrieved THEN "done" ELSE "error",
                  failStage |-> IF retrieved THEN -1 ELSE 0]
  IN  /\ inflight' = inflight \ {f}
      /\ \/ ~Ok(f.scenario) /\ h' = told /\ UNCHANGED <<queue, armed, walking>>
         \/ /\ Ok(f.scenario)
            /\ Walk([told EXCEPT !.pending = outcome], IF retrieved THEN N - 1 ELSE 0, armed)
      /\ UNCHANGED <<scenario, runs, shown, seen, paced>>

Lands == \E f \in inflight, retrieved \in BOOLEAN : Land(f, retrieved)

(* The queue's timer fires: drain().                                       *)
Release ==
  /\ armed /\ queue # <<>> /\ paced
  /\ h' = Light(h, Head(queue))
  /\ queue' = Tail(queue)
  /\ UNCHANGED <<scenario, runs, inflight, shown, seen, armed, walking, paced>>

ReleaseAll ==
  /\ armed /\ queue # <<>> /\ ~paced
  /\ \E i \in ToSet(queue) :
       /\ Furthest(i, ToSet(queue))
       /\ h' = IF walking THEN Settle(Light(h, i)) ELSE Light(h, i)
  /\ queue' = <<>> /\ armed' = FALSE /\ walking' = FALSE
  /\ UNCHANGED <<scenario, runs, inflight, shown, seen, paced>>

WalkEnds ==
  /\ armed /\ queue = <<>>
  /\ h' = IF walking THEN Settle(h) ELSE h
  /\ armed' = FALSE /\ walking' = FALSE
  /\ UNCHANGED <<scenario, runs, inflight, shown, seen, queue, paced>>

TimerFires == Release \/ ReleaseAll \/ WalkEnds

(* React commits, once it has run the effect that the last commit owes.    *)
Commit ==
  /\ shown # h.status
  /\ shown' = h.status /\ seen' = shown
  /\ UNCHANGED <<scenario, runs, inflight, h, queue, armed, walking, paced>>

(* The effect copies the committed status into statusRef.                  *)
CopyStatus ==
  /\ seen # shown
  /\ seen' = shown
  /\ UNCHANGED <<scenario, runs, inflight, h, shown, queue, armed, walking, paced>>

Next == \/ Run
        \/ Reset
        \/ \E s \in Scenarios : SelectScenario(s)
        \/ \E p \in PaceChoices : SelectPace(p)
        \/ Lands
        \/ TimerFires
        \/ Commit
        \/ CopyStatus

(* Timers, answers, commits and effects come: the browser's event loop     *)
(* owes them.  The user owes nothing.                                      *)
Fairness ==
  WF_vars(TimerFires) /\ WF_vars(Lands) /\ WF_vars(Commit) /\ WF_vars(CopyStatus)
Spec == Init /\ [][Next]_vars /\ Fairness

-----------------------------------------------------------------------------
Hooks ==
  [status : Status, stage : -1 .. N - 1, completed : 0 .. N,
   result : Answers \cup {NoAnswer}, maxStage : -1 .. N - 1,
   pending : Outcomes \cup {NoOutcome}, fetchRes : Answers \cup {NoAnswer}]

(* Every part of the hook, the queue and the POSTs has its type: no stage *)
(* is lit, counted or queued beyond the provider's last.                   *)
TypeOK ==
  /\ scenario \in Scenarios /\ runs \in 0 .. MaxRuns /\ inflight \subseteq Posts
  /\ h \in Hooks
  /\ shown \in Status /\ seen \in Status
  /\ queue \in Seq(0 .. N - 1)
  /\ armed \in BOOLEAN /\ walking \in BOOLEAN /\ paced \in BOOLEAN

(* An outcome that waits, and a stage that waits, have a timer that will   *)
(* get to them, and the queue will then report "idle": neither a reset nor *)
(* a stray answer strands the walk.                                        *)
WalkBacked == (h.pending # NoOutcome \/ queue # <<>>) => armed /\ walking

(* Within a run the lit stage only moves forward, until the walk settles   *)
(* or the user leaves; also when two walks are queued behind each other.   *)
StageAdvances == [][h'.stage < h.stage => h'.stage = -1 \/ runs' # runs]_vars

(* The gate of the status ref drops no stage that a timer brings to a run  *)
(* in progress: the ref lags behind the status, but not then.  (What drops *)
(* is the first stage of a denial, which run() pushes before the effect.)  *)
StagesLight ==
  [][h.status = "running" /\ TimerFires =>
       \A i \in ToSet(queue) \ ToSet(queue') : h'.maxStage >= i]_vars

(* A run ends: whatever the user and the answers do, the page does not     *)
(* keep saying "running".                                                  *)
RunSettles == h.status = "running" ~> h.status # "running"

(* "The credential outcome comes from a single POST to the provider's API" *)
(* (useResolveEngine.ts:1-2): a run that ends with the secret has had it   *)
(* from its own.                                                           *)
DoneByOwnPost == h.status = "done" => h.result = [run |-> runs, retrieved |-> TRUE]

(* What the page shows is what its own POST said: the data is the answer   *)
(* to this run and to no other, a run that is settled is "done" only with  *)
(* the secret, and "error" of an expected success only without.            *)
OwnAnswer == h.result # NoAnswer => h.result.run = runs /\ h.status # "idle"
OutcomeIsTrue ==
  /\ OwnAnswer
  /\ DoneByOwnPost
  /\ h.status = "error" /\ Ok(scenario) => h.result = [run |-> runs, retrieved |-> FALSE]

(* A page at rest is clean: nothing is lit, queued or about to fire.       *)
IdleIsClean ==
  h.status = "idle" => h = FreshHook("idle") /\ queue = <<>> /\ ~armed

(* "The done/error outcome is applied when the walk settles" (useResolve-  *)
(* Engine.ts:4): a run that settles shows every stage that it passed and   *)
(* none as under way, and no stage is lit over it afterwards.  It is so of *)
(* every walk that has a timer, also when its pace is turned off halfway;  *)
(* a walk that is started with the pace off settles after its first stage. *)
Settled(x) == x.status \in {"done", "error"}
Clean(x) ==
  /\ x.stage = -1
  /\ x.completed = IF x.status = "done" THEN N ELSE IF Ok(scenario) THEN 0 ELSE scenario.failStage
SettledView == [][(armed \/ paced) /\ Settled(h') =>
                    Clean(h') \/ (Settled(h) /\ ~Clean(h))]_vars

(* The engine implements the contract of a resolve, as long as the user    *)
(* waits for the answer of a run before leaving it.                        *)
Contract ==
  INSTANCE ResolveContract WITH
    phase <- h.status,
    answer <- IF h.result = NoAnswer THEN "none"
              ELSE IF h.result.retrieved THEN "granted" ELSE "refused"
KeepsContract == Contract!Spec

=============================================================================
