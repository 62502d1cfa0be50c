------------------------------ MODULE Inspectors ------------------------------
(***************************************************************************)
(* The views of a run: the three inspectors (visualizations/{Layers,       *)
(* Topology,Trace}Inspector.tsx) and the result region of the portal pane. *)
(* Each derives what it shows on its own from the hook's status, stage,    *)
(* completed and result, and from the tables of the page's provider.       *)
(***************************************************************************)
EXTENDS ResolveEngine, Providers, FiniteSets

Page == scenario.provider
failStage == scenario.failStage
errored == h.status = "error"
Layers == 0 .. LayerCount(Page) - 1

LayerState(idx) ==
  CASE errored /\ idx = failStage -> "rejected"
    [] errored /\ idx > failStage -> "locked"
    [] errored /\ idx < failStage -> "passed"
    [] ~errored /\ h.completed > idx -> "passed"
    [] ~errored /\ h.completed <= idx /\ h.stage = idx -> "active"
    [] OTHER -> "locked"

(* The guards of a node and of a connector are early returns: the first    *)
(* that holds counts, and a lit stage is often counted as completed too.   *)
NodeState(n) ==
  IF errored /\ failStage \in n.failsAt THEN "failed"
  ELSE IF h.completed >= n.doneAfter THEN "done"
  ELSE IF h.stage \in n.stages THEN "active"
  ELSE "locked"

(* The connector into a node, by the first of the node's stages.           *)
LinkState(n) ==
  LET into == CHOOSE i \in n.stages : \A j \in n.stages : i <= j
  IN  IF errored /\ failStage >= 0 /\ into > failStage THEN "locked"
      ELSE IF h.stage = into THEN "active"
      ELSE IF h.completed >= into THEN "done"
      ELSE "locked"

(* The rail beside the layers: how far it is filled, and where its dot is. *)
passedCount == IF errored THEN (IF failStage > 0 THEN failStage ELSE 0) ELSE h.completed
dotPos ==
  CASE errored -> failStage
    [] ~errored /\ h.stage >= 0 -> h.stage
    [] OTHER -> IF h.status = "done" THEN LayerCount(Page) ELSE 0

revealIndex ==
  CASE h.status = "done" -> N - 1
    [] errored -> failStage
    [] h.status = "running" -> IF h.stage > h.completed THEN h.stage ELSE h.completed
    [] OTHER -> -1

(* What the trace tells of the outcome: its last lines depend on the       *)
(* result, and are let through by the status.                              *)
traceTells ==
  LET told == IF h.result.retrieved THEN "success" ELSE "denial"
      at == IF h.result.retrieved THEN successStage(Page) ELSE denyStage(Page, scenario.key)
  IN  IF h.result # NoAnswer /\ h.status \in {"done", "error"} /\ at <= revealIndex THEN told ELSE "nothing"

(* The result region of the portal pane.                                   *)
paneShows ==
  CASE h.status = "idle" -> "hint"
    [] h.status = "running" -> "working"
    [] h.status = "done" -> IF h.result = NoAnswer THEN "empty" ELSE "success"
    [] errored -> "denial"

(* A node of the topology has failed, is done or is active as its layers   *)
(* are, and a connector leads to it as soon as it is any of these; the     *)
(* rail is filled past the layers that were passed, and its dot and the    *)
(* trace have come as far as the layers.                                   *)
StagesAgree ==
  /\ \A n \in Nodes(Page) :
       LET layers == {LayerState(i) : i \in n.stages}
       IN  /\ NodeState(n) = "failed" <=> "rejected" \in layers
           /\ NodeState(n) = "done" <=> layers = {"passed"}
           /\ NodeState(n) = "active" <=> "active" \in layers
           /\ 0 \notin n.stages => (NodeState(n) # "locked" <=> LinkState(n) # "locked")
  /\ passedCount = Cardinality({i \in Layers : LayerState(i) = "passed"})
  /\ \A i \in Layers : LayerState(i) \in {"active", "rejected"} => revealIndex = i /\ dotPos = i

(* The trace tells what the pane shows as soon as the answer is there: of  *)
(* a success and of no other, of a denial where it was to happen.  Left    *)
(* out are an expected success that fails, whose failStage, -1, lets no    *)
(* line through, and a grant where a denial was to be shown: the trace of  *)
(* the Conjur pages, whose denial is at the last stage, would tell of it.  *)
(* Their server never grants one (StoryMatches in module WebServer).       *)
TraceTells ==
  h.result # NoAnswer /\ (h.result.retrieved => Ok(scenario)) =>
    /\ paneShows = "success" <=> traceTells = "success"
    /\ paneShows = "denial" /\ ~Ok(scenario) => traceTells = "denial"
    /\ traceTells = "denial" => paneShows = "denial"

(* The views tell one story of a run, of its stages and of its outcome,    *)
(* though each goes by stage numbers of its own for each provider.         *)
ViewsAgree == StagesAgree /\ TraceTells
=============================================================================
