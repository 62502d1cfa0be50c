--------------------------- MODULE ResolveContract ---------------------------
(***************************************************************************)
(* What a resolve promises the page (the EngineStatus and result that      *)
(* useResolveEngine.ts returns): a run gets one answer, keeps it, ends as  *)
(* "done" only with the secret, and ends.                                  *)
(***************************************************************************)
VARIABLES phase, answer

Phases == {"idle", "running", "done", "error"}
Verdicts == {"granted", "refused"}

Init == phase = "idle" /\ answer = "none"

Start == phase # "running" /\ phase' = "running" /\ answer' = "none"

Endings(a) == {"error"} \cup IF a = "granted" THEN {"done"} ELSE {}

(* The walk may end together with the arrival of the answer.               *)
Answer ==
  /\ phase # "idle" /\ answer = "none"
  /\ answer' \in Verdicts
  /\ phase' \in {phase} \cup IF phase = "running" THEN Endings(answer') ELSE {}

Finish == phase = "running" /\ phase' \in Endings(answer) /\ UNCHANGED answer

(* A run that is expected to be denied may start and end in one step.      *)
StartDenied == phase # "running" /\ phase' = "error" /\ answer' = "none"

Leave == phase' = "idle" /\ answer' = "none"

Next == Start \/ StartDenied \/ Answer \/ Finish \/ Leave

vars == <<phase, answer>>
Spec == Init /\ [][Next]_vars /\ WF_vars(Finish)
=============================================================================
