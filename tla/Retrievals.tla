------------------------------ MODULE Retrievals ------------------------------
(***************************************************************************)
(* The retrievers of internal/retrieve: what Conjur JWT, Conjur IAM and    *)
(* CCP may return, as sets over the answers of the agent and the vaults.   *)
(* The local Credential Provider has a module of its own, CpBridge.        *)
(***************************************************************************)
EXTENDS Integers

(* The four steps of a retriever's lifecycle, as the pages list them.      *)
Lifecycle == 0 .. 3

okSteps == [i \in Lifecycle |-> "ok"]

stepsThrough(failIdx) ==
  [i \in Lifecycle |-> IF i < failIdx THEN "ok" ELSE IF i = failIdx THEN "error" ELSE "pending"]

(* A result that says nothing yet.  failed is the step that really failed, *)
(* which the result tells only through its steps; token, the audience of   *)
(* the compact JWT carried for display.                                    *)
Blank == [retrieved |-> FALSE, simulated |-> FALSE, secret |-> "none", svid |-> "none",
          token |-> "none", steps |-> okSteps, failed |-> -1]

Retrieved(secret) == [Blank EXCEPT !.retrieved = TRUE, !.secret = secret]
FailedAt(step, marked) == [Blank EXCEPT !.failed = step, !.steps = stepsThrough(marked)]
Simulated(result) == [result EXCEPT !.simulated = TRUE]

(* A vault that grants the read may hold an empty value, and a body cut    *)
(* short reads as one.                                                     *)
Granted == {Retrieved("genuine"), Retrieved("empty")}

-----------------------------------------------------------------------------
(* conjurjwt.Retrieve: a token that the agent did not sign is rejected.    *)
(* svids are the outcomes of minting; the result carries what was minted.  *)
ConjurJwt(live, svids) ==
  LET carries(v, r) == [r EXCEPT !.svid = v, !.token = IF v = "none" THEN "none" ELSE "conjur"]
      outcomes(v) ==
        CASE v = "none" -> {FailedAt(0, 0)}
          [] v = "synthetic" -> {FailedAt(1, 1)}
          [] v = "genuine" -> {FailedAt(1, 1), FailedAt(3, 2)} \cup Granted
  IN  IF live THEN UNION {{carries(v, r) : r \in outcomes(v)} : v \in svids}
      ELSE {carries("synthetic", Simulated(Retrieved("sample")))}

(* conjuriam.Retrieve: the client authenticates and reads in one call, of  *)
(* which any failure is marked at the first.                               *)
ConjurIam(live) ==
  IF live THEN {FailedAt(1, 1), FailedAt(3, 1)} \cup Granted
  ELSE {Simulated(Retrieved("sample"))}

(* ccp.Run.  Without its certificate the application is turned away while  *)
(* connecting, or by status; otherwise a status is marked as the refusal   *)
(* of the safe.  A status does not tell which of the two it was.           *)
CcpStep(s) == IF s = "no-cert" THEN 1 ELSE 2

CcpSimulate(s) ==
  Simulated(IF s \in {"no-cert", "denied"} THEN FailedAt(CcpStep(s), CcpStep(s)) ELSE Retrieved("sample"))

Ccp(live, s) ==
  IF ~live THEN {CcpSimulate(s)}
  ELSE {FailedAt(1, 1)} \cup {FailedAt(t, CcpStep(s)) : t \in {1, 2}} \cup Granted

=============================================================================
