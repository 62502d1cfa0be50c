------------------------------ MODULE WebServer ------------------------------
(***************************************************************************)
(* The Go program of the web application (cmd/server, internal/handlers).  *)
(* The same program runs in three pods that differ by their settings: the  *)
(* webapp itself, and two probes, the untrusted-app (an identity that the  *)
(* gateway does not list) and the rogue-app (no identity), which the       *)
(* webapp asks over HTTP what became of them.                              *)
(*                                                                         *)
(* A pod settles at boot where its identity and its rows come from, one    *)
(* after the other, while the agent comes and goes.  Requests to the       *)
(* webapp share nothing but those sources and the foreign prober, which    *)
(* has a module of its own, so one at a time is followed.                  *)
(***************************************************************************)
EXTENDS Retrievals, Providers

CONSTANTS
  Deployments,  \* the settings of each pod that exists, as a set of functions
  Registered,   \* pods for which the agent has a registration policy
  AllowListed   \* pods whose identity the database gateway lists

Settings == {"DEMO_MODE", "SOCKET", "ROGUE_MODE", "FOREIGN_CARRIER_ADDR", "CONJUR", "CONJUR_IAM", "CCP",
             "PROBE_URL", "UNTRUSTED_SVID_URL", "UNKNOWN_SVID_URL", "EXPOSE_PROBE_ENDPOINTS"}
Pods == {"webapp", "untrusted-app", "rogue-app"}

ASSUME DeploymentAssumption ==
  \A d \in Deployments : /\ "webapp" \in DOMAIN d /\ DOMAIN d \subseteq Pods
                         /\ \A p \in DOMAIN d : d[p] \subseteq Settings
ASSUME PolicyAssumption == Registered \subseteq Pods /\ AllowListed \subseteq Pods
(* What the manifests make of the three: the rogue-app alone is told to    *)
(* report a refusal, and nothing registers it; the gateway does not list   *)
(* the untrusted-app (k8s/rogue-app.yaml, k8s/untrusted-app.yaml).         *)
ASSUME RolesAssumption ==
  /\ \A d \in Deployments : \A p \in DOMAIN d : "ROGUE_MODE" \in d[p] <=> p = "rogue-app"
  /\ "rogue-app" \notin Registered /\ "untrusted-app" \notin AllowListed

VARIABLES
  env,       \* the deployment: env[p] is what pod p has set
  agent,     \* the Workload API answers
  phase,     \* phase[p]: how far p is in its main()
  fetcher,   \* fetcher[p]: where JWT-SVIDs come from
  database,  \* database[p]: p has a client for the gateway
  ccp,       \* ccp[p]: p has loaded a certificate for the CCP
  job,       \* the identity scenario being answered
  reply      \* the last reply given

vars == <<env, agent, phase, fetcher, database, ccp, job, reply>>
boot == <<phase, fetcher, database, ccp>>

Fetchers == {"none", "fake", "agent", "oneshot"}
NoJob == [page |-> "none", scenario |-> "none", step |-> "none", svid |-> "none"]
IdentityPages == {"swa", "scenarios"}
Keys(page) == {s[1] : s \in Provider(page).scenarios}
NoReply == [page |-> "none", scenario |-> "none", rejection |-> "none", result |-> Blank]

Has(p, setting) == p \in DOMAIN env /\ setting \in env[p]

NoSocket(p) == ~Has(p, "SOCKET")

(* handlers.Config.Demo                                                    *)
Demo(p) == Has(p, "DEMO_MODE") \/ NoSocket(p)

Init ==
  /\ env \in Deployments
  /\ agent \in BOOLEAN
  /\ phase = [p \in Pods |-> "off"]
  /\ fetcher = [p \in Pods |-> "none"]
  /\ database = [p \in Pods |-> FALSE] /\ ccp = [p \in Pods |-> FALSE]
  /\ job = NoJob /\ reply = NoReply

-----------------------------------------------------------------------------
(* main(), which each pod runs on its own.                                 *)

AgentIssues(p) == agent /\ p \in Registered

(* slip: the rogue pod takes the way of the others                         *)
BuildAnyFetcher(p) ==
  /\ p \in DOMAIN env /\ phase[p] = "off"
  /\ \E f \in {"fake", "agent"} :
       /\ f = "agent" => ~Demo(p) /\ AgentIssues(p)
       /\ fetcher' = [fetcher EXCEPT ![p] = f]
  /\ phase' = [phase EXCEPT ![p] = "database"]
  /\ UNCHANGED <<env, agent, database, ccp, job, reply>>

(* slip: DEMO_MODE is not looked at when there is a socket                 *)
BuildFetcherBySocket(p) ==
  /\ p \in DOMAIN env /\ phase[p] = "off"
  /\ \E f \in IF Has(p, "ROGUE_MODE") THEN {"oneshot"}
              ELSE {"fake"} \cup IF ~NoSocket(p) /\ AgentIssues(p) THEN {"agent"} ELSE {} :
       fetcher' = [fetcher EXCEPT ![p] = f]
  /\ phase' = [phase EXCEPT ![p] = "database"]
  /\ UNCHANGED <<env, agent, database, ccp, job, reply>>

(* slip: an agent that cannot be reached leaves the pod without a source   *)
BuildNoFetcher(p) ==
  /\ p \in DOMAIN env /\ phase[p] = "off"
  /\ \E f \in IF Has(p, "ROGUE_MODE") THEN {"oneshot"} ELSE IF Demo(p) THEN {"fake"}
              ELSE {"none"} \cup IF AgentIssues(p) THEN {"agent"} ELSE {} :
       fetcher' = [fetcher EXCEPT ![p] = f]
  /\ phase' = [phase EXCEPT ![p] = "database"]
  /\ UNCHANGED <<env, agent, database, ccp, job, reply>>

(* buildFetcher(): the agent is waited for, then given up for good.        *)
BuildFetcher(p) ==
  /\ p \in DOMAIN env /\ phase[p] = "off"
  /\ \E f \in IF Has(p, "ROGUE_MODE") THEN {"oneshot"}
              ELSE {"fake"} \cup IF ~Demo(p) /\ AgentIssues(p) THEN {"agent"} ELSE {} :
       fetcher' = [fetcher EXCEPT ![p] = f]
  /\ phase' = [phase EXCEPT ![p] = "database"]
  /\ UNCHANGED <<env, agent, database, ccp, job, reply>>

(* buildDB() asks the agent again, on its own; buildCCP() loads the        *)
(* certificate, or leaves the client simulated.                            *)
BuildClients(p) ==
  /\ phase[p] = "database"
  /\ \E d \in {FALSE} \cup {~Demo(p) /\ AgentIssues(p)} : database' = [database EXCEPT ![p] = d]
  /\ \E c \in {FALSE} \cup {~Has(p, "DEMO_MODE") /\ Has(p, "CCP")} : ccp' = [ccp EXCEPT ![p] = c]
  /\ phase' = [phase EXCEPT ![p] = "serving"]
  /\ UNCHANGED <<env, agent, fetcher, job, reply>>

Restart(p) ==
  /\ phase[p] # "off"
  /\ phase' = [phase EXCEPT ![p] = "off"]
  /\ fetcher' = [fetcher EXCEPT ![p] = "none"]
  /\ database' = [database EXCEPT ![p] = FALSE]
  /\ ccp' = [ccp EXCEPT ![p] = FALSE]
  /\ job' = IF p = "webapp" THEN NoJob ELSE job
  /\ UNCHANGED <<env, agent, reply>>

AgentChanges ==
  /\ agent' = ~agent
  /\ UNCHANGED <<env, boot, job, reply>>

-----------------------------------------------------------------------------
(* What a pod gets for itself, and what the webapp hears from another.     *)

selfSVID(p) ==
  CASE fetcher[p] = "fake" -> {"synthetic"}
    [] fetcher[p] \in {"agent", "oneshot"} -> {"none"} \cup IF AgentIssues(p) /\ ~NoSocket(p) THEN {"genuine"} ELSE {}
    [] OTHER -> {"none"}

selfQuery(p) == {"none"} \cup IF database[p] /\ p \in AllowListed THEN {"genuine"} ELSE {}

Answers(p) == phase[p] = "serving" /\ Has(p, "EXPOSE_PROBE_ENDPOINTS")

relaySVID(p) == {"none"} \cup IF Answers(p) THEN selfSVID(p) ELSE {}

probeQuery(p) == {"none"} \cup IF Answers(p) THEN selfQuery(p) ELSE {}

(* The identity that a scenario shows.                                     *)
identity(s) ==
  CASE s = "trusted" -> selfSVID("webapp")
    [] s = "untrusted" ->
         IF Has("webapp", "UNTRUSTED_SVID_URL") THEN relaySVID("untrusted-app")
         ELSE IF Demo("webapp") THEN {"synthetic"} ELSE {"none"}
    [] s = "unknown" -> IF Has("webapp", "UNKNOWN_SVID_URL") THEN relaySVID("rogue-app") ELSE {"none"}
    [] s = "foreign" -> {"none"}

(* The rows that it shows.                                                 *)
rows(s) ==
  CASE s = "trusted" -> IF Demo("webapp") /\ ~database["webapp"] THEN {"sample"} ELSE selfQuery("webapp")
    [] s = "untrusted" ->
         IF Has("webapp", "UNTRUSTED_SVID_URL") /\ Has("webapp", "PROBE_URL") THEN probeQuery("untrusted-app") ELSE {"none"}
    [] OTHER -> {"none"}

(* The rejection of the foreign peer: one that took place, or a staged one.*)
foreignScenario ==
  IF ~Demo("webapp") /\ Has("webapp", "FOREIGN_CARRIER_ADDR") THEN {"real", "none"}
  ELSE IF Demo("webapp") THEN {"staged"} ELSE {"none"}

-----------------------------------------------------------------------------
(* Requests to the webapp.                                                 *)

Ready == phase["webapp"] = "serving" /\ job = NoJob

Says(page, s, rejection, result) ==
  reply' = [page |-> page, scenario |-> s, rejection |-> rejection, result |-> result]

(* handleAPISWA() answers one scenario; handleScenarios() answers each of  *)
(* them, and one is followed.  First the identity, then the rows.          *)
AskSwa(page, s) ==
  /\ Ready
  /\ job' = [page |-> page, scenario |-> s, step |-> "identity", svid |-> "none"]
  /\ reply' = NoReply
  /\ UNCHANGED <<env, agent, boot>>

Identify ==
  /\ job.step = "identity"
  /\ \E v \in identity(job.scenario) : job' = [job EXCEPT !.svid = v, !.step = "rows"]
  /\ UNCHANGED <<env, agent, boot, reply>>

(* Only swaResp says what succeeded and whether it was simulated: the      *)
(* scenariosResponse has no such field.                                    *)
AnswerSwa ==
  /\ job.step = "rows"
  /\ \E r \in rows(job.scenario), f \in IF job.scenario = "foreign" THEN foreignScenario ELSE {"none"} :
       Says(job.page, job.scenario, f,
            [Blank EXCEPT !.simulated = job.page = "swa" /\ Demo("webapp"),
                          !.retrieved = job.page = "swa" /\ job.scenario = "trusted" /\ r # "none",
                          !.secret = r, !.svid = job.svid, !.token = IF job.svid = "none" THEN "none" ELSE "demo"])
  /\ job' = NoJob
  /\ UNCHANGED <<env, agent, boot>>

(* handleSVID() mints for the audience configured, and no other.           *)
Mint(audience) ==
  /\ Ready
  /\ \E v \in IF audience = "demo" THEN selfSVID("webapp") ELSE {"none"} :
       Says("svid", audience, "none",
            [Blank EXCEPT !.svid = v, !.token = IF v = "none" THEN "none" ELSE audience])
  /\ UNCHANGED <<env, agent, boot, job>>

jwtLive == ~Demo("webapp") /\ Has("webapp", "CONJUR")
iamLive == ~Has("webapp", "DEMO_MODE") /\ {"CONJUR", "CONJUR_IAM"} \subseteq env["webapp"]

(* registry.Retrieve(): the page is the mode.                              *)
Retrieve(page, s) ==
  CASE page = "conjur-jwt" -> ConjurJwt(jwtLive, selfSVID("webapp"))
    [] page = "conjur-iam" -> ConjurIam(iamLive)
    [] page = "ccp" -> Ccp(ccp["webapp"], s)

(* slip: the compact JWT stays in the result                               *)
AskRetrieveRaw(page) ==
  /\ Ready
  /\ \E r \in Retrieve(page, "authorized") : Says(page, "authorized", "none", r)
  /\ UNCHANGED <<env, agent, boot, job>>

(* handleRetrieve(): without the compact JWT.                              *)
AskRetrieve(page) ==
  /\ Ready
  /\ \E r \in Retrieve(page, "authorized") : Says(page, "authorized", "none", [r EXCEPT !.token = "none"])
  /\ UNCHANGED <<env, agent, boot, job>>

(* slip: the refusal is told, and the outcome left as it was               *)
AskConjurUnchanged(page, s) ==
  /\ Ready
  /\ \E r \in Retrieve(page, s) : Says(page, s, "none", [r EXCEPT !.token = "none", !.steps = okSteps, !.failed = -1])
  /\ UNCHANGED <<env, agent, boot, job>>

(* handleConjur(): the retrieval is run, and a refusal told over it for    *)
(* the scenarios that are to fail.  The reply has no steps.                *)
AskConjur(page, s) ==
  /\ Ready
  /\ \E r \in Retrieve(page, s) :
       LET told == [r EXCEPT !.token = "none", !.steps = okSteps, !.failed = -1]
       IN  Says(page, s, "none",
                IF s = "authorized" THEN told ELSE [told EXCEPT !.retrieved = FALSE, !.secret = "none"])
  /\ UNCHANGED <<env, agent, boot, job>>

(* handleCCP().                                                            *)
AskCcp(s) ==
  /\ Ready
  /\ \E r \in Retrieve("ccp", s) : Says("ccp", s, "none", r)
  /\ UNCHANGED <<env, agent, boot, job>>

Main(p) == BuildFetcher(p) \/ BuildClients(p) \/ Restart(p)

Next ==
  \/ AgentChanges
  \/ \E p \in Pods : Main(p)
  \/ \E page \in IdentityPages : \E s \in Keys("swa") : AskSwa(page, s)
  \/ Identify \/ AnswerSwa
  \/ \E a \in {"demo", "conjur"} : Mint(a)
  \/ \E page \in {"conjur-jwt", "conjur-iam", "ccp"} : AskRetrieve(page)
  \/ \E page \in {"conjur-jwt", "conjur-iam"} : \E s \in Keys(page) : AskConjur(page, s)
  \/ \E s \in Keys("ccp") : AskCcp(s)

Spec == Init /\ [][Next]_vars

-----------------------------------------------------------------------------
Result == [retrieved : BOOLEAN, simulated : BOOLEAN,
           secret : {"none", "sample", "genuine", "empty"}, svid : {"none", "synthetic", "genuine"},
           token : {"none", "demo", "conjur"}, steps : [Lifecycle -> {"ok", "error", "pending"}],
           failed : -1 .. 3]
r == reply.result

(* Every variable has its type; a pod past its boot has a source of        *)
(* identities (the handlers call it without a look), and one that is off   *)
(* has nothing left of its clients.                                        *)
TypeOK ==
  /\ env \in Deployments /\ agent \in BOOLEAN
  /\ phase \in [Pods -> {"off", "database", "serving"}]
  /\ fetcher \in [Pods -> Fetchers]
  /\ database \in [Pods -> BOOLEAN] /\ ccp \in [Pods -> BOOLEAN]
  /\ \A p \in Pods : phase[p] = "off" <=> fetcher[p] = "none"
  /\ \A p \in Pods : phase[p] # "serving" => ~database[p] /\ ~ccp[p]
  /\ job \in [page : IdentityPages \cup {"none"}, scenario : Keys("swa") \cup {"none"}, step : {"none", "identity", "rows"},
              svid : {"none", "synthetic", "genuine"}]
  /\ reply.result \in Result

(* What a scenario shows is its own workload's: no identity ever for the   *)
(* unknown one, whichever pod was restarted while the agent was gone ("the *)
(* unknown workload must report a REAL refusal - never a synthetic SVID",  *)
(* main.go:350), and rows of the database for the trusted one only: those  *)
(* that the webapp read do not stand in for the probe's.                   *)
UnknownIsRefused == reply.scenario = "unknown" => r.svid = "none"
OnlyTrustedReads == reply.page \in IdentityPages /\ r.secret # "none" => reply.scenario = "trusted"
OwnWorkload == UnknownIsRefused /\ OnlyTrustedReads

(* Sample rows are never shown beside a genuine identity, though fetcher,  *)
(* database client and Demo are settled apart (main.go:80, 354, 375); and  *)
(* where the reply has a mark for what is simulated, it is set.            *)
SampleIsAllSample ==
  reply.page \in IdentityPages /\ r.secret = "sample" =>
    r.svid # "genuine" /\ (reply.page = "swa" => r.simulated)

(* The reply tells the story that the inspector animates (providers.tsx):  *)
(* a denial of the SWA and Conjur pages is never answered with a grant,    *)
(* and what is simulated succeeds in the scenarios that are to succeed,    *)
(* and for the CCP fails at the step of the stage that is shown to fail.   *)
AsAnimated ==
  reply.page \in {"swa", "conjur-jwt", "conjur-iam", "ccp"} =>
    \A s \in Provider(reply.page).scenarios :
      reply.scenario = s[1] =>
        /\ reply.page # "ccp" /\ r.retrieved => s[2] = -1
        /\ r.simulated => (r.retrieved <=> s[2] = -1)
        /\ r.simulated /\ reply.page = "ccp" /\ s[2] # -1 => r.steps[s[2]] = "error"

(* A lifecycle that failed vouches for no step at or after the failure     *)
(* ("the step at failIdx (and beyond) marked failed", conjurjwt.go:263),   *)
(* though of several steps one is marked for another: it may be too early. *)
(* The CCP's status does not tell which step it was about.                 *)
VouchesForNone ==
  r.failed # -1 /\ reply.page # "ccp" => \A k \in Lifecycle : r.steps[k] = "ok" => k < r.failed

(* No reply says more than what happened.                                  *)
StoryMatches == AsAnimated /\ VouchesForNone

(* No response carries a token for the audience of Conjur, by whichever    *)
(* request it was minted (handlers.go:391-395 and 411-414).                *)
ConjurTokenKept == r.token # "conjur"

(* "Simulated: true when no live backend was configured" (types.go:96);    *)
(* "Demo is true when there is no live agent" (handlers.go:49): what was   *)
(* made up is marked as such by the replies that have a mark.              *)
SyntheticIsMarked ==
  r.svid = "synthetic" \/ r.secret = "sample" \/ reply.rejection = "staged" =>
    r.simulated \/ reply.page \in {"svid", "scenarios"}

=============================================================================
