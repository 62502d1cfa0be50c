--------------------------- MODULE WebServerProofs ---------------------------
(***************************************************************************)
(* What the replies of the webapp may say together, for every set of       *)
(* deployments in which the three pods have the roles the manifests give   *)
(* them, and any order of boots, restarts and failures of the agent.       *)
(***************************************************************************)
EXTENDS WebServer, TLAPS

Identities == {"none", "synthetic", "genuine"}

(* A pod that is to report a refusal never takes the way of the others.    *)
RogueAsksOnce == fetcher["rogue-app"] \in {"none", "oneshot"}

(* A demonstration has neither a genuine source nor rows.                  *)
DemoIsMadeUp == Demo("webapp") => fetcher["webapp"] \in {"none", "fake"} /\ ~database["webapp"]

(* What was found for the identity of a scenario that is being answered.   *)
JobIsOwn ==
  /\ job.scenario = "none" <=> job.step = "none"
  /\ job.page = "none" <=> job.step = "none"
  /\ job.scenario = "unknown" => job.svid = "none"
  /\ job.scenario = "trusted" /\ Demo("webapp") => job.svid # "genuine"

ReplyOK == OwnWorkload /\ SampleIsAllSample /\ StoryMatches /\ ConjurTokenKept
IInv == TypeOK /\ RogueAsksOnce /\ DemoIsMadeUp /\ JobIsOwn /\ ReplyOK

-----------------------------------------------------------------------------
(* Results.  A lifecycle that is marked at a step is "ok" before it only.  *)
LEMMA StepsFact ==
  ASSUME NEW m \in Lifecycle
  PROVE  /\ stepsThrough(m) \in [Lifecycle -> {"ok", "error", "pending"}]
         /\ stepsThrough(m)[m] = "error"
         /\ \A k \in Lifecycle : stepsThrough(m)[k] = "ok" => k < m
  <1>1. \A k \in Lifecycle :
          stepsThrough(m)[k] = IF k < m THEN "ok" ELSE IF k = m THEN "error" ELSE "pending"
    BY DEF stepsThrough
  <1>2. ~(m < m)
    BY DEF Lifecycle
  <1>3. stepsThrough(m) \in [Lifecycle -> {"ok", "error", "pending"}]
    BY DEF stepsThrough
  <1> QED BY <1>1, <1>2, <1>3

LEMMA BlankFact ==
  /\ Blank \in Result /\ Blank.failed = -1 /\ Blank.token = "none" /\ Blank.svid = "none"
  /\ Blank.secret = "none" /\ ~Blank.retrieved /\ ~Blank.simulated
  <1>1. okSteps \in [Lifecycle -> {"ok", "error", "pending"}]
    BY DEF okSteps
  <1> QED BY <1>1 DEF Blank, Result

(* A result vouches for no step at or after the one that failed.           *)
Vouches(x) == x.failed # -1 => \A k \in Lifecycle : x.steps[k] = "ok" => k < x.failed

LEMMA FailedFact ==
  ASSUME NEW t \in Lifecycle, NEW m \in Lifecycle
  PROVE  LET x == FailedAt(t, m)
         IN  /\ x \in Result /\ (m <= t => Vouches(x)) /\ x.steps = stepsThrough(m)
             /\ x.token = "none" /\ x.svid = "none" /\ ~x.retrieved /\ ~x.simulated
  <1> DEFINE x == FailedAt(t, m)
  <1>1. t \in -1 .. 3 /\ t # -1
    BY DEF Lifecycle
  <1>2. x = [Blank EXCEPT !.failed = t, !.steps = stepsThrough(m)]
    BY DEF FailedAt
  <1>3. /\ x \in Result /\ x.failed = t /\ x.steps = stepsThrough(m)
        /\ x.token = "none" /\ x.svid = "none" /\ ~x.retrieved /\ ~x.simulated
    <2>1. ASSUME NEW g \in [Lifecycle -> {"ok", "error", "pending"}]
          PROVE  LET y == [Blank EXCEPT !.failed = t, !.steps = g]
                 IN  /\ y \in Result /\ y.failed = t /\ y.steps = g
                     /\ y.token = Blank.token /\ y.svid = Blank.svid
                     /\ y.retrieved = Blank.retrieved /\ y.simulated = Blank.simulated
      BY <1>1, BlankFact DEF Result
    <2>2. stepsThrough(m) \in [Lifecycle -> {"ok", "error", "pending"}]
      BY StepsFact
    <2> HIDE DEF x
    <2> QED BY <1>2, <2>1, <2>2, BlankFact
  <1>4. m <= t => \A k \in Lifecycle : stepsThrough(m)[k] = "ok" => k < t
    BY StepsFact DEF Lifecycle
  <1> QED BY <1>3, <1>4 DEF Vouches

LEMMA RetrievedFact ==
  ASSUME NEW s \in {"genuine", "empty", "sample"}
  PROVE  LET x == Retrieved(s)
         IN  /\ x \in Result /\ x.failed = -1
             /\ x.token = "none" /\ x.svid = "none" /\ x.retrieved /\ ~x.simulated
  BY BlankFact DEF Retrieved, Blank, Result

LEMMA SimulatedFact ==
  ASSUME NEW x \in Result
  PROVE  /\ Simulated(x) \in Result /\ Simulated(x).simulated
         /\ Simulated(x).failed = x.failed /\ Simulated(x).steps = x.steps
         /\ Simulated(x).token = x.token /\ Simulated(x).svid = x.svid
         /\ Simulated(x).retrieved = x.retrieved
  BY DEF Simulated, Result

(* What the two Conjur retrievers may return: what is simulated succeeds.  *)
LEMMA ConjurFact ==
  ASSUME NEW live, NEW svids \in SUBSET Identities,
         NEW x \in ConjurJwt(live, svids) \cup ConjurIam(live)
  PROVE  x \in Result /\ Vouches(x) /\ (x.simulated => x.retrieved)
  <1>1. ASSUME NEW t \in Lifecycle, NEW m \in Lifecycle, m <= t
        PROVE  FailedAt(t, m) \in Result /\ Vouches(FailedAt(t, m)) /\ ~FailedAt(t, m).simulated
    BY <1>1, FailedFact
  <1>2. ASSUME NEW s \in {"genuine", "empty", "sample"}
        PROVE  /\ Retrieved(s) \in Result /\ Vouches(Retrieved(s)) /\ ~Retrieved(s).simulated
               /\ Retrieved(s).retrieved
    BY RetrievedFact DEF Vouches
  <1>3. /\ Simulated(Retrieved("sample")) \in Result /\ Vouches(Simulated(Retrieved("sample")))
        /\ Simulated(Retrieved("sample")).retrieved
    <2>1. Retrieved("sample") \in Result /\ Retrieved("sample").failed = -1 /\ Retrieved("sample").retrieved
      BY RetrievedFact
    <2> QED BY <2>1, SimulatedFact DEF Vouches
  <1>4. 0 \in Lifecycle /\ 1 \in Lifecycle /\ 2 \in Lifecycle /\ 3 \in Lifecycle
    BY DEF Lifecycle
  <1> DEFINE bare == {FailedAt(0, 0), FailedAt(1, 1), FailedAt(3, 2), FailedAt(3, 1)} \cup Granted
                     \cup {Simulated(Retrieved("sample"))}
  <1>5. ASSUME NEW y \in bare
        PROVE  y \in Result /\ Vouches(y) /\ (y.simulated => y.retrieved)
    <2>1. CASE y \in {FailedAt(0, 0), FailedAt(1, 1), FailedAt(3, 2), FailedAt(3, 1)}
      BY <1>1, <1>4, <2>1
    <2>2. CASE y \in Granted
      BY <1>2, <2>2 DEF Granted
    <2>3. CASE y = Simulated(Retrieved("sample"))
      BY <1>3, <2>3
    <2> QED BY <1>5, <2>1, <2>2, <2>3
  <1>6. CASE x \in ConjurIam(live)
    <2>1. x \in bare
      BY <1>6 DEF ConjurIam
    <2> QED BY <1>5, <2>1
  <1>7. CASE x \in ConjurJwt(live, svids)
    <2>1. \E v \in Identities, y \in bare :
            x = [y EXCEPT !.svid = v, !.token = IF v = "none" THEN "none" ELSE "conjur"]
      <3>1. CASE live
        <4>1. PICK v \in svids : x \in {[y EXCEPT !.svid = v, !.token = IF v = "none" THEN "none" ELSE "conjur"] :
                 y \in CASE v = "none" -> {FailedAt(0, 0)}
                         [] v = "synthetic" -> {FailedAt(1, 1)}
                         [] v = "genuine" -> {FailedAt(1, 1), FailedAt(3, 2)} \cup Granted}
          BY <1>7, <3>1 DEF ConjurJwt
        <4>2. v = "none" \/ v = "synthetic" \/ v = "genuine"
          BY DEF Identities
        <4> QED BY <4>1, <4>2 DEF Identities
      <3>2. CASE ~live
        BY <1>7, <3>2 DEF ConjurJwt, Identities
      <3> QED BY <3>1, <3>2
    <2> HIDE DEF bare
    <2>2. PICK v \in Identities, y \in bare :
            x = [y EXCEPT !.svid = v, !.token = IF v = "none" THEN "none" ELSE "conjur"]
      BY <2>1
    <2>3. y \in Result /\ Vouches(y) /\ (y.simulated => y.retrieved)
      BY <1>5
    <2>4. x \in Result
      BY <2>2, <2>3 DEF Result, Identities
    <2>5. x.failed = y.failed /\ x.steps = y.steps /\ x.simulated = y.simulated /\ x.retrieved = y.retrieved
      BY <2>2, <2>3 DEF Result
    <2> QED BY <2>3, <2>4, <2>5 DEF Vouches
  <1> QED BY <1>6, <1>7

(* What the CCP's retriever may return: what is simulated succeeds in the  *)
(* scenarios that are to succeed, and else fails at the step of its stage. *)
LEMMA CcpFact ==
  ASSUME NEW live, NEW s \in {"authorized", "no-cert", "denied", "dual"}, NEW x \in Ccp(live, s)
  PROVE  /\ x \in Result /\ x.token = "none"
         /\ x.simulated => (x.retrieved <=> s \in {"authorized", "dual"})
         /\ x.simulated /\ s = "no-cert" => x.steps[1] = "error"
         /\ x.simulated /\ s = "denied" => x.steps[2] = "error"
  <1>1. 1 \in Lifecycle /\ 2 \in Lifecycle /\ CcpStep(s) \in {1, 2}
    BY DEF Lifecycle, CcpStep
  <1>2. CASE live
    <2>1. x \in {FailedAt(1, 1)} \cup {FailedAt(t, CcpStep(s)) : t \in {1, 2}} \cup Granted
      BY <1>2 DEF Ccp
    <2>2. CASE x \in Granted
      BY <2>2, RetrievedFact DEF Granted
    <2>3. CASE \E t \in {1, 2}, m \in {1, 2} : x = FailedAt(t, m)
      BY <1>1, <2>3, FailedFact
    <2> QED BY <1>1, <2>1, <2>2, <2>3
  <1>3. CASE ~live
    <2>1. x = CcpSimulate(s)
      BY <1>3 DEF Ccp
    <2>2. CASE s \in {"no-cert", "denied"}
      <3>1. x = Simulated(FailedAt(CcpStep(s), CcpStep(s)))
        BY <2>1, <2>2 DEF CcpSimulate
      <3>2. /\ FailedAt(CcpStep(s), CcpStep(s)) \in Result
            /\ FailedAt(CcpStep(s), CcpStep(s)).steps = stepsThrough(CcpStep(s))
            /\ FailedAt(CcpStep(s), CcpStep(s)).token = "none"
            /\ FailedAt(CcpStep(s), CcpStep(s)).retrieved = FALSE
        BY <1>1, FailedFact DEF Result
      <3>3. /\ x \in Result /\ x.token = "none" /\ x.retrieved = FALSE
            /\ x.steps = stepsThrough(CcpStep(s))
        BY <3>1, <3>2, SimulatedFact
      <3>4. x.steps[CcpStep(s)] = "error"
        BY <1>1, <3>3, StepsFact
      <3> QED BY <2>2, <3>3, <3>4 DEF CcpStep
    <2>3. CASE s \notin {"no-cert", "denied"}
      <3>1. x = Simulated(Retrieved("sample"))
        BY <2>1, <2>3 DEF CcpSimulate
      <3> QED BY <2>3, <3>1, RetrievedFact, SimulatedFact DEF Result
    <2> QED BY <2>2, <2>3
  <1> QED BY <1>2, <1>3

-----------------------------------------------------------------------------
(* The scenarios of the pages, with the stage each is to fail at.          *)
LEMMA SwaScenarios ==
  /\ Keys("swa") = {"trusted", "untrusted", "unknown", "foreign"}
  /\ \A k \in Provider("swa").scenarios : k[1] = "trusted" <=> k[2] = -1
  <1>1. Provider("swa").scenarios =
          {<<"trusted", -1>>, <<"untrusted", 4>>, <<"unknown", 2>>, <<"foreign", 3>>}
    BY DEF Provider, swaProvider
  <1>2. \A k \in Provider("swa").scenarios : k[1] = "trusted" <=> k[2] = -1
    BY <1>1
  <1>3. /\ <<"trusted", -1>>[1] = "trusted" /\ <<"untrusted", 4>>[1] = "untrusted"
        /\ <<"unknown", 2>>[1] = "unknown" /\ <<"foreign", 3>>[1] = "foreign"
    OBVIOUS
  <1>4. Keys("swa") = {"trusted", "untrusted", "unknown", "foreign"}
    BY <1>1, <1>3, Zenon DEF Keys
  <1> QED BY <1>2, <1>4

LEMMA ConjurScenarios ==
  ASSUME NEW page \in {"conjur-jwt", "conjur-iam"}
  PROVE  /\ Keys(page) = {"authorized", "invalid", "denied"}
         /\ \A k \in Provider(page).scenarios : k[1] = "authorized" <=> k[2] = -1
  <1>1. \E a, d \in {2, 3, 4, 5} :
          Provider(page).scenarios = {<<"authorized", -1>>, <<"invalid", a>>, <<"denied", d>>}
    BY DEF Provider, makeConjur, authnFail, readStage
  <1>2. PICK a, d \in {2, 3, 4, 5} :
          Provider(page).scenarios = {<<"authorized", -1>>, <<"invalid", a>>, <<"denied", d>>}
    BY <1>1
  <1>3. \A k \in Provider(page).scenarios : k[1] = "authorized" <=> k[2] = -1
    BY <1>2
  <1>4. /\ <<"authorized", -1>>[1] = "authorized"
        /\ <<"invalid", a>>[1] = "invalid" /\ <<"denied", d>>[1] = "denied"
    OBVIOUS
  <1>5. Keys(page) = {"authorized", "invalid", "denied"}
    BY <1>2, <1>4, Zenon DEF Keys
  <1> QED BY <1>3, <1>5

LEMMA CcpScenarios ==
  /\ Keys("ccp") = {"authorized", "no-cert", "denied", "dual"}
  /\ Provider("ccp").scenarios =
       {<<"authorized", -1>>, <<"no-cert", 1>>, <<"denied", 2>>, <<"dual", -1>>}
  <1>1. Provider("ccp").scenarios =
          {<<"authorized", -1>>, <<"no-cert", 1>>, <<"denied", 2>>, <<"dual", -1>>}
    BY DEF Provider, ccpProvider
  <1>2. /\ <<"authorized", -1>>[1] = "authorized" /\ <<"no-cert", 1>>[1] = "no-cert"
        /\ <<"denied", 2>>[1] = "denied" /\ <<"dual", -1>>[1] = "dual"
    OBVIOUS
  <1>3. Keys("ccp") = {"authorized", "no-cert", "denied", "dual"}
    BY <1>1, <1>2, Zenon DEF Keys
  <1> QED BY <1>1, <1>3

(* Replies.  Nothing is claimed before an answer, nor anew without one.    *)
LEMMA NoReplyOK == reply' = NoReply => ReplyOK' /\ reply'.result \in Result
  BY BlankFact DEF NoReply, ReplyOK, OwnWorkload, UnknownIsRefused, OnlyTrustedReads, SampleIsAllSample,
     StoryMatches, AsAnimated, VouchesForNone, ConjurTokenKept, r

LEMMA SameReplyOK == ReplyOK /\ UNCHANGED reply => ReplyOK'
  BY DEF ReplyOK, OwnWorkload, UnknownIsRefused, OnlyTrustedReads, SampleIsAllSample,
     StoryMatches, AsAnimated, VouchesForNone, ConjurTokenKept, r

(* A reply of a Conjur page, from the retrieval or with a refusal told     *)
(* over it.                                                                *)
LEMMA ConjurReplyOK ==
  ASSUME NEW page \in {"conjur-jwt", "conjur-iam"}, NEW s \in {"authorized", "invalid", "denied"},
         NEW x \in Result, Says(page, s, "none", x),
         x.token = "none", Vouches(x), x.retrieved => s = "authorized",
         x.simulated => (x.retrieved <=> s = "authorized")
  PROVE  ReplyOK'
  <1>1. /\ reply'.page = page /\ reply'.scenario = s /\ reply'.result = x
    BY DEF Says
  <1>2. OwnWorkload' /\ SampleIsAllSample' /\ ConjurTokenKept'
    BY <1>1 DEF OwnWorkload, UnknownIsRefused, OnlyTrustedReads, SampleIsAllSample, IdentityPages, ConjurTokenKept, r
  <1>3. VouchesForNone'
    BY <1>1 DEF VouchesForNone, Vouches, r
  <1>4. AsAnimated'
    BY <1>1, ConjurScenarios DEF AsAnimated, r
  <1> QED BY <1>2, <1>3, <1>4 DEF ReplyOK, StoryMatches

LEMMA CcpReplyOK ==
  ASSUME NEW s \in {"authorized", "no-cert", "denied", "dual"},
         NEW x \in Result, Says("ccp", s, "none", x), x.token = "none",
         x.simulated => (x.retrieved <=> s \in {"authorized", "dual"}),
         x.simulated /\ s = "no-cert" => x.steps[1] = "error",
         x.simulated /\ s = "denied" => x.steps[2] = "error"
  PROVE  ReplyOK'
  <1>1. /\ reply'.page = "ccp" /\ reply'.scenario = s /\ reply'.result = x
    BY DEF Says
  <1>2. OwnWorkload' /\ SampleIsAllSample' /\ ConjurTokenKept' /\ VouchesForNone'
    BY <1>1 DEF OwnWorkload, UnknownIsRefused, OnlyTrustedReads, SampleIsAllSample, IdentityPages, ConjurTokenKept,
                VouchesForNone, r
  <1>3. AsAnimated'
    <2> SUFFICES ASSUME NEW k \in Provider("ccp").scenarios, s = k[1], x.simulated
                 PROVE  /\ x.retrieved <=> k[2] = -1
                        /\ k[2] # -1 => x.steps[k[2]] = "error"
      BY <1>1 DEF AsAnimated, r
    <2>1. \/ k[1] = "authorized" /\ k[2] = -1
          \/ k[1] = "no-cert" /\ k[2] = 1
          \/ k[1] = "denied" /\ k[2] = 2
          \/ k[1] = "dual" /\ k[2] = -1
      BY CcpScenarios
    <2> QED BY <2>1
  <1> QED BY <1>2, <1>3 DEF ReplyOK, StoryMatches

(* A reply of the identities page, or of the endpoint of all scenarios.    *)
LEMMA SwaReplyOK ==
  ASSUME NEW page \in IdentityPages,
         NEW s \in {"trusted", "untrusted", "unknown", "foreign"}, NEW f, NEW x \in Result,
         Says(page, s, f, x), x.failed = -1, x.token # "conjur",
         s = "unknown" => x.svid = "none", s # "trusted" => x.secret = "none",
         x.secret = "sample" => x.svid # "genuine" /\ (page = "swa" => x.simulated),
         x.retrieved => s = "trusted", x.simulated => (x.retrieved <=> s = "trusted")
  PROVE  ReplyOK'
  <1>1. /\ reply'.page = page /\ reply'.scenario = s /\ reply'.result = x
    BY DEF Says
  <1>2. OwnWorkload' /\ SampleIsAllSample' /\ ConjurTokenKept' /\ VouchesForNone'
    BY <1>1 DEF OwnWorkload, UnknownIsRefused, OnlyTrustedReads, SampleIsAllSample, ConjurTokenKept,
                VouchesForNone, r
  <1>3. AsAnimated'
    BY <1>1, SwaScenarios DEF AsAnimated, IdentityPages, r
  <1> QED BY <1>2, <1>3 DEF ReplyOK, StoryMatches

-----------------------------------------------------------------------------
(* What the pods answer.                                                   *)
LEMMA PodFacts == "webapp" \in Pods /\ "untrusted-app" \in Pods /\ "rogue-app" \in Pods
  BY DEF Pods

LEMMA SourceFacts ==
  ASSUME TypeOK, RogueAsksOnce, DemoIsMadeUp
  PROVE  /\ \A p \in Pods : selfSVID(p) \subseteq Identities /\ relaySVID(p) \subseteq Identities
         /\ relaySVID("rogue-app") \subseteq {"none"}
         /\ Demo("webapp") => "genuine" \notin selfSVID("webapp")
         /\ probeQuery("untrusted-app") \subseteq {"none"}
         /\ Demo("webapp") => ~database["webapp"]
         /\ selfQuery("webapp") \subseteq {"none", "genuine"}
  <1>1. \A p \in Pods : selfSVID(p) \subseteq Identities
    <2> TAKE p \in Pods
    <2>1. fetcher[p] \in {"none", "fake", "agent", "oneshot"}
      BY DEF TypeOK, Fetchers
    <2> QED BY <2>1 DEF selfSVID, Identities
  <1>2. \A p \in Pods : relaySVID(p) \subseteq Identities
    BY <1>1 DEF relaySVID, Identities
  <1>3. selfSVID("rogue-app") \subseteq {"none"}
    BY RolesAssumption DEF RogueAsksOnce, selfSVID, AgentIssues
  <1>4. relaySVID("rogue-app") \subseteq {"none"}
    BY <1>3 DEF relaySVID
  <1>5. Demo("webapp") => "genuine" \notin selfSVID("webapp")
    BY DEF DemoIsMadeUp, selfSVID
  <1>6. probeQuery("untrusted-app") \subseteq {"none"}
    BY RolesAssumption DEF probeQuery, selfQuery
  <1>7. selfQuery("webapp") \subseteq {"none", "genuine"}
    BY DEF selfQuery
  <1> QED BY <1>1, <1>2, <1>4, <1>5, <1>6, <1>7 DEF DemoIsMadeUp

LEMMA IdentityFacts ==
  ASSUME TypeOK, RogueAsksOnce, DemoIsMadeUp, NEW s \in Keys("swa"), NEW v \in identity(s)
  PROVE  /\ v \in Identities
         /\ s = "unknown" => v = "none"
         /\ s = "trusted" /\ Demo("webapp") => v # "genuine"
  <1>1. s \in {"trusted", "untrusted", "unknown", "foreign"}
    BY SwaScenarios
  <1>3. CASE s = "trusted"
    BY <1>3, SourceFacts, PodFacts DEF identity
  <1>4. CASE s = "untrusted"
    <2>1. identity(s) \subseteq relaySVID("untrusted-app") \cup {"synthetic", "none"}
      BY <1>4 DEF identity
    <2> QED BY <1>4, <2>1, SourceFacts, PodFacts DEF Identities
  <1>5. CASE s = "unknown"
    <2>1. identity(s) \subseteq relaySVID("rogue-app") \cup {"none"}
      BY <1>5 DEF identity
    <2> QED BY <1>5, <2>1, SourceFacts DEF Identities
  <1>6. CASE s = "foreign"
    BY <1>6 DEF identity, Identities
  <1> QED BY <1>1, <1>3, <1>4, <1>5, <1>6

LEMMA RowFacts ==
  ASSUME TypeOK, RogueAsksOnce, DemoIsMadeUp, NEW s \in Keys("swa"), NEW q \in rows(s)
  PROVE  /\ q \in {"none", "sample", "genuine"}
         /\ s # "trusted" => q = "none"
         /\ q = "sample" => Demo("webapp")
         /\ s = "trusted" /\ Demo("webapp") => q = "sample"
  <1>1. s \in {"trusted", "untrusted", "unknown", "foreign"}
    BY SwaScenarios
  <1>2. CASE s = "trusted"
    BY <1>2, SourceFacts DEF rows
  <1>3. CASE s = "untrusted"
    <2>1. rows(s) \subseteq probeQuery("untrusted-app") \cup {"none"}
      BY <1>3 DEF rows
    <2> QED BY <1>3, <2>1, SourceFacts
  <1>4. CASE s = "unknown" \/ s = "foreign"
    BY <1>4 DEF rows
  <1> QED BY <1>1, <1>2, <1>3, <1>4

-----------------------------------------------------------------------------
Booted == TypeOK /\ RogueAsksOnce /\ DemoIsMadeUp /\ JobIsOwn

LEMMA InitInv == Init => IInv
  <1> SUFFICES ASSUME Init PROVE IInv
    OBVIOUS
  <1>1. TypeOK
    BY BlankFact DEF Init, TypeOK, NoJob, NoReply, Fetchers
  <1>2. RogueAsksOnce /\ DemoIsMadeUp /\ JobIsOwn
    BY DEF Init, RogueAsksOnce, DemoIsMadeUp, JobIsOwn, NoJob, Pods
  <1>3. ReplyOK
    BY BlankFact DEF Init, NoReply, ReplyOK, OwnWorkload, UnknownIsRefused, OnlyTrustedReads,
       SampleIsAllSample, StoryMatches, AsAnimated, VouchesForNone, ConjurTokenKept, r
  <1> QED BY <1>1, <1>2, <1>3 DEF IInv

(* Boots, restarts and the agent: no reply is given.                       *)
LEMMA BootKeeps ==
  ASSUME Booted, AgentChanges \/ \E p \in Pods : Main(p)
  PROVE  Booted' /\ UNCHANGED reply
  <1> USE DEF Booted
  <1>0. env' = env /\ reply' = reply /\ (Demo("webapp") <=> Demo("webapp")')
    BY DEF AgentChanges, Main, BuildFetcher, BuildClients, Restart, Demo, Has, NoSocket
  <1>1. CASE AgentChanges
    BY <1>0, <1>1 DEF AgentChanges, boot, TypeOK, RogueAsksOnce, DemoIsMadeUp, JobIsOwn
  <1>2. ASSUME NEW p \in Pods, BuildFetcher(p)  PROVE Booted'
    <2>1. PICK f \in {"oneshot", "fake", "agent"} :
            /\ fetcher' = [fetcher EXCEPT ![p] = f]
            /\ Has(p, "ROGUE_MODE") => f = "oneshot"
            /\ ~Has(p, "ROGUE_MODE") /\ Demo(p) => f = "fake"
      BY <1>2 DEF BuildFetcher
    <2>2. Has(p, "ROGUE_MODE") <=> p = "rogue-app"
      BY <1>2, RolesAssumption DEF BuildFetcher, Has, TypeOK
    <2>3. phase[p] = "off" /\ phase' = [phase EXCEPT ![p] = "database"]
          /\ UNCHANGED <<agent, database, ccp, job>>
      BY <1>2 DEF BuildFetcher
    <2>4. TypeOK'
      BY <1>0, <2>1, <2>3 DEF TypeOK, Fetchers
    <2>5. RogueAsksOnce'
      BY <2>1, <2>2, PodFacts DEF RogueAsksOnce, TypeOK
    <2>6. DemoIsMadeUp'
      BY <1>0, <2>1, <2>2, <2>3, PodFacts DEF DemoIsMadeUp, TypeOK
    <2>7. JobIsOwn'
      BY <1>0, <2>3 DEF JobIsOwn
    <2> QED BY <2>4, <2>5, <2>6, <2>7
  <1>3. ASSUME NEW p \in Pods, BuildClients(p)  PROVE Booted'
    <2>1. PICK d \in {FALSE} \cup {~Demo(p) /\ AgentIssues(p)} : database' = [database EXCEPT ![p] = d]
      BY <1>3 DEF BuildClients
    <2>2. PICK c \in BOOLEAN : ccp' = [ccp EXCEPT ![p] = c]
      BY <1>3 DEF BuildClients
    <2>3. phase[p] = "database" /\ phase' = [phase EXCEPT ![p] = "serving"]
          /\ UNCHANGED <<agent, fetcher, job>>
      BY <1>3 DEF BuildClients
    <2>4. d \in BOOLEAN /\ (Demo(p) => ~d)
      BY <2>1
    <2>5. TypeOK'
      BY <1>0, <2>1, <2>2, <2>3, <2>4 DEF TypeOK
    <2>6. RogueAsksOnce' /\ JobIsOwn'
      BY <1>0, <2>3 DEF RogueAsksOnce, JobIsOwn
    <2>7. DemoIsMadeUp'
      BY <1>0, <2>1, <2>3, <2>4, PodFacts DEF DemoIsMadeUp, TypeOK
    <2> QED BY <2>5, <2>6, <2>7
  <1>4. ASSUME NEW p \in Pods, Restart(p)  PROVE Booted'
    <2>1. TypeOK'
      BY <1>0, <1>4 DEF Restart, TypeOK, NoJob, Fetchers
    <2>2. RogueAsksOnce' /\ DemoIsMadeUp'
      BY <1>0, <1>4, PodFacts DEF Restart, RogueAsksOnce, DemoIsMadeUp, TypeOK
    <2>3. JobIsOwn'
      BY <1>0, <1>4 DEF Restart, JobIsOwn, NoJob
    <2> QED BY <2>1, <2>2, <2>3
  <1> QED BY <1>0, <1>1, <1>2, <1>3, <1>4 DEF Main

(* A request for an identity scenario, in its three steps.                 *)
LEMMA SwaKeeps ==
  ASSUME Booted, ReplyOK,
         (\E page \in IdentityPages : \E s \in Keys("swa") : AskSwa(page, s)) \/ Identify \/ AnswerSwa
  PROVE  Booted' /\ ReplyOK'
  <1> USE DEF Booted
  <1>0. /\ UNCHANGED <<env, agent, phase, fetcher, database, ccp>>
        /\ Demo("webapp")' <=> Demo("webapp")
    BY DEF AskSwa, Identify, AnswerSwa, boot, Demo, Has, NoSocket
  <1>1. RogueAsksOnce' /\ DemoIsMadeUp'
    BY <1>0 DEF RogueAsksOnce, DemoIsMadeUp
  <1>2. ASSUME NEW j \in [page : IdentityPages \cup {"none"}, scenario : Keys("swa") \cup {"none"},
                          step : {"none", "identity", "rows"},
                          svid : Identities],
               job' = j, reply'.result \in Result
        PROVE  TypeOK'
    BY <1>0, <1>2 DEF TypeOK, Identities
  <1>3. ASSUME NEW page \in IdentityPages, NEW s \in Keys("swa"), AskSwa(page, s)
        PROVE Booted' /\ ReplyOK'
    <2>1. job' = [page |-> page, scenario |-> s, step |-> "identity", svid |-> "none"] /\ reply' = NoReply
      BY <1>3 DEF AskSwa
    <2>2. TypeOK' /\ ReplyOK'
      BY <1>2, <2>1, NoReplyOK DEF Identities
    <2>3. s # "none" /\ page # "none"
      BY SwaScenarios DEF IdentityPages
    <2>4. JobIsOwn'
      BY <2>1, <2>3 DEF JobIsOwn
    <2> QED BY <1>1, <2>2, <2>4
  <1>4. CASE Identify
    <2>1. PICK v \in identity(job.scenario) : job' = [job EXCEPT !.svid = v, !.step = "rows"]
      BY <1>4 DEF Identify
    <2>2. /\ job \in [page : IdentityPages \cup {"none"}, scenario : Keys("swa") \cup {"none"},
                          step : {"none", "identity", "rows"},
                      svid : Identities]
          /\ job.scenario # "none" /\ job.page # "none"
      BY <1>4 DEF Identify, JobIsOwn, TypeOK, Identities
    <2>3. job.scenario \in Keys("swa")
      BY <2>2
    <2>4. /\ v \in Identities
          /\ job.scenario = "unknown" => v = "none"
          /\ job.scenario = "trusted" /\ Demo("webapp") => v # "genuine"
      BY <2>1, <2>3, IdentityFacts
    <2>5. /\ job'.page = job.page /\ job'.scenario = job.scenario /\ job'.step = "rows" /\ job'.svid = v
          /\ job' \in [page : IdentityPages \cup {"none"}, scenario : Keys("swa") \cup {"none"},
                          step : {"none", "identity", "rows"},
                       svid : Identities]
      BY <2>1, <2>2, <2>4
    <2>6. reply' = reply
      BY <1>4 DEF Identify
    <2>7. TypeOK' /\ ReplyOK'
      BY <1>2, <2>5, <2>6, SameReplyOK DEF TypeOK
    <2>8. JobIsOwn'
      BY <1>0, <2>2, <2>4, <2>5 DEF JobIsOwn
    <2> QED BY <1>1, <2>7, <2>8
  <1>5. CASE AnswerSwa
    <2> DEFINE Told(q) == [Blank EXCEPT !.simulated = job.page = "swa" /\ Demo("webapp"),
                             !.retrieved = job.page = "swa" /\ job.scenario = "trusted" /\ q # "none", !.secret = q,
                             !.svid = job.svid, !.token = IF job.svid = "none" THEN "none" ELSE "demo"]
    <2>1. PICK q \in rows(job.scenario), f \in IF job.scenario = "foreign" THEN foreignScenario ELSE {"none"} :
            Says(job.page, job.scenario, f, Told(q))
      BY <1>5 DEF AnswerSwa
    <2>2. /\ job.page \in IdentityPages /\ job.scenario \in Keys("swa") /\ job.svid \in Identities
          /\ job.scenario = "unknown" => job.svid = "none"
          /\ job.scenario = "trusted" /\ Demo("webapp") => job.svid # "genuine"
      BY <1>5 DEF AnswerSwa, JobIsOwn, TypeOK, Identities
    <2>3. /\ q \in {"none", "sample", "genuine"}
          /\ job.scenario # "trusted" => q = "none"
          /\ q = "sample" => Demo("webapp")
          /\ job.scenario = "trusted" /\ Demo("webapp") => q = "sample"
      BY <2>1, <2>2, RowFacts
    <2> DEFINE x == Told(q)
    <2>4. Demo("webapp") \in BOOLEAN
      BY DEF Demo
    <2>5. /\ x \in Result /\ x.failed = -1 /\ x.secret = q /\ x.svid = job.svid
          /\ x.token = IF job.svid = "none" THEN "none" ELSE "demo"
          /\ x.simulated = (job.page = "swa" /\ Demo("webapp"))
          /\ x.retrieved = (job.page = "swa" /\ job.scenario = "trusted" /\ q # "none")
      <3>1. /\ (job.page = "swa" /\ job.scenario = "trusted" /\ q # "none") \in BOOLEAN
            /\ (IF job.svid = "none" THEN "none" ELSE "demo") \in {"none", "demo"}
        OBVIOUS
      <3>2. PICK a \in BOOLEAN : a = (job.page = "swa" /\ Demo("webapp"))
        BY <2>4
      <3>3. PICK b \in BOOLEAN : b = (job.page = "swa" /\ job.scenario = "trusted" /\ q # "none")
        BY <3>1
      <3>4. PICK t \in {"none", "demo"} : t = IF job.svid = "none" THEN "none" ELSE "demo"
        BY <3>1
      <3>5. x = [Blank EXCEPT !.simulated = a, !.retrieved = b, !.secret = q, !.svid = job.svid, !.token = t]
        BY <3>2, <3>3, <3>4, Zenon
      <3> HIDE DEF x
      <3>6. /\ x \in Result /\ x.failed = -1 /\ x.secret = q /\ x.svid = job.svid
            /\ x.token = t /\ x.simulated = a /\ x.retrieved = b
        BY <2>2, <2>3, <3>5, BlankFact DEF Result, Identities
      <3> QED BY <3>2, <3>3, <3>4, <3>6, Zenon
    <2> HIDE DEF x
    <2>6. ReplyOK'
      <3>1. Says(job.page, job.scenario, f, x)
        BY <2>1 DEF x
      <3> QED BY <2>2, <2>3, <2>5, <3>1, SwaReplyOK, SwaScenarios
    <2>7. reply'.result = x /\ job' = NoJob
      BY <1>5, <2>1 DEF Says, AnswerSwa, x
    <2>8. TypeOK' /\ JobIsOwn'
      BY <1>2, <2>5, <2>7 DEF NoJob, JobIsOwn, Identities
    <2> QED BY <1>1, <2>6, <2>8
  <1> QED BY <1>3, <1>4, <1>5

(* The requests that are answered in one step.                             *)
LEMMA AnswerKeeps ==
  ASSUME Booted, UNCHANGED <<env, agent, boot, job>>, reply'.result \in Result  PROVE Booted'
  <1>1. Demo("webapp")' <=> Demo("webapp")
    BY DEF Demo, Has, NoSocket
  <1> QED BY <1>1 DEF Booted, boot, TypeOK, RogueAsksOnce, DemoIsMadeUp, JobIsOwn

LEMMA MintKeeps ==
  ASSUME Booted, NEW a \in {"demo", "conjur"}, Mint(a)  PROVE Booted' /\ ReplyOK'
  <1>1. PICK v \in IF a = "demo" THEN selfSVID("webapp") ELSE {"none"} :
          Says("svid", a, "none", [Blank EXCEPT !.svid = v, !.token = IF v = "none" THEN "none" ELSE a])
    BY DEF Mint
  <1>2. v \in Identities /\ (v # "none" => a = "demo")
    BY <1>1, SourceFacts, PodFacts DEF Booted, Identities
  <1> DEFINE x == [Blank EXCEPT !.svid = v, !.token = IF v = "none" THEN "none" ELSE a]
  <1>3. /\ x \in Result /\ x.failed = -1 /\ x.secret = "none" /\ x.token # "conjur"
        /\ ~x.retrieved /\ ~x.simulated
    BY <1>2, BlankFact DEF Result, Identities
  <1>4. reply'.page = "svid" /\ reply'.scenario = a /\ reply'.result = x
    BY <1>1 DEF Says
  <1> HIDE DEF x
  <1>5. Booted'
    BY <1>3, <1>4, AnswerKeeps DEF Mint
  <1>6. ReplyOK'
    BY <1>3, <1>4 DEF ReplyOK, OwnWorkload, UnknownIsRefused, OnlyTrustedReads, SampleIsAllSample,
                      StoryMatches, AsAnimated, VouchesForNone, ConjurTokenKept, r
  <1> QED BY <1>5, <1>6

(* What a page makes of a Conjur result: without the token, or with the    *)
(* whole lifecycle taken out and a refusal told.                           *)
LEMMA ConjurKeeps ==
  ASSUME Booted, NEW page \in {"conjur-jwt", "conjur-iam"}, NEW s \in Keys(page),
         AskRetrieve(page) \/ AskConjur(page, s)
  PROVE  Booted' /\ ReplyOK'
  <1>1. s \in {"authorized", "invalid", "denied"}
    BY ConjurScenarios
  <1>2. ASSUME NEW u, NEW y \in Retrieve(page, u)
        PROVE  y \in Result /\ Vouches(y) /\ (y.simulated => y.retrieved)
    <2>1. selfSVID("webapp") \in SUBSET Identities
      BY SourceFacts, PodFacts DEF Booted
    <2>2. CASE page = "conjur-jwt"
      <3>1. y \in ConjurJwt(jwtLive, selfSVID("webapp"))
        BY <1>2, <2>2 DEF Retrieve
      <3> QED BY <2>1, <3>1, ConjurFact
    <2>3. CASE page = "conjur-iam"
      <3>1. y \in ConjurIam(iamLive)
        BY <1>2, <2>3 DEF Retrieve
      <3> QED BY <2>1, <3>1, ConjurFact
    <2> QED BY <2>2, <2>3
  <1>3. CASE AskRetrieve(page)
    <2>1. PICK y \in Retrieve(page, "authorized") : Says(page, "authorized", "none", [y EXCEPT !.token = "none"])
      BY <1>3 DEF AskRetrieve
    <2> DEFINE x == [y EXCEPT !.token = "none"]
    <2>2. y \in Result /\ Vouches(y) /\ (y.simulated => y.retrieved)
      BY <1>2
    <2>3. /\ x \in Result /\ x.token = "none" /\ x.failed = y.failed /\ x.steps = y.steps
          /\ x.simulated = y.simulated /\ x.retrieved = y.retrieved
      BY <2>2 DEF Result
    <2>4. Vouches(x)
      BY <2>2, <2>3 DEF Vouches
    <2> HIDE DEF x
    <2>5. Says(page, "authorized", "none", x)
      BY <2>1 DEF x
    <2>6. ReplyOK'
      BY <2>2, <2>3, <2>4, <2>5, ConjurReplyOK
    <2>7. Booted'
      BY <1>3, <2>3, <2>5, AnswerKeeps DEF AskRetrieve, Says
    <2> QED BY <2>6, <2>7
  <1>4. CASE AskConjur(page, s)
    <2>1. PICK y \in Retrieve(page, s) :
            LET told == [y EXCEPT !.token = "none", !.steps = okSteps, !.failed = -1]
            IN  Says(page, s, "none",
                     IF s = "authorized" THEN told ELSE [told EXCEPT !.retrieved = FALSE, !.secret = "none"])
      BY <1>4 DEF AskConjur
    <2> DEFINE told == [y EXCEPT !.token = "none", !.steps = okSteps, !.failed = -1]
               x == IF s = "authorized" THEN told ELSE [told EXCEPT !.retrieved = FALSE, !.secret = "none"]
    <2>2. y \in Result /\ (y.simulated => y.retrieved)
      BY <1>2
    <2>3. okSteps \in [Lifecycle -> {"ok", "error", "pending"}]
      BY DEF okSteps
    <2>4. /\ told \in Result /\ told.token = "none" /\ told.failed = -1
          /\ told.simulated = y.simulated /\ told.retrieved = y.retrieved
      <3>1. ASSUME NEW g \in [Lifecycle -> {"ok", "error", "pending"}], NEW n \in -1 .. 3
            PROVE  LET z == [y EXCEPT !.token = "none", !.steps = g, !.failed = n]
                   IN  /\ z \in Result /\ z.token = "none" /\ z.failed = n
                       /\ z.simulated = y.simulated /\ z.retrieved = y.retrieved
        BY <2>2 DEF Result
      <3>2. -1 \in -1 .. 3
        OBVIOUS
      <3> QED BY <2>3, <3>1, <3>2, Zenon
    <2> HIDE DEF told
    <2>5. /\ x \in Result /\ x.token = "none" /\ x.failed = -1 /\ x.simulated = y.simulated
          /\ s = "authorized" => x.retrieved = y.retrieved
          /\ s # "authorized" => x.retrieved = FALSE
      BY <2>4 DEF Result
    <2>6. Says(page, s, "none", x)
      BY <2>1 DEF told
    <2> HIDE DEF x
    <2>7. Vouches(x)
      BY <2>5 DEF Vouches
    <2>8. ReplyOK'
      BY <1>1, <2>2, <2>5, <2>6, <2>7, ConjurReplyOK
    <2>9. Booted'
      BY <1>4, <2>5, <2>6, AnswerKeeps DEF AskConjur, Says
    <2> QED BY <2>8, <2>9
  <1> QED BY <1>3, <1>4

LEMMA CcpKeeps ==
  ASSUME Booted, NEW s \in Keys("ccp"), AskCcp(s) \/ AskRetrieve("ccp")
  PROVE  Booted' /\ ReplyOK'
  <1>1. s \in {"authorized", "no-cert", "denied", "dual"}
    BY CcpScenarios
  <1>3. \A u : Retrieve("ccp", u) = Ccp(ccp["webapp"], u)
    BY DEF Retrieve
  <1>4. CASE AskCcp(s)
    <2>1. PICK x \in Ccp(ccp["webapp"], s) : Says("ccp", s, "none", x)
      BY <1>3, <1>4 DEF AskCcp
    <2>2. ReplyOK' /\ x \in Result
      BY <1>1, <2>1, CcpFact, CcpReplyOK
    <2>3. Booted'
      BY <1>4, <2>1, <2>2, AnswerKeeps DEF AskCcp, Says
    <2> QED BY <2>2, <2>3
  <1>5. CASE AskRetrieve("ccp")
    <2>1. PICK y \in Ccp(ccp["webapp"], "authorized") :
            Says("ccp", "authorized", "none", [y EXCEPT !.token = "none"])
      BY <1>3, <1>5 DEF AskRetrieve
    <2>2. /\ y \in Result
          /\ y.simulated => y.retrieved
      BY CcpFact
    <2> DEFINE x == [y EXCEPT !.token = "none"]
    <2>3. x \in Result /\ x.token = "none" /\ x.simulated = y.simulated /\ x.retrieved = y.retrieved
      BY <2>2 DEF Result
    <2>4. Says("ccp", "authorized", "none", x)
      BY <2>1
    <2> HIDE DEF x
    <2>5. ReplyOK'
      BY <2>2, <2>3, <2>4, CcpReplyOK
    <2>6. Booted'
      BY <1>5, <2>3, <2>4, AnswerKeeps DEF AskRetrieve, Says
    <2> QED BY <2>5, <2>6
  <1> QED BY <1>4, <1>5

LEMMA NextInv == IInv /\ [Next]_vars => IInv'
  <1> SUFFICES ASSUME Booted, ReplyOK, [Next]_vars PROVE Booted' /\ ReplyOK'
    BY DEF IInv, Booted
  <1>1. CASE UNCHANGED vars
    <2>1. ReplyOK'
      BY <1>1, SameReplyOK DEF vars
    <2>2. UNCHANGED <<env, agent, boot, job>> /\ reply' = reply
      BY <1>1 DEF vars, boot
    <2>3. reply'.result \in Result
      BY <2>2 DEF Booted, TypeOK
    <2>4. Booted'
      BY <2>2, <2>3, AnswerKeeps
    <2> QED BY <2>1, <2>4
  <1>2. CASE AgentChanges \/ \E p \in Pods : Main(p)
    BY <1>2, BootKeeps, SameReplyOK
  <1>3. CASE (\E page \in IdentityPages : \E s \in Keys("swa") : AskSwa(page, s)) \/ Identify \/ AnswerSwa
    BY <1>3, SwaKeeps
  <1>4. ASSUME NEW a \in {"demo", "conjur"}, Mint(a)  PROVE Booted' /\ ReplyOK'
    BY <1>4, MintKeeps
  <1>5. ASSUME NEW page \in {"conjur-jwt", "conjur-iam", "ccp"}, AskRetrieve(page)
        PROVE  Booted' /\ ReplyOK'
    <2>1. CASE page = "ccp"
      <3>1. "authorized" \in Keys("ccp")
        BY CcpScenarios
      <3> QED BY <1>5, <2>1, <3>1, CcpKeeps
    <2>2. CASE page # "ccp"
      <3>1. page \in {"conjur-jwt", "conjur-iam"} /\ "authorized" \in Keys(page)
        BY <2>2, ConjurScenarios
      <3> QED BY <1>5, <3>1, ConjurKeeps
    <2> QED BY <2>1, <2>2
  <1>6. ASSUME NEW page \in {"conjur-jwt", "conjur-iam"}, NEW s \in Keys(page), AskConjur(page, s)
        PROVE  Booted' /\ ReplyOK'
    BY <1>6, ConjurKeeps
  <1>7. ASSUME NEW s \in Keys("ccp"), AskCcp(s)  PROVE Booted' /\ ReplyOK'
    BY <1>7, CcpKeeps
  <1> QED BY <1>1, <1>2, <1>3, <1>4, <1>5, <1>6, <1>7 DEF Next

THEOREM Invariance == Spec => []IInv
  BY InitInv, NextInv, PTL DEF Spec

(* Pods, clients, jobs and results stay in their types, and a pod that is  *)
(* off has nothing left of its clients.                                    *)
THEOREM TypeCorrect == Spec => []TypeOK
  BY Invariance, PTL DEF IInv

(* No identity is ever told of the unknown workload, and rows of no        *)
(* workload but the trusted one, whichever pod boots while the agent is    *)
(* away and whatever the webapp itself could read.                         *)
THEOREM OwnWorkloadOnly == Spec => []OwnWorkload
  BY Invariance, PTL DEF IInv, ReplyOK

(* Sample rows never stand beside a genuine identity, and are marked where *)
(* the reply has a mark, for every deployment (SampleIsAllSample).         *)
THEOREM SamplesStayApart == Spec => []SampleIsAllSample
  BY Invariance, PTL DEF IInv, ReplyOK

(* A reply succeeds only in a scenario that is to succeed, a simulation    *)
(* fails at the stage that is animated, and no lifecycle vouches for a     *)
(* step at or after the one that failed.                                   *)
THEOREM StoryIsTold == Spec => []StoryMatches
  BY Invariance, PTL DEF IInv, ReplyOK

(* By no request is a token for Conjur put into a response.                *)
THEOREM TokenStaysInside == Spec => []ConjurTokenKept
  BY Invariance, PTL DEF IInv, ReplyOK

=============================================================================
