------------------------- MODULE ResolveEngineProofs -------------------------
(***************************************************************************)
(* What the retrieval engine guarantees for every set of scenarios, any    *)
(* number of stages, runs and answers, and every user; and, in the last    *)
(* part, what the views of a run guarantee on the pages of the portal.     *)
(***************************************************************************)
EXTENDS Inspectors, SeqFacts, FiniteSetTheorems

(* The queue's timer is set only in a walk.                                *)
ArmedWalks == armed => walking

(* The lit stage is not beyond the furthest.                               *)
LitIsReached == h.stage <= h.maxStage

(* What is shown is what was fetched.                                      *)
ShownIsFetched == h.result = h.fetchRes

IInv == TypeOK /\ WalkBacked /\ ArmedWalks /\ LitIsReached /\ ShownIsFetched

Forward == h'.stage < h.stage => h'.stage = -1 \/ runs' # runs

-----------------------------------------------------------------------------
(* The page has at least one stage, and a scenario fails at one of them.   *)
LEMMA StagesFact ==
  ASSUME TypeOK
  PROVE  /\ N \in Nat \ {0}
         /\ scenario.failStage \in -1 .. N - 1
  BY StagesAssumption, ScenarioAssumption DEF TypeOK, N

(* What the callbacks of the queue do to a hook.                           *)
LEMMA LightKeeps ==
  ASSUME N \in Nat \ {0}, NEW x \in Hooks, NEW i \in 0 .. N - 1, x.stage <= x.maxStage
  PROVE  /\ Light(x, i) \in Hooks
         /\ Light(x, i).stage <= Light(x, i).maxStage
         /\ Light(x, i).stage = x.stage \/ Light(x, i).stage > x.maxStage
         /\ seen # "running" => Light(x, i).stage = x.stage
         /\ Light(x, i).maxStage >= x.maxStage
         /\ Light(x, i).pending = x.pending
         /\ Light(x, i).status = x.status
         /\ Light(x, i).result = x.result
         /\ Light(x, i).fetchRes = x.fetchRes
  <1>1. CASE seen = "running" /\ i > x.maxStage
    <2>1. Light(x, i) = [x EXCEPT !.maxStage = i, !.stage = i, !.completed = i]
      BY <1>1 DEF Light
    <2>2. i \in -1 .. N - 1 /\ i \in 0 .. N
      OBVIOUS
    <2>3. Light(x, i) \in Hooks
      BY <2>1, <2>2 DEF Hooks
    <2>4. x.stage \in -1 .. N - 1 /\ x.maxStage \in -1 .. N - 1
      BY DEF Hooks
    <2> QED BY <1>1, <2>1, <2>3, <2>4 DEF Hooks
  <1>2. CASE ~(seen = "running" /\ i > x.maxStage)
    <2>1. Light(x, i) = x
      BY <1>2 DEF Light
    <2>2. x.maxStage \in -1 .. N - 1
      BY DEF Hooks
    <2> QED BY <2>1, <2>2
  <1> QED BY <1>1, <1>2

LEMMA WakeKeeps ==
  ASSUME NEW x \in Hooks, NEW y, y \in {Wake(x), WakeIfIdle(x)}
  PROVE  /\ y \in Hooks
         /\ y.status \in {x.status, "running"}
         /\ x.status \in {"done", "error"} => y.status = x.status
         /\ y.stage = x.stage /\ y.maxStage = x.maxStage
         /\ y.pending = x.pending /\ y.result = x.result /\ y.fetchRes = x.fetchRes
  BY DEF Wake, WakeIfIdle, Hooks, Status

LEMMA SettleKeeps ==
  ASSUME N \in Nat \ {0}, NEW x \in Hooks, x.stage <= x.maxStage
  PROVE  /\ Settle(x) \in Hooks
         /\ Settle(x).pending = NoOutcome
         /\ Settle(x).stage <= Settle(x).maxStage
         /\ Settle(x).stage \in {x.stage, -1}
         /\ x.pending # NoOutcome => Settle(x).stage = -1
         /\ Settle(x).maxStage = x.maxStage
         /\ Settle(x).fetchRes = x.fetchRes
         /\ Settle(x).result = IF x.pending = NoOutcome \/ x.fetchRes = NoAnswer
                                 THEN x.result ELSE x.fetchRes
         /\ Settle(x).status = IF x.pending = NoOutcome THEN x.status ELSE x.pending.kind
  <1>1. CASE x.pending = NoOutcome
    BY <1>1 DEF Settle, Hooks
  <1>2. CASE x.pending # NoOutcome
    <2>1. /\ x.pending \in Outcomes
          /\ x.pending.kind \in {"done", "error"} /\ x.pending.failStage \in -1 .. N - 1
      BY <1>2 DEF Hooks, Outcomes
    <2>2. x.pending.kind \in Status
      BY <2>1 DEF Status
    <2> DEFINE s == Settle(x)
    <2>3. s = [x EXCEPT !.pending = NoOutcome, !.stage = -1,
                 !.result = IF x.fetchRes = NoAnswer THEN @ ELSE x.fetchRes,
                 !.completed = IF x.pending.kind = "done" THEN N
                               ELSE IF x.pending.failStage > 0 THEN x.pending.failStage ELSE 0,
                 !.status = x.pending.kind]
      BY <1>2 DEF Settle
    <2> DEFINE told == IF x.fetchRes = NoAnswer THEN x.result ELSE x.fetchRes
               passed == IF x.pending.kind = "done" THEN N
                         ELSE IF x.pending.failStage > 0 THEN x.pending.failStage ELSE 0
    <2>6. told \in Answers \cup {NoAnswer}
      BY DEF Hooks
    <2>7. passed \in 0 .. N /\ -1 \in -1 .. N - 1
      BY <2>1
    <2>8. s = [x EXCEPT !.pending = NoOutcome, !.stage = -1, !.result = told,
                        !.completed = passed, !.status = x.pending.kind]
      BY <2>3
    <2> HIDE DEF s, told, passed
    <2>4. s \in Hooks
      BY <2>2, <2>6, <2>7, <2>8 DEF Hooks
    <2> USE DEF s, told
    <2>5. x.maxStage \in -1 .. N - 1
      BY DEF Hooks
    <2> QED BY <1>2, <2>3, <2>4, <2>5 DEF Hooks
  <1> QED BY <1>1, <1>2

(* A walk with the pace off settles the outcome that waits.                *)
LEMMA AtOnceKeeps ==
  ASSUME N \in Nat \ {0}, NEW x \in Hooks, NEW target \in 0 .. N - 1,
         x.stage <= x.maxStage, x.pending # NoOutcome
  PROVE  /\ AtOnce(x, target) \in Hooks
         /\ AtOnce(x, target).stage <= AtOnce(x, target).maxStage
         /\ AtOnce(x, target).stage = -1 \/ AtOnce(x, target).stage > x.maxStage
         /\ seen # "running" => AtOnce(x, target).stage = -1
         /\ AtOnce(x, target).pending = NoOutcome
         /\ AtOnce(x, target).status = x.pending.kind
         /\ AtOnce(x, target).fetchRes = x.fetchRes
         /\ AtOnce(x, target).result = IF x.fetchRes = NoAnswer THEN x.result ELSE x.fetchRes
  <1> DEFINE woken == WakeIfIdle(x)
             lit == Light(woken, 0)
             first == Settle(lit)
             again == Wake(first)
             last == Light(again, target)
  <1>1. /\ woken \in Hooks /\ woken.stage = x.stage /\ woken.maxStage = x.maxStage
        /\ woken.pending = x.pending /\ woken.result = x.result /\ woken.fetchRes = x.fetchRes
    BY WakeKeeps
  <1>2. /\ lit \in Hooks /\ lit.stage <= lit.maxStage /\ lit.maxStage >= x.maxStage
        /\ lit.pending = x.pending /\ lit.result = x.result /\ lit.fetchRes = x.fetchRes
    <2> HIDE DEF woken
    <2>1. 0 \in 0 .. N - 1
      OBVIOUS
    <2> QED BY <1>1, <2>1, LightKeeps
  <1>3. /\ first \in Hooks /\ first.stage = -1 /\ first.stage <= first.maxStage
        /\ first.maxStage = lit.maxStage /\ first.pending = NoOutcome
        /\ first.status = x.pending.kind /\ first.fetchRes = x.fetchRes
        /\ first.result = IF x.fetchRes = NoAnswer THEN x.result ELSE x.fetchRes
    <2> HIDE DEF lit
    <2> QED BY <1>2, SettleKeeps
  <1>4. first.status \in {"done", "error"}
    BY <1>3 DEF Hooks, Outcomes
  <1>5. /\ again \in Hooks /\ again.stage = -1 /\ again.maxStage = first.maxStage
        /\ again.pending = NoOutcome /\ again.status = first.status
        /\ again.result = first.result /\ again.fetchRes = first.fetchRes
    <2> HIDE DEF first
    <2> QED BY <1>3, <1>4, WakeKeeps
  <1>6. /\ last \in Hooks /\ last.stage <= last.maxStage
        /\ last.stage = -1 \/ last.stage > again.maxStage
        /\ seen # "running" => last.stage = -1
        /\ last.pending = NoOutcome /\ last.status = first.status
        /\ last.result = first.result /\ last.fetchRes = first.fetchRes
    <2> HIDE DEF again, first
    <2> QED BY <1>3, <1>5, LightKeeps
  <1>7. AtOnce(x, target) \in {first, last}
    BY DEF AtOnce
  <1>8. x.maxStage \in Int /\ lit.maxStage \in Int /\ last.stage \in Int
    <2> HIDE DEF lit, last
    <2> QED BY <1>2, <1>6 DEF Hooks
  <1> HIDE DEF lit, first, again, last
  <1> QED BY <1>2, <1>3, <1>5, <1>6, <1>7, <1>8

(* A walk keeps what is to be kept, or settles the outcome at once.        *)
LEMMA WalkKeeps ==
  ASSUME N \in Nat \ {0}, NEW x \in Hooks, NEW target \in 0 .. N - 1, NEW timer \in BOOLEAN,
         x.stage <= x.maxStage, x.pending # NoOutcome,
         queue \in Seq(0 .. N - 1), walking \in BOOLEAN, timer => walking,
         Walk(x, target, timer)
  PROVE  /\ h' \in Hooks /\ queue' \in Seq(0 .. N - 1)
         /\ armed' \in BOOLEAN /\ walking' \in BOOLEAN
         /\ armed' => walking'
         /\ h'.pending # NoOutcome \/ queue' # <<>> => armed'
         /\ h'.stage <= h'.maxStage
         /\ h'.stage = x.stage \/ h'.stage = -1 \/ h'.stage > x.maxStage
         /\ seen # "running" => h'.stage \in {x.stage, -1}
         /\ h'.fetchRes = x.fetchRes
         /\ h'.result = x.result \/ h'.result = x.fetchRes
         /\ \/ h'.pending = x.pending /\ (x.status = "running" => h'.status = "running")
            \/ h'.pending = NoOutcome /\ h'.status = x.pending.kind
  <1>1. CASE timer
    <2>1. /\ queue' = queue \o [i \in 1 .. target + 1 |-> i - 1]
          /\ h' = x /\ armed' = TRUE /\ walking' = walking
      BY <1>1 DEF Walk
    <2>2. [i \in 1 .. target + 1 |-> i - 1] \in Seq(0 .. N - 1)
      <3>1. \A i \in 1 .. target + 1 : i - 1 \in 0 .. N - 1
        OBVIOUS
      <3> QED BY <3>1
    <2>3. queue' \in Seq(0 .. N - 1)
      BY <2>1, <2>2, ConcatType
    <2> QED BY <1>1, <2>1, <2>3
  <1>2. CASE ~timer /\ paced
    <2>1. /\ queue' = [i \in 1 .. target |-> i]
          /\ h' = Light(WakeIfIdle(x), 0) /\ armed' = TRUE /\ walking' = TRUE
      BY <1>2 DEF Walk
    <2>2. queue' \in Seq(0 .. N - 1)
      <3>1. \A i \in 1 .. target : i \in 0 .. N - 1
        OBVIOUS
      <3> QED BY <2>1, <3>1
    <2> DEFINE woken == WakeIfIdle(x)
    <2>3. /\ woken \in Hooks /\ woken.stage = x.stage /\ woken.maxStage = x.maxStage
          /\ woken.status \in {x.status, "running"}
          /\ woken.pending = x.pending /\ woken.result = x.result /\ woken.fetchRes = x.fetchRes
      BY WakeKeeps
    <2>4. 0 \in 0 .. N - 1
      OBVIOUS
    <2>5. h' = Light(woken, 0)
      BY <2>1
    <2> HIDE DEF woken
    <2>6. /\ h' \in Hooks /\ h'.stage <= h'.maxStage
          /\ h'.stage = x.stage \/ h'.stage > x.maxStage
          /\ seen # "running" => h'.stage = x.stage
          /\ h'.pending = x.pending /\ h'.status = woken.status
          /\ h'.result = x.result /\ h'.fetchRes = x.fetchRes
      BY <2>3, <2>4, <2>5, LightKeeps
    <2> QED BY <2>1, <2>2, <2>3, <2>6
  <1>3. CASE ~timer /\ ~paced
    <2>1. queue' = <<>> /\ h' = AtOnce(x, target) /\ armed' = FALSE /\ walking' = FALSE
      BY <1>3 DEF Walk
    <2>2. /\ h' \in Hooks /\ h'.stage <= h'.maxStage
          /\ h'.stage = -1 \/ h'.stage > x.maxStage
          /\ seen # "running" => h'.stage = -1
          /\ h'.pending = NoOutcome /\ h'.status = x.pending.kind
          /\ h'.fetchRes = x.fetchRes
          /\ h'.result = IF x.fetchRes = NoAnswer THEN x.result ELSE x.fetchRes
      BY <2>1, AtOnceKeeps
    <2>3. <<>> \in Seq(0 .. N - 1)
      OBVIOUS
    <2> QED BY <2>1, <2>2, <2>3
  <1> QED BY <1>1, <1>2, <1>3 DEF Walk

-----------------------------------------------------------------------------
(* The steps of the engine, one lemma for each.                            *)

(* A hook just reset has nothing to show.                                  *)
LEMMA FreshFact ==
  ASSUME N \in Nat \ {0}, NEW status \in Status
  PROVE  /\ FreshHook(status) \in Hooks
         /\ FreshHook(status).pending = NoOutcome /\ FreshHook(status).stage = -1
         /\ FreshHook(status).maxStage = -1 /\ FreshHook(status).status = status
         /\ FreshHook(status).result = NoAnswer /\ FreshHook(status).fetchRes = NoAnswer
  BY DEF FreshHook, Hooks

(* A step that leaves the provider keeps the types of its hooks.           *)
LEMMA SamePage ==
  ASSUME scenario'.provider = scenario.provider
  PROVE  N' = N /\ Hooks' = Hooks
  BY DEF N, Hooks, Outcomes, Answers, NoAnswer, NoOutcome, Status

(* What a step has to show for TypeOK to stay.                             *)
LEMMA TypeStays ==
  ASSUME TypeOK, scenario' \in Scenarios, scenario'.provider = scenario.provider,
         runs' \in 0 .. MaxRuns, inflight' \subseteq Posts, h' \in Hooks,
         shown' \in Status, seen' \in Status,
         queue' \in Seq(0 .. N - 1),
         armed' \in BOOLEAN, walking' \in BOOLEAN, paced' \in BOOLEAN
  PROVE  TypeOK'
  <1>1. N' = N /\ Hooks' = Hooks
    BY SamePage
  <1>2. Posts' = Posts /\ Status' = Status
    BY DEF Posts, Status
  <1>3. queue' \in Seq(0 .. N' - 1)
    BY <1>1
  <1> QED BY <1>1, <1>2, <1>3 DEF TypeOK

LEMMA LeaveStep ==
  ASSUME IInv, Reset \/ \E s \in Scenarios : SelectScenario(s)
  PROVE  IInv' /\ Forward
  <1>1. PICK s \in Scenarios :
          /\ scenario' = s /\ s.provider = scenario.provider
          /\ h' = FreshHook("idle") /\ Flush /\ shown' = "idle" /\ seen' = "idle"
          /\ UNCHANGED <<runs, inflight, paced>>
    BY DEF IInv, TypeOK, Reset, SelectScenario
  <1>3. N \in Nat \ {0} /\ "idle" \in Status
    BY StagesFact DEF IInv, Status
  <1>4. /\ h' \in Hooks /\ h'.pending = NoOutcome /\ h'.stage = -1 /\ h'.maxStage = -1
        /\ h'.result = NoAnswer /\ h'.fetchRes = NoAnswer
    BY <1>1, <1>3, FreshFact
  <1>5. queue' = <<>> /\ armed' = FALSE /\ walking' = walking
    BY <1>1 DEF Flush
  <1>6. TypeOK'
    <2>1. <<>> \in Seq(0 .. N - 1)
      OBVIOUS
    <2> QED BY <1>1, <1>3, <1>4, <1>5, <2>1, TypeStays DEF IInv, TypeOK
  <1> QED BY <1>4, <1>5, <1>6
          DEF IInv, WalkBacked, ArmedWalks, LitIsReached, ShownIsFetched, Forward, NoOutcome

(* Retrieve: a fresh hook, and for an expected denial its walk.            *)
LEMMA RunStep ==
  ASSUME IInv, Run
  PROVE  IInv' /\ Forward
  <1>1. /\ N \in Nat \ {0} /\ scenario.failStage \in -1 .. N - 1 /\ "running" \in Status
        /\ runs + 1 \in 1 .. MaxRuns /\ scenario \in Scenarios
    BY StagesFact, BoundAssumption DEF IInv, TypeOK, Run, Status
  <1>2. /\ FreshHook("running") \in Hooks
        /\ FreshHook("running").pending = NoOutcome /\ FreshHook("running").stage = -1
        /\ FreshHook("running").maxStage = -1
        /\ FreshHook("running").result = NoAnswer /\ FreshHook("running").fetchRes = NoAnswer
    BY <1>1, FreshFact
  <1>3. /\ h' \in Hooks /\ queue' \in Seq(0 .. N - 1)
        /\ armed' \in BOOLEAN /\ walking' \in BOOLEAN /\ (armed' => walking')
        /\ h'.pending # NoOutcome \/ queue' # <<>> => armed'
        /\ h'.stage <= h'.maxStage
        /\ h'.result = NoAnswer /\ h'.fetchRes = NoAnswer
    <2>1. CASE Ok(scenario) /\ h' = FreshHook("running") /\ Flush
      <3>1. <<>> \in Seq(0 .. N - 1)
        OBVIOUS
      <3>2. queue' = <<>> /\ armed' = FALSE /\ walking' = walking /\ walking \in BOOLEAN
        BY <2>1 DEF Flush, IInv, TypeOK
      <3>3. /\ h' \in Hooks /\ h'.pending = NoOutcome /\ h'.stage = -1 /\ h'.maxStage = -1
            /\ h'.result = NoAnswer /\ h'.fetchRes = NoAnswer
        BY <1>2, <2>1
      <3>4. h'.stage <= h'.maxStage
        BY <3>3
      <3>5. queue' \in Seq(0 .. N - 1)
        BY <3>1, <3>2
      <3> QED BY <3>2, <3>3, <3>4, <3>5
    <2> DEFINE x == [FreshHook("running") EXCEPT
                       !.pending = [kind |-> "error", failStage |-> scenario.failStage]]
    <2>2. CASE ~Ok(scenario) /\ Walk(x, scenario.failStage, FALSE)
      <3>1. scenario.failStage \in 0 .. N - 1
        BY <1>1, <2>2 DEF Ok
      <3>2. /\ [kind |-> "error", failStage |-> scenario.failStage] \in Outcomes
            /\ [kind |-> "error", failStage |-> scenario.failStage] # NoOutcome
        BY <1>1 DEF Outcomes, NoOutcome
      <3>3. /\ x \in Hooks /\ x.pending # NoOutcome /\ x.stage = -1 /\ x.maxStage = -1
            /\ x.result = NoAnswer /\ x.fetchRes = NoAnswer
        BY <1>2, <3>2 DEF Hooks
      <3> HIDE DEF x
      <3>4. queue \in Seq(0 .. N - 1) /\ walking \in BOOLEAN
        BY DEF IInv, TypeOK
      <3>6. FALSE \in BOOLEAN /\ (FALSE => walking) /\ x.stage <= x.maxStage
        BY <3>3
      <3>5. /\ h' \in Hooks /\ queue' \in Seq(0 .. N - 1)
            /\ armed' \in BOOLEAN /\ walking' \in BOOLEAN /\ (armed' => walking')
            /\ h'.pending # NoOutcome \/ queue' # <<>> => armed'
            /\ h'.stage <= h'.maxStage
            /\ h'.fetchRes = x.fetchRes
            /\ h'.result = x.result \/ h'.result = x.fetchRes
        BY <1>1, <2>2, <3>1, <3>3, <3>4, <3>6, WalkKeeps
      <3> QED BY <3>3, <3>5, Zenon
    <2> QED BY <2>1, <2>2 DEF Run
  <1>4. TypeOK'
    <2>1. /\ scenario' = scenario /\ runs' = runs + 1 /\ paced' = paced
          /\ shown' = h'.status /\ seen' = h'.status
          /\ inflight' = inflight \cup {[run |-> runs + 1, scenario |-> scenario]}
      BY DEF Run
    <2>2. h'.status \in Status
      BY <1>3 DEF Hooks
    <2>3. [run |-> runs + 1, scenario |-> scenario] \in Posts
      BY <1>1 DEF Posts
    <2>4. /\ inflight' \subseteq Posts /\ runs' \in 0 .. MaxRuns
      BY <1>1, <2>1, <2>3 DEF IInv, TypeOK
    <2>5. TypeOK
      BY DEF IInv
    <2>6. paced' \in BOOLEAN
      BY <2>1, <2>5 DEF TypeOK
    <2> QED BY <1>1, <1>3, <2>1, <2>2, <2>4, <2>5, <2>6, TypeStays, Zenon
  <1>5. Forward
    <2>1. runs' = runs + 1 /\ runs \in Nat
      BY BoundAssumption DEF Run, IInv, TypeOK
    <2> QED BY <2>1 DEF Forward
  <1> QED BY <1>3, <1>4, <1>5, Zenon DEF IInv, WalkBacked, ArmedWalks, LitIsReached, ShownIsFetched

(* An answer: it is shown, and that of an expected success walks.          *)
LEMMA LandStep ==
  ASSUME IInv, NEW f \in inflight, NEW retrieved \in BOOLEAN, Land(f, retrieved)
  PROVE  IInv' /\ Forward
  <1> DEFINE answer == [run |-> f.run, retrieved |-> retrieved]
             told == [h EXCEPT !.fetchRes = answer, !.result = answer]
             outcome == [kind |-> IF retrieved THEN "done" ELSE "error",
                         failStage |-> IF retrieved THEN -1 ELSE 0]
             x == [told EXCEPT !.pending = outcome]
             target == IF retrieved THEN N - 1 ELSE 0
  <1>1. /\ N \in Nat \ {0} /\ h \in Hooks /\ h.stage <= h.maxStage
        /\ queue \in Seq(0 .. N - 1) /\ armed \in BOOLEAN /\ walking \in BOOLEAN
        /\ armed => walking
    BY StagesFact DEF IInv, TypeOK, ArmedWalks, LitIsReached
  <1>2. answer \in Answers
    <2>1. f \in Posts
      BY DEF IInv, TypeOK
    <2> QED BY <2>1 DEF Posts, Answers
  <1>3. outcome \in Outcomes /\ outcome # NoOutcome
    BY <1>1 DEF Outcomes, NoOutcome
  <1>4. /\ scenario' = scenario /\ runs' = runs /\ shown' = shown /\ seen' = seen /\ paced' = paced
        /\ inflight' = inflight \ {f}
        /\ \/ h' = told /\ UNCHANGED <<queue, armed, walking>>
           \/ Walk(x, target, armed)
    BY DEF Land
  <1> HIDE DEF answer, outcome
  <1>5. /\ told \in Hooks /\ told.stage = h.stage /\ told.maxStage = h.maxStage
        /\ told.pending = h.pending /\ told.result = answer /\ told.fetchRes = answer
    BY <1>1, <1>2 DEF Hooks
  <1>6. /\ x \in Hooks /\ x.stage = h.stage /\ x.maxStage = h.maxStage
        /\ x.pending = outcome /\ x.result = answer /\ x.fetchRes = answer
    BY <1>1, <1>2, <1>3 DEF Hooks
  <1>7. target \in 0 .. N - 1
    BY <1>1
  <1> HIDE DEF told, x, target
  <1>8. /\ h' \in Hooks /\ queue' \in Seq(0 .. N - 1)
        /\ armed' \in BOOLEAN /\ walking' \in BOOLEAN
        /\ armed' => walking'
        /\ h'.pending # NoOutcome \/ queue' # <<>> => armed'
        /\ h'.stage <= h'.maxStage
        /\ h'.stage = h.stage \/ h'.stage = -1 \/ h'.stage > h.maxStage
        /\ h'.result = answer /\ h'.fetchRes = answer
    <2>1. CASE h' = told /\ UNCHANGED <<queue, armed, walking>>
      <3>1. h.pending # NoOutcome \/ queue # <<>> => armed
        BY DEF IInv, WalkBacked
      <3> QED BY <1>1, <1>5, <2>1, <3>1
    <2>2. CASE Walk(x, target, armed)
      <3>1. x.stage <= x.maxStage /\ x.pending # NoOutcome
        BY <1>1, <1>3, <1>6
      <3>2. /\ h' \in Hooks /\ queue' \in Seq(0 .. N - 1)
            /\ armed' \in BOOLEAN /\ walking' \in BOOLEAN
            /\ armed' => walking'
            /\ h'.pending # NoOutcome \/ queue' # <<>> => armed'
            /\ h'.stage <= h'.maxStage
            /\ h'.stage = x.stage \/ h'.stage = -1 \/ h'.stage > x.maxStage
            /\ h'.fetchRes = x.fetchRes
            /\ h'.result = x.result \/ h'.result = x.fetchRes
        BY <1>1, <1>6, <1>7, <2>2, <3>1, WalkKeeps
      <3> QED BY <1>6, <3>2
    <2> QED BY <1>4, <2>1, <2>2
  <1>9. TypeOK'
    BY <1>1, <1>4, <1>8, TypeStays DEF IInv, TypeOK
  <1>10. Forward
    <2>1. h.stage \in Int /\ h.maxStage \in Int /\ h'.stage \in Int
      BY <1>1, <1>8 DEF Hooks
    <2> QED BY <1>1, <1>8, <2>1 DEF Forward
  <1> QED BY <1>8, <1>9, <1>10 DEF IInv, WalkBacked, ArmedWalks, LitIsReached, ShownIsFetched

(* The timer lights the next stage, or ends the walk.                      *)
LEMMA TimerStep ==
  ASSUME IInv, TimerFires
  PROVE  IInv' /\ Forward
  <1>1. /\ N \in Nat \ {0} /\ h \in Hooks /\ h.stage <= h.maxStage
        /\ queue \in Seq(0 .. N - 1) /\ armed \in BOOLEAN /\ walking \in BOOLEAN
        /\ armed /\ walking
        /\ h.result = h.fetchRes
        /\ <<>> \in Seq(0 .. N - 1)
    BY StagesFact DEF IInv, TypeOK, ArmedWalks, LitIsReached, ShownIsFetched,
                      TimerFires, Release, ReleaseAll, WalkEnds
  <1>2. h.stage \in Int /\ h.maxStage \in Int
    BY <1>1 DEF Hooks
  <1>3. /\ scenario' = scenario /\ runs' = runs /\ shown' = shown /\ seen' = seen /\ paced' = paced
        /\ inflight' = inflight
    BY DEF TimerFires, Release, ReleaseAll, WalkEnds
  <1>4. /\ h' \in Hooks /\ queue' \in Seq(0 .. N - 1)
        /\ armed' \in BOOLEAN /\ walking' \in BOOLEAN
        /\ armed' => walking'
        /\ h'.pending # NoOutcome \/ queue' # <<>> => armed'
        /\ h'.stage <= h'.maxStage
        /\ h'.stage = h.stage \/ h'.stage = -1 \/ h'.stage > h.maxStage
        /\ h'.result = h'.fetchRes
    <2>1. CASE Release
      <3>1. /\ h' = Light(h, Head(queue)) /\ queue' = Tail(queue)
            /\ armed' = armed /\ walking' = walking /\ queue # <<>>
        BY <2>1 DEF Release
      <3>2. Head(queue) \in 0 .. N - 1 /\ Tail(queue) \in Seq(0 .. N - 1)
        BY <1>1, <3>1
      <3>3. /\ h' \in Hooks /\ h'.stage <= h'.maxStage
            /\ h'.stage = h.stage \/ h'.stage > h.maxStage
            /\ h'.result = h.result /\ h'.fetchRes = h.fetchRes
        BY <1>1, <3>1, <3>2, LightKeeps
      <3> QED BY <1>1, <3>1, <3>2, <3>3
    <2>2. CASE ReleaseAll
      <3>1. PICK i \in ToSet(queue) : h' = Settle(Light(h, i))
        BY <1>1, <2>2 DEF ReleaseAll
      <3>2. i \in 0 .. N - 1
        BY <1>1 DEF ToSet
      <3>3. queue' = <<>> /\ armed' = FALSE /\ walking' = FALSE
        BY <2>2 DEF ReleaseAll
      <3> DEFINE lit == Light(h, i)
      <3>4. /\ lit \in Hooks /\ lit.stage <= lit.maxStage
            /\ lit.stage = h.stage \/ lit.stage > h.maxStage
            /\ lit.result = h.result /\ lit.fetchRes = h.fetchRes
        BY <1>1, <3>2, LightKeeps
      <3>5. h' = Settle(lit)
        BY <3>1
      <3> HIDE DEF lit
      <3>6. /\ h' \in Hooks /\ h'.stage <= h'.maxStage /\ h'.stage \in {lit.stage, -1}
            /\ h'.pending = NoOutcome /\ h'.fetchRes = lit.fetchRes
            /\ h'.result \in {lit.result, lit.fetchRes}
        BY <1>1, <3>4, <3>5, SettleKeeps
      <3> QED BY <1>1, <3>3, <3>4, <3>6
    <2>3. CASE WalkEnds
      <3>1. /\ h' = Settle(h) /\ queue' = queue /\ queue = <<>>
            /\ armed' = FALSE /\ walking' = FALSE
        BY <1>1, <2>3 DEF WalkEnds
      <3>2. /\ h' \in Hooks /\ h'.stage <= h'.maxStage /\ h'.stage \in {h.stage, -1}
            /\ h'.pending = NoOutcome /\ h'.fetchRes = h.fetchRes
            /\ h'.result \in {h.result, h.fetchRes}
        BY <1>1, <3>1, SettleKeeps
      <3> QED BY <1>1, <3>1, <3>2
    <2> QED BY <2>1, <2>2, <2>3 DEF TimerFires
  <1>5. TypeOK'
    BY <1>3, <1>4, TypeStays DEF IInv, TypeOK
  <1>6. Forward
    <2>1. h'.stage \in Int
      BY <1>4 DEF Hooks
    <2> QED BY <1>1, <1>2, <1>4, <2>1 DEF Forward
  <1> QED BY <1>4, <1>5, <1>6 DEF IInv, WalkBacked, ArmedWalks, LitIsReached, ShownIsFetched

(* A commit or its effect, another pace, or nothing.                       *)
LEMMA OtherStep ==
  ASSUME IInv, (\E p \in PaceChoices : SelectPace(p)) \/ Commit \/ CopyStatus \/ UNCHANGED vars
  PROVE  IInv' /\ Forward
  <1>1. UNCHANGED <<scenario, runs, inflight, h, queue, armed, walking>>
    BY DEF SelectPace, Commit, CopyStatus, vars
  <1>2. shown' \in Status /\ seen' \in Status /\ paced' \in BOOLEAN
    BY ChoiceAssumption DEF IInv, TypeOK, Hooks, SelectPace, Commit, CopyStatus, vars
  <1>3. h.stage \in Int
    BY StagesFact DEF IInv, TypeOK, Hooks
  <1>4. TypeOK'
    BY <1>1, <1>2, TypeStays DEF IInv, TypeOK
  <1>5. Forward
    BY <1>1, <1>3 DEF Forward
  <1> QED BY <1>1, <1>4, <1>5 DEF IInv, WalkBacked, ArmedWalks, LitIsReached, ShownIsFetched

LEMMA NextStep ==
  ASSUME IInv, [Next]_vars
  PROVE  IInv' /\ Forward
  <1>1. CASE Lands
    BY <1>1, LandStep DEF Lands
  <1>2. CASE ~Lands
    BY <1>2, RunStep, LeaveStep, TimerStep, OtherStep DEF Next
  <1> QED BY <1>1, <1>2

LEMMA InitInv == Init => IInv
  <1> SUFFICES ASSUME Init PROVE IInv
    OBVIOUS
  <1>1. N \in Nat \ {0} /\ "idle" \in Status /\ <<>> \in Seq(0 .. N - 1)
    BY StagesAssumption, ScenarioAssumption DEF Init, N, Status
  <1>2. /\ h \in Hooks /\ h.pending = NoOutcome /\ h.stage = -1 /\ h.maxStage = -1
        /\ h.result = NoAnswer /\ h.fetchRes = NoAnswer
    BY <1>1, FreshFact DEF Init
  <1>3. TypeOK
    <2>1. runs \in 0 .. MaxRuns /\ inflight \subseteq Posts
      BY BoundAssumption DEF Init
    <2>2. queue \in Seq(0 .. N - 1) /\ shown \in Status /\ seen \in Status
      BY <1>1 DEF Init
    <2>3. /\ armed \in BOOLEAN /\ walking \in BOOLEAN /\ paced \in BOOLEAN
          /\ scenario \in Scenarios
      BY DEF Init
    <2> QED BY <1>2, <2>1, <2>2, <2>3 DEF TypeOK
  <1> QED BY <1>2, <1>3
          DEF Init, IInv, WalkBacked, ArmedWalks, LitIsReached, ShownIsFetched

LEMMA Inductive == Spec => []IInv
  <1> QED BY InitInv, NextStep, PTL DEF Spec

-----------------------------------------------------------------------------
(* No stage is lit, counted or queued beyond the provider's last, whatever *)
(* its number of stages (TypeOK).                                          *)
THEOREM TypeCorrect == Spec => []TypeOK
  <1>1. IInv => TypeOK  BY DEF IInv
  <1> QED BY <1>1, Inductive, PTL

(* What waits to be shown has a timer that gets to it (WalkBacked).        *)
THEOREM WalkIsBacked == Spec => []WalkBacked
  <1>1. IInv => WalkBacked  BY DEF IInv
  <1> QED BY <1>1, Inductive, PTL

(* The lit stage moves forward until it goes out (StageAdvances).          *)
THEOREM StagesOnlyAdvance == Spec => StageAdvances
  <1>1. IInv /\ [Next]_vars => [h'.stage < h.stage => h'.stage = -1 \/ runs' # runs]_vars
    BY NextStep DEF Forward
  <1> QED BY <1>1, Inductive, PTL DEF Spec, StageAdvances

-----------------------------------------------------------------------------
(***************************************************************************)
(* The rest is about a user who waits for the answer of a run before       *)
(* leaving it (~LeavesEarly): the page shows the run's own answer, a       *)
(* settled run says what its answer said, and every step of the engine is  *)
(* one that the contract of a resolve allows.                              *)
(***************************************************************************)
(* A POST under way is the current run's, and the page waits for it.       *)
PostIsCurrent == \A f \in inflight : f.run = runs /\ f.scenario = scenario

Waiting ==
  inflight # {} =>
    /\ h.result = NoAnswer /\ h.status # "idle"
    /\ Ok(scenario) => h.status = "running" /\ ~armed /\ h.pending = NoOutcome

(* An outcome that waits is what the answer said.                          *)
Fits(kind) ==
  /\ kind = "done" => h.result = [run |-> runs, retrieved |-> TRUE]
  /\ kind = "error" /\ Ok(scenario) => h.result = [run |-> runs, retrieved |-> FALSE]
PendingFits == h.pending # NoOutcome => h.status = "running" /\ Fits(h.pending.kind)

(* While a run is under way the buttons are disabled, and the gate of the  *)
(* status ref is open.                                                     *)
RunningIsSeen == h.status = "running" => shown = "running" /\ seen = "running"

Patient ==
  /\ OutcomeIsTrue /\ IdleIsClean
  /\ PostIsCurrent /\ Waiting /\ PendingFits /\ RunningIsSeen

(* A step that the contract allows.                                        *)
ContractStep == [Contract!Next]_(Contract!vars)

-----------------------------------------------------------------------------
LEMMA RunPatient ==
  ASSUME IInv, Patient, ~LeavesEarly, Run
  PROVE  Patient' /\ ContractStep
  <1>1. /\ N \in Nat \ {0} /\ scenario.failStage \in -1 .. N - 1 /\ "running" \in Status
        /\ queue \in Seq(0 .. N - 1) /\ walking \in BOOLEAN
    BY StagesFact DEF IInv, TypeOK, Status
  <1>2. /\ FreshHook("running") \in Hooks /\ FreshHook("running").status = "running"
        /\ FreshHook("running").pending = NoOutcome /\ FreshHook("running").stage = -1
        /\ FreshHook("running").maxStage = -1
        /\ FreshHook("running").result = NoAnswer /\ FreshHook("running").fetchRes = NoAnswer
    BY <1>1, FreshFact
  <1>3. /\ scenario' = scenario /\ runs' = runs + 1 /\ shown' = h'.status /\ seen' = h'.status
        /\ inflight' = {[run |-> runs + 1, scenario |-> scenario]}
    BY DEF Run, MayLeave
  <1>4. /\ h'.result = NoAnswer
        /\ \/ h'.status = "running" /\ (Ok(scenario) => ~armed' /\ h'.pending = NoOutcome)
                                    /\ (h'.pending # NoOutcome => h'.pending.kind = "error" /\ ~Ok(scenario))
           \/ h'.status = "error" /\ ~Ok(scenario) /\ h'.pending = NoOutcome
    <2>1. CASE Ok(scenario) /\ h' = FreshHook("running") /\ Flush
      BY <1>2, <2>1 DEF Flush
    <2> DEFINE x == [FreshHook("running") EXCEPT
                       !.pending = [kind |-> "error", failStage |-> scenario.failStage]]
    <2>2. CASE ~Ok(scenario) /\ Walk(x, scenario.failStage, FALSE)
      <3>1. scenario.failStage \in 0 .. N - 1
        BY <1>1, <2>2 DEF Ok
      <3>2. /\ [kind |-> "error", failStage |-> scenario.failStage] \in Outcomes
            /\ [kind |-> "error", failStage |-> scenario.failStage] # NoOutcome
        BY <1>1 DEF Outcomes, NoOutcome
      <3>3. /\ x \in Hooks /\ x.pending # NoOutcome /\ x.stage = -1 /\ x.maxStage = -1
            /\ x.result = NoAnswer /\ x.fetchRes = NoAnswer
            /\ x.status = "running" /\ x.pending.kind = "error"
        BY <1>2, <3>2 DEF Hooks
      <3> HIDE DEF x
      <3>4. FALSE \in BOOLEAN /\ (FALSE => walking) /\ x.stage <= x.maxStage
        BY <3>3
      <3>5. /\ h'.result = x.result \/ h'.result = x.fetchRes
            /\ \/ h'.pending = x.pending /\ (x.status = "running" => h'.status = "running")
               \/ h'.pending = NoOutcome /\ h'.status = x.pending.kind
        BY <1>1, <2>2, <3>1, <3>3, <3>4, WalkKeeps
      <3> QED BY <2>2, <3>3, <3>5
    <2> QED BY <2>1, <2>2 DEF Run
  <1>5. Patient'
    <2>1. OwnAnswer' /\ OutcomeIsTrue' /\ IdleIsClean' /\ RunningIsSeen'
      BY <1>3, <1>4 DEF OwnAnswer, OutcomeIsTrue, DoneByOwnPost, IdleIsClean, RunningIsSeen, Ok
    <2>2. PostIsCurrent' /\ Waiting' /\ PendingFits'
      BY <1>3, <1>4 DEF PostIsCurrent, Waiting, PendingFits, Fits, Ok
    <2> QED BY <2>1, <2>2 DEF Patient
  <1>6. ContractStep
    <2>1. h.status # "running"
      BY DEF Run, Patient, RunningIsSeen
    <2> QED BY <1>4, <2>1 DEF ContractStep, Contract!Next, Contract!Start, Contract!StartDenied
  <1> QED BY <1>5, <1>6

LEMMA LeavePatient ==
  ASSUME IInv, Patient, ~LeavesEarly, Reset \/ \E s \in Scenarios : SelectScenario(s)
  PROVE  Patient' /\ ContractStep
  <1>1. /\ h' = FreshHook("idle") /\ shown' = "idle" /\ seen' = "idle" /\ queue' = <<>> /\ armed' = FALSE
        /\ runs' = runs /\ inflight' = {}
    BY DEF Reset, SelectScenario, MayLeave, Flush
  <1>2. /\ h'.status = "idle" /\ h'.result = NoAnswer /\ h'.pending = NoOutcome
    BY <1>1 DEF FreshHook
  <1>3. Patient'
    BY <1>1, <1>2 DEF Patient, OwnAnswer, OutcomeIsTrue, DoneByOwnPost, IdleIsClean, PostIsCurrent, Waiting,
                      PendingFits, RunningIsSeen, FreshHook, NoAnswer, NoOutcome
  <1>4. ContractStep
    BY <1>2 DEF ContractStep, Contract!Next, Contract!Leave
  <1> QED BY <1>3, <1>4

LEMMA LandPatient ==
  ASSUME IInv, Patient, NEW f \in inflight, NEW retrieved \in BOOLEAN, Land(f, retrieved)
  PROVE  Patient' /\ ContractStep
  <1> DEFINE reply == [run |-> f.run, retrieved |-> retrieved]
             told == [h EXCEPT !.fetchRes = reply, !.result = reply]
             outcome == [kind |-> IF retrieved THEN "done" ELSE "error",
                         failStage |-> IF retrieved THEN -1 ELSE 0]
             x == [told EXCEPT !.pending = outcome]
             target == IF retrieved THEN N - 1 ELSE 0
  <1>1. /\ N \in Nat \ {0} /\ h \in Hooks /\ h.stage <= h.maxStage
        /\ queue \in Seq(0 .. N - 1) /\ armed \in BOOLEAN /\ walking \in BOOLEAN
        /\ inflight \subseteq Posts
    BY StagesFact DEF IInv, TypeOK, LitIsReached
  <1>2. /\ f.run = runs /\ f.scenario = scenario
        /\ h.result = NoAnswer /\ h.status # "idle"
        /\ Ok(scenario) => h.status = "running" /\ armed = FALSE /\ h.pending = NoOutcome
    BY <1>1 DEF Patient, PostIsCurrent, Waiting
  <1>3. inflight \ {f} = {}
    <2>1. \A g \in inflight : g = f
      <3> TAKE g \in inflight
      <3>1. g.run = f.run /\ g.scenario = f.scenario
        BY <1>2 DEF Patient, PostIsCurrent
      <3> QED BY <1>1, <3>1 DEF Posts
    <2> QED BY <2>1
  <1>4. /\ scenario' = scenario /\ runs' = runs /\ shown' = shown /\ seen' = seen /\ inflight' = {}
        /\ \/ ~Ok(scenario) /\ h' = told /\ UNCHANGED <<queue, armed, walking>>
           \/ Ok(scenario) /\ Walk(x, target, armed)
    BY <1>2, <1>3 DEF Land
  <1>5. /\ reply = [run |-> runs, retrieved |-> retrieved] /\ reply \in Answers
        /\ reply # NoAnswer /\ reply.run = runs /\ reply.retrieved = retrieved
    <2>1. f \in Posts
      BY <1>1
    <2> QED BY <1>2, <2>1 DEF Posts, Answers, NoAnswer
  <1>6. /\ outcome \in Outcomes /\ outcome # NoOutcome
        /\ outcome.kind = IF retrieved THEN "done" ELSE "error"
    BY <1>1 DEF Outcomes, NoOutcome
  <1> HIDE DEF reply, outcome
  <1>7. /\ told.status = h.status /\ told.pending = h.pending /\ told.result = reply
        /\ x \in Hooks /\ x.stage = h.stage /\ x.maxStage = h.maxStage /\ x.status = h.status
        /\ x.pending = outcome /\ x.result = reply /\ x.fetchRes = reply
    BY <1>1, <1>5, <1>6 DEF Hooks
  <1>8. target \in 0 .. N - 1
    BY <1>1
  <1> HIDE DEF told, x, target
  <1>9. /\ h'.result = reply /\ h'.status # "idle"
        /\ h'.status = "running" => h.status = "running"
        /\ \/ h'.status = h.status /\ h'.pending \in {h.pending, outcome}
              /\ (h'.pending = outcome => h.status = "running" \/ h.pending = outcome)
           \/ Ok(scenario) /\ h.status = "running" /\ h'.status = outcome.kind /\ h'.pending = NoOutcome
    <2>1. CASE ~Ok(scenario) /\ h' = told
      BY <1>2, <1>7, <2>1
    <2>2. CASE Ok(scenario) /\ Walk(x, target, armed)
      <3>1. /\ x.stage <= x.maxStage /\ x.pending # NoOutcome /\ (armed => walking)
            /\ x.status = "running"
        BY <1>1, <1>2, <1>6, <1>7, <2>2
      <3>2. /\ h'.fetchRes = x.fetchRes
            /\ h'.result = x.result \/ h'.result = x.fetchRes
            /\ \/ h'.pending = x.pending /\ (x.status = "running" => h'.status = "running")
               \/ h'.pending = NoOutcome /\ h'.status = x.pending.kind
        BY <1>1, <1>7, <1>8, <2>2, <3>1, WalkKeeps
      <3> QED BY <1>2, <1>6, <1>7, <2>2, <3>1, <3>2
    <2> QED BY <1>4, <2>1, <2>2
  <1>10. /\ h.status # "done"
         /\ Ok(scenario) => h.status # "error"
         /\ h.pending # NoOutcome => h.status = "running" /\ h.pending.kind # "done" /\ ~Ok(scenario)
    BY <1>2 DEF Patient, OutcomeIsTrue, DoneByOwnPost, OwnAnswer, PendingFits, Fits, NoAnswer
  <1>11. Patient'
    <2>1. OwnAnswer' /\ IdleIsClean' /\ RunningIsSeen' /\ PostIsCurrent' /\ Waiting'
      BY <1>4, <1>5, <1>9 DEF Patient, OwnAnswer, IdleIsClean, RunningIsSeen, PostIsCurrent, Waiting
    <2>2. OutcomeIsTrue'
      BY <1>4, <1>5, <1>6, <1>9, <1>10, <2>1 DEF OutcomeIsTrue, DoneByOwnPost, Ok
    <2>3. PendingFits'
      BY <1>4, <1>5, <1>6, <1>9, <1>10 DEF PendingFits, Fits, Ok
    <2> QED BY <2>1, <2>2, <2>3 DEF Patient
  <1>12. ContractStep
    BY <1>2, <1>5, <1>6, <1>9
    DEF ContractStep, Contract!Next, Contract!Answer, Contract!Verdicts, Contract!Endings
  <1> QED BY <1>11, <1>12

LEMMA TimerPatient ==
  ASSUME IInv, Patient, TimerFires
  PROVE  Patient' /\ ContractStep
  <1>1. /\ N \in Nat \ {0} /\ h \in Hooks /\ h.stage <= h.maxStage
        /\ queue \in Seq(0 .. N - 1) /\ armed = TRUE /\ walking = TRUE
        /\ h.result = h.fetchRes
    BY StagesFact DEF IInv, TypeOK, ArmedWalks, LitIsReached, ShownIsFetched,
                      TimerFires, Release, ReleaseAll, WalkEnds
  <1>2. scenario' = scenario /\ runs' = runs /\ shown' = shown /\ seen' = seen /\ inflight' = inflight
    BY DEF TimerFires, Release, ReleaseAll, WalkEnds
  <1>3. /\ h'.result = h.result
        /\ \/ h'.status = h.status /\ h'.pending = h.pending
           \/ h.pending # NoOutcome /\ h'.status = h.pending.kind /\ h'.pending = NoOutcome
    <2>1. CASE Release
      <3>1. h' = Light(h, Head(queue)) /\ Head(queue) \in 0 .. N - 1
        BY <1>1, <2>1 DEF Release
      <3> QED BY <1>1, <3>1, LightKeeps
    <2>2. CASE ReleaseAll
      <3>1. PICK i \in ToSet(queue) : h' = Settle(Light(h, i))
        BY <1>1, <2>2 DEF ReleaseAll
      <3>2. i \in 0 .. N - 1
        BY <1>1 DEF ToSet
      <3> DEFINE lit == Light(h, i)
      <3>3. /\ lit \in Hooks /\ lit.stage <= lit.maxStage /\ lit.pending = h.pending
            /\ lit.status = h.status /\ lit.result = h.result /\ lit.fetchRes = h.fetchRes
        BY <1>1, <3>2, LightKeeps
      <3>4. h' = Settle(lit)
        BY <3>1
      <3> HIDE DEF lit
      <3> QED BY <1>1, <3>3, <3>4, SettleKeeps
    <2>3. CASE WalkEnds
      <3>1. h' = Settle(h)
        BY <1>1, <2>3 DEF WalkEnds
      <3> QED BY <1>1, <3>1, SettleKeeps
    <2> QED BY <2>1, <2>2, <2>3 DEF TimerFires
  <1>4. h.status # "idle"
    BY <1>1 DEF Patient, IdleIsClean
  <1>5. h.pending # NoOutcome =>
          h.status = "running" /\ h.pending.kind \in {"done", "error"} /\ Fits(h.pending.kind)
    BY <1>1 DEF Patient, PendingFits, Hooks, Outcomes
  <1>6. Patient'
    <2>1. OwnAnswer' /\ IdleIsClean' /\ RunningIsSeen' /\ PostIsCurrent' /\ Waiting'
      <3>1. h'.status # "idle" /\ (h'.status = "running" => h.status = "running")
        BY <1>3, <1>4, <1>5
      <3>2. inflight # {} => ~Ok(scenario) /\ h.result = NoAnswer
        BY <1>1 DEF Patient, Waiting
      <3> QED BY <1>2, <1>3, <3>1, <3>2
              DEF Patient, OutcomeIsTrue, DoneByOwnPost, OwnAnswer, IdleIsClean, RunningIsSeen, PostIsCurrent, Waiting, Ok
    <2>2. OutcomeIsTrue'
      BY <1>2, <1>3, <1>5, <2>1 DEF Patient, OutcomeIsTrue, DoneByOwnPost, Fits, Ok
    <2>3. PendingFits'
      BY <1>2, <1>3, <1>5 DEF PendingFits, Fits, Ok
    <2> QED BY <2>1, <2>2, <2>3 DEF Patient
  <1>7. ContractStep
    <2>1. CASE h'.status = h.status
      BY <1>3, <2>1 DEF ContractStep, Contract!vars
    <2>2. CASE h.pending # NoOutcome /\ h'.status = h.pending.kind
      <3>1. /\ h.status = "running" /\ h'.status \in {"done", "error"}
            /\ h'.status = "done" => h.result # NoAnswer /\ h.result.retrieved
        BY <1>5, <2>2 DEF Fits, NoAnswer
      <3> QED BY <1>3, <3>1 DEF ContractStep, Contract!Next, Contract!Finish, Contract!Endings
    <2> QED BY <1>3, <2>1, <2>2
  <1> QED BY <1>6, <1>7

LEMMA OtherPatient ==
  ASSUME IInv, Patient, (\E p \in PaceChoices : SelectPace(p)) \/ Commit \/ CopyStatus \/ UNCHANGED vars
  PROVE  Patient' /\ ContractStep
  <1>1. /\ UNCHANGED <<scenario, runs, inflight, h, queue, armed, walking>>
        /\ \/ UNCHANGED <<shown, seen>>
           \/ shown' = h.status /\ seen' = shown /\ shown # h.status
           \/ shown' = shown /\ seen' = shown
    BY DEF SelectPace, Commit, CopyStatus, vars
  <1>2. Patient'
    BY <1>1 DEF Patient, OwnAnswer, OutcomeIsTrue, DoneByOwnPost, IdleIsClean, PostIsCurrent, Waiting,
                PendingFits, Fits, RunningIsSeen, Ok, FreshHook
  <1>3. ContractStep
    BY <1>1 DEF ContractStep, Contract!vars
  <1> QED BY <1>2, <1>3

LEMMA NextPatient ==
  ASSUME IInv, Patient, ~LeavesEarly, [Next]_vars
  PROVE  Patient' /\ ContractStep
  <1>1. CASE Lands
    BY <1>1, LandPatient DEF Lands
  <1>2. CASE ~Lands
    BY <1>2, RunPatient, LeavePatient, TimerPatient, OtherPatient DEF Next
  <1> QED BY <1>1, <1>2

LEMMA InitPatient == Init => Patient /\ Contract!Init
  BY DEF Init, Patient, OwnAnswer, OutcomeIsTrue, DoneByOwnPost, IdleIsClean, PostIsCurrent, Waiting,
         PendingFits, RunningIsSeen, FreshHook, NoAnswer, NoOutcome, Contract!Init

LEMMA StaysPatient == ASSUME ~LeavesEarly PROVE Spec => []Patient
  <1>1. IInv /\ Patient /\ [Next]_vars => Patient'
    BY NextPatient
  <1> QED BY InitPatient, Inductive, <1>1, PTL DEF Spec

-----------------------------------------------------------------------------
(* The gate of the status ref drops no stage that a timer brings to a run  *)
(* in progress (StagesLight).                                              *)
THEOREM GateDropsNoStage == ASSUME ~LeavesEarly PROVE Spec => StagesLight
  <1> DEFINE Lit == h.status = "running" /\ TimerFires =>
                      \A i \in ToSet(queue) \ ToSet(queue') : h'.maxStage >= i
  <1>1. ASSUME IInv, Patient PROVE Lit
    <2> SUFFICES ASSUME h.status = "running", TimerFires, NEW i \in ToSet(queue) \ ToSet(queue')
                 PROVE  h'.maxStage >= i
      OBVIOUS
    <2>1. /\ N \in Nat \ {0} /\ h \in Hooks /\ h.stage <= h.maxStage /\ h.maxStage \in Int
          /\ queue \in Seq(0 .. N - 1) /\ walking = TRUE /\ seen = "running"
      BY <1>1, StagesFact DEF IInv, TypeOK, ArmedWalks, LitIsReached, Patient, RunningIsSeen, Hooks,
                              TimerFires, Release, ReleaseAll, WalkEnds
    <2>2. ASSUME NEW j \in 0 .. N - 1 PROVE Light(h, j).maxStage >= j
      BY <2>1 DEF Light, Hooks
    <2>3. CASE Release
      <3>1. h' = Light(h, Head(queue)) /\ queue' = Tail(queue) /\ queue # <<>>
        BY <2>3 DEF Release
      <3>2. i = Head(queue)
        <4>1. PICK k \in DOMAIN queue : i = queue[k]
          BY DEF ToSet
        <4>2. CASE k # 1
          <5>1. k \in 1 .. Len(queue) /\ Len(queue) \in Nat
            BY <2>1, <4>1
          <5>2. k - 1 \in 1 .. Len(queue) - 1
            BY <4>2, <5>1
          <5>3. k - 1 \in DOMAIN Tail(queue) /\ Tail(queue)[k - 1] = queue[k]
            BY <2>1, <3>1, <5>1, <5>2
          <5> QED BY <3>1, <4>1, <5>3 DEF ToSet
        <4> QED BY <2>1, <3>1, <4>1, <4>2
      <3>3. i \in 0 .. N - 1
        BY <2>1, <3>1, <3>2
      <3> QED BY <2>2, <3>1, <3>2, <3>3
    <2>4. CASE ReleaseAll
      <3>1. PICK j \in ToSet(queue) : Furthest(j, ToSet(queue)) /\ h' = Settle(Light(h, j))
        BY <2>1, <2>4 DEF ReleaseAll
      <3>2. j \in 0 .. N - 1 /\ i \in 0 .. N - 1 /\ i <= j
        BY <2>1, <3>1 DEF ToSet, Furthest
      <3> DEFINE lit == Light(h, j)
      <3>3. lit \in Hooks /\ lit.stage <= lit.maxStage /\ lit.maxStage \in Int /\ lit.maxStage >= j
        <4>1. lit \in Hooks /\ lit.stage <= lit.maxStage /\ lit.maxStage >= j
          BY <2>1, <2>2, <3>2, LightKeeps
        <4> HIDE DEF lit
        <4> QED BY <2>1, <4>1 DEF Hooks
      <3>4. h' = Settle(lit)
        BY <3>1
      <3> HIDE DEF lit
      <3>5. h'.maxStage = lit.maxStage
        BY <2>1, <3>3, <3>4, SettleKeeps
      <3> QED BY <3>2, <3>3, <3>5
    <2>5. CASE WalkEnds
      BY <2>5 DEF WalkEnds
    <2> QED BY <2>3, <2>4, <2>5 DEF TimerFires
  <1>2. IInv /\ Patient /\ [Next]_vars => [Lit]_vars
    BY <1>1
  <1> QED BY <1>2, Inductive, StaysPatient, PTL DEF Spec, StagesLight

(* The data on the page is the answer to this run's own POST, and a        *)
(* settled run shows what it said (OutcomeIsTrue).                         *)
THEOREM SettledTruly == ASSUME ~LeavesEarly PROVE Spec => []OutcomeIsTrue
  <1>1. Patient => OutcomeIsTrue  BY DEF Patient
  <1> QED BY <1>1, StaysPatient, PTL

(* A page at rest has nothing lit, queued or about to fire (IdleIsClean).  *)
THEOREM IdleStaysClean == ASSUME ~LeavesEarly PROVE Spec => []IdleIsClean
  <1>1. Patient => IdleIsClean  BY DEF Patient
  <1> QED BY <1>1, StaysPatient, PTL

(* The engine starts as the contract does, and each of its steps is one of *)
(* the contract's or leaves the page as it is: the safety part of          *)
(* KeepsContract.                                                          *)
THEOREM EngineKeepsContract ==
  ASSUME ~LeavesEarly
  PROVE  Spec => Contract!Init /\ [][Contract!Next]_(Contract!vars)
  <1>1. IInv /\ Patient /\ [Next]_vars => [Contract!Next]_(Contract!vars)
    BY NextPatient DEF ContractStep
  <1> QED BY InitPatient, Inductive, StaysPatient, <1>1, PTL DEF Spec

-----------------------------------------------------------------------------
(* The queue's timer is set only while the page says "running".            *)
ArmedRuns == armed => h.status = "running"

(* An outcome that waits counts the stages that the scenario passes.       *)
PendingCounts ==
  h.pending.kind = "error" => h.pending.failStage = IF Ok(scenario) THEN 0 ELSE scenario.failStage

Steady == ArmedRuns /\ PendingCounts

(* A step of SettledView.                                                  *)
Shows == (armed \/ paced) /\ Settled(h') => Clean(h') \/ (Settled(h) /\ ~Clean(h))

(* A walk that starts with no timer set settles at once only with the pace *)
(* off.                                                                    *)
LEMMA WalkSteady ==
  ASSUME N \in Nat \ {0}, queue \in Seq(0 .. N - 1), walking \in BOOLEAN,
         NEW x \in Hooks, x.stage <= x.maxStage, x.status = "running", x.pending # NoOutcome,
         NEW target \in 0 .. N - 1, Walk(x, target, FALSE)
  PROVE  /\ armed' \/ paced => h'.status = "running"
         /\ h'.pending \in {x.pending, NoOutcome}
  <1>1. h'.pending \in {x.pending, NoOutcome}
    <2>1. FALSE \in BOOLEAN /\ (FALSE => walking)
      OBVIOUS
    <2> QED BY <2>1, WalkKeeps
  <1>2. CASE paced
    <2>1. h' = Light(WakeIfIdle(x), 0)
      BY <1>2 DEF Walk
    <2> DEFINE y == WakeIfIdle(x)
    <2>2. y \in Hooks /\ y.stage <= y.maxStage /\ y.status = "running"
      BY WakeKeeps
    <2>3. 0 \in 0 .. N - 1 /\ h' = Light(y, 0)
      BY <2>1
    <2> HIDE DEF y
    <2>4. h'.status = "running"
      BY <2>2, <2>3, LightKeeps
    <2> QED BY <1>1, <2>4
  <1>3. CASE ~paced
    BY <1>1, <1>3 DEF Walk
  <1> QED BY <1>2, <1>3

(* An outcome that is applied shows the stages that it counts.             *)
LEMMA SettleShows ==
  ASSUME N \in Nat \ {0}, scenario.failStage \in -1 .. N - 1, NEW y \in Hooks,
         y.status = "running", y.pending # NoOutcome,
         y.pending.kind = "error" => y.pending.failStage = IF Ok(scenario) THEN 0 ELSE scenario.failStage
  PROVE  Clean(Settle(y)) /\ Settle(y).pending = NoOutcome
  <1>1. y.pending \in Outcomes /\ y.pending.kind \in {"done", "error"}
    BY DEF Hooks, Outcomes
  <1> DEFINE counted == IF y.pending.kind = "done" THEN N
                        ELSE IF y.pending.failStage > 0 THEN y.pending.failStage ELSE 0
  <1>2. /\ Settle(y).stage = -1 /\ Settle(y).completed = counted
        /\ Settle(y).status = y.pending.kind /\ Settle(y).pending = NoOutcome
    BY DEF Settle, Hooks
  <1>3. counted = IF y.pending.kind = "done" THEN N ELSE IF Ok(scenario) THEN 0 ELSE scenario.failStage
    BY <1>1 DEF Ok
  <1> QED BY <1>2, <1>3 DEF Clean

LEMMA TimerSteady ==
  ASSUME IInv, Steady, TimerFires
  PROVE  Steady' /\ Shows
  <1>1. /\ N \in Nat \ {0} /\ scenario.failStage \in -1 .. N - 1 /\ h \in Hooks /\ h.stage <= h.maxStage
        /\ queue \in Seq(0 .. N - 1) /\ walking = TRUE /\ h.status = "running" /\ scenario' = scenario
    BY StagesFact DEF IInv, TypeOK, ArmedWalks, LitIsReached, Steady, ArmedRuns,
                      TimerFires, Release, ReleaseAll, WalkEnds
  <1>2. CASE Release
    <2>1. h' = Light(h, Head(queue)) /\ Head(queue) \in 0 .. N - 1
      BY <1>1, <1>2 DEF Release
    <2>2. h'.status = "running" /\ h'.pending = h.pending
      BY <1>1, <2>1, LightKeeps
    <2> QED BY <1>1, <2>2 DEF Steady, ArmedRuns, PendingCounts, Shows, Settled, Ok
  <1>3. ASSUME NEW y \in Hooks, y.status = "running", y.pending = h.pending,
               h' = Settle(y), armed' = FALSE
        PROVE  Steady' /\ Shows
    <2>1. CASE y.pending = NoOutcome
      <3>1. h' = y
        BY <1>3, <2>1 DEF Settle
      <3> QED BY <1>3, <2>1, <3>1 DEF Steady, ArmedRuns, PendingCounts, Shows, Settled, NoOutcome
    <2>2. CASE y.pending # NoOutcome
      <3>1. Clean(h') /\ h'.pending = NoOutcome
        BY <1>1, <1>3, <2>2, SettleShows DEF Steady, PendingCounts
      <3> QED BY <1>3, <3>1 DEF Steady, ArmedRuns, PendingCounts, Shows, NoOutcome
    <2> QED BY <2>1, <2>2
  <1>4. CASE ReleaseAll
    <2>1. PICK i \in ToSet(queue) : h' = Settle(Light(h, i))
      BY <1>1, <1>4 DEF ReleaseAll
    <2>2. i \in 0 .. N - 1
      BY <1>1 DEF ToSet
    <2>3. Light(h, i) \in Hooks /\ Light(h, i).status = "running" /\ Light(h, i).pending = h.pending
      BY <1>1, <2>2, LightKeeps
    <2> QED BY <1>3, <1>4, <2>1, <2>3 DEF ReleaseAll
  <1>5. CASE WalkEnds
    BY <1>1, <1>3, <1>5 DEF WalkEnds
  <1> QED BY <1>2, <1>4, <1>5 DEF TimerFires

LEMMA RunSteady ==
  ASSUME IInv, Patient, Steady, Run
  PROVE  Steady' /\ Shows
  <1>1. /\ N \in Nat \ {0} /\ scenario.failStage \in -1 .. N - 1 /\ scenario' = scenario
        /\ queue \in Seq(0 .. N - 1) /\ walking \in BOOLEAN /\ "running" \in Status
    BY StagesFact DEF IInv, TypeOK, Status, Run
  <1>2. armed = FALSE
    BY DEF Run, Patient, RunningIsSeen, Steady, ArmedRuns, IInv, TypeOK
  <1>3. /\ FreshHook("running") \in Hooks /\ FreshHook("running").status = "running"
        /\ FreshHook("running").pending = NoOutcome /\ FreshHook("running").stage = -1
        /\ FreshHook("running").maxStage = -1
    BY <1>1, FreshFact
  <1>4. CASE Ok(scenario) /\ h' = FreshHook("running") /\ Flush
    BY <1>3, <1>4 DEF Flush, Steady, ArmedRuns, PendingCounts, Shows, Settled, NoOutcome
  <1> DEFINE x == [FreshHook("running") EXCEPT
                     !.pending = [kind |-> "error", failStage |-> scenario.failStage]]
  <1>5. CASE ~Ok(scenario) /\ Walk(x, scenario.failStage, FALSE)
    <2>1. scenario.failStage \in 0 .. N - 1
      BY <1>1, <1>5 DEF Ok
    <2>2. /\ [kind |-> "error", failStage |-> scenario.failStage] \in Outcomes
          /\ [kind |-> "error", failStage |-> scenario.failStage] # NoOutcome
      BY <1>1 DEF Outcomes, NoOutcome
    <2>3. /\ x \in Hooks /\ x.pending = [kind |-> "error", failStage |-> scenario.failStage]
          /\ x.stage <= x.maxStage /\ x.status = "running"
      BY <1>3, <2>2 DEF Hooks
    <2> HIDE DEF x
    <2>4. /\ armed' \/ paced => h'.status = "running"
          /\ h'.pending \in {x.pending, NoOutcome}
      BY <1>1, <1>5, <2>1, <2>2, <2>3, WalkSteady
    <2>5. Steady'
      BY <1>1, <1>5, <2>3, <2>4 DEF Steady, ArmedRuns, PendingCounts, NoOutcome, Ok
    <2>6. Shows
      BY <1>2, <2>4 DEF Shows, Settled
    <2> QED BY <2>5, <2>6
  <1> QED BY <1>4, <1>5 DEF Run

LEMMA LandSteady ==
  ASSUME IInv, Patient, Steady, NEW f \in inflight, NEW retrieved \in BOOLEAN, Land(f, retrieved)
  PROVE  Steady' /\ Shows
  <1> DEFINE reply == [run |-> f.run, retrieved |-> retrieved]
             told == [h EXCEPT !.fetchRes = reply, !.result = reply]
             outcome == [kind |-> IF retrieved THEN "done" ELSE "error",
                         failStage |-> IF retrieved THEN -1 ELSE 0]
             x == [told EXCEPT !.pending = outcome]
             target == IF retrieved THEN N - 1 ELSE 0
  <1>1. /\ N \in Nat \ {0} /\ h \in Hooks /\ h.stage <= h.maxStage
        /\ queue \in Seq(0 .. N - 1) /\ armed \in BOOLEAN /\ walking \in BOOLEAN
        /\ f \in Posts /\ f.scenario = scenario /\ scenario' = scenario
    BY StagesFact DEF IInv, TypeOK, LitIsReached, Patient, PostIsCurrent, Land
  <1>2. Ok(scenario) => h.status = "running" /\ armed = FALSE
    BY <1>1 DEF Patient, Waiting
  <1>3. reply \in Answers
    BY <1>1 DEF Posts, Answers
  <1>4. /\ outcome \in Outcomes /\ outcome # NoOutcome
        /\ outcome.kind = "error" => outcome.failStage = 0
    BY <1>1 DEF Outcomes, NoOutcome
  <1>5. CASE ~Ok(scenario) /\ h' = told /\ UNCHANGED <<queue, armed, walking>>
    <2> HIDE DEF reply
    <2>1. /\ h'.status = h.status /\ h'.pending = h.pending /\ h'.stage = h.stage
          /\ h'.completed = h.completed /\ armed' = armed
      BY <1>1, <1>3, <1>5 DEF Hooks
    <2> QED BY <1>1, <2>1 DEF Steady, ArmedRuns, PendingCounts, Shows, Settled, Clean, Ok
  <1>6. CASE Ok(scenario) /\ Walk(x, target, armed)
    <2>1. target \in 0 .. N - 1
      BY <1>1
    <2> HIDE DEF reply, outcome
    <2>2. /\ x \in Hooks /\ x.stage <= x.maxStage /\ x.status = "running" /\ x.pending = outcome
      BY <1>1, <1>2, <1>3, <1>4, <1>6 DEF Hooks
    <2>3. Walk(x, target, FALSE)
      BY <1>2, <1>6
    <2> HIDE DEF x, target
    <2>4. /\ armed' \/ paced => h'.status = "running"
          /\ h'.pending \in {outcome, NoOutcome}
      BY <1>1, <1>4, <2>1, <2>2, <2>3, WalkSteady
    <2>5. Steady'
      BY <1>1, <1>4, <1>6, <2>4 DEF Steady, ArmedRuns, PendingCounts, NoOutcome, Ok
    <2>6. Shows
      BY <1>2, <1>6, <2>4 DEF Shows, Settled
    <2> QED BY <2>5, <2>6
  <1> QED BY <1>1, <1>5, <1>6 DEF Land

LEMMA NextSteady ==
  ASSUME IInv, Patient, Steady, [Next]_vars
  PROVE  Steady' /\ Shows
  <1>1. CASE Lands
    BY <1>1, LandSteady DEF Lands
  <1>2. CASE Reset \/ \E s \in Scenarios : SelectScenario(s)
    <2>1. h' = FreshHook("idle") /\ armed' = FALSE
      BY <1>2 DEF Reset, SelectScenario, Flush
    <2>2. h'.status = "idle" /\ h'.pending = NoOutcome
      BY <2>1 DEF FreshHook
    <2> QED BY <2>1, <2>2 DEF Steady, ArmedRuns, PendingCounts, Shows, Settled, NoOutcome
  <1>3. CASE (\E p \in PaceChoices : SelectPace(p)) \/ Commit \/ CopyStatus \/ UNCHANGED vars
    <2>1. UNCHANGED <<scenario, h, armed>>
      BY <1>3 DEF SelectPace, Commit, CopyStatus, vars
    <2> QED BY <2>1 DEF Steady, ArmedRuns, PendingCounts, Shows, Settled, Clean, Ok
  <1> QED BY <1>1, <1>2, <1>3, RunSteady, TimerSteady DEF Next

(* If no run is left before its answer, a walk that has a timer or a pace  *)
(* settles with the stages it passed and none as under way, and no later   *)
(* stage or answer is lit over that (SettledView).                         *)
THEOREM WalksSettleClean == ASSUME ~LeavesEarly PROVE Spec => SettledView
  <1>1. Init => Steady
    BY DEF Init, Steady, ArmedRuns, PendingCounts, FreshHook, NoOutcome
  <1>2. IInv /\ Patient /\ Steady /\ [Next]_vars => Steady'
    BY NextSteady
  <1>3. IInv /\ Patient /\ Steady /\ [Next]_vars =>
          [(armed \/ paced) /\ Settled(h') => Clean(h') \/ (Settled(h) /\ ~Clean(h))]_vars
    BY NextSteady DEF Shows
  <1> QED BY <1>1, <1>2, <1>3, Inductive, StaysPatient, PTL DEF Spec, SettledView

-----------------------------------------------------------------------------
(***************************************************************************)
(* That a run ends is TLC's to check (RunSettles).  What no fairness would *)
(* help against is proved here, for any user: a run without anything on its*)
(* way that could end it.                                                  *)
(***************************************************************************)
(* The timer that is set has an outcome to apply at the end of its walk.   *)
ArmedPending == armed => h.pending # NoOutcome

(* A run has its timer set, or the POST of an expected success to come.    *)
UnderWay == h.status = "running" => armed \/ \E f \in inflight : Ok(f.scenario)

(* A walk settles at once, or leaves its timer set and the outcome with it.*)
LEMMA WalkUnderWay ==
  ASSUME N \in Nat \ {0}, NEW x \in Hooks, NEW target \in 0 .. N - 1, NEW timer \in BOOLEAN,
         x.stage <= x.maxStage, x.pending # NoOutcome,
         queue \in Seq(0 .. N - 1), walking \in BOOLEAN, timer => walking,
         Walk(x, target, timer)
  PROVE  ArmedPending' /\ (h'.status = "running" => armed')
  <1>1. x.pending.kind \in {"done", "error"}
    BY DEF Hooks, Outcomes
  <1>2. /\ (h'.pending # NoOutcome \/ queue' # <<>>) => armed'
        /\ \/ h'.pending = x.pending
           \/ h'.pending = NoOutcome /\ h'.status = x.pending.kind
    BY WalkKeeps
  <1>3. armed' => h'.pending = x.pending
    <2>1. CASE timer
      BY <2>1 DEF Walk
    <2>2. CASE ~timer /\ paced
      <3> DEFINE woken == WakeIfIdle(x)
      <3>1. woken \in Hooks /\ woken.stage <= woken.maxStage /\ woken.pending = x.pending
        BY WakeKeeps
      <3>2. h' = Light(woken, 0) /\ 0 \in 0 .. N - 1
        BY <2>2 DEF Walk
      <3> HIDE DEF woken
      <3> QED BY <3>1, <3>2, LightKeeps
    <2>3. CASE ~timer /\ ~paced
      BY <2>3 DEF Walk
    <2> QED BY <2>1, <2>2, <2>3
  <1> QED BY <1>1, <1>2, <1>3 DEF ArmedPending

LEMMA RunUnderWay ==
  ASSUME IInv, Run  PROVE ArmedPending' /\ UnderWay'
  <1>1. /\ N \in Nat \ {0} /\ scenario.failStage \in -1 .. N - 1 /\ "running" \in Status
        /\ queue \in Seq(0 .. N - 1) /\ walking \in BOOLEAN
    BY StagesFact DEF IInv, TypeOK, Status
  <1>2. [run |-> runs + 1, scenario |-> scenario] \in inflight'
    BY DEF Run
  <1>3. CASE Ok(scenario) /\ Flush
    BY <1>2, <1>3 DEF Flush, ArmedPending, UnderWay, Ok
  <1>4. CASE ~Ok(scenario)
    <2> DEFINE o == [kind |-> "error", failStage |-> scenario.failStage]
               x == [FreshHook("running") EXCEPT !.pending = o]
    <2>1. scenario.failStage \in 0 .. N - 1
      BY <1>1, <1>4 DEF Ok
    <2>2. o \in Outcomes /\ o # NoOutcome
      BY <1>1 DEF Outcomes, NoOutcome
    <2>3. x \in Hooks /\ x.pending # NoOutcome /\ x.stage <= x.maxStage
      <3>1. FreshHook("running") \in Hooks /\ FreshHook("running").stage <= FreshHook("running").maxStage
        BY <1>1, FreshFact
      <3> QED BY <2>2, <3>1 DEF Hooks
    <2>4. Walk(x, scenario.failStage, FALSE)
      BY <1>4 DEF Run
    <2> HIDE DEF x
    <2> QED BY <1>1, <2>1, <2>3, <2>4, WalkUnderWay DEF UnderWay
  <1> QED BY <1>3, <1>4 DEF Run

LEMMA LandUnderWay ==
  ASSUME IInv, ArmedPending, UnderWay, NEW f \in inflight, NEW retrieved \in BOOLEAN, Land(f, retrieved)
  PROVE  ArmedPending' /\ UnderWay'
  <1>1. /\ N \in Nat \ {0} /\ h \in Hooks /\ h.stage <= h.maxStage /\ f \in Posts
        /\ queue \in Seq(0 .. N - 1) /\ walking \in BOOLEAN /\ armed \in BOOLEAN /\ (armed => walking)
    BY StagesFact DEF IInv, TypeOK, LitIsReached, ArmedWalks
  <1> DEFINE answer == [run |-> f.run, retrieved |-> retrieved]
             told == [h EXCEPT !.fetchRes = answer, !.result = answer]
             outcome == [kind |-> IF retrieved THEN "done" ELSE "error",
                         failStage |-> IF retrieved THEN -1 ELSE 0]
  <1>2. CASE ~Ok(f.scenario)
    <2>1. /\ h'.status = h.status /\ h'.pending = h.pending /\ armed' = armed
          /\ inflight' = inflight \ {f}
      BY <1>1, <1>2 DEF Land, Hooks
    <2> QED BY <1>2, <2>1 DEF ArmedPending, UnderWay, Ok
  <1>3. CASE Ok(f.scenario)
    <2> DEFINE x == [told EXCEPT !.pending = outcome]
               target == IF retrieved THEN N - 1 ELSE 0
    <2>1. answer \in Answers
      BY <1>1 DEF Posts, Answers
    <2>2. outcome \in Outcomes /\ outcome # NoOutcome
      BY <1>1 DEF Outcomes, NoOutcome
    <2>3. Walk(x, target, armed)
      BY <1>3 DEF Land
    <2> HIDE DEF answer, outcome
    <2>4. x \in Hooks /\ x.pending # NoOutcome /\ x.stage <= x.maxStage
      BY <1>1, <2>1, <2>2 DEF Hooks
    <2>5. target \in 0 .. N - 1
      BY <1>1
    <2> HIDE DEF x, target
    <2> QED BY <1>1, <2>3, <2>4, <2>5, WalkUnderWay DEF UnderWay
  <1> QED BY <1>2, <1>3

LEMMA TimerUnderWay ==
  ASSUME IInv, ArmedPending, UnderWay, TimerFires  PROVE ArmedPending' /\ UnderWay'
  <1>1. /\ N \in Nat \ {0} /\ h \in Hooks /\ h.stage <= h.maxStage
        /\ queue \in Seq(0 .. N - 1) /\ armed = TRUE /\ walking = TRUE
        /\ h.pending # NoOutcome
    BY StagesFact DEF IInv, TypeOK, ArmedWalks, LitIsReached, ArmedPending,
                      TimerFires, Release, ReleaseAll, WalkEnds
  <1>2. h.pending.kind \in {"done", "error"}
    BY <1>1 DEF Hooks, Outcomes
  <1>3. CASE Release
    <2>1. h' = Light(h, Head(queue)) /\ Head(queue) \in 0 .. N - 1 /\ armed' = TRUE
      BY <1>1, <1>3 DEF Release
    <2>2. h'.pending = h.pending
      BY <1>1, <2>1, LightKeeps
    <2> QED BY <1>1, <2>1, <2>2 DEF ArmedPending, UnderWay
  <1>4. ASSUME NEW x \in Hooks, x.stage <= x.maxStage, x.pending = h.pending, h' = Settle(x), ~armed'
        PROVE  ArmedPending' /\ UnderWay'
    <2>1. h'.status = h.pending.kind
      BY <1>1, <1>4, SettleKeeps
    <2> QED BY <1>2, <1>4, <2>1 DEF ArmedPending, UnderWay
  <1>5. CASE ReleaseAll
    <2>1. PICK i \in ToSet(queue) : h' = Settle(Light(h, i))
      BY <1>1, <1>5 DEF ReleaseAll
    <2>2. i \in 0 .. N - 1
      BY <1>1 DEF ToSet
    <2> DEFINE x == Light(h, i)
    <2>3. x \in Hooks /\ x.stage <= x.maxStage /\ x.pending = h.pending
      BY <1>1, <2>2, LightKeeps
    <2>4. h' = Settle(x) /\ ~armed'
      BY <1>5, <2>1 DEF ReleaseAll
    <2> HIDE DEF x
    <2> QED BY <1>4, <2>3, <2>4
  <1>6. CASE WalkEnds
    <2>1. h' = Settle(h) /\ ~armed'
      BY <1>1, <1>6 DEF WalkEnds
    <2> QED BY <1>1, <1>4, <2>1
  <1> QED BY <1>3, <1>5, <1>6 DEF TimerFires

LEMMA NextUnderWay ==
  ASSUME IInv, ArmedPending, UnderWay, [Next]_vars  PROVE ArmedPending' /\ UnderWay'
  <1>1. CASE Reset \/ \E s \in Scenarios : SelectScenario(s)
    BY <1>1 DEF Reset, SelectScenario, Flush, FreshHook, ArmedPending, UnderWay
  <1>2. CASE (\E p \in PaceChoices : SelectPace(p)) \/ Commit \/ CopyStatus \/ UNCHANGED vars
    BY <1>2 DEF SelectPace, Commit, CopyStatus, vars, ArmedPending, UnderWay, Ok
  <1>3. CASE Lands
    BY <1>3, LandUnderWay DEF Lands
  <1> QED BY <1>1, <1>2, <1>3, RunUnderWay, TimerUnderWay DEF Next

(* A page that says "running" has its timer set, with an outcome that the  *)
(* end of the walk applies, or awaits the answer of an expected success,   *)
(* whose landing sets one: whatever the user leaves and starts meanwhile,  *)
(* no run is left with nothing that could end it.                          *)
THEOREM RunIsUnderWay == Spec => [](UnderWay /\ ArmedPending)
  <1>1. Init => UnderWay /\ ArmedPending
    BY DEF Init, UnderWay, ArmedPending, FreshHook
  <1>2. IInv /\ UnderWay /\ ArmedPending /\ [Next]_vars => (UnderWay /\ ArmedPending)'
    BY NextUnderWay
  <1> QED BY <1>1, <1>2, Inductive, PTL DEF Spec

-----------------------------------------------------------------------------
(***************************************************************************)
(* The views of a run (module Inspectors).  What they need of a provider's *)
(* tables is stated first (PageFits) and shown of the five providers; that *)
(* they agree then follows from how the lit stage and the count of stages  *)
(* go together in every state of the engine (InStep).                      *)
(***************************************************************************)
(* The page shows one of the portal's providers, in a scenario of its own. *)
RealPages ==
  /\ Scenarios \subseteq Catalogue
  /\ \A s \in Scenarios : StageCount[s.provider] = Provider(s.provider).stages

(* The stages of a node follow each other, it is done after the last, and  *)
(* it is to fail when the scenario fails at one of them and only then.     *)
NodeFits(n) ==
  \E first, last \in 0 .. N - 1 :
    /\ first <= last /\ n.stages = first .. last /\ n.doneAfter = last + 1
    /\ failStage \in n.failsAt <=> failStage \in n.stages

(* There is a layer to each stage, and the trace tells of success at the   *)
(* last and of a denial at the one that denies.                            *)
PageFits ==
  /\ LayerCount(Page) = N /\ successStage(Page) = N - 1
  /\ ~Ok(scenario) => denyStage(Page, scenario.key) = failStage
  /\ \A n \in Nodes(Page) : NodeFits(n)

(* Table by table: the nodes, then the rest of each provider.              *)
LEMMA OneNode ==
  ASSUME NEW first \in 0 .. N - 1, NEW last \in 0 .. N - 1, first <= last, N \in Nat, NEW failsAt,
         failStage \in failsAt <=> failStage \in first .. last
  PROVE  NodeFits(Node(first .. last, last + 1, failsAt))
  BY DEF NodeFits, Node

LEMMA Spans ==
  /\ {0} = 0 .. 0 /\ {1} = 1 .. 1 /\ {2} = 2 .. 2 /\ {3} = 3 .. 3 /\ {4} = 4 .. 4 /\ {5} = 5 .. 5
  /\ {1, 2} = 1 .. 2 /\ {2, 3} = 2 .. 3 /\ {3, 4} = 3 .. 4
  OBVIOUS


LEMMA NodesFit ==
  /\ N = 5 /\ failStage \in {-1, 1, 3} => \A n \in cpNodes : NodeFits(n)
  /\ N = 4 /\ failStage \in {-1, 1, 2} => \A n \in ccpNodes : NodeFits(n)
  /\ N = 6 /\ failStage \in {-1, 2, 3, 4} => \A n \in swaNodes : NodeFits(n)
  /\ N = 5 /\ failStage \in {-1, 2, 4} => \A n \in jwtNodes : NodeFits(n)
  /\ N = 6 /\ failStage \in {-1, 3, 5} => \A n \in iamNodes : NodeFits(n)
  <1>1. N = 5 /\ failStage \in {-1, 1, 3} => \A n \in cpNodes : NodeFits(n)
    BY OneNode, Spans DEF cpNodes
  <1>2. N = 4 /\ failStage \in {-1, 1, 2} => \A n \in ccpNodes : NodeFits(n)
    BY OneNode, Spans DEF ccpNodes
  <1>3. N = 6 /\ failStage \in {-1, 2, 3, 4} => \A n \in swaNodes : NodeFits(n)
    BY OneNode, Spans DEF swaNodes
  <1>4. N = 5 /\ failStage \in {-1, 2, 4} => \A n \in jwtNodes : NodeFits(n)
    BY OneNode, Spans DEF jwtNodes
  <1>5. N = 6 /\ failStage \in {-1, 3, 5} => \A n \in iamNodes : NodeFits(n)
    BY OneNode, Spans DEF iamNodes
  <1> QED BY <1>1, <1>2, <1>3, <1>4, <1>5

LEMMA TablesFit ==
  ASSUME RealPages, scenario \in Scenarios
  PROVE  PageFits
  <1>0. PICK p \in ProviderIds : \E s \in Provider(p).scenarios : scenario = Scenario(p, s)
    BY DEF RealPages, Catalogue
  <1>1. PICK s \in Provider(p).scenarios : scenario = Scenario(p, s)
    BY <1>0
  <1>2. /\ Page = p /\ failStage = s[2] /\ scenario.key = s[1] /\ N = Provider(p).stages
        /\ Ok(scenario) <=> s[2] = -1
    BY <1>1 DEF RealPages, Page, failStage, N, Scenario, Ok
  <1>3. CASE p = "cp"
    <2>1. N = 5 /\ LayerCount(Page) = 5 /\ successStage(Page) = 4 /\ Nodes(Page) = cpNodes
      BY <1>2, <1>3 DEF Provider, cpProvider, LayerCount, cpLayers, successStage, Nodes
    <2>2. s \in {<<"authorized", -1>>, <<"invalid-hash", 1>>, <<"denied", 3>>, <<"dual", -1>>}
      BY <1>1, <1>3 DEF Provider, cpProvider
    <2>3. failStage \in {-1, 1, 3}
      BY <1>2, <2>2
    <2>4. ~Ok(scenario) => denyStage(Page, scenario.key) = failStage
      BY <1>2, <1>3, <2>2 DEF denyStage, cpDenyStage
    <2> QED BY <2>1, <2>3, <2>4, NodesFit DEF PageFits
  <1>4. CASE p = "ccp"
    <2>1. N = 4 /\ LayerCount(Page) = 4 /\ successStage(Page) = 3 /\ Nodes(Page) = ccpNodes
      BY <1>2, <1>4 DEF Provider, ccpProvider, LayerCount, ccpLayers, successStage, Nodes
    <2>2. s \in {<<"authorized", -1>>, <<"no-cert", 1>>, <<"denied", 2>>, <<"dual", -1>>}
      BY <1>1, <1>4 DEF Provider, ccpProvider
    <2>3. failStage \in {-1, 1, 2}
      BY <1>2, <2>2
    <2>4. ~Ok(scenario) => denyStage(Page, scenario.key) = failStage
      BY <1>2, <1>4, <2>2 DEF denyStage, ccpDenyStage
    <2> QED BY <2>1, <2>3, <2>4, NodesFit DEF PageFits
  <1>5. CASE p = "swa"
    <2>1. N = 6 /\ LayerCount(Page) = 6 /\ successStage(Page) = 5 /\ Nodes(Page) = swaNodes
      BY <1>2, <1>5 DEF Provider, swaProvider, LayerCount, swaLayers, successStage, Nodes
    <2>2. s \in {<<"trusted", -1>>, <<"untrusted", 4>>, <<"unknown", 2>>, <<"foreign", 3>>}
      BY <1>1, <1>5 DEF Provider, swaProvider
    <2>3. failStage \in {-1, 2, 3, 4}
      BY <1>2, <2>2
    <2>4. ~Ok(scenario) => denyStage(Page, scenario.key) = failStage
      BY <1>2, <1>5, <2>2 DEF denyStage, swaDenyStage
    <2> QED BY <2>1, <2>3, <2>4, NodesFit DEF PageFits
  <1>6. ASSUME NEW jwt \in BOOLEAN, p = IF jwt THEN "conjur-jwt" ELSE "conjur-iam"
        PROVE  PageFits
    <2>1. /\ N = readStage(jwt) + 1 /\ LayerCount(Page) = N /\ successStage(Page) = readStage(jwt)
          /\ Nodes(Page) = IF jwt THEN jwtNodes ELSE iamNodes
      BY <1>2, <1>6 DEF Provider, makeConjur, LayerCount, conjurLayers, successStage, Nodes, readStage
    <2>2. s \in {<<"authorized", -1>>, <<"invalid", authnFail(jwt)>>, <<"denied", readStage(jwt)>>}
      BY <1>1, <1>6 DEF Provider, makeConjur
    <2>3. failStage \in {-1, authnFail(jwt), readStage(jwt)}
      BY <1>2, <2>2
    <2>4. ~Ok(scenario) => denyStage(Page, scenario.key) = failStage
      BY <1>2, <1>6, <2>2 DEF denyStage, conjurDenyStage
    <2> QED BY <2>1, <2>3, <2>4, NodesFit DEF PageFits, readStage, authnFail
  <1> QED BY <1>3, <1>4, <1>5, <1>6 DEF ProviderIds

-----------------------------------------------------------------------------
(* The stages that the scenario passes when it fails.                      *)
Passed == IF Ok(scenario) THEN 0 ELSE failStage
(* What is lit and what is counted are of one stage, at rest nothing is    *)
(* counted, and a settled run counts the stages it passed; if one is lit   *)
(* over it, as with the pace off, it is the last that the run came to.     *)
InStep(x) ==
  /\ x.stage >= 0 => x.completed = x.stage
  /\ x.stage = -1 /\ ~Settled(x) => x.completed = 0
  /\ x.status = "done" => (x.stage = -1 /\ x.completed = N) \/ x.stage = N - 1
  /\ x.status = "error" => x.completed = Passed /\ x.stage \in {-1, failStage}

LEMMA LayerIs ==
  ASSUME NEW idx \in Int, failStage \in Int, h.completed \in Int, h.stage \in Int
  PROVE  /\ LayerState(idx) = "rejected" <=> errored /\ idx = failStage
         /\ LayerState(idx) = "passed" <=> IF errored THEN idx < failStage ELSE idx < h.completed
         /\ LayerState(idx) = "active" <=> ~errored /\ h.completed <= idx /\ h.stage = idx
  BY DEF LayerState

(* What the values shown can be; the rest is in terms of these.            *)
Values ==
  /\ N \in Nat \ {0} /\ failStage \in -1 .. N - 1
  /\ h.status \in Status /\ h.stage \in -1 .. N - 1 /\ h.completed \in 0 .. N

LEMMA StepsAgree ==
  ASSUME TypeOK, InStep(h)
  PROVE  /\ Values
         /\ errored => /\ h.completed = IF failStage > 0 THEN failStage ELSE 0
                       /\ h.stage \in {-1, failStage}
         /\ ~errored => IF h.stage >= 0 THEN h.completed = h.stage ELSE h.completed \in {0, N}
  <1>1. Values
    BY StagesFact DEF Values, TypeOK, Hooks, failStage
  <1> QED BY <1>1 DEF Values, InStep, Passed, Ok, Settled, errored, Status, failStage

(* A node of the topology says what the layers of its stages say, and the  *)
(* connector into it is drawn with it.                                     *)
LEMMA NodeAgrees ==
  ASSUME TypeOK, InStep(h), NEW n, NodeFits(n)
  PROVE  LET layers == {LayerState(i) : i \in n.stages}
         IN  /\ NodeState(n) = "failed" <=> "rejected" \in layers
             /\ NodeState(n) = "done" <=> layers = {"passed"}
             /\ NodeState(n) = "active" <=> "active" \in layers
             /\ 0 \notin n.stages => (NodeState(n) # "locked" <=> LinkState(n) # "locked")
  <1> DEFINE layers == {LayerState(i) : i \in n.stages}
  <1>1. PICK first \in 0 .. N - 1, last \in 0 .. N - 1 :
          /\ first <= last /\ n.stages = first .. last /\ n.doneAfter = last + 1
          /\ failStage \in n.failsAt <=> failStage \in n.stages
    BY DEF NodeFits
  <1>2. /\ Values
        /\ errored => /\ h.completed = IF failStage > 0 THEN failStage ELSE 0
                      /\ h.stage \in {-1, failStage}
        /\ ~errored => IF h.stage >= 0 THEN h.completed = h.stage ELSE h.completed \in {0, N}
    BY StepsAgree
  <1>3. \A i \in n.stages :
          /\ LayerState(i) = "rejected" <=> errored /\ i = failStage
          /\ LayerState(i) = "passed" <=> IF errored THEN i < failStage ELSE i < h.completed
          /\ LayerState(i) = "active" <=> ~errored /\ h.completed <= i /\ h.stage = i
    BY <1>1, <1>2, LayerIs DEF Values
  <1>4. /\ NodeState(n) = "failed" <=> errored /\ failStage \in first .. last
        /\ NodeState(n) = "done" <=> last < h.completed /\ ~(errored /\ failStage \in first .. last)
        /\ NodeState(n) = "active" <=> /\ h.stage \in first .. last /\ h.completed <= last
                                      /\ ~(errored /\ failStage \in first .. last)
        /\ NodeState(n) = "locked" <=> /\ ~(errored /\ failStage \in first .. last)
                                      /\ h.completed <= last /\ h.stage \notin first .. last
    BY <1>1, <1>2 DEF NodeState, Values
  <1>5. NodeState(n) = "failed" <=> "rejected" \in layers
    BY <1>1, <1>3, <1>4
  <1>6. NodeState(n) = "done" <=> layers = {"passed"}
    <2>1. layers = {"passed"} <=> \A i \in first .. last : LayerState(i) = "passed"
      <3>1. first \in first .. last
        BY <1>1, <1>2 DEF Values
      <3> QED BY <1>1, <3>1
    <2>2. (\A i \in first .. last : LayerState(i) = "passed") <=>
             IF errored THEN last < failStage ELSE last < h.completed
      BY <1>1, <1>2, <1>3 DEF Values
    <2>3. NodeState(n) = "done" <=> IF errored THEN last < failStage ELSE last < h.completed
      BY <1>1, <1>2, <1>4 DEF Values
    <2> QED BY <2>1, <2>2, <2>3
  <1>7. NodeState(n) = "active" <=> "active" \in layers
    <2>1. "active" \in layers <=> ~errored /\ h.stage \in first .. last /\ h.completed <= h.stage
      BY <1>1, <1>3
    <2> QED BY <1>1, <1>2, <1>4, <2>1 DEF Values
  <1>8. ASSUME 0 \notin n.stages PROVE NodeState(n) # "locked" <=> LinkState(n) # "locked"
    <2> DEFINE into == CHOOSE i \in n.stages : \A j \in n.stages : i <= j
    <2>1. into = first
      <3>1. first \in n.stages /\ \A j \in n.stages : first <= j
        BY <1>1, <1>2 DEF Values
      <3>2. into \in n.stages /\ \A j \in n.stages : into <= j
        BY <3>1
      <3>3. into <= first /\ first <= into /\ into \in Int /\ first \in Int
        BY <1>1, <1>2, <3>1, <3>2 DEF Values
      <3> HIDE DEF into
      <3> QED BY <3>3
    <2>2. LinkState(n) =
            IF errored /\ failStage >= 0 /\ first > failStage THEN "locked"
            ELSE IF h.stage = first THEN "active"
            ELSE IF h.completed >= first THEN "done" ELSE "locked"
      BY <2>1 DEF LinkState
    <2>3. 0 < first
      BY <1>1, <1>2, <1>8 DEF Values
    <2> QED BY <1>1, <1>2, <1>4, <2>2, <2>3 DEF Values
  <1> QED BY <1>5, <1>6, <1>7, <1>8

(* The rail is filled past the layers that were passed.                    *)
LEMMA RailAgrees ==
  ASSUME TypeOK, InStep(h), PageFits
  PROVE  passedCount = Cardinality({i \in Layers : LayerState(i) = "passed"})
  <1> DEFINE count == IF errored THEN (IF failStage > 0 THEN failStage ELSE 0) ELSE h.completed
  <1>1. Values /\ LayerCount(Page) = N
    BY StepsAgree DEF PageFits
  <1>2. passedCount = count /\ count \in 0 .. N
    BY <1>1 DEF passedCount, Values
  <1>3. \A i \in Layers : LayerState(i) = "passed" <=> i < count
    BY <1>1, LayerIs DEF Layers, Values
  <1> HIDE DEF count
  <1>4. {i \in Layers : LayerState(i) = "passed"} = 0 .. count - 1
    BY <1>1, <1>2, <1>3 DEF Layers, Values
  <1>5. Cardinality(0 .. count - 1) = count
    <2>1. 0 \in Int /\ count - 1 \in Int
      BY <1>2
    <2> QED BY <1>2, <2>1, FS_Interval
  <1> QED BY <1>2, <1>4, <1>5

LEMMA StagesDoAgree ==
  ASSUME TypeOK, IdleIsClean, InStep(h), PageFits
  PROVE  StagesAgree
  <1>1. Values /\ LayerCount(Page) = N
    BY StepsAgree DEF PageFits
  <1>2. ASSUME NEW i \in Layers, LayerState(i) \in {"active", "rejected"}
        PROVE  revealIndex = i /\ dotPos = i
    <2>1. \/ errored /\ i = failStage
          \/ ~errored /\ h.completed <= i /\ h.stage = i
      BY <1>1, <1>2, LayerIs DEF Layers, Values
    <2>2. CASE errored
      BY <2>1, <2>2 DEF revealIndex, dotPos, errored
    <2>3. CASE ~errored
      <3>1. i >= 0 /\ h.stage = i /\ h.completed = i /\ i \in Int
        BY <1>1, <2>1, <2>3 DEF Layers, Values, InStep
      <3>2. h.status = "done" => i = N - 1
        BY <1>1, <3>1 DEF InStep, Values
      <3>3. h.status # "idle"
        BY <3>1 DEF IdleIsClean, FreshHook
      <3> QED BY <1>1, <2>3, <3>1, <3>2, <3>3 DEF revealIndex, dotPos, errored, Values, Status
    <2> QED BY <2>2, <2>3
  <1> QED BY <1>2, NodeAgrees, RailAgrees DEF StagesAgree, PageFits

(* The trace tells what the result region shows.                           *)
LEMMA TraceDoesTell ==
  ASSUME TypeOK, OutcomeIsTrue, InStep(h), PageFits
  PROVE  TraceTells
  <1> SUFFICES ASSUME h.result # NoAnswer, h.result.retrieved => Ok(scenario)
               PROVE  /\ paneShows = "success" <=> traceTells = "success"
                      /\ paneShows = "denial" /\ ~Ok(scenario) => traceTells = "denial"
                      /\ traceTells = "denial" => paneShows = "denial"
    BY DEF TraceTells
  <1>1. Values
    BY StepsAgree
  <1>2. /\ successStage(Page) = N - 1
        /\ ~Ok(scenario) => denyStage(Page, scenario.key) = failStage
    BY DEF PageFits
  <1>3. h.result.retrieved \in BOOLEAN
    BY DEF TypeOK, Hooks, Answers
  <1>4. /\ h.status = "done" => h.result.retrieved
        /\ errored /\ Ok(scenario) => ~h.result.retrieved
    BY DEF OutcomeIsTrue, DoneByOwnPost, errored
  <1>5. CASE h.status = "done"
    <2>1. paneShows = "success" /\ revealIndex = N - 1
      BY <1>5 DEF paneShows, revealIndex, errored
    <2>2. traceTells = "success"
      BY <1>1, <1>2, <1>4, <1>5, <2>1 DEF traceTells, Values
    <2> QED BY <2>1, <2>2
  <1>6. CASE errored
    <2>1. paneShows = "denial" /\ revealIndex = failStage /\ ~h.result.retrieved
      BY <1>3, <1>4, <1>6 DEF paneShows, revealIndex, errored
    <2>2. traceTells # "success"
      BY <2>1 DEF traceTells
    <2>3. ~Ok(scenario) => traceTells = "denial"
      BY <1>1, <1>2, <1>6, <2>1 DEF traceTells, errored, Values
    <2> QED BY <2>1, <2>2, <2>3
  <1>7. CASE h.status \in {"idle", "running"}
    BY <1>7 DEF paneShows, traceTells, errored
  <1> QED BY <1>1, <1>5, <1>6, <1>7 DEF Values, Status, errored

-----------------------------------------------------------------------------
(* The callbacks of the queue keep lit stage and count in step.            *)
LEMMA LightInStep ==
  ASSUME N \in Nat \ {0}, NEW x \in Hooks, x.status = "running", InStep(x), NEW i \in 0 .. N - 1
  PROVE  InStep(Light(x, i))
  <1>1. CASE seen = "running" /\ i > x.maxStage
    <2>1. Light(x, i).stage = i /\ Light(x, i).completed = i /\ Light(x, i).status = "running"
      BY <1>1 DEF Light, Hooks
    <2> QED BY <2>1 DEF InStep
  <1>2. CASE ~(seen = "running" /\ i > x.maxStage)
    BY <1>2 DEF Light
  <1> QED BY <1>1, <1>2

LEMMA SettleInStep ==
  ASSUME N \in Nat \ {0}, failStage \in -1 .. N - 1, NEW x \in Hooks, x.status = "running", InStep(x),
         x.pending.kind = "error" => x.pending.failStage = Passed
  PROVE  InStep(Settle(x))
  <1>1. CASE x.pending = NoOutcome
    BY <1>1 DEF Settle
  <1>2. CASE x.pending # NoOutcome
    <2>1. x.pending.kind \in {"done", "error"} /\ Settled(x) = FALSE
      BY <1>2 DEF Hooks, Outcomes, Settled
    <2>2. /\ Settle(x).stage = -1 /\ Settle(x).status = x.pending.kind
          /\ Settle(x).completed = IF x.pending.kind = "done" THEN N
                                   ELSE IF x.pending.failStage > 0 THEN x.pending.failStage ELSE 0
      BY <1>2 DEF Settle, Hooks
    <2>3. Passed \in 0 .. N - 1
      BY DEF Passed, Ok, failStage
    <2> QED BY <2>1, <2>2, <2>3 DEF InStep, Settled
  <1> QED BY <1>1, <1>2

LEMMA AtOnceInStep ==
  ASSUME N \in Nat \ {0}, failStage \in -1 .. N - 1, NEW x \in Hooks, x.status = "running", InStep(x),
         x.stage <= x.maxStage, x.pending # NoOutcome,
         x.pending.kind = "error" => x.pending.failStage = Passed,
         NEW target, target = IF x.pending.kind = "done" THEN N - 1 ELSE Passed
  PROVE  InStep(AtOnce(x, target))
  <1> DEFINE woken == WakeIfIdle(x)
             lit == Light(woken, 0)
             first == Settle(lit)
             again == Wake(first)
             last == Light(again, target)
  <1>1. woken = x
    BY DEF WakeIfIdle, Wake, Hooks
  <1>2. /\ lit \in Hooks /\ lit.status = "running" /\ lit.pending = x.pending
        /\ lit.stage <= lit.maxStage /\ InStep(lit)
    <2>1. 0 \in 0 .. N - 1
      OBVIOUS
    <2> QED BY <1>1, <2>1, LightKeeps, LightInStep
  <1>3. first \in Hooks /\ InStep(first) /\ first.status = x.pending.kind /\ first.pending = NoOutcome
    <2> HIDE DEF lit
    <2> QED BY <1>2, SettleKeeps, SettleInStep
  <1>4. x.pending.kind \in {"done", "error"}
    BY DEF Hooks, Outcomes
  <1>5. again = first
    <2> HIDE DEF first
    <2> QED BY <1>3, <1>4 DEF Wake
  <1>6. CASE target = 0
    BY <1>3, <1>6 DEF AtOnce
  <1>7. CASE target # 0
    <2>1. AtOnce(x, target) = last
      BY <1>7 DEF AtOnce
    <2>2. target \in 0 .. N - 1 /\ (first.status = "error" => target = Passed /\ target = failStage)
      BY <1>3, <1>4, <1>7 DEF Passed, Ok, failStage
    <2>3. \/ last = first
          \/ last.stage = target /\ last.completed = target /\ last.status = first.status
      <3> HIDE DEF first
      <3> QED BY <1>3, <1>5 DEF Light, Hooks
    <2>4. first.status = "done" => target = N - 1
      BY <1>3
    <2> HIDE DEF first, last
    <2> QED BY <1>3, <2>1, <2>2, <2>3, <2>4 DEF InStep
  <1> QED BY <1>6, <1>7

LEMMA WalkInStep ==
  ASSUME N \in Nat \ {0}, failStage \in -1 .. N - 1, NEW x \in Hooks, x.status = "running", InStep(x),
         x.stage <= x.maxStage, x.pending # NoOutcome,
         x.pending.kind = "error" => x.pending.failStage = Passed,
         NEW target, target = IF x.pending.kind = "done" THEN N - 1 ELSE Passed,
         Walk(x, target, FALSE)
  PROVE  InStep(h')
  <1>1. CASE paced
    <2>1. h' = Light(x, 0) /\ 0 \in 0 .. N - 1
      BY <1>1 DEF Walk, WakeIfIdle, Wake, Hooks
    <2> QED BY <2>1, LightInStep
  <1>2. CASE ~paced
    BY <1>2, AtOnceInStep DEF Walk
  <1> QED BY <1>1, <1>2

(* A step that keeps the scenario keeps the measure of its runs.           *)
LEMMA SameInStep ==
  ASSUME scenario' = scenario, InStep(h')  PROVE InStep(h)'
  BY DEF InStep, Settled, Passed, Ok, failStage, N

LEMMA RunInStep ==
  ASSUME IInv, Run  PROVE InStep(h)'
  <1>1. /\ N \in Nat \ {0} /\ failStage \in -1 .. N - 1 /\ scenario' = scenario
        /\ "running" \in Status
    BY StagesFact DEF IInv, Status, Run, failStage
  <1>2. /\ FreshHook("running") \in Hooks /\ FreshHook("running").status = "running"
        /\ FreshHook("running").stage = -1 /\ FreshHook("running").maxStage = -1
        /\ FreshHook("running").completed = 0
    BY <1>1, FreshFact DEF FreshHook
  <1>3. CASE Ok(scenario) /\ h' = FreshHook("running") /\ Flush
    BY <1>1, <1>2, <1>3, SameInStep DEF InStep
  <1> DEFINE outcome == [kind |-> "error", failStage |-> scenario.failStage]
             x == [FreshHook("running") EXCEPT !.pending = outcome]
  <1>4. CASE ~Ok(scenario) /\ Walk(x, scenario.failStage, FALSE)
    <2>1. /\ outcome \in Outcomes /\ outcome # NoOutcome /\ outcome.kind = "error"
          /\ outcome.failStage = Passed /\ scenario.failStage = Passed
      BY <1>1, <1>4 DEF Outcomes, NoOutcome, Passed, Ok, failStage
    <2> HIDE DEF outcome
    <2>2. /\ x \in Hooks /\ x.pending = outcome /\ x.status = "running"
          /\ x.stage = -1 /\ x.maxStage = -1 /\ x.completed = 0
      BY <1>2, <2>1 DEF Hooks
    <2> HIDE DEF x
    <2>3. InStep(x) /\ x.stage <= x.maxStage
      BY <2>2 DEF InStep
    <2>4. InStep(h')
      BY <1>1, <1>4, <2>1, <2>2, <2>3, WalkInStep
    <2> QED BY <1>1, <2>4, SameInStep
  <1> QED BY <1>3, <1>4 DEF Run

LEMMA LandInStep ==
  ASSUME IInv, Patient, InStep(h), NEW f \in inflight, NEW retrieved \in BOOLEAN, Land(f, retrieved)
  PROVE  InStep(h)'
  <1> DEFINE reply == [run |-> f.run, retrieved |-> retrieved]
             told == [h EXCEPT !.fetchRes = reply, !.result = reply]
             outcome == [kind |-> IF retrieved THEN "done" ELSE "error",
                         failStage |-> IF retrieved THEN -1 ELSE 0]
             x == [told EXCEPT !.pending = outcome]
             target == IF retrieved THEN N - 1 ELSE 0
  <1>1. /\ N \in Nat \ {0} /\ failStage \in -1 .. N - 1 /\ h \in Hooks /\ h.stage <= h.maxStage
        /\ f \in Posts /\ f.scenario = scenario /\ scenario' = scenario
    BY StagesFact DEF IInv, TypeOK, LitIsReached, Patient, PostIsCurrent, Land, failStage
  <1>2. Ok(scenario) => h.status = "running" /\ ~armed
    BY DEF Patient, Waiting
  <1>3. reply \in Answers
    BY <1>1 DEF Posts, Answers
  <1>4. outcome \in Outcomes /\ outcome # NoOutcome
    BY <1>1 DEF Outcomes, NoOutcome
  <1>5. CASE ~Ok(scenario) /\ h' = told
    <2> HIDE DEF reply
    <2>1. h'.stage = h.stage /\ h'.completed = h.completed /\ h'.status = h.status
      BY <1>1, <1>5 DEF Hooks
    <2>2. InStep(h')
      BY <2>1 DEF InStep, Settled
    <2> QED BY <1>1, <2>2, SameInStep
  <1>6. CASE Ok(scenario) /\ Walk(x, target, armed)
    <2>1. /\ outcome.kind = "error" => outcome.failStage = Passed
          /\ target = IF outcome.kind = "done" THEN N - 1 ELSE Passed
      BY <1>6 DEF Passed
    <2> HIDE DEF reply, outcome, target
    <2>2. /\ x \in Hooks /\ x.pending = outcome /\ x.status = "running"
          /\ x.stage = h.stage /\ x.maxStage = h.maxStage /\ x.completed = h.completed
      BY <1>1, <1>2, <1>3, <1>4, <1>6 DEF Hooks
    <2> HIDE DEF x
    <2>3. InStep(x) /\ x.stage <= x.maxStage
      BY <1>1, <1>2, <1>6, <2>2 DEF InStep, Settled
    <2>4. Walk(x, target, FALSE)
      BY <1>2, <1>6 DEF Walk
    <2>5. InStep(h')
      BY <1>1, <1>4, <2>1, <2>2, <2>3, <2>4, WalkInStep
    <2> QED BY <1>1, <2>5, SameInStep
  <1> QED BY <1>1, <1>5, <1>6 DEF Land

LEMMA TimerInStep ==
  ASSUME IInv, Steady, InStep(h), TimerFires  PROVE InStep(h)'
  <1>1. /\ N \in Nat \ {0} /\ failStage \in -1 .. N - 1 /\ h \in Hooks /\ h.stage <= h.maxStage
        /\ queue \in Seq(0 .. N - 1) /\ walking = TRUE /\ h.status = "running" /\ scenario' = scenario
        /\ h.pending.kind = "error" => h.pending.failStage = Passed
    BY StagesFact DEF IInv, TypeOK, ArmedWalks, LitIsReached, Steady, ArmedRuns, PendingCounts,
                      Passed, failStage, TimerFires, Release, ReleaseAll, WalkEnds
  <1>2. CASE Release
    <2>1. h' = Light(h, Head(queue)) /\ Head(queue) \in 0 .. N - 1
      BY <1>1, <1>2 DEF Release
    <2> QED BY <1>1, <2>1, LightInStep, SameInStep
  <1>3. CASE ReleaseAll
    <2>1. PICK i \in ToSet(queue) : h' = Settle(Light(h, i))
      BY <1>1, <1>3 DEF ReleaseAll
    <2>2. i \in 0 .. N - 1
      BY <1>1 DEF ToSet
    <2> DEFINE lit == Light(h, i)
    <2>3. lit \in Hooks /\ lit.status = "running" /\ lit.pending = h.pending /\ InStep(lit)
      BY <1>1, <2>2, LightKeeps, LightInStep
    <2>4. h' = Settle(lit)
      BY <2>1
    <2> HIDE DEF lit
    <2>5. InStep(h')
      BY <1>1, <2>3, <2>4, SettleInStep
    <2> QED BY <1>1, <2>5, SameInStep
  <1>4. CASE WalkEnds
    <2>1. h' = Settle(h)
      BY <1>1, <1>4 DEF WalkEnds
    <2> QED BY <1>1, <2>1, SettleInStep, SameInStep
  <1> QED BY <1>2, <1>3, <1>4 DEF TimerFires

LEMMA NextInStep ==
  ASSUME IInv, Patient, Steady, InStep(h), [Next]_vars  PROVE InStep(h)'
  <1>1. CASE Lands
    BY <1>1, LandInStep DEF Lands
  <1>2. CASE Reset \/ \E s \in Scenarios : SelectScenario(s)
    <2>1. h' = FreshHook("idle")
      BY <1>2 DEF Reset, SelectScenario
    <2>2. h'.status = "idle" /\ h'.stage = -1 /\ h'.completed = 0
      BY <2>1 DEF FreshHook
    <2> QED BY <2>2 DEF InStep
  <1>3. CASE (\E p \in PaceChoices : SelectPace(p)) \/ Commit \/ CopyStatus \/ UNCHANGED vars
    <2>1. UNCHANGED <<scenario, h>>
      BY <1>3 DEF SelectPace, Commit, CopyStatus, vars
    <2> QED BY <2>1, SameInStep
  <1> QED BY <1>1, <1>2, <1>3, RunInStep, TimerInStep DEF Next

LEMMA StaysInStep == ASSUME ~LeavesEarly PROVE Spec => []InStep(h)
  <1>1. Init => Steady /\ InStep(h)
    BY DEF Init, Steady, ArmedRuns, PendingCounts, FreshHook, NoOutcome, InStep
  <1>2. IInv /\ Patient /\ Steady /\ InStep(h) /\ [Next]_vars => Steady' /\ InStep(h)'
    BY NextSteady, NextInStep
  <1> QED BY <1>1, <1>2, Inductive, StaysPatient, PTL DEF Spec

(* On every page of the portal, if no run is left before its answer, the   *)
(* layers, the topology with its connectors, the rail, the trace and the   *)
(* result region tell one story of the run, of its stages and its outcome  *)
(* (ViewsAgree).                                                           *)
THEOREM ViewsTellOneStory ==
  ASSUME ~LeavesEarly, RealPages
  PROVE  Spec => []ViewsAgree
  <1>1. IInv /\ Patient /\ InStep(h) => ViewsAgree
    <2> SUFFICES ASSUME IInv, Patient, InStep(h) PROVE ViewsAgree
      OBVIOUS
    <2>1. TypeOK /\ OutcomeIsTrue /\ IdleIsClean /\ PageFits
      BY TablesFit DEF IInv, TypeOK, Patient
    <2> QED BY <2>1, StagesDoAgree, TraceDoesTell DEF ViewsAgree
  <1> QED BY <1>1, Inductive, StaysPatient, StaysInStep, PTL

=============================================================================
