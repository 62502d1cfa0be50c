---------------------------- MODULE ForeignProber ----------------------------
(***************************************************************************)
(* The fourth identity scenario of the web application: requests of        *)
(* /api/scenarios and of the foreign case of /api/swa share one Prober     *)
(* (internal/foreign/client.go), which creates its X509Source on the first *)
(* probe that succeeds in it, under a mutex.                               *)
(*                                                                         *)
(* Each request has one context with a deadline for all that it does;      *)
(* waiting for the mutex is the one step no context bounds.  Time is       *)
(* counted in ticks; what a deadline ends is ended before the clock goes   *)
(* on.  A mutex that is free goes to any request that asks for it: Go lets *)
(* a newcomer take it before one that has been waiting.                    *)
(***************************************************************************)
EXTENDS Integers, FiniteSets

CONSTANTS
  Requests,      \* requests that reach the foreign scenario
  Budget,        \* ticks of a request's context
  MaxRefusals    \* bound on sources the agent refuses before their deadline

ASSUME RequestsAssumption == IsFiniteSet(Requests)
ASSUME BudgetAssumption == Budget \in Nat \ {0}
ASSUME RefusalAssumption == MaxRefusals \in Nat

VARIABLES
  step,      \* step[r]: how far request r is
  age,       \* age[r]: ticks since r was read
  locked,    \* the mutex is locked
  source,    \* the prober has its source
  created,   \* number of sources created
  answer,    \* answer[r]: the foreign view of the response
  refusals   \* sources refused so far

vars == <<step, age, locked, source, created, answer, refusals>>

Steps == {"new", "earlier", "locking", "holding", "creating", "dialing", "written"}
Answers == {"none", "rejected", "accepted", "failed"}
Busy == {r \in Requests : step[r] \notin {"new", "written"}}

(* A budget for each request.  Ages are counted to just past it.           *)
AllBudgets == Cardinality(Requests) * Budget
MaxAge == AllBudgets + 1

(* slip: a context lasts a tick longer than its budget                     *)
ExpiredLate(r) == age[r] > Budget

(* The deadline of the request's context has come.                         *)
Expired(r) == age[r] >= Budget

Init ==
  /\ step = [r \in Requests |-> "new"]
  /\ age = [r \in Requests |-> 0]
  /\ locked = FALSE
  /\ source = FALSE /\ created = 0
  /\ answer = [r \in Requests |-> "none"]
  /\ refusals = 0

-----------------------------------------------------------------------------
Arrive(r) ==
  /\ step[r] = "new"
  /\ step' = [step EXCEPT ![r] = "earlier"]
  /\ UNCHANGED <<age, locked, source, created, answer, refusals>>

(* The scenarios before the foreign one are done, or out of time: either   *)
(* way the probe is next, and asks for the mutex.                          *)
Probe(r) ==
  /\ step[r] = "earlier"
  /\ step' = [step EXCEPT ![r] = "locking"]
  /\ UNCHANGED <<age, locked, source, created, answer, refusals>>

Lock(r) ==
  /\ step[r] = "locking" /\ ~locked
  /\ step' = [step EXCEPT ![r] = "holding"]
  /\ locked' = TRUE
  /\ UNCHANGED <<age, source, created, answer, refusals>>

(* ensureSource() with the source at hand.                                 *)
UseSource(r) ==
  /\ step[r] = "holding" /\ source
  /\ locked' = FALSE
  /\ step' = [step EXCEPT ![r] = "dialing"]
  /\ UNCHANGED <<age, source, created, answer, refusals>>

(* slip: the source is looked for before the mutex is taken, not after     *)
StartAnyway(r) ==
  /\ step[r] = "holding"
  /\ step' = [step EXCEPT ![r] = "creating"]
  /\ UNCHANGED <<age, locked, source, created, answer, refusals>>

(* ensureSource() without it: NewX509Source blocks with the mutex held.    *)
StartSource(r) ==
  /\ step[r] = "holding" /\ ~source
  /\ step' = [step EXCEPT ![r] = "creating"]
  /\ UNCHANGED <<age, locked, source, created, answer, refusals>>

SourceReady(r) ==
  /\ step[r] = "creating" /\ ~Expired(r)
  /\ source' = TRUE /\ created' = created + 1
  /\ locked' = FALSE
  /\ step' = [step EXCEPT ![r] = "dialing"]
  /\ UNCHANGED <<age, answer, refusals>>

(* slip: the mutex is not released on the error path                       *)
SourceFailsLocked(r) ==
  /\ step[r] = "creating"
  /\ \/ Expired(r) /\ UNCHANGED refusals
     \/ ~Expired(r) /\ refusals < MaxRefusals /\ refusals' = refusals + 1
  /\ step' = [step EXCEPT ![r] = "written"]
  /\ answer' = [answer EXCEPT ![r] = "failed"]
  /\ UNCHANGED <<age, locked, source, created>>

(* The agent refuses, or the context ends first: nothing is cached, the    *)
(* next probe tries again.                                                 *)
SourceFails(r) ==
  /\ step[r] = "creating"
  /\ \/ Expired(r) /\ UNCHANGED refusals
     \/ ~Expired(r) /\ refusals < MaxRefusals /\ refusals' = refusals + 1
  /\ locked' = FALSE
  /\ step' = [step EXCEPT ![r] = "written"]
  /\ answer' = [answer EXCEPT ![r] = "failed"]
  /\ UNCHANGED <<age, source, created>>

(* slip: a dial that failed for any cause counts as the rejection          *)
DialRejects(r) ==
  /\ step[r] = "dialing"
  /\ step' = [step EXCEPT ![r] = "written"]
  /\ answer' = [answer EXCEPT ![r] = "rejected"]
  /\ UNCHANGED <<age, locked, source, created, refusals>>

(* The handshake is rejected at the trust boundary, or succeeds, which is  *)
(* an error here, or does not happen, also for lack of time.               *)
Dial(r) ==
  /\ step[r] = "dialing"
  /\ step' = [step EXCEPT ![r] = "written"]
  /\ \E a \in IF Expired(r) THEN {"failed"} ELSE {"rejected", "accepted", "failed"} :
       answer' = [answer EXCEPT ![r] = a]
  /\ UNCHANGED <<age, locked, source, created, refusals>>

Proceeds(r) ==
  \/ Probe(r) \/ Lock(r) \/ UseSource(r) \/ StartSource(r)
  \/ SourceReady(r) \/ SourceFails(r) \/ Dial(r)

(* What must happen before the clock goes on: a request out of time does   *)
(* not stay where its context binds it, a free mutex does not stay free.   *)
Due(r) ==
  \/ step[r] \in {"earlier", "creating", "dialing"} /\ Expired(r)
  \/ step[r] = "locking" /\ ~locked
  \/ step[r] = "holding"

Tick ==
  /\ Busy # {} /\ \A r \in Requests : ~Due(r)
  /\ age' = [r \in Requests |-> IF r \in Busy /\ age[r] < MaxAge THEN age[r] + 1 ELSE age[r]]
  /\ UNCHANGED <<step, locked, source, created, answer, refusals>>

Next == Tick \/ \E r \in Requests : Arrive(r) \/ Proceeds(r)

(* Contexts end, and a goroutine that can go on does; a request probes     *)
(* once, so those that pass one that waits for the mutex come to an end.   *)
Fairness == WF_vars(Tick) /\ \A r \in Requests : WF_vars(Proceeds(r))
Spec == Init /\ [][Next]_vars /\ Fairness

-----------------------------------------------------------------------------
(* Every variable has its type: no more than one source is ever created.   *)
TypeOK ==
  /\ step \in [Requests -> Steps]
  /\ age \in [Requests -> 0 .. MaxAge]
  /\ locked \in BOOLEAN
  /\ source \in BOOLEAN /\ created \in 0 .. 1
  /\ answer \in [Requests -> Answers]
  /\ refusals \in 0 .. MaxRefusals

(* However requests race for the first probe, one X509Source is created    *)
(* (none is leaked: it holds a stream to the agent), and it is the one     *)
(* that every dial uses.                                                   *)
OneSource ==
  /\ created = IF source THEN 1 ELSE 0
  /\ \A r \in Requests : step[r] = "creating" => ~source
  /\ \A r \in Requests : step[r] = "dialing" => source

(* The mutex is locked by the one request that is at the source, and by no *)
(* request that is gone, on whichever way out.                             *)
Inside == {r \in Requests : step[r] \in {"holding", "creating"}}
MutexKept ==
  /\ locked = (Inside # {})
  /\ \A r, q \in Inside : r = q

(* No context bounds the wait for the mutex, and no order does: a request  *)
(* may see every other one pass, each for up to a budget, before it has    *)
(* spent its own.  It is not kept any longer.                              *)
AnsweredInTurns == \A r \in Requests : age[r] <= AllBudgets

(* The trust boundary is said to have rejected the peer only when the      *)
(* handshake took place: no timeout and no refusal of the agent passes for *)
(* the rejection that the scenario is to show.                             *)
RejectionIsReal == \A r \in Requests : answer[r] = "rejected" => source /\ ~Expired(r)

(* Every request is answered, even when the agent never answers.           *)
Answered == \A r \in Requests : step[r] = "earlier" ~> step[r] = "written"

=============================================================================
