# Verification of swa-demo

The repository is a demonstration of workload identities and secret retrieval: a web application in a
cluster gets its identity from an agent (SPIFFE), reads rows of a database through a gateway and
secrets from vaults by five ways, and a single-page portal animates each retrieval and shows what
happened. This directory holds TLA+ models of the parts of it that carry state or that run
concurrently, what TLC checks of them, and what TLAPS proves of them.

Everything a model does is translated from the code; the `map` of `PROJECT.json` names the lines for
each definition. In this text `ui/` stands for `src/webapp/ui-cp/src/`, `go/` for
`src/webapp/internal/`, and `main.go` for `src/webapp/cmd/server/main.go`.

1. [The system](#1-the-system)
2. [Plan](#2-plan)
3. [The modules and the code](#3-the-modules-and-the-code)
4. [The runs](#4-the-runs)
5. [Fairness](#5-fairness)
6. [What is proved](#6-what-is-proved)
7. [What the code does otherwise than it says](#7-what-the-code-does-otherwise-than-it-says)
8. [What is not covered](#8-what-is-not-covered)

## 1. The system

### The portal (browser)

**Pace queue** (`ui/engine/paceQueue.ts`). One module-level FIFO of stage events, a pace, the handle
of the pending `setTimeout`, a `walking` flag and a `skipMode` flag; two sets of subscribers, to events
and to the flag. Operations: `push` (an ordinary event, an error that overtakes the timer, a new
request in the middle of a walk), `preemptAndFlush`, `skip`, `reset`, `setPace`, and the timer's
callback `drain`. Hard: callbacks against calls, a handle that is overwritten, a pace that changes in
the middle. Correct when: events arrive in order, none is lost or seen twice, none waits without a
timer.

**Resolve engine** (`ui/engine/useResolveEngine.ts`, a React hook). State: `status`, `stage`,
`completed`, `result`, and in refs `statusRef`, `maxStage`, `pending`, `fetchRes`. `run()` starts a
POST and a walk, `reset()` clears; the queue calls back with stages and with "walking"/"idle"; the
POST's answer writes the result. Hard: the user, the timers and the answers interleave, and
`statusRef` lags behind `status`. Correct when: a page shows the answer to its own run, its stages only
advance, a run ends, and an idle page is clean.

**Application shell** (`ui/App.tsx`, `PortalPane.tsx`, `InspectorChrome.tsx`,
`AccessibilityHints.tsx`). The scenario and the pace selected; which buttons are disabled while a run is
under way, and which are not (Reset and Escape never are). It calls the engine.

**Providers and inspectors** (`ui/engine/providers.tsx`, `ui/visualizations/`). Hand-written tables for
five providers: stages, scenarios with the stage each is to fail at, topology nodes, layers, trace lines.
Three inspectors and the result region each compute what they show from the engine's state and these
tables. Correct when they tell one story.

**Guided walkthrough** (`ui/visualizations/Walkthrough.tsx`, `walkthroughData.ts`). A player of slides,
one deck or more per provider. State: flow, slide, `playing`, the timer to the next slide. Operations:
back, next, restart, play and pause, a dot, another flow, arrow keys and space. Hard: the timer's update is
rendered a task after it fired and its effects run a task later, and clicks and keys come in
between; the decks are tables written by hand. Correct when: it stays within the deck, a play ends, and
every slide lights only what exists and tells a rotation of passwords that is safe.

**Languages** (`ui/i18n/index.ts`, `LangSwitcher.tsx`, `go/i18n/i18n.go`). Server and application settle
the language apart from each other, from the same cookie and the same list of the browser; the
application does so once per load, and any page may set the cookie meanwhile. Correct when they come to the
same, and when what is picked in the switcher is what is shown.

**Legacy pages** (`go/ui/static/*.js`). Four scripts for when the portal is not built in. State: the tab,
the answer kept, the steps, fields and status on display. A run disables its button, not the tabs; steps are
put on display with a timer. Correct when: what stands together is of one run, a verdict is of the
scenario that was run, and the button comes back.

### The web server (Go)

**Start-up** (`main.go`). The same program runs in three pods by their settings: the webapp, the
untrusted-app (an identity the gateway does not list) and the rogue-app (no registration). Each decides
at boot, for good, where its identity comes from (`buildFetcher`), whether it has a database client
(`buildDB`), a CCP certificate (`buildCCP`), a foreign prober (`buildForeign`), and which retrievers are
simulated. Hard: the agent comes and goes between these decisions, and `Config.Demo` is computed apart
from all of them.

**Handlers** (`go/handlers/handlers.go`). Requests share the fetcher, the database client, the retrievers
and the prober. `/api/scenarios` and `/api/swa` show four identities: the webapp's own, two that it hears
from the probe pods over HTTP, and the foreign peer. `/api/svid`, `/api/retrieve`, `/api/conjur`,
`/api/ccp`, `/api/cp` show tokens and secrets. Correct when a reply never says more than happened: an
unknown workload has no identity, rows are for the trusted one only, what is made up is marked, a
Conjur token never leaves.

**Foreign prober** (`go/foreign/client.go`). One X509Source, made by the first probe that succeeds in
it, under a mutex held across a blocking call. Correct when: one source at most, the mutex is released on
every way out, everybody is answered within a bound, and only a handshake counts as a rejection.

**Retrievers** (`go/retrieve/`). Conjur JWT, Conjur IAM, CCP and CP: each reports a four-step
lifecycle, with the failed step marked. Between requests they keep only configuration.

### The host

**Credential Provider bridge** (`src/hostbridge/cp/`). `CpBridge.java` serves `/cp` on four threads, each
request starting one `CpCaller` process whose one line of output it relays; systemd restarts it. The Go
client has a deadline of its own. Hard: a pool with a queue, processes that hang, two timeouts that race,
output that is not JSON, a crash. Correct when: processes are bounded by threads, no request is lost,
each verdict has its cause, users are answered, the queue moves.

### How they interact

    portal --POST--> handlers --> fetcher --> agent            (WebServer)
      |                      \--> database client --> gateway
      |                      \--> retrievers --> Conjur, CCP   (Retrievals)
      |                      \--> CP client --POST--> bridge --> caller process   (CpBridge)
      |                      \--> prober --> agent, carrier    (ForeignProber)
      |                      \--HTTP--> probe pods, the same program
      \-- engine <--callbacks-- pace queue                     (ResolveEngine, PaceQueue)
             \--> inspectors, result region                    (Inspectors, Providers)
    shell --> player of slides, language                      (Portal, Walkthrough, Locale)
    legacy page --POST--> handlers, without engine or queue   (LegacyPage)

The portal and the server share one thing besides the replies: the scenarios. The portal animates the
failure it expects while the server decides what really happens; `StoryMatches` relates the two.

## 2. Plan

In the order in which it was carried out, what matters most first:

| | module | of | state |
|---|---|---|---|
| 1 | `PaceQueue`, `PaceQueueProofs` | pace queue alone, every caller | checked, proved |
| 2 | `ResolveContract` | what a resolve promises the page | abstract specification |
| 3 | `ResolveEngine`, `ResolveEngineProofs` | engine, shell and queue together; implements 2 | checked, proved |
| 4 | `Providers`, `Inspectors` | the tables; the views as functions of 3 | checked, proved (in 3's proofs) |
| 5 | `CpBridge`, `CpBridgeProofs` | client, bridge, caller | checked, proved |
| 6 | `ForeignProber`, `ForeignProberProofs` | shared prober | checked, proved |
| 7 | `Retrievals`, `WebServer`, `WebServerProofs` | retrievers; three pods, boot, replies | checked, proved |
| 8 | `LegacyPage`, `LegacyPageProofs` | the pages without the portal | checked, proved |
| 9 | `WalkthroughFlows`, `Walkthrough`, `Locale`, `Portal`, `PortalProofs` | decks, player, language; the shell around them | checked, proved |

Every safety property of a passing run has a theorem. What is left: the queue inside `ResolveEngine` is
shown to be the one of `PaceQueue` only where the two differ in state (`StagesHaveOneTimer`), not step by
step. Of less worth than it would cost: the lookup of messages and the masking of
tokens are functions of one argument that tests reach.

`Inspectors` EXTENDS `ResolveEngine` and `Providers`; `WebServer` EXTENDS `Retrievals` and `Providers`;
`ResolveEngine` INSTANCEs `ResolveContract`; `Portal` EXTENDS `Walkthrough`, `WalkthroughFlows` and
`Locale`. The proof modules EXTEND their component (`ResolveEngineProofs` EXTENDS `Inspectors`, and so engine and
tables), and some of them `SeqFacts`, facts about sequences that several proofs cite. No module declares a RECURSIVE operator. In every
module the definitions that begin with "slip:" are plausible mistakes of the operation after them, used
only to see that the properties notice.

## 3. The modules and the code

**`PaceQueue`.** An event is the number of the push that brought it, so order and loss can be stated.
`timers` holds every timer that will fire, named by the fan-out it was armed after; `pendingTimer` is the
handle the module holds. `Drain` is `drain()`, `PushWaits`/`PushKicks` are the two ways of `kick()`,
`PushError` and `PushReplay` the two preemptions of `push`, the others carry the names of the exported
functions. The module keeps the slip of paceQueue.ts:147: after a replay a timer runs whose handle is
null. `skipMode` is a parameter of `Drain`: it is never raised when a call returns. Delays are left
out: a live timer may fire at any moment.

**`ResolveEngine`.** `h` is the hook: state and refs. `shown` is the status last committed, which the
buttons go by, and `seen` is `statusRef`, which the effect of useResolveEngine.ts:142-144 copies from there.
Both follow a click at once, as React does; after a timer or a promise they follow by `Commit` and by
`CopyStatus`, with clicks, timers and answers in between, and a commit first runs the effect that the one
before it owes. `inflight` are the POSTs, each with the run and the scenario it was sent for; `Land`
answers one with or without the secret and then walks or not, as the promise chain does. The queue is the
one of `PaceQueue` as this engine uses it: only stage events, one timer. `AtOnce` is the walk with the pace
off, in which the queue falls idle after each stage. `LeavesEarly` says whether the user may leave a run
(Reset, Escape, another scenario, another run) before its POST is answered: the code lets them; `FALSE`
serves to say what holds otherwise. The page's provider is that of its path and does not change.

**`ResolveContract`.** Two variables, the phase and the answer: a run gets one answer, keeps it, is "done"
only with the secret, and ends. `KeepsContract` maps `h.status` and `h.result` to them.

**`Providers`, `Inspectors`.** The five tables as records and sets, in the shape of providers.tsx; the
views as operators (`LayerState`, `passedCount`, `dotPos`, `NodeState`, `LinkState`, `revealIndex`,
`traceTells`, `paneShows`). `ViewsAgree` is the agreement of layers and topology in what is active,
passed and rejected, of the connectors with the nodes and of the rail with its layers
(`StagesAgree`), and of the trace with the outcome (`TraceTells`).

**`CpBridge`.** For each request: what its client knows, the thread on it, its caller process and what
that printed. `Take`, `ReadsToEnd`, `Reaped`, `TimesOut`, `Reply` are runCaller and respond line by line,
with the read of standard output before the wait that has the timeout. What a caller prints is one of the
four lines that CpCaller writes, a text, which `Reaped` wraps, or output that has braces around it and is not
JSON ("braced": two lines of JSON, say), which is relayed as it is since only the first and the last
character are looked at; the client cannot decode it and reports the bridge as unreachable. `Verdict` is what cp.go makes of a
reply: of a failure only the scenario tells the step. `Crash` is the death of the bridge with systemd's
kill of its processes, `Restart` the unit's restart. Time is ticks; a deadline that has come must act
before the clock goes on (`Late`).

**`ForeignProber`.** For each request a step and an age; `locked` is the mutex. A request's one context
bounds all its steps but the wait for the mutex. A mutex that is free goes to any request that asks for it, in
any order: Go's `sync.Mutex` lets a newcomer take it before one that it has just woken, and hands it over in
turn only once a waiter has lost for more than a millisecond. The model has all these orders, and more than
these: no property rests on turns. A free mutex does not stay free while the clock goes on
(`Due`). Everything before the probe is one step ("earlier") that may take any part of the budget.

**`Retrievals`, `WebServer`.** `Retrievals` has the sets of results that each retriever may return;
`failed` in a result is the step that really failed, which the code does not report and which
`StoryMatches` compares with what it does: a failed lifecycle vouches for no step at or after it. In
`WebServer` a pod's boot is two steps (`BuildFetcher`, then `BuildClients`) with `AgentChanges` free to happen between any two; `Restart` may happen at any
time. A request for an identity scenario is answered in three steps, since rows are read after the
identity; the other requests are one. `AskSwa` is of two pages: /api/swa answers one scenario and says whether
it was simulated, /api/scenarios answers all of them, of which one is followed, and has no such field
(handlers.go:520-525). Secrets are "genuine", "sample" or "empty", identities "genuine" or
"synthetic", tokens their audience. The requests to the webapp share nothing mutable but the
prober, which has a module of its own, so `WebServer` follows one at a time. `RolesAssumption` says what
the manifests say: only the rogue-app has ROGUE_MODE, it is not registered, and the untrusted-app is not
on the gateway's list.

**`LegacyPage`.** One page with its tabs; `run` is the run on its way, with the scenario of the click and
how many of its steps are on display, `timeline` and `fields` what stands on the page, by run and
scenario. `Answered` is what follows the `await fetch`, with the early return of an error
(`Refused`); `NextStep` the timer of `renderSteps`; `ScenarioShown`, `IdentityShown` what follows it. The
identities page keeps one answer for all tabs and renders a tab at once, also into a list that a timer
goes on appending to: `strayed` remembers that, and `OwnStory` leaves it out.

**`Walkthrough`, `WalkthroughFlows`, `Locale`, `Portal`.** `i` is the slide on display and `seen` the one the
keyboard's effect last saw; `TimerFires`, `Render` and `Effects` are the three tasks of an automatic
step. `Settle` is what a click or a key comes to, after effects that were pending. `WalkthroughFlows`
has the decks as the source has them, without text and geometry: what each slide lights, connects, and
tells of accounts or of policy.yml. `DetectLocale` is the application's rule for the language, `Resolve` the
server's. `Portal` is the shell of App.tsx around them: the view, the pane it collapses, a load of the page
(`Reload`), the switcher (`Choose`, and `ChooseActive` for the language that is shown already, which does
nothing), and the cookie that other pages set (`SetElsewhere`). `elsewhere` and `chosen` are history: whether
another page has set the cookie since the load, and what was last picked.

## 4. The runs

| run | states | asks | shows |
|---|---|---|---|
| `pacequeue_api` | 464 | any calls and timers, 5 pushes | order, no loss, no stranded event, each leaves |
| `engine_any` | 57 746 | a user who clicks anything, 3 runs, 3 stages | walks backed by a timer, stages advance, runs end |
| `engine_patient` | 2 746 | the five real providers, a user who waits | true outcome, clean idle page, no stage of a timer dropped, walks settle clean, views agree, contract kept |
| `engine_stale` | violation | a run left before its answer | finding 1 |
| `bridge_pool` | 190 514 | 3 requests, 2 threads, a crash, a hang, output that is no JSON | callers bounded, no loss, verdicts have their cause, users answered, the queue moves |
| `bridge_notimeout` | violation | a caller that hangs | finding 2 |
| `foreign_probe` | 14 957 | 3 requests, budget 2, 1 refusal, any order at the mutex | one source, mutex kept, bound, real rejections, all answered |
| `server` | 58 334 | 7 deployments, agent and pods come and go | what replies show together |
| `server_fallback` | violation | agent away at boot | finding 3 |
| `legacy` | 5 898 | each page, any tab at any moment, 3 runs | one run, its verdict, own story at rest, button returns |
| `portal` | 587 496 | all slides of all flows, input between timer, rendering and effects; 21 lists of languages | player in its flow, sound slides, one language, a play ends |
| `locale_cookie` | violation | another page sets the cookie | finding 4 |

Bounds, and why they are enough.

- `MaxPush = 5`: two events queued, an error or a replay over them, and two more afterwards with a
  stray timer about. The theorems have no bound.
- `MaxRuns = 3`: a run, the one it interferes with, and one after (`engine_stale` needs two). `ThreeStages` has one scenario that
  succeeds and two that are refused, at the first and at the last stage: the ends of `Math.max` and of
  the furthest-yet guard. `engine_patient` has the real number of stages of every provider.
- `Threads = 2`, three requests, `MaxHangs = 1`: the pool full, one request waiting, one thread never
  given back. `ClientTimeout = CallerTimeout = 1`: the code's two timeouts are both 20 s, and the wait
  for a thread, which counts for the client only, takes any number of ticks. `MaxCrashes = 1` in
  `bridge_pool`; in `bridge_notimeout` it is 0, since a crash ends a hang. One request's caller
  prints a text, one a grant, one "braced" output, and any of them may be the one that hangs; what a denial
  becomes is a function of the scenario (`Verdict`), and the theorems are for any output.
- `Budget = 2` with three requests: a holder, one waiter that expires at the mutex, and one that comes
  later and goes first. The bound of `AnsweredInTurns` is met: with a tick less it fails.
- `StoryLen = 3`, `MaxRuns = 3`: a step at once, one by the timer with another behind it, and the last; a
  run, the one whose remains stand under it, and one after. The theorems have no bound.
- Languages: lists of up to two of four tags: with a catalog, with one for the primary subtag only, with
  the wrong case, with none. The decks are the real ones.
- Deployments: the cluster of k8s/ with and without vaults, a laptop with nothing, with vaults, with a
  socket, with DEMO_MODE and an agent, and a cluster with Conjur JWT alone. `Registered` and
  `AllowListed` are the policies the manifests describe (rogue-app.yaml:1-10, untrusted-app.yaml).

Deadlock is not checked for `bridge_*`, `foreign_probe` and `legacy`: there requests and runs are
bounded, and when all are answered nothing may be left to do. Everywhere else it is checked.

Each property of a passing run was seen to fail under at least one slip of the code, and TLC covers
every action.

## 5. Fairness

- `PaceQueue`: the browser runs a timer that is due (`WF(Fires)`). No caller owes a call.
- `ResolveEngine`: timers fire, POSTs are answered or fail (a fetch resolves or rejects, and both end in
  a result), React commits and runs its effects. The user owes nothing, and no disjunct of the user's is fair.
- `CpBridge`: threads go on, deadlines and the clock come, systemd restarts the unit, a caller that
  does not hang ends its output and exits. `Hangs` is never forced and never excluded, and
  weak fairness of `Closes` does not hold a hung caller to anything.
- `ForeignProber`: the clock, and each request on its own, since goroutines are scheduled apart from
  each other. A request that waits for the mutex is enabled only while it is free, and others may take it
  first; as a request probes once, those that can pass it are finite in number, and weak fairness is enough.
- `WebServer` has no liveness and no fairness.
- `LegacyPage`: a request is answered or fails (`Answered`: the server ends every response by its write
  timeout), timers fire (`Shown`). Clicks are not fair.
- `Portal`: a due timer fires, what was asked for is rendered and effects run. Input is not fair, so
  `PlayEnds` does not rest on anybody pressing pause.
- `ResolveContract`: only `Finish` is fair; that is what `KeepsContract` demands of the engine.

## 6. What is proved

All theorems are for every value of the constants that satisfies the module's ASSUMEs, which say only
that numbers are naturals, timeouts, pools and lifecycles are not zero, requests are finite in number
where they are counted, decks and languages have their types, and roles are as the manifests have them
(`RolesAssumption`).

**`PaceQueueProofs`**: `TypeCorrect`, `DeliveredInOrder`, `NoEventLost`, `NoEventStranded`. The invariant
is `TypeOK /\ PushOrder /\ NothingLost /\ QueueBacked /\ HandleLive`. `QueueBacked` is not inductive: a push
while a handle is held appends to a queue that was empty, so one must know that a held handle
is always of a live timer of a walk (`HandleLive`). `PushOrder` needs `NothingLost` for the fact that
the next number is larger than all there are.

Two more theorems are about what surrounds these. `StagesHaveOneTimer`: if no "request" event is pushed,
which alone replays, there is one chain of timers and the handle is its (`OneChain`). The retrieval engine
pushes nothing but stages, so its model may keep a flag where the queue has a set of timers and a handle.
`TurnsComeCloser`: what is ahead of an event that waits only gets less, and less with every timer
that fires (`Closer`); that is the measure behind `EventLeaves`, for which only "a timer that is due fires"
is then missing, with `QueueBacked` for the timer.

**`ResolveEngineProofs`**: `TypeCorrect`, `WalkIsBacked`, `StagesOnlyAdvance` and `RunIsUnderWay`, for a user who may do
anything. The invariant adds to `TypeOK` and `WalkBacked` that a timer is set only in a walk
(`ArmedWalks`: else the answer that queues a second walk behind the first would leave an outcome with a
queue that never reports "idle"), that the lit stage is not beyond the furthest (`LitIsReached`) and that
what is shown is what was fetched (`ShownIsFetched`). A new run cannot light an earlier stage because
Retrieve is disabled unless the status ref says that nothing runs, and the subscriber looks at that ref.
`RunIsUnderWay` is the safety half of `RunSettles`: a run that says "running" has its timer set, or the POST of an
expected success to come (`UnderWay`), and a timer that is set has an outcome to apply (`ArmedPending`).
A POST that was left may bring that outcome as well as the run's own; it would be wrong to say that the run's
own is the one that comes.

The same module proves `SettledTruly`, `IdleStaysClean`, `GateDropsNoStage`, `EngineKeepsContract` and
`WalksSettleClean` under the assumption `~LeavesEarly`; without it `engine_stale` refutes `DoneByOwnPost`, and so
`SettledTruly`. The invariant (`Patient`) says that
a POST under way is the current run's, that while it is under way an expected success has neither an
outcome nor a timer, that an outcome that waits is what the answer said, and that a run the hook calls
"running" is one the buttons are disabled for. `EngineKeepsContract` is the refinement
of `ResolveContract` step by step; its liveness stays with TLC. `GateDropsNoStage` (`StagesLight`) rests on
the last of these: the subscriber is gated by a ref that lags behind, but while a run is "running" the ref says
so too, and what waits in the queue rises. `WalksSettleClean` (`SettledView`) needs
in addition (`Steady`) that the timer is set only while the page says "running", so that a settled page
has no stage to come, and that an outcome that waits counts the stages its scenario passes.

`ViewsTellOneStory` (`ViewsAgree`) is proved in two halves, under `~LeavesEarly` and `RealPages`: the
scenarios are those of providers.tsx and the stages are counted as there (`engine_patient` has exactly these
values; the theorem has any number of runs). The tables fit (`TablesFit`, provider by provider): a layer to
each stage, the stages of a node follow each other, it is done after its last, and it fails with a scenario just
when the scenario fails at a stage of its. The engine keeps in step (`InStep`): what is lit and what is counted
are of one stage, and a settled run counts what it passed. From the two the views agree, whichever node or
layer is asked. `InStep` fails when a run can be left before its answer: the outcome of one scenario
then settles another, which is finding 1 once more.

**`CpBridgeProofs`**: `TypeCorrect`, `HostLoadBounded`, `NoRequestLost`, `VerdictsAreCaused`. The invariant
adds to `TypeOK` and `RequestKept` what thread and caller know of each other (`Served`), what a
verdict rests on (`Told`), that the pool is not exceeded (`PoolBound`, by the theorems on
cardinality) and that a bridge that is down has crashed (`DownCrashed`). `CallersBounded` then follows:
`Served` puts every live caller under a thread. `VerdictHasCause` needs both: `Served` has it that a reply to be sent is a line of JSON or output
between braces, and a grant only of a caller that ended by itself, and `Told` that a client that was answered with
one of these is through with its request, so that no later step of thread or caller takes the cause away.

`OnlyACrashEndsAHang` and `HungPoolServesNoOne` give finding 2 for every pool and every timeout: a caller
that hangs is left as it is by every step but a crash, for its thread is still reading (`HangStays`), and once as many
hang as there are threads nobody in the queue gets one (`StallStays`). `QueueMoves` assumes a thread more than
can hang; this is why it must.

**`ForeignProberProofs`**: `TypeCorrect`, `SourceIsShared`, `MutexIsPassedOn`, `LatencyBounded`,
`RejectionsTookPlace`. The interesting one is the bound, a budget for each request, whatever the order at the
mutex. `WaitBound` says what one who waits has seen: it was within its own budget when it asked, and has waited
at most one budget for each request that is past the mutex (`Past`) and, for the one inside, what that one has
spent of its own (`Spent`). Time adds to `Spent` until the one inside has none left, when it must come
out before the clock goes on; then it is one more of `Past`. Those past, the one inside and the one that waits are all different (`OthersLeft`),
so there are never more budgets than requests.

**`WebServerProofs`**: `TypeCorrect`, `OwnWorkloadOnly`, `SamplesStayApart`, `StoryIsTold`,
`TokenStaysInside`, for any deployments that satisfy `RolesAssumption` and any comings and goings of agent
and pods. The invariant adds to these that a rogue pod has only the one-shot fetcher (`RogueAsksOnce`:
without it a restart could leave it a synthetic identity), that a webapp in demo mode has neither a genuine
source of identities nor a database client (`DemoIsMadeUp`: else its sample rows would stand beside one), and that a request
half answered has an identity that its own scenario may have (`JobIsOwn`).

**`LegacyPageProofs`**: `TypeCorrect`, `VerdictOfItsRun`, `RestsOnOwnStory`, for any length of a lifecycle and
any number of runs. None of the three is inductive. What phase, status and run know of each other
(`PhaseKnown`, `StatusKnown`) gives that a verdict stands only over its own run at rest; the steps on
display while a run is being shown are the first ones of its lifecycle unless somebody strayed
(`OwnSteps`), and a list has room for those to come (`RoomLeft`). `StepFacts` restates each action value by
value, since the provers do badly with records and lists together.

**`PortalProofs`**: `PlayerStaysInFlow`, `OneLanguage`, for any decks, lists of languages and tags, and
`SlidesAreSound` for the decks of the source. The type
invariant of the player is inductive: it says that a timer, an update or effects on their way leave room for
one more slide. `OneLanguage` rests on `SameFirst`, that the first language understood is the same with the
first entry of the list in front of it once more (`navigator.language`); that another page is the only
cause of a difference is inductive with it. `SlidesAreSound` joins the player's
invariant, the slide on display is one of the deck's, with `DecksAreSound`: each of the nine decks is
sound at each of its slides, in what it lights and against the slide before it.
That half is about tables written by hand, and the proof goes over them slide by slide; `FlowsAssumption` says
that `Decks`, which the player counts by, counts those tables.

`SeqFacts` proves what these need of `Append`, `Tail`, concatenation and `ToSet` on sequences.

Only model-checked: liveness (`EventLeaves`, `RunSettles`, `UserAnswered`, `QueueMoves`, `Answered`,
`ButtonReturns`, `PlayEnds`, and the liveness part of `KeepsContract`), which rests on fairness and
ENABLED. For the first two the facts they rest on are proved (`TurnsComeCloser`, `RunIsUnderWay`).

## 7. What the code does otherwise than it says

1. `engine_stale`. An answer is applied to whatever run is current. Reset and Escape are possible
   while a POST is under way and nothing cancels it, so the answer of a run that was left can land under the
   next one, walk its stages and settle it as "done" while that run's own POST is still unanswered.
2. `bridge_notimeout`. The bridge reads a caller's output to its end before the wait that has the
   timeout, so a caller that hangs is never killed, and its thread is gone; four of them stop the bridge.
   Users are still answered, by the client's deadline (`UserAnswered`).
3. `server_fallback`. A webapp whose agent was away for the boot shows a synthetic identity for the rest
   of its life, in replies that say `simulated: false`.
4. `locale_cookie`. "The SPA and the server-rendered pages never disagree on locale" (i18n/index.ts:1-3), but
   the application settles its language once per load, and /lang sets the shared cookie from any other page.
   To pick the language that is shown does not take the cookie back (LangSwitcher.tsx:40); `SameLanguage`
   states what remains.

More shows in the models, where the property that holds says so, without a run of its own:

- With the pace off the queue falls idle after each event (paceQueue.ts:66), the outcome is applied
  after stage 0 and the remaining stages light up over the settled page; useResolveEngine.ts:4-5 has it
  applied at the end of the walk. `SettledView` is of walks that have a timer.
- A read refused by Conjur is marked at the step of the access token, which succeeded, and the read
  itself is shown as pending (conjurjwt.go:103), where conjurjwt.go:263-264 speaks of the step that
  failed. `VouchesForNone` states what remains.
- "Non-JSON output or a timeout is wrapped as an error object" (CpBridge.java:148-149), but only output that
  does not begin and end with a brace is. `VerdictHasCause` names the rest as a cause of "unreachable".
- Sample rows in a reply of /api/scenarios carry no mark, since the reply has no field for it
  (handlers.go:520-525, 772-778). `SampleIsAllSample` demands one of /api/swa only.
- "WriteTimeout must exceed the slowest handler's own context" (main.go:96-98): it does, but the wait for the
  prober's mutex is outside any context, and with as few as two requests the bound of `AnsweredInTurns` (40 s) lies above the
  30 s.

Other things that reading brought up and that no property states are under `hazards` in `PROJECT.json`,
each with the reason.

## 8. What is not covered

- Layout, text, assets, HTTP headers and method checks: no state that matters here.
- The protocols themselves (TLS, SPIFFE, Conjur, CCP, the Credential Provider): outcomes, as the code sees
  them. The foreign carrier is one of them.
- The lengths of delays and stage weights: any order of timers and calls is allowed instead.
- A browser that disconnects from the web server: a request's context would then end early, which in
  `ForeignProber` is a failure like a refusal by the agent, and for the CP client is a deadline.
- Several requests at once in `WebServer`: they share what is fixed at boot.
- /api/db (handlers.go:441-458): the webapp's query and the probe's, which `WebServer` has as the rows of two
  scenarios.
- Message lookup with its fallback, masking and preview of tokens: functions without state.
- Theme, fullscreen, drag of the divider and the hash of the address in the shell: they are read by nothing
  that the models follow.
- The result region's field names (`mapResult`) and all wording of the tables.
- Deadlines of a legacy page: it has none of its own, the server's write timeout ends its request.
- Manifests, charts, playbooks, Terraform, workflows and scripts: used as the settings of the three
  pods only.
