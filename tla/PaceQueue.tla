------------------------------ MODULE PaceQueue ------------------------------
(***************************************************************************)
(* The pace queue of the demo portal (ui-cp/src/engine/paceQueue.ts): a    *)
(* module-level FIFO of stage events that a chain of setTimeout callbacks  *)
(* releases one by one.                                                    *)
(*                                                                         *)
(* An event is the number of the push() call that brought it; its kind     *)
(* only matters while push() runs.  A timer is named by the fan-out it     *)
(* was armed after, so `timers' tells a live setTimeout whose handle       *)
(* pendingTimer still holds from one whose handle was overwritten.  The    *)
(* length of a delay is abstracted: a live timer may fire at any moment.   *)
(*                                                                         *)
(* skipMode is not a variable: skip() raises it and the drain() it calls   *)
(* lowers it again on every path before it returns, so only drain() sees   *)
(* it (parameter `fast').  Subscribers are one: what was fanned out.       *)
(***************************************************************************)
EXTENDS Naturals, Sequences, SequencesExt

CONSTANTS Kinds,    \* kinds of event the callers push
          MaxPush   \* bound on the number of push() calls

ASSUME KindsAssumption == Kinds \subseteq {"stage", "request", "err"}
ASSUME MaxPushAssumption == MaxPush \in Nat

VARIABLES
  queue,        \* events waiting for their turn
  log,          \* events fanned out to the subscribers, oldest first
  dropped,      \* events thrown away by a flush
  pushed,       \* number of push() calls so far
  paced,        \* currentPace > 0
  walking,      \* the state the portal is told about
  pendingTimer, \* the timer the module holds the handle of, 0 for null
  timers        \* all timers that will still fire

vars == <<queue, log, dropped, pushed, paced, walking, pendingTimer, timers>>

Events == 1 .. MaxPush

(* Kinds reach push() bare or wrapped in a carrier.event.raw frame.  A     *)
(* frame that does not parse is kept as it came, an ordinary event.        *)
RawEvents == [wrapped : BOOLEAN, body : Kinds]
             \cup [wrapped : {TRUE}, body : {"garbled"}]
Unwrap(raw) == IF raw.body = "garbled" THEN "stage" ELSE raw.body

Init ==
  /\ queue = <<>> /\ log = <<>> /\ dropped = {} /\ pushed = 0
  /\ paced = FALSE /\ walking = FALSE
  /\ pendingTimer = 0 /\ timers = {}

-----------------------------------------------------------------------------
(* drain() on the queue q while the timers `live' run: the head goes out,  *)
(* or all of it in real time; only the paced path arms the next timer.     *)
Holds(q, fast) == q # <<>> /\ ~fast
Released(q, fast) == IF Holds(q, fast) THEN <<Head(q)>> ELSE q

(* slip: without the early return on an empty queue a timer is armed anyway *)
DrainRearms(q, live, fast) ==
  /\ log' = log \o Released(q, fast)
  /\ queue' = IF Holds(q, fast) THEN Tail(q) ELSE <<>>
  /\ pendingTimer' = IF fast THEN 0 ELSE Len(log) + 1
  /\ timers' = live \cup IF fast THEN {} ELSE {Len(log) + 1}

Drain(q, live, fast) ==
  /\ log' = log \o Released(q, fast)
  /\ queue' = IF Holds(q, fast) THEN Tail(q) ELSE <<>>
  /\ pendingTimer' = IF Holds(q, fast) THEN Len(log) + 1 ELSE 0
  /\ timers' = live \cup IF Holds(q, fast) THEN {Len(log) + 1} ELSE {}

(* clearTimeout(pendingTimer): a no-op when the handle is null.            *)
Cleared == timers \ {pendingTimer}

NewEvent == pushed + 1

Arrives(kind) ==
  /\ pushed < MaxPush
  /\ pushed' = NewEvent
  /\ \E raw \in RawEvents : Unwrap(raw) = kind
  /\ UNCHANGED paced

(* push() of an ordinary event while a timer is pending: it waits.         *)
PushWaits(kind) ==
  /\ Arrives(kind)
  /\ kind = "stage" \/ (kind = "request" /\ ~walking)
  /\ pendingTimer # 0
  /\ queue' = Append(queue, NewEvent)
  /\ UNCHANGED <<log, dropped, walking, pendingTimer, timers>>

(* push() of an ordinary event with no timer pending: kick() drains now.   *)
PushKicks(kind) ==
  /\ Arrives(kind)
  /\ kind = "stage" \/ (kind = "request" /\ ~walking)
  /\ pendingTimer = 0
  /\ Drain(Append(queue, NewEvent), timers, ~paced)
  /\ walking' = paced
  /\ UNCHANGED dropped

(* slip: the error is shown before what was queued ahead of it             *)
PushErrorFirst ==
  /\ Arrives("err")
  /\ log' = Append(log, NewEvent) \o queue
  /\ queue' = <<>>
  /\ timers' = Cleared
  /\ pendingTimer' = 0
  /\ walking' = FALSE
  /\ UNCHANGED dropped

(* slip: the error throws the queue away instead of draining it            *)
PushErrorDiscards ==
  /\ Arrives("err")
  /\ log' = Append(log, NewEvent)
  /\ queue' = <<>>
  /\ timers' = Cleared
  /\ pendingTimer' = 0
  /\ walking' = FALSE
  /\ UNCHANGED dropped

(* push() of an error: everything queued goes out first, then the error.   *)
PushError ==
  /\ Arrives("err")
  /\ log' = Append(log \o queue, NewEvent)
  /\ queue' = <<>>
  /\ timers' = Cleared
  /\ pendingTimer' = 0
  /\ walking' = FALSE
  /\ UNCHANGED dropped

(* push() of a new resolve request in mid-walk: the queue is flushed, the  *)
(* request is drained, and the handle drain() just stored is nulled.       *)
PushReplay ==
  /\ Arrives("request")
  /\ walking
  /\ dropped' = dropped \cup ToSet(queue)
  /\ log' = Append(log, NewEvent)
  /\ queue' = <<>>
  /\ timers' = Cleared \cup IF paced THEN {Len(log) + 1} ELSE {}
  /\ pendingTimer' = 0
  /\ walking' = TRUE

(* A setTimeout callback runs drain(); drain() forgets pendingTimer, be it *)
(* the timer that fired or another one.                                    *)
TimerFires(t) ==
  /\ t \in timers
  /\ Drain(queue, timers \ {t}, ~paced)
  /\ walking' = (walking /\ Holds(queue, ~paced))
  /\ UNCHANGED <<dropped, pushed, paced>>

(* slip: the timer is cleared but the queue is kept                        *)
FlushKeepsQueue ==
  /\ timers' = Cleared
  /\ pendingTimer' = 0
  /\ UNCHANGED <<queue, log, dropped, pushed, paced, walking>>

PreemptAndFlush ==
  /\ dropped' = dropped \cup ToSet(queue)
  /\ queue' = <<>>
  /\ timers' = Cleared
  /\ pendingTimer' = 0
  /\ UNCHANGED <<log, pushed, paced, walking>>

Skip ==
  /\ walking
  /\ Drain(queue, Cleared, TRUE)
  /\ walking' = FALSE
  /\ UNCHANGED <<dropped, pushed, paced>>

(* reset(): the flush, and walking is lowered without telling anyone.      *)
Reset ==
  /\ dropped' = dropped \cup ToSet(queue)
  /\ queue' = <<>>
  /\ timers' = Cleared
  /\ pendingTimer' = 0
  /\ walking' = FALSE
  /\ UNCHANGED <<log, pushed, paced>>

SetPace ==
  /\ paced' = ~paced
  /\ UNCHANGED <<queue, log, dropped, pushed, walking, pendingTimer, timers>>

Push == \/ \E kind \in {"stage", "request"} : PushWaits(kind) \/ PushKicks(kind)
        \/ PushError
        \/ PushReplay

Fires == \E t \in timers : TimerFires(t)

Next == Push \/ Fires \/ PreemptAndFlush \/ Skip \/ Reset \/ SetPace

(* The browser's event loop runs every timer that is due; callers owe      *)
(* nothing.                                                                *)
Spec == Init /\ [][Next]_vars /\ WF_vars(Fires)

-----------------------------------------------------------------------------
(* Every variable has its type; a timer is named by a fan-out that         *)
(* happened.                                                               *)
TypeOK ==
  /\ queue \in Seq(Events) /\ log \in Seq(Events)
  /\ dropped \subseteq Events /\ pushed \in 0 .. MaxPush
  /\ paced \in BOOLEAN /\ walking \in BOOLEAN
  /\ pendingTimer \in Nat
  /\ timers \subseteq 1 .. Len(log)

(* Subscribers see events in the order they were pushed, whatever the      *)
(* pace, the flushes and the stray timers: nothing overtakes, and what is  *)
(* still queued is younger than all that was seen.  For an error this is   *)
(* the M7 ordering invariant of the module's header.                       *)
Increasing(s) == \A i, j \in 1 .. Len(s) : i < j => s[i] < s[j]
Before(s, t) == \A i \in 1 .. Len(s), j \in 1 .. Len(t) : s[i] < t[j]
PushOrder == Increasing(log) /\ Increasing(queue) /\ Before(log, queue)

(* Nothing is lost: a pushed event has been fanned out, waits in the       *)
(* queue, or was thrown away by a flush, and exactly one of the three.     *)
NothingLost ==
  /\ ToSet(log) \cup ToSet(queue) \cup dropped = 1 .. pushed
  /\ dropped \cap (ToSet(log) \cup ToSet(queue)) = {}

(* An event never waits without a timer that will release it, whose handle *)
(* the module still holds, and only during a walk.  Errors empty the queue *)
(* and drop the timer together, and a stray timer re-arms or empties.      *)
QueueBacked == queue # <<>> => pendingTimer \in timers /\ walking

(* Every queued event leaves the queue: it is fanned out or flushed.       *)
EventLeaves == \A e \in Events : e \in ToSet(queue) ~> e \notin ToSet(queue)

=============================================================================
