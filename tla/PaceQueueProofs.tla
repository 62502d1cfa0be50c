--------------------------- MODULE PaceQueueProofs ---------------------------
(***************************************************************************)
(* What the pace queue guarantees for any number of pushes: types, the     *)
(* order of delivery (M7), that no event is lost, and that no event waits  *)
(* without a timer.                                                        *)
(***************************************************************************)
EXTENDS PaceQueue, SeqFacts

(* The handle, when there is one, is that of a live timer of a walk.       *)
HandleLive == pendingTimer # 0 => pendingTimer \in timers /\ walking

IInv == TypeOK /\ PushOrder /\ NothingLost /\ QueueBacked /\ HandleLive

-----------------------------------------------------------------------------
(* A sequence of old events followed by a younger one stays in order.      *)
LEMMA AppendOrder ==
  ASSUME NEW s \in Seq(Nat), NEW e \in Nat, Increasing(s),
         \A i \in 1 .. Len(s) : s[i] < e
  PROVE  Increasing(Append(s, e))
  BY DEF Increasing

(* So do two sequences of which the second is younger.                     *)
LEMMA ConcatOrder ==
  ASSUME NEW s \in Seq(Nat), NEW t \in Seq(Nat),
         Increasing(s), Increasing(t), Before(s, t)
  PROVE  Increasing(s \o t)
  <1> SUFFICES ASSUME NEW i \in 1 .. (Len(s) + Len(t)),
                      NEW j \in 1 .. (Len(s) + Len(t)), i < j
               PROVE  (s \o t)[i] < (s \o t)[j]
    BY ConcatType DEF Increasing
  <1>1. CASE j <= Len(s)
    BY <1>1, ConcatType DEF Increasing
  <1>2. CASE i <= Len(s) /\ j > Len(s)
    <2>1. j - Len(s) \in 1 .. Len(t)  BY <1>2
    <2>2. (s \o t)[j] = t[j - Len(s)]  BY <1>2, <2>1
    <2>3. (s \o t)[i] = s[i]  BY <1>2
    <2> QED BY <1>2, <2>1, <2>2, <2>3 DEF Before
  <1>3. CASE i > Len(s)
    <2>1. i - Len(s) \in 1 .. Len(t) /\ j - Len(s) \in 1 .. Len(t)
      BY <1>3
    <2>2. (s \o t)[i] = t[i - Len(s)] /\ (s \o t)[j] = t[j - Len(s)]
      BY <1>3, <2>1
    <2>3. i - Len(s) < j - Len(s)  OBVIOUS
    <2> QED BY <2>1, <2>2, <2>3 DEF Increasing
  <1> QED BY <1>1, <1>2, <1>3

(* Every event that exists was pushed, so a new one is younger than all.   *)
LEMMA NewIsYoungest ==
  ASSUME TypeOK, NothingLost, pushed < MaxPush
  PROVE  /\ NewEvent \in Events
         /\ \A i \in 1 .. Len(log) : log[i] < NewEvent
         /\ \A i \in 1 .. Len(queue) : queue[i] < NewEvent
         /\ NewEvent \notin dropped
         /\ 1 .. NewEvent = (1 .. pushed) \cup {NewEvent}
  <1> USE MaxPushAssumption
  <1>1. NewEvent \in Events /\ pushed \in Nat
    BY DEF TypeOK, NewEvent, Events
  <1>2. /\ \A i \in 1 .. Len(log) : log[i] \in ToSet(log)
        /\ \A i \in 1 .. Len(queue) : queue[i] \in ToSet(queue)
    BY DEF TypeOK, ToSet
  <1>3. ToSet(log) \cup ToSet(queue) \cup dropped = 1 .. pushed
    BY DEF NothingLost
  <1>4. \A e \in 1 .. pushed : e < NewEvent
    BY <1>1 DEF NewEvent
  <1>5. NewEvent \notin 1 .. pushed
    BY <1>1 DEF NewEvent
  <1>6. 1 .. NewEvent = (1 .. pushed) \cup {NewEvent}
    BY <1>1 DEF NewEvent
  <1> QED BY <1>1, <1>2, <1>3, <1>4, <1>5, <1>6

(* An event that was fanned out waits no longer.                           *)
LEMMA Disjoint ==
  ASSUME TypeOK, PushOrder
  PROVE  ToSet(log) \cap ToSet(queue) = {}
  <1>1. log \in Seq(Events) /\ queue \in Seq(Events)
    BY DEF TypeOK
  <1>2. log \in Seq(Nat) /\ queue \in Seq(Nat)
    BY <1>1, MaxPushAssumption DEF Events
  <1> SUFFICES ASSUME NEW e, e \in ToSet(log), e \in ToSet(queue)
               PROVE  FALSE
    OBVIOUS
  <1>3. PICK i \in 1 .. Len(log) : log[i] = e
    BY <1>1 DEF ToSet
  <1>4. PICK j \in 1 .. Len(queue) : queue[j] = e
    BY <1>1 DEF ToSet
  <1>5. log[i] < queue[j] /\ log[i] \in Nat
    BY <1>2 DEF PushOrder, Before
  <1> QED BY <1>3, <1>4, <1>5

(* drain() moves events from the head of the queue to the log, in order,   *)
(* and whatever it leaves behind has a live timer.                         *)
LEMMA DrainKeeps ==
  ASSUME TypeOK, NEW q \in Seq(Events), NEW live, live \subseteq 1 .. Len(log),
         NEW fast, Increasing(log), Increasing(q), Before(log, q), Drain(q, live, fast)
  PROVE  /\ log' \in Seq(Events) /\ queue' \in Seq(Events)
         /\ pendingTimer' \in Nat /\ timers' \subseteq 1 .. Len(log')
         /\ Increasing(log') /\ Increasing(queue') /\ Before(log', queue')
         /\ ToSet(log') \cup ToSet(queue') = ToSet(log) \cup ToSet(q)
         /\ pendingTimer' # 0 => pendingTimer' \in timers' /\ Holds(q, fast)
         /\ queue' # <<>> => pendingTimer' # 0
  <1> USE MaxPushAssumption
  <1>1. log \in Seq(Events) /\ log \in Seq(Nat) /\ q \in Seq(Nat) /\ Len(log) \in Nat
    BY DEF TypeOK, Events
  <1>2. CASE Holds(q, fast)
    <2>1. /\ q # <<>> /\ log' = log \o <<Head(q)>> /\ queue' = Tail(q)
          /\ pendingTimer' = Len(log) + 1 /\ timers' = live \cup {Len(log) + 1}
      BY <1>2 DEF Drain, Released, Holds
    <2>2. log' = Append(log, Head(q))
      BY <2>1, <1>1, HeadTail
    <2>3. Len(log') = Len(log) + 1 /\ log' \in Seq(Events)
      BY <2>1, <2>2, <1>1, HeadTail, AppendType
    <2>4. queue' \in Seq(Events) /\ Len(queue') = Len(q) - 1 /\ Len(q) > 0
      BY <2>1, HeadTail
    <2>5. Increasing(log')
      <3>1. \A i \in 1 .. Len(log) : log[i] < Head(q)
        BY <2>1, <2>4, HeadTail DEF Before
      <3>2. Head(q) \in Nat
        BY <2>1, <1>1, HeadTail
      <3> QED BY <3>1, <3>2, <2>2, <1>1, AppendOrder
    <2>6. Increasing(queue')
      <3>1. \A i \in 1 .. Len(queue') : queue'[i] = q[i + 1]
        BY <2>1, HeadTail
      <3> QED BY <3>1, <2>4 DEF Increasing
    <2>7. Before(log', queue')
      <3> SUFFICES ASSUME NEW i \in 1 .. Len(log'), NEW j \in 1 .. Len(queue')
                   PROVE  log'[i] < queue'[j]
        BY DEF Before
      <3>1. queue'[j] = q[j + 1] /\ j + 1 \in 1 .. Len(q) /\ 1 \in 1 .. Len(q)
        BY <2>1, <2>4, HeadTail
      <3>2. CASE i = Len(log) + 1
        <4>1. log'[i] = q[1]  BY <3>2, <2>2, <2>1, <1>1, HeadTail
        <4> QED BY <4>1, <3>1 DEF Increasing
      <3>3. CASE i # Len(log) + 1
        <4>1. i \in 1 .. Len(log)  BY <3>3, <2>3, <1>1
        <4>2. log'[i] = log[i]  BY <4>1, <2>2, <1>1
        <4> QED BY <4>1, <4>2, <3>1 DEF Before
      <3> QED BY <3>2, <3>3
    <2>8. ToSet(log') \cup ToSet(queue') = ToSet(log) \cup ToSet(q)
      <3>1. ToSet(log') = ToSet(log) \cup {Head(q)}
        <4>1. Head(q) \in Events  BY <2>1, HeadTail
        <4> QED BY <4>1, <2>2, <1>1, AppendType
      <3>2. ToSet(q) = {Head(q)} \cup ToSet(queue')
        BY <2>1, HeadTail
      <3> QED BY <3>1, <3>2
    <2>9. /\ pendingTimer' \in Nat /\ timers' \subseteq 1 .. Len(log')
          /\ pendingTimer' \in timers' /\ pendingTimer' # 0
      <3>1. 1 .. Len(log) \subseteq 1 .. Len(log') /\ Len(log) + 1 \in 1 .. Len(log')
        BY <2>3, <1>1
      <3>2. Len(log) + 1 \in Nat /\ Len(log) + 1 # 0
        BY <1>1
      <3> QED BY <2>1, <3>1, <3>2
    <2> QED BY <1>2, <2>3, <2>4, <2>5, <2>6, <2>7, <2>8, <2>9
  <1>3. CASE ~Holds(q, fast)
    <2>1. /\ log' = log \o q /\ queue' = <<>>
          /\ pendingTimer' = 0 /\ timers' = live
      BY <1>3 DEF Drain, Released
    <2>2. log' \in Seq(Events) /\ Len(log') = Len(log) + Len(q)
      BY <2>1, <1>1, ConcatType
    <2>3. Increasing(log')
      BY <2>1, <1>1, ConcatOrder
    <2>4. /\ queue' \in Seq(Events) /\ Increasing(queue') /\ Before(log', queue')
          /\ ToSet(queue') = {}
      BY <2>1 DEF Increasing, Before, ToSet
    <2>5. ToSet(log') = ToSet(log) \cup ToSet(q)
      BY <2>1, <1>1, ConcatType
    <2>6. timers' \subseteq 1 .. Len(log') /\ pendingTimer' \in Nat
      BY <2>1, <2>2, <1>1
    <2> QED BY <2>1, <2>2, <2>3, <2>4, <2>5, <2>6
  <1> QED BY <1>2, <1>3

-----------------------------------------------------------------------------
LEMMA InitIInv == Init => IInv
  <1> SUFFICES ASSUME Init PROVE IInv
    OBVIOUS
  <1>1. queue = <<>> /\ log = <<>> /\ dropped = {} /\ pushed = 0 /\ timers = {}
    BY DEF Init
  <1>2. TypeOK
    <2>1. <<>> \in Seq(Events)  OBVIOUS
    <2>2. pushed \in 0 .. MaxPush  BY <1>1, MaxPushAssumption
    <2> QED BY <1>1, <2>1, <2>2 DEF Init, TypeOK
  <1>3. PushOrder
    BY <1>1 DEF PushOrder, Increasing, Before
  <1>4. NothingLost
    <2>1. ToSet(log) = {} /\ ToSet(queue) = {}
      BY <1>1 DEF ToSet
    <2> QED BY <2>1, <1>1 DEF NothingLost
  <1> QED BY <1>1, <1>2, <1>3, <1>4 DEF Init, IInv, QueueBacked, HandleLive

-----------------------------------------------------------------------------
(* One lemma per action.                                                   *)

LEMMA PushWaitsKeeps ==
  ASSUME IInv, NEW kind \in {"stage", "request"}, PushWaits(kind)
  PROVE  IInv'
  <1> USE MaxPushAssumption DEF IInv
  <1>1. /\ pushed < MaxPush /\ pushed' = NewEvent /\ queue' = Append(queue, NewEvent)
        /\ UNCHANGED <<log, dropped, paced, walking, pendingTimer, timers>>
        /\ pendingTimer # 0
    BY DEF PushWaits, Arrives
  <1>2. /\ NewEvent \in Events /\ NewEvent \in Nat /\ NewEvent \notin dropped
        /\ \A i \in 1 .. Len(log) : log[i] < NewEvent
        /\ \A i \in 1 .. Len(queue) : queue[i] < NewEvent
        /\ 1 .. NewEvent = (1 .. pushed) \cup {NewEvent}
    BY <1>1, NewIsYoungest DEF Events
  <1>3. /\ queue' \in Seq(Events) /\ Len(queue') = Len(queue) + 1
        /\ ToSet(queue') = ToSet(queue) \cup {NewEvent}
        /\ queue \in Seq(Nat) /\ log \in Seq(Nat)
    <2>1. queue \in Seq(Events) /\ log \in Seq(Events)  BY DEF TypeOK
    <2>2. queue \in Seq(Nat) /\ log \in Seq(Nat)  BY <2>1 DEF Events
    <2> QED BY <2>1, <2>2, <1>1, <1>2, AppendType
  <1>4. TypeOK'
    BY <1>1, <1>2, <1>3 DEF TypeOK, NewEvent
  <1>5. PushOrder'
    <2>1. Increasing(queue')
      BY <1>1, <1>2, <1>3, AppendOrder DEF PushOrder
    <2>2. Before(log', queue')
      <3> SUFFICES ASSUME NEW i \in 1 .. Len(log), NEW j \in 1 .. Len(queue')
                   PROVE  log[i] < queue'[j]
        BY <1>1 DEF Before
      <3>1. CASE j = Len(queue) + 1
        BY <3>1, <1>1, <1>2, <1>3
      <3>2. CASE j # Len(queue) + 1
        <4>1. j \in 1 .. Len(queue) /\ queue'[j] = queue[j]
          BY <3>2, <1>1, <1>3
        <4> QED BY <4>1 DEF PushOrder, Before
      <3> QED BY <3>1, <3>2
    <2> QED BY <2>1, <2>2, <1>1 DEF PushOrder, Increasing
  <1>6. NothingLost'
    BY <1>1, <1>2, <1>3 DEF NothingLost
  <1>7. QueueBacked' /\ HandleLive'
    BY <1>1 DEF QueueBacked, HandleLive
  <1> QED BY <1>4, <1>5, <1>6, <1>7

LEMMA PushKicksKeeps ==
  ASSUME IInv, NEW kind \in {"stage", "request"}, PushKicks(kind)
  PROVE  IInv'
  <1> USE MaxPushAssumption DEF IInv
  <1> DEFINE q == Append(queue, NewEvent)
  <1>1. /\ pushed < MaxPush /\ pushed' = NewEvent /\ pendingTimer = 0
        /\ Drain(q, timers, ~paced) /\ walking' = paced
        /\ UNCHANGED <<dropped, paced>>
    BY DEF PushKicks, Arrives
  <1>2. /\ NewEvent \in Events /\ NewEvent \in Nat /\ NewEvent \notin dropped
        /\ \A i \in 1 .. Len(log) : log[i] < NewEvent
        /\ 1 .. NewEvent = (1 .. pushed) \cup {NewEvent}
    BY <1>1, NewIsYoungest DEF Events
  <1>3. queue = <<>>
    <2>1. 0 \notin timers
      BY DEF TypeOK
    <2> QED BY <1>1, <2>1 DEF QueueBacked
  <1>4. q = <<NewEvent>> /\ q \in Seq(Events) /\ Len(q) = 1 /\ ToSet(q) = {NewEvent}
    <2>1. q = <<NewEvent>> /\ q \in Seq(Events) /\ Len(q) = 1
      BY <1>2, <1>3
    <2> QED BY <2>1 DEF ToSet
  <1>5. Increasing(q) /\ Before(log, q) /\ Increasing(log)
    <2>1. q[1] = NewEvent  BY <1>4
    <2> QED BY <2>1, <1>2, <1>4 DEF Increasing, Before, PushOrder
  <1>6. /\ log' \in Seq(Events) /\ queue' \in Seq(Events)
        /\ pendingTimer' \in Nat /\ timers' \subseteq 1 .. Len(log')
        /\ Increasing(log') /\ Increasing(queue') /\ Before(log', queue')
        /\ ToSet(log') \cup ToSet(queue') = ToSet(log) \cup {NewEvent}
        /\ pendingTimer' # 0 => pendingTimer' \in timers' /\ Holds(q, ~paced)
        /\ queue' # <<>> => pendingTimer' # 0
    <2>1. timers \subseteq 1 .. Len(log)  BY DEF TypeOK
    <2> HIDE DEF q
    <2> QED BY <2>1, <1>1, <1>4, <1>5, DrainKeeps
  <1>7. TypeOK'
    <2>1. pushed' \in 0 .. MaxPush  BY <1>1, <1>2 DEF Events
    <2>2. walking' \in BOOLEAN /\ paced' \in BOOLEAN  BY <1>1 DEF TypeOK
    <2> QED BY <2>1, <2>2, <1>1, <1>6 DEF TypeOK
  <1>8. PushOrder'
    BY <1>6 DEF PushOrder
  <1>9. NothingLost'
    <2>1. ToSet(queue) = {}  BY <1>3 DEF ToSet
    <2> QED BY <2>1, <1>1, <1>2, <1>6 DEF NothingLost
  <1>10. QueueBacked' /\ HandleLive'
    BY <1>1, <1>6 DEF QueueBacked, HandleLive, Holds
  <1> QED BY <1>7, <1>8, <1>9, <1>10

LEMMA PushErrorKeeps ==
  ASSUME IInv, PushError
  PROVE  IInv'
  <1> USE MaxPushAssumption DEF IInv
  <1> DEFINE all == log \o queue
  <1>1. /\ pushed < MaxPush /\ pushed' = NewEvent
        /\ log' = Append(all, NewEvent) /\ queue' = <<>>
        /\ timers' = Cleared /\ pendingTimer' = 0 /\ walking' = FALSE
        /\ UNCHANGED <<dropped, paced>>
    BY DEF PushError, Arrives
  <1>2. /\ NewEvent \in Events /\ NewEvent \in Nat /\ NewEvent \notin dropped
        /\ \A i \in 1 .. Len(log) : log[i] < NewEvent
        /\ \A i \in 1 .. Len(queue) : queue[i] < NewEvent
        /\ 1 .. NewEvent = (1 .. pushed) \cup {NewEvent}
    BY <1>1, NewIsYoungest DEF Events
  <1>3. /\ log \in Seq(Events) /\ queue \in Seq(Events)
        /\ log \in Seq(Nat) /\ queue \in Seq(Nat)
    <2>1. log \in Seq(Events) /\ queue \in Seq(Events)  BY DEF TypeOK
    <2> QED BY <2>1 DEF Events
  <1>4. /\ all \in Seq(Events) /\ all \in Seq(Nat) /\ Len(all) = Len(log) + Len(queue)
        /\ ToSet(all) = ToSet(log) \cup ToSet(queue)
        /\ \A i \in 1 .. Len(log) : all[i] = log[i]
        /\ \A j \in 1 .. Len(queue) : all[Len(log) + j] = queue[j]
    BY <1>3, ConcatType
  <1>5. Increasing(all)
    BY <1>3, ConcatOrder DEF PushOrder
  <1>6. \A i \in 1 .. Len(all) : all[i] < NewEvent
    <2> TAKE i \in 1 .. Len(all)
    <2>1. CASE i <= Len(log)  BY <2>1, <1>2, <1>3, <1>4
    <2>2. CASE i > Len(log)
      <3>1. i - Len(log) \in 1 .. Len(queue) /\ i = Len(log) + (i - Len(log))
        BY <2>2, <1>3, <1>4
      <3>2. all[i] = queue[i - Len(log)]  BY <3>1, <1>4
      <3> QED BY <3>1, <3>2, <1>2
    <2> QED BY <2>1, <2>2, <1>3
  <1> HIDE DEF all
  <1>7. /\ log' \in Seq(Events) /\ Len(log') = Len(log) + Len(queue) + 1
        /\ ToSet(log') = ToSet(log) \cup ToSet(queue) \cup {NewEvent}
    BY <1>1, <1>2, <1>4, AppendType
  <1>8. /\ queue' \in Seq(Events) /\ ToSet(queue') = {} /\ Increasing(queue')
        /\ Before(log', queue')
    BY <1>1 DEF ToSet, Increasing, Before
  <1>9. Increasing(log')
    BY <1>1, <1>2, <1>4, <1>5, <1>6, AppendOrder
  <1>10. TypeOK'
    <2>1. pushed' \in 0 .. MaxPush  BY <1>1, <1>2 DEF Events
    <2>2. timers' \subseteq 1 .. Len(log')
      <3>1. timers' \subseteq 1 .. Len(log)  BY <1>1 DEF TypeOK, Cleared
      <3>2. 1 .. Len(log) \subseteq 1 .. Len(log')  BY <1>3, <1>7
      <3> QED BY <3>1, <3>2
    <2> QED BY <2>1, <2>2, <1>1, <1>7, <1>8 DEF TypeOK
  <1>11. PushOrder'
    BY <1>8, <1>9 DEF PushOrder
  <1>12. NothingLost'
    BY <1>1, <1>2, <1>7, <1>8 DEF NothingLost
  <1>13. QueueBacked' /\ HandleLive'
    BY <1>1 DEF QueueBacked, HandleLive
  <1> QED BY <1>10, <1>11, <1>12, <1>13

(* preemptAndFlush() alone, and as the first half of reset().              *)
LEMMA FlushKeeps ==
  ASSUME IInv, dropped' = dropped \cup ToSet(queue), queue' = <<>>,
         timers' = Cleared, pendingTimer' = 0, walking' \in BOOLEAN,
         UNCHANGED <<log, pushed, paced>>
  PROVE  IInv'
  <1> USE DEF IInv
  <1>1. /\ queue' \in Seq(Events) /\ ToSet(queue') = {} /\ Increasing(queue')
        /\ Before(log', queue')
    BY DEF ToSet, Increasing, Before
  <1>2. ToSet(queue) \subseteq Events
    BY DEF TypeOK, ToSet
  <1>3. TypeOK'
    <2>1. timers' \subseteq 1 .. Len(log')  BY DEF TypeOK, Cleared
    <2> QED BY <2>1, <1>1, <1>2 DEF TypeOK
  <1>4. PushOrder'
    BY <1>1 DEF PushOrder, Increasing
  <1>5. NothingLost'
    <2>1. ToSet(log) \cap ToSet(queue) = {}  BY Disjoint
    <2>2. ToSet(log') = ToSet(log)  OBVIOUS
    <2> QED BY <2>1, <2>2, <1>1 DEF NothingLost
  <1>6. QueueBacked' /\ HandleLive'
    BY DEF QueueBacked, HandleLive
  <1> QED BY <1>3, <1>4, <1>5, <1>6

(* drain() on the queue as it is: what a timer and skip() do.              *)
LEMMA DrainQueueKeeps ==
  ASSUME IInv, NEW live, live \subseteq timers, NEW fast,
         Drain(queue, live, fast), walking' = (walking /\ Holds(queue, fast)),
         UNCHANGED <<dropped, pushed, paced>>
  PROVE  IInv'
  <1> USE DEF IInv
  <1>1. /\ log' \in Seq(Events) /\ queue' \in Seq(Events)
        /\ pendingTimer' \in Nat /\ timers' \subseteq 1 .. Len(log')
        /\ Increasing(log') /\ Increasing(queue') /\ Before(log', queue')
        /\ ToSet(log') \cup ToSet(queue') = ToSet(log) \cup ToSet(queue)
        /\ pendingTimer' # 0 => pendingTimer' \in timers' /\ Holds(queue, fast)
        /\ queue' # <<>> => pendingTimer' # 0
    <2>1. live \subseteq 1 .. Len(log) /\ queue \in Seq(Events)  BY DEF TypeOK
    <2>2. Increasing(log) /\ Increasing(queue) /\ Before(log, queue)  BY DEF PushOrder
    <2> QED BY <2>1, <2>2, DrainKeeps
  <1>2. TypeOK'
    <2>1. walking' \in BOOLEAN /\ paced' \in BOOLEAN  BY DEF TypeOK
    <2> QED BY <2>1, <1>1 DEF TypeOK
  <1>3. PushOrder'
    BY <1>1 DEF PushOrder
  <1>4. NothingLost'
    BY <1>1 DEF NothingLost
  <1>5. Holds(queue, fast) => walking
    BY DEF Holds, QueueBacked
  <1>6. QueueBacked' /\ HandleLive'
    BY <1>1, <1>5 DEF QueueBacked, HandleLive
  <1> QED BY <1>2, <1>3, <1>4, <1>6

LEMMA PushReplayKeeps ==
  ASSUME IInv, PushReplay
  PROVE  IInv'
  <1> USE MaxPushAssumption DEF IInv
  <1>1. /\ pushed < MaxPush /\ pushed' = NewEvent /\ log' = Append(log, NewEvent)
        /\ dropped' = dropped \cup ToSet(queue) /\ queue' = <<>>
        /\ timers' = Cleared \cup IF paced THEN {Len(log) + 1} ELSE {}
        /\ pendingTimer' = 0 /\ walking' = TRUE /\ UNCHANGED paced
    BY DEF PushReplay, Arrives
  <1>2. /\ NewEvent \in Events /\ NewEvent \in Nat /\ NewEvent \notin dropped
        /\ \A i \in 1 .. Len(log) : log[i] < NewEvent
        /\ \A i \in 1 .. Len(queue) : queue[i] < NewEvent
        /\ 1 .. NewEvent = (1 .. pushed) \cup {NewEvent}
    BY <1>1, NewIsYoungest DEF Events
  <1>3. /\ log \in Seq(Events) /\ queue \in Seq(Events)
        /\ log \in Seq(Nat) /\ queue \in Seq(Nat)
    <2>1. log \in Seq(Events) /\ queue \in Seq(Events)  BY DEF TypeOK
    <2> QED BY <2>1 DEF Events
  <1>4. /\ log' \in Seq(Events) /\ Len(log') = Len(log) + 1
        /\ ToSet(log') = ToSet(log) \cup {NewEvent}
    BY <1>1, <1>2, <1>3, AppendType
  <1>5. Increasing(log')
    BY <1>1, <1>2, <1>3, AppendOrder DEF PushOrder
  <1>6. /\ queue' \in Seq(Events) /\ ToSet(queue') = {} /\ Increasing(queue')
        /\ Before(log', queue')
    BY <1>1 DEF ToSet, Increasing, Before
  <1>7. TypeOK'
    <2>1. pushed' \in 0 .. MaxPush  BY <1>1, <1>2 DEF Events
    <2>2. timers' \subseteq 1 .. Len(log')
      <3>1. Cleared \subseteq 1 .. Len(log)  BY DEF TypeOK, Cleared
      <3>2. 1 .. Len(log) \subseteq 1 .. Len(log') /\ Len(log) + 1 \in 1 .. Len(log')
        BY <1>3, <1>4
      <3> QED BY <3>1, <3>2, <1>1
    <2>3. ToSet(queue) \subseteq Events  BY <1>3 DEF ToSet
    <2> QED BY <2>1, <2>2, <2>3, <1>1, <1>4, <1>6 DEF TypeOK
  <1>8. PushOrder'
    BY <1>5, <1>6 DEF PushOrder
  <1>9. NothingLost'
    <2>1. ToSet(log) \cap ToSet(queue) = {}  BY Disjoint
    <2>2. NewEvent \notin ToSet(queue)
      <3> SUFFICES ASSUME NEW j \in 1 .. Len(queue)  PROVE queue[j] # NewEvent
        BY <1>3 DEF ToSet
      <3> QED BY <1>2, <1>3
    <2> QED BY <2>1, <2>2, <1>1, <1>2, <1>4, <1>6 DEF NothingLost
  <1>10. QueueBacked' /\ HandleLive'
    BY <1>1 DEF QueueBacked, HandleLive
  <1> QED BY <1>7, <1>8, <1>9, <1>10

-----------------------------------------------------------------------------
LEMMA NextKeeps == IInv /\ [Next]_vars => IInv'
  <1> SUFFICES ASSUME IInv, [Next]_vars PROVE IInv'
    OBVIOUS
  <1>1. ASSUME NEW kind \in {"stage", "request"}, PushWaits(kind) PROVE IInv'
    BY <1>1, PushWaitsKeeps
  <1>2. ASSUME NEW kind \in {"stage", "request"}, PushKicks(kind) PROVE IInv'
    BY <1>2, PushKicksKeeps
  <1>3. CASE PushError
    BY <1>3, PushErrorKeeps
  <1>4. CASE PushReplay
    BY <1>4, PushReplayKeeps
  <1>5. ASSUME NEW t \in timers, TimerFires(t) PROVE IInv'
    <2>1. timers \ {t} \subseteq timers  OBVIOUS
    <2> QED BY <1>5, <2>1, DrainQueueKeeps DEF TimerFires
  <1>6. CASE PreemptAndFlush
    <2>1. walking' \in BOOLEAN  BY <1>6 DEF PreemptAndFlush, IInv, TypeOK
    <2> QED BY <1>6, <2>1, FlushKeeps DEF PreemptAndFlush
  <1>7. CASE Skip
    <2>1. Cleared \subseteq timers  BY DEF Cleared
    <2>2. walking' = (walking /\ Holds(queue, TRUE))  BY <1>7 DEF Skip, Holds
    <2> QED BY <1>7, <2>1, <2>2, DrainQueueKeeps DEF Skip
  <1>8. CASE Reset
    <2>1. walking' \in BOOLEAN  BY <1>8 DEF Reset
    <2> QED BY <1>8, <2>1, FlushKeeps DEF Reset
  <1>9. CASE SetPace
    <2>1. paced' \in BOOLEAN  BY <1>9 DEF SetPace
    <2> QED BY <1>9, <2>1 DEF SetPace, IInv, TypeOK, PushOrder, Increasing, Before,
                              NothingLost, QueueBacked, HandleLive
  <1>10. CASE UNCHANGED vars
    BY <1>10 DEF vars, IInv, TypeOK, PushOrder, Increasing, Before,
                 NothingLost, QueueBacked, HandleLive
  <1> QED
    BY <1>1, <1>2, <1>3, <1>4, <1>5, <1>6, <1>7, <1>8, <1>9, <1>10
       DEF Next, Push, Fires

LEMMA Invariance == Spec => []IInv
  BY InitIInv, NextKeeps, PTL DEF Spec

(* The variables of the queue keep their types.                            *)
THEOREM TypeCorrect == Spec => []TypeOK
  <1>1. IInv => TypeOK  BY DEF IInv
  <1> QED BY <1>1, Invariance, PTL

(* Events reach the subscribers in the order of their push(), for every    *)
(* pace, every flush and every stray timer: the M7 ordering invariant.     *)
THEOREM DeliveredInOrder == Spec => []PushOrder
  <1>1. IInv => PushOrder  BY DEF IInv
  <1> QED BY <1>1, Invariance, PTL

(* No event disappears except by a flush.                                  *)
THEOREM NoEventLost == Spec => []NothingLost
  <1>1. IInv => NothingLost  BY DEF IInv
  <1> QED BY <1>1, Invariance, PTL

(* No event waits without a timer to release it.                           *)
THEOREM NoEventStranded == Spec => []QueueBacked
  <1>1. IInv => QueueBacked  BY DEF IInv
  <1> QED BY <1>1, Invariance, PTL

-----------------------------------------------------------------------------
(* Of the two loose ends of drain(), a handle that is nulled although its  *)
(* timer lives and a timer that fires without being the one on the handle, *)
(* both begin with a replay.  Without one there is one chain of timers,    *)
(* within a walk, and the handle is its: what the retrieval engine, which  *)
(* pushes nothing but stages, is modelled with.                            *)
OneChain == timers = (IF pendingTimer = 0 THEN {} ELSE {pendingTimer})

LEMMA ChainStep ==
  ASSUME "request" \notin Kinds, IInv, OneChain, [Next]_vars
  PROVE  OneChain'
  <1>1. Len(log) + 1 # 0 /\ Cleared = {}
    BY DEF IInv, TypeOK, OneChain, Cleared
  <1>2. ASSUME NEW q, NEW fast, Drain(q, {}, fast)  PROVE OneChain'
    BY <1>1, <1>2 DEF Drain, OneChain
  <1>3. ~\E raw \in RawEvents : Unwrap(raw) = "request"
    BY DEF RawEvents, Unwrap
  <1>4. ~PushReplay
    BY <1>3 DEF PushReplay, Arrives
  <1>5. ASSUME NEW kind, PushWaits(kind)  PROVE OneChain'
    BY <1>5 DEF PushWaits, OneChain
  <1>6. ASSUME NEW kind, PushKicks(kind)  PROVE OneChain'
    <2>1. timers = {} /\ Drain(Append(queue, NewEvent), timers, ~paced)
      BY <1>6 DEF PushKicks, OneChain
    <2> QED BY <1>2, <2>1
  <1>7. CASE PushError \/ PreemptAndFlush \/ Reset
    BY <1>1, <1>7 DEF PushError, PreemptAndFlush, Reset, OneChain
  <1>8. ASSUME NEW t \in timers, TimerFires(t)  PROVE OneChain'
    <2>1. timers \ {t} = {}
      BY <1>8 DEF OneChain
    <2>2. Drain(queue, {}, ~paced)
      BY <1>8, <2>1 DEF TimerFires
    <2> QED BY <1>2, <2>2
  <1>9. CASE Skip
    <2>1. Drain(queue, {}, TRUE)
      BY <1>1, <1>9 DEF Skip
    <2> QED BY <1>2, <2>1
  <1>10. CASE SetPace \/ UNCHANGED vars
    BY <1>10 DEF SetPace, vars, OneChain
  <1> QED BY <1>4, <1>5, <1>6, <1>7, <1>8, <1>9, <1>10 DEF Next, Push, Fires

(* A queue that is pushed no request has one timer at most, and its handle.*)
THEOREM StagesHaveOneTimer ==
  ASSUME "request" \notin Kinds  PROVE Spec => [](OneChain /\ HandleLive)
  <1>1. Init => OneChain
    BY DEF Init, OneChain
  <1>2. IInv /\ OneChain /\ [Next]_vars => OneChain'
    BY ChainStep
  <1>3. IInv => HandleLive
    BY DEF IInv
  <1> QED BY <1>1, <1>2, <1>3, Invariance, PTL DEF Spec

-----------------------------------------------------------------------------
(* That every event leaves the queue is TLC's to check (EventLeaves).  The *)
(* measure behind it is proved: the events ahead of one that waits.        *)
Ahead(e) == {f \in ToSet(queue) : f < e}

Closer ==
  \A e \in ToSet(queue) \cap ToSet(queue') :
    /\ Ahead(e)' \subseteq Ahead(e)
    /\ Fires => Ahead(e)' # Ahead(e)

(* What waits after a step has waited before, or is the youngest of all.   *)
LEMMA NoneCutsIn ==
  ASSUME IInv, [Next]_vars, NEW e \in ToSet(queue), NEW f \in ToSet(queue'), f < e
  PROVE  f \in ToSet(queue)
  <1>1. queue \in Seq(Events) /\ ToSet(<<>>) = {}
    BY DEF IInv, TypeOK, ToSet
  <1>2. ASSUME NEW q \in Seq(Events), NEW live, NEW fast, Drain(q, live, fast)  PROVE f \in ToSet(q)
    <2>1. CASE Holds(q, fast)
      BY <1>2, <2>1, HeadTail DEF Drain, Holds
    <2>2. CASE ~Holds(q, fast)
      BY <1>1, <1>2, <2>2 DEF Drain
    <2> QED BY <2>1, <2>2
  <1>3. ASSUME pushed < MaxPush
        PROVE  /\ NewEvent \in Events /\ f # NewEvent
               /\ Append(queue, NewEvent) \in Seq(Events)
               /\ ToSet(Append(queue, NewEvent)) = ToSet(queue) \cup {NewEvent}
    <2>1. NewEvent \in Events /\ \A k \in 1 .. Len(queue) : queue[k] < NewEvent
      BY <1>3, NewIsYoungest DEF IInv
    <2>2. PICK k \in 1 .. Len(queue) : queue[k] = e
      BY <1>1 DEF ToSet
    <2>3. e < NewEvent /\ e \in Nat /\ NewEvent \in Nat
      BY <1>1, <2>1, <2>2, MaxPushAssumption DEF Events
    <2> QED BY <1>1, <2>1, <2>3, AppendType
  <1>4. ASSUME NEW kind, PushWaits(kind)  PROVE f \in ToSet(queue)
    BY <1>3, <1>4 DEF PushWaits, Arrives
  <1>5. ASSUME NEW kind, PushKicks(kind)  PROVE f \in ToSet(queue)
    <2>1. pushed < MaxPush /\ Drain(Append(queue, NewEvent), timers, ~paced)
      BY <1>5 DEF PushKicks, Arrives
    <2> QED BY <1>2, <1>3, <2>1
  <1>6. CASE PushError \/ PushReplay \/ PreemptAndFlush \/ Reset
    BY <1>1, <1>6 DEF PushError, PushReplay, PreemptAndFlush, Reset
  <1>7. ASSUME NEW t \in timers, TimerFires(t)  PROVE f \in ToSet(queue)
    BY <1>1, <1>2, <1>7 DEF TimerFires
  <1>8. CASE Skip
    BY <1>1, <1>2, <1>8 DEF Skip
  <1>9. CASE SetPace \/ UNCHANGED vars
    BY <1>9 DEF SetPace, vars
  <1> QED BY <1>4, <1>5, <1>6, <1>7, <1>8, <1>9 DEF Next, Push, Fires

(* A timer that fires takes the head away, which was ahead of the others.  *)
LEMMA FiringHelps ==
  ASSUME IInv, NEW t \in timers, TimerFires(t), NEW e \in ToSet(queue')
  PROVE  Head(queue) \in ToSet(queue) \ ToSet(queue') /\ Head(queue) < e
  <1>1. queue \in Seq(Events) /\ ToSet(<<>>) = {} /\ Increasing(queue)
    BY DEF IInv, TypeOK, ToSet, PushOrder
  <1>2. queue # <<>> /\ queue' = Tail(queue)
    BY <1>1 DEF TimerFires, Drain, Holds
  <1>3. /\ Head(queue) = queue[1] /\ Len(Tail(queue)) = Len(queue) - 1 /\ Len(queue) > 0
        /\ Tail(queue) \in Seq(Events)
        /\ \A k \in 1 .. Len(Tail(queue)) : Tail(queue)[k] = queue[k + 1]
        /\ ToSet(queue) = {Head(queue)} \cup ToSet(Tail(queue))
    BY <1>1, <1>2, HeadTail
  <1>4. ASSUME NEW g \in ToSet(queue')  PROVE Head(queue) < g
    <2>1. PICK k \in 1 .. Len(Tail(queue)) : Tail(queue)[k] = g
      BY <1>2, <1>3, <1>4 DEF ToSet
    <2>2. 1 \in 1 .. Len(queue) /\ k + 1 \in 1 .. Len(queue) /\ 1 < k + 1 /\ queue[k + 1] = g
      BY <1>1, <1>3, <2>1
    <2>3. queue[1] < queue[k + 1]
      BY <1>1, <2>2 DEF Increasing
    <2> QED BY <1>3, <2>2, <2>3
  <1>5. Head(queue) \notin ToSet(queue')
    <2>1. Head(queue) \in Nat
      BY <1>1, <1>2, HeadTail, MaxPushAssumption DEF Events
    <2> QED BY <1>4, <2>1
  <1> QED BY <1>3, <1>4, <1>5

(* Nobody jumps the queue: as long as an event waits, fewer and fewer are  *)
(* ahead of it, fewer with every timer that fires, whatever is pushed,     *)
(* skipped or flushed and whichever timer it is.                           *)
THEOREM TurnsComeCloser == Spec => [][Closer]_vars
  <1>1. IInv /\ [Next]_vars => [Closer]_vars
    <2> SUFFICES ASSUME IInv, Next, NEW e \in ToSet(queue) \cap ToSet(queue')
                 PROVE  Ahead(e)' \subseteq Ahead(e) /\ (Fires => Ahead(e)' # Ahead(e))
      BY DEF Closer
    <2>1. Ahead(e)' \subseteq Ahead(e)
      BY NoneCutsIn DEF Ahead
    <2>2. ASSUME Fires  PROVE Ahead(e)' # Ahead(e)
      <3>1. PICK t \in timers : TimerFires(t)
        BY <2>2 DEF Fires
      <3>2. Head(queue) \in ToSet(queue) \ ToSet(queue') /\ Head(queue) < e
        BY <3>1, FiringHelps
      <3> QED BY <3>2 DEF Ahead
    <2> QED BY <2>1, <2>2
  <1> QED BY <1>1, Invariance, PTL DEF Spec

=============================================================================
