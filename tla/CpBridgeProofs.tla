---------------------------- MODULE CpBridgeProofs ----------------------------
(***************************************************************************)
(* What the Credential Provider path guarantees for any number of          *)
(* requests, threads, hanging callers and crashes, and any timeouts: the   *)
(* callers alive are bounded by the pool, no request is lost or served     *)
(* twice, and what a client reports of the bridge has its cause.           *)
(***************************************************************************)
EXTENDS CpBridge, SeqFacts, FiniteSetTheorems, TLAPS

(* What the threads and the callers know of each other.                    *)
ServedOk(r) ==
  /\ caller[r] \in {"running", "hung"} => thread[r] = "reading"
  /\ caller[r] = "closed" => thread[r] \in {"reading", "waiting"}
  /\ caller[r] \in {"closed", "exited"} => printed[r] \in Outputs
  /\ thread[r] = "replying" =>
       printed[r] \in Lines \cup {"braced"} /\ (printed[r] = "grant" => caller[r] = "exited")
  /\ client[r] = New => thread[r] = "none" /\ r \notin ToSet(backlog)

Served == \A r \in Requests : ServedOk(r)

(* A client that was answered with a secret, or with output that it could  *)
(* not decode, is through with its request.                                *)
ToldOk(r) ==
  /\ client[r] = Granted => thread[r] = "done" /\ printed[r] = "grant" /\ caller[r] = "exited"
  /\ client[r] = Unreachable =>
       \/ age[r] = ClientTimeout
       \/ crashes > 0
       \/ thread[r] = "done" /\ printed[r] = "braced"

Told == \A r \in Requests : ToldOk(r)

PoolBound == Cardinality(InPool) <= Threads

DownCrashed == ~up => crashes > 0

IInv == TypeOK /\ Served /\ PoolBound /\ RequestKept /\ Told /\ DownCrashed

-----------------------------------------------------------------------------
(* The client's values are different from each other.                      *)
LEMMA Distinct ==
  /\ New # Asking /\ Unreachable # New /\ Unreachable # Asking
  /\ Granted \notin {New, Asking, Unreachable}
  /\ \A s \in {1, 2} : Refused(s) \notin {New, Asking, Unreachable}
  BY DEF New, Asking, Granted, Refused, Unreachable

(* A verdict is an answer, and "unreachable" only when it does not decode. *)
LEMMA VerdictType ==
  ASSUME NEW r \in Requests, NEW reply
  PROVE  /\ Verdict(r, reply) \in {Granted, Refused(1), Refused(2), Unreachable}
         /\ reply \in Lines => Verdict(r, reply) # Unreachable
         /\ Verdict(r, reply) = Granted => reply = "grant"
         /\ Verdict(r, reply) \notin {New, Asking}
  <1>1. Verdict(r, reply) \in {Granted, Refused(1), Refused(2), Unreachable}
    BY DEF Verdict
  <1>2. Verdict(r, reply) \notin {New, Asking}
    BY <1>1, Distinct
  <1>3. ASSUME reply \in Lines  PROVE Verdict(r, reply) # Unreachable
    <2>1. Verdict(r, reply) \in {Granted, Refused(1), Refused(2)}  BY <1>3 DEF Verdict
    <2> QED BY <2>1, Distinct
  <1>4. ASSUME reply # "grant"  PROVE Verdict(r, reply) # Granted
    <2>1. Verdict(r, reply) \in {Refused(1), Refused(2), Unreachable}  BY <1>4 DEF Verdict
    <2>2. Granted.kind = "granted" /\ Unreachable.kind = "unreachable"
          /\ Refused(1).kind = "refused" /\ Refused(2).kind = "refused"
      BY DEF Granted, Unreachable, Refused
    <2> QED BY <2>1, <2>2
  <1> QED BY <1>1, <1>2, <1>3, <1>4

(* Whatever a caller prints is an output.                                  *)
LEMMA PrintsType == \A r \in Requests : CallerPrints[r] \subseteq Outputs
  BY PrintsAssumption

-----------------------------------------------------------------------------
(* The initial states.                                                     *)
LEMMA InitInv == Init => IInv
  <1> SUFFICES ASSUME Init PROVE IInv
    OBVIOUS
  <1> USE DEF Init
  <1>1. TypeOK
    BY TimeoutAssumption, HangAssumption DEF TypeOK
  <1>2. InPool = {} /\ ToSet(backlog) = {} /\ Asked = {}
    BY Distinct DEF InPool, ToSet, Asked
  <1>3. PoolBound
    BY <1>2, FS_EmptySet, PoolAssumption DEF PoolBound
  <1>4. Served
    BY <1>2 DEF Served, ServedOk
  <1>5. RequestKept
    BY <1>2 DEF RequestKept
  <1>6. Told
    BY Distinct DEF Told, ToldOk
  <1> QED BY <1>1, <1>3, <1>4, <1>5, <1>6 DEF IInv, DownCrashed

(* Every step keeps the types.                                             *)
LEMMA TypeStep == TypeOK /\ [Next]_vars => TypeOK'
  <1> SUFFICES ASSUME TypeOK, [Next]_vars PROVE TypeOK'
    OBVIOUS
  <1> USE TimeoutAssumption, HangAssumption DEF TypeOK
  <1>1. CASE UNCHANGED vars
    BY <1>1 DEF vars
  <1>2. ASSUME NEW r \in Requests, Ask(r)  PROVE TypeOK'
    <2>1. client' \in [Requests -> {New, Asking, Granted, Refused(1), Refused(2), Unreachable}]
      BY <1>2 DEF Ask
    <2>2. backlog \in Seq(Requests)  OBVIOUS
    <2>3. Append(backlog, r) \in Seq(Requests)  BY <2>2, AppendType
    <2>4. backlog' \in Seq(Requests)  BY <1>2, <2>2, <2>3 DEF Ask
    <2> QED BY <1>2, <2>1, <2>4 DEF Ask
  <1>3. ASSUME NEW r \in Requests, GiveUp(r)  PROVE TypeOK'
    BY <1>3 DEF GiveUp
  <1>4. ASSUME NEW r \in Requests, Take(r)  PROVE TypeOK'
    <2>1. backlog \in Seq(Requests) /\ backlog # <<>>  BY <1>4 DEF Take
    <2>2. Tail(backlog) \in Seq(Requests)  BY <2>1, HeadTail
    <2>3. "fault" \in Outputs  BY DEF Outputs, Lines
    <2>4. backlog' \in Seq(Requests)  BY <1>4, <2>2 DEF Take
    <2>5. thread' \in [Requests -> {"none", "reading", "waiting", "replying", "done"}]
      BY <1>4 DEF Take
    <2>6. caller' \in [Requests -> {"none", "running", "hung", "closed", "exited", "killed"}]
      BY <1>4 DEF Take
    <2>7. printed' \in [Requests -> Outputs \cup {"none"}]  BY <1>4, <2>3 DEF Take
    <2> QED BY <1>4, <2>4, <2>5, <2>6, <2>7 DEF Take
  <1>5. ASSUME NEW r \in Requests, ReadsToEnd(r)  PROVE TypeOK'
    BY <1>5 DEF ReadsToEnd
  <1>6. ASSUME NEW r \in Requests, Reaped(r)  PROVE TypeOK'
    BY <1>6 DEF Reaped, Outputs, Lines
  <1>7. ASSUME NEW r \in Requests, TimesOut(r)  PROVE TypeOK'
    BY <1>7 DEF TimesOut, Outputs, Lines
  <1>8. ASSUME NEW r \in Requests, Reply(r)  PROVE TypeOK'
    <2>1. client' \in [Requests -> {New, Asking, Granted, Refused(1), Refused(2), Unreachable}]
      BY <1>8, VerdictType DEF Reply
    <2> QED BY <1>8, <2>1 DEF Reply
  <1>9. ASSUME NEW r \in Requests, Closes(r)  PROVE TypeOK'
    BY <1>9, PrintsType DEF Closes
  <1>10. ASSUME NEW r \in Requests, Exits(r)  PROVE TypeOK'
    BY <1>10 DEF Exits
  <1>11. ASSUME NEW r \in Requests, Hangs(r)  PROVE TypeOK'
    BY <1>11 DEF Hangs
  <1>12. CASE Crash
    <2>1. thread' \in [Requests -> {"none", "reading", "waiting", "replying", "done"}]
      BY <1>12 DEF Crash
    <2>2. caller' \in [Requests -> {"none", "running", "hung", "closed", "exited", "killed"}]
      BY <1>12 DEF Crash
    <2>3. client' \in [Requests -> {New, Asking, Granted, Refused(1), Refused(2), Unreachable}]
      BY <1>12 DEF Crash
    <2>4. backlog' \in Seq(Requests)  BY <1>12 DEF Crash
    <2>5. crashes' \in 0 .. MaxCrashes  BY <1>12 DEF Crash
    <2> QED BY <1>12, <2>1, <2>2, <2>3, <2>4, <2>5 DEF Crash
  <1>13. CASE Restart
    BY <1>13 DEF Restart
  <1>14. CASE Tick
    BY <1>14 DEF Tick, Late, Asked
  <1> QED BY <1>1, <1>2, <1>3, <1>4, <1>5, <1>6, <1>7, <1>8, <1>9, <1>10,
             <1>11, <1>12, <1>13, <1>14 DEF Next, Serve

(* The step lemmas below are about the states the invariant allows.        *)
LEMMA PoolShrinks ==
  ASSUME PoolBound, InPool' \subseteq InPool
  PROVE  PoolBound'
  <1>1. IsFiniteSet(InPool)
    BY FS_Subset, RequestsAssumption DEF InPool
  <1>2. Cardinality(InPool') <= Cardinality(InPool) /\ IsFiniteSet(InPool')
    BY <1>1, FS_Subset
  <1>3. Cardinality(InPool) \in Nat /\ Cardinality(InPool') \in Nat
    BY <1>1, <1>2, FS_CardinalityType
  <1> QED BY <1>2, <1>3, PoolAssumption DEF PoolBound

(* No step lets more threads in than the pool has.                         *)
LEMMA PoolStep == TypeOK /\ PoolBound /\ [Next]_vars => PoolBound'
  <1> SUFFICES ASSUME TypeOK, PoolBound, [Next]_vars PROVE PoolBound'
    OBVIOUS
  <1>1. DOMAIN thread = Requests
    BY DEF TypeOK
  <1>2. ASSUME NEW r \in Requests, Take(r)  PROVE PoolBound'
    <2>1. InPool' = InPool \cup {r}
      BY <1>2, <1>1 DEF Take, InPool
    <2>2. IsFiniteSet(InPool)
      BY FS_Subset, RequestsAssumption DEF InPool
    <2>3. Cardinality(InPool) \in Nat
      BY <2>2, FS_CardinalityType
    <2>4. Cardinality(InPool \cup {r}) = IF r \in InPool THEN Cardinality(InPool)
                                         ELSE Cardinality(InPool) + 1
      BY <2>2, FS_AddElement
    <2>5. Cardinality(InPool) < Threads
      BY <1>2 DEF Take
    <2> QED BY <2>1, <2>3, <2>4, <2>5, PoolAssumption DEF PoolBound
  <1>3. CASE ~\E r \in Requests : Take(r)
    <2>1. InPool' \subseteq InPool
      <3>1. ASSUME NEW r \in Requests,
                   ReadsToEnd(r) \/ Reaped(r) \/ TimesOut(r) \/ Reply(r)
            PROVE  InPool' \subseteq InPool
        BY <3>1, <1>1 DEF ReadsToEnd, Reaped, TimesOut, Reply, InPool
      <3>2. CASE Crash
        BY <3>2, <1>1 DEF Crash, InPool
      <3>3. CASE thread' = thread
        BY <3>3 DEF InPool
      <3> QED BY <1>3, <3>1, <3>2, <3>3
              DEF Next, vars, Serve, Ask, GiveUp, Closes, Exits, Hangs, Restart, Tick
    <2> QED BY <2>1, PoolShrinks
  <1> QED BY <1>2, <1>3

(* No step parts a caller from its thread.                                 *)
LEMMA ServedStep == TypeOK /\ Served /\ RequestKept /\ [Next]_vars => Served'
  <1> SUFFICES ASSUME TypeOK, Served, RequestKept, [Next]_vars,
                      NEW q \in Requests
               PROVE  ServedOk(q)'
    BY DEF Served
  <1>0. /\ ServedOk(q) /\ backlog \in Seq(Requests) /\ q \in DOMAIN client
        /\ DOMAIN thread = Requests /\ DOMAIN caller = Requests
        /\ DOMAIN printed = Requests /\ DOMAIN client = Requests
    BY DEF Served, TypeOK
  <1>1. CASE UNCHANGED vars
    BY <1>0, <1>1 DEF vars, ServedOk
  <1>2. ASSUME NEW r \in Requests, Ask(r)  PROVE ServedOk(q)'
    <2>1. CASE q = r
      BY <1>0, <1>2, <2>1, Distinct DEF Ask, ServedOk
    <2>2. CASE q # r
      <3>1. q \in ToSet(backlog') => q \in ToSet(backlog)
        <4>1. ToSet(Append(backlog, r)) = ToSet(backlog) \cup {r}
          BY <1>0, AppendType
        <4>2. backlog' = Append(backlog, r) \/ backlog' = backlog
          BY <1>2 DEF Ask
        <4>3. CASE backlog' = backlog
          BY <4>3
        <4>4. CASE backlog' = Append(backlog, r)
          BY <4>1, <4>4, <2>2
        <4> QED BY <4>2, <4>3, <4>4
      <3> QED BY <1>0, <1>2, <2>2, <3>1 DEF Ask, ServedOk
    <2> QED BY <2>1, <2>2
  <1>3. ASSUME NEW r \in Requests, GiveUp(r)  PROVE ServedOk(q)'
    BY <1>0, <1>3, Distinct DEF GiveUp, ServedOk
  <1>4. ASSUME NEW r \in Requests, Take(r)  PROVE ServedOk(q)'
    <2>1. r \in ToSet(backlog) /\ ToSet(backlog') \subseteq ToSet(backlog)
      BY <1>0, <1>4, HeadTail DEF Take
    <2>2. client[r] # New
      BY <2>1 DEF Served, ServedOk
    <2>3. thread[r] = "none" /\ caller[r] \notin {"running", "hung", "closed"}
      BY <2>1 DEF RequestKept, Served, ServedOk
    <2> QED BY <1>0, <1>4, <2>1, <2>2, <2>3 DEF Take, ServedOk, Lines, Outputs
  <1>5. ASSUME NEW r \in Requests, ReadsToEnd(r) \/ Reaped(r) \/ TimesOut(r)
        PROVE  ServedOk(q)'
    BY <1>0, <1>5 DEF ReadsToEnd, Reaped, TimesOut, ServedOk, Lines, Outputs
  <1>6. ASSUME NEW r \in Requests, Reply(r)  PROVE ServedOk(q)'
    BY <1>0, <1>6, VerdictType DEF Reply, ServedOk
  <1>7. ASSUME NEW r \in Requests, Closes(r) \/ Exits(r) \/ Hangs(r)
        PROVE  ServedOk(q)'
    BY <1>0, <1>7, PrintsType DEF Closes, Exits, Hangs, ServedOk
  <1>8. CASE Crash
    <2>1. thread[q] = "none" \/ thread'[q] = "done"
      BY <1>0, <1>8 DEF Crash, InPool, TypeOK
    <2>2. ToSet(backlog') = {}
      BY <1>8 DEF Crash, ToSet
    <2>3. client'[q] = New => client[q] = New
      BY <1>0, <1>8, Distinct DEF Crash
    <2>4. /\ caller'[q] \notin {"running", "hung", "closed"} /\ printed' = printed
          /\ caller'[q] = "exited" => caller[q] = "exited"
      BY <1>0, <1>8 DEF Crash
    <2>5. thread'[q] # "replying" /\ (thread[q] = "none" => thread'[q] = "none")
      BY <1>0, <1>8, <2>1 DEF Crash, InPool
    <2> QED BY <1>0, <2>2, <2>3, <2>4, <2>5 DEF ServedOk
  <1>9. CASE Restart \/ Tick
    BY <1>0, <1>9 DEF Restart, Tick, ServedOk
  <1> QED BY <1>1, <1>2, <1>3, <1>4, <1>5, <1>6, <1>7, <1>8, <1>9 DEF Next, Serve

(* No step loses a request or queues it twice.                             *)
LEMMA KeptStep == TypeOK /\ Served /\ RequestKept /\ [Next]_vars => RequestKept'
  <1> SUFFICES ASSUME TypeOK, Served, RequestKept, [Next]_vars PROVE RequestKept'
    OBVIOUS
  <1>0. /\ backlog \in Seq(Requests) /\ NoTwice(backlog)
        /\ DOMAIN thread = Requests /\ DOMAIN client = Requests
        /\ ToSet(backlog) \subseteq Requests
    <2>1. backlog \in Seq(Requests) /\ DOMAIN thread = Requests /\ DOMAIN client = Requests
      BY DEF TypeOK
    <2>2. NoTwice(backlog)
      BY DEF RequestKept, NoTwice
    <2>3. ToSet(backlog) \subseteq Requests
      BY <2>1 DEF ToSet
    <2> QED BY <2>1, <2>2, <2>3
  <1>k. /\ \A q \in ToSet(backlog) : thread[q] = "none"
        /\ \A q \in Requests : client[q] = Asking => q \in ToSet(backlog) \cup InPool
    BY DEF RequestKept, Asked
  <1> SUFFICES /\ NoTwice(backlog')
               /\ \A q \in ToSet(backlog') : thread'[q] = "none"
               /\ \A q \in Requests : client'[q] = Asking => q \in ToSet(backlog') \cup InPool'
    BY DEF RequestKept, NoTwice, Asked
  <1>1. CASE UNCHANGED vars
    BY <1>0, <1>k, <1>1 DEF vars, InPool
  <1>2. ASSUME NEW r \in Requests, Ask(r)
        PROVE  /\ NoTwice(backlog')
               /\ \A q \in ToSet(backlog') : thread'[q] = "none"
               /\ \A q \in Requests : client'[q] = Asking => q \in ToSet(backlog') \cup InPool'
    <2>1. thread[r] = "none" /\ r \notin ToSet(backlog) /\ thread' = thread /\ InPool' = InPool
      BY <1>2 DEF Ask, Served, ServedOk, InPool
    <2>2. ToSet(Append(backlog, r)) = ToSet(backlog) \cup {r} /\ NoTwice(Append(backlog, r))
      BY <1>0, <2>1, AppendType, AppendOnce
    <2>3. CASE up
      BY <1>0, <1>k, <1>2, <2>1, <2>2, <2>3 DEF Ask
    <2>4. CASE ~up
      BY <1>0, <1>k, <1>2, <2>1, <2>4, Distinct DEF Ask
    <2> QED BY <2>3, <2>4
  <1>3. ASSUME NEW r \in Requests, GiveUp(r)
        PROVE  /\ backlog' = backlog /\ thread' = thread
               /\ \A q \in Requests : client'[q] = Asking => client[q] = Asking
    BY <1>0, <1>3, Distinct DEF GiveUp
  <1>4. ASSUME NEW r \in Requests, Take(r)
        PROVE  /\ NoTwice(backlog')
               /\ \A q \in ToSet(backlog') : thread'[q] = "none"
               /\ \A q \in Requests : client'[q] = Asking => q \in ToSet(backlog') \cup InPool'
    <2>1. backlog # <<>> /\ r = Head(backlog) /\ backlog' = Tail(backlog) /\ client' = client
      BY <1>4 DEF Take
    <2>2. NoTwice(backlog') /\ r \notin ToSet(backlog')
      BY <1>0, <2>1, TailOnce
    <2>3. ToSet(backlog) = {r} \cup ToSet(backlog')
      BY <1>0, <2>1, HeadTail
    <2>4. InPool' = InPool \cup {r} /\ \A q \in Requests : q # r => thread'[q] = thread[q]
      BY <1>0, <1>4 DEF Take, InPool
    <2> QED BY <1>0, <1>k, <2>1, <2>2, <2>3, <2>4
  <1>5. ASSUME NEW r \in Requests, ReadsToEnd(r) \/ Reaped(r) \/ TimesOut(r)
        PROVE  /\ backlog' = backlog /\ client' = client /\ InPool' = InPool
               /\ \A q \in ToSet(backlog) : thread'[q] = thread[q]
    <2>1. thread[r] \in {"reading", "waiting"} /\ r \notin ToSet(backlog)
      BY <1>5, <1>k DEF ReadsToEnd, Reaped, TimesOut
    <2>2. thread' \in {[thread EXCEPT ![r] = "waiting"], [thread EXCEPT ![r] = "replying"]}
      BY <1>5 DEF ReadsToEnd, Reaped, TimesOut
    <2>3. InPool' = InPool
      BY <1>0, <2>1, <2>2 DEF InPool
    <2> QED BY <1>0, <1>5, <2>1, <2>2, <2>3 DEF ReadsToEnd, Reaped, TimesOut
  <1>6. ASSUME NEW r \in Requests, Reply(r)
        PROVE  /\ backlog' = backlog
               /\ \A q \in ToSet(backlog) : thread'[q] = thread[q]
               /\ \A q \in Requests : client'[q] = Asking =>
                    client[q] = Asking /\ (q \in InPool => q \in InPool')
    <2>1. r \notin ToSet(backlog) /\ backlog' = backlog
      BY <1>6, <1>k DEF Reply
    <2>2. client'[r] # Asking
      BY <1>0, <1>6, VerdictType DEF Reply
    <2>3. \A q \in Requests : q # r => client'[q] = client[q] /\ thread'[q] = thread[q]
      BY <1>0, <1>6 DEF Reply
    <2> QED BY <1>0, <2>1, <2>2, <2>3 DEF InPool
  <1>7. ASSUME Crash
        PROVE  /\ backlog' = <<>> /\ \A q \in Requests : client'[q] # Asking
    BY <1>0, <1>7, Distinct DEF Crash, Asked
  <1>8. ASSUME (\E r \in Requests : Closes(r) \/ Exits(r) \/ Hangs(r)) \/ Restart \/ Tick
        PROVE  backlog' = backlog /\ client' = client /\ thread' = thread
    BY <1>8 DEF Closes, Exits, Hangs, Restart, Tick
  <1>9. backlog' = <<>> => NoTwice(backlog') /\ ToSet(backlog') = {}
    BY DEF NoTwice, ToSet
  <1>10. thread' = thread => InPool' = InPool
    BY DEF InPool
  <1>11. CASE \E r \in Requests : Ask(r) \/ Take(r)
    BY <1>2, <1>4, <1>11
  <1>12. CASE (\E r \in Requests : GiveUp(r) \/ Closes(r) \/ Exits(r) \/ Hangs(r)) \/ Restart \/ Tick
    <2>1. backlog' = backlog /\ thread' = thread /\ InPool' = InPool
      BY <1>3, <1>8, <1>10, <1>12
    <2>2. \A q \in Requests : client'[q] = Asking => client[q] = Asking
      BY <1>3, <1>8, <1>12
    <2> QED BY <1>0, <1>k, <2>1, <2>2
  <1>13. CASE \E r \in Requests : ReadsToEnd(r) \/ Reaped(r) \/ TimesOut(r)
    BY <1>0, <1>k, <1>5, <1>13
  <1>14. CASE \E r \in Requests : Reply(r)
    BY <1>0, <1>k, <1>6, <1>14
  <1>15. CASE Crash
    BY <1>7, <1>9, <1>15
  <1> QED BY <1>1, <1>11, <1>12, <1>13, <1>14, <1>15 DEF Next, Serve

(* What was told a client keeps its cause.                                 *)
LEMMA TruthStep ==
  TypeOK /\ Served /\ Told /\ RequestKept /\ DownCrashed /\ [Next]_vars => Told' /\ DownCrashed'
  <1> SUFFICES ASSUME TypeOK, Served, Told, RequestKept, DownCrashed, [Next]_vars
               PROVE  Told' /\ DownCrashed'
    OBVIOUS
  <1>0. /\ DOMAIN client = Requests /\ DOMAIN age = Requests /\ DOMAIN thread = Requests
        /\ DOMAIN caller = Requests /\ DOMAIN printed = Requests
        /\ crashes \in Nat /\ MaxCrashes \in Nat
    BY HangAssumption DEF TypeOK
  <1>1. crashes' >= crashes /\ crashes' \in Nat /\ DownCrashed'
    <2>1. CASE Crash
      BY <1>0, <2>1 DEF Crash, DownCrashed
    <2>2. CASE ~Crash
      <3>1. crashes' = crashes /\ (up' = up \/ up' = TRUE)
        BY <2>2 DEF Next, vars, Serve, Ask, GiveUp, Take, ReadsToEnd, Reaped,
                TimesOut, Reply, Closes, Exits, Hangs, Restart, Tick
      <3> QED BY <1>0, <3>1 DEF DownCrashed
    <2> QED BY <2>1, <2>2
  <1> SUFFICES ASSUME NEW q \in Requests PROVE ToldOk(q)'
    BY <1>1 DEF Told
  <1>2. ToldOk(q) /\ ServedOk(q) /\ (q \in ToSet(backlog) => thread[q] = "none")
    BY DEF Told, Served, RequestKept
  <1>3. CASE UNCHANGED vars
    BY <1>2, <1>3 DEF vars, ToldOk
  <1>4. ASSUME NEW r \in Requests, Ask(r)  PROVE ToldOk(q)'
    <2>1. CASE q = r
      BY <1>0, <1>4, <2>1, Distinct DEF Ask, ToldOk, DownCrashed
    <2>2. CASE q # r
      BY <1>0, <1>2, <1>4, <2>2 DEF Ask, ToldOk
    <2> QED BY <2>1, <2>2
  <1>5. ASSUME NEW r \in Requests, GiveUp(r)  PROVE ToldOk(q)'
    BY <1>0, <1>2, <1>5, Distinct DEF GiveUp, ToldOk
  <1>6. ASSUME NEW r \in Requests, Take(r)  PROVE ToldOk(q)'
    <2>1. q = r => thread[q] = "none"
      BY <1>2, <1>6, HeadTail DEF Take, TypeOK
    <2> QED BY <1>0, <1>2, <1>6, <2>1 DEF Take, ToldOk
  <1>7. ASSUME NEW r \in Requests, ReadsToEnd(r) \/ Reaped(r) \/ TimesOut(r)
        PROVE  ToldOk(q)'
    BY <1>0, <1>2, <1>7 DEF ReadsToEnd, Reaped, TimesOut, ToldOk
  <1>8. ASSUME NEW r \in Requests, Reply(r)  PROVE ToldOk(q)'
    <2>1. CASE q = r /\ client[r] = Asking
      <3>1. /\ client'[q] = Verdict(r, printed[r]) /\ thread'[q] = "done"
            /\ UNCHANGED <<age, caller, printed, crashes>>
            /\ printed[q] \in Lines \cup {"braced"} /\ (printed[q] = "grant" => caller[q] = "exited")
        BY <1>0, <1>2, <1>8, <2>1 DEF Reply, ServedOk
      <3>2. client'[q] = Granted => printed[q] = "grant"
        BY <2>1, <3>1, VerdictType
      <3>3. client'[q] = Unreachable => printed[q] = "braced"
        BY <2>1, <3>1, VerdictType
      <3> QED BY <3>1, <3>2, <3>3 DEF ToldOk
    <2>2. CASE ~(q = r /\ client[r] = Asking)
      BY <1>0, <1>2, <1>8, <2>2 DEF Reply, ToldOk
    <2> QED BY <2>1, <2>2
  <1>9. ASSUME NEW r \in Requests, Closes(r) \/ Exits(r) \/ Hangs(r)
        PROVE  ToldOk(q)'
    BY <1>0, <1>2, <1>9 DEF Closes, Exits, Hangs, ToldOk, ServedOk
  <1>10. CASE Crash
    <2>1. crashes' > 0 /\ (client'[q] = Granted => client[q] = Granted)
      BY <1>0, <1>10, Distinct DEF Crash
    <2> QED BY <1>0, <1>2, <1>10, <2>1 DEF Crash, ToldOk, InPool
  <1>11. CASE Restart
    BY <1>2, <1>11 DEF Restart, ToldOk
  <1>12. CASE Tick
    <2>1. client[q] # Asking => age'[q] = age[q]
      BY <1>0, <1>12 DEF Tick, Asked
    <2> QED BY <1>0, <1>2, <1>12, <2>1, Distinct DEF Tick, ToldOk
  <1> QED BY <1>3, <1>4, <1>5, <1>6, <1>7, <1>8, <1>9, <1>10, <1>11, <1>12 DEF Next, Serve

-----------------------------------------------------------------------------
(* The invariant holds in every reachable state.                           *)
LEMMA Inductive == Spec => []IInv
  <1>1. IInv /\ [Next]_vars => IInv'
    BY TypeStep, PoolStep, ServedStep, KeptStep, TruthStep DEF IInv
  <1> QED BY InitInv, <1>1, PTL DEF Spec

(* Types of every reachable state (TypeOK).                                *)
THEOREM TypeCorrect == Spec => []TypeOK
  <1>1. Init => TypeOK  BY InitInv DEF IInv
  <1> QED BY <1>1, TypeStep, PTL DEF Spec

(* The pool bounds the callers on the host (CallersBounded).               *)
THEOREM HostLoadBounded == Spec => []CallersBounded
  <1>1. IInv => CallersBounded
    <2> SUFFICES ASSUME IInv PROVE CallersBounded
      OBVIOUS
    <2>1. ASSUME NEW r \in Requests, caller[r] \in {"running", "hung", "closed"}
          PROVE  r \in InPool
      BY <2>1 DEF IInv, Served, ServedOk, InPool
    <2> QED BY <2>1 DEF IInv, PoolBound, CallersBounded
  <1> QED BY <1>1, Inductive, PTL

(* Every request is in one place, once, while its client waits             *)
(* (RequestKept).                                                          *)
THEOREM NoRequestLost == Spec => []RequestKept
  <1>1. IInv => RequestKept  BY DEF IInv
  <1> QED BY <1>1, Inductive, PTL

(* A secret comes from a caller that ended by itself, and "unreachable" is *)
(* said of a bridge that was late or down, or that relayed what is only    *)
(* between braces (VerdictHasCause).                                       *)
THEOREM VerdictsAreCaused == Spec => []VerdictHasCause
  <1>1. IInv => VerdictHasCause  BY DEF IInv, Told, ToldOk, VerdictHasCause
  <1> QED BY <1>1, Inductive, PTL

-----------------------------------------------------------------------------
(* That the queue moves is TLC's to check, with a thread to spare for the  *)
(* callers that hang (QueueMoves).  What happens without one is proved: no *)
(* timeout ends a caller that hangs, for its thread is still reading.      *)
Hung == {r \in Requests : caller[r] = "hung"}
Stalled == Cardinality(Hung) >= Threads

(* A caller that hangs still hangs after a step, if that is not a crash.   *)
HangStays ==
  crashes' = crashes => \A r \in Hung : caller'[r] = "hung" /\ thread'[r] = "reading"

(* A stalled bridge stays so, and who waits for a thread gets none.        *)
StallStays ==
  crashes' = crashes /\ Stalled =>
    Stalled' /\ \A r \in ToSet(backlog) : r \in ToSet(backlog') /\ thread'[r] = "none"

(* Whatever a thread does, it does not do it to one that is reading a      *)
(* caller which hangs: of the steps of a request each asks for another     *)
(* step of the thread or for a caller that runs.                           *)
LEMMA HangStep == TypeOK /\ Served /\ RequestKept /\ [Next]_vars => HangStays
  <1> SUFFICES ASSUME TypeOK, Served, RequestKept, [Next]_vars, crashes' = crashes,
                      NEW q \in Requests, caller[q] = "hung"
               PROVE  caller'[q] = "hung" /\ thread'[q] = "reading"
    BY DEF HangStays, Hung
  <1>1. /\ thread[q] = "reading" /\ q \notin ToSet(backlog)
        /\ DOMAIN caller = Requests /\ DOMAIN thread = Requests
    BY DEF TypeOK, RequestKept, Served, ServedOk
  <1>2. ASSUME NEW r \in Requests, Take(r)  PROVE caller'[q] = "hung" /\ thread'[q] = "reading"
    <2>1. r # q
      BY <1>1, <1>2, HeadTail DEF Take, TypeOK
    <2> QED BY <1>1, <1>2, <2>1 DEF Take
  <1>3. ASSUME NEW r \in Requests, ReadsToEnd(r) \/ Reaped(r) \/ TimesOut(r) \/ Reply(r)
        PROVE  caller'[q] = "hung" /\ thread'[q] = "reading"
    BY <1>1, <1>3 DEF ReadsToEnd, Reaped, TimesOut, Reply
  <1>4. ASSUME NEW r \in Requests, Closes(r) \/ Exits(r) \/ Hangs(r)
        PROVE  caller'[q] = "hung" /\ thread'[q] = "reading"
    BY <1>1, <1>4 DEF Closes, Exits, Hangs
  <1>5. ~Crash
    BY HangAssumption DEF Crash, TypeOK
  <1> QED BY <1>1, <1>2, <1>3, <1>4, <1>5 DEF Next, Serve, Ask, GiveUp, Restart, Tick, vars

(* No thread is free, so none takes a request; and a request that waits    *)
(* is touched by no other step but its client giving up.                   *)
LEMMA StallStep == TypeOK /\ Served /\ RequestKept /\ [Next]_vars => StallStays
  <1> SUFFICES ASSUME TypeOK, Served, RequestKept, [Next]_vars, crashes' = crashes, Stalled
               PROVE  /\ Stalled'
                      /\ \A r \in ToSet(backlog) : r \in ToSet(backlog') /\ thread'[r] = "none"
    BY DEF StallStays
  <1>1. /\ backlog \in Seq(Requests) /\ DOMAIN thread = Requests
        /\ ToSet(backlog) \subseteq Requests
        /\ \A r \in ToSet(backlog) : thread[r] = "none"
    BY DEF TypeOK, RequestKept, ToSet
  <1>2. IsFiniteSet(Hung) /\ IsFiniteSet(Hung') /\ IsFiniteSet(InPool)
    BY FS_Subset, RequestsAssumption DEF Hung, InPool
  <1>3. /\ Cardinality(Hung) \in Nat /\ Cardinality(Hung') \in Nat /\ Cardinality(InPool) \in Nat
        /\ Threads \in Nat
    BY <1>2, FS_CardinalityType, PoolAssumption
  <1>4. Stalled'
    <2>1. Hung \subseteq Hung'
      BY HangStep DEF HangStays, Hung
    <2>2. Cardinality(Hung) <= Cardinality(Hung')
      BY <1>2, <2>1, FS_Subset
    <2> QED BY <1>3, <2>2 DEF Stalled
  <1>5. ~\E r \in Requests : Take(r)
    <2>1. Hung \subseteq InPool
      BY DEF Served, ServedOk, Hung, InPool
    <2>2. Cardinality(Hung) <= Cardinality(InPool)
      BY <1>2, <2>1, FS_Subset
    <2> QED BY <1>3, <2>2 DEF Take, Stalled
  <1>6. ~Crash
    BY HangAssumption DEF Crash, TypeOK
  <1>7. ASSUME NEW r \in Requests, Ask(r)
        PROVE  ToSet(backlog) \subseteq ToSet(backlog') /\ thread' = thread
    <2>1. ToSet(Append(backlog, r)) = ToSet(backlog) \cup {r}
      BY <1>1, AppendType
    <2> QED BY <1>7, <2>1 DEF Ask
  <1>8. ASSUME NEW r \in Requests, ReadsToEnd(r) \/ Reaped(r) \/ TimesOut(r) \/ Reply(r)
        PROVE  backlog' = backlog /\ \A q \in ToSet(backlog) : thread'[q] = "none"
    BY <1>1, <1>8 DEF ReadsToEnd, Reaped, TimesOut, Reply
  <1> QED BY <1>1, <1>4, <1>5, <1>6, <1>7, <1>8
          DEF Next, Serve, GiveUp, Closes, Exits, Hangs, Restart, Tick, vars

(* Only a crash ends a hang: the timeout of the bridge, the deadline of    *)
(* the client and all that others do leave caller and thread as they are,  *)
(* whatever the timeouts (the finding of HungCallerEnds, and why).         *)
THEOREM OnlyACrashEndsAHang == Spec => [][HangStays]_vars
  <1>1. IInv /\ [Next]_vars => [HangStays]_vars
    BY HangStep DEF IInv
  <1> QED BY <1>1, Inductive, PTL DEF Spec

(* As many hanging callers as threads, and the bridge serves no one more:  *)
(* whoever is in the queue stays there without a thread until it crashes.  *)
THEOREM HungPoolServesNoOne == Spec => [][StallStays]_vars
  <1>1. IInv /\ [Next]_vars => [StallStays]_vars
    BY StallStep DEF IInv
  <1> QED BY <1>1, Inductive, PTL DEF Spec

=============================================================================
