------------------------------- MODULE CpBridge -------------------------------
(***************************************************************************)
(* The Credential Provider path: the Go client of the web application      *)
(* (internal/retrieve/cp/cp.go), the bridge on the host that it POSTs to   *)
(* (hostbridge/cp/CpBridge.java) and the caller process that the bridge    *)
(* runs for each request (CpCaller.java).                                  *)
(*                                                                         *)
(* The bridge serves on a fixed pool of threads with a queue in front.  A  *)
(* thread reads its caller's standard output to the end, then waits for    *)
(* the process with a timeout, then replies.  The client has a deadline of *)
(* its own, and the bridge is not told when a client stops waiting.  Time  *)
(* is counted in ticks; a deadline that has come holds the clock.          *)
(***************************************************************************)
EXTENDS Integers, Sequences, FiniteSets, SequencesExt

CONSTANTS
  Requests,       \* requests of the web application, each made once
  ScenarioOf,     \* ScenarioOf[r]: the scenario r asks for
  Threads,        \* size of the bridge's pool
  ClientTimeout,  \* ticks the client waits for its reply
  CallerTimeout,  \* ticks the bridge waits for a caller that ended its output
  CallerPrints,   \* CallerPrints[r]: what r's caller may print, of Outputs below
  MaxHangs,       \* bound on callers that never end by themselves
  MaxCrashes      \* bound on crashes of the bridge

ASSUME RequestsAssumption == IsFiniteSet(Requests) /\ ScenarioOf \in
                               [Requests -> {"authorized", "invalid-hash", "denied", "dual"}]
ASSUME PoolAssumption == Threads \in Nat \ {0}
ASSUME TimeoutAssumption == ClientTimeout \in Nat \ {0} /\ CallerTimeout \in Nat \ {0}
ASSUME HangAssumption == MaxHangs \in Nat /\ MaxCrashes \in Nat

VARIABLES
  client,   \* client[r]: what the client of r knows
  age,      \* age[r]: ticks since r was sent, while its client waits
  backlog,  \* requests waiting for a thread
  thread,   \* thread[r]: what the thread serving r is doing
  waited,   \* waited[r]: ticks that thread has waited for the process
  caller,   \* caller[r]: the caller process of r
  printed,  \* printed[r]: what that process wrote on its standard output
  up,       \* the bridge is running
  crashes   \* crashes so far

vars == <<client, age, backlog, thread, waited, caller, printed, up, crashes>>

(* One JSON line with a secret, a denial of the Credential Provider at one *)
(* of its two checks or another failure; or something else than JSON,      *)
(* which may yet start and end with a brace, as two JSON lines do.         *)
Lines == {"grant", "authn", "authz", "fault"}
Outputs == Lines \cup {"braced", "text"}
ASSUME PrintsAssumption == CallerPrints \in [Requests -> SUBSET Outputs \ {{}}]

(* What the client reports: the failed step of the lifecycle, -1 for none. *)
Asking == [kind |-> "asking", step |-> -1]
New == [kind |-> "new", step |-> -1]
Granted == [kind |-> "granted", step |-> -1]
Refused(step) == [kind |-> "refused", step |-> step]
Unreachable == [kind |-> "unreachable", step |-> 0]

InPool == {r \in Requests : thread[r] \in {"reading", "waiting", "replying"}}
Asked == {r \in Requests : client[r] = Asking}

Init ==
  /\ client = [r \in Requests |-> New]
  /\ age = [r \in Requests |-> 0] /\ waited = [r \in Requests |-> 0]
  /\ backlog = <<>>
  /\ thread = [r \in Requests |-> "none"]
  /\ caller = [r \in Requests |-> "none"]
  /\ printed = [r \in Requests |-> "none"]
  /\ up = TRUE /\ crashes = 0

-----------------------------------------------------------------------------
(* The client.                                                             *)

(* call(): the request goes out; nobody listens while the bridge is down.  *)
Ask(r) ==
  /\ client[r] = New
  /\ \/ up /\ client' = [client EXCEPT ![r] = Asking] /\ backlog' = Append(backlog, r)
     \/ ~up /\ client' = [client EXCEPT ![r] = Unreachable] /\ UNCHANGED backlog
  /\ UNCHANGED <<age, thread, waited, caller, printed, up, crashes>>

(* slip: the deadline covers the connection only, not a slow reply         *)
GiveUpConnecting(r) ==
  /\ client[r] = Asking /\ age[r] = ClientTimeout /\ thread[r] = "none"
  /\ client' = [client EXCEPT ![r] = Unreachable]
  /\ UNCHANGED <<age, backlog, thread, waited, caller, printed, up, crashes>>

(* The client's deadline: the request stays with the bridge.               *)
GiveUp(r) ==
  /\ client[r] = Asking /\ age[r] = ClientTimeout
  /\ client' = [client EXCEPT ![r] = Unreachable]
  /\ UNCHANGED <<age, backlog, thread, waited, caller, printed, up, crashes>>

(* slip: the steps are counted from one                                    *)
VerdictOffByOne(r, reply) ==
  IF reply = "grant" THEN Granted
  ELSE IF reply \notin Lines THEN Unreachable
  ELSE Refused(IF ScenarioOf[r] = "invalid-hash" THEN 2 ELSE 3)

(* Run(): what the client makes of a reply.  A reply that does not decode  *)
(* is "unreachable"; of a failure only the scenario tells the step.        *)
Verdict(r, reply) ==
  IF reply = "grant" THEN Granted
  ELSE IF reply \notin Lines THEN Unreachable
  ELSE Refused(IF ScenarioOf[r] = "invalid-hash" THEN 1 ELSE 2)

-----------------------------------------------------------------------------
(* The bridge.                                                             *)

(* slip: a caller that cannot be started ends the thread without a reply   *)
TakeOrDie(r) ==
  /\ up /\ backlog # <<>> /\ r = Head(backlog) /\ Cardinality(InPool) < Threads
  /\ backlog' = Tail(backlog)
  /\ \/ /\ thread' = [thread EXCEPT ![r] = "reading"]
        /\ caller' = [caller EXCEPT ![r] = "running"]
     \/ thread' = [thread EXCEPT ![r] = "done"] /\ UNCHANGED caller
  /\ UNCHANGED <<client, age, waited, printed, up, crashes>>

(* A free thread takes the request at the head and starts its caller, or   *)
(* fails to, which it replies.                                             *)
Take(r) ==
  /\ up /\ backlog # <<>> /\ r = Head(backlog) /\ Cardinality(InPool) < Threads
  /\ backlog' = Tail(backlog)
  /\ \/ /\ thread' = [thread EXCEPT ![r] = "reading"]
        /\ caller' = [caller EXCEPT ![r] = "running"]
        /\ UNCHANGED printed
     \/ /\ thread' = [thread EXCEPT ![r] = "replying"]
        /\ printed' = [printed EXCEPT ![r] = "fault"]
        /\ UNCHANGED caller
  /\ UNCHANGED <<client, age, waited, up, crashes>>

(* readAll(stdout) returns when the caller has closed its output.          *)
ReadsToEnd(r) ==
  /\ thread[r] = "reading" /\ caller[r] \in {"closed", "exited"}
  /\ thread' = [thread EXCEPT ![r] = "waiting"]
  /\ UNCHANGED <<client, age, backlog, waited, caller, printed, up, crashes>>

(* slip: the output of a caller is relayed whatever it is                  *)
ReapedVerbatim(r) ==
  /\ thread[r] = "waiting" /\ caller[r] = "exited"
  /\ thread' = [thread EXCEPT ![r] = "replying"]
  /\ UNCHANGED <<client, age, backlog, waited, caller, printed, up, crashes>>

(* waitFor() returns: what starts and ends with a brace is relayed,        *)
(* anything else is wrapped.                                               *)
Reaped(r) ==
  /\ thread[r] = "waiting" /\ caller[r] = "exited"
  /\ thread' = [thread EXCEPT ![r] = "replying"]
  /\ printed' = [printed EXCEPT ![r] = IF @ = "text" THEN "fault" ELSE @]
  /\ UNCHANGED <<client, age, backlog, waited, caller, up, crashes>>

(* slip: a caller that is late is left running                             *)
TimesOutOnly(r) ==
  /\ thread[r] = "waiting" /\ waited[r] = CallerTimeout /\ caller[r] # "exited"
  /\ thread' = [thread EXCEPT ![r] = "replying"]
  /\ printed' = [printed EXCEPT ![r] = "fault"]
  /\ UNCHANGED <<client, age, backlog, waited, caller, up, crashes>>

(* waitFor() times out: the caller is killed.                              *)
TimesOut(r) ==
  /\ thread[r] = "waiting" /\ waited[r] = CallerTimeout /\ caller[r] # "exited"
  /\ thread' = [thread EXCEPT ![r] = "replying"]
  /\ caller' = [caller EXCEPT ![r] = "killed"]
  /\ printed' = [printed EXCEPT ![r] = "fault"]
  /\ UNCHANGED <<client, age, backlog, waited, up, crashes>>

(* slip: a thread whose client has gone is not given back                  *)
ReplyIfHeard(r) ==
  /\ thread[r] = "replying" /\ client[r] = Asking
  /\ thread' = [thread EXCEPT ![r] = "done"]
  /\ client' = [client EXCEPT ![r] = Verdict(r, printed[r])]
  /\ UNCHANGED <<age, backlog, waited, caller, printed, up, crashes>>

(* respond(): the thread goes back to the pool; a client that has stopped  *)
(* waiting does not hear the reply.                                        *)
Reply(r) ==
  /\ thread[r] = "replying"
  /\ thread' = [thread EXCEPT ![r] = "done"]
  /\ client' = IF client[r] = Asking
                 THEN [client EXCEPT ![r] = Verdict(r, printed[r])] ELSE client
  /\ UNCHANGED <<age, backlog, waited, caller, printed, up, crashes>>

Serve(r) == Take(r) \/ ReadsToEnd(r) \/ Reaped(r) \/ TimesOut(r) \/ Reply(r)

(* The bridge dies: its connections break, and the service manager ends    *)
(* what is left of its processes before it starts it again.                *)
Crash ==
  /\ up /\ crashes < MaxCrashes
  /\ up' = FALSE /\ crashes' = crashes + 1
  /\ backlog' = <<>>
  /\ thread' = [r \in Requests |-> IF r \in InPool THEN "done" ELSE thread[r]]
  /\ caller' = [r \in Requests |-> IF caller[r] \in {"running", "hung", "closed"}
                                     THEN "killed" ELSE caller[r]]
  /\ client' = [r \in Requests |-> IF r \in Asked THEN Unreachable ELSE client[r]]
  /\ UNCHANGED <<age, waited, printed>>

Restart ==
  /\ ~up /\ up' = TRUE
  /\ UNCHANGED <<client, age, backlog, thread, waited, caller, printed, crashes>>

-----------------------------------------------------------------------------
(* The caller process and the clock.                                       *)

(* CpCaller prints its one line and exits, a denial included; a process    *)
(* that never gets that far prints something else, or nothing.             *)
Closes(r) ==
  /\ caller[r] = "running"
  /\ caller' = [caller EXCEPT ![r] = "closed"]
  /\ \E out \in CallerPrints[r] : printed' = [printed EXCEPT ![r] = out]
  /\ UNCHANGED <<client, age, backlog, thread, waited, up, crashes>>

Exits(r) ==
  /\ caller[r] = "closed"
  /\ caller' = [caller EXCEPT ![r] = "exited"]
  /\ UNCHANGED <<client, age, backlog, thread, waited, printed, up, crashes>>

(* The native call does not return, or the caller fills the pipe of its    *)
(* error stream, which nobody reads until its output has ended.            *)
Hangs(r) ==
  /\ caller[r] = "running"
  /\ Cardinality({q \in Requests : caller[q] = "hung"}) < MaxHangs
  /\ caller' = [caller EXCEPT ![r] = "hung"]
  /\ UNCHANGED <<client, age, backlog, thread, waited, printed, up, crashes>>

Late(r) == \/ client[r] = Asking /\ age[r] = ClientTimeout
           \/ thread[r] = "waiting" /\ waited[r] = CallerTimeout

Tick ==
  /\ \A r \in Requests : ~Late(r)
  /\ Asked # {} \/ \E r \in Requests : thread[r] = "waiting"
  /\ age' = [r \in Requests |-> IF r \in Asked THEN age[r] + 1 ELSE age[r]]
  /\ waited' = [r \in Requests |-> IF thread[r] = "waiting" THEN waited[r] + 1 ELSE waited[r]]
  /\ UNCHANGED <<client, backlog, thread, caller, printed, up, crashes>>

Next ==
  \/ \E r \in Requests : Ask(r) \/ GiveUp(r) \/ Serve(r) \/ Closes(r) \/ Exits(r) \/ Hangs(r)
  \/ Crash \/ Restart \/ Tick

(* Threads, deadlines, the clock and the service manager go on; a caller   *)
(* that does not hang ends its output and then exits, but one that hangs   *)
(* may do so first.                                                        *)
Fairness ==
  /\ WF_vars(Tick) /\ WF_vars(Restart)
  /\ \A r \in Requests : /\ WF_vars(GiveUp(r)) /\ WF_vars(Serve(r))
                         /\ WF_vars(Closes(r)) /\ WF_vars(Exits(r))
Spec == Init /\ [][Next]_vars /\ Fairness

-----------------------------------------------------------------------------
(* Every variable has its type: the client reports only what it may show   *)
(* (a step of the lifecycle that exists), and no clock outruns its limit.  *)
TypeOK ==
  /\ client \in [Requests -> {New, Asking, Granted, Refused(1), Refused(2), Unreachable}]
  /\ age \in [Requests -> 0 .. ClientTimeout]
  /\ waited \in [Requests -> 0 .. CallerTimeout]
  /\ backlog \in Seq(Requests)
  /\ thread \in [Requests -> {"none", "reading", "waiting", "replying", "done"}]
  /\ caller \in [Requests -> {"none", "running", "hung", "closed", "exited", "killed"}]
  /\ printed \in [Requests -> Outputs \cup {"none"}]
  /\ up \in BOOLEAN /\ crashes \in 0 .. MaxCrashes

(* The pool bounds the bridge's load on the host: every caller process     *)
(* still alive has a thread of the pool on it, after timeouts, crashes     *)
(* and hung-up clients too (the pool of CpBridge.main).                    *)
CallersBounded ==
  LET alive == {r \in Requests : caller[r] \in {"running", "hung", "closed"}}
  IN  alive \subseteq InPool /\ Cardinality(InPool) <= Threads

(* No request is lost or served twice: it waits in the queue once and not  *)
(* yet with a thread; a client that waits has its request in the bridge.   *)
RequestKept ==
  /\ \A i, j \in 1 .. Len(backlog) : backlog[i] = backlog[j] => i = j
  /\ \A r \in ToSet(backlog) : thread[r] = "none"
  /\ Asked \subseteq ToSet(backlog) \cup InPool

(* What a client reports has its cause.  A secret is what a caller printed *)
(* that then ended by itself, never what was read of one that was killed;  *)
(* "unreachable" is said of a deadline that came, of a bridge that died,   *)
(* and of output between braces that is not JSON: that much is not wrapped *)
(* (the test of startsWith and endsWith in runCaller).                     *)
VerdictHasCause ==
  \A r \in Requests :
    /\ client[r] = Granted => printed[r] = "grant" /\ caller[r] = "exited"
    /\ client[r] = Unreachable =>
         age[r] = ClientTimeout \/ crashes > 0 \/ printed[r] = "braced"

(* Every request is answered to its user, even when its caller hangs.      *)
UserAnswered == \A r \in Requests : client[r] = Asking ~> client[r] # Asking

(* With a thread to spare for those that hang, the queue keeps moving.     *)
QueueMoves == \A r \in Requests : r \in ToSet(backlog) ~> r \notin ToSet(backlog)

(* A caller that hangs is timed out: what the comment on runCaller says.   *)
HungCallerEnds == \A r \in Requests : caller[r] = "hung" ~> caller[r] # "hung"

=============================================================================
