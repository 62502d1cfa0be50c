------------------------- MODULE ForeignProberProofs -------------------------
(***************************************************************************)
(* What the shared prober guarantees for any number of requests and any    *)
(* budget: one source at most, a mutex that no request that is gone keeps, *)
(* rejections that took place, and answers within a budget for each.       *)
(***************************************************************************)
EXTENDS ForeignProber, FiniteSetTheorems, TLAPS

(* The requests that have passed the mutex, and what the one inside has    *)
(* spent of its budget: while it has any left, it may make others wait.    *)
Past == {r \in Requests : step[r] \in {"dialing", "written"}}
Spent(q) == IF age[q] < Budget THEN age[q] ELSE Budget

(* A request was within its budget when it asked for the mutex, and has    *)
(* waited a budget for each that passed, and for what the one inside has   *)
(* spent of its own.                                                       *)
WaitOk(r) ==
  /\ Inside = {} => age[r] <= Budget + Cardinality(Past) * Budget
  /\ \A q \in Inside : age[r] <= Budget + Cardinality(Past) * Budget + Spent(q)
WaitBound ==
  /\ \A r \in Requests : step[r] = "earlier" => age[r] <= Budget
  /\ \A r \in Requests : step[r] = "locking" => WaitOk(r)

(* A request that has not arrived has no age.                              *)
NewIsYoung == \A r \in Requests : step[r] = "new" => age[r] = 0

(* A request that has its answer is over.                                  *)
AnswerEnds == \A r \in Requests : answer[r] # "none" => step[r] = "written"

IInv == /\ TypeOK /\ OneSource /\ MutexKept /\ RejectionIsReal /\ AnswerEnds
        /\ WaitBound /\ NewIsYoung /\ AnsweredInTurns

-----------------------------------------------------------------------------
(* Budgets add up.                                                         *)
LEMMA BudgetsAdd ==
  /\ \A n \in Nat : n * Budget \in Nat /\ (n + 1) * Budget = n * Budget + Budget
  /\ \A n, m \in Nat : n <= m => n * Budget <= m * Budget
  <1>1. \A n \in Nat : n * Budget \in Nat /\ (n + 1) * Budget = n * Budget + Budget
    BY BudgetAssumption
  <1>2. ASSUME NEW n \in Nat, NEW m \in Nat, n <= m PROVE n * Budget <= m * Budget
    <2> DEFINE d == m - n
    <2>1. d \in Nat /\ m = n + d
      BY <1>2
    <2> HIDE DEF d
    <2>2. m * Budget = n * Budget + d * Budget /\ d * Budget \in Nat /\ n * Budget \in Nat
      BY <2>1, BudgetAssumption
    <2> QED BY <2>2
  <1> QED BY <1>1, <1>2

(* There is a budget for each request, so for one if there is one.         *)
LEMMA Counted ==
  /\ Cardinality(Requests) \in Nat /\ AllBudgets \in Nat /\ MaxAge \in Nat
  /\ \A r \in Requests : Budget <= AllBudgets
  <1>1. Cardinality(Requests) \in Nat
    BY RequestsAssumption, FS_CardinalityType
  <1>2. AllBudgets \in Nat /\ MaxAge \in Nat
    BY <1>1, BudgetsAdd DEF AllBudgets, MaxAge
  <1>3. ASSUME NEW r \in Requests PROVE Budget <= AllBudgets
    <2>1. Cardinality(Requests) # 0
      BY RequestsAssumption, FS_EmptySet
    <2>2. 1 \in Nat /\ 1 <= Cardinality(Requests)
      BY <1>1, <2>1
    <2>3. 1 * Budget <= AllBudgets
      BY <1>1, <2>2, BudgetsAdd DEF AllBudgets
    <2> QED BY <2>3, BudgetAssumption
  <1> QED BY <1>1, <1>2, <1>3

(* Of those that wait, each has the requests that have passed and the one  *)
(* inside as others.                                                       *)
LEMMA OthersLeft ==
  ASSUME TypeOK, NEW r \in Requests, step[r] = "locking"
  PROVE  /\ Cardinality(Past) \in Nat
         /\ Budget + Cardinality(Past) * Budget <= AllBudgets
         /\ \A q \in Inside : Budget + Cardinality(Past) * Budget + Budget <= AllBudgets
  <1> DEFINE c == Cardinality(Past)
             n == Cardinality(Requests)
  <1>1. IsFiniteSet(Past) /\ c \in Nat /\ n \in Nat
    BY RequestsAssumption, FS_Subset, FS_CardinalityType DEF Past
  <1>2. /\ IsFiniteSet(Past \cup {r}) /\ r \notin Past
        /\ Cardinality(Past \cup {r}) = c + 1
    BY <1>1, FS_AddElement DEF Past
  <1>3. c + 1 <= n
    <2>1. Past \cup {r} \subseteq Requests
      BY DEF Past
    <2>2. Cardinality(Past \cup {r}) <= n
      BY <2>1, RequestsAssumption, FS_Subset
    <2> QED BY <1>2, <2>2
  <1>4. ASSUME NEW q \in Inside PROVE c + 1 + 1 <= n
    <2>1. q \in Requests /\ q \notin Past \cup {r}
      BY DEF Inside, Past
    <2>2. Cardinality((Past \cup {r}) \cup {q}) = c + 1 + 1
      BY <1>2, <2>1, FS_AddElement
    <2>3. (Past \cup {r}) \cup {q} \subseteq Requests
      BY <2>1 DEF Past
    <2>4. Cardinality((Past \cup {r}) \cup {q}) <= n
      BY <2>3, RequestsAssumption, FS_Subset
    <2> QED BY <2>2, <2>4
  <1> HIDE DEF c, n
  <1>5. /\ c + 1 \in Nat /\ c + 1 + 1 \in Nat
        /\ (c + 1) * Budget = c * Budget + Budget
        /\ (c + 1 + 1) * Budget = c * Budget + Budget + Budget
        /\ c * Budget \in Nat /\ Budget \in Nat
    <2>1. (c + 1) * Budget = c * Budget + Budget /\ c * Budget \in Nat /\ c + 1 \in Nat
      BY <1>1, BudgetsAdd
    <2>2. (c + 1 + 1) * Budget = (c + 1) * Budget + Budget
      BY <2>1, BudgetsAdd
    <2> QED BY <2>1, <2>2, BudgetAssumption
  <1>6. (c + 1) * Budget <= n * Budget
    BY <1>1, <1>3, <1>5, BudgetsAdd
  <1>7. ASSUME NEW q \in Inside PROVE (c + 1 + 1) * Budget <= n * Budget
    BY <1>1, <1>4, <1>5, BudgetsAdd
  <1>8. n * Budget = AllBudgets
    BY DEF n, AllBudgets
  <1>9. Budget + c * Budget <= AllBudgets
    BY <1>5, <1>6, <1>8
  <1>10. ASSUME NEW q \in Inside PROVE Budget + c * Budget + Budget <= AllBudgets
    BY <1>5, <1>7, <1>8
  <1> QED BY <1>1, <1>9, <1>10 DEF c

-----------------------------------------------------------------------------
(* The initial states.                                                     *)
LEMMA InitInv == Init => IInv
  <1> SUFFICES ASSUME Init PROVE IInv
    OBVIOUS
  <1> USE BudgetAssumption, RefusalAssumption DEF Init
  <1>1. TypeOK
    <2>1. 0 \in 0 .. MaxAge
      BY Counted
    <2>2. /\ step \in [Requests -> Steps] /\ answer \in [Requests -> Answers]
          /\ age \in [Requests -> 0 .. MaxAge]
      BY <2>1 DEF Steps, Answers
    <2>3. created \in 0 .. 1 /\ refusals \in 0 .. MaxRefusals
      OBVIOUS
    <2> QED BY <2>2, <2>3 DEF TypeOK
  <1>2. OneSource
    BY DEF OneSource
  <1>3. MutexKept
    BY DEF MutexKept, Inside
  <1>4. WaitBound /\ NewIsYoung
    BY DEF WaitBound, NewIsYoung
  <1>5. AnsweredInTurns
    BY Counted DEF AnsweredInTurns
  <1>6. RejectionIsReal /\ AnswerEnds
    BY DEF RejectionIsReal, AnswerEnds
  <1> QED BY <1>1, <1>2, <1>3, <1>4, <1>5, <1>6 DEF IInv

(* Types, but for the number of sources, which OneSource bounds.           *)
LEMMA TypeStep == TypeOK /\ OneSource /\ [Next]_vars => TypeOK'
  <1> SUFFICES ASSUME TypeOK, OneSource, [Next]_vars PROVE TypeOK'
    OBVIOUS
  <1> USE BudgetAssumption, RefusalAssumption DEF TypeOK, Steps, Answers
  <1>1. CASE UNCHANGED vars
    BY <1>1 DEF vars
  <1>2. ASSUME NEW r \in Requests,
               Arrive(r) \/ Probe(r) \/ Lock(r) \/ UseSource(r) \/ StartSource(r)
        PROVE  TypeOK'
    BY <1>2 DEF Arrive, Probe, Lock, UseSource, StartSource
  <1>3. ASSUME NEW r \in Requests, SourceReady(r)  PROVE TypeOK'
    <2>1. created' \in 0 .. 1
      BY <1>3 DEF SourceReady, OneSource
    <2>2. step' \in [Requests -> Steps]
      BY <1>3 DEF SourceReady
    <2> QED BY <1>3, <2>1, <2>2 DEF SourceReady
  <1>4. ASSUME NEW r \in Requests, SourceFails(r)  PROVE TypeOK'
    <2>1. refusals' \in 0 .. MaxRefusals
      BY <1>4 DEF SourceFails
    <2> QED BY <1>4, <2>1 DEF SourceFails
  <1>5. ASSUME NEW r \in Requests, Dial(r)  PROVE TypeOK'
    <2>1. answer' \in [Requests -> Answers]
      BY <1>5 DEF Dial
    <2> QED BY <1>5, <2>1 DEF Dial
  <1>6. CASE Tick
    <2>1. age' \in [Requests -> 0 .. MaxAge]
      BY <1>6, Counted DEF Tick
    <2> QED BY <1>6, <2>1 DEF Tick
  <1> QED BY <1>1, <1>2, <1>3, <1>4, <1>5, <1>6 DEF Next, Proceeds

(* Who takes the mutex finds it free, and who leaves it was alone with it. *)
LEMMA MutexStep == TypeOK /\ MutexKept /\ [Next]_vars => MutexKept'
  <1> SUFFICES ASSUME TypeOK, MutexKept, [Next]_vars PROVE MutexKept'
    OBVIOUS
  <1>0. DOMAIN step = Requests
    BY DEF TypeOK
  <1>1. CASE UNCHANGED vars \/ Tick
    BY <1>1 DEF vars, Tick, MutexKept, Inside
  <1>2. ASSUME NEW r \in Requests, Arrive(r) \/ Probe(r) \/ StartSource(r) \/ Dial(r)
        PROVE  MutexKept'
    <2>1. Inside' = Inside /\ locked' = locked
      BY <1>0, <1>2 DEF Arrive, Probe, StartSource, Dial, Inside
    <2> QED BY <2>1 DEF MutexKept
  <1>3. ASSUME NEW r \in Requests, Lock(r)  PROVE MutexKept'
    <2>1. Inside = {} /\ Inside' = {r} /\ locked' = TRUE
      BY <1>0, <1>3 DEF Lock, Inside, MutexKept
    <2> QED BY <2>1 DEF MutexKept
  <1>4. ASSUME NEW r \in Requests, UseSource(r) \/ SourceReady(r) \/ SourceFails(r)
        PROVE  MutexKept'
    <2>1. r \in Inside
      BY <1>4 DEF UseSource, SourceReady, SourceFails, Inside
    <2>2. Inside' = {} /\ locked' = FALSE
      BY <1>0, <1>4, <2>1 DEF UseSource, SourceReady, SourceFails, Inside, MutexKept
    <2> QED BY <2>2 DEF MutexKept
  <1> QED BY <1>1, <1>2, <1>3, <1>4 DEF Next, Proceeds

(* Nobody starts a second source.                                          *)
LEMMA SourceStep == TypeOK /\ OneSource /\ MutexKept /\ [Next]_vars => OneSource'
  <1> SUFFICES ASSUME TypeOK, OneSource, MutexKept, [Next]_vars PROVE OneSource'
    OBVIOUS
  <1>0. DOMAIN step = Requests
    BY DEF TypeOK
  <1>1. CASE UNCHANGED vars \/ Tick
    BY <1>1 DEF vars, Tick, OneSource
  <1>2. ASSUME NEW r \in Requests,
               Arrive(r) \/ Probe(r) \/ Lock(r) \/ UseSource(r) \/ StartSource(r) \/ Dial(r)
        PROVE  OneSource'
    BY <1>0, <1>2 DEF Arrive, Probe, Lock, UseSource, StartSource, Dial, OneSource
  <1>3. ASSUME NEW r \in Requests, SourceReady(r) \/ SourceFails(r)  PROVE OneSource'
    <2>1. \A q \in Requests : q # r => step[q] # "creating"
      BY <1>3 DEF SourceReady, SourceFails, MutexKept, Inside
    <2> QED BY <1>0, <1>3, <2>1 DEF SourceReady, SourceFails, OneSource
  <1> QED BY <1>1, <1>2, <1>3 DEF Next, Proceeds

-----------------------------------------------------------------------------
(* When the clock goes on, every request has budget left, but for one that *)
(* waits; and that one waits for one that has.                             *)
LEMMA TickFacts ==
  ASSUME TypeOK, MutexKept, Tick, NEW r \in Requests, r \in Busy
  PROVE  /\ step[r] # "locking" => age[r] < Budget
         /\ step[r] = "locking" =>
              \E q \in Requests : step[q] = "creating" /\ age[q] < Budget /\ Inside = {q}
  <1>0. /\ age[r] \in Int /\ Budget \in Nat /\ locked \in BOOLEAN
        /\ step[r] \in {"earlier", "locking", "holding", "creating", "dialing"}
    BY BudgetAssumption DEF TypeOK, Busy, Steps
  <1>1. step[r] # "locking" => age[r] < Budget
    BY <1>0 DEF Tick, Due, Expired
  <1>2. CASE step[r] = "locking"
    <2>1. locked
      BY <1>2 DEF Tick, Due
    <2>2. PICK q \in Inside : TRUE
      BY <2>1 DEF MutexKept
    <2>3. q \in Requests /\ age[q] \in Int
      BY <2>2 DEF Inside, TypeOK
    <2>4. step[q] = "creating" /\ ~Expired(q)
      BY <2>2, <2>3 DEF Inside, Tick, Due
    <2>5. Inside = {q}
      BY <2>2 DEF MutexKept
    <2>6. age[q] < Budget
      BY <1>0, <2>3, <2>4 DEF Expired
    <2> QED BY <1>2, <2>3, <2>4, <2>5, <2>6
  <1> QED BY <1>1, <1>2

(* A wait is never longer than the budgets of the others.                  *)
LEMMA WaitFits ==
  ASSUME TypeOK, WaitBound, NEW r \in Requests, step[r] = "locking"
  PROVE  age[r] <= AllBudgets
  <1>0. /\ age[r] \in Nat /\ Budget \in Nat /\ AllBudgets \in Nat
        /\ Cardinality(Past) \in Nat /\ Cardinality(Past) * Budget \in Nat
    BY BudgetAssumption, Counted, OthersLeft, BudgetsAdd DEF TypeOK
  <1>1. CASE Inside = {}
    BY <1>0, <1>1, OthersLeft DEF WaitBound, WaitOk
  <1>2. CASE Inside # {}
    <2>1. PICK q \in Inside : TRUE
      BY <1>2
    <2>2. age[q] \in Nat /\ Spent(q) \in Nat /\ Spent(q) <= Budget
      BY <1>0, <2>1 DEF Inside, TypeOK, Spent
    <2>3. age[r] <= Budget + Cardinality(Past) * Budget + Spent(q)
      BY <2>1 DEF WaitBound, WaitOk
    <2>4. Budget + Cardinality(Past) * Budget + Budget <= AllBudgets
      BY <2>1, OthersLeft
    <2> QED BY <1>0, <2>2, <2>3, <2>4
  <1> QED BY <1>1, <1>2

(* A tick ages the one inside as it ages those that wait for it.           *)
LEMMA TickStep ==
  TypeOK /\ MutexKept /\ WaitBound /\ NewIsYoung /\ AnsweredInTurns /\ Tick
    => WaitBound' /\ NewIsYoung' /\ AnsweredInTurns'
  <1> SUFFICES ASSUME TypeOK, MutexKept, WaitBound, NewIsYoung, AnsweredInTurns, Tick
               PROVE  WaitBound' /\ NewIsYoung' /\ AnsweredInTurns'
    OBVIOUS
  <1>0. /\ \A q \in Requests : age[q] \in Nat
        /\ Budget \in Nat /\ AllBudgets \in Nat /\ MaxAge = AllBudgets + 1
        /\ step' = step /\ Inside' = Inside /\ Past' = Past
    BY BudgetAssumption, Counted DEF TypeOK, MaxAge, Tick, Inside, Past
  <1>1. \A q \in Requests : IF q \in Busy THEN age'[q] = age[q] + 1 ELSE age'[q] = age[q]
    BY <1>0 DEF Tick, AnsweredInTurns
  <1>2. ASSUME NEW r \in Requests, step[r] = "locking"
        PROVE  WaitOk(r)' /\ age'[r] <= AllBudgets
    <2>1. r \in Busy
      BY <1>2 DEF Busy
    <2>2. PICK q \in Requests : step[q] = "creating" /\ age[q] < Budget /\ Inside = {q}
      BY <1>2, <2>1, TickFacts
    <2>3. q \in Busy
      BY <2>2 DEF Busy
    <2>4. age'[r] = age[r] + 1 /\ age'[q] = age[q] + 1
      BY <1>1, <2>1, <2>3
    <2>5. Spent(q)' = Spent(q) + 1 /\ Spent(q) \in Nat /\ Spent(q)' <= Budget
      BY <1>0, <2>2, <2>4 DEF Spent
    <2>6. /\ age[r] <= Budget + Cardinality(Past) * Budget + Spent(q)
          /\ Cardinality(Past) * Budget \in Nat
          /\ Budget + Cardinality(Past) * Budget + Budget <= AllBudgets
      BY <1>2, <2>2, OthersLeft, BudgetsAdd DEF WaitBound, WaitOk
    <2>7. age'[r] <= Budget + Cardinality(Past) * Budget + Spent(q)'
      BY <1>0, <2>4, <2>5, <2>6
    <2>8. WaitOk(r)'
      <3>1. Inside' = {q} /\ Cardinality(Past') = Cardinality(Past)
        BY <1>0, <2>2
      <3> QED BY <2>7, <3>1 DEF WaitOk
    <2>9. age'[r] <= AllBudgets
      BY <1>0, <2>4, <2>5, <2>6, <2>7
    <2> QED BY <2>8, <2>9
  <1>3. ASSUME NEW r \in Requests, step[r] # "locking"
        PROVE  age'[r] <= AllBudgets /\ (step[r] = "earlier" => age'[r] <= Budget)
    <2>1. CASE r \in Busy
      BY <1>0, <1>1, <1>3, <2>1, TickFacts, Counted
    <2>2. CASE r \notin Busy
      BY <1>1, <2>2 DEF AnsweredInTurns, Busy
    <2> QED BY <2>1, <2>2
  <1>4. NewIsYoung'
    BY <1>0, <1>1 DEF NewIsYoung, Busy
  <1>5. AnsweredInTurns'
    <2>1. \A r \in Requests : age'[r] <= AllBudgets
      BY <1>2, <1>3
    <2> QED BY <2>1 DEF AnsweredInTurns
  <1>6. WaitBound'
    BY <1>0, <1>2, <1>3 DEF WaitBound
  <1> QED BY <1>4, <1>5, <1>6

(* What a wait is measured by, unchanged, leaves it in its bound.          *)
LEMMA WaitKept ==
  ASSUME NEW q \in Requests, WaitOk(q), age'[q] = age[q],
         Past' = Past, Inside' = Inside, \A p \in Requests : Spent(p)' = Spent(p)
  PROVE  WaitOk(q)'
  <1>1. /\ Cardinality(Past') = Cardinality(Past)
        /\ \A p \in Inside : Spent(p)' = Spent(p)
    BY DEF Inside
  <1>2. Inside' = {} => age'[q] <= Budget + Cardinality(Past') * Budget
    BY <1>1 DEF WaitOk
  <1>3. ASSUME NEW p \in Inside'
        PROVE  age'[q] <= Budget + Cardinality(Past') * Budget + Spent(p)'
    BY <1>1, <1>3 DEF WaitOk
  <1> QED BY <1>2, <1>3 DEF WaitOk

(* Between ticks, who comes in adds nothing to a wait, and who goes out    *)
(* leaves a budget for what it had spent.                                  *)
LEMMA WaitStep ==
  TypeOK /\ MutexKept /\ WaitBound /\ NewIsYoung /\ AnsweredInTurns
    /\ (\E r \in Requests : Arrive(r) \/ Proceeds(r))
    => WaitBound' /\ NewIsYoung' /\ AnsweredInTurns'
  <1> SUFFICES ASSUME TypeOK, MutexKept, WaitBound, NewIsYoung, AnsweredInTurns,
                      NEW r \in Requests, Arrive(r) \/ Proceeds(r)
               PROVE  WaitBound' /\ NewIsYoung' /\ AnsweredInTurns'
    OBVIOUS
  <1>0. /\ age' = age /\ DOMAIN step = Requests
        /\ \A q \in Requests : q # r => step'[q] = step[q]
        /\ \A q \in Requests : age[q] \in Nat /\ Spent(q) \in Nat /\ Spent(q) <= Budget
        /\ \A q \in Requests : Spent(q)' = Spent(q)
        /\ Budget \in Nat
    BY BudgetAssumption
    DEF TypeOK, Spent, Arrive, Proceeds, Probe, Lock, UseSource, StartSource, SourceReady, SourceFails, Dial
  <1>1. AnsweredInTurns'
    BY <1>0 DEF AnsweredInTurns
  <1>2. step[r] # "new" => step'[r] # "new" /\ step'[r] # "earlier"
    BY <1>0 DEF Arrive, Proceeds, Probe, Lock, UseSource, StartSource, SourceReady, SourceFails, Dial
  <1>3. NewIsYoung' /\ \A q \in Requests : step'[q] = "earlier" => age'[q] <= Budget
    <2>1. step[r] = "new" => age[r] = 0
      BY DEF NewIsYoung
    <2>2. step'[r] = "new" => step[r] = "new"
      BY <1>2
    <2>3. step'[r] = "earlier" => age[r] <= Budget
      BY <1>0, <1>2, <2>1
    <2> QED BY <1>0, <2>2, <2>3 DEF NewIsYoung, WaitBound
  <1>4. ASSUME NEW q \in Requests, step'[q] = "locking"  PROVE WaitOk(q)'
    <2> DEFINE k == Cardinality(Past) * Budget
    <2>1. IsFiniteSet(Past) /\ Cardinality(Past) \in Nat /\ k \in Nat
      BY RequestsAssumption, FS_Subset, FS_CardinalityType, BudgetsAdd DEF Past
    <2>2. CASE Arrive(r) \/ StartSource(r) \/ Dial(r)
      <3>1. Past' = Past /\ Inside' = Inside /\ step[q] = "locking"
        BY <1>0, <1>4, <2>2 DEF Past, Inside, Arrive, StartSource, Dial
      <3>2. WaitOk(q)
        BY <3>1 DEF WaitBound
      <3> QED BY <1>0, <3>1, <3>2, WaitKept
    <2>3. CASE Probe(r)
      <3>1. Past' = Past /\ Inside' = Inside
        BY <1>0, <2>3 DEF Past, Inside, Probe
      <3>2. CASE q # r
        <4>1. WaitOk(q)
          BY <1>0, <1>4, <3>2 DEF WaitBound
        <4> QED BY <1>0, <3>1, <4>1, WaitKept
      <3>3. CASE q = r
        <4>1. age[q] <= Budget /\ Inside \subseteq Requests
          BY <2>3, <3>3 DEF Probe, WaitBound, Inside
        <4> QED BY <1>0, <2>1, <3>1, <4>1 DEF WaitOk
      <3> QED BY <3>2, <3>3
    <2>4. CASE Lock(r)
      <3>1. Past' = Past /\ Inside = {} /\ Inside' = {r} /\ step[q] = "locking"
        BY <1>0, <1>4, <2>4 DEF Past, Inside, Lock, MutexKept
      <3>2. age[q] <= Budget + k
        BY <3>1 DEF WaitBound, WaitOk
      <3> QED BY <1>0, <2>1, <3>1, <3>2 DEF WaitOk
    <2>5. CASE UseSource(r) \/ SourceReady(r) \/ SourceFails(r)
      <3>1. r \in Inside /\ r \notin Past
        BY <2>5 DEF UseSource, SourceReady, SourceFails, Inside, Past
      <3>2. Past' = Past \cup {r} /\ Inside' = {} /\ step[q] = "locking"
        BY <1>0, <1>4, <2>5, <3>1 DEF UseSource, SourceReady, SourceFails, Inside, Past, MutexKept
      <3>3. Cardinality(Past') = Cardinality(Past) + 1
        BY <2>1, <3>1, <3>2, FS_AddElement
      <3>4. Cardinality(Past') * Budget = k + Budget
        BY <2>1, <3>3, BudgetsAdd
      <3>5. age[q] <= Budget + k + Spent(r)
        BY <3>1, <3>2 DEF WaitBound, WaitOk
      <3>6. age'[q] <= Budget + Cardinality(Past') * Budget
        BY <1>0, <2>1, <3>4, <3>5
      <3> QED BY <3>2, <3>6 DEF WaitOk
    <2> QED BY <2>2, <2>3, <2>4, <2>5 DEF Proceeds
  <1>5. WaitBound'
    BY <1>3, <1>4 DEF WaitBound
  <1> QED BY <1>1, <1>3, <1>5

LEMMA AgesStep ==
  TypeOK /\ MutexKept /\ WaitBound /\ NewIsYoung /\ AnsweredInTurns /\ [Next]_vars
    => WaitBound' /\ NewIsYoung' /\ AnsweredInTurns'
  <1>1. UNCHANGED vars => Inside' = Inside /\ Past' = Past /\ step' = step /\ age' = age
    BY DEF vars, Inside, Past
  <1>2. WaitBound /\ NewIsYoung /\ AnsweredInTurns /\ UNCHANGED vars
          => WaitBound' /\ NewIsYoung' /\ AnsweredInTurns'
    BY <1>1 DEF WaitBound, WaitOk, Spent, NewIsYoung, AnsweredInTurns
  <1> QED BY <1>2, TickStep, WaitStep DEF Next

(* A rejection took place and stays so.                                    *)
LEMMA RejectionStep ==
  TypeOK /\ OneSource /\ RejectionIsReal /\ AnswerEnds /\ [Next]_vars
    => RejectionIsReal' /\ AnswerEnds'
  <1> SUFFICES ASSUME TypeOK, OneSource, RejectionIsReal, AnswerEnds, [Next]_vars,
                      NEW q \in Requests, answer'[q] # "none"
               PROVE  /\ answer'[q] = "rejected" => source' /\ ~(age'[q] >= Budget)
                      /\ step'[q] = "written"
    BY DEF RejectionIsReal, AnswerEnds, Expired
  <1>0. DOMAIN answer = Requests /\ DOMAIN age = Requests /\ DOMAIN step = Requests
    BY DEF TypeOK
  <1>1. /\ answer[q] = "rejected" => source /\ ~(age[q] >= Budget)
        /\ answer[q] # "none" => step[q] = "written"
    BY DEF RejectionIsReal, AnswerEnds, Expired
  <1>2. CASE UNCHANGED vars
    BY <1>1, <1>2 DEF vars
  <1>3. ASSUME NEW r \in Requests, Dial(r)
        PROVE  /\ answer'[q] = "rejected" => source' /\ ~(age'[q] >= Budget)
               /\ step'[q] = "written"
    BY <1>0, <1>1, <1>3 DEF Dial, OneSource, Expired
  <1>4. ASSUME NEW r \in Requests, SourceFails(r) \/ SourceReady(r)
        PROVE  /\ answer'[q] = "rejected" => source' /\ ~(age'[q] >= Budget)
               /\ step'[q] = "written"
    BY <1>0, <1>1, <1>4 DEF SourceFails, SourceReady
  <1>5. ASSUME NEW r \in Requests, Arrive(r) \/ Probe(r) \/ Lock(r) \/ UseSource(r) \/ StartSource(r)
        PROVE  /\ answer'[q] = "rejected" => source' /\ ~(age'[q] >= Budget)
               /\ step'[q] = "written"
    BY <1>0, <1>1, <1>5 DEF Arrive, Probe, Lock, UseSource, StartSource
  <1>6. CASE Tick
    <2>1. q \notin Busy
      BY <1>1, <1>6 DEF Tick, Busy
    <2> QED BY <1>0, <1>1, <1>6, <2>1 DEF Tick
  <1> QED BY <1>2, <1>3, <1>4, <1>5, <1>6 DEF Next, Proceeds

-----------------------------------------------------------------------------
(* The invariant holds in every reachable state.                           *)
LEMMA Inductive == Spec => []IInv
  <1>1. IInv /\ [Next]_vars => IInv'
    BY TypeStep, SourceStep, MutexStep, AgesStep, RejectionStep DEF IInv
  <1> QED BY InitInv, <1>1, PTL DEF Spec

(* Requests, mutex and source keep their types (TypeOK).                   *)
THEOREM TypeCorrect == Spec => []TypeOK
  <1>1. IInv => TypeOK  BY DEF IInv
  <1> QED BY <1>1, Inductive, PTL

(* One X509Source is created at most, and every dial uses it (OneSource).  *)
THEOREM SourceIsShared == Spec => []OneSource
  <1>1. IInv => OneSource  BY DEF IInv
  <1> QED BY <1>1, Inductive, PTL

(* The mutex is locked by a request that is there (MutexKept).             *)
THEOREM MutexIsPassedOn == Spec => []MutexKept
  <1>1. IInv => MutexKept  BY DEF IInv
  <1> QED BY <1>1, Inductive, PTL

(* A request is written within one budget for each request, in whatever    *)
(* order the mutex is given to those that ask for it (AnsweredInTurns).    *)
THEOREM LatencyBounded == Spec => []AnsweredInTurns
  <1>1. IInv => AnsweredInTurns  BY DEF IInv
  <1> QED BY <1>1, Inductive, PTL

(* A rejection is one of a handshake (RejectionIsReal).                    *)
THEOREM RejectionsTookPlace == Spec => []RejectionIsReal
  <1>1. IInv => RejectionIsReal  BY DEF IInv
  <1> QED BY <1>1, Inductive, PTL

=============================================================================
