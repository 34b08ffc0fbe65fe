--------------------------- MODULE JobQueueProofs ---------------------------
(***************************************************************************)
(* What JobQueue guarantees for every number of jobs, orders and workers   *)
(* and every limit.  The inductive invariant IInv is the conjunction of    *)
(* the invariants of the rows that the run queue_calls checks; the day's   *)
(* spend (SpendIsBounded) is inductive beside it, and comes last.          *)
(***************************************************************************)
EXTENDS JobQueue, Recursions, FiniteSetTheorems, TLAPS

\* The rank of every job in a claim order is a natural number.
LEMMA QueuedType ==
  ASSUME NEW P \in SUBSET Jobs, NEW S
  PROVE  Queued(P, S) \in [Jobs -> Nat]
<1> DEFINE Before(j, k) ==
             IF k \in S THEN j \in S => j < k ELSE j \notin S /\ runAt[j] < runAt[k]
           Ahead(k) == {j \in P \ {k} : Before(j, k)}
<1>1. ASSUME NEW k \in Jobs PROVE Cardinality(Ahead(k)) \in Nat
  <2>1. Ahead(k) \subseteq Jobs
    OBVIOUS
  <2>2. IsFiniteSet(Ahead(k))
    BY <2>1, JobsAssumption, FS_Subset
  <2>3. QED
    BY <2>2, FS_CardinalityType
<1>2. Queued(P, S) = [k \in Jobs |-> IF k \in P THEN 1 + Cardinality(Ahead(k)) ELSE 0]
  BY DEF Queued
<1> HIDE DEF Ahead
<1>3. QED
  BY <1>1, <1>2

\* Claims, reaps and cancels keep every column within its type.
LEMMA TypesStep == ColumnTypes /\ [Next]_vars => ColumnTypes'
<1> SUFFICES ASSUME ColumnTypes, [Next]_vars PROVE ColumnTypes'
  OBVIOUS
<1> USE JobsAssumption, LimitsAssumption
<1> USE DEF ColumnTypes, JobStates, OrderStates, jobVars, orderVars, answerVars, limitVars
<1>1. ASSUME NEW o \in Orders, EnqueueOrder(o) PROVE ColumnTypes'
  BY <1>1, QueuedType DEF EnqueueOrder, Set, JobsOf, Pending, InState
<1>2. ASSUME NEW o \in Orders, CancelOrder(o) PROVE ColumnTypes'
  BY <1>2, QueuedType DEF CancelOrder, CancelledAtOnce, Set, JobsOf, Pending, InState
<1>3. ASSUME NEW w \in WorkerIds, NEW S \in SUBSET Jobs, ClaimJobs(w, S) PROVE ColumnTypes'
  BY <1>3, QueuedType DEF ClaimJobs, Candidates, Set, Pending, InState
<1>4. ASSUME NEW j \in Jobs, NEW w \in WorkerIds, Heartbeat(j, w) PROVE ColumnTypes'
  BY <1>4 DEF Heartbeat
<1>5. ASSUME NEW j \in Jobs, NEW ok \in BOOLEAN, NEW t \in 0..MaxTokens, FinishJob(j, ok, t)
      PROVE  ColumnTypes'
  BY <1>5 DEF FinishJob, RecordAnswer, CloseIfComplete
<1>6. ASSUME NEW S \in SUBSET Jobs, FailAttempts(S) PROVE ColumnTypes'
  BY <1>6, QueuedType DEF FailAttempts, CloseIfComplete, UnfinishedStates, Set, Pending, InState
<1>7. ASSUME NEW j \in Jobs, MarkCancelled(j) PROVE ColumnTypes'
  BY <1>7 DEF MarkCancelled
<1>8. ASSUME NEW j \in Jobs, RequeueJob(j) PROVE ColumnTypes'
  BY <1>8, QueuedType DEF RequeueJob, Reopen, Pending, InState
<1>9. ASSUME NEW j \in Jobs, LeaseExpires(j) PROVE ColumnTypes'
  BY <1>9 DEF LeaseExpires
<1>10. ASSUME BlockOpenOrders \/ ClearOrderBlocks PROVE ColumnTypes'
  <2>1. ASSUME NEW S PROVE Set(blocked, S, TRUE) \in [Orders -> BOOLEAN]
    BY Zenon DEF Set
  <2>2. ASSUME NEW S PROVE Set(blocked, S, FALSE) \in [Orders -> BOOLEAN]
    BY Zenon DEF Set
  <2>3. CASE BlockOpenOrders
    <3>1. blocked' \in [Orders -> BOOLEAN]
      BY <2>1, <2>3 DEF BlockOpenOrders
    <3>2. QED
      BY <2>3, <3>1 DEF BlockOpenOrders
  <2>4. CASE ClearOrderBlocks
    <3>1. blocked' \in [Orders -> BOOLEAN]
      BY <2>2, <2>4 DEF ClearOrderBlocks
    <3>2. QED
      BY <2>4, <3>1 DEF ClearOrderBlocks
  <2>5. QED
    BY <1>10, <2>3, <2>4
<1>11. ASSUME NEW c \in Caps, NEW b \in Budgets, UpdateEntitlements(c, b) PROVE ColumnTypes'
  BY <1>11 DEF UpdateEntitlements
<1>12. ASSUME DayRolls PROVE ColumnTypes'
  BY <1>12 DEF DayRolls
<1>13. CASE UNCHANGED vars
  BY <1>13 DEF vars
<1>14. QED
  BY <1>1, <1>2, <1>3, <1>4, <1>5, <1>6, <1>7, <1>8, <1>9, <1>10, <1>11, <1>12, <1>13
  DEF Next, FailAttempt, ReapExpiredLeases, ExpiredJobs, Running, InState

-----------------------------------------------------------------------------
(* The inductive invariant.  OpenOrderHasWork needs CancelRequestedInCancelled *)
(* (markCancelled closes no order, and needs none closed), RetryBudget needs   *)
(* RowsExist (a new row has its whole budget).                                 *)

IInv ==
  /\ TypeOK
  /\ LeaseMatchesState
  /\ RetryBudget
  /\ AnsweredIsBilled
  /\ CancelRequestedInCancelled
  /\ OpenOrderHasWork

\* The empty queue satisfies the invariant.
LEMMA InitInv == Init => IInv
<1> USE JobsAssumption, LimitsAssumption
<1> SUFFICES ASSUME Init PROVE IInv
  OBVIOUS
<1>1. TypeOK
  BY DEF Init, TypeOK, ColumnTypes, RowsExist, JobStates, OrderStates
<1>2. LeaseMatchesState /\ RetryBudget /\ AnsweredIsBilled
  BY DEF Init, LeaseMatchesState, RetryBudget, AnsweredIsBilled
<1>3. CancelRequestedInCancelled /\ OpenOrderHasWork
  BY DEF Init, CancelRequestedInCancelled, OpenOrderHasWork
<1>4. QED
  BY <1>1, <1>2, <1>3 DEF IInv

\* Submitting an order gives it items to run and each item its whole budget.
LEMMA EnqueueInv ==
  ASSUME NEW o \in Orders, IInv, EnqueueOrder(o), ColumnTypes'
  PROVE  IInv'
<1> USE JobsAssumption, LimitsAssumption DEF IInv, TypeOK, ColumnTypes
<1> USE DEF EnqueueOrder, Set, JobsOf, jobVars, answerVars
<1>1. RowsExist' /\ LeaseMatchesState'
  BY DEF RowsExist, LeaseMatchesState
<1>2. RetryBudget' /\ AnsweredIsBilled'
  BY DEF RowsExist, RetryBudget, AnsweredIsBilled
<1>3. CancelRequestedInCancelled'
  BY DEF CancelRequestedInCancelled
<1>4. OpenOrderHasWork'
  BY DEF OpenOrderHasWork
<1>5. QED
  BY <1>1, <1>2, <1>3, <1>4

\* A cancel takes an order's pending items and stamps its running ones.
LEMMA CancelInv ==
  ASSUME NEW o \in Orders, IInv, CancelOrder(o), ColumnTypes'
  PROVE  IInv'
<1> USE JobsAssumption, LimitsAssumption DEF IInv, TypeOK, ColumnTypes
<1> USE DEF CancelOrder, CancelledAtOnce, Set, JobsOf, Pending, Running, InState, jobVars, answerVars
<1>1. RowsExist' /\ LeaseMatchesState'
  BY DEF RowsExist, LeaseMatchesState
<1>2. RetryBudget' /\ AnsweredIsBilled'
  BY DEF RetryBudget, AnsweredIsBilled
<1>3. CancelRequestedInCancelled'
  BY DEF CancelRequestedInCancelled
<1>4. OpenOrderHasWork'
  BY DEF OpenOrderHasWork
<1>5. QED
  BY <1>1, <1>2, <1>3, <1>4

\* A claim starts pending rows only, so each had an attempt left.
LEMMA ClaimInv ==
  ASSUME NEW w \in WorkerIds, NEW S \in SUBSET Jobs, IInv, ClaimJobs(w, S), ColumnTypes'
  PROVE  IInv'
<1> USE JobsAssumption, LimitsAssumption DEF IInv, TypeOK, ColumnTypes
<1> USE DEF ClaimJobs, Candidates, Set, JobsOf, Pending, InState, orderVars, answerVars
<1>1. RowsExist' /\ LeaseMatchesState'
  BY DEF RowsExist, LeaseMatchesState
<1>2. RetryBudget' /\ AnsweredIsBilled'
  BY DEF RetryBudget, AnsweredIsBilled
<1>3. CancelRequestedInCancelled'
  BY DEF CancelRequestedInCancelled
<1>4. OpenOrderHasWork'
  BY DEF OpenOrderHasWork
<1>5. QED
  BY <1>1, <1>2, <1>3, <1>4

\* An answer is recorded with its bill, and the last one closes the order.
LEMMA FinishInv ==
  ASSUME NEW j \in Jobs, NEW ok \in BOOLEAN, NEW t \in 0..MaxTokens,
         IInv, FinishJob(j, ok, t), ColumnTypes'
  PROVE  IInv'
<1> USE JobsAssumption, LimitsAssumption DEF IInv, TypeOK, ColumnTypes
<1> USE DEF FinishJob, RecordAnswer, CloseIfComplete, UnfinishedStates, JobsOf
<1>1. RowsExist' /\ LeaseMatchesState'
  BY DEF RowsExist, LeaseMatchesState
<1>2. RetryBudget' /\ AnsweredIsBilled'
  BY DEF RetryBudget, AnsweredIsBilled
<1>3. CancelRequestedInCancelled'
  BY DEF CancelRequestedInCancelled
<1>4. OpenOrderHasWork'
  BY DEF OpenOrderHasWork
<1>5. QED
  BY <1>1, <1>2, <1>3, <1>4

\* A failed attempt leaves its job pending or dead, and closes an order only
\* when it took the order's last job.
LEMMA FailInv ==
  ASSUME NEW S \in SUBSET Jobs, \A j \in S : jstate[j] # "none",
         IInv, FailAttempts(S), ColumnTypes'
  PROVE  IInv'
<1> USE JobsAssumption, LimitsAssumption DEF IInv, TypeOK, ColumnTypes
<1> USE DEF FailAttempts, Spent, CloseIfComplete, UnfinishedStates, Set, JobsOf, answerVars
<1>1. RowsExist' /\ LeaseMatchesState'
  BY DEF RowsExist, LeaseMatchesState
<1>2. RetryBudget' /\ AnsweredIsBilled'
  BY DEF RetryBudget, AnsweredIsBilled
<1>3. CancelRequestedInCancelled'
  BY DEF CancelRequestedInCancelled
<1>4. OpenOrderHasWork'
  BY DEF OpenOrderHasWork
<1>5. QED
  BY <1>1, <1>2, <1>3, <1>4

\* A running job that stops because it was asked to belongs to no open order.
LEMMA MarkInv ==
  ASSUME NEW j \in Jobs, IInv, cancelReq[j], MarkCancelled(j), ColumnTypes'
  PROVE  IInv'
<1> USE JobsAssumption, LimitsAssumption DEF IInv, TypeOK, ColumnTypes
<1> USE DEF MarkCancelled, JobsOf, orderVars, answerVars
<1>1. RowsExist' /\ LeaseMatchesState'
  BY DEF RowsExist, LeaseMatchesState
<1>2. RetryBudget' /\ AnsweredIsBilled'
  BY DEF RetryBudget, AnsweredIsBilled
<1>3. CancelRequestedInCancelled'
  BY DEF CancelRequestedInCancelled
<1>4. OpenOrderHasWork'
  BY DEF OpenOrderHasWork, CancelRequestedInCancelled
<1>5. QED
  BY <1>1, <1>2, <1>3, <1>4

\* A requeue reopens a closed order together with the item it puts back.
LEMMA RequeueInv ==
  ASSUME NEW j \in Jobs, IInv, RequeueJob(j), ColumnTypes'
  PROVE  IInv'
<1> USE JobsAssumption, LimitsAssumption DEF IInv, TypeOK, ColumnTypes
<1> USE DEF RequeueJob, Reopen, JobsOf, answerVars
<1>1. RowsExist' /\ LeaseMatchesState'
  BY DEF RowsExist, LeaseMatchesState
<1>2. RetryBudget' /\ AnsweredIsBilled'
  BY DEF RetryBudget, AnsweredIsBilled
<1>3. CancelRequestedInCancelled'
  BY DEF CancelRequestedInCancelled
<1>4. OpenOrderHasWork'
  BY DEF OpenOrderHasWork
<1>5. QED
  BY <1>1, <1>2, <1>3, <1>4

\* Heartbeats, the clock, the block stamps and the limits leave states alone.
LEMMA OtherInv ==
  ASSUME IInv, ColumnTypes',
         \/ \E j \in Jobs, w \in WorkerIds : Heartbeat(j, w)
         \/ \E j \in Jobs : LeaseExpires(j)
         \/ BlockOpenOrders \/ ClearOrderBlocks
         \/ \E c \in Caps, b \in Budgets : UpdateEntitlements(c, b)
         \/ DayRolls
         \/ UNCHANGED vars
  PROVE  IInv'
<1> USE DEF IInv, TypeOK, jobVars, orderVars, answerVars, limitVars, vars
<1> USE DEF Heartbeat, HeartbeatReply, LeaseExpires, BlockOpenOrders, ClearOrderBlocks
<1> USE DEF UpdateEntitlements, DayRolls
<1>1. UNCHANGED <<jstate, attempts, claimedBy, cancelReq, ostate, result>>
  OBVIOUS
<1>2. RowsExist' /\ RetryBudget' /\ CancelRequestedInCancelled' /\ OpenOrderHasWork'
  BY <1>1 DEF RowsExist, RetryBudget, CancelRequestedInCancelled, OpenOrderHasWork, JobsOf
<1>3. LeaseMatchesState'
  <2>1. ASSUME NEW k \in Jobs PROVE lease'[k] = "null" <=> lease[k] = "null"
    <3>1. CASE \E j \in Jobs, w \in WorkerIds : Heartbeat(j, w)
      <4>1. PICK j \in Jobs : lease' = [lease EXCEPT ![j] = "live"] /\ jstate[j] = "running"
        BY <3>1
      <4>2. lease[j] # "null"
        BY <4>1 DEF LeaseMatchesState
      <4>3. QED
        BY <4>1, <4>2 DEF ColumnTypes
    <3>2. CASE \E j \in Jobs : LeaseExpires(j)
      BY <3>2 DEF ColumnTypes
    <3>3. CASE lease' = lease
      BY <3>3
    <3>4. QED
      BY <3>1, <3>2, <3>3
  <2>2. QED
    BY <1>1, <2>1 DEF LeaseMatchesState
<1>4. AnsweredIsBilled'
  <2>1. CASE DayRolls
    BY <1>1, <2>1 DEF AnsweredIsBilled, ColumnTypes
  <2>2. CASE ~DayRolls
    <3>1. billed' = billed
      BY <2>2
    <3>2. QED
      BY <1>1, <3>1 DEF AnsweredIsBilled
  <2>3. QED
    BY <2>1, <2>2
<1>5. QED
  BY <1>2, <1>3, <1>4

\* Every call keeps it, one lemma per kind of step.
LEMMA NextInv == IInv /\ [Next]_vars => IInv'
<1> SUFFICES ASSUME IInv, [Next]_vars PROVE IInv'
  OBVIOUS
<1>1. ColumnTypes'
  BY TypesStep DEF IInv, TypeOK
<1>2. ASSUME NEW j \in Jobs, claimedBy[j] # NoWorker, FailAttempt(j) PROVE IInv'
  <2>1. jstate[j] # "none"
    BY <1>2 DEF FailAttempt, IInv, TypeOK, RowsExist
  <2>2. QED
    BY <1>1, <1>2, <2>1, FailInv DEF FailAttempt
<1>3. ASSUME ReapExpiredLeases PROVE IInv'
  BY <1>1, <1>3, FailInv DEF ReapExpiredLeases, ExpiredJobs, Running, InState
<1>4. QED
  BY <1>1, <1>2, <1>3, EnqueueInv, CancelInv, ClaimInv, FinishInv, MarkInv, RequeueInv, OtherInv
  DEF Next

\* The rows satisfy the inductive invariant in every reachable state.
THEOREM QueueInvariant == Spec => []IInv
BY InitInv, NextInv, PTL DEF Spec

\* Every column keeps its type, and a job's row exists exactly when its order's
\* does, whatever calls are made in whatever order.
THEOREM TypeCorrect == Spec => []TypeOK
BY QueueInvariant, PTL DEF IInv

\* No transaction of the queue trips the jobs_lease_matches_state CHECK.
THEOREM LeasesMatchStates == Spec => []LeaseMatchesState
BY QueueInvariant, PTL DEF IInv

\* The retry budget holds in every row: dead at the budget and only there.
THEOREM RetryBudgetHolds == Spec => []RetryBudget
BY QueueInvariant, PTL DEF IInv

\* A job is answered exactly when its answer is billed.
THEOREM AnswersAreBilled == Spec => []AnsweredIsBilled
BY QueueInvariant, PTL DEF IInv

\* No order stays open with nothing to run, and only a cancelled one has jobs that
\* were asked to stop, under any number of late failures, reaps, requeues and cancels.
THEOREM OrderStatesAreTrue == Spec => []OrderStateIsTrue
BY QueueInvariant, PTL DEF IInv, OrderStateIsTrue

-----------------------------------------------------------------------------
(* What a step may do.                                                     *)

\* A claim of S adds S to the running jobs, and no more than the cap leaves.
LEMMA ClaimWithinCap ==
  ASSUME NEW w \in WorkerIds, NEW S \in SUBSET Jobs, ColumnTypes, ClaimJobs(w, S)
  PROVE  Cardinality(Running') <= cap /\ UsedToday < budget
<1> USE JobsAssumption, LimitsAssumption DEF ColumnTypes
<1>1. Running' = Running \cup S /\ Running \cap S = {}
  BY DEF ClaimJobs, Candidates, Set, Running, Pending, InState
<1>2. IsFiniteSet(Running) /\ IsFiniteSet(S) /\ IsFiniteSet(Pending)
  BY FS_Subset DEF Running, Pending, InState
<1>3. Cardinality(Running') = Cardinality(Running) + Cardinality(S)
  <2>1. Cardinality(Running \cup S)
          = Cardinality(Running) + Cardinality(S) - Cardinality(Running \cap S)
    BY <1>2, FS_Union
  <2>2. Cardinality(Running \cap S) = 0
    BY <1>1, FS_EmptySet
  <2>3. Cardinality(Running) \in Nat /\ Cardinality(S) \in Nat
    BY <1>2, FS_CardinalityType
  <2>4. QED
    BY <1>1, <2>1, <2>2, <2>3
<1>4. Cardinality(Running) \in Nat /\ Cardinality(S) \in Nat \ {0} /\ Cardinality(Pending) \in Nat
  BY <1>2, FS_CardinalityType, FS_EmptySet DEF ClaimJobs
<1>5. cap \in Nat \ {0}
  OBVIOUS
<1>6. Cardinality(S) = Least(Allowance, Cardinality(Pending))
  BY DEF ClaimJobs, Candidates
<1> HIDE DEF ColumnTypes
<1>7. ~Exhausted /\ ~(cap < Cardinality(Running))
  BY <1>4, <1>6 DEF Least, Allowance
<1>8. Cardinality(S) <= cap - Cardinality(Running)
  BY <1>4, <1>5, <1>6, <1>7 DEF Least, Allowance
<1>9. QED
  BY <1>3, <1>4, <1>5, <1>7, <1>8 DEF Exhausted

\* Only a claim adds to the running jobs.
LEMMA OnlyClaimsStart ==
  ASSUME ColumnTypes, [Next]_vars,
         ~\E w \in WorkerIds, S \in SUBSET Jobs : ClaimJobs(w, S)
  PROVE  Running' \subseteq Running
<1> USE JobsAssumption, LimitsAssumption DEF ColumnTypes, Running, Pending, InState, Set
<1> USE DEF jobVars
<1>1. ASSUME NEW o \in Orders, EnqueueOrder(o) PROVE Running' \subseteq Running
  BY <1>1 DEF EnqueueOrder
<1>2. ASSUME NEW o \in Orders, CancelOrder(o) PROVE Running' \subseteq Running
  BY <1>2 DEF CancelOrder, CancelledAtOnce
<1>3. ASSUME NEW j \in Jobs, NEW ok \in BOOLEAN, NEW t \in 0..MaxTokens, FinishJob(j, ok, t)
      PROVE  Running' \subseteq Running
  BY <1>3 DEF FinishJob
<1>4. ASSUME NEW S, FailAttempts(S) PROVE Running' \subseteq Running
  BY <1>4 DEF FailAttempts
<1>5. ASSUME NEW j \in Jobs, MarkCancelled(j) PROVE Running' \subseteq Running
  BY <1>5 DEF MarkCancelled
<1>6. ASSUME NEW j \in Jobs, RequeueJob(j) PROVE Running' \subseteq Running
  BY <1>6 DEF RequeueJob
<1>7. CASE jstate' = jstate
  BY <1>7
<1>8. QED
  BY <1>1, <1>2, <1>3, <1>4, <1>5, <1>6, <1>7
  DEF Next, FailAttempt, ReapExpiredLeases, Heartbeat, LeaseExpires, BlockOpenOrders,
      ClearOrderBlocks, UpdateEntitlements, DayRolls, vars

\* The concurrency cap and the daily budget bound every claim, for every number
\* of jobs and workers and however the limits move between claims.
THEOREM ClaimsStayWithinEntitlements == Spec => ClaimsWithinEntitlements
<1> DEFINE Bounded ==
      Running' \ Running # {} => Cardinality(Running') <= cap /\ UsedToday < budget
<1>1. IInv /\ [Next]_vars => [Bounded]_vars
  <2> SUFFICES ASSUME IInv, [Next]_vars PROVE Bounded
    OBVIOUS
  <2>1. ColumnTypes
    BY DEF IInv, TypeOK
  <2>2. CASE \E w \in WorkerIds, S \in SUBSET Jobs : ClaimJobs(w, S)
    BY <2>1, <2>2, ClaimWithinCap
  <2>3. CASE ~\E w \in WorkerIds, S \in SUBSET Jobs : ClaimJobs(w, S)
    BY <2>1, <2>3, OnlyClaimsStart
  <2>4. QED
    BY <2>2, <2>3
<1>2. QED
  BY <1>1, QueueInvariant, PTL DEF Spec, ClaimsWithinEntitlements

\* An order closes only with nothing left to run, reopens only with an item put
\* back, and is never brought back once cancelled.
THEOREM OrdersMoveAsPromised == Spec => OrderMoves
<1> DEFINE MayMove(o) ==
      \/ ostate[o] = "none" /\ ostate'[o] = "open"
      \/ ostate'[o] = "cancelled"
      \/ /\ ostate[o] = "open" /\ ostate'[o] = "done"
         /\ \A j \in JobsOf(o) : jstate'[j] \notin {"pending", "running"}
      \/ /\ ostate[o] = "done" /\ ostate'[o] = "open"
         /\ \E j \in JobsOf(o) : jstate[j] \in {"dead", "failed"} /\ jstate'[j] = "pending"
    Moves == \A o \in Orders : ostate'[o] # ostate[o] => MayMove(o)
<1>1. ColumnTypes /\ [Next]_vars => [Moves]_vars
  <2> SUFFICES ASSUME ColumnTypes, [Next]_vars, NEW o \in Orders, ostate'[o] # ostate[o]
               PROVE  MayMove(o)
    OBVIOUS
  <2> USE JobsAssumption DEF ColumnTypes
  <2>1. ASSUME NEW p \in Orders, EnqueueOrder(p) PROVE MayMove(o)
    BY <2>1 DEF EnqueueOrder
  <2>2. ASSUME NEW p \in Orders, CancelOrder(p) PROVE MayMove(o)
    BY <2>2 DEF CancelOrder
  <2>3. ASSUME NEW O, CloseIfComplete(O) PROVE MayMove(o)
    BY <2>3 DEF CloseIfComplete, UnfinishedStates
  <2>4. ASSUME NEW j \in Jobs, RequeueJob(j) PROVE MayMove(o)
    <3>1. o = OrderOf[j] /\ ostate[o] = "done" /\ ostate'[o] = "open"
      BY <2>4 DEF RequeueJob, Reopen
    <3>2. jstate[j] \in {"dead", "failed"} /\ jstate'[j] = "pending"
      BY <2>4 DEF RequeueJob, Reopen
    <3>3. QED
      BY <3>1, <3>2 DEF JobsOf
  <2>5. QED
    BY <2>1, <2>2, <2>3, <2>4
    DEF Next, FinishJob, FailAttempt, ReapExpiredLeases, FailAttempts, ClaimJobs, MarkCancelled,
        Heartbeat, LeaseExpires, BlockOpenOrders, ClearOrderBlocks, UpdateEntitlements, DayRolls,
        vars, orderVars
<1>2. IInv => ColumnTypes
  BY DEF IInv, TypeOK
<1>3. QED
  BY <1>1, <1>2, QueueInvariant, PTL DEF Spec, OrderMoves

-----------------------------------------------------------------------------
(* The day's spend.  UsedToday is a fold, a recursion over the subsets of   *)
(* the jobs billed today that takes out whichever job CHOOSE names.  What    *)
(* follows shows that it is defined, and that any job may be taken out.      *)

Today == {j \in Jobs : billed[j] = "today"}
Sum(f, S) == MapThenSumSet(LAMBDA j : f[j], S)
Pick(s) == CHOOSE x \in s : TRUE

\* The day's spend, before and after a step, is a sum over the bills of the day.
LEMMA UsedIsSum == /\ UsedToday = Sum(tokens, Today)
                   /\ UsedToday' = Sum(tokens', Today')
<1>1. UsedToday = Sum(tokens, Today)
  BY DEF UsedToday, Sum, Today
<1>2. UsedToday' = Sum(tokens', Today')
  BY DEF UsedToday, Sum, Today, MapThenSumSet, MapThenFoldSet
<1> QED
  BY <1>1, <1>2

\* The sums over the subsets of S, as the fold defines them.
Sums(f, S) ==
  CHOOSE g : g = [s \in SUBSET S |-> IF s = {} THEN 0 ELSE f[Pick(s)] + g[s \ {Pick(s)}]]

\* A sum is the last of the sums over the subsets.
LEMMA SumIsFold == ASSUME NEW f, NEW S PROVE Sum(f, S) = Sums(f, S)[S]
  BY DEF Sum, Sums, Pick, MapThenSumSet, MapThenFoldSet

\* Subsets of a finite set of jobs, and what taking one job out does.
LEMMA Subsets ==
  ASSUME NEW S \in SUBSET Jobs, NEW s \in SUBSET S
  PROVE  /\ IsFiniteSet(S) /\ Cardinality(s) \in Nat
         /\ \A x \in s : /\ s \ {x} \in SUBSET S
                         /\ Cardinality(s \ {x}) < Cardinality(s)
         /\ s # {} => Pick(s) \in s
<1>1. IsFiniteSet(S) /\ IsFiniteSet(s)
  BY JobsAssumption, FS_Subset
<1>2. Cardinality(s) \in Nat
  BY <1>1, FS_CardinalityType
<1>3. ASSUME NEW x \in s PROVE Cardinality(s \ {x}) < Cardinality(s)
  <2>1. Cardinality(s \ {x}) = Cardinality(s) - 1
    BY <1>1, FS_RemoveElement
  <2> QED
    BY <1>2, <2>1
<1> QED
  BY <1>1, <1>2, <1>3 DEF Pick

\* The sums over the subsets of S are what their recursion says.
LEMMA SumsUnfold ==
  ASSUME NEW f \in [Jobs -> Nat], NEW S \in SUBSET Jobs, NEW s \in SUBSET S
  PROVE  /\ Sums(f, S)[s] = IF s = {} THEN 0 ELSE f[Pick(s)] + Sums(f, S)[s \ {Pick(s)}]
         /\ Sums(f, S)[s] \in Nat
<1> DEFINE N == SUBSET S
           rank == [r \in N |-> Cardinality(r)]
           below == [r \in N |-> IF r = {} THEN {} ELSE {r \ {Pick(r)}}]
           E(g, r) == IF r = {} THEN 0 ELSE f[Pick(r)] + g[r \ {Pick(r)}]
           F == [r \in N |-> [h \in [below[r] -> Nat] |-> E(h, r)]]
<1>1. \A r \in N : r # {} => Pick(r) \in r /\ Pick(r) \in Jobs /\ r \ {Pick(r)} \in N
  BY Subsets
<1>2. Descends(N, rank, below)
  <2>1. rank \in [N -> Nat]
    BY Subsets
  <2>2. below \in [N -> SUBSET N]
    OBVIOUS
  <2>3. ASSUME NEW r \in N, NEW q \in below[r] PROVE rank[q] < rank[r]
    <3>1. r # {} /\ q = r \ {Pick(r)}
      BY <2>3
    <3>2. Pick(r) \in r
      BY <1>1, <3>1
    <3>3. q \in N /\ Cardinality(q) < Cardinality(r)
      BY <3>1, <3>2, Subsets
    <3> QED
      BY <3>3
  <2> HIDE DEF rank, below, N
  <2> QED
    BY <2>1, <2>2, <2>3 DEF Descends
<1>3. ASSUME NEW r \in N, NEW h \in [below[r] -> Nat] PROVE E(h, r) \in Nat
  <2>1. CASE r # {}
    <3>1. f[Pick(r)] \in Nat
      BY <1>1, <2>1
    <3>2. h[r \ {Pick(r)}] \in Nat
      BY <2>1
    <3> QED
      BY <2>1, <3>1, <3>2
  <2> QED
    BY <2>1
<1>4. Computes(F, N, below, Nat)
  <2> HIDE DEF E, N, below
  <2> QED
    BY <1>3 DEF Computes
<1>5. PICK g \in [N -> Nat] : Solves(g, F, N, below)
  <2> HIDE DEF N, rank, below, F
  <2> QED
    BY <1>2, <1>4, Recursion
<1>6. ASSUME NEW r \in N PROVE g[r] = E(g, r)
  <2> DEFINE h == [q \in below[r] |-> g[q]]
  <2>1. h \in [below[r] -> Nat]
    <3>1. below[r] \subseteq N
      OBVIOUS
    <3> HIDE DEF below, N
    <3> QED
      BY <1>5, <3>1
  <2>2. E(h, r) = E(g, r)
    OBVIOUS
  <2>3. F[r][h] = E(h, r)
    <3> HIDE DEF E, h, below, N
    <3> QED
      BY <2>1
  <2>4. g[r] = F[r][h]
    <3> HIDE DEF F, below, N
    <3> QED
      BY <1>5 DEF Solves
  <2> QED
    BY <2>2, <2>3, <2>4
<1>7. g = [r \in N |-> E(g, r)]
  <2> HIDE DEF E, N
  <2> QED
    BY <1>5, <1>6
<1>8. Sums(f, S) \in [N -> Nat] /\ \A r \in N : Sums(f, S)[r] = E(Sums(f, S), r)
  <2>1. Sums(f, S) = CHOOSE g1 : g1 = [r \in N |-> E(g1, r)]
    BY DEF Sums
  <2>2. Sums(f, S) = [r \in N |-> E(Sums(f, S), r)]
    <3> HIDE DEF E, N
    <3> QED
      BY <1>7, <2>1
  <2>3. \A r \in N : Sums(f, S)[r] = E(Sums(f, S), r)
    <3> HIDE DEF E, N
    <3> QED
      BY <2>2
  <2>5. \A r \in N : /\ r = {} => Sums(f, S)[r] = 0
                     /\ r # {} => Sums(f, S)[r] = f[Pick(r)] + Sums(f, S)[r \ {Pick(r)}]
    <3> HIDE DEF N
    <3> QED
      BY <2>3
  <2> DEFINE Bad == {r \in N : Sums(f, S)[r] \notin Nat}
  <2>4. Bad = {}
    <3> SUFFICES ASSUME Bad # {} PROVE FALSE
      OBVIOUS
    <3>1. PICK r \in Bad : \A q \in Bad : rank[r] <= rank[q]
      <4>1. Bad \in SUBSET N /\ rank \in [N -> Nat]
        BY <1>2 DEF Descends
      <4> HIDE DEF Bad, rank, N
      <4> QED
        BY <4>1, Lowest
    <3>0. r \in N /\ Sums(f, S)[r] \notin Nat
      BY <3>1
    <3>2. r \in N /\ r # {}
      <4>1. r = {} => Sums(f, S)[r] = 0
        <5> HIDE DEF N
        <5> QED
          BY <2>5, <3>0
      <4>2. 0 \in Nat
        OBVIOUS
      <4> HIDE DEF N
      <4> QED
        BY <3>0, <4>1, <4>2
    <3>3. r \ {Pick(r)} \in N /\ f[Pick(r)] \in Nat
      BY <1>1, <3>2
    <3>4. r \ {Pick(r)} \notin Bad
      <4>1. Cardinality(r \ {Pick(r)}) < Cardinality(r) /\ Cardinality(r) \in Nat
            /\ Cardinality(r \ {Pick(r)}) \in Nat
        BY <1>1, <3>2, <3>3, Subsets
      <4>2. rank[r \ {Pick(r)}] < rank[r] /\ rank[r] \in Nat /\ rank[r \ {Pick(r)}] \in Nat
        BY <3>2, <3>3, <4>1
      <4> HIDE DEF Bad, rank, N
      <4> QED
        BY <3>1, <4>2
    <3>5. Sums(f, S)[r \ {Pick(r)}] \in Nat
      BY <3>3, <3>4
    <3>6. Sums(f, S)[r] \in Nat
      <4>1. Sums(f, S)[r] = f[Pick(r)] + Sums(f, S)[r \ {Pick(r)}]
        <5> HIDE DEF N
        <5> QED
          BY <2>5, <3>2
      <4>2. \A a, b \in Nat : a + b \in Nat
        OBVIOUS
      <4> HIDE DEF N
      <4> QED
        BY <3>3, <3>5, <4>1, <4>2
    <3> QED
      BY <3>1, <3>6
  <2> HIDE DEF E
  <2> QED
    BY <2>2, <2>3, <2>4
<1> QED
  BY <1>8

\* Induction over sets of jobs: among bad ones there is one that is no longer bad
\* whichever job is taken out.
LEMMA SmallestBad ==
  ASSUME NEW Bad \in SUBSET SUBSET Jobs, Bad # {}
  PROVE  \E s \in Bad : \A x \in s : s \ {x} \notin Bad
<1> DEFINE N == SUBSET Jobs
           rank == [s \in N |-> Cardinality(s)]
<1>1. rank \in [N -> Nat]
  BY Subsets
<1>2. PICK s \in Bad : \A r \in Bad : rank[s] <= rank[r]
  <2> HIDE DEF rank
  <2> QED
    BY <1>1, Lowest
<1>3. ASSUME NEW x \in s PROVE s \ {x} \notin Bad
  <2>1. s \in N /\ s \ {x} \in N
    OBVIOUS
  <2>2. rank[s \ {x}] < rank[s]
    BY <2>1, Subsets
  <2>3. rank[s \ {x}] \in Nat /\ rank[s] \in Nat
    BY <1>1, <2>1
  <2> HIDE DEF rank, N
  <2> QED
    BY <1>2, <2>2, <2>3
<1> QED
  BY <1>3

\* The sum over a subset does not depend on the set it is a subset of.
LEMMA SumsAgree ==
  ASSUME NEW f \in [Jobs -> Nat], NEW S \in SUBSET Jobs, NEW T \in SUBSET S
  PROVE  Sums(f, S)[T] = Sums(f, T)[T]
<1> DEFINE Bad == {s \in SUBSET T : Sums(f, S)[s] # Sums(f, T)[s]}
<1>1. Bad = {}
  <2> SUFFICES ASSUME Bad # {} PROVE FALSE
    OBVIOUS
  <2>1. PICK s \in Bad : \A x \in s : s \ {x} \notin Bad
    <3>1. Bad \in SUBSET SUBSET Jobs
      OBVIOUS
    <3> HIDE DEF Bad
    <3> QED
      BY <3>1, SmallestBad
  <2>2. s \in SUBSET T /\ s \in SUBSET S /\ T \in SUBSET Jobs
    BY <2>1
  <2>3. CASE s = {}
    <3>1. Sums(f, S)[s] = 0 /\ Sums(f, T)[s] = 0
      BY <2>2, <2>3, SumsUnfold
    <3> QED
      BY <2>1, <3>1
  <2>4. CASE s # {}
    <3>1. Pick(s) \in s
      BY <2>2, <2>4, Subsets
    <3>2. s \ {Pick(s)} \notin Bad
      <4> HIDE DEF Bad
      <4> QED
        BY <2>1, <3>1
    <3>3. Sums(f, S)[s \ {Pick(s)}] = Sums(f, T)[s \ {Pick(s)}]
      BY <2>2, <3>2
    <3>4. /\ Sums(f, S)[s] = f[Pick(s)] + Sums(f, S)[s \ {Pick(s)}]
          /\ Sums(f, T)[s] = f[Pick(s)] + Sums(f, T)[s \ {Pick(s)}]
      BY <2>2, <2>4, SumsUnfold
    <3> QED
      BY <2>1, <3>3, <3>4
  <2> QED
    BY <2>3, <2>4
<1> QED
  BY <1>1

\* A sum, one job at a time.
LEMMA SumPick ==
  ASSUME NEW f \in [Jobs -> Nat], NEW S \in SUBSET Jobs
  PROVE  /\ Sum(f, S) \in Nat
         /\ S = {} => Sum(f, S) = 0
         /\ S # {} => Sum(f, S) = f[Pick(S)] + Sum(f, S \ {Pick(S)})
<1>1. S \in SUBSET S /\ S \ {Pick(S)} \in SUBSET S /\ S \ {Pick(S)} \in SUBSET Jobs
  OBVIOUS
<1>2. /\ Sum(f, S) = Sums(f, S)[S]
      /\ Sum(f, S \ {Pick(S)}) = Sums(f, S \ {Pick(S)})[S \ {Pick(S)}]
  BY SumIsFold
<1>3. Sums(f, S)[S \ {Pick(S)}] = Sums(f, S \ {Pick(S)})[S \ {Pick(S)}]
  BY <1>1, SumsAgree
<1> QED
  BY <1>1, <1>2, <1>3, SumsUnfold

\* Whichever job is taken out first, the sum is the same.
LEMMA SumAny ==
  ASSUME NEW f \in [Jobs -> Nat], NEW S \in SUBSET Jobs, NEW x \in S
  PROVE  Sum(f, S) = f[x] + Sum(f, S \ {x})
<1> DEFINE Bad == {s \in SUBSET Jobs : \E y \in s : Sum(f, s) # f[y] + Sum(f, s \ {y})}
<1> SUFFICES ASSUME Bad # {} PROVE FALSE
  OBVIOUS
<1>1. PICK s \in Bad : \A y \in s : s \ {y} \notin Bad
  <2>1. Bad \in SUBSET SUBSET Jobs
    OBVIOUS
  <2> HIDE DEF Bad
  <2> QED
    BY <2>1, SmallestBad
<1>2. PICK y \in s : Sum(f, s) # f[y] + Sum(f, s \ {y})
  BY <1>1
<1> DEFINE p == Pick(s)
           rest == (s \ {p}) \ {y}
<1>3. s \in SUBSET Jobs /\ p \in s /\ y \in s
  BY <1>1, <1>2, Subsets
<1>4. Sum(f, s) = f[p] + Sum(f, s \ {p})
  BY <1>3, SumPick
<1>5. p # y
  BY <1>2, <1>4
<1>6. s \ {p} \notin Bad /\ s \ {y} \notin Bad
  <2> HIDE DEF Bad, p
  <2> QED
    BY <1>1, <1>3
<1>7. Sum(f, s \ {p}) = f[y] + Sum(f, rest)
  <2>1. s \ {p} \in SUBSET Jobs /\ y \in s \ {p}
    BY <1>3, <1>5
  <2> QED
    BY <1>6, <2>1
<1>8. Sum(f, s \ {y}) = f[p] + Sum(f, rest)
  <2>1. s \ {y} \in SUBSET Jobs /\ p \in s \ {y} /\ (s \ {y}) \ {p} = rest
    BY <1>3, <1>5
  <2> QED
    BY <1>6, <2>1
<1>9. f[p] \in Nat /\ f[y] \in Nat /\ Sum(f, rest) \in Nat
  <2>1. rest \in SUBSET Jobs
    BY <1>3
  <2> HIDE DEF rest, p
  <2> QED
    BY <1>3, <2>1, SumPick
<1> HIDE DEF p, rest
<1> QED
  BY <1>2, <1>4, <1>7, <1>8, <1>9

\* The sum depends on the bills of its own jobs only.
LEMMA SumSame ==
  ASSUME NEW f \in [Jobs -> Nat], NEW h \in [Jobs -> Nat], NEW S \in SUBSET Jobs,
         \A x \in S : f[x] = h[x]
  PROVE  Sum(f, S) = Sum(h, S)
<1> DEFINE Bad == {s \in SUBSET S : Sum(f, s) # Sum(h, s)}
<1> SUFFICES ASSUME Bad # {} PROVE FALSE
  OBVIOUS
<1>1. PICK s \in Bad : \A x \in s : s \ {x} \notin Bad
  <2>1. Bad \in SUBSET SUBSET Jobs
    OBVIOUS
  <2> HIDE DEF Bad
  <2> QED
    BY <2>1, SmallestBad
<1>2. s \in SUBSET S /\ s \in SUBSET Jobs /\ Sum(f, s) # Sum(h, s)
  BY <1>1
<1>3. s # {}
  BY <1>2, SumPick
<1>4. PICK x \in s : TRUE
  BY <1>3
<1>5. Sum(f, s \ {x}) = Sum(h, s \ {x})
  <2>1. s \ {x} \notin Bad
    <3> HIDE DEF Bad
    <3> QED
      BY <1>1, <1>4
  <2> QED
    BY <1>2, <2>1
<1>6. Sum(f, s) = f[x] + Sum(f, s \ {x}) /\ Sum(h, s) = h[x] + Sum(h, s \ {x})
  BY <1>2, <1>4, SumAny
<1> QED
  BY <1>2, <1>5, <1>6

-----------------------------------------------------------------------------
(* How far a day may overspend.                                            *)

\* What a number of answers of m tokens each may come to.
LEMMA Times ==
  ASSUME NEW a \in Nat, NEW b \in Nat, NEW m \in Nat
  PROVE  /\ a * m \in Nat
         /\ a <= b => a * m <= b * m
         /\ (a + 1) * m = a * m + m
OBVIOUS

\* An answer adds its own tokens to the day's spend at most: it is the bill of a
\* job that had none today, or it replaces one.
LEMMA FinishSpends ==
  ASSUME NEW j \in Jobs, NEW ok \in BOOLEAN, NEW t \in 0..MaxTokens,
         ColumnTypes, ColumnTypes', FinishJob(j, ok, t)
  PROVE  UsedToday' \in Nat /\ UsedToday' <= UsedToday + MaxTokens
<1> DEFINE rest == Today \ {j}
<1>1. /\ tokens \in [Jobs -> Nat] /\ tokens' \in [Jobs -> Nat] /\ tokens'[j] = t
      /\ \A x \in rest : tokens'[x] = tokens[x]
      /\ t \in Nat /\ t <= MaxTokens
  BY LimitsAssumption DEF ColumnTypes, FinishJob, RecordAnswer, Today
<1>2. Today' = Today \cup {j} /\ Today' \ {j} = rest /\ Today' \in SUBSET Jobs
      /\ Today \in SUBSET Jobs /\ rest \in SUBSET Jobs
  BY DEF ColumnTypes, FinishJob, RecordAnswer, Today
<1>3. Sum(tokens', Today') = t + Sum(tokens', rest)
  BY <1>1, <1>2, SumAny
<1>4. Sum(tokens', rest) = Sum(tokens, rest)
  BY <1>1, <1>2, SumSame
<1>5. Sum(tokens, rest) \in Nat /\ Sum(tokens, Today) \in Nat
      /\ Sum(tokens, rest) <= Sum(tokens, Today)
  <2>1. Sum(tokens, rest) \in Nat /\ Sum(tokens, Today) \in Nat
    BY <1>1, <1>2, SumPick
  <2>2. CASE j \in Today
    <3>1. Sum(tokens, Today) = tokens[j] + Sum(tokens, rest) /\ tokens[j] \in Nat
      BY <1>1, <1>2, <2>2, SumAny
    <3> QED
      BY <2>1, <3>1
  <2>3. CASE j \notin Today
    <3>1. rest = Today
      BY <2>3
    <3> QED
      BY <2>1, <3>1
  <2> QED
    BY <2>2, <2>3
<1>6. UsedToday = Sum(tokens, Today) /\ UsedToday' = Sum(tokens', Today')
  BY UsedIsSum
<1> HIDE DEF rest
<1> QED
  BY <1>1, <1>3, <1>4, <1>5, <1>6, LimitsAssumption

\* The day's spend is a number, before and after a step.
LEMMA UsedType ==
  ASSUME ColumnTypes, ColumnTypes'
  PROVE  UsedToday \in Nat /\ UsedToday' \in Nat
<1>1. tokens \in [Jobs -> Nat] /\ tokens' \in [Jobs -> Nat]
  BY LimitsAssumption DEF ColumnTypes
<1>2. Today \in SUBSET Jobs /\ Today' \in SUBSET Jobs
  BY DEF Today
<1> QED
  BY <1>1, <1>2, SumPick, UsedIsSum

\* A day starts with nothing spent.
LEMMA DayStartsEmpty ==
  ASSUME ColumnTypes, ColumnTypes', DayRolls
  PROVE  UsedToday' = 0
<1>1. Today' = {} /\ tokens' \in [Jobs -> Nat]
  BY LimitsAssumption DEF DayRolls, ColumnTypes, Today
<1> QED
  BY <1>1, SumPick, UsedIsSum

\* Only an answer adds to the day's spend, and it retires one running job.
LEMMA OnlyAnswersSpend ==
  ASSUME ColumnTypes, ColumnTypes', [Next]_vars,
         ~\E j \in Jobs, ok \in BOOLEAN, t \in 0..MaxTokens : FinishJob(j, ok, t)
  PROVE  UsedToday' <= UsedToday
<1>1. CASE DayRolls
  BY <1>1, UsedType, DayStartsEmpty
<1>2. CASE ~DayRolls
  <2>1. UNCHANGED <<tokens, billed>>
    BY <1>2 DEF Next, EnqueueOrder, CancelOrder, ClaimJobs, Heartbeat, FailAttempt, FailAttempts,
       MarkCancelled, RequeueJob, LeaseExpires, ReapExpiredLeases, BlockOpenOrders,
       ClearOrderBlocks, UpdateEntitlements, vars, answerVars
  <2>2. UsedToday' = UsedToday
    BY <2>1, UsedIsSum DEF Today
  <2> QED
    BY <2>2, UsedType
<1> QED
  BY <1>1, <1>2

\* How many jobs run, before and after a step.
LEMMA RunningCounts ==
  /\ IsFiniteSet(Running) /\ IsFiniteSet(Running')
  /\ Cardinality(Running) \in Nat /\ Cardinality(Running') \in Nat
<1>1. Running \subseteq Jobs /\ Running' \subseteq Jobs
  BY DEF Running, InState
<1> QED
  BY <1>1, JobsAssumption, FS_Subset, FS_CardinalityType

\* A claim starts below the budget and stops at the cap, an answer moves one
\* job's tokens from what may be spent to what is, and nothing else adds to either.
LEMMA SpendStep ==
  ASSUME IInv, ColumnTypes', SpendIsBounded, [Next]_vars
  PROVE  SpendIsBounded'
<1> DEFINE n == Cardinality(Running)
           k == Cardinality(Running')
           M == MaxTokens
<1>1. ColumnTypes /\ M \in Nat /\ cap \in Caps /\ budget \in Budgets
      /\ Caps \subseteq Nat /\ Budgets \subseteq Nat
  BY LimitsAssumption DEF IInv, TypeOK, ColumnTypes
<1>2. n \in Nat /\ k \in Nat /\ UsedToday \in Nat /\ UsedToday' \in Nat
  BY <1>1, RunningCounts, UsedType
<1>3. n * M \in Nat /\ k * M \in Nat
  BY <1>1, <1>2, Times
<1> SUFFICES ASSUME UsedToday' + k * M > 0
             PROVE  \E c \in Caps, b \in Budgets : UsedToday' + k * M < b + c * M
  BY DEF SpendIsBounded
<1>4. UsedToday + n * M > 0 =>
        \E c \in Caps, b \in Budgets : UsedToday + n * M < b + c * M
  BY DEF SpendIsBounded
<1> HIDE DEF n, k, M
<1>5. CASE \E w \in WorkerIds, S \in SUBSET Jobs : ClaimJobs(w, S)
  <2>1. k <= cap /\ UsedToday < budget
    BY <1>1, <1>5, ClaimWithinCap DEF k
  <2>2. UsedToday' = UsedToday
    <3>1. UNCHANGED <<tokens, billed>>
      BY <1>5 DEF ClaimJobs, answerVars
    <3> QED
      BY <3>1, UsedIsSum DEF Today
  <2>3. cap \in Nat /\ budget \in Nat
    BY <1>1
  <2>4. k * M <= cap * M /\ cap * M \in Nat
    BY <1>1, <1>2, <2>1, <2>3, Times
  <2>5. UsedToday' + k * M < budget + cap * M
    BY <1>2, <1>3, <2>1, <2>2, <2>3, <2>4
  <2> QED
    BY <1>1, <2>5
<1>6. CASE ~\E w \in WorkerIds, S \in SUBSET Jobs : ClaimJobs(w, S)
  <2>1. UsedToday' + k * M <= UsedToday + n * M
    <3>1. CASE \E j \in Jobs, ok \in BOOLEAN, t \in 0..MaxTokens : FinishJob(j, ok, t)
      <4>1. PICK j \in Jobs, ok \in BOOLEAN, t \in 0..MaxTokens : FinishJob(j, ok, t)
        BY <3>1
      <4>2. UsedToday' <= UsedToday + M
        BY <1>1, <4>1, FinishSpends DEF M
      <4>3. Running' = Running \ {j} /\ j \in Running
        BY <1>1, <4>1 DEF FinishJob, Running, InState, ColumnTypes
      <4>4. n = k + 1
        BY <1>2, <4>3, RunningCounts, FS_RemoveElement DEF n, k
      <4>5. n * M = k * M + M
        BY <1>1, <1>2, <4>4, Times
      <4>6. \A u, v, x, y, m \in Nat : x = y + m /\ v <= u + m => v + y <= u + x
        OBVIOUS
      <4> QED
        BY <1>1, <1>2, <1>3, <4>2, <4>5, <4>6
    <3>2. CASE ~\E j \in Jobs, ok \in BOOLEAN, t \in 0..MaxTokens : FinishJob(j, ok, t)
      <4>1. UsedToday' <= UsedToday
        BY <1>1, <3>2, OnlyAnswersSpend
      <4>2. k <= n
        <5>1. Running' \subseteq Running
          BY <1>1, <1>6, OnlyClaimsStart
        <5> QED
          BY <5>1, RunningCounts, FS_Subset DEF n, k
      <4>3. k * M <= n * M
        BY <1>1, <1>2, <4>2, Times
      <4> QED
        BY <1>2, <1>3, <4>1, <4>3
    <3> QED
      BY <3>1, <3>2
  <2>2. UsedToday + n * M > 0
    BY <1>2, <1>3, <2>1
  <2>3. PICK c \in Caps, b \in Budgets : UsedToday + n * M < b + c * M
    BY <1>4, <2>2
  <2>4. b \in Nat /\ c * M \in Nat
    BY <1>1, Times
  <2>5. UsedToday' + k * M < b + c * M
    BY <1>2, <1>3, <2>1, <2>3, <2>4
  <2> QED
    BY <2>5
<1> QED
  BY <1>5, <1>6

\* Nothing is spent and nothing runs at first.
LEMMA SpendInit == Init => SpendIsBounded
<1> SUFFICES ASSUME Init PROVE SpendIsBounded
  OBVIOUS
<1>1. tokens \in [Jobs -> Nat] /\ Today = {} /\ Running = {}
  BY DEF Init, Today, Running, InState
<1>2. UsedToday = 0
  BY <1>1, SumPick, UsedIsSum
<1>3. Cardinality(Running) * MaxTokens = 0
  BY <1>1, FS_EmptySet, LimitsAssumption
<1> QED
  BY <1>2, <1>3 DEF SpendIsBounded

\* A day is never overspent by more than one answer for each job that may run at
\* once, for every number of jobs, every set of limits and every answer's size.
THEOREM SpendStaysBounded == Spec => []SpendIsBounded
<1>1. IInv /\ IInv' /\ SpendIsBounded /\ [Next]_vars => SpendIsBounded'
  BY SpendStep DEF IInv, TypeOK
<1> QED
  BY <1>1, SpendInit, QueueInvariant, PTL DEF Spec
=============================================================================
