------------------------------ MODULE JobQueue ------------------------------
(***************************************************************************)
(* The durable work queue of one provisioned tenant: the rows of jobs,     *)
(* work_orders, job_results, token_ledger and entitlements, with one       *)
(* action per queue call.  Every call runs inside one withTenant()         *)
(* transaction, so an action here is a whole transaction.                  *)
(*                                                                         *)
(* The module says what the rows go through whoever calls, in whatever     *)
(* order; Next names the little a caller is held to.  Runner.tla adds the  *)
(* processes that call.                                                    *)
(***************************************************************************)
EXTENDS Integers, FiniteSets, FiniteSetsExt

CONSTANTS
  Jobs,         \* job rows, numbered in (created_at, order_id, idx) order
  Orders,       \* work orders, numbered in creation order
  OrderOf,      \* jobs.order_id
  WorkerIds,    \* the values a claimant may write into claimed_by
  NoWorker,     \* claimed_by IS NULL
  MaxAttempts,  \* jobs.max_attempts, 3 by default
  BatchSize,    \* the limit a claim asks for
  Caps,         \* values entitlements.max_concurrent_jobs may take
  Budgets,      \* values entitlements.daily_token_budget may take
  MaxTokens     \* the most tokens one answer reports

ASSUME JobsAssumption ==
  /\ IsFiniteSet(Jobs) /\ Jobs \subseteq Nat
  /\ IsFiniteSet(Orders) /\ Orders \subseteq Nat
  /\ OrderOf \in [Jobs -> Orders]
  /\ \A o \in Orders : \E j \in Jobs : OrderOf[j] = o
ASSUME WorkersAssumption == NoWorker \notin WorkerIds
ASSUME LimitsAssumption ==
  /\ MaxAttempts \in Nat \ {0} /\ BatchSize \in Nat \ {0} /\ MaxTokens \in Nat
  /\ Caps \subseteq Nat \ {0} /\ Budgets \subseteq Nat

VARIABLES
  jstate,     \* jobs.state; "none" before the row exists
  attempts,   \* jobs.attempts
  claimedBy,  \* jobs.claimed_by, kept after the job stops running
  lease,      \* jobs.lease_expires_at: null, ahead of the clock, or behind it
  cancelReq,  \* jobs.cancel_requested_at IS NOT NULL
  runAt,      \* rank of jobs.run_at among the pending rows, 0 for the others
  ostate,     \* work_orders.state; "none" before the row exists
  blocked,    \* work_orders.blocked_reason IS NOT NULL
  result,     \* job_results.ok, or "none" without a row
  tokens,     \* token_ledger.total_tokens, 0 without a row
  billed,     \* token_ledger.usage_day: no row, today, or an earlier day
  cap,        \* entitlements.max_concurrent_jobs
  budget      \* entitlements.daily_token_budget

jobVars == <<jstate, attempts, claimedBy, lease, cancelReq, runAt>>
orderVars == <<ostate, blocked>>
answerVars == <<result, tokens, billed>>
limitVars == <<cap, budget>>
vars == <<jobVars, orderVars, answerVars, limitVars>>

JobStates ==
  {"none", "pending", "running", "succeeded", "failed", "dead", "cancelled"}
OrderStates == {"none", "open", "done", "cancelled"}

ColumnTypes ==
  /\ jstate \in [Jobs -> JobStates]
  /\ attempts \in [Jobs -> Nat]
  /\ claimedBy \in [Jobs -> WorkerIds \cup {NoWorker}]
  /\ lease \in [Jobs -> {"null", "live", "expired"}]
  /\ cancelReq \in [Jobs -> BOOLEAN]
  /\ runAt \in [Jobs -> Nat]
  /\ ostate \in [Orders -> OrderStates]
  /\ blocked \in [Orders -> BOOLEAN]
  /\ result \in [Jobs -> {"none", "ok", "invalid"}]
  /\ tokens \in [Jobs -> 0..MaxTokens]
  /\ billed \in [Jobs -> {"never", "today", "before"}]
  /\ cap \in Caps
  /\ budget \in Budgets

\* A job's row exists exactly when its order's does, and is untouched till then.
RowsExist ==
  \A j \in Jobs :
    /\ jstate[j] = "none" <=> ostate[OrderOf[j]] = "none"
    /\ jstate[j] = "none" => attempts[j] = 0 /\ claimedBy[j] = NoWorker

\* The rows are well typed, and an order and its items come into being together.
TypeOK == ColumnTypes /\ RowsExist

-----------------------------------------------------------------------------
(* Reading and writing rows.                                               *)

InState(s) == {j \in Jobs : jstate[j] = s}
Pending == InState("pending")
Running == InState("running")
JobsOf(o) == {j \in Jobs : OrderOf[j] = o}
Least(a, b) == IF a <= b THEN a ELSE b

\* UPDATE ... SET column = v over the rows of S.
Set(f, S, v) == [x \in DOMAIN f |-> IF x \in S THEN v ELSE f[x]]

\* The claim order once the pending rows are P and those of S have been given
\* run_at = now() by this transaction: behind the rest, in creation order.
Queued(P, S) ==
  LET Before(j, k) ==
        IF k \in S THEN j \in S => j < k ELSE j \notin S /\ runAt[j] < runAt[k]
  IN  [k \in Jobs |->
         IF k \in P THEN 1 + Cardinality({j \in P \ {k} : Before(j, k)}) ELSE 0]

\* Mutant: an order closes with items of it still running.
WaitingStates == {"pending"}
\* Mutant: a dead item keeps its order open.
UnansweredStates == {"pending", "running", "dead"}
\* The states of a job something is left to run of.
UnfinishedStates == {"pending", "running"}

\* An open order of O closes when no job of it is pending or running any more.
\* Read after this transaction's job updates, hence the primes.
CloseIfComplete(O) ==
  ostate' = [o \in Orders |->
    IF /\ o \in O /\ ostate[o] = "open"
       /\ \A j \in JobsOf(o) : jstate'[j] \notin UnfinishedStates
    THEN "done" ELSE ostate[o]]

-----------------------------------------------------------------------------
(* Submitting and claiming.                                                *)

\* Mutant: the items are left to a later transaction.
EnqueueOrderAlone(o) ==
  /\ ostate[o] = "none"
  /\ \A p \in Orders : p < o => ostate[p] # "none"
  /\ ostate' = [ostate EXCEPT ![o] = "open"]
  /\ UNCHANGED <<jobVars, blocked, answerVars, limitVars>>

\* enqueueOrder: the order and all its items, in one transaction.  Orders are
\* numbered as they are created.
EnqueueOrder(o) ==
  /\ ostate[o] = "none"
  /\ \A p \in Orders : p < o => ostate[p] # "none"
  /\ ostate' = [ostate EXCEPT ![o] = "open"]
  /\ jstate' = Set(jstate, JobsOf(o), "pending")
  /\ runAt' = Queued(Pending \cup JobsOf(o), JobsOf(o))
  /\ UNCHANGED <<attempts, claimedBy, lease, cancelReq, blocked, answerVars, limitVars>>

UsedToday == MapThenSumSet(LAMBDA j : tokens[j], {j \in Jobs : billed[j] = "today"})

\* Mutant: a budget that is just spent is not exhausted yet.
ExhaustedPast == UsedToday > budget
Exhausted == ~(UsedToday < budget)

\* Mutant: the cap bounds the claim, not the jobs running.
AllowancePerClaim == IF Exhausted THEN 0 ELSE Least(BatchSize, cap)

\* How many rows one claim may take.
Allowance ==
  IF Exhausted \/ cap < Cardinality(Running) THEN 0
  ELSE Least(BatchSize, cap - Cardinality(Running))

\* S is what the candidate query returns: the Allowance first pending rows.
Candidates(S) ==
  /\ S \subseteq Pending
  /\ Cardinality(S) = Least(Allowance, Cardinality(Pending))
  /\ \A j \in S, k \in Pending \ S : runAt[j] < runAt[k]

ClaimJobs(w, S) ==
  /\ S # {} /\ Candidates(S)
  /\ jstate' = Set(jstate, S, "running")
  /\ attempts' = [j \in Jobs |-> IF j \in S THEN attempts[j] + 1 ELSE attempts[j]]
  /\ claimedBy' = Set(claimedBy, S, w)
  /\ lease' = Set(lease, S, "live")
  /\ runAt' = Queued(Pending \ S, {})
  /\ UNCHANGED <<cancelReq, orderVars, answerVars, limitVars>>

-----------------------------------------------------------------------------
(* The life of a claimed job.                                              *)

\* Mutant: the beat does not ask whose job it is.
HeartbeatOfAnyone(j, w) ==
  IF jstate[j] # "running" THEN "lost"
  ELSE IF cancelReq[j] THEN "cancel-requested" ELSE "renewed"

HeartbeatReply(j, w) ==
  IF jstate[j] # "running" \/ claimedBy[j] # w THEN "lost"
  ELSE IF cancelReq[j] THEN "cancel-requested" ELSE "renewed"

\* Renews even a lease that has expired, as long as nobody has reaped it.
Heartbeat(j, w) ==
  /\ HeartbeatReply(j, w) # "lost"
  /\ lease' = [lease EXCEPT ![j] = "live"]
  /\ UNCHANGED <<jstate, attempts, claimedBy, cancelReq, runAt, orderVars, answerVars, limitVars>>

\* Mutant: only a valid answer is billed.
RecordAnswerBillValid(j, ok, t) ==
  /\ result' = [result EXCEPT ![j] = IF ok THEN "ok" ELSE "invalid"]
  /\ tokens' = [tokens EXCEPT ![j] = t]
  /\ billed' = IF ok THEN [billed EXCEPT ![j] = "today"] ELSE billed

\* The upserts of job_results and token_ledger, one row per job.
RecordAnswer(j, ok, t) ==
  /\ result' = [result EXCEPT ![j] = IF ok THEN "ok" ELSE "invalid"]
  /\ tokens' = [tokens EXCEPT ![j] = t]
  /\ billed' = [billed EXCEPT ![j] = "today"]

\* Asks that the job runs, not that the caller is the one who claimed it.
\* When it does not run, JobNotRunningError leaves every row as it was.
FinishJob(j, ok, t) ==
  /\ jstate[j] = "running"
  /\ jstate' = [jstate EXCEPT ![j] = IF ok THEN "succeeded" ELSE "failed"]
  /\ lease' = [lease EXCEPT ![j] = "null"]
  /\ RecordAnswer(j, ok, t)
  /\ CloseIfComplete({OrderOf[j]})
  /\ UNCHANGED <<attempts, claimedBy, cancelReq, runAt, blocked, limitVars>>

\* Mutant: off by one at the budget.
SpentPast(j) == attempts[j] > MaxAttempts

Spent(j) == attempts[j] >= MaxAttempts

\* failAttempt on each job of S: dead when the attempts are spent, pending
\* otherwise, whatever the job's state was.  A retry is due at once.
FailAttempts(S) ==
  LET dead == {j \in S : Spent(j)} IN
  /\ jstate' = [j \in Jobs |-> IF j \in dead THEN "dead"
                               ELSE IF j \in S THEN "pending" ELSE jstate[j]]
  /\ lease' = Set(lease, S, "null")
  /\ runAt' = Queued((Pending \cup S) \ dead, S \ dead)
  /\ CloseIfComplete({OrderOf[j] : j \in dead})
  /\ UNCHANGED <<attempts, claimedBy, cancelReq, blocked, answerVars, limitVars>>

\* One job's attempt failed, as the worker that claimed it reports.
FailAttempt(j) == FailAttempts({j})

\* Mutant: the reaper leaves alone what was asked to stop.
ExpiredUncancelled == {j \in Running : lease[j] = "expired" /\ ~cancelReq[j]}

ExpiredJobs == {j \in Running : lease[j] = "expired"}
ReapExpiredLeases == ExpiredJobs # {} /\ FailAttempts(ExpiredJobs)

\* Mutant: the lease outlives the job.
MarkCancelledKeepLease(j) ==
  /\ jstate[j] = "running"
  /\ jstate' = [jstate EXCEPT ![j] = "cancelled"]
  /\ UNCHANGED <<attempts, claimedBy, lease, cancelReq, runAt, orderVars, answerVars, limitVars>>

\* False, and no change, unless the job runs.
MarkCancelled(j) ==
  /\ jstate[j] = "running"
  /\ jstate' = [jstate EXCEPT ![j] = "cancelled"]
  /\ lease' = [lease EXCEPT ![j] = "null"]
  /\ UNCHANGED <<attempts, claimedBy, cancelReq, runAt, orderVars, answerVars, limitVars>>

-----------------------------------------------------------------------------
(* The tenant's verbs.                                                     *)

\* Mutant: the order stays closed.
ReopenNone(o) == ostate' = ostate
Reopen(o) == ostate' = [ostate EXCEPT ![o] = IF @ = "done" THEN "open" ELSE @]

RequeueJob(j) ==
  /\ jstate[j] \in {"dead", "failed"}
  /\ jstate' = [jstate EXCEPT ![j] = "pending"]
  /\ attempts' = [attempts EXCEPT ![j] = 0]
  /\ lease' = [lease EXCEPT ![j] = "null"]
  /\ runAt' = Queued(Pending \cup {j}, {j})
  /\ Reopen(OrderOf[j])
  /\ UNCHANGED <<claimedBy, cancelReq, blocked, answerVars, limitVars>>

\* Mutant: running items are retired under the process that runs them.
CancelledAtOnceUnfinished(o) == JobsOf(o) \cap (Pending \cup Running)
\* Mutant: whatever does not run is cancelled, settled or not.
CancelledAtOnceSettled(o) == JobsOf(o) \ Running
CancelledAtOnce(o) == JobsOf(o) \cap Pending

CancelOrder(o) ==
  /\ ostate[o] # "none"
  /\ jstate' = Set(jstate, CancelledAtOnce(o), "cancelled")
  /\ lease' = Set(lease, CancelledAtOnce(o), "null")
  /\ runAt' = Queued(Pending \ JobsOf(o), {})
  /\ cancelReq' = Set(cancelReq, JobsOf(o) \cap Running, TRUE)
  /\ ostate' = [ostate EXCEPT ![o] = "cancelled"]
  /\ UNCHANGED <<attempts, claimedBy, blocked, answerVars, limitVars>>

-----------------------------------------------------------------------------
(* Metering.                                                               *)

BlockOpenOrders ==
  /\ blocked' = Set(blocked, {o \in Orders : ostate[o] = "open" /\ JobsOf(o) \cap Pending # {}}, TRUE)
  /\ UNCHANGED <<jobVars, ostate, answerVars, limitVars>>

\* Mutant: the stamp is lifted from open orders only.
StampedOpen == {o \in Orders : ostate[o] = "open"}
Stamped == {o \in Orders : blocked[o]}

ClearOrderBlocks ==
  /\ blocked' = Set(blocked, Stamped, FALSE)
  /\ UNCHANGED <<jobVars, ostate, answerVars, limitVars>>

\* The operator edits the tenant's limits at any time.
UpdateEntitlements(c, b) ==
  /\ cap' = c /\ budget' = b
  /\ UNCHANGED <<jobVars, orderVars, answerVars>>

-----------------------------------------------------------------------------
(* The database clock.                                                     *)

LeaseExpires(j) ==
  /\ lease[j] = "live"
  /\ lease' = [lease EXCEPT ![j] = "expired"]
  /\ UNCHANGED <<jstate, attempts, claimedBy, cancelReq, runAt, orderVars, answerVars, limitVars>>

\* Midnight UTC: usage_day = today no longer matches any row.
DayRolls ==
  /\ \E j \in Jobs : billed[j] = "today"
  /\ billed' = [j \in Jobs |-> IF billed[j] = "never" THEN "never" ELSE "before"]
  /\ UNCHANGED <<jobVars, orderVars, result, tokens, limitVars>>

-----------------------------------------------------------------------------
Init ==
  /\ jstate = [j \in Jobs |-> "none"]
  /\ attempts = [j \in Jobs |-> 0]
  /\ claimedBy = [j \in Jobs |-> NoWorker]
  /\ lease = [j \in Jobs |-> "null"]
  /\ cancelReq = [j \in Jobs |-> FALSE]
  /\ runAt = [j \in Jobs |-> 0]
  /\ ostate = [o \in Orders |-> "none"]
  /\ blocked = [o \in Orders |-> FALSE]
  /\ result = [j \in Jobs |-> "none"]
  /\ tokens = [j \in Jobs |-> 0]
  /\ billed = [j \in Jobs |-> "never"]
  /\ cap \in Caps
  /\ budget \in Budgets

\* What a caller is held to by its own code alone: it fails only jobs that were
\* claimed, however long ago, and marks cancelled only on a cancel request.
Next ==
  \/ \E o \in Orders : EnqueueOrder(o) \/ CancelOrder(o)
  \/ \E w \in WorkerIds, S \in SUBSET Jobs : ClaimJobs(w, S)
  \/ \E j \in Jobs, w \in WorkerIds : Heartbeat(j, w)
  \/ \E j \in Jobs, ok \in BOOLEAN, t \in 0..MaxTokens : FinishJob(j, ok, t)
  \/ \E j \in Jobs : claimedBy[j] # NoWorker /\ FailAttempt(j)
  \/ \E j \in Jobs : cancelReq[j] /\ MarkCancelled(j)
  \/ \E j \in Jobs : RequeueJob(j) \/ LeaseExpires(j)
  \/ ReapExpiredLeases
  \/ BlockOpenOrders
  \/ ClearOrderBlocks
  \/ \E c \in Caps, b \in Budgets : UpdateEntitlements(c, b)
  \/ DayRolls

Spec == Init /\ [][Next]_vars

-----------------------------------------------------------------------------
(* What every sequence of calls preserves.                                 *)

\* A running row holds a lease and no other row does: no update trips the
\* jobs_lease_matches_state CHECK of sql/002, which would abort its
\* transaction half way through a reap or a cancel.
LeaseMatchesState == \A j \in Jobs : jstate[j] = "running" <=> lease[j] # "null"

\* The retry budget is the row's: no job is ever on more than max_attempts, a
\* claimable job has an attempt left, a running one is on one of them, and a job
\* is dead only at the budget.  Claim, failAttempt, the reaper and requeue each
\* write one side of it.
RetryBudget ==
  \A j \in Jobs :
    /\ attempts[j] <= MaxAttempts
    /\ jstate[j] = "pending" => attempts[j] < MaxAttempts
    /\ jstate[j] = "running" => attempts[j] > 0
    /\ jstate[j] = "dead" => attempts[j] = MaxAttempts

\* A job is never reported answered without the answer it reports and its bill,
\* and there is no bill without an answer (finishJob's one transaction), through
\* reruns, requeues and late failures.
AnsweredIsBilled ==
  \A j \in Jobs :
    /\ jstate[j] = "succeeded" => result[j] = "ok"
    /\ jstate[j] = "failed" => result[j] = "invalid"
    /\ result[j] # "none" <=> billed[j] # "never"

CancelRequestedInCancelled ==
  \A j \in Jobs : cancelReq[j] => ostate[OrderOf[j]] = "cancelled"

OpenOrderHasWork ==
  \A o \in Orders : ostate[o] = "open" =>
    \E j \in JobsOf(o) : jstate[j] \in {"pending", "running"}

\* An order's state is true of its items.  None is left open with nothing to run:
\* whichever call retires the last job (an answer, a death by transport or by
\* lease) closes it.  And only a cancelled one has jobs that were asked to stop,
\* whatever is requeued or answered afterwards: markCancelled closes no order.
OrderStateIsTrue == OpenOrderHasWork /\ CancelRequestedInCancelled

\* How far a day may overspend (limits.ts: "a runner that never asked still cannot
\* overspend"; a job already running is billed even past the budget): the day's
\* bills and what the running jobs can still add to them stay below the largest
\* budget and one answer for each job of the largest cap, through answers, reruns
\* that replace a bill, midnights and limits lowered under running work.
SpendIsBounded ==
  LET committed == UsedToday + Cardinality(Running) * MaxTokens
  IN committed > 0 => \E c \in Caps, b \in Budgets : committed < b + c * MaxTokens

\* A claim (claimJobs) never takes the tenant past its concurrency cap and never
\* starts anything once the day's spend has reached the budget, as both stand
\* when the claim runs; lowering them strands no claim in between.
ClaimsWithinEntitlements ==
  [][Running' \ Running # {} =>
       Cardinality(Running') <= cap /\ UsedToday < budget]_vars

\* How an order may move: it closes only with nothing left pending or running, it
\* reopens only with a dead or failed job put back to pending, and nothing moves
\* it out of cancelled (closeOrderIfComplete, requeueJob, cancelOrder).
OrderMoves ==
  [][\A o \in Orders : ostate'[o] # ostate[o] =>
       \/ ostate[o] = "none" /\ ostate'[o] = "open"
       \/ ostate'[o] = "cancelled"
       \/ /\ ostate[o] = "open" /\ ostate'[o] = "done"
          /\ \A j \in JobsOf(o) : jstate'[j] \notin {"pending", "running"}
       \/ /\ ostate[o] = "done" /\ ostate'[o] = "open"
          /\ \E j \in JobsOf(o) : jstate[j] \in {"dead", "failed"} /\ jstate'[j] = "pending"]_vars
=============================================================================
