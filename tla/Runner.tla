------------------------------- MODULE Runner -------------------------------
(***************************************************************************)
(* The processes that work the queue of JobQueue.tla for one tenant, while *)
(* the tenant submits, cancels and requeues and the operator edits limits. *)
(*                                                                         *)
(* A worker repeats runOnce: reap, read the budget, stamp or clear the     *)
(* blocked orders, claim a batch, then take the batch job by job: one beat *)
(* before the model call, beats during it, and one transaction that        *)
(* settles the job.  Each of these is a transaction of its own, so a step  *)
(* of anyone else may fall between any two of them, and what the worker    *)
(* read (the budget, the batch, the beats' replies) may be stale when it   *)
(* acts on it.  Heartbeat.stop() awaits the beat in flight before the job  *)
(* is settled, so no beat falls between the answer and the settling.       *)
(***************************************************************************)
EXTENDS JobQueue, Sequences

CONSTANTS
  Workers,      \* processes running the loop, or a drain, for this tenant
  WorkerId,     \* the workerId each one is configured with
  MaxCrashes,   \* how many ticks are cut short over a behaviour
  MaxRequeues   \* how many times the tenant requeues over a behaviour

ASSUME RunnersAssumption ==
  /\ WorkerId \in [Workers -> WorkerIds]
  /\ MaxCrashes \in Nat /\ MaxRequeues \in Nat

VARIABLES
  pc,        \* where in its tick each worker is
  batch,     \* the jobs its claim returned and it has not settled, in order
  heard,     \* what the beats of the current job said besides "renewed"
  claimant,  \* history: the process whose claim took each job last
  crashes,   \* history: ticks cut short so far
  requeues   \* history: requeues so far

workerVars == <<pc, batch, heard>>
history == <<claimant, crashes, requeues>>
runnerVars == <<vars, workerVars, history>>

Held(p) == {batch[p][i] : i \in 1..Len(batch[p])}
Current(p) == Head(batch[p])

\* A worker has a batch exactly while it is running jobs.
RunnerTypeOK ==
  /\ pc \in [Workers -> {"idle", "budget", "block", "clear", "claim", "beat", "model"}]
  /\ batch \in [Workers -> Seq(Jobs)]
  /\ heard \in [Workers -> SUBSET {"lost", "cancel-requested"}]
  /\ \A p \in Workers :
       /\ pc[p] \in {"beat", "model"} <=> batch[p] # <<>>
       /\ heard[p] # {} => pc[p] = "model"
  /\ claimant \in [Jobs -> Workers \cup {NoWorker}]
  /\ crashes \in 0..MaxCrashes
  /\ requeues \in 0..MaxRequeues

-----------------------------------------------------------------------------
(* How a worker moves through its tick.                                    *)

Goto(p, l) ==
  /\ pc' = [pc EXCEPT ![p] = l]
  /\ UNCHANGED <<batch, heard, history>>

\* Mutant: what the beats said outlives the job they said it of.
NextJobStillHearing(p) ==
  /\ batch' = [batch EXCEPT ![p] = Tail(@)]
  /\ pc' = [pc EXCEPT ![p] = IF Tail(batch[p]) = <<>> THEN "idle" ELSE "beat"]
  /\ UNCHANGED <<heard, history>>

\* runClaimedJob returns: the loop takes the batch's next job.
NextJob(p) ==
  /\ batch' = [batch EXCEPT ![p] = Tail(@)]
  /\ pc' = [pc EXCEPT ![p] = IF Tail(batch[p]) = <<>> THEN "idle" ELSE "beat"]
  /\ heard' = [heard EXCEPT ![p] = {}]
  /\ UNCHANGED history

\* runOnce rejects: sweepOnce reports the error and the batch is forgotten.
Drop(p) ==
  /\ pc' = [pc EXCEPT ![p] = "idle"]
  /\ batch' = [batch EXCEPT ![p] = <<>>]
  /\ heard' = [heard EXCEPT ![p] = {}]

\* Mutant: a tick that does not reap.
StartTickNoReap(p) == pc[p] = "idle" /\ Goto(p, "budget") /\ UNCHANGED vars

StartTick(p) ==
  /\ pc[p] = "idle"
  /\ ReapExpiredLeases \/ (ExpiredJobs = {} /\ UNCHANGED vars)
  /\ Goto(p, "budget")

ReadBudget(p) ==
  /\ pc[p] = "budget"
  /\ Goto(p, IF Exhausted THEN "block" ELSE "clear")
  /\ UNCHANGED vars

BlockTick(p) == pc[p] = "block" /\ BlockOpenOrders /\ Goto(p, "idle")
ClearTick(p) == pc[p] = "clear" /\ ClearOrderBlocks /\ Goto(p, "claim")

\* The claim's RETURNING rows, sorted as the candidates were.
InClaimOrder(q, S) ==
  /\ q \in [1..Cardinality(S) -> S]
  /\ \A m, n \in DOMAIN q : m < n => runAt[q[m]] < runAt[q[n]]

ClaimTick(p) ==
  /\ pc[p] = "claim"
  /\ \/ /\ Candidates({})
        /\ Goto(p, "idle")
        /\ UNCHANGED vars
     \/ \E S \in SUBSET Jobs : \E q \in [1..Cardinality(S) -> S] :
          /\ InClaimOrder(q, S)
          /\ ClaimJobs(WorkerId[p], S)
          /\ batch' = [batch EXCEPT ![p] = q]
          /\ pc' = [pc EXCEPT ![p] = "beat"]
          /\ claimant' = Set(claimant, S, p)
          /\ UNCHANGED <<heard, crashes, requeues>>

-----------------------------------------------------------------------------
(* One claimed job.                                                        *)

Reply(p) == HeartbeatReply(Current(p), WorkerId[p])
News(p) == {Reply(p)} \ {"renewed"}
Beat(p) == Heartbeat(Current(p), WorkerId[p])

StartModel(p, said) ==
  /\ pc' = [pc EXCEPT ![p] = "model"]
  /\ heard' = [heard EXCEPT ![p] = said]
  /\ UNCHANGED <<batch, history>>

\* The beat before the first token: lost walks away, and a beat that throws
\* counts as renewed.
FirstBeat(p) ==
  /\ pc[p] = "beat"
  /\ \/ Reply(p) = "lost" /\ NextJob(p) /\ UNCHANGED vars
     \/ Beat(p) /\ StartModel(p, News(p))
     \/ StartModel(p, {}) /\ UNCHANGED vars

\* A beat while the model call is in flight; one that throws changes nothing.
Pulse(p) ==
  /\ pc[p] = "model"
  /\ Beat(p) \/ (Reply(p) = "lost" /\ UNCHANGED vars)
  /\ heard' = [heard EXCEPT ![p] = @ \cup News(p)]
  /\ UNCHANGED <<pc, batch, history>>

\* Mutant: any bad news counts as a cancel.
SettleCancelledOnAny(p) ==
  /\ pc[p] = "model" /\ heard[p] # {}
  /\ MarkCancelled(Current(p)) \/ (jstate[Current(p)] # "running" /\ UNCHANGED vars)
  /\ NextJob(p)

\* A cancel heard outranks whatever the call returned.
SettleCancelled(p) ==
  /\ pc[p] = "model" /\ "cancel-requested" \in heard[p]
  /\ MarkCancelled(Current(p)) \/ (jstate[Current(p)] # "running" /\ UNCHANGED vars)
  /\ NextJob(p)

SettleAbandoned(p) ==
  /\ pc[p] = "model" /\ heard[p] = {"lost"}
  /\ NextJob(p)
  /\ UNCHANGED vars

\* The gateway failed: transport, timeout or a bad response.
SettleFailed(p) ==
  /\ pc[p] = "model" /\ heard[p] = {}
  /\ FailAttempt(Current(p))
  /\ NextJob(p)

SettleFinished(p, ok, t) ==
  /\ pc[p] = "model" /\ heard[p] = {}
  /\ FinishJob(Current(p), ok, t)
  /\ NextJob(p)

\* The model answered for a job that no longer runs: JobNotRunningError leaves
\* runClaimedJob, and with it the rest of the batch.
FinishThrows(p) ==
  /\ pc[p] = "model" /\ heard[p] = {}
  /\ jstate[Current(p)] # "running"
  /\ Drop(p)
  /\ UNCHANGED <<vars, history>>

\* The process dies, or something of its tick throws what nothing catches: a
\* transaction that does not commit, a definition that does not load, an answer
\* whose body breaks off (not a GatewayError, so the runner throws it on).
TickThrows(p) ==
  /\ pc[p] # "idle" /\ crashes < MaxCrashes
  /\ Drop(p)
  /\ crashes' = crashes + 1
  /\ UNCHANGED <<vars, claimant, requeues>>

-----------------------------------------------------------------------------
Settle(p) ==
  \/ SettleCancelled(p)
  \/ SettleAbandoned(p)
  \/ SettleFailed(p)
  \/ \E ok \in BOOLEAN, t \in 0..MaxTokens : SettleFinished(p, ok, t)
  \/ FinishThrows(p)

\* What a live process always gets round to.
Work(p) ==
  \/ StartTick(p)
  \/ ReadBudget(p)
  \/ BlockTick(p)
  \/ ClearTick(p)
  \/ ClaimTick(p)
  \/ FirstBeat(p)
  \/ Settle(p)

RequeueOnce(j) ==
  /\ requeues < MaxRequeues
  /\ RequeueJob(j)
  /\ requeues' = requeues + 1
  /\ UNCHANGED <<workerVars, claimant, crashes>>

\* The tenant, the operator and the clock.
Others ==
  /\ \/ \E o \in Orders : EnqueueOrder(o) \/ CancelOrder(o)
     \/ \E c \in Caps, b \in Budgets : UpdateEntitlements(c, b)
     \/ \E j \in Jobs : LeaseExpires(j)
     \/ DayRolls
  /\ UNCHANGED <<workerVars, history>>

RunnerInit ==
  /\ Init
  /\ pc = [p \in Workers |-> "idle"]
  /\ batch = [p \in Workers |-> <<>>]
  /\ heard = [p \in Workers |-> {}]
  /\ claimant = [j \in Jobs |-> NoWorker]
  /\ crashes = 0
  /\ requeues = 0

RunnerNext ==
  \/ \E p \in Workers : Work(p) \/ Pulse(p) \/ TickThrows(p)
  \/ \E j \in Jobs : RequeueOnce(j)
  \/ Others

RunnerSpec == RunnerInit /\ [][RunnerNext]_runnerVars

\* The loop's timer ticks for ever and a gateway call ends: before the headers by
\* its own timeout, in the body because the gateway or the network ends it.  Time
\* passes, so a lease nobody renews runs out and days end.
Fairness ==
  /\ \A p \in Workers : WF_runnerVars(Work(p))
  /\ \A j \in Jobs : WF_runnerVars(Others /\ LeaseExpires(j))
  /\ WF_runnerVars(Others /\ DayRolls)

FairRunnerSpec == RunnerSpec /\ Fairness

-----------------------------------------------------------------------------
(* What one worker process gives a tenant.                                 *)

\* With nobody else to reap its leases, a worker's batch is its own until it
\* settles it, however long a call takes and whatever is cancelled meanwhile, so
\* no answer is ever thrown away (FinishThrows); and unless a tick was cut
\* short, no running job is without a worker that will settle it.
HeldIsRunning ==
  /\ \A p \in Workers : \A j \in Held(p) :
       jstate[j] = "running" /\ claimedBy[j] = WorkerId[p]
  /\ crashes = 0 => Running \subseteq UNION {Held(p) : p \in Workers}

\* "An order is done when nothing is left to run in it": it is not reported
\* done while an item of it waits or runs, and nothing resurrects one later.
DoneIsQuiet ==
  \A o \in Orders : ostate[o] = "done" =>
    \A j \in JobsOf(o) : jstate[j] \notin {"pending", "running"}

Promise ==
  INSTANCE OrderPromise WITH
    state <- ostate,
    left <- [o \in Orders |-> \E j \in JobsOf(o) : jstate[j] \in {"pending", "running"}]

\* What a tenant reads of an order is what the order is: every step of the worker,
\* the tenant, the operator and the clock moves each order as OrderPromise.tla
\* allows, or not at all.
KeepsPromise == Promise!Spec

\* A settled job stays settled: an answer or a cancel is final, and only a
\* requeue, with a fresh budget, brings a dead or failed job back.
SettledStays ==
  [][\A j \in Jobs : jstate'[j] # jstate[j] =>
       /\ jstate[j] \notin {"succeeded", "cancelled"}
       /\ jstate[j] \in {"dead", "failed"} =>
            jstate'[j] = "pending" /\ attempts'[j] = 0 /\ requeues' = requeues + 1]_runnerVars

\* Every order a tenant submits is finished or cancelled in the end, through
\* transport failures, crashed ticks, spent budgets and requeues.
OrdersSettle ==
  \A o \in Orders : ostate[o] = "open" ~> ostate[o] # "open"

\* A cancel takes hold: every item of a cancelled order stops, the running ones
\* by being aborted, answered or retired, even when the worker that should
\* have heard the request crashed.
CancelSettles ==
  \A o \in Orders : ostate[o] = "cancelled" ~>
    \A j \in JobsOf(o) : jstate[j] \notin {"pending", "running"}

\* An order stamped "budget exhausted" loses the stamp once a new day's budget
\* lets the worker past its check, be it cancelled or done by then.
BlocksLift == \A o \in Orders : blocked[o] ~> ~blocked[o]

-----------------------------------------------------------------------------
(* What several processes still guarantee, or are said to.                 *)

\* A worker whose lease was reaped and whose job was claimed again is told
\* "lost" (heartbeat): a lease that has run out is brought back to life only by
\* the process that claimed the job last, at work on that job.
RenewedByClaimant ==
  [][\A j \in Jobs : lease[j] = "expired" /\ lease'[j] = "live" =>
       batch[claimant[j]] # <<>> /\ Current(claimant[j]) = j]_runnerVars

\* "The order goes to cancelled either way, so nothing new is claimed."
CancelledIsNotClaimed ==
  [][\A j \in Jobs : ostate[OrderOf[j]] = "cancelled" /\ jstate[j] # "running" =>
       jstate'[j] # "running"]_runnerVars

\* "Every claimed job lands in exactly one of these buckets": as long as ticks
\* are not cut short, a batch is left one settled job at a time.
BatchIsSettled ==
  [][\A p \in Workers : crashes' = crashes =>
       batch[p] = <<>> \/ batch'[p] \in {batch[p], Tail(batch[p])}]_runnerVars
=============================================================================
