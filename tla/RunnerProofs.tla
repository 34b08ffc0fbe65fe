---------------------------- MODULE RunnerProofs ----------------------------
(***************************************************************************)
(* Whatever number of processes work the queue, with whatever ids, crashes *)
(* and stale reads, the rows go through nothing that JobQueue does not     *)
(* allow: the runner implements JobQueue!Spec, and so inherits every       *)
(* theorem of JobQueueProofs.  Two facts about stale workers carry it: a   *)
(* job in a batch was claimed once, and a cancel heard was really          *)
(* requested.  Both last because nothing clears claimed_by or              *)
(* cancel_requested_at.  The last part is about one process alone.         *)
(***************************************************************************)
EXTENDS Runner, JobQueueProofs, SequenceTheorems, FunctionTheorems

HeldWasClaimed ==
  \A p \in Workers : \A i \in 1..Len(batch[p]) : claimedBy[batch[p][i]] # NoWorker

CancelHeard ==
  \A p \in Workers : "cancel-requested" \in heard[p] => cancelReq[Current(p)]

RInv == ColumnTypes /\ RunnerTypeOK /\ HeldWasClaimed /\ CancelHeard

-----------------------------------------------------------------------------
(* The rows.                                                               *)

\* A worker settles a job it holds, so one that was claimed; it marks one
\* cancelled only when the row asked for it.
LEMMA QueueStep == RInv /\ [RunnerNext]_runnerVars => [Next]_vars
<1> SUFFICES ASSUME RInv, [RunnerNext]_runnerVars PROVE [Next]_vars
  OBVIOUS
<1> USE RunnersAssumption
<1>1. ASSUME NEW p \in Workers, pc[p] \in {"beat", "model"}
      PROVE  /\ Current(p) \in Jobs /\ WorkerId[p] \in WorkerIds
             /\ claimedBy[Current(p)] # NoWorker
             /\ "cancel-requested" \in heard[p] => cancelReq[Current(p)]
  <2>1. batch[p] \in Seq(Jobs) /\ batch[p] # <<>>
    BY <1>1 DEF RInv, RunnerTypeOK
  <2>2. Current(p) \in Jobs /\ 1 \in 1..Len(batch[p]) /\ Current(p) = batch[p][1]
    BY <2>1 DEF Current
  <2>3. QED
    BY <2>2 DEF RInv, HeldWasClaimed, CancelHeard
<1>2. ASSUME NEW p \in Workers, StartTick(p) \/ ReadBudget(p) \/ BlockTick(p) \/ ClearTick(p)
      PROVE  [Next]_vars
  BY <1>2 DEF StartTick, ReadBudget, BlockTick, ClearTick, Next
<1>3. ASSUME NEW p \in Workers, ClaimTick(p) PROVE [Next]_vars
  BY <1>3 DEF ClaimTick, Next
<1>4. ASSUME NEW p \in Workers, FirstBeat(p) \/ Pulse(p) PROVE [Next]_vars
  BY <1>1, <1>4 DEF FirstBeat, Pulse, Beat, Next
<1>5. ASSUME NEW p \in Workers, SettleCancelled(p) PROVE [Next]_vars
  BY <1>1, <1>5 DEF SettleCancelled, Next
<1>6. ASSUME NEW p \in Workers, SettleFailed(p) PROVE [Next]_vars
  BY <1>1, <1>6 DEF SettleFailed, Next
<1>7. ASSUME NEW p \in Workers, NEW ok \in BOOLEAN, NEW t \in 0..MaxTokens, SettleFinished(p, ok, t)
      PROVE  [Next]_vars
  BY <1>1, <1>7 DEF SettleFinished, Next
<1>8. ASSUME NEW p \in Workers, SettleAbandoned(p) \/ FinishThrows(p) \/ TickThrows(p)
      PROVE  [Next]_vars
  BY <1>8 DEF SettleAbandoned, FinishThrows, TickThrows
<1>9. ASSUME NEW j \in Jobs, RequeueOnce(j) PROVE [Next]_vars
  BY <1>9 DEF RequeueOnce, Next
<1>10. CASE Others
  BY <1>10 DEF Others, Next
<1>11. CASE UNCHANGED runnerVars
  BY <1>11 DEF runnerVars
<1>12. QED
  BY <1>2, <1>3, <1>4, <1>5, <1>6, <1>7, <1>8, <1>9, <1>10, <1>11
  DEF RunnerNext, Work, Settle

\* No queue call takes a claimant's name or a cancel request off a row.
LEMMA RowsRemember ==
  ASSUME ColumnTypes, [Next]_vars, NEW j \in Jobs
  PROVE  /\ claimedBy[j] # NoWorker => claimedBy'[j] # NoWorker
         /\ cancelReq[j] => cancelReq'[j]
<1> USE WorkersAssumption DEF ColumnTypes
<1>1. ASSUME NEW w \in WorkerIds, NEW S \in SUBSET Jobs, ClaimJobs(w, S)
      PROVE  (claimedBy[j] # NoWorker => claimedBy'[j] # NoWorker) /\ cancelReq' = cancelReq
  BY <1>1 DEF ClaimJobs, Set
<1>2. ASSUME NEW o \in Orders, CancelOrder(o)
      PROVE  claimedBy' = claimedBy /\ (cancelReq[j] => cancelReq'[j])
  <2>1. cancelReq' = Set(cancelReq, JobsOf(o) \cap Running, TRUE) /\ claimedBy' = claimedBy
    BY <1>2 DEF CancelOrder
  <2>2. cancelReq[j] => Set(cancelReq, JobsOf(o) \cap Running, TRUE)[j]
    BY Zenon DEF Set
  <2>3. QED
    BY <2>1, <2>2
<1>3. ASSUME [Next]_vars, ~\E w \in WorkerIds, S \in SUBSET Jobs : ClaimJobs(w, S),
             ~\E o \in Orders : CancelOrder(o)
      PROVE  UNCHANGED <<claimedBy, cancelReq>>
  BY <1>3
  DEF Next, EnqueueOrder, Heartbeat, FinishJob, FailAttempt, MarkCancelled, RequeueJob,
      LeaseExpires, ReapExpiredLeases, FailAttempts, BlockOpenOrders, ClearOrderBlocks,
      UpdateEntitlements, DayRolls, vars, jobVars
<1>4. QED
  BY <1>1, <1>2, <1>3

-----------------------------------------------------------------------------
(* The workers.                                                            *)

\* The rows of a claim form a non-empty sequence of the jobs it took.
LEMMA BatchIsSeq ==
  ASSUME NEW w \in WorkerIds, NEW S \in SUBSET Jobs, ClaimJobs(w, S),
         NEW q \in [1..Cardinality(S) -> S]
  PROVE  /\ q \in Seq(Jobs) /\ q # <<>>
         /\ Len(q) = Cardinality(S) /\ \A i \in 1..Len(q) : q[i] \in S
<1>1. IsFiniteSet(S) /\ S # {}
  BY JobsAssumption, FS_Subset DEF ClaimJobs
<1>2. Cardinality(S) \in Nat /\ Cardinality(S) # 0
  BY <1>1, FS_CardinalityType, FS_EmptySet
<1> HIDE DEF ClaimJobs
<1>3. QED
  BY <1>2, SeqDef

\* The kinds of step a worker makes of its own state.
StaysOutside(p) ==
  pc[p] \notin {"beat", "model"}
  /\ \E l \in {"idle", "budget", "block", "clear", "claim"} : Goto(p, l)
TakesBatchOf(p, S, q) ==
  /\ pc[p] = "claim" /\ ClaimJobs(WorkerId[p], S)
  /\ batch' = [batch EXCEPT ![p] = q]
  /\ pc' = [pc EXCEPT ![p] = "beat"]
  /\ heard' = heard
  /\ claimant' = Set(claimant, S, p) /\ UNCHANGED <<crashes, requeues>>
TakesBatch(p) ==
  \E S \in SUBSET Jobs : \E q \in [1..Cardinality(S) -> S] : TakesBatchOf(p, S, q)
Hears(p) ==
  /\ pc[p] \in {"beat", "model"}
  /\ pc' = [pc EXCEPT ![p] = "model"] /\ UNCHANGED <<batch, history>>
  /\ \E said \in SUBSET {"lost", "cancel-requested"} :
       /\ heard' = [heard EXCEPT ![p] = said]
       /\ "cancel-requested" \in said => "cancel-requested" \in heard[p] \/ cancelReq[Current(p)]
LetsGo(p) == pc[p] \in {"beat", "model"} /\ NextJob(p)
Forgets(p) ==
  /\ Drop(p) /\ UNCHANGED <<claimant, requeues>>
  /\ crashes' = crashes \/ (crashes < MaxCrashes /\ crashes' = crashes + 1)
Elsewhere ==
  /\ UNCHANGED <<workerVars, claimant, crashes>>
  /\ requeues' = requeues \/ (requeues < MaxRequeues /\ requeues' = requeues + 1)

\* Every step is one process's doing, of five kinds, or none of theirs.
LEMMA WorkerSteps ==
  ASSUME RInv, [RunnerNext]_runnerVars
  PROVE  \/ Elsewhere
         \/ \E p \in Workers :
              StaysOutside(p) \/ TakesBatch(p) \/ Hears(p) \/ LetsGo(p) \/ Forgets(p)
<1>1. ASSUME NEW p \in Workers, StartTick(p) \/ ReadBudget(p) \/ BlockTick(p) \/ ClearTick(p)
      PROVE  StaysOutside(p)
  BY <1>1 DEF StartTick, ReadBudget, BlockTick, ClearTick, StaysOutside
<1>2. ASSUME NEW p \in Workers, ClaimTick(p) PROVE StaysOutside(p) \/ TakesBatch(p)
  BY <1>2 DEF ClaimTick, StaysOutside, TakesBatch, TakesBatchOf
<1>3. ASSUME NEW p \in Workers
      PROVE  /\ News(p) \in SUBSET {"lost", "cancel-requested"}
             /\ "cancel-requested" \in News(p) => cancelReq[Current(p)]
  BY DEF News, Reply, HeartbeatReply
<1>4. ASSUME NEW p \in Workers, FirstBeat(p) PROVE Hears(p) \/ LetsGo(p)
  <2>1. CASE NextJob(p)
    BY <1>4, <2>1 DEF FirstBeat, LetsGo
  <2>2. CASE StartModel(p, News(p)) \/ StartModel(p, {})
    BY <1>3, <1>4, <2>2 DEF FirstBeat, StartModel, Hears
  <2>3. QED
    BY <1>4, <2>1, <2>2 DEF FirstBeat
<1>5. ASSUME NEW p \in Workers, Pulse(p) PROVE Hears(p)
  <2>1. heard \in [Workers -> SUBSET {"lost", "cancel-requested"}] /\ pc' = pc
    BY <1>5 DEF RInv, RunnerTypeOK, Pulse
  <2>2. heard' = [heard EXCEPT ![p] = heard[p] \cup News(p)] /\ pc[p] = "model"
    BY <1>5 DEF Pulse
  <2>3. pc' = [pc EXCEPT ![p] = "model"]
    BY <2>1, <2>2 DEF RInv, RunnerTypeOK
  <2>4. heard[p] \cup News(p) \in SUBSET {"lost", "cancel-requested"}
    BY <1>3, <2>1
  <2>5. QED
    BY <1>3, <1>5, <2>2, <2>3, <2>4 DEF Pulse, Hears
<1>6. ASSUME NEW p \in Workers,
             \/ SettleCancelled(p) \/ SettleAbandoned(p) \/ SettleFailed(p)
             \/ \E ok \in BOOLEAN, t \in 0..MaxTokens : SettleFinished(p, ok, t)
      PROVE  LetsGo(p)
  BY <1>6 DEF SettleCancelled, SettleAbandoned, SettleFailed, SettleFinished, LetsGo
<1>7. ASSUME NEW p \in Workers, FinishThrows(p) \/ TickThrows(p) PROVE Forgets(p)
  BY <1>7 DEF FinishThrows, TickThrows, Forgets, history
<1>8. ASSUME \/ \E j \in Jobs : RequeueOnce(j)
             \/ Others
             \/ UNCHANGED runnerVars
      PROVE  Elsewhere
  BY <1>8 DEF RequeueOnce, Others, Elsewhere, runnerVars, history
<1>9. QED
  BY <1>1, <1>2, <1>4, <1>5, <1>6, <1>7, <1>8 DEF RunnerNext, Work, Settle

\* Each kind of step keeps what the processes hold within its type.
LEMMA WorkerTypesStep ==
  ASSUME RInv, [RunnerNext]_runnerVars
  PROVE  RunnerTypeOK'
<1> USE RunnersAssumption
<1> USE DEF RunnerTypeOK, history, workerVars
<1>1. RunnerTypeOK
  BY DEF RInv
<1>2. ASSUME NEW p \in Workers, StaysOutside(p) PROVE RunnerTypeOK'
  BY <1>1, <1>2 DEF StaysOutside, Goto
<1>3. ASSUME NEW p \in Workers, TakesBatch(p) PROVE RunnerTypeOK'
  <2>1. PICK S \in SUBSET Jobs : \E q \in [1..Cardinality(S) -> S] : TakesBatchOf(p, S, q)
    BY <1>3 DEF TakesBatch
  <2>2. PICK q \in [1..Cardinality(S) -> S] : TakesBatchOf(p, S, q)
    BY <2>1
  <2>3. q \in Seq(Jobs) /\ q # <<>>
    BY <2>2, BatchIsSeq DEF TakesBatchOf
  <2>4. claimant' \in [Jobs -> Workers \cup {NoWorker}]
    BY <1>1, <2>2 DEF TakesBatchOf, Set
  <2>5. QED
    BY <1>1, <2>2, <2>3, <2>4 DEF TakesBatchOf
<1>4. ASSUME NEW p \in Workers, Hears(p) PROVE RunnerTypeOK'
  BY <1>1, <1>4 DEF Hears
<1>5. ASSUME NEW p \in Workers, LetsGo(p) PROVE RunnerTypeOK'
  <2>1. Tail(batch[p]) \in Seq(Jobs)
    BY <1>1, <1>5, HeadTailProperties DEF LetsGo
  <2>2. QED
    BY <1>1, <1>5, <2>1 DEF LetsGo, NextJob
<1>6. ASSUME NEW p \in Workers, Forgets(p) PROVE RunnerTypeOK'
  BY <1>1, <1>6 DEF Forgets, Drop
<1>7. CASE Elsewhere
  BY <1>1, <1>7 DEF Elsewhere
<1>8. QED
  BY <1>2, <1>3, <1>4, <1>5, <1>6, <1>7, WorkerSteps

\* A batch only ever holds jobs a claim returned, and rows keep claimed_by.
LEMMA HeldWasClaimedStep ==
  ASSUME RInv, [RunnerNext]_runnerVars, RunnerTypeOK'
  PROVE  HeldWasClaimed'
<1>1. \A j \in Jobs : claimedBy[j] # NoWorker => claimedBy'[j] # NoWorker
  BY QueueStep, RowsRemember DEF RInv
<1>2. batch \in [Workers -> Seq(Jobs)]
  BY DEF RInv, RunnerTypeOK
<1>3. SUFFICES ASSUME NEW r \in Workers, NEW i \in 1..Len(batch'[r])
               PROVE  claimedBy'[batch'[r][i]] # NoWorker
  BY DEF HeldWasClaimed
<1>4. CASE batch'[r] = batch[r]
  BY <1>1, <1>2, <1>4, ElementOfSeq DEF RInv, HeldWasClaimed
<1>5. CASE batch'[r] = Tail(batch[r]) /\ batch[r] # <<>>
  <2>1. i + 1 \in 1..Len(batch[r]) /\ batch'[r][i] = batch[r][i + 1]
    BY <1>2, <1>5, HeadTailProperties
  <2>2. QED
    BY <1>1, <1>2, <2>1, ElementOfSeq DEF RInv, HeldWasClaimed
<1>6. CASE batch'[r] = <<>>
  BY <1>6
<1>7. ASSUME NEW p \in Workers, TakesBatch(p) PROVE claimedBy'[batch'[r][i]] # NoWorker
  <2>a. PICK S \in SUBSET Jobs : \E q \in [1..Cardinality(S) -> S] : TakesBatchOf(p, S, q)
    BY <1>7 DEF TakesBatch
  <2>b. PICK q \in [1..Cardinality(S) -> S] : TakesBatchOf(p, S, q)
    BY <2>a
  <2>1. ClaimJobs(WorkerId[p], S) /\ batch' = [batch EXCEPT ![p] = q]
    BY <2>b DEF TakesBatchOf
  <2>2. CASE r = p
    <3>1. batch'[r] = q
      BY <1>2, <2>1, <2>2
    <3>2. q[i] \in S
      BY <1>3, <2>1, <3>1, BatchIsSeq, RunnersAssumption
    <3>3. claimedBy'[q[i]] = WorkerId[p]
      BY <2>1, <3>2 DEF ClaimJobs, Set, RInv, ColumnTypes
    <3>4. QED
      BY <3>1, <3>3, RunnersAssumption, WorkersAssumption
  <2>3. CASE r # p
    BY <1>2, <1>4, <2>1, <2>3
  <2>4. QED
    BY <2>2, <2>3
<1>8. CASE ~\E p \in Workers : TakesBatch(p)
  <2>1. \/ batch'[r] = batch[r]
        \/ batch'[r] = Tail(batch[r]) /\ batch[r] # <<>>
        \/ batch'[r] = <<>>
    BY <1>2, <1>8, WorkerSteps
    DEF StaysOutside, Goto, Hears, LetsGo, NextJob, Forgets, Drop, Elsewhere, workerVars,
        RInv, RunnerTypeOK
  <2>2. QED
    BY <1>4, <1>5, <1>6, <2>1
<1>9. QED
  BY <1>7, <1>8

\* A worker hears of a cancel only from the row, and the row keeps saying so.
LEMMA CancelHeardStep ==
  ASSUME RInv, [RunnerNext]_runnerVars, RunnerTypeOK'
  PROVE  CancelHeard'
<1>1. \A j \in Jobs : cancelReq[j] => cancelReq'[j]
  BY QueueStep, RowsRemember DEF RInv
<1>2. /\ batch \in [Workers -> Seq(Jobs)] /\ heard \in [Workers -> SUBSET {"lost", "cancel-requested"}]
      /\ \A p \in Workers : heard[p] # {} => batch[p] # <<>>
      /\ \A p \in Workers : pc[p] \in {"beat", "model"} => batch[p] # <<>>
  BY DEF RInv, RunnerTypeOK
<1>3. SUFFICES ASSUME NEW r \in Workers, "cancel-requested" \in heard'[r]
               PROVE  cancelReq'[Head(batch'[r])]
  BY DEF CancelHeard, Current
<1>4. CASE "cancel-requested" \in heard[r] /\ batch'[r] = batch[r]
  <2>1. Head(batch[r]) \in Jobs
    BY <1>2, <1>4, HeadTailProperties
  <2>2. QED
    BY <1>1, <1>4, <2>1 DEF RInv, CancelHeard, Current
<1>5. CASE cancelReq[Head(batch[r])] /\ batch'[r] = batch[r] /\ batch[r] # <<>>
  <2>1. Head(batch[r]) \in Jobs
    BY <1>2, <1>5, HeadTailProperties
  <2>2. QED
    BY <1>1, <1>5, <2>1
<1>6. ASSUME NEW p \in Workers, TakesBatch(p) PROVE cancelReq'[Head(batch'[r])]
  <2>1. heard[p] = {} /\ heard' = heard
    BY <1>6 DEF TakesBatch, TakesBatchOf, RInv, RunnerTypeOK
  <2>2. batch'[r] = batch[r]
    BY <1>2, <1>3, <1>6, <2>1 DEF TakesBatch, TakesBatchOf
  <2>3. QED
    BY <1>3, <1>4, <2>1, <2>2
<1>7. ASSUME NEW p \in Workers, LetsGo(p) \/ Forgets(p) PROVE cancelReq'[Head(batch'[r])]
  <2>1. /\ heard' = [heard EXCEPT ![p] = {}]
        /\ \A s \in Workers : s # p => batch'[s] = batch[s]
    BY <1>2, <1>7 DEF LetsGo, NextJob, Forgets, Drop
  <2>2. r # p
    BY <1>2, <1>3, <2>1
  <2>3. QED
    BY <1>2, <1>3, <1>4, <2>1, <2>2
<1>8. ASSUME NEW p \in Workers, Hears(p) PROVE cancelReq'[Head(batch'[r])]
  <2>1. batch' = batch
    BY <1>8 DEF Hears
  <2>2. CASE r = p
    BY <1>2, <1>3, <1>4, <1>5, <1>8, <2>1, <2>2 DEF Hears, Current
  <2>3. CASE r # p
    BY <1>2, <1>3, <1>4, <1>8, <2>1, <2>3 DEF Hears
  <2>4. QED
    BY <2>2, <2>3
<1>9. ASSUME NEW p \in Workers, StaysOutside(p) PROVE cancelReq'[Head(batch'[r])]
  BY <1>3, <1>4, <1>9 DEF StaysOutside, Goto
<1>10. CASE Elsewhere
  BY <1>3, <1>4, <1>10 DEF Elsewhere, workerVars
<1>11. QED
  BY <1>6, <1>7, <1>8, <1>9, <1>10, WorkerSteps

\* Every step keeps the invariant of the processes.
LEMMA RInvStep == RInv /\ [RunnerNext]_runnerVars => RInv'
<1> SUFFICES ASSUME RInv, [RunnerNext]_runnerVars PROVE RInv'
  OBVIOUS
<1>1. ColumnTypes'
  BY QueueStep, TypesStep DEF RInv
<1>2. RunnerTypeOK'
  BY WorkerTypesStep
<1>3. QED
  BY <1>1, <1>2, HeldWasClaimedStep, CancelHeardStep DEF RInv

\* No process holds anything at first.
LEMMA RInvInit == RunnerInit => RInv
<1> SUFFICES ASSUME RunnerInit PROVE RInv
  OBVIOUS
<1>1. ColumnTypes
  BY InitInv DEF RunnerInit, IInv, TypeOK
<1>2. RunnerTypeOK
  BY RunnersAssumption DEF RunnerInit, RunnerTypeOK
<1>3. HeldWasClaimed /\ CancelHeard
  BY DEF RunnerInit, HeldWasClaimed, CancelHeard
<1>4. QED
  BY <1>1, <1>2, <1>3 DEF RInv

-----------------------------------------------------------------------------
\* What a process holds was claimed, and what it heard was asked for, through any
\* crashes and stale calls.
THEOREM RunnerInvariant == RunnerSpec => []RInv
BY RInvInit, RInvStep, PTL DEF RunnerSpec

\* A worker has a batch exactly while it runs jobs, and carries nothing its
\* beats said over to the next one.
THEOREM RunnerTypeCorrect == RunnerSpec => []RunnerTypeOK
BY RunnerInvariant, PTL DEF RInv

\* The runner implements the queue: every run of any number of workers, crashed,
\* stale or sharing an id, is a run of JobQueue.
THEOREM RunnerImplementsQueue == RunnerSpec => Spec
<1>1. RunnerInit => Init
  BY DEF RunnerInit
<1>2. QED
  BY <1>1, QueueStep, RunnerInvariant, PTL DEF RunnerSpec, Spec

\* So what the queue guarantees holds under the runner, and no worker leaves an
\* order open with nothing to run.
THEOREM RunnerKeepsQueueInvariant == RunnerSpec => []IInv
BY RunnerImplementsQueue, QueueInvariant, PTL

\* Nor do any number of workers overspend a day by more than the answers the cap
\* lets run, however many of them crash, share an id or never looked at the budget.
THEOREM RunnersSpendWithinBound == RunnerSpec => []SpendIsBounded
BY RunnerImplementsQueue, SpendStaysBounded, PTL

-----------------------------------------------------------------------------
(* Who renews a lease, when every process has an id of its own.            *)

OwnIds == \A p, q \in Workers : WorkerId[p] = WorkerId[q] => p = q

\* The name on a row is that of the process whose claim took it last.
NamedByClaimant ==
  \A j \in Jobs : claimedBy[j] # NoWorker =>
    claimant[j] \in Workers /\ claimedBy[j] = WorkerId[claimant[j]]

\* Only a claim writes a name on a row, and no step but a claim hands a job over.
LEMMA NamedByClaimantStep ==
  ASSUME RInv, NamedByClaimant, [RunnerNext]_runnerVars
  PROVE  NamedByClaimant'
<1> USE RunnersAssumption, WorkersAssumption
<1>1. ColumnTypes /\ RunnerTypeOK
  BY DEF RInv
<1>2. ASSUME NEW p \in Workers, NEW S \in SUBSET Jobs, ClaimJobs(WorkerId[p], S),
             claimant' = Set(claimant, S, p)
      PROVE  NamedByClaimant'
  <2>1. \A j \in Jobs : IF j \in S THEN claimedBy'[j] = WorkerId[p] /\ claimant'[j] = p
                                   ELSE claimedBy'[j] = claimedBy[j] /\ claimant'[j] = claimant[j]
    BY <1>1, <1>2 DEF ClaimJobs, Set, ColumnTypes, RunnerTypeOK
  <2>2. QED
    BY <2>1 DEF NamedByClaimant
<1>3. CASE UNCHANGED <<claimedBy, claimant>>
  BY <1>3 DEF NamedByClaimant
<1>4. ASSUME NEW p \in Workers,
             StartTick(p) \/ ReadBudget(p) \/ BlockTick(p) \/ ClearTick(p) \/ FirstBeat(p)
               \/ Pulse(p) \/ Settle(p) \/ TickThrows(p)
      PROVE  UNCHANGED <<claimedBy, claimant>>
  <2>1. CASE StartTick(p) \/ ReadBudget(p) \/ BlockTick(p) \/ ClearTick(p) \/ TickThrows(p)
    BY <2>1 DEF StartTick, ReadBudget, BlockTick, ClearTick, TickThrows, Goto, history,
       ReapExpiredLeases, FailAttempts, BlockOpenOrders, ClearOrderBlocks, vars, jobVars
  <2>2. CASE FirstBeat(p) \/ Pulse(p)
    BY <2>2 DEF FirstBeat, Pulse, StartModel, NextJob, Beat, Heartbeat, history, vars, jobVars
  <2>3. CASE Settle(p)
    BY <2>3 DEF Settle, SettleCancelled, SettleAbandoned, SettleFailed, SettleFinished,
       FinishThrows, NextJob, Drop, MarkCancelled, FailAttempt, FailAttempts, FinishJob, history,
       vars, jobVars
  <2>4. QED
    BY <1>4, <2>1, <2>2, <2>3
<1>5. ASSUME NEW p \in Workers, ClaimTick(p) PROVE NamedByClaimant'
  BY <1>2, <1>3, <1>5 DEF ClaimTick, Goto, history, vars, jobVars
<1>6. CASE (\E j \in Jobs : RequeueOnce(j)) \/ Others \/ UNCHANGED runnerVars
  BY <1>3, <1>6
  DEF RequeueOnce, RequeueJob, Others, EnqueueOrder, CancelOrder, UpdateEntitlements,
      LeaseExpires, DayRolls, runnerVars, history, vars, jobVars
<1>7. QED
  BY <1>3, <1>4, <1>5, <1>6 DEF RunnerNext, Work

\* A lease that ran out is brought back to life only by a beat of the process
\* that claimed the job last, at work on that job: a claim takes rows without
\* a lease, and a beat of anyone else is answered "lost".
THEOREM RenewalsAreTheClaimants ==
  ASSUME OwnIds
  PROVE  RunnerSpec => RenewedByClaimant
<1>1. RunnerInit => NamedByClaimant
  BY DEF RunnerInit, Init, NamedByClaimant
<1>2. ASSUME RInv, IInv, NamedByClaimant, RunnerNext, NEW j \in Jobs,
             lease[j] = "expired", lease'[j] = "live"
      PROVE  batch[claimant[j]] # <<>> /\ Current(claimant[j]) = j
  <2>1. /\ lease \in [Jobs -> {"null", "live", "expired"}]
        /\ jstate[j] = "running"
    BY <1>2 DEF RInv, ColumnTypes, IInv, LeaseMatchesState
  <2>2. ASSUME NEW w \in WorkerIds, NEW S \in SUBSET Jobs, ClaimJobs(w, S) PROVE FALSE
    BY <1>2, <2>1, <2>2 DEF ClaimJobs, Candidates, Pending, InState, Set
  <2>3. ASSUME NEW p \in Workers, pc[p] \in {"beat", "model"}, Beat(p)
        PROVE  batch[claimant[j]] # <<>> /\ Current(claimant[j]) = j
    <3>1. j = Current(p)
      BY <1>2, <2>1, <2>3 DEF Beat, Heartbeat
    <3>2. claimedBy[j] = WorkerId[p] /\ WorkerId[p] # NoWorker
      BY <2>3, <3>1, RunnersAssumption, WorkersAssumption DEF Beat, Heartbeat, HeartbeatReply
    <3>3. claimant[j] = p
      BY <1>2, <3>2 DEF NamedByClaimant, OwnIds
    <3>4. QED
      BY <1>2, <2>3, <3>1, <3>3 DEF RInv, RunnerTypeOK
  <2>4. CASE \E p \in Workers : pc[p] \in {"beat", "model"} /\ Beat(p)
    BY <2>3, <2>4
  <2>5. CASE ~\E p \in Workers : pc[p] \in {"beat", "model"} /\ Beat(p)
    <3>1. ASSUME NEW p \in Workers,
                 StartTick(p) \/ ReadBudget(p) \/ BlockTick(p) \/ ClearTick(p) \/ TickThrows(p)
          PROVE  FALSE
      BY <1>2, <2>1, <3>1 DEF StartTick, ReadBudget, BlockTick, ClearTick, TickThrows,
         ReapExpiredLeases, FailAttempts, Set, BlockOpenOrders, ClearOrderBlocks, vars, jobVars
    <3>2. ASSUME NEW p \in Workers, FirstBeat(p) \/ Pulse(p) PROVE FALSE
      BY <1>2, <2>5, <3>2 DEF FirstBeat, Pulse, vars, jobVars
    <3>3. ASSUME NEW p \in Workers, Settle(p) PROVE FALSE
      BY <1>2, <2>1, <3>3 DEF Settle, SettleCancelled, SettleAbandoned, SettleFailed,
         SettleFinished, FinishThrows, MarkCancelled, FailAttempt, FailAttempts, FinishJob, Set,
         vars, jobVars
    <3>4. ASSUME NEW p \in Workers, ClaimTick(p) PROVE FALSE
      BY <1>2, <2>2, <3>4, RunnersAssumption DEF ClaimTick, vars, jobVars
    <3>5. CASE (\E i \in Jobs : RequeueOnce(i)) \/ Others
      BY <1>2, <2>1, <3>5 DEF RequeueOnce, RequeueJob, Others, EnqueueOrder, CancelOrder, Set,
         UpdateEntitlements, LeaseExpires, DayRolls, jobVars
    <3>6. QED
      BY <1>2, <3>1, <3>2, <3>3, <3>4, <3>5 DEF RunnerNext, Work
  <2>6. QED
    BY <2>4, <2>5
<1>3. ASSUME RInv, IInv, NamedByClaimant, [RunnerNext]_runnerVars
      PROVE  [\A j \in Jobs : lease[j] = "expired" /\ lease'[j] = "live" =>
               batch[claimant[j]] # <<>> /\ Current(claimant[j]) = j]_runnerVars
  BY <1>2, <1>3
<1>4. QED
  BY <1>1, <1>3, NamedByClaimantStep, RunnerInvariant, RunnerKeepsQueueInvariant, PTL
  DEF RunnerSpec, RenewedByClaimant

-----------------------------------------------------------------------------
(* What a deployment with one runner process gives a tenant, for any       *)
(* number of orders and items, any batch size and any number of crashes    *)
(* and requeues.  Nobody else reaps its leases, and it reaps only when it  *)
(* holds nothing: so what it holds stays its own, its reports are never    *)
(* late, and the rows move as OrderPromise says.                           *)

\* One process, as the default deployment has.
SoleWorker == \A p, q \in Workers : p = q

-----------------------------------------------------------------------------
(* The invariant.  HeldIsRunning alone is not inductive: settling the head *)
(* of a batch must leave the rest running (NoRepeats), and a worker must   *)
(* never walk away from a job it was wrongly told it lost (NeverLost).     *)

OwnBatch ==
  \A p \in Workers : \A i \in 1..Len(batch[p]) :
    jstate[batch[p][i]] = "running" /\ claimedBy[batch[p][i]] = WorkerId[p]

NoRepeats ==
  \A p \in Workers : \A i, k \in 1..Len(batch[p]) : i # k => batch[p][i] # batch[p][k]

NeverLost == \A p \in Workers : "lost" \notin heard[p]

NoneForgotten ==
  crashes = 0 =>
    \A j \in Jobs : jstate[j] = "running" =>
      \E p \in Workers : \E i \in 1..Len(batch[p]) : batch[p][i] = j

BatchInv == OwnBatch /\ NoRepeats /\ NeverLost /\ NoneForgotten
SInv == RInv /\ IInv /\ BatchInv

\* The items of a tail are those behind the head.
LEMMA TailOf ==
  ASSUME NEW S, NEW s \in Seq(S), s # <<>>
  PROVE  /\ Len(Tail(s)) = Len(s) - 1 /\ Len(s) \in Nat \ {0} /\ Head(s) = s[1]
         /\ \A i \in 1..Len(Tail(s)) : i + 1 \in 1..Len(s) /\ Tail(s)[i] = s[i + 1]
         /\ \A i \in 1..Len(s) : i # 1 => i - 1 \in 1..Len(Tail(s)) /\ Tail(s)[i - 1] = s[i]
OBVIOUS

\* A worker at work has a current job, which is its own.
LEMMA CurrentIsOwn ==
  ASSUME RInv, OwnBatch, NEW p \in Workers, pc[p] \in {"beat", "model"}
  PROVE  /\ batch[p] \in Seq(Jobs) /\ batch[p] # <<>>
         /\ Current(p) \in Jobs /\ Current(p) = batch[p][1] /\ 1 \in 1..Len(batch[p])
         /\ jstate[Current(p)] = "running" /\ claimedBy[Current(p)] = WorkerId[p]
         /\ Reply(p) # "lost"
<1>1. batch[p] \in Seq(Jobs) /\ batch[p] # <<>>
  BY DEF RInv, RunnerTypeOK
<1>2. Current(p) \in Jobs /\ Current(p) = batch[p][1] /\ 1 \in 1..Len(batch[p])
  BY <1>1, TailOf, HeadTailProperties DEF Current
<1>3. jstate[Current(p)] = "running" /\ claimedBy[Current(p)] = WorkerId[p]
  BY <1>2 DEF OwnBatch
<1>4. QED
  BY <1>1, <1>2, <1>3 DEF Reply, HeartbeatReply

\* The rows of a claim, in claim order, are each named once, and none is left out.
LEMMA BatchIsTheClaim ==
  ASSUME NEW w \in WorkerIds, NEW S \in SUBSET Jobs, ClaimJobs(w, S), ColumnTypes,
         NEW q \in [1..Cardinality(S) -> S], InClaimOrder(q, S)
  PROVE  /\ q \in Seq(Jobs) /\ q # <<>> /\ \A i \in 1..Len(q) : q[i] \in S
         /\ \A i, k \in 1..Len(q) : i # k => q[i] # q[k]
         /\ \A j \in S : \E i \in 1..Len(q) : q[i] = j
<1>1. q \in Seq(Jobs) /\ q # <<>> /\ Len(q) = Cardinality(S) /\ \A i \in 1..Len(q) : q[i] \in S
  BY BatchIsSeq
<1>2. IsFiniteSet(S) /\ Cardinality(S) \in Nat
  BY JobsAssumption, FS_Subset, FS_CardinalityType
<1>3. \A i, k \in 1..Cardinality(S) : i # k => q[i] # q[k]
  <2> SUFFICES ASSUME NEW i \in 1..Cardinality(S), NEW k \in 1..Cardinality(S), i < k
               PROVE  q[i] # q[k]
    BY <1>2
  <2>1. runAt[q[i]] < runAt[q[k]]
    BY DEF InClaimOrder
  <2>2. runAt[q[i]] \in Nat
    BY DEF ColumnTypes
  <2>3. QED
    BY <2>1, <2>2
<1>4. q \in Injection(1..Cardinality(S), S)
  BY <1>3 DEF Injection, IsInjective
<1>5. Cardinality(1..Cardinality(S)) = Cardinality(S)
  BY <1>2, FS_Interval
<1>6. q \in Surjection(1..Cardinality(S), S)
  BY <1>2, <1>4, <1>5, FS_Injection
<1>7. QED
  BY <1>1, <1>3, <1>6 DEF Surjection

-----------------------------------------------------------------------------
(* Its steps.                                                              *)

\* A job settled leaves the batch and stops; the rest of the batch runs on.
LEMMA SettlingKeeps ==
  ASSUME RInv, BatchInv, NEW p \in Workers, pc[p] \in {"beat", "model"}, SoleWorker,
         NextJob(p), claimedBy' = claimedBy, jstate'[Current(p)] # "running",
         \A j \in Jobs : j # Current(p) => jstate'[j] = jstate[j]
  PROVE  BatchInv'
<1> DEFINE b == batch[p]
<1>1. b \in Seq(Jobs) /\ b # <<>> /\ Current(p) = b[1]
  BY CurrentIsOwn DEF BatchInv
<1>2. /\ batch \in [Workers -> Seq(Jobs)] /\ heard \in [Workers -> SUBSET {"lost", "cancel-requested"}]
      /\ batch'[p] = Tail(b) /\ heard'[p] = {} /\ crashes' = crashes
      /\ \A r \in Workers : r = p
  BY DEF NextJob, history, RInv, RunnerTypeOK, SoleWorker
<1>3. /\ \A i \in 1..Len(Tail(b)) : i + 1 \in 1..Len(b) /\ Tail(b)[i] = b[i + 1] /\ i + 1 # 1
      /\ \A i \in 1..Len(b) : i # 1 => i - 1 \in 1..Len(Tail(b)) /\ Tail(b)[i - 1] = b[i]
      /\ 1 \in 1..Len(b) /\ \A i \in 1..Len(b) : b[i] \in Jobs
  BY <1>1, TailOf, ElementOfSeq
<1>4. \A i \in 1..Len(b) : i # 1 => b[i] # Current(p)
  BY <1>1, <1>3 DEF BatchInv, NoRepeats
<1> HIDE DEF b
<1> USE DEF b
<1>a. \A i \in 1..Len(batch'[p]) :
        /\ i + 1 \in 1..Len(b) /\ batch'[p][i] = b[i + 1] /\ b[i + 1] \in Jobs
        /\ b[i + 1] # Current(p) /\ jstate'[b[i + 1]] = jstate[b[i + 1]]
  BY <1>2, <1>3, <1>4
<1>5. OwnBatch'
  <2>1. \A i \in 1..Len(b) : jstate[b[i]] = "running" /\ claimedBy[b[i]] = WorkerId[p]
    BY DEF BatchInv, OwnBatch
  <2>2. \A i \in 1..Len(batch'[p]) :
          jstate'[batch'[p][i]] = "running" /\ claimedBy'[batch'[p][i]] = WorkerId[p]
    BY <1>a, <2>1
  <2>3. QED
    BY <1>2, <2>2 DEF OwnBatch
<1>6. NoRepeats'
  <2>1. \A i, k \in 1..Len(b) : i # k => b[i] # b[k]
    BY DEF BatchInv, NoRepeats
  <2>2. \A i, k \in 1..Len(batch'[p]) : i # k => batch'[p][i] # batch'[p][k]
    BY <1>a, <2>1
  <2>3. QED
    BY <1>2, <2>2 DEF NoRepeats
<1>7. NeverLost'
  BY <1>2 DEF NeverLost
<1>8. NoneForgotten'
  <2> SUFFICES ASSUME crashes' = 0, NEW j \in Jobs, jstate'[j] = "running"
               PROVE  \E i \in 1..Len(batch'[p]) : batch'[p][i] = j
    BY DEF NoneForgotten
  <2>1. j # Current(p) /\ jstate[j] = "running" /\ crashes = 0
    BY <1>2
  <2>2. PICK i \in 1..Len(b) : b[i] = j
    BY <1>2, <2>1 DEF BatchInv, NoneForgotten
  <2>3. i # 1
    BY <1>1, <2>1, <2>2
  <2>4. QED
    BY <1>2, <1>3, <2>2, <2>3
<1>9. QED
  BY <1>5, <1>6, <1>7, <1>8 DEF BatchInv

\* Neither does anything to the batch when no running row stops or starts.
LEMMA RowsKeep ==
  ASSUME RInv, BatchInv, UNCHANGED <<batch, crashes>>,
         \A j \in Jobs : jstate[j] = "running" => jstate'[j] = "running" /\ claimedBy'[j] = claimedBy[j],
         \A j \in Jobs : jstate'[j] = "running" => jstate[j] = "running",
         \A r \in Workers : "lost" \notin heard'[r]
  PROVE  BatchInv'
<1>1. \A r \in Workers : \A i \in 1..Len(batch[r]) : batch[r][i] \in Jobs
  BY ElementOfSeq DEF RInv, RunnerTypeOK
<1>2. OwnBatch' /\ NoRepeats' /\ NeverLost' /\ NoneForgotten'
  BY <1>1 DEF BatchInv, OwnBatch, NoRepeats, NeverLost, NoneForgotten
<1>3. QED
  BY <1>2 DEF BatchInv

\* What a worker outside its batch does may stop rows, and starts none.
LEMMA OutsideKeeps ==
  ASSUME RInv, BatchInv, SoleWorker, NEW p \in Workers, pc[p] \notin {"beat", "model"},
         UNCHANGED <<batch, heard, crashes>>,
         \A j \in Jobs : jstate'[j] = "running" => jstate[j] = "running"
  PROVE  BatchInv'
<1>1. \A r \in Workers : batch[r] = <<>> /\ batch'[r] = <<>> /\ heard'[r] = heard[r]
  BY DEF RInv, RunnerTypeOK, SoleWorker
<1>2. OwnBatch' /\ NoRepeats' /\ NeverLost' /\ NoneForgotten'
  BY <1>1 DEF BatchInv, OwnBatch, NoRepeats, NeverLost, NoneForgotten
<1>3. QED
  BY <1>2 DEF BatchInv

\* What a claim returns runs, is the claimant's, and is listed once.
LEMMA ClaimingKeeps ==
  ASSUME RInv, BatchInv, SoleWorker, NEW p \in Workers, ClaimTick(p)
  PROVE  BatchInv'
<1>1. pc[p] = "claim" /\ batch[p] = <<>> /\ batch \in [Workers -> Seq(Jobs)] /\ \A r \in Workers : r = p
  BY DEF ClaimTick, RInv, RunnerTypeOK, SoleWorker
<1>2. CASE Goto(p, "idle") /\ UNCHANGED vars
  BY <1>1, <1>2, OutsideKeeps DEF Goto, history, vars, jobVars
<1>3. ASSUME NEW S \in SUBSET Jobs, NEW q \in [1..Cardinality(S) -> S], InClaimOrder(q, S),
             ClaimJobs(WorkerId[p], S), batch' = [batch EXCEPT ![p] = q],
             UNCHANGED <<heard, crashes>>
      PROVE  BatchInv'
  <2>1. /\ q \in Seq(Jobs) /\ \A i \in 1..Len(q) : q[i] \in S
        /\ \A i, k \in 1..Len(q) : i # k => q[i] # q[k]
        /\ \A j \in S : \E i \in 1..Len(q) : q[i] = j
    <3>1. ColumnTypes /\ WorkerId[p] \in WorkerIds
      BY RunnersAssumption DEF RInv
    <3>2. ClaimJobs(WorkerId[p], S) /\ InClaimOrder(q, S)
      BY <1>3
    <3>3. PICK w \in WorkerIds : w = WorkerId[p]
      BY <3>1
    <3>4. ClaimJobs(w, S)
      BY <3>2, <3>3
    <3>5. QED
      BY <3>1, <3>2, <3>4, BatchIsTheClaim
  <2>2. batch'[p] = q
    BY <1>1, <1>3
  <2>3. \A j \in Jobs : /\ j \in S => jstate'[j] = "running" /\ claimedBy'[j] = WorkerId[p]
                        /\ j \notin S => jstate'[j] = jstate[j]
    <3>1. jstate \in [Jobs -> JobStates] /\ claimedBy \in [Jobs -> WorkerIds \cup {NoWorker}]
      BY DEF RInv, ColumnTypes
    <3>2. jstate' = Set(jstate, S, "running") /\ claimedBy' = Set(claimedBy, S, WorkerId[p])
      BY <1>3 DEF ClaimJobs
    <3>3. QED
      BY <3>1, <3>2 DEF Set
  <2>4. OwnBatch' /\ NoRepeats'
    <3>1. \A i \in 1..Len(batch'[p]) : /\ jstate'[batch'[p][i]] = "running"
                                      /\ claimedBy'[batch'[p][i]] = WorkerId[p]
      BY <2>1, <2>2, <2>3
    <3>2. \A i, k \in 1..Len(batch'[p]) : i # k => batch'[p][i] # batch'[p][k]
      BY <2>1, <2>2
    <3>3. OwnBatch'
      BY <1>1, <3>1 DEF OwnBatch
    <3>4. NoRepeats'
      BY <1>1, <3>2 DEF NoRepeats
    <3>5. QED
      BY <3>3, <3>4
  <2>5. NeverLost'
    BY <1>3 DEF BatchInv, NeverLost
  <2>6. NoneForgotten'
    BY <1>1, <1>3, <2>1, <2>2, <2>3 DEF BatchInv, NoneForgotten
  <2>7. QED
    BY <2>4, <2>5, <2>6 DEF BatchInv
<1>4. QED
  BY <1>2, <1>3 DEF ClaimTick

\* A beat of the only worker is never answered "lost".
LEMMA BeatingKeeps ==
  ASSUME RInv, BatchInv, SoleWorker, NEW p \in Workers, FirstBeat(p) \/ Pulse(p)
  PROVE  BatchInv' /\ jstate' = jstate
<1>1. pc[p] \in {"beat", "model"} /\ Reply(p) # "lost"
  BY CurrentIsOwn DEF FirstBeat, Pulse, BatchInv
<1>2. heard \in [Workers -> SUBSET {"lost", "cancel-requested"}] /\ "lost" \notin heard[p]
  BY DEF RInv, RunnerTypeOK, BatchInv, NeverLost
<1>3. UNCHANGED <<jstate, claimedBy, batch, crashes>>
  BY <1>1 DEF FirstBeat, Pulse, Beat, Heartbeat, StartModel, history, vars, jobVars
<1>4. "lost" \notin News(p)
  BY <1>1 DEF News
<1>5. \A r \in Workers : "lost" \notin heard'[r]
  BY <1>1, <1>2, <1>4 DEF FirstBeat, Pulse, StartModel, BatchInv, NeverLost
<1>6. QED
  BY <1>3, <1>5, RowsKeep

\* A tick that starts stops nothing of its own: it holds nothing.
LEMMA TickingKeeps ==
  ASSUME RInv, BatchInv, SoleWorker, NEW p \in Workers,
         StartTick(p) \/ ReadBudget(p) \/ BlockTick(p) \/ ClearTick(p)
  PROVE  BatchInv'
<1>1. pc[p] \notin {"beat", "model"} /\ UNCHANGED <<batch, heard, crashes>>
  BY DEF StartTick, ReadBudget, BlockTick, ClearTick, Goto, history
<1>2. jstate \in [Jobs -> JobStates]
  BY DEF RInv, ColumnTypes
<1>3. \A j \in Jobs : jstate'[j] = "running" => jstate[j] = "running"
  BY <1>2 DEF StartTick, ReadBudget, BlockTick, ClearTick, ReapExpiredLeases, FailAttempts,
     BlockOpenOrders, ClearOrderBlocks, vars, jobVars
<1>4. QED
  BY <1>1, <1>3, OutsideKeeps

\* Whatever settles a job ends it: there is nobody to have ended it before.
LEMMA SettleEnds ==
  ASSUME RInv, BatchInv, NEW p \in Workers, Settle(p)
  PROVE  /\ pc[p] = "model" /\ NextJob(p) /\ jstate[Current(p)] = "running"
         /\ \/ cancelReq[Current(p)] /\ MarkCancelled(Current(p))
            \/ FailAttempt(Current(p))
            \/ \E ok \in BOOLEAN, t \in 0..MaxTokens : FinishJob(Current(p), ok, t)
<1>1. pc[p] = "model" /\ jstate[Current(p)] = "running" /\ heard[p] # {"lost"}
  BY CurrentIsOwn DEF Settle, SettleCancelled, SettleAbandoned, SettleFailed, SettleFinished,
     FinishThrows, BatchInv, NeverLost
<1>2. "cancel-requested" \in heard[p] => cancelReq[Current(p)]
  BY DEF RInv, CancelHeard
<1>3. QED
  BY <1>1, <1>2 DEF Settle, SettleCancelled, SettleAbandoned, SettleFailed, SettleFinished,
     FinishThrows

\* Settling the job in hand leaves the rest of the batch running and its own.
LEMMA SettlesOne ==
  ASSUME RInv, BatchInv, SoleWorker, NEW p \in Workers, Settle(p)
  PROVE  BatchInv'
<1> DEFINE c == Current(p)
<1>1. c \in Jobs /\ pc[p] = "model" /\ NextJob(p) /\ jstate[c] = "running"
  BY SettleEnds, CurrentIsOwn DEF BatchInv
<1>2. jstate \in [Jobs -> JobStates]
  BY DEF RInv, ColumnTypes
<1> HIDE DEF c
<1>3. ASSUME MarkCancelled(c) \/ FailAttempt(c) \/ \E ok \in BOOLEAN, t \in 0..MaxTokens : FinishJob(c, ok, t)
      PROVE  /\ claimedBy' = claimedBy /\ jstate'[c] # "running"
             /\ \A j \in Jobs : j # c => jstate'[j] = jstate[j]
  BY <1>1, <1>2, <1>3 DEF MarkCancelled, FailAttempt, FailAttempts, FinishJob
<1>4. QED
  BY <1>1, <1>3, SettleEnds, SettlingKeeps DEF c

\* A tick cut short leaves jobs nobody holds, and is the only thing that does.
LEMMA ThrowingKeeps ==
  ASSUME RInv, BatchInv, SoleWorker, NEW p \in Workers, TickThrows(p)
  PROVE  BatchInv'
<1>1. /\ crashes' # 0 /\ \A r \in Workers : r = p
      /\ batch'[p] = <<>> /\ heard'[p] = {}
  BY DEF TickThrows, Drop, RInv, RunnerTypeOK, SoleWorker
<1>2. OwnBatch' /\ NoRepeats' /\ NeverLost' /\ NoneForgotten'
  BY <1>1 DEF OwnBatch, NoRepeats, NeverLost, NoneForgotten
<1>3. QED
  BY <1>2 DEF BatchInv

\* Nobody else stops a running job: a cancel only asks, a requeue takes jobs
\* that have ended, and the clock only makes a lease look old.
LEMMA OthersKeep ==
  ASSUME RInv, RowsExist, BatchInv, (\E j \in Jobs : RequeueOnce(j)) \/ Others
  PROVE  BatchInv'
<1>1. UNCHANGED <<batch, heard, crashes>> /\ claimedBy' = claimedBy
  BY DEF RequeueOnce, Others, RequeueJob, EnqueueOrder, CancelOrder, UpdateEntitlements,
     LeaseExpires, DayRolls, workerVars, history, jobVars
<1>2. jstate \in [Jobs -> JobStates]
  BY DEF RInv, ColumnTypes
<1>3. ASSUME NEW j \in Jobs PROVE jstate'[j] = "running" <=> jstate[j] = "running"
  <2>1. ASSUME NEW i \in Jobs, RequeueJob(i) PROVE jstate'[j] = "running" <=> jstate[j] = "running"
    BY <1>2, <2>1 DEF RequeueJob
  <2>2. ASSUME NEW o \in Orders, CancelOrder(o) PROVE jstate'[j] = "running" <=> jstate[j] = "running"
    BY <1>2, <2>2 DEF CancelOrder, CancelledAtOnce, Set, Pending, InState
  <2>3. ASSUME NEW o \in Orders, EnqueueOrder(o) PROVE jstate'[j] = "running" <=> jstate[j] = "running"
    <3>1. \A i \in JobsOf(o) : jstate[i] = "none"
      BY <2>3 DEF EnqueueOrder, RowsExist, JobsOf
    <3>2. QED
      BY <1>2, <2>3, <3>1 DEF EnqueueOrder, Set
  <2>4. QED
    BY <2>1, <2>2, <2>3 DEF RequeueOnce, Others, UpdateEntitlements, LeaseExpires, DayRolls, jobVars
<1>4. QED
  BY <1>1, <1>3, RowsKeep DEF BatchInv, NeverLost

\* Every step of a sole process keeps its batch sound.
LEMMA SInvStep == SInv /\ SoleWorker /\ [RunnerNext]_runnerVars => SInv'
<1> SUFFICES ASSUME SInv, SoleWorker, [RunnerNext]_runnerVars PROVE SInv'
  OBVIOUS
<1>1. RInv' /\ IInv' /\ RInv /\ RowsExist /\ BatchInv
  BY RInvStep, QueueStep, NextInv DEF SInv, IInv, TypeOK
<1>2. CASE UNCHANGED runnerVars
  <2>1. UNCHANGED <<batch, crashes, heard, jstate, claimedBy>>
    BY <1>2 DEF runnerVars, workerVars, history, vars, jobVars
  <2>2. QED
    BY <1>1, <2>1, RowsKeep DEF SInv, BatchInv, NeverLost
<1>3. QED
  BY <1>1, <1>2, TickingKeeps, ClaimingKeeps, BeatingKeeps, SettlesOne, ThrowingKeeps, OthersKeep
  DEF RunnerNext, Work, SInv

-----------------------------------------------------------------------------
(* The orders.                                                             *)

\* What the queue goes through when nothing is reported late: only running jobs
\* fail, and only a requeue starts an ended job again.
TimelyStep ==
  \/ \E o \in Orders : EnqueueOrder(o) \/ CancelOrder(o)
  \/ \E w \in WorkerIds, S \in SUBSET Jobs : ClaimJobs(w, S)
  \/ \E j \in Jobs, ok \in BOOLEAN, t \in 0..MaxTokens : FinishJob(j, ok, t)
  \/ \E S \in SUBSET Running : FailAttempts(S)
  \/ \E j \in Jobs : cancelReq[j] /\ MarkCancelled(j)
  \/ \E j \in Jobs : RequeueJob(j) /\ requeues' = requeues + 1
  \/ UNCHANGED <<jstate, ostate>>

\* A sole process reports of running jobs only, and reaps with empty hands.
LEMMA SoleStepsAreTimely ==
  ASSUME SInv, SoleWorker, [RunnerNext]_runnerVars
  PROVE  TimelyStep
<1>1. RInv /\ BatchInv
  BY DEF SInv
<1>2. ASSUME NEW p \in Workers, StartTick(p) PROVE TimelyStep
  <2>1. ExpiredJobs \in SUBSET Running
    BY DEF ExpiredJobs
  <2>2. QED
    BY <1>2, <2>1 DEF StartTick, ReapExpiredLeases, TimelyStep, vars, jobVars, orderVars
<1>3. ASSUME NEW p \in Workers, ReadBudget(p) \/ BlockTick(p) \/ ClearTick(p) \/ TickThrows(p)
      PROVE  TimelyStep
  BY <1>3 DEF ReadBudget, BlockTick, ClearTick, TickThrows, BlockOpenOrders, ClearOrderBlocks,
     TimelyStep, vars, jobVars, orderVars
<1>4. ASSUME NEW p \in Workers, ClaimTick(p) PROVE TimelyStep
  BY <1>4, RunnersAssumption DEF ClaimTick, TimelyStep, vars, jobVars, orderVars
<1>5. ASSUME NEW p \in Workers, FirstBeat(p) \/ Pulse(p) PROVE TimelyStep
  BY <1>5 DEF FirstBeat, Pulse, Beat, Heartbeat, TimelyStep, vars, jobVars, orderVars
<1>6. ASSUME NEW p \in Workers, Settle(p) PROVE TimelyStep
  <2>1. Current(p) \in Jobs /\ Current(p) \in Running
    BY <1>1, <1>6, SettleEnds, CurrentIsOwn DEF BatchInv, Running, InState
  <2>2. FailAttempt(Current(p)) => \E S \in SUBSET Running : FailAttempts(S)
    BY <2>1 DEF FailAttempt
  <2>3. QED
    BY <1>1, <1>6, <2>1, <2>2, SettleEnds DEF TimelyStep
<1>7. CASE (\E j \in Jobs : RequeueOnce(j)) \/ Others
  BY <1>7 DEF RequeueOnce, Others, UpdateEntitlements, LeaseExpires, DayRolls, TimelyStep,
     jobVars, orderVars
<1>8. CASE UNCHANGED runnerVars
  BY <1>8 DEF runnerVars, vars, jobVars, orderVars, TimelyStep
<1>9. QED
  BY <1>2, <1>3, <1>4, <1>5, <1>6, <1>7, <1>8 DEF RunnerNext, Work

\* An order is done only with nothing waiting or running in it: a step that ends
\* its last job closes it, and one that starts a job of it opens it.
LEMMA QuietStep ==
  ASSUME IInv, DoneIsQuiet, TimelyStep
  PROVE  DoneIsQuiet'
<1> USE JobsAssumption DEF DoneIsQuiet, JobsOf
<1>1. /\ jstate \in [Jobs -> JobStates] /\ ostate \in [Orders -> OrderStates]
      /\ RowsExist
  BY DEF IInv, TypeOK, ColumnTypes
<1>2. ASSUME NEW o \in Orders, EnqueueOrder(o) PROVE DoneIsQuiet'
  BY <1>1, <1>2 DEF EnqueueOrder, Set
<1>3. ASSUME NEW o \in Orders, CancelOrder(o) PROVE DoneIsQuiet'
  BY <1>1, <1>3 DEF CancelOrder, CancelledAtOnce, Set
<1>4. ASSUME NEW w \in WorkerIds, NEW S \in SUBSET Jobs, ClaimJobs(w, S) PROVE DoneIsQuiet'
  BY <1>1, <1>4 DEF ClaimJobs, Candidates, Pending, InState, Set, orderVars
<1>5. ASSUME NEW j \in Jobs, NEW ok \in BOOLEAN, NEW t \in 0..MaxTokens, FinishJob(j, ok, t)
      PROVE  DoneIsQuiet'
  BY <1>1, <1>5 DEF FinishJob, CloseIfComplete, UnfinishedStates
<1>6. ASSUME NEW S \in SUBSET Running, FailAttempts(S) PROVE DoneIsQuiet'
  BY <1>1, <1>6 DEF FailAttempts, CloseIfComplete, UnfinishedStates, Running, InState
<1>7. ASSUME NEW j \in Jobs, MarkCancelled(j) PROVE DoneIsQuiet'
  BY <1>1, <1>7 DEF MarkCancelled, orderVars
<1>8. ASSUME NEW j \in Jobs, RequeueJob(j) PROVE DoneIsQuiet'
  BY <1>1, <1>8 DEF RequeueJob, Reopen
<1>9. CASE UNCHANGED <<jstate, ostate>>
  BY <1>9
<1>10. QED
  BY <1>2, <1>3, <1>4, <1>5, <1>6, <1>7, <1>8, <1>9 DEF TimelyStep

\* How one job moves when nothing is reported late.
LEMMA JobsMoveTimely ==
  ASSUME IInv, TimelyStep, NEW j \in Jobs, jstate'[j] # jstate[j]
  PROVE  /\ jstate[j] \notin {"succeeded", "cancelled"}
         /\ jstate[j] \in {"dead", "failed"} =>
              jstate'[j] = "pending" /\ attempts'[j] = 0 /\ requeues' = requeues + 1
<1> USE JobsAssumption
<1>1. /\ jstate \in [Jobs -> JobStates] /\ attempts \in [Jobs -> Nat] /\ RowsExist
  BY DEF IInv, TypeOK, ColumnTypes
<1>2. ASSUME NEW o \in Orders, EnqueueOrder(o) PROVE jstate[j] = "none"
  BY <1>1, <1>2 DEF EnqueueOrder, Set, JobsOf, RowsExist
<1>3. ASSUME NEW o \in Orders, CancelOrder(o) PROVE jstate[j] = "pending"
  BY <1>1, <1>3 DEF CancelOrder, CancelledAtOnce, Set, Pending, InState
<1>4. ASSUME NEW w \in WorkerIds, NEW S \in SUBSET Jobs, ClaimJobs(w, S) PROVE jstate[j] = "pending"
  BY <1>1, <1>4 DEF ClaimJobs, Candidates, Pending, InState, Set
<1>5. ASSUME NEW i \in Jobs, MarkCancelled(i) \/ \E ok \in BOOLEAN, t \in 0..MaxTokens : FinishJob(i, ok, t)
      PROVE  jstate[j] = "running"
  BY <1>1, <1>5 DEF MarkCancelled, FinishJob
<1>6. ASSUME NEW S \in SUBSET Running, FailAttempts(S) PROVE jstate[j] = "running"
  BY <1>1, <1>6 DEF FailAttempts, Running, InState
<1>7. ASSUME NEW i \in Jobs, RequeueJob(i)
      PROVE  jstate[j] \in {"dead", "failed"} /\ jstate'[j] = "pending" /\ attempts'[j] = 0
  BY <1>1, <1>7 DEF RequeueJob
<1>8. QED
  BY <1>2, <1>3, <1>4, <1>5, <1>6, <1>7 DEF TimelyStep

-----------------------------------------------------------------------------
(* What a tenant reads of an order.                                        *)

Left(o) == \E j \in JobsOf(o) : jstate[j] \in {"pending", "running"}

\* One order, through one step.
Moves(o) ==
  \/ Promise!Same(ostate[o], Left(o), ostate'[o], Left(o)')
  \/ Promise!Submit(ostate[o], Left(o), ostate'[o], Left(o)')
  \/ Promise!Close(ostate[o], Left(o), ostate'[o], Left(o)')
  \/ Promise!Reopen(ostate[o], Left(o), ostate'[o], Left(o)')
  \/ Promise!Cancel(ostate[o], Left(o), ostate'[o], Left(o)')
  \/ Promise!Drain(ostate[o], Left(o), ostate'[o], Left(o)')

\* An order none of whose jobs starts or ends stays as it is.
LEMMA SameOrder ==
  ASSUME NEW o \in Orders, ostate'[o] = ostate[o],
         \A j \in JobsOf(o) : jstate'[j] \in {"pending", "running"} <=> jstate[j] \in {"pending", "running"}
  PROVE  Moves(o)
BY DEF Moves, Left, Promise!Same, JobsOf

\* Nothing is left of an order that is not there or done; something is of an open one.
LEMMA LeftMatches ==
  ASSUME IInv, DoneIsQuiet, NEW o \in Orders
  PROVE  /\ ostate[o] \in {"none", "done"} => ~Left(o)
         /\ ostate[o] = "open" => Left(o)
         /\ ostate[o] \in {"none", "open", "done", "cancelled"}
BY DEF IInv, TypeOK, ColumnTypes, OrderStates, RowsExist, DoneIsQuiet, OpenOrderHasWork, Left, JobsOf

\* Each step keeps the promise for each order.
LEMMA OrderKeeps ==
  ASSUME IInv, IInv', DoneIsQuiet, DoneIsQuiet', TimelyStep, NEW o \in Orders
  PROVE  Moves(o)
<1> USE JobsAssumption
<1>1. /\ jstate \in [Jobs -> JobStates] /\ ostate \in [Orders -> OrderStates]
      /\ RowsExist /\ CancelRequestedInCancelled
  BY DEF IInv, TypeOK, ColumnTypes
<1>2. /\ ostate[o] \in {"none", "done"} => ~Left(o)
      /\ ostate[o] = "open" => Left(o)
      /\ ostate[o] \in {"none", "open", "done", "cancelled"}
  BY LeftMatches
<1>3. /\ ostate'[o] \in {"none", "done"} => ~Left(o)'
      /\ ostate'[o] = "open" => Left(o)'
  BY DEF IInv, TypeOK, ColumnTypes, OrderStates, RowsExist, DoneIsQuiet, OpenOrderHasWork, Left, JobsOf
<1>4. ASSUME ostate[o] = "none" => ostate'[o] \in {"none", "open"},
             ostate[o] = "open" => ostate'[o] \in {"open", "done"},
             ostate[o] = "done" => ostate'[o] \in {"open", "done"},
             ostate[o] = "cancelled" => ostate'[o] = "cancelled"
      PROVE  Moves(o)
  <2>1. Left(o) \in BOOLEAN /\ Left(o)' \in BOOLEAN
    BY DEF Left
  <2>2. QED
    BY <1>2, <1>3, <1>4, <2>1
    DEF Moves, Promise!Same, Promise!Submit, Promise!Close, Promise!Reopen, Promise!Drain
<1>5. ASSUME NEW a \in Orders, EnqueueOrder(a) PROVE Moves(o)
  BY <1>1, <1>4, <1>5 DEF EnqueueOrder
<1>6. ASSUME NEW a \in Orders, CancelOrder(a) PROVE Moves(o)
  <2>1. CASE a = o
    <3>1. ostate'[o] = "cancelled" /\ ostate[o] # "none"
      BY <1>1, <1>6, <2>1 DEF CancelOrder
    <3>2. Left(o)' => Left(o)
      BY <1>1, <1>6, <2>1 DEF CancelOrder, CancelledAtOnce, Set, Left, JobsOf
    <3>3. QED
      BY <1>2, <3>1, <3>2 DEF Moves, Promise!Cancel, Promise!Drain
  <2>2. CASE a # o
    BY <1>1, <1>4, <1>2, <1>6, <2>2 DEF CancelOrder
  <2>3. QED
    BY <2>1, <2>2
<1>7. ASSUME NEW w \in WorkerIds, NEW S \in SUBSET Jobs, ClaimJobs(w, S) PROVE Moves(o)
  BY <1>2, <1>4, <1>7 DEF ClaimJobs, orderVars
<1>8. ASSUME NEW j \in Jobs, NEW ok \in BOOLEAN, NEW t \in 0..MaxTokens, FinishJob(j, ok, t)
      PROVE  Moves(o)
  BY <1>1, <1>2, <1>4, <1>8 DEF FinishJob, CloseIfComplete
<1>9. ASSUME NEW S \in SUBSET Running, FailAttempts(S) PROVE Moves(o)
  BY <1>1, <1>2, <1>4, <1>9 DEF FailAttempts, CloseIfComplete
<1>10. ASSUME NEW j \in Jobs, MarkCancelled(j) PROVE Moves(o)
  BY <1>2, <1>4, <1>10 DEF MarkCancelled, orderVars
<1>11. ASSUME NEW j \in Jobs, RequeueJob(j) PROVE Moves(o)
  BY <1>1, <1>2, <1>4, <1>11 DEF RequeueJob, Reopen
<1>12. CASE UNCHANGED <<jstate, ostate>>
  BY <1>12, SameOrder
<1>13. QED
  BY <1>5, <1>6, <1>7, <1>8, <1>9, <1>10, <1>11, <1>12 DEF TimelyStep

\* A timely step of the rows is a step of the promise, or leaves it as it was.
LEMMA PromiseStep ==
  ASSUME IInv, IInv', DoneIsQuiet, DoneIsQuiet', TimelyStep
  PROVE  Promise!Next
<1>1. \A o \in Orders : Moves(o)
  BY OrderKeeps
<1>2. ostate' \in [Orders -> {"none", "open", "done", "cancelled"}]
  BY DEF IInv, TypeOK, ColumnTypes, OrderStates
<1>3. QED
  BY <1>1, <1>2 DEF Promise!Next, Promise!Move, Moves, Left

-----------------------------------------------------------------------------
QuietInv == SInv /\ DoneIsQuiet

\* Every step of a sole process keeps done orders quiet.
LEMMA QuietInvStep == QuietInv /\ SoleWorker /\ [RunnerNext]_runnerVars => QuietInv' /\ TimelyStep
BY SInvStep, SoleStepsAreTimely, QuietStep DEF QuietInv, SInv

\* There is no done order at first.
LEMMA QuietInvInit == RunnerInit => QuietInv
<1> SUFFICES ASSUME RunnerInit PROVE QuietInv
  OBVIOUS
<1>1. RInv /\ IInv
  BY RInvInit, InitInv DEF RunnerInit
<1>2. BatchInv
  BY DEF RunnerInit, Init, BatchInv, OwnBatch, NoRepeats, NeverLost, NoneForgotten
<1>3. DoneIsQuiet
  BY DEF RunnerInit, Init, DoneIsQuiet
<1>4. QED
  BY <1>1, <1>2, <1>3 DEF QuietInv, SInv

\* The one process holds what it works on, and knows it: the invariant the
\* theorems below rest on.
THEOREM SoleRunnerInvariant ==
  ASSUME SoleWorker
  PROVE  RunnerSpec => []QuietInv
BY QuietInvInit, QuietInvStep, PTL DEF RunnerSpec

\* A worker's batch is its own until it settles it, through any number of
\* expired leases, cancels and requeues, and no running job is forgotten unless a
\* tick was cut short.
THEOREM HeldStaysRunning ==
  ASSUME SoleWorker
  PROVE  RunnerSpec => []HeldIsRunning
<1>1. QuietInv => HeldIsRunning
  BY DEF QuietInv, SInv, BatchInv, OwnBatch, NoneForgotten, HeldIsRunning, Held, Running, InState
<1>2. QED
  BY <1>1, SoleRunnerInvariant, PTL

\* An order reported done has nothing waiting or running, and nothing resurrects
\* a job of it.
THEOREM DoneStaysQuiet ==
  ASSUME SoleWorker
  PROVE  RunnerSpec => []DoneIsQuiet
BY SoleRunnerInvariant, PTL DEF QuietInv

\* Answers and cancels are final, and only a requeue, with a fresh budget, brings
\* a dead or failed job back.
THEOREM SettledJobsStay ==
  ASSUME SoleWorker
  PROVE  RunnerSpec => SettledStays
<1>1. ASSUME QuietInv, [RunnerNext]_runnerVars
      PROVE  [\A j \in Jobs : jstate'[j] # jstate[j] =>
               /\ jstate[j] \notin {"succeeded", "cancelled"}
               /\ jstate[j] \in {"dead", "failed"} =>
                    jstate'[j] = "pending" /\ attempts'[j] = 0 /\ requeues' = requeues + 1]_runnerVars
  BY <1>1, QuietInvStep, JobsMoveTimely DEF QuietInv, SInv
<1>2. QED
  BY <1>1, SoleRunnerInvariant, PTL DEF RunnerSpec, SettledStays

\* Every step of the worker, the tenant, the operator and the clock moves each
\* order as OrderPromise allows, or not at all.
THEOREM SoleRunnerKeepsPromise ==
  ASSUME SoleWorker
  PROVE  RunnerSpec => KeepsPromise
<1>1. RunnerInit => Promise!Init
  BY DEF RunnerInit, Init, Promise!Init, JobsOf
<1>2. ASSUME QuietInv, [RunnerNext]_runnerVars
      PROVE  [Promise!Next]_(Promise!promised)
  BY <1>2, QuietInvStep, PromiseStep DEF QuietInv, SInv
<1>3. QED
  BY <1>1, <1>2, SoleRunnerInvariant, PTL DEF RunnerSpec, KeepsPromise, Promise!Spec
=============================================================================
