---------------------------- MODULE Transactions ----------------------------
(***************************************************************************)
(* The queue's calls one SQL statement at a time, as the engines run them: *)
(* a pool of connections, each inside at most one READ COMMITTED           *)
(* transaction.  PGlite is the pool of one connection, where a call waits  *)
(* for the promise chain; PostgreSQL is a larger pool, where statements of *)
(* several calls interleave.                                               *)
(*                                                                         *)
(* A statement reads the rows committed when it starts, over its own       *)
(* writes.  An UPDATE takes the rows its WHERE selects then, one by one;   *)
(* at a row another transaction wrote it waits for that one to end and     *)
(* asks the WHERE again, of that row alone.                                *)
(*                                                                         *)
(* A worker may be late with a beat, an answer or a mark: those statements *)
(* ask for the state.  It is not late with a failure, whose statement asks *)
(* for none; what a late one does is Runner.tla's subject.                 *)
(***************************************************************************)
EXTENDS Integers, FiniteSets

CONSTANTS
  Connections,  \* the pool: one on PGlite, several on PostgreSQL
  Jobs,         \* rows of jobs
  Orders,       \* rows of work_orders
  OrderOf,      \* jobs.order_id
  Tenants,      \* callers
  TenantOf,     \* tenant_id, of every row
  Nobody,       \* app.tenant_id is not set
  MaxAttempts,  \* jobs.max_attempts
  Cap           \* entitlements.max_concurrent_jobs

Rows == Jobs \cup Orders

ASSUME PoolAssumption ==
  /\ IsFiniteSet(Connections) /\ Connections # {}
  /\ IsFiniteSet(Rows) /\ Jobs \cap Orders = {}
  /\ OrderOf \in [Jobs -> Orders] /\ \A o \in Orders : \E j \in Jobs : OrderOf[j] = o
  /\ TenantOf \in [Rows -> Tenants] /\ Nobody \notin Tenants \cup Rows
  /\ \A j \in Jobs : TenantOf[j] = TenantOf[OrderOf[j]]
  /\ MaxAttempts \in Nat \ {0} /\ Cap \in Nat \ {0}

VARIABLES
  pool,      \* the connections the engine opened
  row,       \* the committed rows
  wrote,     \* per connection: the rows its transaction wrote, and so locks
  tx,        \* per connection: the call it serves, and how far it is
  settings   \* per connection: its role and app.tenant_id

vars == <<pool, row, wrote, tx, settings>>

JobRow ==
  [state : {"pending", "running", "succeeded", "failed", "dead", "cancelled"},
   attempts : Nat, lease : {"null", "live", "expired"}]
OrderRow == [state : {"open", "done", "cancelled"}]

Calls ==
  {"claim", "heartbeat", "finish", "fail", "reap", "requeue", "cancel", "mark"}
Statements ==
  {"claim", "beat", "finish", "attempts", "fail", "expired", "requeue", "reopen",
   "flip", "ask", "cancel", "mark", "close", "commit", "rollback"}

\* What a connection is doing: the call and the tenant it is for, the row in
\* hand, the jobs a reap has still to fail, the statement it is at and, once that
\* has had to wait, the rows it has still to write.
Idle ==
  [call |-> "none", for |-> Nobody, on |-> Nobody, ids |-> {}, spent |-> FALSE,
   at |-> "commit", todo |-> {}]

Busy(c) == tx[c].call # "none"
Serial == Cardinality(pool) = 1

\* Types, and a lock is exclusive: no row is written by two transactions.
TypeOK ==
  /\ pool \in SUBSET Connections
  /\ \A j \in Jobs : row[j] \in JobRow
  /\ \A o \in Orders : row[o] \in OrderRow
  /\ \A c \in Connections :
       /\ tx[c].call \in Calls \cup {"none"} /\ tx[c].at \in Statements
       /\ tx[c].on \in Rows \cup {Nobody}
       /\ tx[c].todo \subseteq Rows /\ tx[c].ids \subseteq Jobs
       /\ DOMAIN wrote[c] \subseteq Rows
       /\ \A d \in Connections \ {c} : DOMAIN wrote[c] \cap DOMAIN wrote[d] = {}

-----------------------------------------------------------------------------
(* What a statement sees.                                                  *)

\* The rows of f, and those of g it says nothing of.
Over(f, g) == [r \in DOMAIN f \cup DOMAIN g |-> IF r \in DOMAIN f THEN f[r] ELSE g[r]]

\* The row as c's next statement reads it.
Seen(c, r) == IF r \in DOMAIN wrote[c] THEN wrote[c][r] ELSE row[r]

\* Row-level security: the application role sees its tenant's rows.
Visible(c) ==
  IF settings[c].role = "owner" THEN Rows
  ELSE {r \in Rows : TenantOf[r] = settings[c].tenant}

LockedByOther(c, r) == \E d \in Connections \ {c} : r \in DOMAIN wrote[d]

JobsOf(o) == {j \in Jobs : OrderOf[j] = o}
OrderOfTx(c) == IF tx[c].on \in Orders THEN tx[c].on ELSE OrderOf[tx[c].on]
InStates(c, S) == {j \in Jobs \cap Visible(c) : Seen(c, j).state \in S}

-----------------------------------------------------------------------------
(* The UPDATE statements: the rows each names, its WHERE and its SET.      *)

Named(c) ==
  CASE tx[c].at \in {"flip", "ask"} -> JobsOf(OrderOfTx(c))
    [] tx[c].at \in {"reopen", "cancel", "close"} -> {OrderOfTx(c)}
    [] OTHER -> {tx[c].on}

\* Mutant: an answer is taken for a retired job too.
AnswerableEver == {"running", "dead", "cancelled"}
Answerable == {"running"}
\* Mutant: an order closes even when it was cancelled.
ClosableEver == {"open", "cancelled"}
Closable == {"open"}

\* The states WHERE asks for, of the job or of the order.
Where(s, r) == r.state \in
  CASE s \in {"beat", "mark", "ask"} -> {"running"}
    [] s = "finish" -> Answerable
    [] s = "fail" -> {"pending", "running", "succeeded", "failed", "dead", "cancelled"}
    [] s = "requeue" -> {"dead", "failed"}
    [] s = "flip" -> {"pending"}
    [] s = "reopen" -> {"done"}
    [] s = "cancel" -> {"open", "done"}
    [] s = "close" -> Closable

Stop(r, s) == [r EXCEPT !.state = s, !.lease = "null"]

After(t, r, ok) ==
  CASE t.at = "beat" -> [r EXCEPT !.lease = "live"]
    [] t.at = "finish" -> Stop(r, IF ok THEN "succeeded" ELSE "failed")
    [] t.at = "fail" -> Stop(r, IF t.spent THEN "dead" ELSE "pending")
    [] t.at \in {"flip", "mark"} -> Stop(r, "cancelled")
    [] t.at = "requeue" -> [Stop(r, "pending") EXCEPT !.attempts = 0]
    [] t.at = "ask" -> r
    [] t.at = "reopen" -> [r EXCEPT !.state = "open"]
    [] t.at = "cancel" -> [r EXCEPT !.state = "cancelled"]
    [] t.at = "close" -> [r EXCEPT !.state = "done"]

Updates == Statements \ {"claim", "attempts", "expired", "commit", "rollback"}

\* closeOrderIfComplete's NOT EXISTS, asked once, of what the statement sees.
NothingLeft(c) == InStates(c, {"pending", "running"}) \cap JobsOf(OrderOfTx(c)) = {}

\* Mutant: the order closes on its first answer.
MatchedEarly(c) ==
  {r \in Named(c) \cap Visible(c) : Where(tx[c].at, Seen(c, r))}

\* The rows an UPDATE selects as it starts.
Matched(c) ==
  {r \in Named(c) \cap Visible(c) :
     /\ Where(tx[c].at, Seen(c, r))
     /\ tx[c].at = "close" => NothingLeft(c)}

-----------------------------------------------------------------------------
(* Running a statement.                                                    *)

\* The call goes on to statement s, and forgets what it no longer needs.
At(c, s) ==
  [tx[c] EXCEPT !.at = s, !.todo = {}, !.spent = FALSE,
                !.on = IF s = "commit" THEN Nobody ELSE @]

\* Mutant: the order is taken before the jobs that run.
AfterCancelsOrderFirst(s) == CASE s = "flip" -> "cancel" [] s = "cancel" -> "ask" [] s = "ask" -> "commit"
\* cancelOrder: the pending jobs, the running ones, the order.
AfterCancels(s) == CASE s = "flip" -> "ask" [] s = "ask" -> "cancel" [] s = "cancel" -> "commit"

\* Where a call goes once an UPDATE of it has returned, having written rows or
\* none.
Following(c, updated) ==
  LET t == tx[c]
      nextId == IF t.ids = {} THEN "commit" ELSE "attempts"
  IN
  CASE t.at = "finish" -> IF updated THEN "close" ELSE "rollback"
    [] t.at = "fail" -> IF t.spent THEN "close" ELSE nextId
    [] t.at = "close" -> nextId
    [] t.at = "requeue" -> IF updated THEN "reopen" ELSE "commit"
    [] t.call = "cancel" -> AfterCancels(t.at)
    [] OTHER -> "commit"

\* The WHERE again, of the row as it is now.
WriteStill(c, r) == Where(tx[c].at, Seen(c, r))

\* An UPDATE writes the rows it selected, in any order, up to one that another
\* transaction holds; there it waits.  It leaves alone what changed meanwhile.
Execute(c, ok) ==
  LET selected == IF tx[c].todo = {} THEN Matched(c) ELSE tx[c].todo
      free == {r \in selected : ~LockedByOther(c, r)}
  IN
  /\ Busy(c) /\ tx[c].at \in Updates
  /\ ok => tx[c].at = "finish"
  /\ \E T \in SUBSET free :
       LET written == {r \in T : WriteStill(c, r)} IN
       /\ free = selected => T = selected
       /\ tx[c].todo # {} => T # {}
       /\ wrote' = [wrote EXCEPT ![c] =
            Over([r \in written |-> After(tx[c], Seen(c, r), ok)], @)]
       /\ tx' = [tx EXCEPT ![c] =
            IF T = selected THEN At(c, Following(c, written # {}))
            ELSE [@ EXCEPT !.todo = selected \ T]]
  /\ UNCHANGED <<pool, row, settings>>

\* reapExpiredLeases' SELECT: the jobs it is about to fail, one by one.
ReadExpired(c) ==
  LET ids == {j \in InStates(c, {"running"}) : Seen(c, j).lease = "expired"} IN
  /\ Busy(c) /\ tx[c].at = "expired"
  /\ tx' = [tx EXCEPT ![c] =
       IF ids = {} THEN At(c, "commit") ELSE [At(c, "attempts") EXCEPT !.ids = ids]]
  /\ UNCHANGED <<pool, row, wrote, settings>>

\* failAttempt's SELECT, of the caller's job or the reap's next: whether the
\* budget is spent is decided here, and the UPDATE after it obeys.
ReadAttempts(c) ==
  /\ Busy(c) /\ tx[c].at = "attempts"
  /\ \E j \in IF tx[c].ids = {} THEN {tx[c].on} ELSE tx[c].ids :
       tx' = [tx EXCEPT ![c] =
         [At(c, "fail") EXCEPT !.on = j, !.ids = @ \ {j},
                               !.spent = Seen(c, j).attempts >= MaxAttempts]]
  /\ UNCHANGED <<pool, row, wrote, settings>>

\* Mutant: candidates another claim has locked are not skipped.
ClaimableAnyLock(c) == InStates(c, {"pending"})
\* FOR UPDATE SKIP LOCKED.
Claimable(c) == {j \in InStates(c, {"pending"}) : ~LockedByOther(c, j)}

\* Mutant: the claim's own limit is the cap.
FreeAlways(c) == Cap
\* What the cap leaves, as the claim's snapshot has it.
Free(c) ==
  LET running == Cardinality(InStates(c, {"running"})) IN
  IF running < Cap THEN Cap - running ELSE 0

\* claimJobs, one statement: it counts what runs as it sees it, and takes that
\* many fewer of the pending rows nobody holds; or fewer yet, where the caller's
\* limit is lower, the day's budget is spent, or a row is due only after the claim
\* began (run_at is the now() of the transaction that returned it).
Claim(c) ==
  /\ Busy(c) /\ tx[c].at = "claim"
  /\ \E S \in SUBSET Claimable(c) :
       /\ Cardinality(S) <= Free(c)
       /\ wrote' = [wrote EXCEPT ![c] =
            Over([j \in S |-> [Seen(c, j) EXCEPT !.state = "running", !.lease = "live",
                                                 !.attempts = @ + 1]], @)]
  /\ tx' = [tx EXCEPT ![c] = At(c, "commit")]
  /\ UNCHANGED <<pool, row, settings>>

-----------------------------------------------------------------------------
(* Transactions.                                                           *)

\* Mutant: the tenant is pinned, but the role is not dropped.
PinWithoutRole(t) == [role |-> "owner", tenant |-> t]
\* withTenant: set_config(..., is_local) and SET LOCAL ROLE.
Pin(t) == [role |-> "app", tenant |-> t]
Unpinned == [role |-> "owner", tenant |-> Nobody]

First(call) ==
  CASE call = "heartbeat" -> "beat"
    [] call = "fail" -> "attempts"
    [] call = "reap" -> "expired"
    [] call = "cancel" -> "flip"
    [] OTHER -> call

\* A caller is given a free connection.  Any tenant may name any row in a
\* requeue or a cancel; a worker names a job of its tenant, in whatever state it is
\* by now, but one that runs when it reports a failure.
Begin(c, call, t, r) ==
  /\ c \in pool /\ ~Busy(c)
  /\ CASE call \in {"claim", "reap"} -> r = Nobody
       [] call = "cancel" -> r \in Orders
       [] call = "requeue" -> r \in Jobs
       [] OTHER -> r \in Jobs /\ TenantOf[r] = t /\ (call = "fail" => row[r].state = "running")
  /\ call = "mark" => row[OrderOf[r]].state = "cancelled"
  /\ tx' = [tx EXCEPT ![c] =
       [Idle EXCEPT !.call = call, !.for = t, !.on = r, !.at = First(call)]]
  /\ settings' = [settings EXCEPT ![c] = Pin(t)]
  /\ UNCHANGED <<pool, row, wrote>>

\* LOCAL settings die with the transaction.
End(c) ==
  /\ tx' = [tx EXCEPT ![c] = Idle]
  /\ wrote' = [wrote EXCEPT ![c] = <<>>]
  /\ settings' = [settings EXCEPT ![c] = Unpinned]
  /\ UNCHANGED pool

Commit(c) == Busy(c) /\ tx[c].at = "commit" /\ row' = Over(wrote[c], row) /\ End(c)

\* JobNotRunningError leaves the callback.
Rollback(c) == Busy(c) /\ tx[c].at = "rollback" /\ UNCHANGED row /\ End(c)

\* The connection, or the process, is lost between two statements.
Crash(c) == Busy(c) /\ UNCHANGED row /\ End(c)

\* The transactions c waits for, at the rows it has still to write.
WaitsFor(c) ==
  IF \E r \in tx[c].todo : ~LockedByOther(c, r) THEN {}
  ELSE {d \in Connections \ {c} : tx[c].todo \cap DOMAIN wrote[d] # {}}

\* The transactions of S wait for each other: each for another, and another for it.
Cycle(S) ==
  /\ S # {}
  /\ \A c \in S : WaitsFor(c) \cap S # {} /\ \E d \in S : c \in WaitsFor(d)

\* The engine's deadlock detector aborts one of them.
BreakDeadlock(c) ==
  /\ \E S \in SUBSET Connections : c \in S /\ Cycle(S)
  /\ UNCHANGED row
  /\ End(c)

LeaseExpires(j) ==
  /\ row[j].lease = "live"
  /\ row' = [row EXCEPT ![j].lease = "expired"]
  /\ UNCHANGED <<pool, wrote, tx, settings>>

-----------------------------------------------------------------------------
\* Orders are submitted and nothing has run; the engine opened its pool.
Init ==
  /\ pool \in (SUBSET Connections) \ {{}}
  /\ row = [r \in Rows |->
       IF r \in Orders THEN [state |-> "open"]
       ELSE [state |-> "pending", attempts |-> 0, lease |-> "null"]]
  /\ wrote = [c \in Connections |-> <<>>]
  /\ tx = [c \in Connections |-> Idle]
  /\ settings = [c \in Connections |-> Unpinned]

Proceed(c) ==
  \/ \E ok \in BOOLEAN : Execute(c, ok)
  \/ ReadAttempts(c)
  \/ ReadExpired(c)
  \/ Claim(c)
  \/ Commit(c)
  \/ Rollback(c)

Next ==
  \/ \E c \in Connections, call \in Calls, t \in Tenants, r \in Rows \cup {Nobody} :
       Begin(c, call, t, r)
  \/ \E c \in Connections : Proceed(c) \/ Crash(c) \/ BreakDeadlock(c)
  \/ \E j \in Jobs : LeaseExpires(j)

Spec == Init /\ [][Next]_vars

-----------------------------------------------------------------------------
(* What the statements guarantee, however they interleave.                 *)

\* A job is handed to one claimant at a time: two claims that overlap never take
\* the same row (SKIP LOCKED), so each attempt counted is a run of its own.
ClaimedOnce ==
  [][\A j \in Jobs : row'[j].attempts > row[j].attempts =>
       row[j].state = "pending" /\ row'[j].attempts = row[j].attempts + 1]_row

\* An answer lands on a running job only, even when it had to wait for a reap
\* or a cancel of that very job (finishJob's WHERE, asked again).
AnsweredWhileRunning ==
  [][\A j \in Jobs : row[j].state # row'[j].state /\ row'[j].state \in {"succeeded", "failed"} =>
       row[j].state = "running"]_row

\* Nothing brings a cancelled order back, not even a close or a reopen that was
\* under way when the cancel committed.
CancelledIsFinal ==
  [][\A o \in Orders : row[o].state = "cancelled" => row'[o].state = "cancelled"]_row

\* A commit changes rows of the tenant it was made for alone, whatever rows that
\* tenant named (withTenant and the row policies).
OthersRowsUntouched ==
  [][\A r \in Rows, c \in Connections :
       Busy(c) /\ tx'[c] = Idle /\ row'[r] # row[r] => TenantOf[r] = tx[c].for]_vars

\* Whether orderProgress counts an item of the order as pending or running.
Left == [o \in Orders |-> \E j \in JobsOf(o) : row[j].state \in {"pending", "running"}]
Promise == INSTANCE OrderPromise WITH state <- [o \in Orders |-> row[o].state], left <- Left

\* On the engine of one connection a call is as good as atomic: orders move as
\* promised, although every call is several statements.
SerialPromise == [][Serial => Promise!Next]_row

\* On the engine of one connection no claim passes the tenant's cap and no job
\* is run more often than its budget, though both are read before they are used.
SerialWithinLimits ==
  Serial =>
    /\ \A t \in Tenants :
         Cardinality({j \in Jobs : TenantOf[j] = t /\ row[j].state = "running"}) <= Cap
    /\ \A j \in Jobs :
         row[j].attempts <= MaxAttempts /\ (row[j].state = "pending" => row[j].attempts < MaxAttempts)

\* Transactions come to wait for each other only where one takes several jobs one
\* after the other, as reaps and cancels do.  Answers, failures, beats and
\* requeues take one job and then its order: they are caught in a deadlock only
\* at an order that a reap holds, in whatever order an UPDATE comes by its rows;
\* on one connection there is none.
DeadlocksNeedBulkCalls ==
  \A S \in SUBSET Connections : Cycle(S) =>
    /\ ~Serial
    /\ \A c \in S :
         \/ tx[c].call \in {"reap", "cancel"}
         \/ \A d \in WaitsFor(c) \cap S : tx[d].call = "reap"

-----------------------------------------------------------------------------
\* "An order is done when nothing is left to run in it."
NothingLeftIsDone ==
  \A o \in Orders : row[o].state = "open" => Left[o]
=============================================================================
