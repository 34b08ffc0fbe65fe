---------------------------- MODULE SerialProofs ----------------------------
(***************************************************************************)
(* On the engine of one connection, and for every number of tenants,       *)
(* orders and jobs, the queue's calls are as good as atomic although each  *)
(* is several statements: orders move as promised, and what a statement    *)
(* read is still so when the next one uses it.                             *)
(*                                                                         *)
(* The invariant is about the rows as the one call sees them, committed    *)
(* rows and its own writes: between two of its statements an order may be  *)
(* behind its jobs, and only the order the next statement will put right.  *)
(***************************************************************************)
EXTENDS TransactionsProofs

\* The rows as c's next statement reads them.
View(c) == [r \in Rows |-> Seen(c, r)]

LeftIn(v, o) == \E j \in JobsOf(o) : v[j].state \in {"pending", "running"}
RunningIn(v, n) == {j \in Jobs : TenantOf[j] = n /\ v[j].state = "running"}

\* What a call has found out is still so.
Current(t, v) ==
  /\ \A j \in t.ids : v[j].state = "running" /\ TenantOf[j] = t.for
  /\ \/ t.at = "fail"
     \/ t.at = "attempts" /\ t.ids = {}
     => v[t.on].state = "running" /\ TenantOf[t.on] = t.for
  /\ t.at = "fail" => t.on \notin t.ids /\ (t.spent <=> v[t.on].attempts >= MaxAttempts)
  /\ t.at = "mark" => v[OrderOf[t.on]].state = "cancelled"
  /\ t.at \in {"finish", "close", "reopen"} => TenantOf[t.on] = t.for
  /\ t.at = "reopen" => v[t.on].state = "pending"

\* An order is open while something of it is left and done when nothing is, but
\* for the one the call is about to put right.
Settled(t, v) ==
  \A o \in Orders :
    /\ v[o].state = "done" /\ LeftIn(v, o) => t.at = "reopen" /\ o = OrderOf[t.on]
    /\ v[o].state = "open" /\ ~LeftIn(v, o) =>
         \/ t.at = "close" /\ o = OrderOf[t.on]
         \/ t.at \in {"ask", "cancel"} /\ o = t.on /\ TenantOf[o] = t.for

Limited(v) ==
  /\ \A n \in Tenants : Cardinality(RunningIn(v, n)) <= Cap
  /\ \A j \in Jobs :
       v[j].attempts <= MaxAttempts /\ (v[j].state = "pending" => v[j].attempts < MaxAttempts)

\* An order that is done in b, the committed rows, is cancelled with nothing left,
\* and then the call commits.
CancelsDone(b, t, v) ==
  \A o \in Orders : b[o].state = "done" /\ v[o].state = "cancelled" =>
    t.at = "commit" /\ ~LeftIn(v, o)

Good(b, t, v) == Current(t, v) /\ Settled(t, v) /\ Limited(v) /\ CancelsDone(b, t, v)

SerialInv ==
  Serial =>
    /\ Good(row, Idle, row)
    /\ \A c \in Connections : tx[c].todo = {} /\ Good(row, tx[c], View(c))

-----------------------------------------------------------------------------
(* Views.                                                                  *)

Typed(v) == \A r \in Rows : RowType(r, v[r])

\* A view holds a row of each kind where it belongs.
LEMMA ViewTyped ==
  ASSUME TInv, NEW c \in Connections
  PROVE  Typed(View(c)) /\ \A r \in Rows : View(c)[r] = Seen(c, r)
BY SeenType DEF TInv, Typed, View

\* The connection at work is alone: nobody else holds a row.
LEMMA AloneAtWork ==
  ASSUME TInv, Serial, NEW c \in Connections, Busy(c)
  PROVE  /\ \A d \in Connections : d # c => ~Busy(d) /\ DOMAIN wrote[d] = {}
         /\ \A r : ~LockedByOther(c, r)
<1>1. ASSUME NEW d \in Connections, d # c PROVE ~Busy(d) /\ DOMAIN wrote[d] = {}
  <2>1. IsFiniteSet(pool)
    BY PoolAssumption, FS_Subset DEF TInv, Types
  <2>2. \E x : pool = {x}
    BY <2>1, FS_Singleton DEF Serial
  <2>3. ~Busy(d)
    BY <1>1, <2>2 DEF TInv, Sound, Pinned
  <2>4. QED
    BY <2>3 DEF TInv, Sound, Pinned
<1>2. QED
  BY <1>1 DEF LockedByOther

\* A connection that has written nothing sees the committed rows.
LEMMA IdleSees ==
  ASSUME NEW c \in Connections, DOMAIN wrote[c] = {}
  PROVE  \A r \in Rows : View(c)[r] = row[r]
BY DEF View, Seen

\* The rows of the tenant a connection is pinned to are those it sees.
LEMMA VisibleIff ==
  ASSUME TInv, NEW c \in Connections, Busy(c)
  PROVE  \A r \in Rows : r \in Visible(c) <=> TenantOf[r] = tx[c].for
<1>1. settings[c] = [role |-> "app", tenant |-> tx[c].for]
  BY DEF TInv, Sound, Pinned, Pin
<1>2. settings[c].role # "owner" /\ settings[c].tenant = tx[c].for
  BY <1>1
<1>3. QED
  BY <1>2 DEF Visible

\* An order and its jobs are of one tenant, so a close sees all that is left.
LEMMA NothingLeftIs ==
  ASSUME TInv, NEW c \in Connections, Busy(c), tx[c].on \in Jobs, TenantOf[tx[c].on] = tx[c].for
  PROVE  NothingLeft(c) <=> ~LeftIn(View(c), OrderOf[tx[c].on])
<1>1. OrderOfTx(c) = OrderOf[tx[c].on]
  BY PoolAssumption DEF OrderOfTx
<1>2. \A j \in JobsOf(OrderOf[tx[c].on]) : j \in Jobs /\ j \in Rows /\ TenantOf[j] = tx[c].for
  BY PoolAssumption DEF JobsOf, Rows
<1>3. \A j \in JobsOf(OrderOf[tx[c].on]) : j \in Visible(c) /\ View(c)[j] = Seen(c, j)
  BY <1>2, VisibleIff, ViewTyped
<1>4. QED
  BY <1>1, <1>2, <1>3 DEF NothingLeft, InStates, LeftIn

\* What each UPDATE asks of a row, and makes of it.
LEMMA AfterState ==
  ASSUME NEW t, t.at \in Updates, NEW v, NEW ok \in BOOLEAN, Where(t.at, v),
         t.at \in {"reopen", "cancel", "close"} => v \in OrderRow,
         t.at \notin {"reopen", "cancel", "close"} => v \in JobRow
  PROVE  LET w == After(t, v, ok) IN
         /\ t.at \in {"beat", "ask"} =>
              v.state = "running" /\ w.state = "running" /\ w.attempts = v.attempts
         /\ t.at = "finish" =>
              v.state = "running" /\ w.state \in {"succeeded", "failed"} /\ w.attempts = v.attempts
         /\ t.at = "fail" =>
              w.state = (IF t.spent THEN "dead" ELSE "pending") /\ w.attempts = v.attempts
         /\ t.at = "flip" =>
              v.state = "pending" /\ w.state = "cancelled" /\ w.attempts = v.attempts
         /\ t.at = "mark" =>
              v.state = "running" /\ w.state = "cancelled" /\ w.attempts = v.attempts
         /\ t.at = "requeue" =>
              v.state \in {"dead", "failed"} /\ w.state = "pending" /\ w.attempts = 0
         /\ t.at = "reopen" => v.state = "done" /\ w.state = "open"
         /\ t.at = "cancel" => v.state \in {"open", "done"} /\ w.state = "cancelled"
         /\ t.at = "close" => v.state = "open" /\ w.state = "done"
<1> DEFINE w == After(t, v, ok)
<1>1. t.at \in {"beat", "finish", "fail", "requeue", "flip", "ask", "mark", "reopen", "cancel", "close"}
  BY DEF Updates, Statements
<1>2. CASE t.at = "beat"
  <2>1. v.state = "running" /\ v \in JobRow /\ w = [v EXCEPT !.lease = "live"]
    BY <1>2 DEF Where, After
  <2>2. QED
    BY <1>2, <2>1 DEF JobRow
<1>3. CASE t.at = "ask"
  BY <1>3 DEF Where, After
<1>4. CASE t.at = "finish"
  <2>1. v.state = "running" /\ v \in JobRow /\ w = Stop(v, IF ok THEN "succeeded" ELSE "failed")
    BY <1>4 DEF Where, After, Answerable
  <2>2. QED
    BY <1>4, <2>1, StopIs
<1>5. CASE t.at = "fail"
  <2>1. v \in JobRow /\ w = Stop(v, IF t.spent THEN "dead" ELSE "pending")
    BY <1>5 DEF After
  <2>2. QED
    BY <1>5, <2>1, StopIs
<1>6. CASE t.at = "flip"
  <2>1. v.state = "pending" /\ v \in JobRow /\ w = Stop(v, "cancelled")
    BY <1>6 DEF Where, After
  <2>2. QED
    BY <1>6, <2>1, StopIs
<1>7. CASE t.at = "mark"
  <2>1. v.state = "running" /\ v \in JobRow /\ w = Stop(v, "cancelled")
    BY <1>7 DEF Where, After
  <2>2. QED
    BY <1>7, <2>1, StopIs
<1>8. CASE t.at = "requeue"
  <2>1. v.state \in {"dead", "failed"} /\ v \in JobRow /\ w = [Stop(v, "pending") EXCEPT !.attempts = 0]
    BY <1>8 DEF Where, After
  <2>2. w = [state |-> "pending", attempts |-> 0, lease |-> "null"]
    BY <2>1, StopIs
  <2>3. QED
    BY <1>8, <2>1, <2>2
<1>9. CASE t.at \in {"reopen", "cancel", "close"}
  BY <1>9 DEF Where, After, OrderRow, Closable
<1>10. QED
  BY <1>1, <1>2, <1>3, <1>4, <1>5, <1>6, <1>7, <1>8, <1>9

\* Where each UPDATE leads.
LEMMA NextIs ==
  ASSUME TInv, NEW c \in Connections, Busy(c), tx[c].at \in Updates, NEW u \in BOOLEAN
  PROVE  LET t == tx[c]
             s == Following(c, u)
             more == IF t.ids = {} THEN "commit" ELSE "attempts"
         IN
         /\ t.at = "finish" => s = IF u THEN "close" ELSE "rollback"
         /\ t.at = "fail" => s = IF t.spent THEN "close" ELSE more
         /\ t.at = "close" => s = more
         /\ t.at = "requeue" => s = IF u THEN "reopen" ELSE "commit"
         /\ t.at = "flip" => s = "ask"
         /\ t.at = "ask" => s = "cancel"
         /\ t.at \in {"cancel", "beat", "mark", "reopen"} => s = "commit"
<1>1. tx[c] \in TxRecord /\ Placed(tx[c]) /\ tx[c].call # "none"
  BY DEF TInv, Sound, Types, Busy
<1>2. QED
  BY <1>1 DEF Placed, Following, AfterCancels, Updates, Statements

\* What runs of a tenant is a finite set.
LEMMA RunningFinite ==
  ASSUME NEW v, NEW n
  PROVE  IsFiniteSet(RunningIn(v, n)) /\ Cardinality(RunningIn(v, n)) \in Nat
<1>1. RunningIn(v, n) \subseteq Rows
  BY DEF RunningIn, Rows
<1>2. IsFiniteSet(RunningIn(v, n))
  BY <1>1, PoolAssumption, FS_Subset
<1>3. QED
  BY <1>2, FS_CardinalityType

\* The limits last where nothing is started and what is put back has attempts left.
LEMMA LimitsShrink ==
  ASSUME NEW v, NEW w, Typed(v), Typed(w), Limited(v),
         \A j \in Jobs :
           /\ w[j].attempts <= v[j].attempts
           /\ w[j].state = "running" => v[j].state = "running"
           /\ w[j].state = "pending" => v[j].state = "pending" \/ w[j].attempts < MaxAttempts
  PROVE  Limited(w)
<1>1. ASSUME NEW n \in Tenants PROVE Cardinality(RunningIn(w, n)) <= Cap
  <2>1. RunningIn(w, n) \subseteq RunningIn(v, n)
    BY DEF RunningIn
  <2>2. Cardinality(RunningIn(w, n)) <= Cardinality(RunningIn(v, n))
    BY <2>1, RunningFinite, FS_Subset
  <2>3. Cardinality(RunningIn(v, n)) <= Cap
    BY DEF Limited
  <2>4. QED
    BY <2>2, <2>3, RunningFinite, PoolAssumption
<1>2. ASSUME NEW j \in Jobs
      PROVE  w[j].attempts <= MaxAttempts /\ (w[j].state = "pending" => w[j].attempts < MaxAttempts)
  <2>1. w[j].attempts \in Nat /\ v[j].attempts \in Nat
    BY DEF Typed, RowType, JobRow, Rows
  <2>2. v[j].attempts <= MaxAttempts /\ (v[j].state = "pending" => v[j].attempts < MaxAttempts)
    BY DEF Limited
  <2>3. QED
    BY <2>1, <2>2, PoolAssumption
<1>3. QED
  BY <1>1, <1>2 DEF Limited

\* On one connection an UPDATE waits for nobody: it writes all it matched.
LEMMA UpdateIs ==
  ASSUME TInv, Serial, NEW c \in Connections, tx[c].todo = {}, NEW ok \in BOOLEAN, Execute(c, ok)
  PROVE  \E u \in BOOLEAN :
         /\ Busy(c) /\ tx[c].at \in Updates /\ UNCHANGED <<pool, row, settings>>
         /\ \A d \in Connections : d # c => tx'[d] = tx[d] /\ wrote'[d] = wrote[d]
         /\ tx'[c] = At(c, Following(c, u))
         /\ u = (Matched(c) # {})
         /\ \A r \in Rows :
              View(c)'[r] = IF r \in Matched(c) THEN After(tx[c], View(c)[r], ok) ELSE View(c)[r]
<1>1. PICK T : Writes(c, T, ok)
  BY ExecuteWrites
<1>2. Busy(c) /\ \A r : ~LockedByOther(c, r)
  BY <1>1, AloneAtWork DEF Writes
<1>3. Selected(c) = Matched(c) /\ T = Matched(c)
  BY <1>1, <1>2 DEF Writes, Selected
<1>4. Written(c, T) = Matched(c)
  BY <1>3 DEF Written, Matched, WriteStill
<1>5. /\ wrote' = [wrote EXCEPT ![c] =
              Over([r \in Matched(c) |-> After(tx[c], Seen(c, r), ok)], wrote[c])]
      /\ tx' = [tx EXCEPT ![c] = At(c, Following(c, Matched(c) # {}))]
  BY <1>1, <1>3, <1>4 DEF Writes
<1>6. PICK u \in BOOLEAN : u = (Matched(c) # {})
  OBVIOUS
<1>7. tx' = [tx EXCEPT ![c] = At(c, Following(c, u))]
  BY <1>5, <1>6
<1>8. tx \in [Connections -> TxRecord] /\ IsFn(wrote) /\ DOMAIN wrote = Connections
  BY DEF TInv, Types
<1>9. PICK F : /\ DOMAIN F = Matched(c)
               /\ \A r \in Matched(c) : F[r] = After(tx[c], Seen(c, r), ok)
               /\ wrote' = [wrote EXCEPT ![c] = Over(F, wrote[c])]
  <2> DEFINE G == [r \in Matched(c) |-> After(tx[c], Seen(c, r), ok)]
  <2>1. DOMAIN G = Matched(c) /\ \A r \in Matched(c) : G[r] = After(tx[c], Seen(c, r), ok)
    OBVIOUS
  <2>2. wrote' = [wrote EXCEPT ![c] = Over(G, wrote[c])]
    BY <1>5
  <2> HIDE DEF G
  <2>3. QED
    BY <2>1, <2>2
<1>10. /\ DOMAIN wrote'[c] = Matched(c) \cup DOMAIN wrote[c]
       /\ \A r \in Matched(c) : wrote'[c][r] = F[r]
       /\ \A r \in DOMAIN wrote[c] : r \notin Matched(c) => wrote'[c][r] = wrote[c][r]
  <2> DEFINE W == wrote[c]
             H == Over(F, W)
  <2> HIDE DEF W
  <2>1. /\ DOMAIN H = DOMAIN F \cup DOMAIN W
        /\ \A r \in DOMAIN F : H[r] = F[r]
        /\ \A r \in DOMAIN W : r \notin DOMAIN F => H[r] = W[r]
    BY OverIs
  <2>2. wrote'[c] = H
    BY <1>8, <1>9 DEF W
  <2> HIDE DEF H
  <2>3. QED
    BY <1>9, <2>1, <2>2 DEF W
<1>11. row' = row
  BY <1>1 DEF Writes
<1>12. ASSUME NEW r \in Rows
       PROVE  View(c)'[r] = IF r \in Matched(c) THEN After(tx[c], View(c)[r], ok) ELSE View(c)[r]
  <2>1. View(c)[r] = Seen(c, r) /\ View(c)'[r] = Seen(c, r)'
    BY DEF View
  <2>2. CASE r \in Matched(c)
    <3>1. Seen(c, r)' = F[r]
      BY <1>10, <2>2 DEF Seen
    <3>2. QED
      BY <1>9, <2>1, <2>2, <3>1
  <2>3. CASE r \notin Matched(c)
    <3>1. Seen(c, r)' = Seen(c, r)
      BY <1>10, <1>11, <2>3 DEF Seen
    <3>2. QED
      BY <2>1, <2>3, <3>1
  <2>4. QED
    BY <2>2, <2>3
<1>13. \A d \in Connections : d # c => tx'[d] = tx[d] /\ wrote'[d] = wrote[d]
  BY <1>7, <1>8, <1>9
<1>14. tx'[c] = At(c, Following(c, u))
  BY <1>7, <1>8
<1>15. Busy(c) /\ tx[c].at \in Updates /\ UNCHANGED <<pool, row, settings>>
  BY <1>1 DEF Writes
<1> HIDE DEF View
<1>16. QED
  BY <1>6, <1>12, <1>13, <1>14, <1>15

-----------------------------------------------------------------------------
(* The steps.                                                              *)

\* Where nothing is written, the committed rows are what is seen.
LEMMA IdleIsRow ==
  ASSUME Types, NEW c \in Connections, DOMAIN wrote[c] = {}
  PROVE  View(c) = row
<1>1. View(c) = [r \in Rows |-> row[r]]
  BY DEF View, Seen
<1>2. row = [r \in Rows |-> row[r]]
  BY DEF Types, IsFn
<1>3. QED
  BY <1>1, <1>2

\* An UPDATE leaves its call knowing what is so, and at most its own order behind.
LEMMA UpdateGood ==
  ASSUME TInv, TInv', Serial, NEW c \in Connections, tx[c].todo = {}, Good(row, tx[c], View(c)),
         NEW ok \in BOOLEAN, Execute(c, ok)
  PROVE  Good(row, tx[c], View(c))' /\ tx'[c].todo = {}
<1> DEFINE t == tx[c]
           v == View(c)
           M == Matched(c)
           w == View(c)'
           x == tx'[c]
           more == IF t.ids = {} THEN "commit" ELSE "attempts"
<1>1. PICK u \in BOOLEAN :
         /\ Busy(c) /\ t.at \in Updates /\ UNCHANGED <<pool, row, settings>>
         /\ x = At(c, Following(c, u))
         /\ u = (M # {})
         /\ \A r \in Rows : w[r] = IF r \in M THEN After(t, v[r], ok) ELSE v[r]
  BY UpdateIs
<1>2. /\ Typed(v) /\ Typed(w) /\ \A r \in Rows : v[r] = Seen(c, r)
  <2>1. Typed(View(c))'
    BY DEF TInv, Types, Typed, View, Seen
  <2>2. QED
    BY <2>1, ViewTyped DEF Typed
<1>3. /\ t \in TxRecord /\ Placed(t) /\ t.call # "none" /\ t.for \in Tenants
      /\ (t.ids # {} => t.call = "reap")
  BY <1>1 DEF TInv, Sound, Types, Busy, Placed
<1>4. \A r \in Rows :
        r \in M <=> /\ r \in Named(c) /\ TenantOf[r] = t.for /\ Where(t.at, v[r])
                    /\ t.at = "close" => NothingLeft(c)
  BY <1>1, <1>2, VisibleIff DEF Matched
<1>5. /\ t.at = "finish" => x.at = IF u THEN "close" ELSE "rollback"
      /\ t.at = "fail" => x.at = IF t.spent THEN "close" ELSE more
      /\ t.at = "close" => x.at = more
      /\ t.at = "requeue" => x.at = IF u THEN "reopen" ELSE "commit"
      /\ t.at = "flip" => x.at = "ask"
      /\ t.at = "ask" => x.at = "cancel"
      /\ t.at \in {"cancel", "beat", "mark", "reopen"} => x.at = "commit"
      /\ x.todo = {} /\ x.for = t.for /\ x.ids = t.ids /\ (x.at # "commit" => x.on = t.on)
  <2>1. Following(c, u) \in Statements
    BY <1>1, FollowingIs
  <2>2. /\ x.at = Following(c, u) /\ x.todo = {} /\ x.for = t.for /\ x.ids = t.ids
        /\ (x.at # "commit" => x.on = t.on)
    <3> DEFINE s == Following(c, u)
    <3>1. Types /\ s \in Statements /\ x = At(c, s)
      BY <1>1, <2>1 DEF TInv
    <3> HIDE DEF s, x
    <3>2. /\ At(c, s).at = s /\ At(c, s).todo = {} /\ At(c, s).for = tx[c].for
          /\ At(c, s).ids = tx[c].ids /\ At(c, s).on = IF s = "commit" THEN Nobody ELSE tx[c].on
      BY <3>1, AtIs
    <3>3. QED
      BY <3>1, <3>2 DEF s
  <2>3. QED
    BY <1>1, <2>2, NextIs
<1>6. /\ \A r \in M : r \in Rows
      /\ t.at \in {"flip", "ask"} => t.on \in Orders /\ \A r \in Rows : r \in Named(c) <=> r \in JobsOf(t.on)
      /\ t.at = "cancel" => t.on \in Orders /\ \A r \in Rows : r \in Named(c) <=> r = t.on
      /\ t.at \in {"reopen", "close"} => t.on \in Jobs /\ \A r \in Rows : r \in Named(c) <=> r = OrderOf[t.on]
      /\ t.at \in {"beat", "finish", "fail", "requeue", "mark"} =>
           t.on \in Jobs /\ \A r \in Rows : r \in Named(c) <=> r = t.on
  <2>1. M \subseteq Rows
    BY <1>1, VisibleIsOwn DEF Matched
  <2>2. QED
    BY <1>3, <2>1, PoolAssumption DEF Named, OrderOfTx, Placed
<1>7. /\ \A j \in Jobs : j \in Rows /\ j \notin Orders /\ OrderOf[j] \in Orders
      /\ \A o \in Orders : o \in Rows /\ o \notin Jobs
      /\ \A j \in Jobs, o \in Orders : j \in JobsOf(o) <=> OrderOf[j] = o
      /\ \A o \in Orders : \A j \in JobsOf(o) : j \in Jobs /\ TenantOf[j] = TenantOf[o]
  BY PoolAssumption DEF Rows, JobsOf
<1>8. /\ Current(t, v) /\ Settled(t, v) /\ Limited(v) /\ CancelsDone(row, t, v)
  BY DEF Good
<1>9. t.at \in {"close"} => TenantOf[t.on] = t.for /\ (NothingLeft(c) <=> ~LeftIn(v, OrderOf[t.on]))
  BY <1>1, <1>6, <1>8, NothingLeftIs DEF Current
<1>10. row' = row
  BY <1>1
<1>11. ASSUME NEW r \in M
       PROVE  /\ t.at \in {"reopen", "cancel", "close"} => v[r] \in OrderRow
              /\ t.at \notin {"reopen", "cancel", "close"} => v[r] \in JobRow
              /\ Where(t.at, v[r]) /\ w[r] = After(t, v[r], ok)
  BY <1>1, <1>2, <1>4, <1>6, <1>7, NamedKind DEF Typed, RowType
<1> HIDE DEF t, v, M, w, x
<1>12. \A r \in M :
         /\ t.at \in {"beat", "ask"} =>
              v[r].state = "running" /\ w[r].state = "running" /\ w[r].attempts = v[r].attempts
         /\ t.at = "finish" =>
              v[r].state = "running" /\ w[r].state \in {"succeeded", "failed"} /\ w[r].attempts = v[r].attempts
         /\ t.at = "fail" =>
              w[r].state = (IF t.spent THEN "dead" ELSE "pending") /\ w[r].attempts = v[r].attempts
         /\ t.at = "flip" =>
              v[r].state = "pending" /\ w[r].state = "cancelled" /\ w[r].attempts = v[r].attempts
         /\ t.at = "mark" =>
              v[r].state = "running" /\ w[r].state = "cancelled" /\ w[r].attempts = v[r].attempts
         /\ t.at = "requeue" =>
              v[r].state \in {"dead", "failed"} /\ w[r].state = "pending" /\ w[r].attempts = 0
         /\ t.at = "reopen" => v[r].state = "done" /\ w[r].state = "open"
         /\ t.at = "cancel" => v[r].state \in {"open", "done"} /\ w[r].state = "cancelled"
         /\ t.at = "close" => v[r].state = "open" /\ w[r].state = "done"
  BY <1>1, <1>11, AfterState
<1>13. \A r \in Rows : r \notin M => w[r] = v[r]
  BY <1>1
<1>14. t.at \in {"beat", "finish", "fail", "requeue", "flip", "ask", "mark", "reopen", "cancel", "close"}
  BY <1>1 DEF Updates, Statements
<1>15. Limited(w)
  <2>1. ASSUME NEW j \in Jobs
        PROVE  /\ w[j].attempts <= v[j].attempts
               /\ w[j].state = "running" => v[j].state = "running"
               /\ w[j].state = "pending" => v[j].state = "pending" \/ w[j].attempts < MaxAttempts
    <3>1. v[j].attempts \in Nat /\ w[j].attempts \in Nat
      BY <1>2, <1>7 DEF Typed, RowType, JobRow
    <3>2. CASE j \notin M
      BY <1>7, <1>13, <3>1, <3>2
    <3>3. CASE j \in M
      <4>1. t.at \notin {"reopen", "cancel", "close"}
        BY <1>4, <1>6, <1>7, <3>3
      <4>2. t.at = "fail" /\ ~t.spent => v[j].attempts < MaxAttempts
        BY <1>4, <1>6, <1>8, <3>1, <3>3, <1>7, PoolAssumption DEF Current
      <4>3. QED
        BY <1>12, <1>14, <3>1, <3>3, <4>1, <4>2, PoolAssumption
    <3>4. QED
      BY <3>2, <3>3
  <2>2. QED
    BY <1>2, <1>8, <2>1, LimitsShrink
<1>16. ASSUME t.at \in {"reopen", "cancel", "close"}
       PROVE  /\ \A j \in Jobs : w[j] = v[j]
              /\ \A o \in Orders : LeftIn(w, o) <=> LeftIn(v, o)
  <2>1. \A j \in Jobs : w[j] = v[j]
    BY <1>4, <1>6, <1>7, <1>13, <1>16
  <2>2. QED
    BY <1>7, <2>1 DEF LeftIn
<1>17. ASSUME t.at \notin {"reopen", "cancel", "close"}
       PROVE  \A o \in Orders : w[o] = v[o]
  BY <1>4, <1>6, <1>7, <1>13, <1>14, <1>17
<1>18. Current(x, w)
  <2>1. ASSUME NEW j \in t.ids PROVE w[j].state = "running" /\ TenantOf[j] = t.for
    <3>1. j \in Jobs /\ v[j].state = "running" /\ TenantOf[j] = t.for /\ t.call = "reap"
      BY <1>3, <1>8, <2>1 DEF Current, TxRecord
    <3>2. t.at \in {"fail", "close"}
      BY <1>3, <1>14, <3>1 DEF Placed
    <3>3. j \notin M
      BY <1>4, <1>6, <1>7, <1>8, <2>1, <3>1, <3>2 DEF Current
    <3>4. QED
      BY <1>7, <1>13, <3>1, <3>3
  <2>2. x.at \notin {"finish", "fail", "mark"} /\ (x.at = "attempts" => t.ids # {})
    BY <1>5, <1>14
  <2>3. x.at = "close" => TenantOf[t.on] = t.for
    <3>1. x.at = "close" => t.at \in {"finish", "fail"}
      BY <1>5, <1>14
    <3>2. QED
      BY <1>8, <3>1 DEF Current
  <2>4. x.at = "reopen" => TenantOf[t.on] = t.for /\ w[t.on].state = "pending"
    <3> SUFFICES ASSUME x.at = "reopen" PROVE TenantOf[t.on] = t.for /\ w[t.on].state = "pending"
      OBVIOUS
    <3>1. t.at = "requeue" /\ M # {}
      BY <1>1, <1>5, <1>14
    <3>2. PICK r \in M : r = t.on
      BY <1>4, <1>6, <3>1
    <3>3. QED
      BY <1>4, <1>6, <1>12, <3>1, <3>2
  <2>5. QED
    BY <1>5, <2>1, <2>2, <2>3, <2>4 DEF Current
<1>19. Settled(x, w)
  <2> SUFFICES ASSUME NEW o \in Orders
               PROVE  /\ w[o].state = "done" /\ LeftIn(w, o) => x.at = "reopen" /\ o = OrderOf[x.on]
                      /\ w[o].state = "open" /\ ~LeftIn(w, o) =>
                           \/ x.at = "close" /\ o = OrderOf[x.on]
                           \/ x.at \in {"ask", "cancel"} /\ o = x.on /\ TenantOf[o] = x.for
    BY DEF Settled
  <2>0. /\ v[o].state = "done" /\ LeftIn(v, o) => t.at = "reopen" /\ o = OrderOf[t.on]
        /\ v[o].state = "open" /\ ~LeftIn(v, o) =>
             \/ t.at = "close" /\ o = OrderOf[t.on]
             \/ t.at \in {"ask", "cancel"} /\ o = t.on /\ TenantOf[o] = t.for
    BY <1>8 DEF Settled
  <2>1. CASE t.at \in {"beat", "ask"}
    <3>1. \A j \in Jobs : w[j].state = v[j].state
      BY <1>7, <1>12, <1>13, <2>1
    <3>2. LeftIn(w, o) <=> LeftIn(v, o)
      BY <1>7, <3>1 DEF LeftIn
    <3>3. QED
      BY <1>5, <1>17, <2>0, <2>1, <3>2
  <2>2. CASE t.at \in {"finish", "fail", "mark", "requeue"}
    <3>1. t.on \in Jobs /\ \A j \in Jobs : j # t.on => w[j] = v[j]
      BY <1>4, <1>6, <1>7, <1>13, <2>2
    <3>2. o # OrderOf[t.on] => (LeftIn(w, o) <=> LeftIn(v, o))
      BY <1>7, <3>1 DEF LeftIn
    <3>3. CASE o # OrderOf[t.on]
      BY <1>17, <2>0, <2>2, <3>2, <3>3
    <3>4. CASE o = OrderOf[t.on] /\ t.on \notin M
      <4>1. \A j \in Jobs : w[j] = v[j]
        BY <1>7, <1>13, <3>1, <3>4
      <4>2. LeftIn(w, o) <=> LeftIn(v, o)
        BY <1>7, <4>1 DEF LeftIn
      <4>3. QED
        BY <1>17, <2>0, <2>2, <4>2
    <3>5. CASE o = OrderOf[t.on] /\ t.on \in M
      <4>1. t.on \in JobsOf(o) /\ w[o] = v[o]
        BY <1>7, <1>17, <2>2, <3>1, <3>5
      <4>2. CASE t.at \in {"finish", "fail"}
        <5>1. LeftIn(v, o)
          BY <1>8, <1>12, <3>5, <4>1, <4>2 DEF Current, LeftIn
        <5>2. (x.at = "close" /\ x.on = t.on) \/ LeftIn(w, o)
          BY <1>1, <1>5, <1>12, <3>5, <4>1, <4>2 DEF LeftIn
        <5>3. QED
          BY <2>0, <3>5, <4>1, <4>2, <5>1, <5>2
      <4>3. CASE t.at = "mark"
        BY <1>8, <3>5, <4>1, <4>3 DEF Current
      <4>4. CASE t.at = "requeue"
        <5>1. LeftIn(w, o)
          BY <1>12, <3>5, <4>1, <4>4 DEF LeftIn
        <5>2. x.at = "reopen" /\ x.on = t.on
          BY <1>1, <1>5, <3>5, <4>4
        <5>3. QED
          BY <3>5, <5>1, <5>2
      <4>5. QED
        BY <2>2, <4>2, <4>3, <4>4
    <3>6. QED
      BY <3>3, <3>4, <3>5
  <2>3. CASE t.at = "flip"
    <3>1. x.at = "ask" /\ x.on = t.on /\ x.for = t.for /\ t.on \in Orders /\ w[o] = v[o]
      BY <1>5, <1>6, <1>17, <2>3
    <3>2. \A j \in M : w[j].state = "cancelled" /\ v[j].state = "pending"
                      /\ j \in JobsOf(t.on) /\ TenantOf[j] = t.for
      BY <1>4, <1>6, <1>12, <2>3
    <3>3. LeftIn(w, o) => LeftIn(v, o)
      BY <1>7, <1>13, <3>2 DEF LeftIn
    <3>4. o # t.on \/ TenantOf[o] # t.for => \A j \in JobsOf(o) : w[j] = v[j]
      BY <1>7, <1>13, <3>1, <3>2
    <3>5. o # t.on \/ TenantOf[o] # t.for => (LeftIn(w, o) <=> LeftIn(v, o))
      BY <3>4 DEF LeftIn
    <3>6. QED
      BY <2>0, <2>3, <3>1, <3>3, <3>5
  <2>4. CASE t.at \in {"reopen", "close"}
    <3>1. /\ t.on \in Jobs /\ TenantOf[t.on] = t.for /\ TenantOf[OrderOf[t.on]] = t.for
          /\ LeftIn(w, o) <=> LeftIn(v, o)
      BY <1>6, <1>7, <1>8, <1>16, <2>4, PoolAssumption DEF Current
    <3>2. CASE o # OrderOf[t.on]
      BY <1>4, <1>6, <1>7, <1>13, <2>0, <2>4, <3>1, <3>2
    <3>3. CASE o = OrderOf[t.on] /\ t.at = "reopen"
      <4>1. LeftIn(v, o)
        BY <1>7, <1>8, <3>1, <3>3 DEF Current, LeftIn
      <4>2. v[o].state = "done" => o \in M
        BY <1>4, <1>6, <1>7, <3>1, <3>3 DEF Where
      <4>3. QED
        BY <1>7, <1>12, <1>13, <3>1, <3>3, <4>1, <4>2
    <3>4. CASE o = OrderOf[t.on] /\ t.at = "close"
      <4>1. v[o].state = "open" /\ ~LeftIn(v, o) => o \in M
        BY <1>4, <1>6, <1>7, <1>9, <3>1, <3>4 DEF Where, Closable
      <4>2. o \in M => ~LeftIn(v, o) /\ w[o].state = "done"
        BY <1>4, <1>7, <1>9, <1>12, <3>4
      <4>3. QED
        BY <1>7, <1>13, <2>0, <3>1, <3>4, <4>1, <4>2
    <3>5. QED
      BY <2>4, <3>2, <3>3, <3>4
  <2>5. CASE t.at = "cancel"
    <3>1. LeftIn(w, o) <=> LeftIn(v, o)
      BY <1>16, <2>5
    <3>2. o \in M => w[o].state = "cancelled"
      BY <1>12, <2>5
    <3>3. o \notin M /\ o = t.on /\ TenantOf[o] = t.for => v[o].state \notin {"open", "done"}
      BY <1>4, <1>6, <1>7, <2>5 DEF Where
    <3>4. o \notin M => w[o] = v[o]
      BY <1>7, <1>13
    <3>5. QED
      BY <2>0, <2>5, <3>1, <3>2, <3>3, <3>4
  <2>6. QED
    BY <1>14, <2>1, <2>2, <2>3, <2>4, <2>5
<1>20. CancelsDone(row, x, w)
  <2> SUFFICES ASSUME NEW o \in Orders, row[o].state = "done", w[o].state = "cancelled"
               PROVE  x.at = "commit" /\ ~LeftIn(w, o)
    BY DEF CancelsDone
  <2>1. v[o].state # "cancelled"
    BY <1>8, <1>14 DEF CancelsDone
  <2>2. o \in M
    BY <1>7, <1>13, <2>1
  <2>3. t.at \in {"reopen", "cancel", "close"}
    BY <1>7, <1>17, <2>1
  <2>4. t.at = "cancel"
    BY <1>12, <2>2, <2>3
  <2>5. t.call = "cancel" /\ DOMAIN wrote[c] \cap Orders = {}
    BY <1>3, <2>4 DEF TInv, Sound, JobThenOrder, Placed, t
  <2>6. v[o] = row[o]
    BY <1>2, <1>7, <2>5 DEF Seen
  <2>7. ~LeftIn(v, o)
    BY <1>8, <2>4, <2>6 DEF Settled
  <2>8. QED
    BY <1>5, <1>16, <2>3, <2>4, <2>7
<1>21. Good(row, x, w)
  BY <1>15, <1>18, <1>19, <1>20 DEF Good
<1>22. QED
  BY <1>5, <1>10, <1>21 DEF t, v, w, x, Good, CancelsDone, Current, Settled, Limited, LeftIn, RunningIn

\* The SELECTs find out what is so.
LEMMA ReadGood ==
  ASSUME TInv, NEW c \in Connections, Good(row, tx[c], View(c)), ReadExpired(c) \/ ReadAttempts(c)
  PROVE  Good(row, tx[c], View(c))' /\ tx'[c].todo = {} /\ row' = row
<1> DEFINE t == tx[c]
           v == View(c)
<1>1. /\ Busy(c) /\ UNCHANGED <<pool, row, wrote, settings>> /\ Types /\ Placed(t) /\ t \in TxRecord
      /\ tx \in [Connections -> TxRecord] /\ {"commit", "attempts", "fail"} \subseteq Statements
  BY DEF ReadExpired, ReadAttempts, TInv, Types, Sound, Statements
<1>2. View(c)' = v
  BY <1>1 DEF View, Seen
<1>3. \A r \in Rows : v[r] = Seen(c, r) /\ (r \in Visible(c) <=> TenantOf[r] = t.for)
  BY <1>1, ViewTyped, VisibleIff
<1>4. Current(t, v) /\ Settled(t, v) /\ Limited(v) /\ CancelsDone(row, t, v)
  BY DEF Good
<1>5. ASSUME NEW s \in {"commit", "attempts", "fail"}
      PROVE  /\ At(c, s) \in TxRecord /\ At(c, s).at = s /\ At(c, s).todo = {}
             /\ At(c, s).for = t.for /\ At(c, s).ids = t.ids
  BY <1>1, AtIs
<1> HIDE DEF t, v
<1>6. PICK x \in TxRecord : tx'[c] = x /\ x.todo = {} /\ Current(x, v) /\ t.at \in {"expired", "attempts"}
  <2>1. CASE ReadExpired(c)
    <3> DEFINE ids == {j \in InStates(c, {"running"}) : Seen(c, j).lease = "expired"}
    <3>1. /\ t.at = "expired" /\ ids \in SUBSET Jobs
          /\ tx'[c] = IF ids = {} THEN At(c, "commit") ELSE [At(c, "attempts") EXCEPT !.ids = ids]
      BY <1>1, <2>1 DEF ReadExpired, t, InStates
    <3>2. \A j \in ids : v[j].state = "running" /\ TenantOf[j] = t.for
      BY <1>3 DEF InStates, Rows
    <3> HIDE DEF ids
    <3>3. CASE ids = {}
      BY <1>4, <1>5, <3>1, <3>3 DEF Current
    <3>4. CASE ids # {}
      <4>1. LET x == [At(c, "attempts") EXCEPT !.ids = ids] IN
            x \in TxRecord /\ x.ids = ids /\ x.at = "attempts" /\ x.for = t.for /\ x.todo = {}
        BY <1>5, <3>1, WithIds
      <4>2. QED
        BY <3>1, <3>2, <3>4, <4>1 DEF Current
    <3>5. QED
      BY <3>3, <3>4
  <2>2. CASE ReadAttempts(c)
    <3>1. t.at = "attempts" /\ (t.ids = {} => t.on \in Jobs) /\ t.ids \subseteq Jobs
      BY <1>1, <2>2 DEF ReadAttempts, Placed, t, TxRecord
    <3>2. PICK j \in IF t.ids = {} THEN {t.on} ELSE t.ids :
            tx'[c] = WithJob(At(c, "fail"), j, Seen(c, j).attempts >= MaxAttempts)
      BY <1>1, <2>2 DEF ReadAttempts, WithJob, t
    <3>3. /\ j \in Jobs /\ v[j].state = "running" /\ TenantOf[j] = t.for
          /\ v[j].attempts = Seen(c, j).attempts
      BY <1>3, <1>4, <3>1, <3>2 DEF Current, Rows
    <3> DEFINE b == Seen(c, j).attempts >= MaxAttempts
               x == WithJob(At(c, "fail"), j, b)
    <3>4. b \in BOOLEAN /\ (b <=> v[j].attempts >= MaxAttempts)
      BY <3>3
    <3> HIDE DEF b
    <3>5. /\ x \in TxRecord /\ x.ids = t.ids \ {j} /\ x.at = "fail" /\ x.for = t.for
          /\ x.todo = {} /\ x.on = j /\ x.spent = b
      BY <1>5, <3>3, <3>4, WithJobIs
    <3>6. tx'[c] = x
      BY <3>2 DEF b
    <3> HIDE DEF x
    <3>7. Current(x, v)
      BY <1>4, <3>3, <3>4, <3>5 DEF Current
    <3>8. QED
      BY <3>1, <3>5, <3>6, <3>7
  <2>3. QED
    BY <2>1, <2>2
<1>7. Settled(x, v) /\ CancelsDone(row, x, v)
  BY <1>4, <1>6 DEF Settled, CancelsDone
<1>8. QED
  BY <1>1, <1>2, <1>4, <1>6, <1>7 DEF Good, v, Current, Settled, CancelsDone, Limited, LeftIn, RunningIn

\* A claim starts no more than the cap leaves, and only jobs with attempts left.
LEMMA ClaimGood ==
  ASSUME TInv, TInv', Serial, NEW c \in Connections, Good(row, tx[c], View(c)), Claim(c)
  PROVE  Good(row, tx[c], View(c))' /\ tx'[c].todo = {} /\ row' = row
<1> DEFINE t == tx[c]
           v == View(c)
           w == View(c)'
           x == tx'[c]
           Taken(j) == [Seen(c, j) EXCEPT !.state = "running", !.lease = "live", !.attempts = @ + 1]
<1>1. /\ Busy(c) /\ t.at = "claim" /\ UNCHANGED <<pool, row, settings>> /\ Types /\ Placed(t)
      /\ tx \in [Connections -> TxRecord] /\ "commit" \in Statements /\ x = At(c, "commit")
      /\ IsFn(wrote) /\ DOMAIN wrote = Connections /\ DOMAIN wrote[c] = {}
  BY DEF Claim, TInv, Types, Sound, Statements, JobThenOrder
<1>2. PICK S \in SUBSET Claimable(c) :
        /\ Cardinality(S) <= Free(c)
        /\ wrote' = [wrote EXCEPT ![c] = Over([j \in S |-> Taken(j)], wrote[c])]
  BY DEF Claim
<1>3. /\ Typed(v) /\ Typed(w)
      /\ \A r \in Rows : v[r] = Seen(c, r) /\ (r \in Visible(c) <=> TenantOf[r] = t.for)
  <2>1. Typed(View(c))'
    BY DEF TInv, Types, Typed, View, Seen
  <2>2. QED
    BY <1>1, <2>1, ViewTyped, VisibleIff DEF Typed
<1>4. Current(t, v) /\ Settled(t, v) /\ Limited(v) /\ CancelsDone(row, t, v)
  BY DEF Good
<1>5. x.at = "commit" /\ x.todo = {} /\ x.for = t.for /\ x.ids = {}
  <2>1. t.ids = {} /\ Types /\ "commit" \in Statements
    BY <1>1 DEF Placed
  <2>2. /\ At(c, "commit").at = "commit" /\ At(c, "commit").todo = {}
        /\ At(c, "commit").for = tx[c].for /\ At(c, "commit").ids = tx[c].ids
    BY <2>1, AtIs
  <2>3. QED
    BY <1>1, <2>1, <2>2
<1>6. \A r \in Rows : w[r] = IF r \in S THEN Taken(r) ELSE v[r]
  <2> DEFINE F == [j \in S |-> Taken(j)]
             W == wrote[c]
             H == Over(F, W)
  <2>1. DOMAIN F = S /\ \A j \in S : F[j] = Taken(j)
    OBVIOUS
  <2>2. wrote'[c] = H
    BY <1>1, <1>2
  <2> HIDE DEF F, W, Taken
  <2>3. DOMAIN H = DOMAIN F \cup DOMAIN W /\ \A r \in DOMAIN F : H[r] = F[r]
    BY OverIs
  <2> HIDE DEF H
  <2>4. DOMAIN wrote'[c] = S /\ \A r \in S : wrote'[c][r] = Taken(r)
    BY <1>1, <2>1, <2>2, <2>3 DEF W
  <2>5. \A r \in Rows : w[r] = IF r \in S THEN Taken(r) ELSE row[r]
    BY <1>1, <2>4 DEF View, Seen
  <2>6. \A r \in Rows : v[r] = row[r]
    BY <1>1 DEF View, Seen
  <2>7. QED
    BY <2>5, <2>6
<1>7. \A j \in S : /\ j \in Jobs /\ j \in Rows /\ TenantOf[j] = t.for /\ v[j].state = "pending"
                   /\ w[j].state = "running" /\ w[j].attempts = v[j].attempts + 1
  <2> SUFFICES ASSUME NEW j \in S
               PROVE  /\ j \in Jobs /\ j \in Rows /\ TenantOf[j] = t.for /\ v[j].state = "pending"
                      /\ w[j].state = "running" /\ w[j].attempts = v[j].attempts + 1
    OBVIOUS
  <2>1. j \in Jobs /\ j \in Rows /\ j \in Visible(c) /\ Seen(c, j).state = "pending"
    BY <1>2 DEF Claimable, InStates, Rows
  <2>2. Seen(c, j) \in JobRow /\ v[j] = Seen(c, j) /\ TenantOf[j] = t.for
    BY <1>3, <2>1 DEF Typed, RowType
  <2>3. Taken(j).attempts = Seen(c, j).attempts + 1 /\ Taken(j).state = "running"
    BY <2>2, TakenIs
  <2> HIDE DEF Taken, v, w, t
  <2>4. QED
    BY <1>6, <2>1, <2>2, <2>3
<1>8. \A r \in Rows : r \notin S => w[r] = v[r]
  BY <1>6
<1>9. t.for \in Tenants /\ Cardinality(S) <= Free(c) /\ InStates(c, {"running"}) = RunningIn(v, t.for)
  <2>1. t.for \in Tenants
    BY <1>1 DEF Placed, Busy
  <2>2. ASSUME NEW j \in Jobs PROVE j \in InStates(c, {"running"}) <=> j \in RunningIn(v, t.for)
    BY <1>3 DEF InStates, RunningIn, Rows
  <2>3. QED
    BY <1>2, <2>1, <2>2 DEF InStates, RunningIn
<1> HIDE DEF t, v, w, x, Taken
<1>10. Limited(w)
  <2>1. ASSUME NEW n \in Tenants PROVE Cardinality(RunningIn(w, n)) <= Cap
    <3>1. /\ Cardinality(RunningIn(v, n)) \in Nat /\ Cardinality(RunningIn(v, n)) <= Cap /\ Cap \in Nat
          /\ IsFiniteSet(RunningIn(v, n)) /\ Cardinality(RunningIn(w, n)) \in Nat
      BY <1>4, RunningFinite, PoolAssumption DEF Limited
    <3>2. CASE n # t.for
      <4>1. RunningIn(w, n) = RunningIn(v, n)
        BY <1>7, <1>8, <3>2 DEF RunningIn, Rows
      <4>2. QED
        BY <3>1, <4>1
    <3>3. CASE n = t.for
      <4>1. IsFiniteSet(S)
        <5>1. S \subseteq Rows
          BY <1>7
        <5>2. QED
          BY <5>1, PoolAssumption, FS_Subset
      <4>2. RunningIn(w, n) = RunningIn(v, n) \cup S
        BY <1>7, <1>8, <3>3 DEF RunningIn, Rows
      <4>3. RunningIn(v, n) \cap S = {}
        BY <1>7 DEF RunningIn
      <4>4. Cardinality(RunningIn(w, n)) = Cardinality(RunningIn(v, n)) + Cardinality(S)
        <5>1. Cardinality(S) \in Nat /\ Cardinality({}) = 0
          BY <4>1, FS_CardinalityType, FS_EmptySet
        <5>2. Cardinality(RunningIn(v, n) \cup S) =
                Cardinality(RunningIn(v, n)) + Cardinality(S) - Cardinality(RunningIn(v, n) \cap S)
          BY <3>1, <4>1, FS_Union
        <5>3. Cardinality(RunningIn(v, n) \cap S) = 0
          BY <4>3, <5>1
        <5>4. QED
          BY <3>1, <4>2, <5>1, <5>2, <5>3
      <4>5. Cardinality(S) \in Nat
        BY <4>1, FS_CardinalityType
      <4>6. Free(c) = IF Cardinality(RunningIn(v, n)) < Cap THEN Cap - Cardinality(RunningIn(v, n)) ELSE 0
        BY <1>9, <3>3 DEF Free
      <4>7. QED
        BY <1>9, <3>1, <4>4, <4>5, <4>6
    <3>4. QED
      BY <3>2, <3>3
  <2>2. ASSUME NEW j \in Jobs
        PROVE  w[j].attempts <= MaxAttempts /\ (w[j].state = "pending" => w[j].attempts < MaxAttempts)
    <3>1. v[j].attempts \in Nat /\ MaxAttempts \in Nat /\ j \in Rows
      BY <1>3, PoolAssumption DEF Typed, RowType, JobRow, Rows
    <3>2. QED
      BY <1>4, <1>7, <1>8, <3>1 DEF Limited
  <2>3. QED
    BY <2>1, <2>2 DEF Limited
<1>11. ASSUME NEW o \in Orders PROVE w[o] = v[o] /\ (LeftIn(w, o) <=> LeftIn(v, o))
  <2>1. o \in Rows /\ o \notin S /\ \A j \in JobsOf(o) : j \in Rows
    BY <1>7, PoolAssumption DEF Rows, JobsOf
  <2>2. QED
    BY <1>7, <1>8, <2>1 DEF LeftIn
<1>12. Settled(x, w) /\ CancelsDone(row, x, w) /\ Current(x, w)
  <2>1. t.at = "claim"
    BY <1>1 DEF t
  <2>2. QED
    BY <1>4, <1>5, <1>11, <2>1 DEF Settled, CancelsDone, Current
<1>13. row' = row
  BY <1>1
<1>14. QED
  BY <1>5, <1>10, <1>12, <1>13 DEF Good, w, x, Current, Settled, CancelsDone, Limited, LeftIn, RunningIn

\* A call begins on what is committed: a worker that reports a failure, with a job that runs.
LEMMA BeginGood ==
  ASSUME TInv, Serial, NEW c \in Connections, NEW call \in Calls, NEW n \in Tenants,
         NEW r \in Rows \cup {Nobody}, Begin(c, call, n, r), Good(row, Idle, row)
  PROVE  Good(row, tx[c], View(c))' /\ tx'[c].todo = {} /\ row' = row
<1> DEFINE t == [Idle EXCEPT !.call = call, !.for = n, !.on = r, !.at = First(call)]
           s == First(call)
<1>1. /\ ~Busy(c) /\ UNCHANGED <<pool, row, wrote>> /\ Types /\ DOMAIN wrote[c] = {}
      /\ tx' = [tx EXCEPT ![c] = t] /\ tx \in [Connections -> TxRecord]
  BY DEF Begin, TInv, Types, Sound, Pinned
<1>2. View(c)' = row /\ row' = row
  <2>1. View(c) = row
    BY <1>1, IdleIsRow
  <2>2. View(c)' = View(c)
    BY <1>1 DEF View, Seen
  <2>3. QED
    BY <1>1, <2>1, <2>2
<1>3. \/ s = "claim" /\ call = "claim"
      \/ s = "beat" /\ call = "heartbeat"
      \/ s = "attempts" /\ call = "fail"
      \/ s = "expired" /\ call = "reap"
      \/ s = "flip" /\ call = "cancel"
      \/ s = "finish" /\ call = "finish"
      \/ s = "requeue" /\ call = "requeue"
      \/ s = "mark" /\ call = "mark"
  BY DEF First, Calls
<1>4. /\ call \in {"finish", "fail", "mark"} => TenantOf[r] = n
      /\ call = "fail" => row[r].state = "running"
      /\ call = "mark" => row[OrderOf[r]].state = "cancelled"
  BY DEF Begin
<1>5. t.at = s /\ t.for = n /\ t.on = r /\ t.ids = {} /\ t.todo = {}
  <2>1. /\ Idle \in TxRecord /\ s \in Statements /\ Idle.ids = {} /\ Idle.todo = {}
        /\ call \in Calls \cup {"none"} /\ n \in Tenants \cup {Nobody}
        /\ t = [Idle EXCEPT !.call = call, !.for = n, !.on = r, !.at = s]
    BY <1>3 DEF Idle, TxRecord, Statements
  <2> HIDE DEF s, t
  <2>2. QED
    BY <2>1 DEF TxRecord
<1>6. tx'[c] = t
  BY <1>1
<1> HIDE DEF s, t
<1>7. Current(t, row)
  BY <1>3, <1>4, <1>5 DEF Current
<1>8. Settled(t, row) /\ Limited(row) /\ CancelsDone(row, t, row)
  BY DEF Good, Settled, CancelsDone, Idle
<1>9. QED
  BY <1>2, <1>5, <1>6, <1>7, <1>8 DEF Good, Current, Settled, Limited, CancelsDone, LeftIn, RunningIn

\* A call that ends leaves the rows it saw, or those that were committed before.
LEMMA EndGood ==
  ASSUME TInv, TInv', NEW c \in Connections, End(c), Good(row, Idle, row),
         \/ row' = row
         \/ tx[c].at = "commit" /\ row' = Over(wrote[c], row) /\ Good(row, tx[c], View(c))
  PROVE  Good(row, Idle, row)'
<1>1. CASE row' = row
  BY <1>1 DEF Good, Current, Settled, Limited, CancelsDone, LeftIn, RunningIn, Idle
<1>2. CASE tx[c].at = "commit" /\ row' = Over(wrote[c], row) /\ Good(row, tx[c], View(c))
  <2>1. row' = View(c)
    <3>1. DOMAIN wrote[c] \cup DOMAIN row = Rows
      BY DEF TInv, Types
    <3>2. Over(wrote[c], row) = View(c)
      BY <3>1 DEF Over, View, Seen
    <3>3. QED
      BY <1>2, <3>2
  <2> DEFINE v == View(c)
  <2>2. Settled(tx[c], v) /\ Limited(v) /\ tx[c].at = "commit"
    BY <1>2 DEF Good
  <2>3. row' = v
    BY <2>1
  <2> HIDE DEF v
  <2>4. Good(v, Idle, v)
    BY <2>2 DEF Good, Current, Settled, CancelsDone, Idle
  <2>5. QED
    BY <2>3, <2>4 DEF Good, Current, Settled, Limited, CancelsDone, LeftIn, RunningIn, Idle
<1>3. QED
  BY <1>1, <1>2

\* Only states and attempts matter.
LEMMA GoodSame ==
  ASSUME NEW t \in TxRecord, Placed(t), NEW b, NEW a, NEW v, NEW w, Good(b, t, v),
         \A o \in Orders : b[o].state = a[o].state,
         \A r \in Rows : v[r].state = w[r].state /\ (r \in Jobs => v[r].attempts = w[r].attempts)
  PROVE  Good(a, t, w)
<1>1. /\ \A j \in Jobs : j \in Rows /\ OrderOf[j] \in Rows
      /\ \A o \in Orders : o \in Rows /\ \A j \in JobsOf(o) : j \in Jobs /\ j \in Rows
  BY PoolAssumption DEF Rows, JobsOf
<1>2. Current(t, v) /\ Settled(t, v) /\ Limited(v) /\ CancelsDone(b, t, v)
  BY DEF Good
<1>3. \A o \in Orders : LeftIn(v, o) <=> LeftIn(w, o)
  BY <1>1 DEF LeftIn
<1>4. \A n : RunningIn(v, n) = RunningIn(w, n)
  BY <1>1 DEF RunningIn
<1>5. Current(t, w)
  <2>1. t.ids \subseteq Jobs
    BY DEF TxRecord
  <2>2. (t.at \in {"finish", "fail", "mark", "reopen"} \/ (t.at = "attempts" /\ t.ids = {})) =>
          /\ v[t.on].state = w[t.on].state /\ v[t.on].attempts = w[t.on].attempts
          /\ v[OrderOf[t.on]].state = w[OrderOf[t.on]].state
    <3>1. (t.at \in {"finish", "fail", "mark", "reopen"} \/ (t.at = "attempts" /\ t.ids = {})) => t.on \in Jobs
      BY DEF Placed
    <3>2. QED
      BY <1>1, <3>1
  <2>3. \A j \in t.ids : w[j].state = "running" /\ TenantOf[j] = t.for
    BY <1>1, <1>2, <2>1 DEF Current
  <2>4. \/ t.at = "fail"
        \/ t.at = "attempts" /\ t.ids = {}
        => w[t.on].state = "running" /\ TenantOf[t.on] = t.for
    BY <1>2, <2>2 DEF Current
  <2>5. t.at = "fail" => t.on \notin t.ids /\ (t.spent <=> w[t.on].attempts >= MaxAttempts)
    <3>1. t.at = "fail" => v[t.on].attempts = w[t.on].attempts
      BY <2>2
    <3>2. t.at = "fail" => t.on \notin t.ids /\ (t.spent <=> v[t.on].attempts >= MaxAttempts)
      BY <1>2 DEF Current
    <3>3. QED
      BY <3>1, <3>2
  <2>6. /\ t.at = "mark" => w[OrderOf[t.on]].state = "cancelled"
        /\ t.at \in {"finish", "close", "reopen"} => TenantOf[t.on] = t.for
        /\ t.at = "reopen" => w[t.on].state = "pending"
    BY <1>2, <2>2 DEF Current
  <2>7. QED
    BY <2>3, <2>4, <2>5, <2>6 DEF Current
<1>6. Settled(t, w) /\ CancelsDone(a, t, w)
  BY <1>1, <1>2, <1>3 DEF Settled, CancelsDone
<1>7. Limited(w)
  BY <1>1, <1>2, <1>4 DEF Limited
<1>8. QED
  BY <1>5, <1>6, <1>7 DEF Good

\* The clock disturbs none of it.
LEMMA ClockGood ==
  ASSUME TInv, TInv', NEW j \in Jobs, LeaseExpires(j), NEW c \in Connections
  PROVE  /\ Good(row, Idle, row) => Good(row, Idle, row)'
         /\ Good(row, tx[c], View(c)) => Good(row, tx[c], View(c))'
<1>1. /\ \A r \in Rows : row[r].state = row'[r].state /\ (r \in Jobs => row[r].attempts = row'[r].attempts)
      /\ UNCHANGED <<pool, wrote, tx, settings>>
  BY ClockKeeps DEF LeaseExpires
<1>2. \A o \in Orders : row[o].state = row'[o].state
  BY <1>1 DEF Rows
<1>3. \A r \in Rows : View(c)[r].state = View(c)'[r].state
                     /\ (r \in Jobs => View(c)[r].attempts = View(c)'[r].attempts)
  BY <1>1 DEF View, Seen
<1> DEFINE v == View(c)
           w == View(c)'
           b == row'
<1> HIDE DEF v, w, b
<1>4. Idle \in TxRecord /\ Placed(Idle) /\ tx[c] \in TxRecord /\ Placed(tx[c])
  BY DEF Idle, TxRecord, Statements, Placed, TInv, Types, Sound
<1>5. Good(row, Idle, row) => Good(b, Idle, b)
  BY <1>1, <1>2, <1>4, GoodSame DEF b
<1>6. Good(row, tx[c], v) => Good(b, tx[c], w)
  BY <1>1, <1>2, <1>3, <1>4, GoodSame DEF b, v, w
<1>7. QED
  BY <1>1, <1>5, <1>6 DEF b, v, w, Good, Current, Settled, Limited, CancelsDone, LeftIn, RunningIn, Idle

\* Every step on one connection keeps the invariant of its call.
LEMMA SerialStep == TInv /\ TInv' /\ SerialInv /\ [Next]_vars => SerialInv'
<1> SUFFICES ASSUME TInv, TInv', SerialInv, [Next]_vars, Serial' PROVE SerialInv'
  BY DEF SerialInv
<1>1. pool' = pool /\ Serial
  BY DEF Next, Proceed, Begin, Execute, ReadAttempts, ReadExpired, Claim, Commit, Rollback, Crash,
         End, BreakDeadlock, LeaseExpires, vars, Serial
<1>2. Good(row, Idle, row) /\ \A c \in Connections : tx[c].todo = {} /\ Good(row, tx[c], View(c))
  BY <1>1 DEF SerialInv
\* The connections beside the one that is at work see what is committed.
<1>3. ASSUME NEW d \in Connections, ~Busy(d)', Good(row, Idle, row)'
      PROVE  Good(row, tx[d], View(d))' /\ tx'[d].todo = {}
  <2>1. tx'[d] = Idle /\ DOMAIN wrote'[d] = {}
    BY <1>3 DEF TInv, Sound, Placed, Pinned, Busy
  <2>2. View(d)' = row'
    <3>1. View(d)' = [r \in Rows |-> row'[r]]
      BY <2>1 DEF View, Seen
    <3>2. row' = [r \in Rows |-> row'[r]]
      BY DEF TInv, Types, IsFn
    <3>3. QED
      BY <3>1, <3>2
  <2>3. QED
    BY <1>3, <2>1, <2>2 DEF Good, Current, Settled, Limited, CancelsDone, LeftIn, RunningIn, Idle
<1>4. ASSUME row' = row PROVE Good(row, Idle, row)'
  BY <1>2, <1>4 DEF Good, Current, Settled, Limited, CancelsDone, LeftIn, RunningIn, Idle
\* A step of a call that goes on.
<1>5. ASSUME NEW c \in Connections, c \in pool, row' = row,
             \A d \in Connections : d # c => tx'[d] = tx[d],
             Good(row, tx[c], View(c))', tx'[c].todo = {}
      PROVE  SerialInv'
  <2>1. \A d \in Connections : d # c => ~Busy(d)'
    <3>1. IsFiniteSet(pool)
      BY PoolAssumption, FS_Subset DEF TInv, Types
    <3>2. \E x : pool = {x}
      BY <1>1, <3>1, FS_Singleton DEF Serial
    <3>3. \A d \in Connections : Busy(d) => d \in pool
      BY DEF TInv, Sound, Pinned
    <3>4. QED
      BY <1>5, <3>2, <3>3 DEF Busy
  <2>2. QED
    BY <1>3, <1>4, <1>5, <2>1 DEF SerialInv
\* A step that ends a call.
<1>6. ASSUME NEW c \in Connections, Busy(c), End(c),
             row' = row \/ (tx[c].at = "commit" /\ row' = Over(wrote[c], row))
      PROVE  SerialInv'
  <2>1. Good(row, Idle, row)'
    BY <1>2, <1>6, EndGood
  <2>2. \A d \in Connections : ~Busy(d)'
    <3>1. tx' = [tx EXCEPT ![c] = Idle] /\ tx \in [Connections -> TxRecord]
      BY <1>6 DEF End, TInv, Types
    <3>2. \A d \in Connections : d # c => ~Busy(d)
      BY <1>1, <1>6, AloneAtWork
    <3>3. QED
      BY <3>1, <3>2 DEF Busy, Idle
  <2>3. QED
    BY <1>3, <2>1, <2>2 DEF SerialInv
<1>7. /\ tx \in [Connections -> TxRecord]
      /\ \A c \in Connections : Busy(c) => c \in pool
  BY DEF TInv, Types, Sound, Pinned
<1>8. ASSUME NEW c \in Connections, NEW ok \in BOOLEAN, Execute(c, ok) PROVE SerialInv'
  <2>1. PICK u \in BOOLEAN :
          /\ Busy(c) /\ row' = row
          /\ \A d \in Connections : d # c => tx'[d] = tx[d]
    BY <1>1, <1>2, <1>8, UpdateIs
  <2>2. Good(row, tx[c], View(c))' /\ tx'[c].todo = {}
    BY <1>1, <1>2, <1>8, UpdateGood
  <2>3. QED
    BY <1>5, <1>7, <2>1, <2>2
<1>9. ASSUME NEW c \in Connections, ReadExpired(c) \/ ReadAttempts(c) \/ Claim(c) PROVE SerialInv'
  <2>1. Good(row, tx[c], View(c))' /\ tx'[c].todo = {} /\ row' = row
    BY <1>1, <1>2, <1>9, ReadGood, ClaimGood
  <2>2. Busy(c) /\ \A d \in Connections : d # c => tx'[d] = tx[d]
    BY <1>7, <1>9 DEF ReadExpired, ReadAttempts, Claim
  <2>3. QED
    BY <1>5, <1>7, <2>1, <2>2
<1>10. ASSUME NEW c \in Connections, NEW call \in Calls, NEW n \in Tenants,
              NEW r \in Rows \cup {Nobody}, Begin(c, call, n, r)
       PROVE  SerialInv'
  <2>1. Good(row, tx[c], View(c))' /\ tx'[c].todo = {} /\ row' = row
    BY <1>1, <1>2, <1>10, BeginGood
  <2>2. c \in pool /\ \A d \in Connections : d # c => tx'[d] = tx[d]
    BY <1>7, <1>10 DEF Begin
  <2>3. QED
    BY <1>5, <2>1, <2>2
<1>11. ASSUME NEW j \in Jobs, LeaseExpires(j) PROVE SerialInv'
  <2>1. PICK c \in Connections : TRUE
    BY PoolAssumption
  <2>2. Good(row, Idle, row)' /\ \A d \in Connections : Good(row, tx[d], View(d))'
    BY <1>2, <1>11, <2>1, ClockGood
  <2>3. tx' = tx
    BY <1>11 DEF LeaseExpires
  <2>4. QED
    BY <1>2, <2>2, <2>3 DEF SerialInv
<1>12. CASE UNCHANGED vars
  <2>1. row' = row /\ tx' = tx /\ wrote' = wrote
    BY <1>12 DEF vars
  <2>2. \A d \in Connections : View(d)' = View(d)
    BY <2>1 DEF View, Seen
  <2>3. \A d \in Connections : Good(row, tx[d], View(d))' /\ tx'[d].todo = {}
    BY <1>2, <2>1, <2>2 DEF Good, Current, Settled, Limited, CancelsDone, LeftIn, RunningIn
  <2>4. QED
    BY <1>4, <2>1, <2>3 DEF SerialInv
<1>13. ASSUME NEW c \in Connections, Commit(c) \/ Rollback(c) \/ Crash(c) \/ BreakDeadlock(c)
       PROVE  SerialInv'
  <2>1. CASE BreakDeadlock(c)
    <3>1. WaitsFor(c) # {} /\ tx[c].todo = {}
      BY <1>2, <2>1 DEF BreakDeadlock, Cycle
    <3>2. QED
      BY <3>1 DEF WaitsFor
  <2>2. CASE Commit(c)
    <3>1. Busy(c) /\ End(c) /\ tx[c].at = "commit" /\ row' = Over(wrote[c], row)
      BY <2>2 DEF Commit
    <3>2. QED
      BY <1>6, <3>1
  <2>3. CASE Rollback(c) \/ Crash(c)
    <3>1. Busy(c) /\ End(c) /\ row' = row
      BY <2>3 DEF Rollback, Crash
    <3>2. QED
      BY <1>6, <3>1
  <2>4. QED
    BY <1>13, <2>1, <2>2, <2>3
<1>14. QED
  BY <1>8, <1>9, <1>10, <1>11, <1>12, <1>13 DEF Next, Proceed

\* At first no call is under way and the rows are within the limits.
LEMMA SerialInit == Init => SerialInv
<1> SUFFICES ASSUME Init PROVE SerialInv
  OBVIOUS
<1>1. TInv
  BY TInvInit
<1>2. \A r \in Rows : row[r] = IF r \in Orders THEN [state |-> "open"]
                             ELSE [state |-> "pending", attempts |-> 0, lease |-> "null"]
  BY DEF Init
<1>3. /\ \A j \in Jobs : row[j].state = "pending" /\ row[j].attempts = 0
      /\ \A o \in Orders : row[o].state = "open"
  BY <1>2, PoolAssumption DEF Rows
<1>4. Good(row, Idle, row)
  <2>1. Current(Idle, row) /\ CancelsDone(row, Idle, row)
    BY DEF Current, CancelsDone, Idle
  <2>2. Settled(Idle, row)
    <3>1. \A o \in Orders : (\E j \in Jobs : OrderOf[j] = o) => LeftIn(row, o)
      BY <1>3 DEF LeftIn, JobsOf
    <3>2. QED
      BY <1>3, <3>1, PoolAssumption DEF Settled
  <2>3. Limited(row)
    <3>1. \A n : RunningIn(row, n) = {}
      BY <1>3 DEF RunningIn
    <3>2. \A n \in Tenants : Cardinality(RunningIn(row, n)) = 0
      BY <3>1, FS_EmptySet
    <3>3. QED
      BY <1>3, <3>2, PoolAssumption DEF Limited
  <2>4. QED
    BY <2>1, <2>2, <2>3 DEF Good
<1>5. ASSUME NEW c \in Connections PROVE tx[c] = Idle /\ View(c) = row
  <2>1. tx[c] = Idle /\ DOMAIN wrote[c] = {}
    BY DEF Init
  <2>2. QED
    BY <1>1, <2>1, IdleIsRow DEF TInv
<1>6. Idle.todo = {}
  BY DEF Idle
<1>7. QED
  BY <1>4, <1>5, <1>6 DEF SerialInv

\* On one connection a call never finds what it read, or what it left behind of
\* its own order, changed under it.
THEOREM SerialInvariant == Spec => []SerialInv
<1>1. TInv /\ SerialInv /\ [Next]_vars => TInv' /\ SerialInv'
  BY TInvStep, SerialStep
<1>2. QED
  BY <1>1, TInvInit, SerialInit, PTL DEF Spec

\* On one connection no claim passes the cap and no job its budget.
THEOREM SerialRunsWithinLimits == Spec => []SerialWithinLimits
<1>1. SerialInv => SerialWithinLimits
  BY DEF SerialInv, SerialWithinLimits, Good, Limited, RunningIn
<1>2. QED
  BY <1>1, SerialInvariant, PTL

\* How a step moves an order, in the words of OrderPromise.
Moved(o) ==
  \/ row[o].state = row'[o].state /\ (LeftIn(row, o) <=> LeftIn(row', o))
  \/ row[o].state = "open" /\ LeftIn(row, o) /\ row'[o].state = "done" /\ ~LeftIn(row', o)
  \/ row[o].state = "done" /\ ~LeftIn(row, o) /\ row'[o].state = "open" /\ LeftIn(row', o)
  \/ row[o].state \in {"open", "done"} /\ row'[o].state = "cancelled" /\ (LeftIn(row', o) => LeftIn(row, o))
  \/ row[o].state = "cancelled" /\ row'[o].state = "cancelled"

\* On one connection orders move as promised, every call in one step: its commit.
THEOREM SerialKeepsPromise == Spec => SerialPromise
<1>1. TInv /\ SerialInv /\ [Next]_vars => [Serial => Promise!Next]_row
  <2> SUFFICES ASSUME TInv, SerialInv, [Next]_vars, Serial PROVE Promise!Next
    OBVIOUS
  <2>1. TInv' /\ Good(row, Idle, row)
    BY TInvStep DEF SerialInv
  <2>2. ASSUME NEW o \in Orders
        PROVE  /\ row[o].state \in {"open", "done", "cancelled"}
               /\ row'[o].state \in {"open", "done", "cancelled"}
    BY <2>1 DEF TInv, Types, RowType, OrderRow, Rows
  <2>3. ASSUME NEW o \in Orders PROVE Moved(o)
    <3>1. CASE \A r \in Rows :
                 row'[r].state = row[r].state /\ (r \in Jobs => row'[r].attempts = row[r].attempts)
      <4>1. row'[o].state = row[o].state /\ \A j \in JobsOf(o) : row'[j].state = row[j].state
        BY <3>1 DEF Rows, JobsOf
      <4>2. LeftIn(row', o) <=> LeftIn(row, o)
        BY <4>1 DEF LeftIn
      <4>3. QED
        BY <4>1, <4>2 DEF Moved
    <3>2. ASSUME NEW c \in Connections, Commit(c),
                 \A r \in Rows : row'[r] = IF r \in DOMAIN wrote[c] THEN wrote[c][r] ELSE row[r]
          PROVE  Moved(o)
      <4> DEFINE v == View(c)
      <4>1. \A r \in Rows : row'[r] = v[r]
        BY <3>2 DEF View, Seen
      <4>2. Good(row, tx[c], v) /\ tx[c].at = "commit"
        BY <3>2 DEF SerialInv, Commit
      <4> HIDE DEF v
      <4>3. row'[o].state = v[o].state /\ (LeftIn(row', o) <=> LeftIn(v, o))
        BY <4>1 DEF Rows, LeftIn, JobsOf
      <4>4. /\ v[o].state = "done" => ~LeftIn(v, o)
            /\ v[o].state = "open" => LeftIn(v, o)
            /\ row[o].state = "done" /\ v[o].state = "cancelled" => ~LeftIn(v, o)
        BY <4>2 DEF Good, Settled, CancelsDone
      <4>5. row[o].state = "done" => ~LeftIn(row, o)
        BY <2>1 DEF Good, Settled, Idle
      <4>6. row[o].state = "open" => LeftIn(row, o)
        BY <2>1 DEF Good, Settled, Idle
      <4>7. row[o].state = "cancelled" => row'[o].state = "cancelled"
        BY PromisedIsKept DEF RowsKeepTheirPromise
      <4>8. QED
        BY <2>2, <4>3, <4>4, <4>5, <4>6, <4>7 DEF Moved
    <3>3. QED
      BY <3>1, <3>2, CommitsAlone
  <2>4. ASSUME NEW o \in Orders PROVE Promise!Move(o)
    <3>1. /\ [x \in Orders |-> row[x].state][o] = row[o].state
          /\ [x \in Orders |-> row[x].state]'[o] = row'[o].state
          /\ Left[o] <=> LeftIn(row, o)
          /\ Left'[o] <=> LeftIn(row', o)
      BY DEF Left, LeftIn
    <3>2. Left[o] \in BOOLEAN /\ Left'[o] \in BOOLEAN
      BY DEF Left
    <3>3. QED
      BY <2>3, <3>1, <3>2 DEF Moved, Promise!Move, Promise!Same, Promise!Close, Promise!Reopen,
             Promise!Cancel, Promise!Drain
  <2>5. QED
    BY <2>2, <2>4 DEF Promise!Next, Left
<1>2. QED
  BY <1>1, TransactionInvariant, SerialInvariant, PTL DEF Spec, SerialPromise
=============================================================================
