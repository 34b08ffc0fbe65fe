------------------------- MODULE TransactionsProofs -------------------------
(***************************************************************************)
(* What the statements of the queue guarantee for every number of          *)
(* connections, tenants, orders and jobs.  The invariant says of each      *)
(* transaction where its call can be, that it holds rows of its tenant     *)
(* alone and holds them alone, and how what it wrote may differ from what  *)
(* is committed: which stays so until it commits, because nobody else can  *)
(* write a row it holds.                                                   *)
(***************************************************************************)
EXTENDS Transactions, FiniteSetTheorems, TLAPS

TxRecord ==
  [call : Calls \cup {"none"}, for : Tenants \cup {Nobody}, on : Rows \cup {Nobody},
   ids : SUBSET Jobs, spent : BOOLEAN, at : Statements, todo : SUBSET Rows]

\* The row r of either table, as it may be.
RowType(r, v) == (r \in Jobs => v \in JobRow) /\ (r \in Orders => v \in OrderRow)

\* f is a function.
IsFn(f) == f = [r \in DOMAIN f |-> f[r]]

Types ==
  /\ pool \in SUBSET Connections
  /\ tx \in [Connections -> TxRecord]
  /\ settings \in [Connections -> [role : {"owner", "app"}, tenant : Tenants \cup {Nobody}]]
  /\ IsFn(row) /\ DOMAIN row = Rows /\ \A r \in Rows : RowType(r, row[r])
  /\ IsFn(wrote) /\ DOMAIN wrote = Connections
  /\ \A c \in Connections :
       /\ IsFn(wrote[c]) /\ DOMAIN wrote[c] \subseteq Rows
       /\ \A r \in DOMAIN wrote[c] : RowType(r, wrote[c][r])

\* A statement belongs to a call, and has the row in hand that it needs.
Placed(t) ==
  /\ t.at = "claim" => t.call = "claim"
  /\ t.at = "beat" => t.call = "heartbeat" /\ t.on \in Jobs
  /\ t.at = "finish" => t.call = "finish" /\ t.on \in Jobs
  /\ t.at = "rollback" => t.call = "finish"
  /\ t.at = "attempts" => t.call \in {"fail", "reap"} /\ (t.ids = {} => t.on \in Jobs)
  /\ t.at = "fail" => t.call \in {"fail", "reap"} /\ t.on \in Jobs
  /\ t.at = "close" => t.call \in {"finish", "fail", "reap"} /\ t.on \in Jobs
  /\ t.at = "expired" => t.call = "reap"
  /\ t.at \in {"requeue", "reopen"} => t.call = "requeue" /\ t.on \in Jobs
  /\ t.at \in {"flip", "ask", "cancel"} => t.call = "cancel" /\ t.on \in Orders
  /\ t.at = "mark" => t.call = "mark" /\ t.on \in Jobs
  /\ t.ids # {} => t.call = "reap"
  /\ t.todo # {} => t.at \in Updates
  /\ t.call = "none" => t = Idle
  /\ t.call # "none" => t.for \in Tenants

\* A connection is at work for one tenant, or holds nothing.
Pinned(c) ==
  /\ Busy(c) => c \in pool /\ settings[c] = Pin(tx[c].for)
  /\ ~Busy(c) => DOMAIN wrote[c] = {}

\* It holds rows of that tenant, and will write rows its statement names.
OwnRows(c) ==
  /\ \A r \in DOMAIN wrote[c] : TenantOf[r] = tx[c].for
  /\ \A r \in tx[c].todo : r \in Named(c) /\ TenantOf[r] = tx[c].for

\* Only a reap writes on behind its first job, and only a reap or a cancel
\* behind an order.
JobThenOrder(c) ==
  /\ \/ tx[c].at \in {"claim", "beat", "finish", "requeue", "mark"}
     \/ tx[c].call = "fail" /\ tx[c].at \in {"attempts", "fail"}
     => DOMAIN wrote[c] = {}
  /\ DOMAIN wrote[c] \cap Orders # {} => tx[c].at = "commit" \/ tx[c].call = "reap"

\* No row is held twice.
Exclusive ==
  \A c, d \in Connections : c # d => DOMAIN wrote[c] \cap DOMAIN wrote[d] = {}

\* What committing c would do to the rows it wrote.
Promised(c) ==
  \A r \in DOMAIN wrote[c] :
    /\ r \in Jobs =>
         /\ wrote[c][r].attempts > row[r].attempts =>
              row[r].state = "pending" /\ wrote[c][r].attempts = row[r].attempts + 1
         /\ wrote[c][r].state \in {"succeeded", "failed"} => row[r].state = "running"
    /\ r \in Orders /\ row[r].state = "cancelled" => wrote[c][r].state = "cancelled"

Sound(c) == Placed(tx[c]) /\ Pinned(c) /\ OwnRows(c) /\ JobThenOrder(c) /\ Promised(c)

TInv == Types /\ Exclusive /\ \A c \in Connections : Sound(c)

-----------------------------------------------------------------------------
(* Reading and writing.                                                    *)

\* What reading one's own writes over the committed rows gives.
LEMMA OverIs ==
  ASSUME NEW f, NEW g
  PROVE  /\ DOMAIN Over(f, g) = DOMAIN f \cup DOMAIN g
         /\ IsFn(Over(f, g))
         /\ \A r \in DOMAIN f : Over(f, g)[r] = f[r]
         /\ \A r \in DOMAIN g : r \notin DOMAIN f => Over(f, g)[r] = g[r]
BY DEF Over, IsFn

\* What a connection reads is a row of its type.
LEMMA SeenType ==
  ASSUME Types, NEW c \in Connections, NEW r \in Rows
  PROVE  RowType(r, Seen(c, r))
BY DEF Types, Seen

\* The application role sees the rows of the tenant it is pinned to.
LEMMA VisibleIsOwn ==
  ASSUME TInv, NEW c \in Connections, Busy(c), NEW r \in Visible(c)
  PROVE  r \in Rows /\ TenantOf[r] = tx[c].for
<1>1. settings[c] = [role |-> "app", tenant |-> tx[c].for]
  BY DEF TInv, Sound, Pinned, Pin
<1>2. settings[c].role # "owner" /\ settings[c].tenant = tx[c].for
  BY <1>1
<1>3. QED
  BY <1>2 DEF Visible

\* The rows an UPDATE of c still has to write, and those of T it does write.
Selected(c) == IF tx[c].todo = {} THEN Matched(c) ELSE tx[c].todo
Written(c, T) == {r \in T : WriteStill(c, r)}
Writes(c, T, ok) ==
  /\ Busy(c) /\ tx[c].at \in Updates /\ (ok => tx[c].at = "finish")
  /\ T \subseteq Selected(c) /\ \A r \in T : ~LockedByOther(c, r)
  /\ (\A r \in Selected(c) : ~LockedByOther(c, r)) => T = Selected(c)
  /\ wrote' = [wrote EXCEPT ![c] =
       Over([r \in Written(c, T) |-> After(tx[c], Seen(c, r), ok)], wrote[c])]
  /\ tx' = [tx EXCEPT ![c] =
       IF T = Selected(c) THEN At(c, Following(c, Written(c, T) # {}))
       ELSE [tx[c] EXCEPT !.todo = Selected(c) \ T]]
  /\ UNCHANGED <<pool, row, settings>>

\* An UPDATE that has its locks writes the rows it could take.
LEMMA ExecuteWrites ==
  ASSUME NEW c, NEW ok, Execute(c, ok)
  PROVE  \E T : Writes(c, T, ok)
<1> DEFINE free == {r \in Selected(c) : ~LockedByOther(c, r)}
<1>1. PICK T \in SUBSET free :
        /\ free = Selected(c) => T = Selected(c)
        /\ wrote' = [wrote EXCEPT ![c] =
             Over([r \in Written(c, T) |-> After(tx[c], Seen(c, r), ok)], wrote[c])]
        /\ tx' = [tx EXCEPT ![c] =
             IF T = Selected(c) THEN At(c, Following(c, Written(c, T) # {}))
             ELSE [tx[c] EXCEPT !.todo = Selected(c) \ T]]
  BY DEF Execute, Selected, Written
<1>2. (\A r \in Selected(c) : ~LockedByOther(c, r)) => free = Selected(c)
  OBVIOUS
<1>3. QED
  BY <1>1, <1>2 DEF Execute, Writes

\* An UPDATE writes rows it names, of its tenant.
LEMMA SelectedIsNamed ==
  ASSUME TInv, NEW c \in Connections, Busy(c), NEW r \in Selected(c)
  PROVE  r \in Rows /\ r \in Named(c) /\ TenantOf[r] = tx[c].for
<1>1. CASE tx[c].todo = {}
  BY <1>1, VisibleIsOwn DEF Selected, Matched
<1>2. CASE tx[c].todo # {}
  BY <1>2 DEF Selected, TInv, Sound, Types, TxRecord, OwnRows
<1>3. QED
  BY <1>1, <1>2

\* The updates of orders, and the updates of jobs.
LEMMA NamedKind ==
  ASSUME TInv, NEW c \in Connections, tx[c].at \in Updates, NEW r \in Named(c)
  PROVE  /\ tx[c].at \in {"reopen", "cancel", "close"} => r \in Orders
         /\ tx[c].at \notin {"reopen", "cancel", "close"} => r \in Jobs
BY PoolAssumption DEF TInv, Sound, Placed, Named, OrderOfTx, JobsOf, Updates, Statements

\* A job that stops gives its lease up.
LEMMA StopIs ==
  ASSUME NEW v \in JobRow, NEW x
  PROVE  Stop(v, x) = [state |-> x, attempts |-> v.attempts, lease |-> "null"]
<1>1. [v EXCEPT !.state = x] = [state |-> x, attempts |-> v.attempts, lease |-> v.lease]
  BY DEF JobRow
<1>2. Stop(v, x) = [[v EXCEPT !.state = x] EXCEPT !.lease = "null"]
  BY DEF Stop
<1>3. QED
  BY <1>1, <1>2

\* An UPDATE of a job never raises its attempts, and reports an answer of a
\* running job only.
LEMMA AfterJob ==
  ASSUME NEW t, t.at \in Updates \ {"reopen", "cancel", "close"}, NEW v \in JobRow,
         NEW ok \in BOOLEAN, Where(t.at, v)
  PROVE  /\ After(t, v, ok) \in JobRow /\ After(t, v, ok).attempts <= v.attempts
         /\ After(t, v, ok).state \in {"succeeded", "failed"} =>
              t.at = "finish" /\ v.state = "running"
<1>1. t.at \in {"beat", "finish", "fail", "requeue", "flip", "ask", "mark"}
  BY DEF Updates, Statements
<1>2. /\ v.attempts \in Nat /\ v = [state |-> v.state, attempts |-> v.attempts, lease |-> v.lease]
      /\ v.state \in {"pending", "running", "succeeded", "failed", "dead", "cancelled"}
      /\ v.lease \in {"null", "live", "expired"}
  BY DEF JobRow
<1>3. ASSUME NEW x \in {"pending", "running", "succeeded", "failed", "dead", "cancelled"}
      PROVE  /\ Stop(v, x) = [state |-> x, attempts |-> v.attempts, lease |-> "null"]
             /\ Stop(v, x) \in JobRow
  BY <1>2, StopIs DEF JobRow
<1>4. CASE t.at = "beat"
  <2>1. v.state = "running" /\ After(t, v, ok) = [v EXCEPT !.lease = "live"]
    BY <1>4 DEF Where, After
  <2>2. QED
    BY <1>2, <2>1 DEF JobRow
<1>5. CASE t.at = "ask"
  <2>1. v.state = "running" /\ After(t, v, ok) = v
    BY <1>5 DEF Where, After
  <2>2. QED
    BY <1>2, <2>1
<1>6. CASE t.at = "finish"
  <2>1. v.state = "running" /\ After(t, v, ok) = Stop(v, IF ok THEN "succeeded" ELSE "failed")
    BY <1>6 DEF Where, After, Answerable
  <2>2. QED
    BY <1>2, <1>3, <1>6, <2>1
<1>7. CASE t.at = "fail"
  <2>1. After(t, v, ok) = Stop(v, IF t.spent THEN "dead" ELSE "pending")
    BY <1>7 DEF After
  <2>2. QED
    BY <1>2, <1>3, <2>1
<1>8. CASE t.at \in {"flip", "mark"}
  <2>1. After(t, v, ok) = Stop(v, "cancelled")
    BY <1>8 DEF After
  <2>2. QED
    BY <1>2, <1>3, <2>1
<1>9. CASE t.at = "requeue"
  <2>1. After(t, v, ok) = [Stop(v, "pending") EXCEPT !.attempts = 0]
    BY <1>9 DEF After
  <2>2. After(t, v, ok) = [state |-> "pending", attempts |-> 0, lease |-> "null"]
    BY <1>3, <2>1
  <2>3. QED
    BY <1>2, <2>2 DEF JobRow
<1>10. QED
  BY <1>1, <1>4, <1>5, <1>6, <1>7, <1>8, <1>9

\* No UPDATE of an order takes it out of cancelled.
LEMMA AfterOrder ==
  ASSUME NEW t, t.at \in {"reopen", "cancel", "close"}, NEW v \in OrderRow, NEW ok,
         Where(t.at, v)
  PROVE  After(t, v, ok) \in OrderRow /\ (v.state = "cancelled" => After(t, v, ok).state = "cancelled")
BY DEF After, Where, OrderRow, Closable

\* Where a call goes next is a place of that call.
LEMMA AtIs ==
  ASSUME Types, NEW c \in Connections, NEW s \in Statements
  PROVE  /\ At(c, s) \in TxRecord
         /\ At(c, s).at = s /\ At(c, s).todo = {} /\ At(c, s).call = tx[c].call
         /\ At(c, s).for = tx[c].for /\ At(c, s).ids = tx[c].ids /\ At(c, s).spent = FALSE
         /\ At(c, s).on = IF s = "commit" THEN Nobody ELSE tx[c].on
<1>1. /\ tx[c] \in TxRecord
      /\ At(c, s) = [tx[c] EXCEPT !.at = s, !.todo = {}, !.spent = FALSE,
                                 !.on = IF s = "commit" THEN Nobody ELSE tx[c].on]
  BY DEF Types, At
<1>2. QED
  BY <1>1 DEF TxRecord

\* Which statements may follow an UPDATE, by the call it belongs to.
LEMMA FollowingIs ==
  ASSUME TInv, NEW c \in Connections, Busy(c), tx[c].at \in Updates, NEW u \in BOOLEAN
  PROVE  /\ Following(c, u) \in Statements /\ Placed(At(c, Following(c, u)))
         /\ Following(c, u) \in {"close", "rollback", "attempts", "commit", "reopen", "ask", "cancel"}
         /\ Following(c, u) \in {"close", "reopen"} => tx[c].at \in {"finish", "fail", "requeue"}
         /\ Following(c, u) \in {"ask", "cancel"} => tx[c].at \in {"flip", "ask"}
         /\ Following(c, u) = "rollback" => ~u
         /\ tx[c].at \in {"reopen", "cancel"} => Following(c, u) = "commit"
         /\ tx[c].at = "close" /\ tx[c].call # "reap" => Following(c, u) = "commit"
         /\ Following(c, u) = "attempts" => tx[c].call = "reap"
<1> DEFINE s == Following(c, u)
           t == tx[c]
<1>1. t \in TxRecord /\ Placed(t) /\ t.call # "none"
  BY DEF TInv, Sound, Types, Busy
<1>2. \/ t.at = "finish" /\ s = (IF u THEN "close" ELSE "rollback") /\ t.call = "finish" /\ t.on \in Jobs
      \/ t.at = "fail" /\ s = "close" /\ t.on \in Jobs /\ t.call \in {"fail", "reap"}
      \/ t.at \in {"fail", "close"} /\ t.ids = {} /\ s = "commit"
      \/ t.at \in {"fail", "close"} /\ t.ids # {} /\ s = "attempts" /\ t.call = "reap"
      \/ t.at = "requeue" /\ s = (IF u THEN "reopen" ELSE "commit") /\ t.call = "requeue" /\ t.on \in Jobs
      \/ t.at = "flip" /\ s = "ask" /\ t.call = "cancel" /\ t.on \in Orders
      \/ t.at = "ask" /\ s = "cancel" /\ t.call = "cancel" /\ t.on \in Orders
      \/ t.at \in {"cancel", "beat", "mark", "reopen"} /\ s = "commit"
  BY <1>1 DEF Placed, Following, AfterCancels, Updates, Statements
<1>3. s \in Statements
  BY <1>2 DEF Statements
<1>4. /\ At(c, s).at = s /\ At(c, s).todo = {} /\ At(c, s).call = t.call
      /\ At(c, s).for = t.for /\ At(c, s).ids = t.ids
      /\ At(c, s).on = IF s = "commit" THEN Nobody ELSE t.on
  BY <1>3, AtIs DEF TInv
<1> HIDE DEF s, t
<1>5. Placed(At(c, s))
  BY <1>1, <1>2, <1>4 DEF Placed
<1>6. QED
  BY <1>1, <1>2, <1>3, <1>5 DEF s, t, Placed

-----------------------------------------------------------------------------
(* The steps.                                                              *)

\* The rows of a connection that does not move, when those it holds do not move
\* but for their lease.
LEMMA Beside ==
  ASSUME TInv, NEW d \in Connections,
         tx'[d] = tx[d], wrote'[d] = wrote[d], settings'[d] = settings[d], pool' = pool,
         \A r \in DOMAIN wrote[d] :
           row'[r].state = row[r].state /\ (r \in Jobs => row'[r].attempts = row[r].attempts)
  PROVE  Sound(d)'
<1>1. Sound(d)
  BY DEF TInv
<1>2. Placed(tx[d])' /\ Pinned(d)' /\ JobThenOrder(d)'
  BY <1>1 DEF Sound, Placed, Pinned, Busy, JobThenOrder
<1>3. OwnRows(d)'
  BY <1>1 DEF Sound, OwnRows, Named, OrderOfTx
<1>4. Promised(d)'
  BY <1>1 DEF Sound, Promised
<1>5. QED
  BY <1>2, <1>3, <1>4 DEF Sound

\* A connection that writes rows nobody else holds leaves them its own.
LEMMA StaysExclusive ==
  ASSUME TInv, NEW c \in Connections, NEW f,
         wrote' = [wrote EXCEPT ![c] = f],
         \A r \in DOMAIN f : r \in DOMAIN wrote[c] \/ ~LockedByOther(c, r)
  PROVE  Exclusive'
<1>1. IsFn(wrote) /\ DOMAIN wrote = Connections /\ Exclusive
  BY DEF TInv, Types
<1>2. wrote'[c] = f /\ \A d \in Connections : d # c => wrote'[d] = wrote[d]
  BY <1>1
<1>3. \A d \in Connections : d # c => DOMAIN f \cap DOMAIN wrote[d] = {}
  BY <1>1 DEF LockedByOther, Exclusive
<1>4. QED
  BY <1>1, <1>2, <1>3 DEF Exclusive

\* What c holds once it has written F besides.
LEMMA OverTypes ==
  ASSUME Types, NEW c \in Connections, NEW F, DOMAIN F \subseteq Rows,
         \A r \in DOMAIN F : RowType(r, F[r]),
         wrote' = [wrote EXCEPT ![c] = Over(F, wrote[c])]
  PROVE  /\ IsFn(wrote') /\ DOMAIN wrote' = Connections
         /\ \A d \in Connections :
              /\ IsFn(wrote'[d]) /\ DOMAIN wrote'[d] \subseteq Rows
              /\ \A r \in DOMAIN wrote'[d] : RowType(r, wrote'[d][r])
         /\ DOMAIN wrote'[c] = DOMAIN F \cup DOMAIN wrote[c]
         /\ \A r \in DOMAIN F : wrote'[c][r] = F[r]
         /\ \A r \in DOMAIN wrote[c] : r \notin DOMAIN F => wrote'[c][r] = wrote[c][r]
         /\ \A d \in Connections : d # c => wrote'[d] = wrote[d]
<1>1. IsFn(wrote) /\ DOMAIN wrote = Connections
  BY DEF Types
<1>2. wrote'[c] = Over(F, wrote[c]) /\ \A d \in Connections : d # c => wrote'[d] = wrote[d]
  BY <1>1
<1>3. IsFn(wrote') /\ DOMAIN wrote' = Connections
  BY <1>1 DEF IsFn
<1>4. /\ DOMAIN wrote'[c] = DOMAIN F \cup DOMAIN wrote[c]
      /\ IsFn(wrote'[c])
      /\ \A r \in DOMAIN F : wrote'[c][r] = F[r]
      /\ \A r \in DOMAIN wrote[c] : r \notin DOMAIN F => wrote'[c][r] = wrote[c][r]
  <2> DEFINE W == wrote[c]
             G == Over(F, W)
  <2> HIDE DEF W
  <2>1. /\ DOMAIN G = DOMAIN F \cup DOMAIN W /\ IsFn(G)
        /\ \A r \in DOMAIN F : G[r] = F[r]
        /\ \A r \in DOMAIN W : r \notin DOMAIN F => G[r] = W[r]
    BY OverIs
  <2>2. wrote'[c] = G
    BY <1>2 DEF W
  <2> HIDE DEF G
  <2>3. QED
    BY <2>1, <2>2 DEF W
<1>5. \A r \in DOMAIN wrote'[c] : r \in Rows /\ RowType(r, wrote'[c][r])
  BY <1>4 DEF Types
<1>6. QED
  BY <1>2, <1>3, <1>4, <1>5 DEF Types

\* What an UPDATE writes of a row: of the kind its statement is about, still
\* matching, and held by nobody else.
LEMMA WrittenIs ==
  ASSUME TInv, NEW c \in Connections, NEW ok \in BOOLEAN, NEW T, Writes(c, T, ok),
         NEW r \in Written(c, T)
  PROVE  /\ r \in Rows /\ r \in Named(c) /\ TenantOf[r] = tx[c].for /\ ~LockedByOther(c, r)
         /\ Where(tx[c].at, Seen(c, r)) /\ RowType(r, After(tx[c], Seen(c, r), ok))
         /\ r \in Orders => tx[c].at \in {"reopen", "cancel", "close"}
         /\ r \in Jobs => tx[c].at \in Updates \ {"reopen", "cancel", "close"}
<1>1. r \in T /\ r \in Selected(c) /\ ~LockedByOther(c, r) /\ Busy(c) /\ tx[c].at \in Updates
  BY DEF Written, Writes
<1>2. r \in Rows /\ r \in Named(c) /\ TenantOf[r] = tx[c].for
  BY <1>1, SelectedIsNamed
<1>3. Where(tx[c].at, Seen(c, r))
  BY DEF Written, WriteStill
<1>4. /\ r \in Orders <=> r \notin Jobs
      /\ r \in Orders <=> tx[c].at \in {"reopen", "cancel", "close"}
  BY <1>1, <1>2, NamedKind, PoolAssumption DEF Rows
<1>5. RowType(r, Seen(c, r))
  BY <1>2, SeenType DEF TInv
<1>6. RowType(r, After(tx[c], Seen(c, r), ok))
  BY <1>1, <1>3, <1>4, <1>5, AfterJob, AfterOrder DEF RowType
<1>7. QED
  BY <1>1, <1>2, <1>3, <1>4, <1>6

\* An UPDATE, of all its rows or up to one it waits for.
LEMMA WritesKeep ==
  ASSUME TInv, NEW c \in Connections, NEW ok \in BOOLEAN, NEW T, Writes(c, T, ok)
  PROVE  TInv'
<1> DEFINE D == Written(c, T)
           t == tx'[c]
           whole == T = Selected(c)
           next == Following(c, D # {})
<1>1. /\ Busy(c) /\ tx[c].at \in Updates /\ UNCHANGED <<pool, row, settings>>
      /\ T \subseteq Selected(c) /\ Sound(c) /\ Types /\ tx[c] \in TxRecord
  BY DEF Writes, TInv, Types
<1>2. \A r \in D : /\ r \in Rows /\ r \in Named(c) /\ TenantOf[r] = tx[c].for
                   /\ ~LockedByOther(c, r) /\ RowType(r, After(tx[c], Seen(c, r), ok))
                   /\ r \in Orders => tx[c].at \in {"reopen", "cancel", "close"}
  BY WrittenIs
<1>3. PICK F : /\ DOMAIN F = D /\ \A r \in D : F[r] = After(tx[c], Seen(c, r), ok)
               /\ wrote' = [wrote EXCEPT ![c] = Over(F, wrote[c])]
  <2> DEFINE G == [r \in D |-> After(tx[c], Seen(c, r), ok)]
  <2>1. DOMAIN G = D /\ \A r \in D : G[r] = After(tx[c], Seen(c, r), ok)
    OBVIOUS
  <2>2. wrote' = [wrote EXCEPT ![c] = Over(G, wrote[c])]
    BY DEF Writes
  <2> HIDE DEF G, D
  <2>3. QED
    BY <2>1, <2>2
<1> HIDE DEF D
<1>a. DOMAIN F \subseteq Rows /\ \A r \in DOMAIN F : RowType(r, F[r])
  BY <1>2, <1>3
<1>4. /\ IsFn(wrote') /\ DOMAIN wrote' = Connections
      /\ \A d \in Connections :
           /\ IsFn(wrote'[d]) /\ DOMAIN wrote'[d] \subseteq Rows
           /\ \A r \in DOMAIN wrote'[d] : RowType(r, wrote'[d][r])
      /\ DOMAIN wrote'[c] = D \cup DOMAIN wrote[c]
      /\ \A r \in D : wrote'[c][r] = F[r]
      /\ \A r \in DOMAIN wrote[c] : r \notin D => wrote'[c][r] = wrote[c][r]
      /\ \A d \in Connections : d # c => wrote'[d] = wrote[d]
  <2>1. Types /\ c \in Connections /\ DOMAIN F \subseteq Rows
        /\ (\A r \in DOMAIN F : RowType(r, F[r])) /\ wrote' = [wrote EXCEPT ![c] = Over(F, wrote[c])]
    BY <1>1, <1>3, <1>a
  <2>2. /\ IsFn(wrote') /\ DOMAIN wrote' = Connections
        /\ \A d \in Connections :
             /\ IsFn(wrote'[d]) /\ DOMAIN wrote'[d] \subseteq Rows
             /\ \A r \in DOMAIN wrote'[d] : RowType(r, wrote'[d][r])
    BY ONLY <2>1, OverTypes
  <2>3. /\ DOMAIN wrote'[c] = DOMAIN F \cup DOMAIN wrote[c]
        /\ \A r \in DOMAIN F : wrote'[c][r] = F[r]
        /\ \A r \in DOMAIN wrote[c] : r \notin DOMAIN F => wrote'[c][r] = wrote[c][r]
        /\ \A d \in Connections : d # c => wrote'[d] = wrote[d]
    BY ONLY <2>1, OverTypes
  <2>4. QED
    BY <1>3, <2>2, <2>3
<1>5. Exclusive'
  <2>1. \A r \in DOMAIN Over(F, wrote[c]) : r \in DOMAIN wrote[c] \/ ~LockedByOther(c, r)
    <3>1. DOMAIN Over(F, wrote[c]) = DOMAIN F \cup DOMAIN wrote[c]
      BY OverIs
    <3>2. QED
      BY <1>2, <1>3, <3>1
  <2>2. QED
    BY <1>3, <2>1, StaysExclusive
<1>6. /\ tx' = [tx EXCEPT ![c] = t]
      /\ t = IF whole THEN At(c, next) ELSE [tx[c] EXCEPT !.todo = Selected(c) \ T]
  BY <1>1 DEF Writes, Types, D
<1> HIDE DEF t
<1>7. /\ Selected(c) \subseteq Rows
      /\ \A r \in Selected(c) : r \in Named(c) /\ TenantOf[r] = tx[c].for
  BY <1>1, SelectedIsNamed
<1>8. ASSUME whole
      PROVE  /\ t \in TxRecord /\ Placed(t) /\ t.at = next /\ t.todo = {} /\ t.call = tx[c].call
             /\ t.for = tx[c].for
             /\ next \in {"close", "rollback", "attempts", "commit", "reopen", "ask", "cancel"}
             /\ next \in {"close", "reopen"} => tx[c].at \in {"finish", "fail", "requeue"}
             /\ next \in {"ask", "cancel"} => tx[c].at \in {"flip", "ask"}
             /\ tx[c].at \in {"reopen", "cancel"} => next = "commit"
             /\ tx[c].at = "close" /\ tx[c].call # "reap" => next = "commit"
             /\ next = "attempts" => tx[c].call = "reap"
  <2>1. PICK u \in BOOLEAN : u = (D # {})
    OBVIOUS
  <2>2. next = Following(c, u)
    BY <2>1
  <2> HIDE DEF next, whole
  <2>3. next \in Statements /\ Placed(At(c, next))
    BY <1>1, <2>2, FollowingIs
  <2>4. t = At(c, next)
    BY <1>6, <1>8
  <2>5. QED
    BY <1>1, <2>2, <2>3, <2>4, FollowingIs, AtIs
<1>9. ASSUME ~whole
      PROVE  /\ t \in TxRecord /\ t.call = tx[c].call /\ t.for = tx[c].for /\ t.at = tx[c].at
             /\ t.on = tx[c].on /\ t.ids = tx[c].ids /\ t.todo \subseteq Selected(c)
    BY <1>1, <1>6, <1>7, <1>9 DEF TxRecord
<1> HIDE DEF whole, next
<1>10. Types'
  BY <1>1, <1>4, <1>6, <1>8, <1>9 DEF Types
<1>11. Placed(tx[c])'
  <2>1. Placed(tx[c]) /\ tx[c].call # "none"
    BY <1>1 DEF Sound, Busy
  <2>2. Placed(t)
    BY <1>1, <1>8, <1>9, <2>1 DEF Placed
  <2>3. QED
    BY <2>2 DEF t
<1>12. Pinned(c)'
  BY <1>1, <1>8, <1>9 DEF Sound, Pinned, Busy, Pin, t
<1>13. OwnRows(c)'
  <2>1. \A r \in DOMAIN wrote'[c] : TenantOf[r] = tx'[c].for
    BY <1>1, <1>2, <1>4, <1>8, <1>9 DEF Sound, OwnRows, t
  <2>2. ~whole => Named(c)' = Named(c)
    BY <1>9 DEF Named, OrderOfTx, t
  <2>3. \A r \in tx'[c].todo : r \in Named(c)' /\ TenantOf[r] = tx'[c].for
    BY <1>7, <1>8, <1>9, <2>2 DEF t
  <2>4. QED
    BY <2>1, <2>3 DEF OwnRows
<1>14. JobThenOrder(c)'
  <2>1. JobThenOrder(c)
    BY <1>1 DEF Sound
  <2>2. ASSUME whole PROVE JobThenOrder(c)'
    <3>1. DOMAIN wrote[c] \cap Orders # {} => tx[c].call = "reap"
      BY <1>1, <2>1 DEF JobThenOrder, Updates
    <3>2. t.at \in {"commit", "rollback", "close", "reopen", "ask", "cancel"} \/ t.call = "reap"
      BY <1>8, <2>2
    <3>3. DOMAIN wrote'[c] \cap Orders # {} => t.at = "commit" \/ t.call = "reap"
      BY <1>2, <1>4, <1>8, <2>2, <3>1
    <3>4. t.at \in {"attempts", "fail"} => t.call # "fail"
      BY <1>8, <2>2
    <3>5. QED
      BY <3>2, <3>3, <3>4, <1>8, <2>2 DEF JobThenOrder, t
  <2>3. ASSUME ~whole PROVE JobThenOrder(c)'
    <3>1. D \cap Selected(c) = D /\ Selected(c) # D
      BY <1>1, <2>3 DEF D, Written, whole
    <3>2. tx[c].at \notin {"flip", "ask"} => \A r, u \in Selected(c) : r = u
      BY <1>1, <1>7 DEF Named
    <3>3. tx[c].at \notin {"flip", "ask"} => D = {}
      <4>1. PICK u \in Selected(c) : u \notin T
        BY <1>1, <2>3 DEF whole
      <4>2. QED
        BY <1>1, <3>2, <4>1 DEF D, Written
    <3>4. \A r \in D : r \notin Orders
      BY <1>2, <3>3
    <3>5. QED
      BY <1>4, <1>9, <2>1, <2>3, <3>3, <3>4, <1>1 DEF JobThenOrder, t, Updates, Sound, Placed
  <2>4. QED
    BY <2>2, <2>3
<1>15. Promised(c)'
  <2>1. Promised(c) /\ row' = row
    BY <1>1 DEF Sound
  <2>2. ASSUME NEW r \in D, r \in Jobs
        PROVE  /\ F[r].attempts > row[r].attempts =>
                    row[r].state = "pending" /\ F[r].attempts = row[r].attempts + 1
               /\ F[r].state \in {"succeeded", "failed"} => row[r].state = "running"
    <3>1. /\ tx[c].at \in Updates \ {"reopen", "cancel", "close"} /\ Where(tx[c].at, Seen(c, r))
          /\ r \in Rows
      BY <2>2, WrittenIs DEF D
    <3>2. Seen(c, r) \in JobRow /\ row[r] \in JobRow
      BY <1>1, <2>2, <3>1, SeenType DEF RowType, Types
    <3>3. /\ F[r] \in JobRow /\ F[r].attempts <= Seen(c, r).attempts
          /\ F[r].state \in {"succeeded", "failed"} =>
               tx[c].at = "finish" /\ Seen(c, r).state = "running"
      BY <1>3, <2>2, <3>1, <3>2, AfterJob
    <3>4. F[r].attempts \in Nat /\ Seen(c, r).attempts \in Nat /\ row[r].attempts \in Nat
      BY <3>2, <3>3 DEF JobRow
    <3>5. tx[c].at = "finish" => Seen(c, r) = row[r]
      BY <1>1 DEF Sound, JobThenOrder, Seen
    <3>6. Seen(c, r).attempts > row[r].attempts =>
            row[r].state = "pending" /\ Seen(c, r).attempts = row[r].attempts + 1
      BY <2>1, <2>2, <3>4 DEF Promised, Seen
    <3>7. QED
      BY <3>3, <3>4, <3>5, <3>6
  <2>3. ASSUME NEW r \in D, r \in Orders, row[r].state = "cancelled"
        PROVE  F[r].state = "cancelled"
    <3>1. tx[c].at \in {"reopen", "cancel", "close"} /\ Where(tx[c].at, Seen(c, r)) /\ r \in Rows
      BY <2>3, WrittenIs DEF D
    <3>2. Seen(c, r) \in OrderRow
      BY <1>1, <2>3, <3>1, SeenType DEF RowType
    <3>3. Seen(c, r).state = "cancelled"
      BY <2>1, <2>3 DEF Promised, Seen
    <3>4. QED
      BY <1>3, <2>3, <3>1, <3>2, <3>3, AfterOrder
  <2>4. QED
    BY <1>4, <2>1, <2>2, <2>3 DEF Promised
<1>16. \A d \in Connections : d # c => Sound(d)'
  BY <1>1, <1>4, <1>6, Beside
<1>17. QED
  BY <1>5, <1>10, <1>11, <1>12, <1>13, <1>14, <1>15, <1>16 DEF TInv, Sound

\* A row that is claimed stays a job's row, one attempt up.
LEMMA TakenIs ==
  ASSUME NEW v \in JobRow
  PROVE  LET w == [v EXCEPT !.state = "running", !.lease = "live", !.attempts = @ + 1] IN
         w \in JobRow /\ w.attempts = v.attempts + 1 /\ w.state = "running"
<1> DEFINE a == [v EXCEPT !.state = "running"]
           b == [a EXCEPT !.lease = "live"]
<1>1. v.attempts \in Nat /\ a = [state |-> "running", attempts |-> v.attempts, lease |-> v.lease]
  BY DEF JobRow
<1>2. [v EXCEPT !.state = "running", !.lease = "live", !.attempts = @ + 1]
        = [b EXCEPT !.attempts = b.attempts + 1]
  OBVIOUS
<1> HIDE DEF a
<1>3. b = [state |-> "running", attempts |-> v.attempts, lease |-> "live"]
  BY <1>1
<1> HIDE DEF b
<1>4. [b EXCEPT !.attempts = b.attempts + 1]
        = [state |-> "running", attempts |-> v.attempts + 1, lease |-> "live"]
  BY <1>1, <1>3
<1>5. QED
  BY <1>1, <1>2, <1>4 DEF JobRow

\* A claim takes pending rows of its tenant that nobody holds.
LEMMA ClaimKeeps ==
  ASSUME TInv, NEW c \in Connections, Claim(c)
  PROVE  TInv'
<1> DEFINE Taken(j) == [Seen(c, j) EXCEPT !.state = "running", !.lease = "live", !.attempts = @ + 1]
<1>1. /\ Busy(c) /\ tx[c].at = "claim" /\ UNCHANGED <<pool, row, settings>>
      /\ tx' = [tx EXCEPT ![c] = At(c, "commit")] /\ Sound(c) /\ Types /\ "commit" \in Statements
      /\ tx \in [Connections -> TxRecord]
  BY DEF Claim, TInv, Types, Statements
<1>2. PICK S \in SUBSET Claimable(c) :
        wrote' = [wrote EXCEPT ![c] = Over([j \in S |-> Taken(j)], wrote[c])]
  BY DEF Claim
<1>3. DOMAIN wrote[c] = {}
  BY <1>1 DEF Sound, JobThenOrder
<1>4. ASSUME NEW j \in S
      PROVE  /\ j \in Rows /\ j \in Jobs /\ TenantOf[j] = tx[c].for /\ ~LockedByOther(c, j)
             /\ row[j].state = "pending" /\ RowType(j, Taken(j))
             /\ Taken(j).attempts = row[j].attempts + 1 /\ Taken(j).state = "running"
  <2>1. j \in Jobs /\ j \in Rows /\ j \in Visible(c) /\ ~LockedByOther(c, j) /\ Seen(c, j).state = "pending"
    BY <1>2 DEF Claimable, InStates, Rows
  <2>2. Seen(c, j) = row[j] /\ row[j] \in JobRow /\ j \notin Orders
    BY <1>1, <1>3, <2>1, PoolAssumption DEF Seen, Types, RowType
  <2>3. /\ [row[j] EXCEPT !.state = "running", !.lease = "live", !.attempts = @ + 1] \in JobRow
        /\ [row[j] EXCEPT !.state = "running", !.lease = "live", !.attempts = @ + 1].attempts = row[j].attempts + 1
        /\ [row[j] EXCEPT !.state = "running", !.lease = "live", !.attempts = @ + 1].state = "running"
    BY <2>2, TakenIs
  <2>4. QED
    BY <1>1, <2>1, <2>2, <2>3, VisibleIsOwn DEF RowType
<1>5. PICK F : /\ DOMAIN F = S /\ \A j \in S : F[j] = Taken(j)
               /\ wrote' = [wrote EXCEPT ![c] = Over(F, wrote[c])]
  <2> DEFINE G == [j \in S |-> Taken(j)]
  <2>1. DOMAIN G = S /\ \A j \in S : G[j] = Taken(j)
    OBVIOUS
  <2>2. wrote' = [wrote EXCEPT ![c] = Over(G, wrote[c])]
    BY <1>2
  <2> HIDE DEF G, Taken
  <2>3. QED
    BY <2>1, <2>2
<1> HIDE DEF Taken
<1>6. DOMAIN F \subseteq Rows /\ \A r \in DOMAIN F : RowType(r, F[r])
  BY <1>4, <1>5
<1>7. /\ IsFn(wrote') /\ DOMAIN wrote' = Connections
      /\ \A d \in Connections :
           /\ IsFn(wrote'[d]) /\ DOMAIN wrote'[d] \subseteq Rows
           /\ \A r \in DOMAIN wrote'[d] : RowType(r, wrote'[d][r])
      /\ DOMAIN wrote'[c] = S /\ \A r \in S : wrote'[c][r] = Taken(r)
      /\ \A d \in Connections : d # c => wrote'[d] = wrote[d]
  <2>1. Types /\ c \in Connections /\ DOMAIN F \subseteq Rows
        /\ (\A r \in DOMAIN F : RowType(r, F[r])) /\ wrote' = [wrote EXCEPT ![c] = Over(F, wrote[c])]
    BY <1>1, <1>5, <1>6
  <2>2. /\ IsFn(wrote') /\ DOMAIN wrote' = Connections
        /\ \A d \in Connections :
             /\ IsFn(wrote'[d]) /\ DOMAIN wrote'[d] \subseteq Rows
             /\ \A r \in DOMAIN wrote'[d] : RowType(r, wrote'[d][r])
    BY ONLY <2>1, OverTypes
  <2>3. /\ DOMAIN wrote'[c] = DOMAIN F \cup DOMAIN wrote[c] /\ \A r \in DOMAIN F : wrote'[c][r] = F[r]
        /\ \A d \in Connections : d # c => wrote'[d] = wrote[d]
    BY ONLY <2>1, OverTypes
  <2>4. QED
    BY <1>3, <1>5, <2>2, <2>3
<1>8. Exclusive'
  <2>1. DOMAIN Over(F, wrote[c]) = DOMAIN F \cup DOMAIN wrote[c]
    BY OverIs
  <2>2. QED
    BY <1>3, <1>4, <1>5, <2>1, StaysExclusive
<1>9. /\ tx' \in [Connections -> TxRecord] /\ tx'[c].at = "commit" /\ tx'[c].todo = {}
      /\ tx'[c].call = "claim" /\ tx'[c].for = tx[c].for /\ tx'[c].ids = {}
      /\ \A d \in Connections : d # c => tx'[d] = tx[d]
  BY <1>1, AtIs DEF Sound, Placed
<1>10. Types'
  BY <1>1, <1>7, <1>9 DEF Types
<1>11. Sound(c)'
  <2>1. Placed(tx[c])' /\ Pinned(c)'
    BY <1>1, <1>9 DEF Sound, Placed, Pinned, Busy
  <2>2. OwnRows(c)' /\ JobThenOrder(c)' /\ Promised(c)'
    BY <1>1, <1>4, <1>7, <1>9, PoolAssumption DEF OwnRows, JobThenOrder, Promised
  <2>3. QED
    BY <2>1, <2>2 DEF Sound
<1>12. \A d \in Connections : d # c => Sound(d)'
  BY <1>1, <1>7, <1>9, Beside
<1>13. QED
  BY <1>8, <1>10, <1>11, <1>12 DEF TInv

\* What a SELECT notes down leaves the rest of a transaction as it was.
LEMMA WithIds ==
  ASSUME NEW u \in TxRecord, NEW ids \in SUBSET Jobs
  PROVE  LET w == [u EXCEPT !.ids = ids] IN
         /\ w \in TxRecord /\ w.ids = ids /\ w.at = u.at /\ w.call = u.call /\ w.for = u.for
         /\ w.todo = u.todo /\ w.on = u.on
BY DEF TxRecord

WithJob(u, j, b) == [u EXCEPT !.on = j, !.ids = @ \ {j}, !.spent = b]

\* So does moving on to the next job of a reap.
LEMMA WithJobIs ==
  ASSUME NEW u \in TxRecord, NEW j \in Jobs, NEW b \in BOOLEAN
  PROVE  LET w == WithJob(u, j, b) IN
         /\ w \in TxRecord /\ w.ids = u.ids \ {j} /\ w.at = u.at /\ w.call = u.call /\ w.for = u.for
         /\ w.todo = u.todo /\ w.on = j /\ w.spent = b
<1>1. /\ [u EXCEPT !.on = j] \in TxRecord /\ [u EXCEPT !.on = j].ids = u.ids
      /\ [u EXCEPT !.on = j].at = u.at /\ [u EXCEPT !.on = j].call = u.call
      /\ [u EXCEPT !.on = j].for = u.for /\ [u EXCEPT !.on = j].todo = u.todo
      /\ [u EXCEPT !.on = j].on = j
  BY DEF TxRecord, Rows
<1> DEFINE v == [u EXCEPT !.on = j]
<1> HIDE DEF v
<1>2. ASSUME NEW ids \in SUBSET Jobs
      PROVE  LET w == [[v EXCEPT !.ids = ids] EXCEPT !.spent = b] IN
             /\ w \in TxRecord /\ w.ids = ids /\ w.at = u.at /\ w.call = u.call /\ w.for = u.for
             /\ w.todo = u.todo /\ w.on = j /\ w.spent = b
  BY <1>1 DEF v, TxRecord
<1>3. v.ids \ {j} \in SUBSET Jobs /\ v.ids = u.ids
  BY <1>1 DEF v, TxRecord
<1>4. WithJob(u, j, b) = [[v EXCEPT !.ids = v.ids \ {j}] EXCEPT !.spent = b]
  BY DEF v, WithJob
<1>5. QED
  BY <1>2, <1>3, <1>4

\* The SELECTs of a reap and of failAttempt only move their call on.
LEMMA ReadsKeep ==
  ASSUME TInv, NEW c \in Connections, ReadExpired(c) \/ ReadAttempts(c)
  PROVE  TInv'
<1>1. /\ Busy(c) /\ UNCHANGED <<pool, row, wrote, settings>> /\ Sound(c) /\ Types
      /\ tx[c] \in TxRecord /\ {"commit", "attempts", "fail"} \subseteq Statements
      /\ tx \in [Connections -> TxRecord]
  BY DEF ReadExpired, ReadAttempts, TInv, Types, Statements
<1>a. ASSUME NEW s \in {"commit", "attempts", "fail"}
      PROVE  /\ At(c, s) \in TxRecord
             /\ At(c, s).at = s /\ At(c, s).todo = {} /\ At(c, s).call = tx[c].call
             /\ At(c, s).for = tx[c].for /\ At(c, s).ids = tx[c].ids
  BY <1>1, AtIs
<1>2. PICK t \in TxRecord :
        /\ tx' = [tx EXCEPT ![c] = t] /\ Placed(t) /\ t.todo = {} /\ t.call = tx[c].call /\ t.for = tx[c].for
        /\ t.at = "fail" \/ t.call = "reap"
        /\ t.at = "fail" => tx[c].at = "attempts"
        /\ t.at \in {"fail", "commit", "attempts"}
  <2>1. CASE ReadExpired(c)
    <3>1. tx[c].at = "expired" /\ tx[c].call = "reap" /\ tx[c].for \in Tenants
      BY <1>1, <2>1 DEF ReadExpired, Sound, Placed, Busy
    <3>2. PICK ids \in SUBSET Jobs :
            tx' = [tx EXCEPT ![c] =
              IF ids = {} THEN At(c, "commit") ELSE [At(c, "attempts") EXCEPT !.ids = ids]]
      BY <2>1 DEF ReadExpired, InStates
    <3>3. CASE ids = {}
      <4>1. Placed(At(c, "commit"))
        BY <1>1, <1>a, <3>1 DEF Placed, Sound
      <4>2. QED
        BY <1>a, <3>1, <3>2, <3>3, <4>1
    <3>4. CASE ids # {}
      <4>1. /\ [At(c, "attempts") EXCEPT !.ids = ids] \in TxRecord
            /\ [At(c, "attempts") EXCEPT !.ids = ids].ids = ids
            /\ [At(c, "attempts") EXCEPT !.ids = ids].at = "attempts"
            /\ [At(c, "attempts") EXCEPT !.ids = ids].call = "reap"
            /\ [At(c, "attempts") EXCEPT !.ids = ids].for = tx[c].for
            /\ [At(c, "attempts") EXCEPT !.ids = ids].todo = {}
        BY <1>a, <3>1, WithIds
      <4>2. QED
        BY <1>1, <3>1, <3>2, <3>4, <4>1 DEF Placed
    <3>5. QED
      BY <3>3, <3>4
  <2>2. CASE ReadAttempts(c)
    <3>1. tx[c].at = "attempts" /\ tx[c].call \in {"fail", "reap"} /\ (tx[c].ids = {} => tx[c].on \in Jobs)
          /\ tx[c].for \in Tenants /\ (tx[c].ids # {} => tx[c].call = "reap")
      BY <1>1, <2>2 DEF ReadAttempts, Sound, Placed, Busy
    <3>a. PICK j \in Jobs :
            tx' = [tx EXCEPT ![c] =
              [At(c, "fail") EXCEPT !.on = j, !.ids = @ \ {j},
                                    !.spent = Seen(c, j).attempts >= MaxAttempts]]
      BY <1>1, <2>2, <3>1 DEF ReadAttempts, TxRecord
    <3> DEFINE b == Seen(c, j).attempts >= MaxAttempts
               f == At(c, "fail")
               u == WithJob(f, j, b)
    <3>2. tx' = [tx EXCEPT ![c] = u]
      BY <3>a DEF WithJob
    <3>b. b \in BOOLEAN
      OBVIOUS
    <3>c. f \in TxRecord /\ f.at = "fail" /\ f.todo = {} /\ f.call = tx[c].call
          /\ f.for = tx[c].for /\ f.ids = tx[c].ids
      BY <1>a
    <3> HIDE DEF f, b
    <3>3. /\ u \in TxRecord /\ u.on = j /\ u.ids = tx[c].ids \ {j} /\ u.at = "fail"
          /\ u.call = tx[c].call /\ u.for = tx[c].for /\ u.todo = {}
      BY <3>b, <3>c, WithJobIs
    <3>4. tx' = [tx EXCEPT ![c] = u]
      BY <3>2
    <3> HIDE DEF u
    <3>5. Placed(u)
      BY <3>1, <3>3 DEF Placed
    <3>6. QED
      BY <3>1, <3>3, <3>4, <3>5
  <2>3. QED
    BY <2>1, <2>2
<1>3. tx'[c] = t /\ tx' \in [Connections -> TxRecord] /\ \A d \in Connections : d # c => tx'[d] = tx[d]
  BY <1>1, <1>2
<1>4. Types' /\ Exclusive'
  BY <1>1, <1>3 DEF Types, TInv, Exclusive
<1>5. Sound(c)'
  <2>1. Placed(tx[c])' /\ Pinned(c)'
    BY <1>1, <1>2, <1>3 DEF Sound, Pinned, Busy
  <2>2. OwnRows(c)' /\ Promised(c)'
    BY <1>1, <1>2, <1>3 DEF Sound, OwnRows, Promised
  <2>3. JobThenOrder(c)'
    BY <1>1, <1>2, <1>3 DEF Sound, JobThenOrder
  <2>4. QED
    BY <2>1, <2>2, <2>3 DEF Sound
<1>6. \A d \in Connections : d # c => Sound(d)'
  BY <1>1, <1>3, Beside
<1>7. QED
  BY <1>4, <1>5, <1>6 DEF TInv

\* A call starts with nothing written, pinned to its tenant.
LEMMA BeginKeeps ==
  ASSUME TInv, NEW c \in Connections, NEW call \in Calls, NEW n \in Tenants,
         NEW r \in Rows \cup {Nobody}, Begin(c, call, n, r)
  PROVE  TInv'
<1> DEFINE t == [Idle EXCEPT !.call = call, !.for = n, !.on = r, !.at = First(call)]
<1>1. /\ c \in pool /\ ~Busy(c) /\ UNCHANGED <<pool, row, wrote>> /\ Sound(c) /\ Types
      /\ tx' = [tx EXCEPT ![c] = t] /\ settings' = [settings EXCEPT ![c] = Pin(n)]
      /\ tx \in [Connections -> TxRecord]
  BY DEF Begin, TInv, Types
<1>2. /\ call \in {"claim", "reap"} => r = Nobody
      /\ call = "cancel" => r \in Orders
      /\ call \notin {"claim", "reap", "cancel"} => r \in Jobs
  BY DEF Begin
<1>3. \/ First(call) = "claim" /\ call = "claim"
      \/ First(call) = "beat" /\ call = "heartbeat"
      \/ First(call) = "attempts" /\ call = "fail"
      \/ First(call) = "expired" /\ call = "reap"
      \/ First(call) = "flip" /\ call = "cancel"
      \/ First(call) = "finish" /\ call = "finish"
      \/ First(call) = "requeue" /\ call = "requeue"
      \/ First(call) = "mark" /\ call = "mark"
  BY DEF First, Calls
<1>4. First(call) \in Statements
  BY <1>3 DEF Statements
<1> DEFINE s == First(call)
<1> HIDE DEF s, t
<1>5. t \in TxRecord /\ Placed(t) /\ t.todo = {} /\ t.call = call /\ t.for = n /\ t.at # "commit"
      /\ call # "none"
  <2>1. /\ Idle \in TxRecord /\ s \in Statements /\ Idle.ids = {} /\ Idle.todo = {} /\ call \in Calls \cup {"none"}
        /\ t = [Idle EXCEPT !.call = call, !.for = n, !.on = r, !.at = s]
        /\ n \in Tenants \cup {Nobody}
    BY <1>4 DEF s, t, Idle, TxRecord, Statements
  <2>2. /\ t \in TxRecord /\ t.call = call /\ t.for = n /\ t.on = r /\ t.at = s
        /\ t.ids = {} /\ t.todo = {}
    BY <2>1 DEF TxRecord
  <2>3. Placed(t)
    BY <1>2, <1>3, <2>2 DEF Placed, s
  <2>4. QED
    BY <1>3, <2>2, <2>3 DEF s
<1>6. tx'[c] = t /\ tx' \in [Connections -> TxRecord] /\ \A d \in Connections : d # c => tx'[d] = tx[d]
  BY <1>1, <1>5
<1>7. /\ Pin(n) \in [role : {"owner", "app"}, tenant : Tenants \cup {Nobody}]
      /\ settings'[c] = Pin(n) /\ \A d \in Connections : d # c => settings'[d] = settings[d]
  BY <1>1 DEF Types, Pin
<1>8. Types' /\ Exclusive'
  BY <1>1, <1>6, <1>7 DEF Types, TInv, Exclusive
<1>9. Sound(c)'
  <2>1. DOMAIN wrote'[c] = {}
    BY <1>1 DEF Sound, Pinned
  <2>2. Placed(tx[c])' /\ Pinned(c)'
    BY <1>1, <1>5, <1>6, <1>7 DEF Pinned, Busy
  <2>3. OwnRows(c)' /\ JobThenOrder(c)' /\ Promised(c)'
    BY <1>5, <1>6, <2>1 DEF OwnRows, JobThenOrder, Promised
  <2>4. QED
    BY <2>2, <2>3 DEF Sound
<1>10. \A d \in Connections : d # c => Sound(d)'
  BY <1>1, <1>6, <1>7, Beside
<1>11. QED
  BY <1>8, <1>9, <1>10 DEF TInv

\* A call ends: its rows are committed, or forgotten.
LEMMA EndKeeps ==
  ASSUME TInv, NEW c \in Connections, Busy(c), End(c),
         row' = row \/ row' = Over(wrote[c], row)
  PROVE  TInv'
<1>1. /\ pool' = pool /\ tx' = [tx EXCEPT ![c] = Idle] /\ Types /\ Sound(c)
      /\ wrote' = [wrote EXCEPT ![c] = <<>>] /\ settings' = [settings EXCEPT ![c] = Unpinned]
      /\ tx \in [Connections -> TxRecord]
  BY DEF End, TInv, Types
<1>2. /\ Idle \in TxRecord /\ Placed(Idle) /\ Idle.todo = {} /\ Idle.at = "commit" /\ Idle.call = "none"
  BY DEF Idle, TxRecord, Statements, Placed
<1>3. tx'[c] = Idle /\ tx' \in [Connections -> TxRecord] /\ \A d \in Connections : d # c => tx'[d] = tx[d]
  BY <1>1, <1>2
<1>4. DOMAIN <<>> = {} /\ IsFn(<<>>)
  BY DEF IsFn
<1>5. /\ IsFn(wrote') /\ DOMAIN wrote' = Connections /\ wrote'[c] = <<>>
      /\ \A d \in Connections : d # c => wrote'[d] = wrote[d]
  BY <1>1 DEF Types, IsFn
<1>6. /\ settings'[c] = Unpinned /\ \A d \in Connections : d # c => settings'[d] = settings[d]
      /\ settings' \in [Connections -> [role : {"owner", "app"}, tenant : Tenants \cup {Nobody}]]
  BY <1>1 DEF Types, Unpinned
<1>7. /\ IsFn(row') /\ DOMAIN row' = Rows /\ \A r \in Rows : RowType(r, row'[r])
      /\ \A r \in Rows : r \notin DOMAIN wrote[c] => row'[r] = row[r]
  <2>1. CASE row' = row
    BY <1>1, <2>1 DEF Types
  <2>2. CASE row' = Over(wrote[c], row)
    <3>1. /\ DOMAIN Over(wrote[c], row) = DOMAIN wrote[c] \cup DOMAIN row
          /\ IsFn(Over(wrote[c], row))
          /\ \A r \in DOMAIN wrote[c] : Over(wrote[c], row)[r] = wrote[c][r]
          /\ \A r \in DOMAIN row : r \notin DOMAIN wrote[c] => Over(wrote[c], row)[r] = row[r]
      BY OverIs
    <3>2. QED
      BY <1>1, <2>2, <3>1 DEF Types
  <2>3. QED
    BY <2>1, <2>2
<1>8. Types'
  <2>1. \A d \in Connections :
          /\ IsFn(wrote'[d]) /\ DOMAIN wrote'[d] \subseteq Rows
          /\ \A r \in DOMAIN wrote'[d] : RowType(r, wrote'[d][r])
    BY <1>1, <1>4, <1>5 DEF Types
  <2>2. QED
    BY <1>1, <1>3, <1>5, <1>6, <1>7, <2>1 DEF Types
<1>9. Exclusive'
  BY <1>4, <1>5 DEF Exclusive, TInv
<1>10. Sound(c)'
  <2>1. Placed(tx[c])' /\ Pinned(c)'
    BY <1>2, <1>3, <1>4, <1>5 DEF Pinned, Busy
  <2>2. OwnRows(c)' /\ JobThenOrder(c)' /\ Promised(c)'
    BY <1>2, <1>3, <1>4, <1>5 DEF OwnRows, JobThenOrder, Promised
  <2>3. QED
    BY <2>1, <2>2 DEF Sound
<1>11. ASSUME NEW d \in Connections, d # c PROVE Sound(d)'
  <2>1. \A r \in DOMAIN wrote[d] : r \in Rows /\ r \notin DOMAIN wrote[c]
    BY <1>1, <1>11 DEF TInv, Exclusive, Types
  <2>2. \A r \in DOMAIN wrote[d] : row'[r] = row[r]
    BY <1>7, <2>1
  <2>3. QED
    BY <1>1, <1>3, <1>5, <1>6, <1>11, <2>2, Beside
<1>12. QED
  BY <1>8, <1>9, <1>10, <1>11 DEF TInv

\* The clock touches leases, of held rows too, and nothing a writer relied on.
LEMMA ClockKeeps ==
  ASSUME TInv, NEW j \in Jobs, LeaseExpires(j)
  PROVE  /\ TInv'
         /\ \A r \in Rows :
              row'[r].state = row[r].state /\ (r \in Jobs => row'[r].attempts = row[r].attempts)
<1>1. /\ Types /\ UNCHANGED <<pool, wrote, tx, settings>> /\ j \in Rows /\ j \notin Orders
      /\ row' = [row EXCEPT ![j].lease = "expired"] /\ row[j] \in JobRow
  BY PoolAssumption DEF LeaseExpires, TInv, Types, Rows, RowType
<1>2. /\ [row[j] EXCEPT !.lease = "expired"] \in JobRow
      /\ [row[j] EXCEPT !.lease = "expired"].state = row[j].state
      /\ [row[j] EXCEPT !.lease = "expired"].attempts = row[j].attempts
  BY <1>1 DEF JobRow
<1>3. /\ IsFn(row') /\ DOMAIN row' = Rows /\ row'[j] = [row[j] EXCEPT !.lease = "expired"]
      /\ \A r \in Rows : r # j => row'[r] = row[r]
  BY <1>1 DEF Types, IsFn
<1>4. \A r \in Rows : RowType(r, row'[r]) /\ row'[r].state = row[r].state
                     /\ (r \in Jobs => row'[r].attempts = row[r].attempts)
  BY <1>1, <1>2, <1>3 DEF Types, RowType
<1>5. Types' /\ Exclusive'
  BY <1>1, <1>3, <1>4 DEF Types, TInv, Exclusive
<1>6. ASSUME NEW d \in Connections PROVE Sound(d)'
  <2>1. DOMAIN wrote[d] \subseteq Rows
    BY <1>1 DEF Types
  <2>2. QED
    BY <1>1, <1>4, <2>1, Beside
<1>7. QED
  BY <1>4, <1>5, <1>6 DEF TInv

\* Every statement, commit and crash keeps the invariant.
LEMMA TInvStep == TInv /\ [Next]_vars => TInv'
<1> SUFFICES ASSUME TInv, [Next]_vars PROVE TInv'
  OBVIOUS
<1>1. ASSUME NEW c \in Connections, NEW ok \in BOOLEAN, Execute(c, ok) PROVE TInv'
  BY <1>1, ExecuteWrites, WritesKeep
<1>2. ASSUME NEW c \in Connections, Commit(c) \/ Rollback(c) \/ Crash(c) PROVE TInv'
  BY <1>2, EndKeeps DEF Commit, Rollback, Crash
<1>3. ASSUME NEW c \in Connections, BreakDeadlock(c) PROVE TInv'
  <2>1. WaitsFor(c) # {} /\ End(c) /\ UNCHANGED row
    BY <1>3 DEF BreakDeadlock, Cycle
  <2>2. Busy(c)
    BY <2>1 DEF WaitsFor, TInv, Sound, Placed, Busy, Idle
  <2>3. QED
    BY <2>1, <2>2, EndKeeps
<1>4. CASE UNCHANGED vars
  <2>1. UNCHANGED <<pool, row, wrote, tx, settings>>
    BY <1>4 DEF vars
  <2>2. \A d \in Connections : Sound(d)'
    BY <2>1, Beside
  <2>3. QED
    BY <2>1, <2>2 DEF TInv, Types, Exclusive
<1>5. QED
  BY <1>1, <1>2, <1>3, <1>4, ReadsKeep, ClaimKeeps, BeginKeeps, ClockKeeps DEF Next, Proceed

\* At first no transaction is under way.
LEMMA TInvInit == Init => TInv
<1> SUFFICES ASSUME Init PROVE TInv
  OBVIOUS
<1>1. /\ Idle \in TxRecord /\ Placed(Idle) /\ Idle.todo = {} /\ Idle.at = "commit" /\ Idle.call = "none"
  BY DEF Idle, TxRecord, Statements, Placed
<1>2. DOMAIN <<>> = {} /\ IsFn(<<>>)
  BY DEF IsFn
<1>3. /\ IsFn(row) /\ DOMAIN row = Rows /\ \A r \in Rows : RowType(r, row[r])
  BY PoolAssumption DEF Init, IsFn, RowType, JobRow, OrderRow, Rows
<1>4. Types
  <2>1. /\ tx \in [Connections -> TxRecord] /\ pool \in SUBSET Connections
        /\ settings \in [Connections -> [role : {"owner", "app"}, tenant : Tenants \cup {Nobody}]]
    BY <1>1 DEF Init, Unpinned
  <2>2. /\ IsFn(wrote) /\ DOMAIN wrote = Connections /\ \A c \in Connections : wrote[c] = <<>>
    BY DEF Init, IsFn
  <2>3. QED
    BY <1>2, <1>3, <2>1, <2>2 DEF Types
<1>5. ASSUME NEW c \in Connections PROVE Sound(c)
  BY <1>1, <1>2 DEF Init, Sound, Pinned, Busy, OwnRows, JobThenOrder, Promised
<1>6. Exclusive
  BY <1>2 DEF Init, Exclusive
<1>7. QED
  BY <1>4, <1>5, <1>6 DEF TInv

\* What each transaction may hold and would commit, at every point of it.
THEOREM TransactionInvariant == Spec => []TInv
BY TInvInit, TInvStep, PTL DEF Spec

-----------------------------------------------------------------------------
(* The properties.                                                         *)

\* The types hold, and no row is locked twice.
THEOREM TransactionsTyped == Spec => []TypeOK
<1>1. TInv => TypeOK
  <2> SUFFICES ASSUME TInv PROVE TypeOK
    OBVIOUS
  <2>1. (\A j \in Jobs : row[j] \in JobRow) /\ \A o \in Orders : row[o] \in OrderRow
    BY DEF TInv, Types, RowType, Rows
  <2>2. ASSUME NEW c \in Connections
        PROVE  /\ tx[c].call \in Calls \cup {"none"} /\ tx[c].at \in Statements
               /\ tx[c].on \in Rows \cup {Nobody}
               /\ tx[c].todo \subseteq Rows /\ tx[c].ids \subseteq Jobs
    BY DEF TInv, Types, TxRecord
  <2>3. \A c \in Connections : DOMAIN wrote[c] \subseteq Rows
    BY DEF TInv, Types
  <2>4. \A c \in Connections : \A d \in Connections \ {c} : DOMAIN wrote[c] \cap DOMAIN wrote[d] = {}
    BY DEF TInv, Exclusive
  <2>5. pool \in SUBSET Connections
    BY DEF TInv, Types
  <2>6. QED
    BY <2>1, <2>2, <2>3, <2>4, <2>5 DEF TypeOK
<1>2. QED
  BY <1>1, TransactionInvariant, PTL

\* Committed states and attempts change where a transaction commits, to what it
\* wrote, and nowhere else.
LEMMA CommitsAlone ==
  ASSUME TInv, [Next]_vars
  PROVE  \/ \A r \in Rows :
               row'[r].state = row[r].state /\ (r \in Jobs => row'[r].attempts = row[r].attempts)
         \/ \E c \in Connections :
               /\ Commit(c)
               /\ \A r \in Rows : row'[r] = IF r \in DOMAIN wrote[c] THEN wrote[c][r] ELSE row[r]
<1>1. ASSUME NEW c \in Connections, Commit(c)
      PROVE  \A r \in Rows : row'[r] = IF r \in DOMAIN wrote[c] THEN wrote[c][r] ELSE row[r]
  <2>1. row' = Over(wrote[c], row) /\ DOMAIN row = Rows
    BY <1>1 DEF Commit, TInv, Types
  <2>2. /\ \A r \in DOMAIN wrote[c] : Over(wrote[c], row)[r] = wrote[c][r]
        /\ \A r \in DOMAIN row : r \notin DOMAIN wrote[c] => Over(wrote[c], row)[r] = row[r]
    BY OverIs
  <2>3. QED
    BY <2>1, <2>2
<1>2. CASE row' = row
  BY <1>2
<1>3. ASSUME NEW j \in Jobs, LeaseExpires(j)
      PROVE  \A r \in Rows :
               row'[r].state = row[r].state /\ (r \in Jobs => row'[r].attempts = row[r].attempts)
  BY <1>3, ClockKeeps
<1>4. \/ row' = row
      \/ \E c \in Connections : Commit(c)
      \/ \E j \in Jobs : LeaseExpires(j)
  BY DEF Next, Proceed, Begin, Execute, ReadAttempts, ReadExpired, Claim, Rollback, Crash,
         BreakDeadlock, vars
<1>5. QED
  BY <1>1, <1>2, <1>3, <1>4

\* What a job and an order may become, as every writer promised.
RowsKeepTheirPromise ==
  /\ \A j \in Jobs :
       /\ row'[j].attempts > row[j].attempts =>
            row[j].state = "pending" /\ row'[j].attempts = row[j].attempts + 1
       /\ row[j].state # row'[j].state /\ row'[j].state \in {"succeeded", "failed"} =>
            row[j].state = "running"
  /\ \A o \in Orders : row[o].state = "cancelled" => row'[o].state = "cancelled"

\* Every step keeps it.
LEMMA PromisedIsKept == TInv /\ [Next]_vars => RowsKeepTheirPromise
<1> SUFFICES ASSUME TInv, [Next]_vars PROVE RowsKeepTheirPromise
  OBVIOUS
<1>1. Types /\ \A c \in Connections : Promised(c)
  BY DEF TInv, Sound
<1>2. \A j \in Jobs : j \in Rows /\ row[j].attempts \in Nat
  BY <1>1 DEF Types, RowType, JobRow, Rows
<1>3. \A o \in Orders : o \in Rows
  BY DEF Rows
<1>4. CASE \A r \in Rows :
             row'[r].state = row[r].state /\ (r \in Jobs => row'[r].attempts = row[r].attempts)
  BY <1>2, <1>3, <1>4 DEF RowsKeepTheirPromise
<1>5. ASSUME NEW c \in Connections,
             \A r \in Rows : row'[r] = IF r \in DOMAIN wrote[c] THEN wrote[c][r] ELSE row[r]
      PROVE  RowsKeepTheirPromise
  <2>1. ASSUME NEW j \in Jobs
        PROVE  /\ row'[j].attempts > row[j].attempts =>
                    row[j].state = "pending" /\ row'[j].attempts = row[j].attempts + 1
               /\ row[j].state # row'[j].state /\ row'[j].state \in {"succeeded", "failed"} =>
                    row[j].state = "running"
    BY <1>1, <1>2, <1>5 DEF Promised
  <2>2. ASSUME NEW o \in Orders PROVE row[o].state = "cancelled" => row'[o].state = "cancelled"
    BY <1>1, <1>3, <1>5 DEF Promised
  <2>3. QED
    BY <2>1, <2>2 DEF RowsKeepTheirPromise
<1>6. QED
  BY <1>4, <1>5, CommitsAlone

\* However statements interleave, a job is handed to one claimant at a time.
THEOREM ClaimsAreExclusive == Spec => ClaimedOnce
<1>1. RowsKeepTheirPromise =>
        [\A j \in Jobs : row'[j].attempts > row[j].attempts =>
           row[j].state = "pending" /\ row'[j].attempts = row[j].attempts + 1]_row
  BY DEF RowsKeepTheirPromise
<1>2. QED
  BY <1>1, TransactionInvariant, PromisedIsKept, PTL DEF Spec, ClaimedOnce

\* An answer lands on a running job, however long it waited for its row.
THEOREM AnswersLandOnRunning == Spec => AnsweredWhileRunning
<1>1. RowsKeepTheirPromise =>
        [\A j \in Jobs : row[j].state # row'[j].state /\ row'[j].state \in {"succeeded", "failed"} =>
           row[j].state = "running"]_row
  BY DEF RowsKeepTheirPromise
<1>2. QED
  BY <1>1, TransactionInvariant, PromisedIsKept, PTL DEF Spec, AnsweredWhileRunning

\* A cancelled order stays cancelled, whatever was under way as it was cancelled.
THEOREM CancelsLast == Spec => CancelledIsFinal
<1>1. RowsKeepTheirPromise =>
        [\A o \in Orders : row[o].state = "cancelled" => row'[o].state = "cancelled"]_row
  BY DEF RowsKeepTheirPromise
<1>2. QED
  BY <1>1, TransactionInvariant, PromisedIsKept, PTL DEF Spec, CancelledIsFinal

\* A commit changes rows of its own tenant alone.
THEOREM TenantsAreApart == Spec => OthersRowsUntouched
<1> DEFINE A == \A r \in Rows, c \in Connections :
              Busy(c) /\ tx'[c] = Idle /\ row'[r] # row[r] => TenantOf[r] = tx[c].for
<1>1. TInv /\ Next => A
  <2> SUFFICES ASSUME TInv, Next, NEW r \in Rows, NEW c \in Connections,
                      Busy(c), tx'[c] = Idle, row'[r] # row[r]
               PROVE  TenantOf[r] = tx[c].for
    OBVIOUS
  <2>1. tx[c] # Idle /\ tx \in [Connections -> TxRecord]
    BY DEF Busy, Idle, TInv, Types
  <2>2. ASSUME NEW d \in Connections, Commit(d) PROVE TenantOf[r] = tx[c].for
    <3>1. d = c
      BY <2>1, <2>2 DEF Commit, End
    <3>2. r \in DOMAIN wrote[c]
      <4>1. row' = Over(wrote[c], row) /\ DOMAIN row = Rows
        BY <2>2, <3>1 DEF Commit, TInv, Types
      <4>2. \A x \in DOMAIN row : x \notin DOMAIN wrote[c] => Over(wrote[c], row)[x] = row[x]
        BY OverIs
      <4>3. QED
        BY <4>1, <4>2
    <3>3. QED
      BY <3>2 DEF TInv, Sound, OwnRows
  <2>3. ~\E j \in Jobs : LeaseExpires(j)
    BY <2>1 DEF LeaseExpires
  <2>4. \E d \in Connections : Commit(d)
    BY <2>3 DEF Next, Proceed, Begin, Execute, ReadAttempts, ReadExpired, Claim, Rollback, Crash,
                BreakDeadlock
  <2>5. QED
    BY <2>2, <2>4
<1>2. TInv /\ [Next]_vars => [A]_vars
  BY <1>1
<1>3. QED
  BY <1>2, TransactionInvariant, PTL DEF Spec, OthersRowsUntouched

\* Transactions wait for each other only where a reap or a cancel is among them,
\* and on one connection never.
THEOREM DeadlocksAreOfBulkCalls == Spec => []DeadlocksNeedBulkCalls
<1>1. TInv => DeadlocksNeedBulkCalls
  <2> SUFFICES ASSUME TInv, NEW S \in SUBSET Connections, Cycle(S)
               PROVE  /\ ~Serial
                      /\ \A c \in S :
                           \/ tx[c].call \in {"reap", "cancel"}
                           \/ \A d \in WaitsFor(c) \cap S : tx[d].call = "reap"
    BY DEF DeadlocksNeedBulkCalls
  <2>1. ASSUME NEW c \in S
        PROVE  /\ tx[c].todo # {} /\ tx[c].at \in Updates /\ c \in pool
               /\ DOMAIN wrote[c] # {}
    <3>1. (\E d \in S : d \in WaitsFor(c)) /\ \E d \in S : c \in WaitsFor(d)
      BY DEF Cycle
    <3>2. tx[c].todo # {} /\ DOMAIN wrote[c] # {}
      BY <3>1 DEF WaitsFor
    <3>3. tx[c].at \in Updates /\ Busy(c)
      BY <3>2 DEF TInv, Sound, Placed, Busy, Idle
    <3>4. QED
      BY <3>2, <3>3 DEF TInv, Sound, Pinned
  <2>2. ASSUME NEW c \in S, tx[c].call \notin {"reap", "cancel"}, NEW d \in WaitsFor(c) \cap S
        PROVE  tx[d].call = "reap"
    <3>1. tx[c].at \in {"close", "reopen"} /\ tx[c].on \in Jobs
      BY <2>1, <2>2 DEF TInv, Sound, Placed, JobThenOrder, Updates, Statements
    <3>2. \A r \in tx[c].todo : r \in Orders
      BY <2>1, <3>1, NamedKind DEF TInv, Sound, OwnRows
    <3>3. DOMAIN wrote[d] \cap Orders # {}
      BY <2>2, <3>2 DEF WaitsFor
    <3>4. tx[d].at # "commit"
      BY <2>1 DEF Updates
    <3>5. QED
      BY <3>3, <3>4 DEF TInv, Sound, JobThenOrder
  <2>3. ~Serial
    <3> SUFFICES ASSUME Serial PROVE FALSE
      OBVIOUS
    <3>1. PICK c \in S : TRUE
      BY DEF Cycle
    <3>2. PICK d \in S : d \in WaitsFor(c)
      BY DEF Cycle
    <3>3. c # d /\ c \in pool /\ d \in pool
      BY <2>1, <3>2 DEF WaitsFor
    <3>4. IsFiniteSet(pool)
      BY PoolAssumption, FS_Subset DEF TInv, Types
    <3>5. \E x : pool = {x}
      BY <3>4, FS_Singleton DEF Serial
    <3>6. QED
      BY <3>3, <3>5
  <2>4. QED
    BY <2>2, <2>3
<1>2. QED
  BY <1>1, TransactionInvariant, PTL
=============================================================================
