---------------------------- MODULE OrderPromise ----------------------------
(***************************************************************************)
(* What a tenant is promised about each work order, whatever executes it:  *)
(* the order is open exactly while something of it is left to run, done    *)
(* when nothing is, and cancelled for good.  The queue's rows, its workers *)
(* and the engine's transactions are checked against this.                 *)
(***************************************************************************)
CONSTANT Orders

VARIABLES
  state,  \* what the tenant reads: work_orders.state, "none" before the row
  left    \* whether an item of the order waits or runs

promised == <<state, left>>

Init ==
  /\ state = [o \in Orders |-> "none"]
  /\ left = [o \in Orders |-> FALSE]

\* One order's row and what is left of it, before (s, l) and after (t, m).
Same(s, l, t, m) == s = t /\ l = m
Submit(s, l, t, m) == s = "none" /\ t = "open" /\ m
Close(s, l, t, m) == s = "open" /\ l /\ t = "done" /\ ~m
\* A requeue of an item that failed or died.
Reopen(s, l, t, m) == s = "done" /\ ~l /\ t = "open" /\ m
\* Nothing is started by a cancel; what ran may run on until it is told.
Cancel(s, l, t, m) == s \in {"open", "done"} /\ t = "cancelled" /\ (m => l)
\* Inside a cancelled order items stop, and a requeue may start one again.
Drain(s, l, t, m) == s = "cancelled" /\ t = "cancelled"

Move(o) ==
  \/ Same(state[o], left[o], state'[o], left'[o])
  \/ Submit(state[o], left[o], state'[o], left'[o])
  \/ Close(state[o], left[o], state'[o], left'[o])
  \/ Reopen(state[o], left[o], state'[o], left'[o])
  \/ Cancel(state[o], left[o], state'[o], left'[o])
  \/ Drain(state[o], left[o], state'[o], left'[o])

\* One transaction may move several orders: a reap closes all it ends.
Next ==
  /\ state' \in [Orders -> {"none", "open", "done", "cancelled"}]
  /\ left' \in [Orders -> BOOLEAN]
  /\ \A o \in Orders : Move(o)

Spec == Init /\ [][Next]_promised
=============================================================================
