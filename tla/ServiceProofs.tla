------------------------------ MODULE ServiceProofs ------------------------------
(***************************************************************************)
(* Proofs about one process and its streams, for any tenants, migrations,       *)
(* configurations, connections and ring: what a stop leaves behind, and that no  *)
(* stream has a hole its client is not told of.                                *)
(***************************************************************************)
EXTENDS Service, FiniteSetTheorems, WellFoundedInduction, SequenceTheorems, TLAPS

-----------------------------------------------------------------------------
(* The process.                                                              *)

Stages == {"none", "runner", "server", "log", "engine"}

\* A configuration that is refused starts nothing, and only a stop that has not begun
\* or waits for the runner has a sweep in flight.
ProcOK ==
  /\ file \in Files /\ env \in Envs
  /\ applied \in Nat /\ seen \in Nat
  /\ seen <= applied /\ applied <= Migrations
  /\ proc \in {"down", "migrating", "binding", "up"}
  /\ proc # "down" => ~ConfigRefused
  /\ proc \in {"binding", "up"} => seen = Migrations
  /\ queue \in Seq(Range(Tenants))
  /\ sweeping \in {0, 1} /\ (sweeping = 1 <=> queue # <<>>)
  /\ armed \subseteq Signals
  /\ stage \in Stages /\ (stage # "none" => proc = "up")
  /\ stage \in {"server", "log", "engine"} => sweeping = 0

\* The steps of a process beside its streams.
ProcStep ==
  \/ Start \/ Migrate \/ OtherInstanceMigrates \/ Bind \/ Listening \/ PortTaken
  \/ TickReads \/ TickFindsNoDatabase \/ Crash \/ Stopping \/ Exit
  \/ \E s \in Signals : Signal(s)

\* The stages of a stop, in order (main.ts 103-133).
LEMMA Stops ==
  /\ DOMAIN StageAfter = {"runner", "server", "log"}
  /\ StageAfter["runner"] = "server" /\ StageAfter["server"] = "log"
  /\ StageAfter["log"] = "engine"
BY DEF StageAfter

\* An end of the process leaves nothing in hand.
LEMMA EndStep ==
  ASSUME ProcOK, NEW how, Ends(how), UNCHANGED <<file, env>>,
         applied' = applied
  PROVE  ProcOK' /\ proc' = "down"
<1>1. <<>> \in Seq(Range(Tenants))
  OBVIOUS
<1> QED
  BY <1>1 DEF ProcOK, Ends, Stages, Signals

\* A process that goes on keeps its configuration and all it had.
LEMMA ProcSteps ==
  ASSUME ProcOK, ProcStep
  PROVE  ProcOK' /\ (proc = "up" => proc' \in {"up", "down"})
<1>0. ASSUME UNCHANGED <<file, env>> PROVE ConfigRefused' <=> ConfigRefused
  BY <1>0 DEF ConfigRefused, Setting, Text, Says
<1> USE DEF Config
<1>1. CASE Start
  <2>1. CASE Ends("failed to start")
    BY <1>1, <2>1, EndStep DEF Start
  <2>2. CASE ~ConfigRefused /\ proc' = "migrating" /\ seen' = applied
             /\ UNCHANGED <<armed, stage, sweeping, queue>>
    <3>1. proc = "down" /\ UNCHANGED <<file, env>> /\ applied' = applied
      BY <1>1 DEF Start
    <3>2. ~ConfigRefused'
      BY <1>0, <2>2, <3>1
    <3>3. stage = "none" /\ applied <= applied
      BY <3>1 DEF ProcOK
    <3> QED
      BY <2>2, <3>1, <3>2, <3>3 DEF ProcOK
  <2> QED
    BY <1>1, <2>1, <2>2 DEF Start
<1>2. CASE Migrate
  <2>1. CASE Ends("failed to start") /\ applied' = applied
    BY <1>2, <2>1, EndStep DEF Migrate
  <2>2. CASE applied = seen /\ applied' = applied + 1 /\ seen' = seen + 1
             /\ UNCHANGED <<proc, armed, stage, sweeping, queue, exit>>
    BY <1>0, <1>2, <2>2, MigrationAssumption DEF Migrate, ProcOK
  <2> QED
    BY <1>2, <2>1, <2>2 DEF Migrate
<1>3. CASE OtherInstanceMigrates
  BY <1>0, <1>3, MigrationAssumption DEF OtherInstanceMigrates, ProcOK
<1>4. CASE Bind
  BY <1>0, <1>4 DEF Bind, Migrated, ProcOK
<1>5. CASE Listening
  BY <1>0, <1>5 DEF Listening, ProcOK
<1>6. CASE PortTaken \/ Crash
  BY <1>6, EndStep DEF PortTaken, Crash
<1>7. ASSUME NEW listed \in BOOLEAN, Tick(listed)
      PROVE  ProcOK' /\ (proc = "up" => proc' \in {"up", "down"})
  <2>1. CASE listed /\ Tenants # <<>>
    BY <1>0, <1>7, <2>1, TenantsAssumption DEF Tick, ProcOK
  <2>2. CASE ~(listed /\ Tenants # <<>>)
    BY <1>0, <1>7, <2>2 DEF Tick, ProcOK
  <2> QED
    BY <2>1, <2>2
<1>8. ASSUME NEW s \in Signals, Signal(s)
      PROVE  ProcOK' /\ (proc = "up" => proc' \in {"up", "down"})
  <2>1. CASE s \in armed /\ stage = "none"
    BY <1>0, <1>8, <2>1 DEF Signal, ProcOK, Stages
  <2>2. CASE ~(s \in armed /\ stage = "none")
    BY <1>8, <2>2, EndStep DEF Signal
  <2> QED
    BY <2>1, <2>2
<1>9. CASE Stopping
  BY <1>0, <1>9, Stops DEF Stopping, StopStep, RunnerStopped, ProcOK, Stages
<1>10. CASE Exit
  BY <1>10, EndStep DEF Exit
<1> QED
  BY <1>1, <1>2, <1>3, <1>4, <1>5, <1>6, <1>7, <1>8, <1>9, <1>10
     DEF ProcStep, TickReads, TickFindsNoDatabase

\* A tick that ends, well or not, leaves the tenants after it to the sweep.
LEMMA TickOver ==
  ASSUME ProcOK, NEW t, TickIsOver(t)
  PROVE  ProcOK' /\ proc' = proc /\ stage' = stage
<1> PICK ok \in BOOLEAN : TickEnds(t, ok)
  BY DEF TickIsOver
<1>1. UNCHANGED <<file, env>>
  BY DEF TickEnds, Config
<1>2. ConfigRefused' <=> ConfigRefused
  BY <1>1 DEF ConfigRefused, Setting, Text, Says
<1>3. queue' = Tail(queue) /\ queue # <<>> /\ queue' \in Seq(Range(Tenants))
  BY DEF TickEnds, RestAfter, ProcOK
<1>4. sweeping = 1 /\ sweeping' = IF queue' = <<>> THEN 0 ELSE 1
  BY <1>3 DEF TickEnds, SweepsAfter, RestAfter, ProcOK
<1> QED
  BY <1>1, <1>2, <1>3, <1>4 DEF TickEnds, Config, ProcOK

-----------------------------------------------------------------------------
(* A replay.                                                                 *)

Ordered(s, S) ==
  /\ s \in [1..Cardinality(S) -> S]
  /\ \A i, j \in DOMAIN s : i < j => s[i] < s[j]

\* The numbers up to n that are in S can be put in order: else there would be a least n
\* for which they cannot.
LEMMA AnOrderExists ==
  ASSUME NEW n \in Nat, NEW S \in SUBSET (1..n)
  PROVE  \E s : Ordered(s, S)
<1> DEFINE Bad == {m \in Nat : \E U \in SUBSET (1..m) : \A s : ~Ordered(s, U)}
<1> SUFFICES ASSUME Bad # {} PROVE FALSE
  OBVIOUS
<1>1. PICK m \in Bad : \A k \in Bad : ~(<<k, m>> \in OpToRel(<, Nat))
  <2>1. Bad \subseteq Nat /\ Bad # {}
    OBVIOUS
  <2> HIDE DEF Bad
  <2> QED
    BY <2>1, NatLessThanWellFounded, WFMin
<1>2. \A k \in Bad : ~(k < m)
  BY <1>1 DEF OpToRel
<1>3. PICK U \in SUBSET (1..m) : \A s : ~Ordered(s, U)
  BY <1>1
<1>4. m \in Nat /\ IsFiniteSet(U) /\ Cardinality(U) \in Nat
  <2>1. m \in Nat /\ m \in Int /\ 1 \in Int
    OBVIOUS
  <2>2. IsFiniteSet(1..m)
    BY <2>1, FS_Interval
  <2>3. IsFiniteSet(U)
    BY <2>2, FS_Subset
  <2> QED
    BY <2>1, <2>3, FS_CardinalityType
<1>5. U # {}
  <2>1. SUFFICES ASSUME U = {} PROVE FALSE
    OBVIOUS
  <2>2. Cardinality(U) = 0
    BY <2>1, FS_EmptySet
  <2>3. Ordered([i \in 1..0 |-> i], U)
    BY <2>1, <2>2 DEF Ordered
  <2> QED
    BY <2>3, <1>3
<1>6. m > 0
  <2>1. PICK x \in U : TRUE
    BY <1>5
  <2>2. x \in 1..m /\ m \in Nat
    BY <1>4, <2>1
  <2> QED
    BY <2>2
<1> DEFINE V == U \ {m}
<1>7. V \in SUBSET (1..(m - 1))
  BY <1>4
<1>8. PICK s : Ordered(s, V)
  <2>1. m - 1 \in Nat /\ m - 1 < m
    BY <1>4, <1>6
  <2>2. m - 1 \notin Bad
    BY <1>2, <2>1
  <2> QED
    BY <1>7, <2>1, <2>2
<1>9. m \in U
  <2>1. CASE m \notin U
    <3>1. V = U
      BY <2>1
    <3> QED
      BY <1>3, <1>8, <3>1
  <2> QED
    BY <2>1
<1>10. Cardinality(V) = Cardinality(U) - 1
  BY <1>4, <1>9, FS_RemoveElement
<1> DEFINE c == Cardinality(U)
           r == [i \in 1..c |-> IF i = c THEN m ELSE s[i]]
<1>11. s \in [1..(c - 1) -> V] /\ \A i, j \in 1..(c - 1) : i < j => s[i] < s[j]
  BY <1>8, <1>10 DEF Ordered
<1>12. c \in Nat /\ V \subseteq U /\ \A x \in V : x < m
  BY <1>4, <1>7
<1> HIDE DEF c, V
<1>13. \A i \in 1..c : i # c => i \in 1..(c - 1)
  BY <1>12
<1>14. r \in [1..c -> U]
  BY <1>9, <1>11, <1>12, <1>13
<1>15. ASSUME NEW i \in 1..c, NEW j \in 1..c, i < j PROVE r[i] < r[j]
  <2>1. i # c /\ i \in 1..(c - 1) /\ r[i] = s[i] /\ s[i] \in V
    BY <1>11, <1>12, <1>13, <1>15
  <2>2. CASE j = c
    BY <1>12, <2>1, <2>2
  <2>3. CASE j # c
    <3>1. r[j] = s[j] /\ j \in 1..(c - 1)
      BY <1>13, <2>3
    <3> QED
      BY <1>11, <1>15, <2>1, <3>1
  <2> QED
    BY <2>2, <2>3
<1>16. Ordered(r, U)
  BY <1>14, <1>15 DEF Ordered, c
<1> QED
  BY <1>3, <1>16

\* The events after an id come in the order of their ids, every one of them once.
LEMMA ReplayInOrder ==
  ASSUME NEW n \in Nat, NEW S \in SUBSET (1..n)
  PROVE  /\ Cardinality(S) \in Nat /\ (Cardinality(S) = 0 <=> S = {})
         /\ InOrder(S) \in Seq(Nat) /\ Len(InOrder(S)) = Cardinality(S)
         /\ \A i \in 1..Cardinality(S) : InOrder(S)[i] \in S
         /\ \A i, j \in 1..Cardinality(S) : i < j => InOrder(S)[i] < InOrder(S)[j]
         /\ \A x \in S : \E i \in 1..Cardinality(S) : InOrder(S)[i] = x
<1> DEFINE c == Cardinality(S)
           s == InOrder(S)
<1>1. IsFiniteSet(S) /\ c \in Nat /\ (c = 0 <=> S = {})
  <2>1. IsFiniteSet(1..n)
    BY FS_Interval
  <2>2. IsFiniteSet(S)
    BY <2>1, FS_Subset
  <2> QED
    BY <2>2, FS_CardinalityType, FS_EmptySet
<1>2. s \in [1..c -> S] /\ \A i, j \in DOMAIN s : i < j => s[i] < s[j]
  <2>1. PICK w : Ordered(w, S)
    BY AnOrderExists
  <2>2. \E o \in [1..Cardinality(S) -> S] : \A i, j \in DOMAIN o : i < j => o[i] < o[j]
    BY <2>1 DEF Ordered
  <2> QED
    BY <2>2 DEF InOrder
<1>3. S \subseteq Nat
  OBVIOUS
<1> HIDE DEF c, s
<1>4. DOMAIN s = 1..c
  BY <1>2
<1>5. s \in Seq(Nat) /\ Len(s) = c
  <2>1. s \in [1..c -> Nat]
    BY <1>2, <1>3
  <2> QED
    BY <1>1, <2>1, SeqDef
<1>6. ASSUME NEW i \in 1..c, NEW j \in 1..c, s[i] = s[j] PROVE i = j
  <2>1. s[i] \in Nat /\ s[j] \in Nat
    BY <1>2, <1>3
  <2>2. ~(i < j) /\ ~(j < i)
    BY <1>2, <1>4, <1>6, <2>1
  <2> QED
    BY <1>1, <2>2
<1>7. s \in Injection(1..c, S)
  BY <1>2, <1>6, <1>4 DEF Injection, IsInjective
<1>8. Cardinality(1..c) = Cardinality(S)
  <2>1. 1 \in Int /\ c \in Int
    BY <1>1
  <2>2. Cardinality(1..c) = IF 1 > c THEN 0 ELSE c - 1 + 1
    BY <2>1, FS_Interval
  <2> QED
    BY <1>1, <2>2 DEF c
<1>9. s \in Surjection(1..c, S)
  BY <1>1, <1>7, <1>8, FS_Injection
<1> QED
  BY <1>1, <1>2, <1>4, <1>5, <1>9 DEF Surjection, c, s

-----------------------------------------------------------------------------
(* The frames in flight.                                                     *)

\* The watched tenant's events, out of the tenants of all events in order.
WatchedIn(P) == {s \in 1..Len(P) : P[s] = Watcher}

\* Of the events in W, y is the next one after x.
Follows(W, x, y) == x < y /\ \A w \in W : ~(x < w /\ w < y)

\* Frames that leave out none of W from their first event on: a gap comes first or not
\* at all, each event is followed by the next, and the last is the newest.
Whole(W, p) ==
  /\ \A i \in 1..Len(p) : p[i] \in W \/ (p[i] = Gap /\ i = 1)
  /\ \A i \in 1..Len(p) : i < Len(p) /\ p[i] # Gap => Follows(W, p[i], p[i + 1])
  /\ p # <<>> /\ p[Len(p)] # Gap => \A w \in W : w <= p[Len(p)]

\* Frames that go on where a reader of event x left off, or say that they do not.
GoesOn(W, x, p) ==
  /\ p = <<>> => \A w \in W : w <= x
  /\ p # <<>> /\ p[1] # Gap => Follows(W, x, p[1])

\* Reading a frame leaves whole frames, which go on from it.
LEMMA WholeTail ==
  ASSUME NEW W \in SUBSET Nat, NEW p \in Seq(Nat), p # <<>>, Whole(W, p)
  PROVE  /\ Whole(W, Tail(p))
         /\ Head(p) # Gap => Head(p) \in W /\ GoesOn(W, Head(p), Tail(p))
<1> DEFINE q == Tail(p)
<1>1. /\ Len(p) \in Nat /\ Len(p) >= 1 /\ Head(p) = p[1]
      /\ q \in Seq(Nat) /\ Len(q) = Len(p) - 1
      /\ \A i \in 1..Len(q) : q[i] = p[i + 1]
  <2>1. Len(p) \in Nat /\ Len(p) # 0
    BY EmptySeq
  <2> QED
    BY <2>1, HeadTailProperties
<1>2. q = <<>> <=> Len(q) = 0
  BY <1>1, EmptySeq
<1> HIDE DEF q
<1>3. \A i \in 1..Len(q) : i + 1 \in 1..Len(p) /\ i + 1 # 1 /\ q[i] = p[i + 1]
  BY <1>1
<1>4. \A i \in 1..Len(q) : q[i] \in W
  BY <1>3 DEF Whole
<1>5. ASSUME NEW i \in 1..Len(q), i < Len(q), q[i] # Gap
      PROVE  Follows(W, q[i], q[i + 1])
  <2>1. i + 1 \in 1..Len(q) /\ i + 1 \in 1..Len(p) /\ i + 1 < Len(p)
    <3>1. Len(q) \in Nat /\ Len(p) \in Nat /\ Len(q) = Len(p) - 1
      BY <1>1
    <3>2. \A a, b \in Nat : \A k \in 1..a : k < a /\ a = b - 1 =>
            k + 1 \in 1..a /\ k + 1 \in 1..b /\ k + 1 < b
      OBVIOUS
    <3> QED
      BY <1>5, <3>1, <3>2
  <2>2. q[i] = p[i + 1] /\ q[i + 1] = p[(i + 1) + 1]
    BY <1>3, <2>1
  <2> QED
    BY <1>5, <2>1, <2>2 DEF Whole
<1>6. ASSUME q # <<>>, q[Len(q)] # Gap PROVE \A w \in W : w <= q[Len(q)]
  <2>1. Len(q) \in 1..Len(q) /\ Len(q) + 1 = Len(p)
    BY <1>1, <1>2, <1>6
  <2>2. q[Len(q)] = p[Len(p)]
    BY <1>1, <2>1
  <2> QED
    BY <1>6, <2>2 DEF Whole
<1>7. Whole(W, q)
  BY <1>4, <1>5, <1>6 DEF Whole
<1>8. ASSUME Head(p) # Gap PROVE Head(p) \in W /\ GoesOn(W, Head(p), q)
  <2>1. 1 \in 1..Len(p) /\ p[1] # Gap
    BY <1>1, <1>8
  <2>2. p[1] \in W
    BY <2>1 DEF Whole
  <2>3. ASSUME q = <<>> PROVE \A w \in W : w <= p[1]
    <3>1. Len(p) = 1
      BY <1>1, <1>2, <2>3
    <3> QED
      BY <2>1, <3>1 DEF Whole
  <2>4. ASSUME q # <<>> PROVE Follows(W, p[1], q[1])
    <3>1. 1 < Len(p) /\ 1 \in 1..Len(q)
      BY <1>1, <1>2, <2>4
    <3>2. q[1] = p[1 + 1]
      BY <1>1, <3>1
    <3> QED
      BY <2>1, <3>1, <3>2 DEF Whole
  <2> QED
    BY <1>1, <2>2, <2>3, <2>4 DEF GoesOn
<1> QED
  BY <1>7, <1>8 DEF q

\* An event put behind whole frames leaves them whole, and going on where they did.
LEMMA WholeAppend ==
  ASSUME NEW W \in SUBSET Nat, NEW p \in Seq(Nat), Whole(W, p),
         NEW n \in Nat \ {0}, \A w \in W : w < n
  PROVE  /\ Whole(W \cup {n}, Append(p, n))
         /\ \A x \in Nat : x < n /\ GoesOn(W, x, p) => GoesOn(W \cup {n}, x, Append(p, n))
<1> DEFINE q == Append(p, n)
           X == W \cup {n}
<1>1. /\ Len(p) \in Nat /\ q \in Seq(Nat) /\ Len(q) = Len(p) + 1
      /\ \A i \in 1..Len(p) : q[i] = p[i] /\ i \in 1..Len(q)
      /\ q[Len(q)] = n /\ q # <<>>
  BY AppendProperties
<1>2. p = <<>> <=> Len(p) = 0
  BY EmptySeq
<1>3. \A w \in X : w <= n /\ w \in Nat
  OBVIOUS
<1>4. ASSUME NEW x \in Nat, NEW y \in Nat, Follows(W, x, y), y < n
      PROVE  Follows(X, x, y)
  BY <1>4 DEF Follows
<1>5. ASSUME NEW x \in Nat, x < n, \A w \in W : w <= x
      PROVE  Follows(X, x, n)
  BY <1>5 DEF Follows
<1> HIDE DEF q
<1>6. \A i \in 1..Len(p) : p[i] \in Nat
  BY ElementOfSeq
<1>7. ASSUME NEW i \in 1..Len(q), i < Len(q), q[i] # Gap
      PROVE  Follows(X, q[i], q[i + 1])
  <2>1. i \in 1..Len(p) /\ q[i] = p[i] /\ p[i] \in W /\ p[i] \in Nat
    BY <1>1, <1>6, <1>7 DEF Whole
  <2>2. CASE i = Len(p)
    <3>1. p # <<>> /\ \A w \in W : w <= p[i]
      BY <1>2, <1>7, <2>1, <2>2 DEF Whole
    <3>2. q[i + 1] = n
      BY <1>1, <2>2
    <3> QED
      BY <1>5, <2>1, <3>1, <3>2
  <2>3. CASE i < Len(p)
    <3>1. i + 1 \in 1..Len(p) /\ q[i + 1] = p[i + 1] /\ i + 1 # 1
      BY <1>1, <2>1, <2>3
    <3>2. p[i + 1] \in W /\ Follows(W, p[i], p[i + 1])
      BY <1>7, <2>1, <2>3, <3>1 DEF Whole
    <3> QED
      BY <1>4, <2>1, <3>1, <3>2
  <2> QED
    BY <1>1, <2>1, <2>2, <2>3
<1>8. ASSUME NEW i \in 1..Len(q) PROVE q[i] \in X \/ (q[i] = Gap /\ i = 1)
  <2>1. CASE i = Len(q)
    BY <1>1, <2>1
  <2>2. CASE i # Len(q)
    <3>1. i \in 1..Len(p)
      BY <1>1, <2>2
    <3> QED
      BY <1>1, <3>1 DEF Whole
  <2> QED
    BY <2>1, <2>2
<1>9. Whole(X, q)
  <2> HIDE DEF X
  <2> QED
    BY <1>1, <1>3, <1>7, <1>8 DEF Whole
<1>10. ASSUME NEW x \in Nat, x < n, GoesOn(W, x, p) PROVE GoesOn(X, x, q)
  <2>1. CASE p = <<>>
    <3>1. q[1] = n
      BY <1>1, <1>2, <2>1
    <3> QED
      BY <1>1, <1>5, <1>10, <2>1, <3>1 DEF GoesOn
  <2>2. CASE p # <<>>
    <3>1. 1 \in 1..Len(p) /\ q[1] = p[1] /\ p[1] \in Nat
      BY <1>1, <1>2, <1>6, <2>2
    <3>2. ASSUME q[1] # Gap PROVE Follows(X, x, q[1])
      <4>1. p[1] \in W /\ Follows(W, x, p[1])
        BY <1>10, <2>2, <3>1, <3>2 DEF Whole, GoesOn
      <4> QED
        BY <1>4, <3>1, <4>1
    <3> QED
      BY <1>1, <3>2 DEF GoesOn
  <2> QED
    BY <2>1, <2>2
<1> QED
  BY <1>9, <1>10 DEF q

\* What the route writes first is whole, and goes on where the browser left off, if what
\* it saw last is of this process.
LEMMA WholeReplay ==
  ASSUME published \in Seq(Range(Tenants)), lastId \in Nat,
         NEW g, g = IF HasGapSince(lastId) THEN <<Gap>> ELSE <<>>
  PROVE  /\ g \o Replay(Watcher, lastId) \in Seq(Nat)
         /\ Whole(WatchedIn(published), g \o Replay(Watcher, lastId))
         /\ lastId \in 1..Seq1
              => GoesOn(WatchedIn(published), lastId, g \o Replay(Watcher, lastId))
<1> DEFINE W == WatchedIn(published)
           S == {s \in Oldest..Seq1 : published[s] = Watcher /\ s > lastId}
           r == Replay(Watcher, lastId)
           c == Len(r)
           p == g \o r
<1>1. Seq1 \in Nat /\ Oldest \in Nat \ {0}
  <2>1. Seq1 \in Nat
    BY LenProperties DEF Seq1
  <2> QED
    BY <2>1, BufferAssumption DEF Oldest
<1>2. S \in SUBSET (1..Seq1) /\ W \in SUBSET Nat /\ S \subseteq W
  BY <1>1 DEF WatchedIn, Seq1
<1>3. \A w \in W : w > lastId /\ w >= Oldest => w \in S
  BY <1>1 DEF WatchedIn, Seq1
<1>4. \A w \in S : w > lastId /\ w >= Oldest /\ w \in Nat
  BY <1>1
<1>5. /\ c \in Nat /\ (c = 0 <=> S = {}) /\ r \in Seq(Nat)
      /\ \A i \in 1..c : r[i] \in S
      /\ \A i, j \in 1..c : i < j => r[i] < r[j]
      /\ \A x \in S : \E i \in 1..c : r[i] = x
  <2>1. r = InOrder(S)
    BY DEF Replay
  <2> HIDE DEF S, r
  <2>2. /\ Cardinality(S) \in Nat /\ (Cardinality(S) = 0 <=> S = {})
        /\ r \in Seq(Nat) /\ Len(r) = Cardinality(S)
        /\ \A i \in 1..Cardinality(S) : r[i] \in S
        /\ \A i, j \in 1..Cardinality(S) : i < j => r[i] < r[j]
        /\ \A x \in S : \E i \in 1..Cardinality(S) : r[i] = x
    BY <1>1, <1>2, <2>1, ReplayInOrder
  <2> QED
    BY <2>2
<1> HIDE DEF W, S, r
<1>6. ASSUME NEW i \in 1..c, i < c PROVE Follows(W, r[i], r[i + 1])
  <2>1. i + 1 \in 1..c /\ r[i] < r[i + 1]
    BY <1>5, <1>6
  <2>2. ASSUME NEW w \in W, r[i] < w, w < r[i + 1] PROVE FALSE
    <3>1. w \in S
      BY <1>1, <1>2, <1>3, <1>4, <1>5, <2>2
    <3>2. PICK j \in 1..c : r[j] = w
      BY <1>5, <3>1
    <3>3. j < i + 1 /\ i < j
      <4>1. r[i] \in Nat /\ r[j] \in Nat /\ r[i + 1] \in Nat
        BY <1>4, <1>5, <2>1
      <4>2. ~(i + 1 < j) /\ ~(j < i)
        <5>1. i + 1 < j => r[i + 1] < r[j]
          BY <1>5, <2>1
        <5>2. j < i => r[j] < r[i]
          BY <1>5
        <5> QED
          BY <2>2, <3>2, <4>1, <5>1, <5>2
      <4>3. j # i /\ j # i + 1
        BY <2>2, <3>2, <4>1
      <4> QED
        BY <1>5, <4>2, <4>3
    <3> QED
      BY <1>5, <3>3
  <2> QED
    BY <2>1, <2>2 DEF Follows
<1>7. ASSUME c # 0 PROVE \A w \in W : w <= r[c]
  <2> SUFFICES ASSUME NEW w \in W, ~(w <= r[c]) PROVE FALSE
    OBVIOUS
  <2>1. c \in 1..c /\ r[c] \in S
    BY <1>5, <1>7
  <2>2. w \in S
    <3>1. r[c] > lastId /\ r[c] >= Oldest /\ r[c] \in Nat /\ w \in Nat
      BY <1>2, <1>4, <2>1
    <3>2. w > lastId /\ w >= Oldest
      BY <1>1, <3>1
    <3> QED
      BY <1>3, <3>2
  <2>3. PICK j \in 1..c : r[j] = w
    BY <1>5, <2>2
  <2>4. ~(j < c) /\ j # c
    <3>1. r[j] \in Nat /\ r[c] \in Nat
      BY <1>4, <1>5, <2>1
    <3>2. j < c => r[j] < r[c]
      BY <1>5, <2>1
    <3> QED
      BY <2>3, <3>1, <3>2
  <2> QED
    BY <1>5, <2>4
<1>8. CASE ~HasGapSince(lastId)
  <2>1. p = r
    <3>1. g = <<>>
      BY <1>8
    <3> QED
      BY <1>5, <3>1, ConcatEmptySeq
  <2> HIDE DEF p
  <2>2. p = <<>> <=> c = 0
    BY <1>5, <2>1, EmptySeq
  <2>3. Whole(W, p)
    BY <1>2, <1>5, <1>6, <1>7, <2>1, <2>2 DEF Whole
  <2>4. ASSUME lastId \in 1..Seq1 PROVE GoesOn(W, lastId, p)
    <3>1. lastId >= Oldest - 1
      BY <1>1, <1>8, <2>4 DEF HasGapSince
    <3>2. \A w \in W : w > lastId => w \in S
      BY <1>1, <1>2, <1>3, <3>1
    <3>3. CASE p = <<>>
      <4>1. S = {}
        BY <1>5, <2>2, <3>3
      <4>2. \A w \in W : w <= lastId
        BY <1>2, <3>2, <4>1
      <4> QED
        BY <3>3, <4>2 DEF GoesOn
    <3>4. CASE p # <<>>
      <4>1. 1 \in 1..c /\ r[1] \in S
        BY <1>5, <2>2, <3>4
      <4>2. ASSUME NEW w \in W, lastId < w, w < r[1] PROVE FALSE
        <5>1. w \in S
          BY <1>2, <3>2, <4>2
        <5>2. PICK j \in 1..c : r[j] = w
          BY <1>5, <5>1
        <5>3. ~(1 < j) /\ j # 1
          <6>1. r[j] \in Nat /\ r[1] \in Nat
            BY <1>4, <1>5, <4>1
          <6>2. 1 < j => r[1] < r[j]
            BY <1>5, <4>1
          <6> QED
            BY <4>2, <5>2, <6>1, <6>2
        <5> QED
          BY <1>5, <5>3
      <4>3. lastId < r[1]
        BY <1>4, <4>1
      <4> QED
        BY <2>1, <3>4, <4>2, <4>3 DEF GoesOn, Follows
    <3> QED
      BY <3>3, <3>4
  <2> QED
    BY <1>5, <2>1, <2>3, <2>4 DEF p, W, r
<1>9. CASE HasGapSince(lastId)
  <2>1. g = <<Gap>> /\ g \in Seq(Nat) /\ Len(g) = 1 /\ g[1] = Gap
    BY <1>9 DEF Gap
  <2>2. /\ p \in Seq(Nat) /\ Len(p) = c + 1 /\ p[1] = Gap
        /\ \A i \in 1..(c + 1) : i # 1 => p[i] = r[i - 1] /\ i - 1 \in 1..c
    <3>1. /\ p \in Seq(Nat) /\ Len(p) = 1 + c
          /\ \A i \in 1..(1 + c) : p[i] = IF i <= 1 THEN g[i] ELSE r[i - 1]
      BY <1>5, <2>1, ConcatProperties
    <3> HIDE DEF p
    <3> QED
      BY <1>5, <2>1, <3>1
  <2>3. p # <<>>
    BY <1>5, <2>2, EmptySeq
  <2> HIDE DEF p
  <2>4. \A i \in 1..Len(p) : p[i] \in W \/ (p[i] = Gap /\ i = 1)
    BY <1>2, <1>5, <2>2
  <2>5. ASSUME NEW i \in 1..Len(p), i < Len(p), p[i] # Gap
        PROVE  Follows(W, p[i], p[i + 1])
    <3>1. i # 1 /\ i \in 1..(c + 1) /\ i + 1 \in 1..(c + 1) /\ i + 1 # 1
      BY <1>5, <2>2, <2>5
    <3>2. p[i] = r[i - 1] /\ i - 1 \in 1..c /\ p[i + 1] = r[(i + 1) - 1]
      BY <2>2, <3>1
    <3>3. i - 1 < c /\ (i + 1) - 1 = (i - 1) + 1
      BY <1>5, <2>2, <2>5
    <3>4. Follows(W, r[i - 1], r[(i - 1) + 1])
      BY <1>6, <3>2, <3>3
    <3> QED
      BY <3>2, <3>3, <3>4
  <2>6. ASSUME p[Len(p)] # Gap PROVE \A w \in W : w <= p[Len(p)]
    <3>1. c # 0 /\ p[Len(p)] = r[c]
      BY <1>5, <2>2, <2>6
    <3> QED
      BY <1>7, <3>1
  <2>7. Whole(W, p) /\ GoesOn(W, lastId, p)
    BY <2>2, <2>3, <2>4, <2>5, <2>6 DEF Whole, GoesOn
  <2> QED
    BY <2>2, <2>7 DEF p, W, r
<1> QED
  BY <1>8, <1>9

-----------------------------------------------------------------------------
(* The streams.                                                              *)

ConnRow == [phase : {"closed", "asking", "opening", "open", "orphan"},
            held : BOOLEAN, pipe : Seq(Nat)]

\* A stream that was served and is still held carries all of W from where its reader is,
\* a reader of event x of this process (cur) or of none.
ConnOK(W, x, cur, c) ==
  /\ c.pipe # <<>> => c.held
  /\ c.phase = "asking" => c.pipe = <<>>
  /\ c.held => c.phase # "closed"
  /\ c.held /\ c.phase # "asking" => Whole(W, c.pipe) /\ (cur => GoesOn(W, x, c.pipe))

StreamsOK ==
  /\ published \in Seq(Range(Tenants)) /\ Len(published) <= MaxSeq
  /\ lastId \in Nat /\ current \in BOOLEAN /\ hole = FALSE
  /\ current => lastId \in 1..Seq1
  /\ conn \in [Conns -> ConnRow]
  /\ \A k \in Conns : ConnOK(WatchedIn(published), lastId, current, conn[k])
  /\ \A j, k \in Conns : conn[j].held /\ conn[k].held => j = k

\* The watched events are numbers of published ones.
LEMMA WatchedNat ==
  ASSUME published \in Seq(Range(Tenants))
  PROVE  /\ Seq1 \in Nat /\ WatchedIn(published) \in SUBSET Nat
         /\ WatchedIn(published) \subseteq 1..Seq1
BY LenProperties DEF WatchedIn, Seq1

\* A connection that is closed carries nothing and owes nothing.
LEMMA ClosedIsFine ==
  /\ Closed \in ConnRow /\ Closed.held = FALSE /\ Closed.pipe = <<>>
  /\ Closed.phase = "closed"
  /\ \A W, x, cur : ConnOK(W, x, cur, Closed)
<1>1. Closed.held = FALSE /\ Closed.pipe = <<>> /\ Closed.phase = "closed"
  BY DEF Closed
<1>2. Closed \in ConnRow
  BY DEF Closed, ConnRow
<1> QED
  BY <1>1, <1>2 DEF ConnOK

\* One connection changes and the bus does not.
LEMMA ConnChange ==
  ASSUME StreamsOK, NEW k \in Conns, NEW r \in ConnRow,
         conn' = [conn EXCEPT ![k] = r], UNCHANGED <<published, lastId, current, hole>>,
         ConnOK(WatchedIn(published), lastId, current, r),
         r.held => conn[k].held \/ \A j \in Conns : ~conn[j].held
  PROVE  StreamsOK'
<1>1. conn' \in [Conns -> ConnRow]
      /\ \A j \in Conns : conn'[j] = IF j = k THEN r ELSE conn[j]
  BY DEF StreamsOK
<1>2. \A j \in Conns : ConnOK(WatchedIn(published), lastId, current, conn'[j])
  BY <1>1 DEF StreamsOK
<1>3. \A i, j \in Conns : conn'[i].held /\ conn'[j].held => i = j
  BY <1>1 DEF StreamsOK
<1>4. Seq1' = Seq1 /\ WatchedIn(published)' = WatchedIn(published)
  BY DEF Seq1, WatchedIn
<1> QED
  BY <1>1, <1>2, <1>3, <1>4 DEF StreamsOK

\* An event is put behind the frames of the watcher's stream, or is not its tenant's.
LEMMA PublishStep ==
  ASSUME StreamsOK, NEW t \in Range(Tenants), Publish(t)
  PROVE  /\ StreamsOK'
         /\ \A k \in Conns : /\ conn'[k].held = conn[k].held
                             /\ conn'[k].phase = conn[k].phase
                             /\ conn'[k] # Closed => conn[k] # Closed
<1> DEFINE W == WatchedIn(published)
           n == Seq1 + 1
<1>1. Seq1 \in Nat /\ W \in SUBSET Nat /\ W \subseteq 1..Seq1 /\ n \in Nat \ {0}
      /\ \A w \in W : w < n
  BY WatchedNat DEF StreamsOK
<1>2. /\ published' \in Seq(Range(Tenants)) /\ Len(published') = n
      /\ published'[n] = t /\ \A s \in 1..Seq1 : published'[s] = published[s]
  BY AppendProperties DEF Publish, StreamsOK, Seq1
<1>3. WatchedIn(published') = IF t = Watcher THEN W \cup {n} ELSE W
  <2>1. \A s : s \in 1..n <=> s \in 1..Seq1 \/ s = n
    BY <1>1
  <2> QED
    BY <1>1, <1>2, <2>1 DEF WatchedIn, Seq1
<1>4. n <= MaxSeq
  BY <1>1, BufferAssumption DEF Publish, StreamsOK
<1>5. current => lastId \in 1..Seq1 /\ lastId \in 1..n /\ lastId < n
  BY <1>1 DEF StreamsOK
<1>6. conn' = [k \in Conns |->
        IF t = Watcher /\ Subscribed(k) /\ conn[k].held
        THEN [conn[k] EXCEPT !.pipe = Append(@, n)] ELSE conn[k]]
  BY DEF Publish
<1>7. UNCHANGED <<lastId, current, hole>>
  BY DEF Publish
<1> HIDE DEF W, n
<1>8. ASSUME NEW k \in Conns
      PROVE  /\ conn'[k] \in ConnRow /\ conn'[k].held = conn[k].held
             /\ conn'[k].phase = conn[k].phase
             /\ conn'[k] # Closed => conn[k] # Closed
             /\ ConnOK(WatchedIn(published'), lastId, current, conn'[k])
  <2> DEFINE c == conn[k]
             r == conn'[k]
  <2>1. c \in ConnRow /\ c.held \in BOOLEAN /\ c.pipe \in Seq(Nat)
        /\ ConnOK(W, lastId, current, c)
    BY DEF StreamsOK, ConnRow, W
  <2>2. CASE t = Watcher /\ Subscribed(k) /\ c.held
    <3>1. r = [c EXCEPT !.pipe = Append(c.pipe, n)]
      BY <1>6, <2>2
    <3>2. Append(c.pipe, n) \in Seq(Nat) /\ Append(c.pipe, n) # <<>>
      BY <1>1, <2>1, AppendProperties
    <3>3. c.phase # "asking"
      BY <2>2 DEF Subscribed
    <3> HIDE DEF c, r
    <3>4. r \in ConnRow /\ r.held = c.held /\ r.phase = c.phase /\ r.pipe = Append(c.pipe, n)
      BY <1>1, <2>1, <3>1, <3>2 DEF ConnRow
    <3>5. Whole(W, c.pipe) /\ (current => GoesOn(W, lastId, c.pipe))
      BY <2>1, <2>2, <3>3 DEF ConnOK
    <3>6. Whole(W \cup {n}, r.pipe) /\ (current => GoesOn(W \cup {n}, lastId, r.pipe))
      <4>1. lastId \in Nat
        BY DEF StreamsOK
      <4> QED
        BY <1>1, <1>5, <2>1, <3>4, <3>5, <4>1, WholeAppend
    <3>7. ConnOK(W \cup {n}, lastId, current, r)
      BY <2>1, <2>2, <3>3, <3>4, <3>6 DEF ConnOK
    <3>8. c # Closed
      BY <2>2, ClosedIsFine
    <3> QED
      BY <1>3, <2>2, <3>4, <3>7, <3>8 DEF c, r
  <2>3. CASE ~(t = Watcher /\ Subscribed(k) /\ c.held)
    <3>1. r = c
      BY <1>6, <2>3
    <3> HIDE DEF c, r
    <3>2. CASE t # Watcher
      BY <1>3, <2>1, <3>1, <3>2 DEF c, r
    <3>3. CASE ~(Subscribed(k) /\ c.held)
      <4>1. c.held => c.phase = "asking"
        BY <2>1, <3>3 DEF ConnOK, ConnRow, Subscribed, c
      <4>2. ConnOK(WatchedIn(published'), lastId, current, c)
        BY <2>1, <4>1 DEF ConnOK
      <4> QED
        BY <2>1, <3>1, <4>2 DEF c, r
    <3> QED
      BY <2>3, <3>2, <3>3
  <2> QED
    BY <2>2, <2>3
<1>9. conn' \in [Conns -> ConnRow]
  BY <1>6, <1>8
<1>10. \A j, k \in Conns : conn'[j].held /\ conn'[k].held => j = k
  BY <1>8 DEF StreamsOK
<1>11. Seq1' = n
  BY <1>2 DEF Seq1
<1> QED
  BY <1>2, <1>4, <1>5, <1>7, <1>8, <1>9, <1>10, <1>11 DEF StreamsOK

\* A frame is read: it is the gap, or the watched tenant's next event.
LEMMA ReadStep ==
  ASSUME StreamsOK, NEW k \in Conns, Read(k)
  PROVE  /\ StreamsOK' /\ conn[k] # Closed
         /\ \A j \in Conns : /\ conn'[j].held = conn[j].held
                             /\ j # k => conn'[j] = conn[j]
<1> DEFINE W == WatchedIn(published)
           c == conn[k]
           r == [c EXCEPT !.pipe = Tail(c.pipe)]
           f == Head(c.pipe)
<1>1. c.pipe # <<>> /\ c \in ConnRow /\ c.held \in BOOLEAN /\ c.pipe \in Seq(Nat)
      /\ ConnOK(W, lastId, current, c)
  BY DEF Read, StreamsOK, ConnRow
<1>2. W \in SUBSET Nat /\ W \subseteq 1..Seq1 /\ Seq1 \in Nat
  BY WatchedNat DEF StreamsOK
<1>3. UNCHANGED published /\ conn' = [conn EXCEPT ![k] = r]
  BY DEF Read
<1>4. Tail(c.pipe) \in Seq(Nat) /\ f \in Nat /\ f = c.pipe[1] /\ 1 \in 1..Len(c.pipe)
  <2>1. Len(c.pipe) \in Nat /\ Len(c.pipe) # 0
    BY <1>1, EmptySeq
  <2> QED
    BY <1>1, <2>1, HeadTailProperties
<1>5. W = {s \in 1..Seq1 : published[s] = Watcher}
  BY DEF WatchedIn, Seq1
<1>6. IF f = Gap THEN current' = FALSE /\ UNCHANGED <<lastId, hole>>
      ELSE /\ lastId' = f /\ current' = TRUE
           /\ hole' = (hole \/ (current
                /\ (f <= lastId \/ {s \in 1..Seq1 : lastId < s /\ s < f /\ published[s] = Watcher} # {})))
  BY DEF Read
<1>7. c.held /\ c.phase # "asking" /\ c # Closed
  BY <1>1, ClosedIsFine DEF ConnOK
<1>8. Whole(W, c.pipe) /\ (current => GoesOn(W, lastId, c.pipe))
  BY <1>1, <1>7 DEF ConnOK
<1>9. Whole(W, Tail(c.pipe)) /\ (f # Gap => f \in W /\ GoesOn(W, f, Tail(c.pipe)))
  BY <1>1, <1>2, <1>8, WholeTail
<1>10. lastId \in Nat /\ hole = FALSE /\ current \in BOOLEAN
  BY DEF StreamsOK
<1> HIDE DEF W, c
<1>11. r \in ConnRow /\ r.held = c.held /\ r.phase = c.phase /\ r.pipe = Tail(c.pipe)
  BY <1>1, <1>4 DEF ConnRow
<1> HIDE DEF f, r
<1>12. lastId' \in Nat /\ current' \in BOOLEAN /\ hole' = FALSE
       /\ (current' => lastId' \in 1..Seq1 /\ GoesOn(W, lastId', r.pipe))
  <2>1. CASE f = Gap
    BY <1>6, <1>10, <2>1
  <2>2. CASE f # Gap
    <3>1. lastId' = f /\ current' = TRUE /\ f \in 1..Seq1 /\ GoesOn(W, f, r.pipe)
      BY <1>2, <1>6, <1>9, <1>11, <2>2
    <3>2. ASSUME current
          PROVE  ~(f <= lastId) /\ \A s \in 1..Seq1 : ~(lastId < s /\ s < f /\ published[s] = Watcher)
      <4>1. lastId < f /\ \A w \in W : ~(lastId < w /\ w < f)
        BY <1>1, <1>4, <1>8, <2>2, <3>2 DEF GoesOn, Follows
      <4> QED
        BY <1>4, <1>5, <1>10, <4>1
    <3>3. hole' = FALSE
      <4>1. CASE current
        <5>1. {s \in 1..Seq1 : lastId < s /\ s < f /\ published[s] = Watcher} = {}
          BY <3>2, <4>1
        <5> QED
          BY <1>6, <1>10, <2>2, <3>2, <4>1, <5>1
      <4>2. CASE ~current
        BY <1>6, <1>10, <2>2, <4>2
      <4> QED
        BY <4>1, <4>2
    <3> QED
      BY <1>4, <3>1, <3>3
  <2> QED
    BY <2>1, <2>2
<1>13. ConnOK(W, lastId', current', r)
  <2>1. r.held /\ r.phase # "asking" /\ r.phase # "closed" /\ Whole(W, r.pipe)
    BY <1>1, <1>7, <1>9, <1>11 DEF ConnOK
  <2> QED
    BY <1>12, <2>1 DEF ConnOK
<1>14. conn' \in [Conns -> ConnRow]
       /\ \A j \in Conns : conn'[j] = IF j = k THEN r ELSE conn[j]
  BY <1>3, <1>11 DEF StreamsOK
<1>15. ASSUME NEW j \in Conns, j # k PROVE ConnOK(W, lastId', current', conn'[j])
  <2>1. conn'[j] = conn[j] /\ conn[j].held = FALSE
    BY <1>7, <1>14, <1>15 DEF StreamsOK, ConnRow, c
  <2>2. ConnOK(W, lastId, current, conn[j])
    BY <1>15 DEF StreamsOK, W
  <2> QED
    BY <2>1, <2>2 DEF ConnOK
<1>16. \A i, j \in Conns : conn'[i].held /\ conn'[j].held => i = j
  BY <1>11, <1>14 DEF StreamsOK, c
<1>17. Seq1' = Seq1 /\ WatchedIn(published') = W /\ Len(published') <= MaxSeq
       /\ published' \in Seq(Range(Tenants))
  BY <1>3 DEF Seq1, W, StreamsOK
<1>18. \A j \in Conns : ConnOK(W, lastId', current', conn'[j])
  BY <1>13, <1>14, <1>15
<1>19. StreamsOK'
  BY <1>12, <1>14, <1>16, <1>17, <1>18 DEF StreamsOK
<1>20. \A j \in Conns : /\ conn'[j].held = conn[j].held
                        /\ j # k => conn'[j] = conn[j]
  BY <1>11, <1>14 DEF c
<1> QED
  BY <1>7, <1>19, <1>20 DEF c

\* The browser asks for its one stream.
LEMMA RequestStep ==
  ASSUME StreamsOK, NEW k \in Conns, Request(k)
  PROVE  StreamsOK'
<1> DEFINE r == [Closed EXCEPT !.phase = "asking", !.held = TRUE]
<1>1. r \in ConnRow /\ r.phase = "asking" /\ r.held = TRUE /\ r.pipe = <<>>
  BY ClosedIsFine DEF ConnRow
<1>2. ConnOK(WatchedIn(published), lastId, current, r)
  BY <1>1 DEF ConnOK
<1>3. conn' = [conn EXCEPT ![k] = r] /\ UNCHANGED <<published, lastId, current, hole>>
      /\ \A j \in Conns : ~conn[j].held
  BY DEF Request
<1> HIDE DEF r
<1> QED
  BY <1>1, <1>2, <1>3, ConnChange

\* A step of a stream leaves every stream whole, and neither takes a closed connection up
\* nor holds one that was let go.
LEMMA StreamSteps ==
  ASSUME StreamsOK, NEW k \in Conns, StreamStep(k)
  PROVE  /\ StreamsOK' /\ conn[k] # Closed
         /\ \A j \in Conns : /\ conn'[j].held => conn[j].held
                             /\ j # k => conn'[j] = conn[j]
<1> DEFINE c == conn[k]
           W == WatchedIn(published)
<1>1. /\ c \in ConnRow /\ c.held \in BOOLEAN /\ c.pipe \in Seq(Nat)
      /\ c.phase \in {"closed", "asking", "opening", "open", "orphan"}
      /\ ConnOK(W, lastId, current, c) /\ lastId \in Nat
      /\ current => lastId \in 1..Seq1
      /\ conn \in [Conns -> ConnRow]
  BY DEF StreamsOK, ConnRow
<1>2. ASSUME NEW r \in ConnRow, conn' = [conn EXCEPT ![k] = r],
             UNCHANGED <<published, lastId, current, hole>>,
             ConnOK(W, lastId, current, r), r.held => c.held, c # Closed
      PROVE  /\ StreamsOK' /\ conn[k] # Closed
             /\ \A j \in Conns : /\ conn'[j].held => conn[j].held
                                 /\ j # k => conn'[j] = conn[j]
  <2>1. StreamsOK'
    BY <1>2, ConnChange
  <2>2. \A j \in Conns : conn'[j] = IF j = k THEN r ELSE conn[j]
    BY <1>1, <1>2
  <2> QED
    BY <1>2, <2>1, <2>2
<1>3. CASE Serve(k)
  <2> DEFINE g == IF HasGapSince(lastId) THEN <<Gap>> ELSE <<>>
             p == IF ~c.held THEN <<>> ELSE g \o Replay(Watcher, lastId)
             r == [c EXCEPT !.phase = "opening", !.pipe = p]
  <2>1. c.phase = "asking" /\ UNCHANGED <<published, lastId, current, hole>>
        /\ conn' = [conn EXCEPT ![k].phase = "opening", ![k].pipe = p]
    BY <1>3 DEF Serve
  <2>2. /\ g \o Replay(Watcher, lastId) \in Seq(Nat)
        /\ Whole(W, g \o Replay(Watcher, lastId))
        /\ lastId \in 1..Seq1 => GoesOn(W, lastId, g \o Replay(Watcher, lastId))
    BY WholeReplay DEF StreamsOK
  <2>3. p \in Seq(Nat)
    BY <2>2, EmptySeq
  <2>4. p # <<>> => c.held
    OBVIOUS
  <2>5. c.held => Whole(W, p) /\ (current => GoesOn(W, lastId, p))
    BY <1>1, <2>2
  <2> HIDE DEF g, p
  <2>6. r \in ConnRow /\ ConnOK(W, lastId, current, r) /\ (r.held => c.held)
    <3>1. r \in ConnRow /\ r.phase = "opening" /\ r.held = c.held /\ r.pipe = p
      BY <1>1, <2>3 DEF ConnRow
    <3> HIDE DEF r
    <3> QED
      BY <1>1, <2>4, <2>5, <3>1 DEF ConnOK
  <2>7. conn' = [conn EXCEPT ![k] = r]
    BY <1>1, <2>1
  <2>8. c # Closed
    BY <2>1, ClosedIsFine
  <2> HIDE DEF r
  <2> QED
    BY <1>2, <2>1, <2>6, <2>7, <2>8
<1>4. CASE Refuse(k) \/ Finish(k)
  <2>1. c # Closed /\ conn' = [conn EXCEPT ![k] = Closed]
        /\ UNCHANGED <<published, lastId, current, hole>>
    BY <1>4, ClosedIsFine DEF Refuse, Finish
  <2> QED
    BY <1>2, <2>1, ClosedIsFine
<1>5. CASE Listen(k)
  <2> DEFINE h == IF c.held THEN "open" ELSE "orphan"
             r == [c EXCEPT !.phase = h]
  <2>1. c.phase = "opening" /\ UNCHANGED <<published, lastId, current, hole>>
        /\ conn' = [conn EXCEPT ![k].phase = h]
    BY <1>5 DEF Listen
  <2>2. h \in {"open", "orphan"}
    OBVIOUS
  <2> HIDE DEF h
  <2>3. r \in ConnRow /\ ConnOK(W, lastId, current, r) /\ (r.held => c.held)
    <3>1. r \in ConnRow /\ r.phase = h /\ r.held = c.held /\ r.pipe = c.pipe
      BY <1>1, <2>2 DEF ConnRow
    <3> HIDE DEF r
    <3> QED
      BY <1>1, <2>1, <2>2, <3>1 DEF ConnOK
  <2>4. conn' = [conn EXCEPT ![k] = r]
    BY <1>1, <2>1
  <2>5. c # Closed
    BY <2>1, ClosedIsFine
  <2> HIDE DEF r
  <2> QED
    BY <1>2, <2>1, <2>3, <2>4, <2>5
<1>6. CASE Drop(k)
  <2> DEFINE r == [c EXCEPT !.held = FALSE, !.pipe = <<>>]
  <2>1. c.held /\ UNCHANGED <<published, lastId, current, hole>>
        /\ conn' = [conn EXCEPT ![k].held = FALSE, ![k].pipe = <<>>]
    BY <1>6 DEF Drop
  <2>2. r \in ConnRow /\ ConnOK(W, lastId, current, r) /\ r.held = FALSE
    <3>1. <<>> \in Seq(Nat)
      BY EmptySeq
    <3>2. r \in ConnRow /\ r.held = FALSE /\ r.pipe = <<>>
      BY <1>1, <3>1 DEF ConnRow
    <3> HIDE DEF r
    <3> QED
      BY <3>2 DEF ConnOK
  <2>3. conn' = [conn EXCEPT ![k] = r]
    BY <1>1, <2>1
  <2>4. c # Closed
    BY <2>1, ClosedIsFine
  <2> HIDE DEF r
  <2> QED
    BY <1>2, <2>1, <2>2, <2>3, <2>4
<1>7. CASE Read(k)
  BY <1>7, ReadStep
<1> QED
  BY <1>3, <1>4, <1>5, <1>6, <1>7 DEF StreamStep

-----------------------------------------------------------------------------
(* The service.                                                              *)

\* Streams are of a running process, and the last stages of a stop have none.
LinkOK ==
  /\ \A k \in Conns : conn[k] # Closed => proc = "up"
  /\ stage \in {"log", "engine"} => \A k \in Conns : ~conn[k].held

ServiceInv == ProcOK /\ StreamsOK /\ LinkOK

\* The process is down and nobody is connected.
LEMMA ServiceInit == Init => ServiceInv
<1> SUFFICES ASSUME Init PROVE ServiceInv
  OBVIOUS
<1>1. <<>> \in Seq(Range(Tenants)) /\ Len(<<>>) = 0
  BY EmptySeq
<1>2. ProcOK
  <2>1. /\ file \in Files /\ env \in Envs /\ proc = "down"
        /\ applied \in 0..Migrations /\ seen = 0 /\ armed = {} /\ stage = "none"
        /\ sweeping = 0 /\ queue = <<>>
    BY DEF Init, ProcInit
  <2>2. applied \in Nat /\ 0 <= applied /\ applied <= Migrations
    BY <2>1, MigrationAssumption
  <2>3. queue \in Seq(Range(Tenants)) /\ sweeping \in {0, 1} /\ (sweeping = 1 <=> queue # <<>>)
    BY <1>1, <2>1
  <2> QED
    BY <2>1, <2>2, <2>3 DEF ProcOK, Stages
<1>3. /\ published = <<>> /\ conn = [k \in Conns |-> Closed]
      /\ lastId = 0 /\ current = FALSE /\ hole = FALSE
  BY DEF Init, StreamInit
<1>4. StreamsOK
  <2>1. conn \in [Conns -> ConnRow] /\ \A k \in Conns : conn[k] = Closed
    BY <1>3, ClosedIsFine
  <2>2. 0 <= MaxSeq
    BY BufferAssumption
  <2> QED
    BY <1>1, <1>3, <2>1, <2>2, ClosedIsFine DEF StreamsOK
<1>5. LinkOK
  BY <1>2, <1>3 DEF LinkOK, Init, ProcInit
<1> QED
  BY <1>2, <1>4, <1>5 DEF ServiceInv

\* The log is closed once the server has no connection left, and the engine after it.
LEMMA StageSteps ==
  ASSUME ProcOK, ProcStep, stage' \in {"log", "engine"}, proc' # "down"
  PROVE  stage \in {"log", "engine"} \/ Live = {}
<1>1. CASE Stopping
  BY <1>1, Stops DEF Stopping, StopStep
<1>2. CASE Start \/ Migrate
  BY <1>2 DEF Start, Migrate, Ends
<1>3. CASE OtherInstanceMigrates \/ Bind \/ Listening \/ TickReads \/ TickFindsNoDatabase
  BY <1>3 DEF OtherInstanceMigrates, Bind, Listening, TickReads, TickFindsNoDatabase, Tick
<1>4. CASE PortTaken \/ Crash \/ Exit
  BY <1>4 DEF PortTaken, Crash, Exit, Ends
<1>5. ASSUME NEW s \in Signals, Signal(s) PROVE FALSE
  BY <1>5 DEF Signal, Ends
<1> QED
  BY <1>1, <1>2, <1>3, <1>4, <1>5 DEF ProcStep

\* The streams end with the process and are left alone by every other of its steps.
LEMMA ProcessStep ==
  ASSUME ServiceInv, ProcStep, StreamsFollow
  PROVE  ServiceInv'
<1>1. ProcOK' /\ (proc = "up" => proc' \in {"up", "down"})
  BY ProcSteps DEF ServiceInv
<1>2. CASE proc' = "down"
  <2>1. /\ published' = <<>> /\ conn' = [k \in Conns |-> Closed] /\ current' = FALSE
        /\ UNCHANGED <<lastId, hole>>
    BY <1>2 DEF StreamsFollow, StreamsDie
  <2>2. \A k \in Conns : conn'[k] = Closed
    BY <2>1
  <2>3. published' \in Seq(Range(Tenants)) /\ Len(published') <= MaxSeq
    BY <2>1, EmptySeq, BufferAssumption
  <2>4. conn' \in [Conns -> ConnRow]
    BY <2>1, ClosedIsFine
  <2>5. StreamsOK'
    BY <2>1, <2>2, <2>3, <2>4, ClosedIsFine DEF StreamsOK, ServiceInv
  <2>6. LinkOK'
    BY <2>2, ClosedIsFine DEF LinkOK
  <2> QED
    BY <1>1, <2>5, <2>6 DEF ServiceInv
<1>3. CASE proc' # "down"
  <2>1. UNCHANGED <<published, conn, lastId, current, hole>>
    BY <1>3 DEF StreamsFollow, streamVars
  <2>2. Seq1' = Seq1 /\ WatchedIn(published') = WatchedIn(published)
    BY <2>1 DEF Seq1
  <2>3. StreamsOK'
    BY <2>1, <2>2 DEF StreamsOK, ServiceInv
  <2>4. \A k \in Conns : conn'[k] # Closed => proc' = "up"
    BY <1>1, <1>3, <2>1 DEF ServiceInv, LinkOK
  <2>5. ASSUME stage' \in {"log", "engine"}, NEW k \in Conns PROVE ~conn'[k].held
    <3>1. stage \in {"log", "engine"} \/ Live = {}
      BY <1>3, <2>5, StageSteps DEF ServiceInv
    <3> QED
      BY <2>1, <3>1 DEF ServiceInv, LinkOK, Live
  <2> QED
    BY <1>1, <2>3, <2>4, <2>5 DEF ServiceInv, LinkOK
<1> QED
  BY <1>2, <1>3

\* Every step keeps the invariant.
LEMMA ServiceNext == ServiceInv /\ [Next]_vars => ServiceInv'
<1> SUFFICES ASSUME ServiceInv, [Next]_vars PROVE ServiceInv'
  OBVIOUS
<1>1. ASSUME UNCHANGED procVars PROVE ProcOK'
  <2>1. UNCHANGED <<file, env, applied, proc, seen, armed, stage, sweeping, queue, exit>>
    BY <1>1 DEF procVars
  <2>2. ConfigRefused' <=> ConfigRefused
    BY <2>1 DEF ConfigRefused, Setting, Text, Says
  <2> QED
    BY <2>1, <2>2 DEF ServiceInv, ProcOK
<1>2. ASSUME UNCHANGED streamVars PROVE StreamsOK'
  BY <1>2 DEF ServiceInv, StreamsOK, streamVars, WatchedIn, Seq1
<1>3. CASE ProcStep /\ StreamsFollow
  BY <1>3, ProcessStep
<1>4. ASSUME NEW t \in Range(Tenants), TickIsOver(t) PROVE ServiceInv'
  <2>1. ProcOK' /\ proc' = proc /\ stage' = stage
    BY <1>4, TickOver DEF ServiceInv
  <2>2. UNCHANGED streamVars
    BY <1>4 DEF TickIsOver
  <2> QED
    BY <1>2, <2>1, <2>2 DEF ServiceInv, LinkOK, streamVars
<1>5. CASE TickPublishes
  <2>1. Head(queue) \in Range(Tenants) /\ Publish(Head(queue)) /\ UNCHANGED procVars
    BY <1>5, HeadTailProperties DEF TickPublishes, ServiceInv, ProcOK
  <2>2. /\ StreamsOK'
        /\ \A k \in Conns : conn'[k].held = conn[k].held /\ (conn'[k] # Closed => conn[k] # Closed)
    BY <2>1, PublishStep DEF ServiceInv
  <2>3. LinkOK'
    BY <2>1, <2>2 DEF ServiceInv, LinkOK, procVars
  <2> QED
    BY <1>1, <2>1, <2>2, <2>3 DEF ServiceInv
<1>6. ASSUME NEW k \in Conns, Connect(k) PROVE ServiceInv'
  <2>1. Request(k) /\ UNCHANGED procVars /\ proc = "up" /\ stage \in {"none", "runner"}
    BY <1>6 DEF Connect, Accepting
  <2>2. StreamsOK'
    BY <2>1, RequestStep DEF ServiceInv
  <2>3. LinkOK'
    BY <2>1 DEF LinkOK, procVars
  <2> QED
    BY <1>1, <2>1, <2>2, <2>3 DEF ServiceInv
<1>7. ASSUME NEW k \in Conns, StreamStep(k) PROVE ServiceInv'
  <2>1. /\ StreamsOK' /\ conn[k] # Closed
        /\ \A j \in Conns : /\ conn'[j].held => conn[j].held
                            /\ j # k => conn'[j] = conn[j]
    BY <1>7, StreamSteps DEF ServiceInv
  <2>2. UNCHANGED procVars
    BY <1>7 DEF StreamStep
  <2>3. proc = "up"
    BY <2>1 DEF ServiceInv, LinkOK
  <2>4. LinkOK'
    BY <2>1, <2>2, <2>3 DEF ServiceInv, LinkOK, procVars
  <2> QED
    BY <1>1, <2>1, <2>2, <2>4 DEF ServiceInv
<1>8. CASE UNCHANGED vars
  <2>1. UNCHANGED procVars /\ UNCHANGED streamVars
    BY <1>8 DEF vars
  <2>2. LinkOK'
    BY <2>1 DEF ServiceInv, LinkOK, procVars, streamVars
  <2> QED
    BY <1>1, <1>2, <2>1, <2>2 DEF ServiceInv
<1> QED
  BY <1>3, <1>4, <1>5, <1>6, <1>7, <1>8 DEF Next, ProcStep, Exits, Stopping

\* Every reachable state of the process and its streams: the configuration is good, the
\* schema the newest once requests are served, a sweep is in flight exactly while tenants
\* wait for it, and every stream that is held carries on where its reader is (main.ts
\* 71-123, runner/schedule.ts 79-98, ops/events.ts 103-127, server/app.ts 158-202).
THEOREM ServiceInvariant == Spec => []ServiceInv
<1>1. Init => ServiceInv
  BY ServiceInit
<1>2. ServiceInv /\ [Next]_vars => ServiceInv'
  BY ServiceNext
<1> QED
  BY <1>1, <1>2, PTL DEF Spec

\* The types, the newest schema under every request, and one live connection of the
\* browser (db/migrate.ts 45-87, main.ts 71-86, server/app.ts 158-202).
THEOREM ServiceTyped == Spec => []TypeOK
<1>1. ServiceInv => TypeOK
  <2> SUFFICES ASSUME ServiceInv PROVE TypeOK
    OBVIOUS
  <2>1. Cardinality(Live) <= 1
    <3>1. CASE Live = {}
      BY <3>1, FS_EmptySet
    <3>2. ASSUME NEW k \in Live PROVE Cardinality(Live) <= 1
      <4>1. Live = {k}
        BY <3>2 DEF Live, ServiceInv, StreamsOK
      <4> QED
        BY <4>1, FS_Singleton
    <3> QED
      BY <3>1, <3>2
  <2>2. \A k \in Conns :
          /\ conn[k].phase \in {"closed", "asking", "opening", "open", "orphan"}
          /\ conn[k].pipe # <<>> => conn[k].held
          /\ conn[k] # Closed => proc = "up"
    BY DEF ServiceInv, StreamsOK, LinkOK, ConnRow, ConnOK
  <2>3. /\ file \in Files /\ env \in Envs
        /\ proc \in {"down", "migrating", "binding", "up"}
        /\ seen <= applied /\ applied <= Migrations
        /\ proc \in {"binding", "up"} => seen = Migrations /\ ~ConfigRefused
        /\ sweeping \in {0, 1} /\ (sweeping = 1 <=> queue # <<>>)
        /\ armed \subseteq Signals
        /\ stage # "none" => proc = "up"
    BY DEF ServiceInv, ProcOK
  <2>4. Len(published) <= MaxSeq
    BY DEF ServiceInv, StreamsOK
  <2> QED
    BY <2>1, <2>2, <2>3, <2>4 DEF TypeOK
<1> QED
  BY <1>1, ServiceInvariant, PTL

\* No stream of a tenant's events has one missing, repeated or out of order, over any
\* number of broken connections and restarts, unless its client is told of the gap
\* (ops/events.ts 114-127, server/app.ts 175-183).
THEOREM StreamsAreWhole == Spec => []NoSilentHole
<1>1. ServiceInv => NoSilentHole
  BY DEF ServiceInv, StreamsOK, NoSilentHole
<1> QED
  BY <1>1, ServiceInvariant, PTL

\* A process that ends its stop by itself leaves no sweep and no connection behind
\* (main.ts 115-123, runner/schedule.ts 139-143).
THEOREM StopsDrain == Spec => OneSignalDrains
<1> DEFINE Drained == proc = "up" /\ exit' = "exit 0" /\ proc' = "down"
                        => sweeping = 0 /\ Live = {}
<1>1. ServiceInv /\ [Next]_vars => [Drained]_vars
  <2> SUFFICES ASSUME ServiceInv, Next, proc = "up", exit' = "exit 0", proc' = "down"
               PROVE  sweeping = 0 /\ Live = {}
    BY DEF vars, procVars
  <2>1. stage = "engine" => sweeping = 0 /\ Live = {}
    BY DEF ServiceInv, ProcOK, LinkOK, Live
  <2>2. CASE Exit
    BY <2>1, <2>2 DEF Exit
  <2>3. CASE Start \/ Migrate \/ PortTaken \/ Crash
    BY <2>3 DEF Start, Migrate, PortTaken, Crash, Ends
  <2>4. CASE OtherInstanceMigrates \/ Bind \/ Listening \/ TickReads \/ TickFindsNoDatabase
    BY <2>4 DEF OtherInstanceMigrates, Bind, Listening, TickReads, TickFindsNoDatabase, Tick
  <2>5. ASSUME NEW s \in Signals, Signal(s) PROVE FALSE
    BY <2>5 DEF Signal, Ends
  <2>6. ASSUME NEW t, TickIsOver(t) PROVE FALSE
    BY <2>6 DEF TickIsOver, TickEnds
  <2>7. CASE Stopping
    BY <2>7 DEF Stopping, StopStep
  <2>8. CASE UNCHANGED procVars
    BY <2>8 DEF procVars
  <2>9. TickPublishes \/ (\E k \in Conns : Connect(k) \/ StreamStep(k)) => UNCHANGED procVars
    BY DEF TickPublishes, Connect, StreamStep
  <2> QED
    BY <2>2, <2>3, <2>4, <2>5, <2>6, <2>7, <2>8, <2>9 DEF Next, Exits
<1> QED
  BY <1>1, ServiceInvariant, PTL DEF Spec, OneSignalDrains
=============================================================================
