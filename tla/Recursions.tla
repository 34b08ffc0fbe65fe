------------------------------ MODULE Recursions ------------------------------
(***************************************************************************)
(* Recursion and induction over ranked nodes, stated of sets and functions     *)
(* alone: a recursive function is a CHOOSE, and nothing can be said of it       *)
(* before some function is known to solve its equation.  The schema check, the  *)
(* reading of a reply and the sum of a day's bills all rest on this.             *)
(***************************************************************************)
EXTENDS WellFoundedInduction, TLAPS

\* A set of numbers has a least one.
LEMMA LeastOf ==
  ASSUME NEW T \in SUBSET Nat, T # {}
  PROVE  \E m \in T : \A n \in T : m <= n
<1>1. PICK m \in T : \A n \in T : <<n, m>> \notin OpToRel(<, Nat)
  BY NatLessThanWellFounded, WFMin
<1>2. \A n \in T : ~(n < m)
  BY <1>1 DEF OpToRel
<1> QED
  BY <1>2

\* The nodes below a node are of lower rank.
Descends(Nodes, rank, below) ==
  /\ rank \in [Nodes -> Nat] /\ below \in [Nodes -> SUBSET Nodes]
  /\ \A x \in Nodes : \A y \in below[x] : rank[y] < rank[x]

\* F computes a result in R for each node from the results of the nodes below it.
Computes(F, Nodes, below, R) == \A x \in Nodes : F[x] \in [[below[x] -> R] -> R]

Solves(f, F, Nodes, below) ==
  \A x \in Nodes : f[x] = F[x][[y \in below[x] |-> f[y]]]

\* A recursion over ranked nodes has a solution.
LEMMA Recursion ==
  ASSUME NEW Nodes, NEW rank, NEW below, Descends(Nodes, rank, below),
         NEW R, NEW F, Computes(F, Nodes, below, R)
  PROVE  \E f \in [Nodes -> R] : Solves(f, F, Nodes, below)
<1> USE DEF Descends, Computes, Solves
<1> DEFINE Upto(n) == {x \in Nodes : rank[x] < n}
           Sol(g, n) == /\ g \in [Upto(n) -> R]
                        /\ \A x \in Upto(n) : g[x] = F[x][[y \in below[x] |-> g[y]]]
<1>1. \A n \in Nat : \A x \in Upto(n) : x \in Nodes /\ below[x] \subseteq Upto(n)
  OBVIOUS
<1>2. ASSUME NEW g, NEW h, NEW m \in Nat, NEW n \in Nat, Sol(g, m), Sol(h, n)
      PROVE  \A x \in Upto(m) \cap Upto(n) : g[x] = h[x]
  <2> DEFINE T == {rank[x] : x \in {x \in Upto(m) \cap Upto(n) : g[x] # h[x]}}
  <2> SUFFICES ASSUME T # {} PROVE FALSE
    OBVIOUS
  <2>1. PICK k \in T : \A i \in T : k <= i
    <3>1. T \in SUBSET Nat
      OBVIOUS
    <3> HIDE DEF T
    <3> QED
      BY <3>1, LeastOf
  <2>2. PICK x \in Upto(m) \cap Upto(n) : g[x] # h[x] /\ rank[x] = k
    OBVIOUS
  <2>3. \A y \in below[x] : y \in Upto(m) \cap Upto(n) /\ g[y] = h[y]
    <3>1. ASSUME NEW y \in below[x] PROVE y \in Upto(m) \cap Upto(n) /\ g[y] = h[y]
      <4>1. y \in Upto(m) \cap Upto(n) /\ y \in Nodes
        BY <1>1
      <4>2. rank[y] < k /\ rank[y] \in Nat /\ k \in Nat
        BY <2>2, <4>1
      <4>3. g[y] # h[y] => rank[y] \in T
        BY <4>1
      <4>4. rank[y] \notin T
        <5> HIDE DEF T
        <5> QED
          BY <2>1, <4>2
      <4> QED
        BY <4>1, <4>3, <4>4
    <3> QED
      BY <3>1
  <2>4. [y \in below[x] |-> g[y]] = [y \in below[x] |-> h[y]]
    BY <2>3
  <2> QED
    BY <1>2, <2>2, <2>4
<1>3. \A n \in Nat : \E g : Sol(g, n)
  <2> DEFINE T == {n \in Nat : ~\E g : Sol(g, n)}
  <2> SUFFICES ASSUME T # {} PROVE FALSE
    <3> HIDE DEF Sol
    <3> QED
      OBVIOUS
  <2>1. PICK n \in T : \A i \in T : n <= i
    <3>1. T \in SUBSET Nat
      OBVIOUS
    <3> HIDE DEF T
    <3> QED
      BY <3>1, LeastOf
  <2>2. n # 0
    <3>1. Upto(0) = {}
      OBVIOUS
    <3>2. Sol([x \in {} |-> {}], 0)
      BY <3>1
    <3> QED
      BY <3>2
  <2>3. PICK g : Sol(g, n - 1)
    <3>1. n - 1 \in Nat /\ ~(n <= n - 1)
      BY <2>1, <2>2
    <3>2. n - 1 \notin T
      <4> HIDE DEF T
      <4> QED
        BY <2>1, <3>1
    <3> HIDE DEF Sol
    <3> QED
      BY <3>1, <3>2
  <2>4. \A x \in Upto(n) : below[x] \subseteq Upto(n - 1) /\ x \in Nodes
    <3>1. ASSUME NEW x \in Upto(n), NEW y \in below[x] PROVE y \in Upto(n - 1)
      OBVIOUS
    <3> QED
      BY <3>1
  <2>5. Upto(n - 1) \subseteq Upto(n)
    OBVIOUS
  <2> DEFINE h == [x \in Upto(n) |-> F[x][[y \in below[x] |-> g[y]]]]
  <2>6. h \in [Upto(n) -> R]
    <3>1. ASSUME NEW x \in Upto(n) PROVE F[x][[y \in below[x] |-> g[y]]] \in R
      <4>1. [y \in below[x] |-> g[y]] \in [below[x] -> R]
        BY <2>3, <2>4
      <4> QED
        BY <2>4, <4>1
    <3> QED
      BY <3>1
  <2>7. \A y \in Upto(n - 1) : h[y] = g[y]
    BY <2>3, <2>5
  <2>8. ASSUME NEW x \in Upto(n) PROVE h[x] = F[x][[y \in below[x] |-> h[y]]]
    <3>1. [y \in below[x] |-> g[y]] = [y \in below[x] |-> h[y]]
      BY <2>4, <2>7
    <3> QED
      BY <3>1
  <2>9. Sol(h, n)
    BY <2>6, <2>8
  <2> HIDE DEF Sol, h
  <2> QED
    BY <2>1, <2>9
<1> DEFINE G(n) == CHOOSE g : Sol(g, n)
           f == [x \in Nodes |-> G(rank[x] + 1)[x]]
<1>4. \A n \in Nat : Sol(G(n), n)
  BY <1>3
<1>5. \A x \in Nodes : rank[x] + 1 \in Nat /\ x \in Upto(rank[x] + 1)
  OBVIOUS
<1> HIDE DEF G, Sol
<1>6. ASSUME NEW x \in Nodes
      PROVE  f[x] = G(rank[x] + 1)[x] /\ f[x] = F[x][[y \in below[x] |-> f[y]]] /\ f[x] \in R
  <2> DEFINE n == rank[x] + 1
  <2>1. n \in Nat /\ x \in Upto(n) /\ f[x] = G(n)[x]
    BY <1>5
  <2>2. \A y \in below[x] : y \in Nodes /\ y \in Upto(n) /\ f[y] = G(rank[y] + 1)[y]
    BY <1>1, <2>1
  <2>3. \A y \in below[x] : f[y] = G(n)[y]
    BY <1>2, <1>4, <1>5, <2>1, <2>2
  <2>4. [y \in below[x] |-> f[y]] = [y \in below[x] |-> G(n)[y]]
    BY <2>3
  <2>5. G(n)[x] = F[x][[y \in below[x] |-> G(n)[y]]] /\ G(n)[x] \in R
    BY <1>4, <2>1 DEF Sol
  <2> QED
    BY <2>1, <2>4, <2>5
<1> QED
  BY <1>6

\* Among ranked nodes there is one of lowest rank.
LEMMA Lowest ==
  ASSUME NEW Nodes, NEW rank \in [Nodes -> Nat], NEW T \in SUBSET Nodes, T # {}
  PROVE  \E x \in T : \A y \in T : rank[x] <= rank[y]
<1> DEFINE U == {rank[x] : x \in T}
<1>1. U \in SUBSET Nat /\ U # {}
  OBVIOUS
<1>2. PICK n \in U : \A m \in U : n <= m
  <2> HIDE DEF U
  <2> QED
    BY <1>1, LeastOf
<1> QED
  BY <1>2
=============================================================================
