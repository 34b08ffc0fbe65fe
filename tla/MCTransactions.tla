--------------------------- MODULE MCTransactions ---------------------------
(* Transactions on one order of two items, one tenant that owns it and one *)
(* that does not, and a pool of one or two connections.                    *)
EXTENDS Transactions, TLC

CONSTANTS order, owner, stranger, j1, j2

MCOrderOf == [j \in Jobs |-> order]
MCTenantOf == [r \in Rows |-> owner]
Symmetry == Permutations(Jobs) \cup Permutations(Connections)
=============================================================================
