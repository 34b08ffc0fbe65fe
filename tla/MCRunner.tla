------------------------------ MODULE MCRunner ------------------------------
(* Runner on one order of two items, worked by one process or by two. *)
EXTENDS Runner, TLC

CONSTANTS w1, w2

MCJobs == 1..2
MCOrders == {1}
MCOrderOf == <<1, 1>>
OwnId == [w \in Workers |-> w]
SharedId == [w \in Workers |-> w1]
=============================================================================
