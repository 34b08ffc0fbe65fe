----------------------------- MODULE MCJobQueue -----------------------------
(* JobQueue on one order of two items and two claimants. *)
EXTENDS JobQueue, TLC

CONSTANTS w1, w2

MCJobs == 1..2
MCOrders == {1}
MCOrderOf == <<1, 1>>
MCWorkers == {w1, w2}
=============================================================================
