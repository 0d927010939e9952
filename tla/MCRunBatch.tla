----------------------------- MODULE MCRunBatch -----------------------------
(***************************************************************************)
(* RunBatch for TLC: pools of two and three proxies, small enough that     *)
(* workers share proxies and the reserve runs out.                         *)
(***************************************************************************)
EXTENDS RunBatch

CONSTANTS p1, p2, p3

PoolOfTwo   == <<p1, p2>>
PoolOfThree == <<p1, p2, p3>>
=============================================================================
