---------------------------- MODULE MCCacheClient ----------------------------
(* Two processes, one with two threads, and two servers: both processes    *)
(* may start one, and a crashed one may be replaced.                       *)
EXTENDS CCacheClient, TLC

CONSTANTS app, tool, a1, a2, b1

MCProcessOf == [t \in Thread |-> IF t = b1 THEN tool ELSE app]
(* The threads of app are alike (in the runs without liveness).            *)
MCSymmetry == Permutations({a1, a2})
=============================================================================
