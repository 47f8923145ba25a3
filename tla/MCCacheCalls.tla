---------------------------- MODULE MCCacheCalls ----------------------------
(* Two objects: an iterator, and a reference through which caches and      *)
(* credentials come and go under it.  Two caches and two credentials: one   *)
(* of either is ahead of an iterator's position when the other is at it.   *)
EXTENDS CCacheCalls

CONSTANTS initial, zero, alice, krbtgt, host

MCName == {initial, zero}
MCNewNames == <<zero, initial>>
=============================================================================
