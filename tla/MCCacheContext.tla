---------------------------- MODULE MCCacheContext ----------------------------
(* Three caches, so that one is between two others and a move leaves a     *)
(* third, and two credentials, so that a version can go while the other    *)
(* stays, and the registry can empty and fill again.                       *)
EXTENDS CCacheContext

CONSTANTS initial, zero, one, alice, krbtgt

MCName == {initial, zero, one}
MCNewNames == <<zero, one, initial>>
=============================================================================
