---------------------------- MODULE MCCacheServer ----------------------------
(* Two clients, a cache that one may destroy under the other's references, *)
(* one set of credentials, and two objects: a reference and an iterator,   *)
(* or one of a kind for each.                                              *)
EXTENDS CCacheServer

CONSTANTS initial, zero, alice, krbtgt, c1, c2, h1, h2

MCName == {initial}
MCNewNames == <<initial>>
=============================================================================
