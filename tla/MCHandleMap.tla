---------------------------- MODULE MCHandleMap ----------------------------
(* A handle map that starts with two slots, grows by one and then runs     *)
(* out of memory; handles range over the whole of a small size_t.          *)
EXTENDS HandleMap
============================================================================
