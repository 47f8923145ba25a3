---- MODULE MCLeashTimer ----
(* Instances of LeashTimer for TLC. *)
EXTENDS LeashTimer
CONSTANT lsa
====
