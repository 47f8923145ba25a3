---- MODULE MCLeashView ----
(* Instances of LeashView for TLC. *)
EXTENDS LeashView
CONSTANTS lsa, alice, w1
====
