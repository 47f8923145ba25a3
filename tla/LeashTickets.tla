---- MODULE LeashTickets ----
(***************************************************************************)
(* The ticket caches behind Leash, and what the Leash library does to      *)
(* them (leashdll/krb5routines.c, leashdll/lshfunc.c).  `v5' is the default *)
(* Kerberos 5 cache: its principal, and whether a ticket-granting ticket is *)
(* in it, with the time that ticket has left in units of five minutes (the  *)
(* steps of CLeashView::GetLowTicketStatus).  `v4' is the time left of the  *)
(* Kerberos 4 ticket.  The caches belong to no lock: every call below is a  *)
(* step of its own between the steps of other threads.                      *)
(***************************************************************************)
EXTENDS Naturals, FiniteSets

CONSTANTS
  Principal,   \* the principals a user may log in as
  Lsa,         \* the principal of the Windows logon session (MSLSA:)
  NoOne,       \* no principal
  MaxLife,     \* the longest life of a ticket, in units of five minutes
  UseKrb4      \* Leash_get_default_use_krb4

ASSUME TicketAssumption ==
  /\ Lsa \in Principal /\ NoOne \notin Principal
  /\ MaxLife \in Nat \ {0}
  /\ UseKrb4 \in BOOLEAN

VARIABLES v5, v4

caches == <<v5, v4>>

NoV4 == MaxLife + 1          \* `v4' when there is no Kerberos 4 ticket
NoV5 == [princ |-> NoOne, tgt |-> FALSE, left |-> 0]
HasV5 == v5.tgt

TicketsTypeOK ==
  /\ v5 \in [princ: Principal \cup {NoOne}, tgt: BOOLEAN, left: 0..MaxLife]
  /\ v4 \in 0..NoV4

TicketsInit == v5 = NoV5 /\ v4 = NoV4

(* krb5_cc_initialize and krb5_cc_store_cred.  A store into a cache that    *)
(* another thread destroyed fails.                                          *)
Initialize5(p) == v5' = [princ |-> p, tgt |-> FALSE, left |-> 0] /\ UNCHANGED v4
CanStore5 == v5.princ # NoOne
Store5 == CanStore5 /\ v5' = [v5 EXCEPT !.tgt = TRUE, !.left = MaxLife] /\ UNCHANGED v4

(* What Leash_convert524 may leave of the Kerberos 4 ticket `old', asking for *)
(* one with the ticket of the cache c: krb_in_tkt empties the Kerberos 4     *)
(* cache before the ticket is stored.                                       *)
Converted(c, old) == {NoV4, old} \cup IF c.tgt THEN {c.left} ELSE {}

(* krb_get_pw_in_tkt, after a conversion that failed.                       *)
WithPassword4(old) == {MaxLife, NoV4, old}

(* Leash_kdestroy.  Errors of the Kerberos 5 part are ignored.              *)
Destroy == v4' = NoV4 /\ v5' \in {NoV5, v5}

(* Five minutes pass.                                                       *)
Ages ==
  /\ v5' = [v5 EXCEPT !.left = IF @ > 0 THEN @ - 1 ELSE 0]
  /\ v4' = IF v4 \in 1..MaxLife THEN v4 - 1 ELSE v4

(* What not_an_API_LeashKRB5GetTickets and not_an_API_LeashKRB4GetTickets   *)
(* write into a TICKETINFO.  Without a ticket the old times stay.           *)
Found5(c, old) ==
  IF c.tgt
  THEN [b |-> IF c.left = 0 THEN "expired" ELSE "good", left |-> c.left, princ |-> c.princ]
  ELSE [old EXCEPT !.b = "none", !.princ = c.princ]
Found4(c, old) ==
  IF c # NoV4
  THEN [old EXCEPT !.b = IF c = 0 THEN "expired" ELSE "good", !.left = c]
  ELSE [old EXCEPT !.b = "none"]
====
