---- MODULE MCKrb4 ----
(* Programs that share a ticket file, two realms, one service.            *)
EXTENDS Krb4Client

CONSTANTS initial, zero, alice, bob, t1, t2, athena, andrew, host

MCName == {initial}
MCNewNames == <<initial>>
MCRealm == {athena, andrew}
MCHome == athena
MCService == Ticket
MCDoes == (t1 :> {"mk_req", "klist"}) @@ (t2 :> {"get_in_tkt", "dest_tkt"})
MCDoesAll == (t1 :> {"mk_req"})
====
