---- MODULE Krb4Client ----
(***************************************************************************)
(* Getting Kerberos 4 tickets (krb4/krbv4/krbdll: mk_req.c, getadtkt.c,     *)
(* k_gettkt.c, send_kdc.c) through the ticket file.  krb_mk_req looks for a *)
(* ticket and gets one if there is none; get_ad_tkt gets a ticket with the  *)
(* krbtgt of the service's realm, which it gets the same way; every look at *)
(* the file may find what another program has put there, or taken.         *)
(* krb_get_cred asks the user to log in when it misses a krbtgt.  A request *)
(* goes to the KDCs of a realm over UDP: packets are lost, late, doubled    *)
(* or somebody else's.                                                     *)
(***************************************************************************)
EXTENDS TicketFile

CONSTANTS
  Kdcs,       \* KDCs that the configuration lists for a realm
  Retry,      \* CLIENT_KRB_RETRY
  MaxInbox,   \* bound: packets waiting at a socket
  Owner,      \* who may have logged in before
  MaxCalls,   \* bound: calls and logins started
  Does        \* bound: the procedures that each program calls

ASSUME ClientAssumption ==
  /\ Kdcs \in Nat /\ Retry \in Nat /\ MaxInbox \in Nat \ {0} /\ MaxCalls \in Nat
  /\ Owner \subseteq Principal
  /\ Does \in [Thread -> SUBSET {"mk_req", "get_in_tkt", "dest_tkt", "klist"}]

VARIABLES inbox, calls

net  == <<inbox, calls>>
vars == <<file, there, net>>

(* Resumes: goes on with what the callee returned.                         *)
Resumes(t, proc, at) == At(t, {proc}, at) /\ Keeps /\ UNCHANGED net
Enters(t, f, at) == Calls(t, f, at) /\ Took(t)
Passes(t) == Returns(t, ret[t].code, ret[t].val)
Code(t) == ret[t].code

NoX == [res |-> Nothing]
GetCred(name, realm)  == Frame("get_cred", name, realm, [res |-> Nothing, prompt |-> TRUE])
Fullname              == Frame("fullname", NoRealm, NoRealm, NoX)
MkReq(name, realm)    == Frame("mk_req", name, realm, NoX)
GetAdTkt(name, realm) == Frame("get_ad_tkt", name, realm, [l |-> NoRealm, cr |-> Nothing])
Save(name, realm, p)  == Frame("save", name, realm, [res |-> Nothing, label |-> p, issued |-> p])
Exchange(name, realm, req) ==
  Frame("exchange", name, realm, [req |-> req, round |-> 0, host |-> 0, found |-> {}])
----------------------------------------------------------------------------
(* send_kdc.c                                                              *)

(* Round 0 of send_to_kdc goes through the configured KDCs and asks those   *)
(* whose name resolves; the later rounds go through these again.  A host    *)
(* that sendto does not reach is a wait that nothing ends but the timeout. *)
NextHost(t) ==
  LET x == Top(t).x
  IN  /\ At(t, {"exchange"}, "start")
      /\ IF x.round = 0
         THEN /\ x.host < Kdcs
              /\ \/ With(t, "wait", [x EXCEPT !.host = @ + 1, !.found = @ \cup {x.host + 1}])
                 \/ With(t, "start", [x EXCEPT !.host = @ + 1])
         ELSE \E h \in x.found :
                /\ h > x.host /\ \A g \in x.found : g > x.host => h <= g
                /\ With(t, "wait", [x EXCEPT !.host = h])
      /\ Keeps /\ UNCHANGED <<ret, net>>

RoundOver(t) ==
  LET x == Top(t).x
  IN  /\ At(t, {"exchange"}, "start")
      /\ IF x.round = 0 THEN x.host = Kdcs ELSE \A h \in x.found : h <= x.host

Closes(t) == inbox' = [inbox EXCEPT ![t] = <<>>] /\ UNCHANGED calls

NextRound(t) ==
  /\ RoundOver(t) /\ Top(t).x.found # {} /\ Top(t).x.round < Retry
  /\ With(t, "start", [Top(t).x EXCEPT !.round = @ + 1, !.host = 0])
  /\ Keeps /\ UNCHANGED <<ret, net>>

NoAnswer(t) ==
  /\ RoundOver(t)
  /\ \/ Top(t).x.found = {} /\ Returns(t, "SKDC_CANT", NoRealm)
     \/ Top(t).x.found # {} /\ Top(t).x.round = Retry /\ Returns(t, "SKDC_RETRY", NoRealm)
  /\ Keeps /\ Closes(t)

Timeout(t) ==
  /\ At(t, {"exchange"}, "wait") /\ inbox[t] = <<>>
  /\ Goto(t, "start") /\ Keeps /\ UNCHANGED <<ret, net>>

(* What a KDC grants: a name that it knows, and a client that owns the      *)
(* ticket of the request.                                                  *)
Grants(f) == f.name # NoRealm /\ f.x.req.ticket.client = f.x.req.ticket.issued

(* Mutant: the wait goes on after a stray packet.                           *)
ReceiveWaitsOn(t) ==
  /\ At(t, {"exchange"}, "wait") /\ inbox[t] # <<>>
  /\ CASE Head(inbox[t]) = "stray" ->
            inbox' = [inbox EXCEPT ![t] = Tail(@)] /\ UNCHANGED <<stack, calls, ret>>
       [] Head(inbox[t]) = "granted" -> Returns(t, "KSUCCESS", Top(t).x.req) /\ Closes(t)
       [] OTHER -> Returns(t, "INTK_ERR", NoRealm) /\ Closes(t)
  /\ Keeps

(* The first packet from the address of any KDC found ends the exchange;    *)
(* one from elsewhere ends the wait for the host asked last.               *)
Receive(t) ==
  /\ At(t, {"exchange"}, "wait") /\ inbox[t] # <<>>
  /\ CASE Head(inbox[t]) = "stray" ->
            Goto(t, "start") /\ inbox' = [inbox EXCEPT ![t] = Tail(@)] /\ UNCHANGED <<calls, ret>>
       [] Head(inbox[t]) = "granted" -> Returns(t, "KSUCCESS", Top(t).x.req) /\ Closes(t)
       [] OTHER -> Returns(t, "INTK_ERR", NoRealm) /\ Closes(t)
  /\ Keeps

Packet == {"granted", "refused", "stray"}

(* The network: answers of hosts that were asked, more than once perhaps    *)
(* and whenever they like, and strays.  Refusals, garbled answers, and      *)
(* those that a wrong clock or password spoils are all "refused".          *)
Arrives(t) ==
  /\ At(t, {"exchange"}, "wait") \/ At(t, {"exchange"}, "start")
  /\ Len(inbox[t]) < MaxInbox
  /\ \E p \in Packet :
       /\ p # "stray" => Top(t).x.found # {}
       /\ p = "granted" => Grants(Top(t))
       /\ inbox' = [inbox EXCEPT ![t] = Append(@, p)]
  /\ UNCHANGED <<file, calls>>
----------------------------------------------------------------------------
(* mk_req.c                                                                *)

mk_req(t) ==
  LET f == Top(t)
  IN  \/ Resumes(t, "mk_req", "start") /\ Enters(t, Fullname, "realm")
      \/ /\ Resumes(t, "mk_req", "realm")
         /\ CASE Code(t) = "KSUCCESS" -> Enters(t, GetCred(f.name, f.realm), "first")
              [] Code(t) = "NO_TKT_FIL" -> Enters(t, GetAdTkt(f.name, f.realm), "got")
              [] OTHER -> Passes(t)
      \/ /\ Resumes(t, "mk_req", "first")
         /\ IF Code(t) = "RET_NOTKT" THEN Enters(t, GetAdTkt(f.name, f.realm), "got") ELSE Passes(t)
      \/ /\ Resumes(t, "mk_req", "got")
         /\ IF Code(t) = "KSUCCESS" THEN Enters(t, GetCred(f.name, f.realm), "again") ELSE Passes(t)
      \/ Resumes(t, "mk_req", "again") /\ Passes(t)
----------------------------------------------------------------------------
(* getadtkt.c                                                              *)

LooksForTgt(t, l, at) ==
  /\ Len(stack[t]) < MaxDepth
  /\ stack' = [stack EXCEPT ![t] =
       <<GetCred(Top(t).realm, l), [Top(t) EXCEPT !.at = at, !.x.l = l]>> \o Tail(@)]
  /\ Took(t)

(* The realm of the file; without a ticket, after asking the user to log    *)
(* in.  What the second look says is not tested: lrealm may be unset.       *)
FindsRealm(t) ==
  LET f == Top(t)
  IN  \/ Resumes(t, "get_ad_tkt", "start") /\ Enters(t, Fullname, "realm")
      \/ /\ Resumes(t, "get_ad_tkt", "realm")
         /\ CASE Code(t) = "KSUCCESS" -> LooksForTgt(t, ret[t].val, "tgt")
              [] Code(t) \in {"RET_NOTKT", "NO_TKT_FIL"} -> Enters(t, GetCred(f.realm, f.realm), "login")
              [] OTHER -> Passes(t)
      \/ /\ Resumes(t, "get_ad_tkt", "login")
         /\ IF Code(t) = "KSUCCESS" THEN Enters(t, Fullname, "realm2") ELSE Passes(t)
      \/ Resumes(t, "get_ad_tkt", "realm2") /\ LooksForTgt(t, ret[t].val, "tgt")

(* The session key that the answer will be decrypted with is that of the    *)
(* ticket found here; krb_mk_req looks for the ticket again.                *)
HasTgt(t) ==
  /\ Len(stack[t]) < MaxDepth
  /\ stack' = [stack EXCEPT ![t] =
       <<MkReq(Top(t).realm, Top(t).x.l), [Top(t) EXCEPT !.at = "request", !.x.cr = ret[t].val]>>
         \o Tail(@)]
  /\ Took(t)

(* Mutant: the test that realm and lrealm are the same is missing.          *)
GetsTgtHopes(t) ==
  LET f == Top(t)
      l == f.x.l
  IN  \/ /\ Resumes(t, "get_ad_tkt", "tgt")
         /\ IF Code(t) = "KSUCCESS" THEN HasTgt(t) ELSE Enters(t, GetAdTkt(f.realm, l), "cross")
      \/ /\ Resumes(t, "get_ad_tkt", "cross")
         /\ IF Code(t) = "KSUCCESS" THEN LooksForTgt(t, l, "tgt2") ELSE Passes(t)
      \/ /\ Resumes(t, "get_ad_tkt", "tgt2")
         /\ IF Code(t) = "KSUCCESS" THEN HasTgt(t) ELSE Passes(t)

GetsTgt(t) ==
  LET f == Top(t)
      l == f.x.l
  IN  \/ /\ Resumes(t, "get_ad_tkt", "tgt")
         /\ CASE Code(t) = "KSUCCESS" -> HasTgt(t)
              [] Code(t) # "KSUCCESS" /\ f.realm = l -> Returns(t, "AD_NOTGT", NoRealm)
              [] OTHER -> Enters(t, GetAdTkt(f.realm, l), "cross")
      \/ /\ Resumes(t, "get_ad_tkt", "cross")
         /\ IF Code(t) = "KSUCCESS" THEN LooksForTgt(t, l, "tgt2") ELSE Passes(t)
      \/ /\ Resumes(t, "get_ad_tkt", "tgt2")
         /\ IF Code(t) = "KSUCCESS" THEN HasTgt(t) ELSE Passes(t)

(* An answer to a request made with another ticket does not decrypt.        *)
AsksKdc(t) ==
  LET f == Top(t)
  IN  \/ /\ Resumes(t, "get_ad_tkt", "request")
         /\ IF Code(t) = "KSUCCESS" THEN Enters(t, Exchange(f.name, f.realm, ret[t].val), "answer")
            ELSE Returns(t, "AD_NOTGT", NoRealm)
      \/ /\ Resumes(t, "get_ad_tkt", "answer")
         /\ CASE Code(t) # "KSUCCESS" -> Passes(t)
              [] Code(t) = "KSUCCESS" /\ ret[t].val # f.x.cr -> Returns(t, "INTK_ERR", NoRealm)
              [] OTHER -> Enters(t, Save(f.name, f.realm, f.x.cr.ticket.issued), "saved")
      \/ Resumes(t, "get_ad_tkt", "saved") /\ Passes(t)
----------------------------------------------------------------------------
(* k_gettkt.c: the file is made anew before the ticket is saved.           *)

Login(p) == Frame("get_in_tkt", p, Home, NoX)
Asked(p) == [key |-> 0, ticket |-> [name |-> Home, realm |-> Home, client |-> p, issued |-> p, old |-> FALSE]]
krb_get_in_tkt(t) ==
  LET p == Top(t).name
  IN  \/ Resumes(t, "get_in_tkt", "start") /\ Enters(t, Exchange(Home, Home, Asked(p)), "answer")
      \/ /\ Resumes(t, "get_in_tkt", "answer")
         /\ IF Code(t) = "KSUCCESS" THEN Enters(t, Frame("in_tkt", p, Home, NoX), "file") ELSE Passes(t)
      \/ Resumes(t, "get_in_tkt", "file") /\ Enters(t, Save(Home, Home, p), "saved")
      \/ Resumes(t, "get_in_tkt", "saved") /\ Passes(t)

(* The dialog of krb_get_cred: the user logs in, tries again, or gives up.  *)
GivesUp(t) ==
  /\ At(t, {"get_cred"}, "prompt")
  /\ Returns(t, Top(t).x.res.code, NoRealm) /\ Keeps /\ UNCHANGED net
LogsIn(t) ==
  /\ At(t, {"get_cred"}, "prompt") /\ calls < MaxCalls
  /\ \E p \in Principal : Enters(t, Login(p), "login")
  /\ calls' = calls + 1 /\ Keeps /\ UNCHANGED inbox
LoggedIn(t) ==
  /\ Resumes(t, "get_cred", "login")
  /\ IF Code(t) = "KSUCCESS" THEN With(t, "start", [res |-> Nothing, prompt |-> FALSE])
     ELSE Goto(t, "prompt")
  /\ Took(t)

(* lshfunc.c: a listing first opens and closes the file, to see that there is *)
(* one, and then looks for its realm.  That there is none is no error.      *)
Klist == [Frame("klist", NoRealm, NoRealm, [res |-> Nothing, got |-> {}]) EXCEPT !.at = "probe"]
ListingProbes(t) ==
  /\ At(t, {"klist"}, "probe") /\ Room(lib)
  /\ LET r == CcOpen(Closed(t), File, "v4")
     IN  IF r.err = "CC_NOERROR"
         THEN /\ Lib(r.lib) /\ cursor' = [cursor EXCEPT ![t] = [ref |-> r.ptr, it |-> 0]]
              /\ Goto(t, "shut") /\ UNCHANGED ret
         ELSE Shut(t) /\ Returns(t, "KSUCCESS", NoRealm)
  /\ UNCHANGED net
ListingShuts(t) ==
  /\ At(t, {"klist"}, "shut")
  /\ Shut(t) /\ Enters(t, Fullname, "realm") /\ UNCHANGED net
ListingOfRealm(t) ==
  /\ Resumes(t, "klist", "realm")
  /\ CASE Code(t) = "KSUCCESS" -> Goto(t, "start") /\ Took(t)
       [] Code(t) = "NO_TKT_FIL" -> Returns(t, "KSUCCESS", NoRealm)
       [] OTHER -> Passes(t)

Starts(t) ==
  /\ ~Busy(t) /\ calls < MaxCalls
  /\ \E f \in { Frame("dest_tkt", NoRealm, NoRealm, NoX), Klist } \cup { Login(p) : p \in Principal }
              \cup UNION { { MkReq(s, r) : s \in Host } : r \in Realm } :
       f.proc \in Does[t] /\ stack' = [stack EXCEPT ![t] = <<f>>]
  /\ Took(t) /\ Keeps /\ calls' = calls + 1 /\ UNCHANGED inbox
----------------------------------------------------------------------------
Step(t) ==
  \/ FileStep(t) /\ UNCHANGED net
  \/ NextHost(t) \/ NextRound(t) \/ NoAnswer(t) \/ Timeout(t) \/ Receive(t)
  \/ mk_req(t) \/ FindsRealm(t) \/ GetsTgt(t) \/ AsksKdc(t)
  \/ krb_get_in_tkt(t) \/ LoggedIn(t)
  \/ ListingProbes(t) \/ ListingShuts(t) \/ ListingOfRealm(t)

(* Between two calls to the server, waits and dialogs a thread looks at       *)
(* nothing that is shared: those steps are taken without the others.        *)
Apart(t) ==
  /\ Busy(t)
  /\ \/ Top(t).proc \in {"mk_req", "get_ad_tkt", "get_in_tkt"}
     \/ At(t, {"get_cred"}, "login") \/ At(t, {"klist"}, "realm") \/ RoundOver(t)
Turn(t) == \A s \in Thread \ {t} : ~Apart(s)

Next ==
  /\ \/ \E t \in Thread :
          Turn(t) /\ (Step(t) \/ GivesUp(t) \/ LogsIn(t) \/ Starts(t) \/ Arrives(t))
     \/ (\A t \in Thread : ~Apart(t)) /\ Expires /\ UNCHANGED net
  /\ Watches

(* No file, or that of a principal who has just logged in.                  *)
LoggedInLib(p) ==
  LET made == CreateCCache(NoLib.data, File, "v4", p)
      tgt  == [version |-> "v4", service |-> Asked(p).ticket]
  IN  OnData(NoLib, Quiet(StoreCredentials(made.d, made.id, tgt)))
Init ==
  /\ FileInit
  /\ lib \in {NoLib} \cup { LoggedInLib(p) : p \in Owner }
  /\ inbox = [t \in Thread |-> <<>>]
  /\ calls = 0

(* Calls to the server and timeouts end; nothing is asked of the user or of *)
(* the network.                                                            *)
Spec == Init /\ [][Next]_vars /\ \A t \in Thread : WF_vars(Turn(t) /\ Step(t) /\ Watches)
----------------------------------------------------------------------------
Procs == {"get_cred", "fullname", "save", "in_tkt", "dest_tkt", "exchange", "mk_req",
          "get_ad_tkt", "get_in_tkt", "klist"}

\* Type invariant.  What krb_mk_req and get_ad_tkt hand on to each other is what
\* the next reader takes it for, in every order in which the file loses tickets
\* and gets them: a request is made with a ticket, never with what a failed
\* search left; what is saved is for a service, under a principal; and so the
\* file has tickets only.
Krb4TypeOK ==
  /\ cursor \in [Thread -> [ref : Nat, it : Nat]]
  /\ \A t \in Thread :
       /\ \A i \in DOMAIN stack[t] :
            LET f == stack[t][i]
            IN  /\ f.proc \in Procs /\ f.ptr \in Nat
                /\ f.proc = "exchange" => f.x.req.ticket \in Ticket
                /\ f.proc = "save" => f.name \in SName /\ {f.x.label, f.x.issued} \subseteq Principal
       /\ \A i \in DOMAIN inbox[t] : inbox[t][i] \in Packet
  /\ \A k \in DOMAIN lib.data.cred : lib.data.cred[k].service \in Ticket
  /\ calls \in 0 .. MaxCalls

\* Calls nest to a depth that the bounds of the run fix, although krb_mk_req and
\* get_ad_tkt call each other (getadtkt.c:155, 176): they go one deeper each time
\* the file loses a krbtgt and gets it back between two looks, which takes calls
\* of others, or of the user.
CallsNestSoFar == \A t \in Thread : Len(stack[t]) < MaxDepth

\* A call comes to its end, or to the user: the searches and requests nested in
\* it end although other programs change the file under them, KDCs are silent,
\* and packets of others keep coming.
CallsEnd == \A t \in Thread : Busy(t) ~> (~Busy(t) \/ Top(t).at = "prompt")

\* krb_mk_req finds the ticket that get_ad_tkt has just saved: in a file that
\* nobody else touches, its last search ends in success while a good ticket of
\* the service is there (tf_util.c:507, "The "service", "instance", and "realm"
\* arguments specify the server's name").
SavedIsFound ==
  \A t \in Thread :
    /\ At(t, {"get_cred"}, "close") /\ stack[t][2].at = "again"
    /\ \E k \in InFile(lib) : lib.data.cred[k].service.name = Top(t).name /\ ~lib.data.cred[k].service.old
    => Top(t).x.res.code = "KSUCCESS"
====
