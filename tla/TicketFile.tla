---- MODULE TicketFile ----
(***************************************************************************)
(* The Kerberos 4 ticket file (krb4/krbv4/krbdll: tf_util.c, get_cred.c,    *)
(* gettfnam.c, savecred.c, in_tkt.c, dest_tkt.c), which is a cache of the   *)
(* credentials cache server.  A thread has a cursor in it (THREAD_DATA): a  *)
(* reference to the cache and an iterator over its credentials.  Every call *)
(* to the server is a step, and the threads of all programs interleave.     *)
(*                                                                         *)
(* `stack[t]' is the call stack of thread t, innermost first: a frame has   *)
(* the procedure, the place in it, the service asked for, a pointer of its  *)
(* own, and what else it keeps.  `ret[t]' is what the last call returned.   *)
(* A ticket is told by its service (a realm stands for krbtgt of that      *)
(* realm), the realm and client it is filed under, and the client the KDC   *)
(* issued it to; `old' tickets have expired.                                *)
(***************************************************************************)
EXTENDS CCache2Compat

CONSTANTS
  Thread,
  File,          \* TKT_FILE
  Realm, Home,   \* realms, and the one the principals are in
  Host,          \* services other than krbtgt
  NoRealm,       \* what is in a buffer nobody filled
  MaxDepth       \* bound: calls within calls

SName == Realm \cup Host \cup {NoRealm}
Ticket == [name : SName, realm : Realm, client : Principal, issued : Principal, old : BOOLEAN]

ASSUME FileAssumption ==
  /\ File \in Name /\ Home \in Realm /\ NoRealm \notin Realm
  /\ Realm \cap Host = {} /\ Service = Ticket
  /\ MaxDepth \in Nat \ {0}

VARIABLES
  lib, cursor, stack, ret,
  there          \* history: what a search was to find at every moment of it

file == <<lib, cursor, stack, ret>>

Frame(proc, name, realm, x) ==
  [proc |-> proc, at |-> "start", name |-> name, realm |-> realm, ptr |-> 0, x |-> x]
NoCursor == [ref |-> 0, it |-> 0]
Nothing == [code |-> "", val |-> NoRealm]
Result4(code, val) == [code |-> code, val |-> val]

Busy(t) == stack[t] # <<>>
Top(t) == Head(stack[t])
At(t, procs, at) == Busy(t) /\ Top(t).proc \in procs /\ Top(t).at = at
Becomes(t, f) == stack' = [stack EXCEPT ![t] = <<f>> \o Tail(@)]
Goto(t, at) == Becomes(t, [Top(t) EXCEPT !.at = at])
With(t, at, x) == Becomes(t, [Top(t) EXCEPT !.at = at, !.x = x])
Calls(t, f, at) ==
  /\ Len(stack[t]) < MaxDepth
  /\ stack' = [stack EXCEPT ![t] = <<f, [Head(@) EXCEPT !.at = at]>> \o Tail(@)]
Returns(t, code, val) ==
  /\ stack' = [stack EXCEPT ![t] = Tail(@)]
  /\ ret' = [ret EXCEPT ![t] = Result4(code, val)]
Took(t) == ret' = [ret EXCEPT ![t] = Nothing]
Keeps == UNCHANGED <<lib, cursor>>
Lib(l) == lib' = OnData(l, Quiet(l.data))

----------------------------------------------------------------------------
(* tf_util.c                                                               *)

(* Mutant: tf_close without tf_get_cred_end.                                *)
ClosedKeepsIterator(t) ==
  IF cursor[t].ref # 0 THEN CcClose(lib, cursor[t].ref).lib ELSE lib

(* What tf_close leaves of the server's objects.                           *)
Closed(t) ==
  LET c == cursor[t]
      l == IF c.ref # 0 /\ c.it # 0 THEN CcCredsEnd(lib, c.it).lib ELSE lib
  IN  IF c.ref # 0 THEN CcClose(l, c.ref).lib ELSE l
Shut(t) == Lib(Closed(t)) /\ cursor' = [cursor EXCEPT ![t] = NoCursor]

(* The end of a procedure with the cursor open: krb_get_cred may go on to    *)
(* ask the user, the others return.  `klist' is not_an_API_LeashKRB4GetTickets *)
(* (lshfunc.c), whose first steps are in Krb4Client.                        *)
Opened == {"get_cred", "fullname", "klist", "save"}
Reads == Opened \ {"save"}
Stops(t, code, val) == With(t, "close", [Top(t).x EXCEPT !.res = Result4(code, val)])

tf_init(t) ==
  /\ At(t, Opened, "start") /\ Room(lib)
  /\ LET r == CcOpen(Closed(t), File, "v4")
     IN  IF r.err = "CC_NOERROR"
         THEN /\ Lib(r.lib) /\ cursor' = [cursor EXCEPT ![t] = [ref |-> r.ptr, it |-> 0]]
              /\ Goto(t, "name")
         ELSE Shut(t) /\ Stops(t, "NO_TKT_FIL", NoRealm)
  /\ UNCHANGED ret

(* tf_get_pname and tf_get_pinst, of which only the failure is felt: the     *)
(* name is overwritten by that of the ticket (cc2mit).                      *)
tf_get_pname(t) ==
  /\ At(t, Reads, "name")
  /\ IF CcGetPrincipal(lib, cursor[t].ref).err = "CC_NOERROR"
     THEN Goto(t, "next") ELSE Stops(t, "CC", NoRealm)
  /\ Keeps /\ UNCHANGED ret

tf_get_cred_begin(t) ==
  /\ At(t, Reads, "next") /\ cursor[t].it = 0 /\ Room(lib)
  /\ LET r == CcCredsBegin(lib, cursor[t].ref)
     IN  IF r.err = "CC_NOERROR"
         THEN Lib(r.lib) /\ cursor' = [cursor EXCEPT ![t].it = r.ptr] /\ UNCHANGED stack
         ELSE Keeps /\ Stops(t, "RET_NOTKT", NoRealm)
  /\ UNCHANGED ret

(* What tf_get_cred gives at the end, and for a ticket that has gone.         *)
(* krb_get_cred takes both alike; krb_get_tf_fullname calls the end a        *)
(* failure; to the listing it is success.                                  *)
EndCode(t, err) ==
  CASE err = "CC_NOTFOUND" \/ Top(t).proc = "get_cred" -> "RET_NOTKT"
    [] err # "CC_NOTFOUND" /\ Top(t).proc = "fullname" -> "KFAILURE"
    [] OTHER -> "EOF"
IterationEnds(t, r) ==
  /\ Lib(CcCredsEnd(r.lib, cursor[t].it).lib)
  /\ cursor' = [cursor EXCEPT ![t].it = 0]
  /\ Stops(t, EndCode(t, r.err), NoRealm)

(* The listing puts the ticket into its list.                              *)
Notes(t, k) == With(t, "next", [Top(t).x EXCEPT !.got = @ \cup {k}])

(* Mutant: krb_get_cred leaves its loop at the ticket of that name, expired   *)
(* or not.                                                                 *)
UsesBreaks(t, k) ==
  LET s == lib.data.cred[k].service
  IN  CASE Top(t).proc = "klist" -> Notes(t, k)
        [] Top(t).proc = "fullname" -> Stops(t, "KSUCCESS", s.realm)
        [] OTHER ->
             IF s.name = Top(t).name /\ s.realm = Top(t).realm
             THEN Stops(t, IF s.old THEN "RET_NOTKT" ELSE "KSUCCESS", [key |-> k, ticket |-> s])
             ELSE UNCHANGED stack

(* Mutant: the listing is over at the first ticket that has expired.         *)
UsesFresh(t, k) ==
  LET s == lib.data.cred[k].service
  IN  CASE Top(t).proc = "klist" ->
             IF s.old THEN Stops(t, "EOF", NoRealm)
             ELSE Notes(t, k)
        [] Top(t).proc = "fullname" -> Stops(t, "KSUCCESS", s.realm)
        [] OTHER ->
             IF s.name = Top(t).name /\ s.realm = Top(t).realm /\ ~s.old
             THEN Stops(t, "KSUCCESS", [key |-> k, ticket |-> s])
             ELSE UNCHANGED stack

(* What a caller does with ticket k: the listing notes it, and               *)
(* krb_get_tf_fullname takes the realm of the first; krb_get_cred looks      *)
(* whether it is the one.                                                  *)
Uses(t, k) ==
  LET s == lib.data.cred[k].service
  IN  CASE Top(t).proc = "klist" -> Notes(t, k)
        [] Top(t).proc = "fullname" -> Stops(t, "KSUCCESS", s.realm)
        [] OTHER ->
             IF s.name = Top(t).name /\ s.realm = Top(t).realm /\ ~s.old
             THEN Stops(t, "KSUCCESS", [key |-> k, ticket |-> s])
             ELSE UNCHANGED stack

tf_get_cred(t) ==
  /\ At(t, Reads, "next") /\ cursor[t].it # 0
  /\ LET r == CcCredsNext(lib, cursor[t].it)
     IN  IF r.err = "CC_NOERROR" THEN Lib(r.lib) /\ UNCHANGED cursor /\ Uses(t, r.cred)
         ELSE IterationEnds(t, r)
  /\ UNCHANGED ret

(* tf_save_cred.  The ticket is filed under the principal of the file, and   *)
(* in the principal's realm.  A store that fails closes the file.  The       *)
(* iterator that is made and ended before it leaves nothing: making one      *)
(* fails as the store does, when the cache is gone.                         *)
SaveReads(t) ==
  /\ At(t, {"save"}, "name")
  /\ IF CcGetPrincipal(lib, cursor[t].ref).err = "CC_NOERROR"
     THEN With(t, "store", [Top(t).x EXCEPT !.label =
                              lib.data.cache[lib.heap[cursor[t].ref].id].principal["v4"]])
     ELSE Stops(t, "CC", NoRealm)
  /\ Keeps /\ UNCHANGED ret

(* Mutant: realm and principal change places.                               *)
FiledSwapped(t) ==
  [version |-> "v4",
   service |-> [name |-> Top(t).name, realm |-> Top(t).x.label, client |-> Home,
                issued |-> Top(t).x.issued, old |-> FALSE]]
Filed(t) ==
  [version |-> "v4",
   service |-> [name |-> Top(t).name, realm |-> Home, client |-> Top(t).x.label,
                issued |-> Top(t).x.issued, old |-> FALSE]]
tf_save_cred(t) ==
  /\ At(t, {"save"}, "store") /\ RoomForCred(lib.data)
  /\ LET r == CcStore(lib, cursor[t].ref, Filed(t))
     IN  IF r.err = "CC_NOERROR"
         THEN Lib(r.lib) /\ UNCHANGED cursor /\ Stops(t, "KSUCCESS", NoRealm)
         ELSE Shut(t) /\ Stops(t, "KFAILURE", NoRealm)
  /\ UNCHANGED ret

(* tf_close at the end of krb_get_cred, krb_get_tf_fullname and              *)
(* krb_save_credentials.  A program that looks for a krbtgt in vain asks     *)
(* the user, once.                                                         *)
MayPrompt(t) ==
  LET f == Top(t) IN f.proc = "get_cred" /\ f.name \in Realm \cup {NoRealm} /\ f.x.prompt
tf_close(t) ==
  /\ At(t, Opened, "close")
  /\ Shut(t)
  /\ LET res == Top(t).x.res
     IN  IF MayPrompt(t) /\ res.code # "KSUCCESS"
         THEN Goto(t, "prompt") /\ UNCHANGED ret
         ELSE Returns(t, res.code, res.val)

----------------------------------------------------------------------------
(* in_tkt and dest_tkt                                                     *)

(* rcc_destroy hides the failure of cc_destroy and closes the handle        *)
(* (procs.cxx:325); the object of a reference that failed is left behind.   *)
Destroyed(l, q) ==
  LET r == CcDestroy(l, q)
  IN  IF r.err = "CC_NOERROR" THEN r.lib ELSE Free(l, q)

OpensFile(t) ==
  /\ At(t, {"in_tkt", "dest_tkt"}, "start") /\ Room(lib)
  /\ LET r == CcOpen(lib, File, "v4")
     IN  IF r.err = "CC_NOERROR"
         THEN Lib(r.lib) /\ Becomes(t, [Top(t) EXCEPT !.at = "destroy", !.ptr = r.ptr]) /\ UNCHANGED ret
         ELSE /\ UNCHANGED lib
              /\ IF Top(t).proc = "in_tkt" THEN Goto(t, "create") /\ UNCHANGED ret
                 ELSE Returns(t, "RET_TKFIL", NoRealm)
  /\ UNCHANGED cursor
DestroysFile(t) ==
  /\ At(t, {"in_tkt", "dest_tkt"}, "destroy")
  /\ Lib(Destroyed(lib, Top(t).ptr))
  /\ IF Top(t).proc = "in_tkt"
     THEN Becomes(t, [Top(t) EXCEPT !.at = "create", !.ptr = 0]) /\ UNCHANGED ret
     ELSE Returns(t, "RET_OK", NoRealm)
  /\ UNCHANGED cursor
CreatesFile(t) ==
  /\ At(t, {"in_tkt"}, "create") /\ RoomForCache(lib.data) /\ Room(lib)
  /\ LET r == CcCreate(lib, File, "v4", Top(t).name)
     IN  Lib(r.lib) /\ Becomes(t, [Top(t) EXCEPT !.at = "close", !.ptr = r.ptr])
  /\ UNCHANGED <<cursor, ret>>
ClosesFile(t) ==
  /\ At(t, {"in_tkt"}, "close")
  /\ Lib(CcClose(lib, Top(t).ptr).lib)
  /\ Returns(t, "KSUCCESS", NoRealm) /\ UNCHANGED cursor

FileStep(t) ==
  \/ tf_init(t) \/ tf_get_pname(t) \/ tf_get_cred_begin(t) \/ tf_get_cred(t)
  \/ SaveReads(t) \/ tf_save_cred(t) \/ tf_close(t)
  \/ OpensFile(t) \/ DestroysFile(t) \/ CreatesFile(t) \/ ClosesFile(t)

(* A ticket of the file expires.                                           *)
InFile(l) == UNION { ToSet(l.data.cache[c].creds) : c \in Named(l.data, File) }
Expires ==
  /\ \E k \in InFile(lib) :
       /\ ~lib.data.cred[k].service.old
       /\ lib' = [lib EXCEPT !.data.cred[k].service.old = TRUE]
  /\ UNCHANGED <<cursor, stack, ret>>

----------------------------------------------------------------------------
FileInit ==
  /\ cursor = [t \in Thread |-> NoCursor]
  /\ stack = [t \in Thread |-> <<>>]
  /\ ret = [t \in Thread |-> Nothing]
  /\ there = [t \in Thread |-> {}]

(* The tickets that a search of thread t is for and that are in the file: a  *)
(* listing is for all of them.                                             *)
Searches(fs) == fs # <<>> /\ Head(fs).proc \in {"get_cred", "klist"}
Sought(l, f) ==
  { k \in InFile(l) :
      LET s == l.data.cred[k].service
      IN  f.proc = "klist" \/ (s.name = f.name /\ s.realm = f.realm /\ ~s.old) }
Watches ==
  there' = [t \in Thread |->
    CASE ~Searches(stack'[t]) -> {}
      [] Searches(stack'[t]) /\ Head(stack'[t]).at = "start" -> Sought(lib', Head(stack'[t]))
      [] OTHER -> there[t] \cap Sought(lib', Head(stack'[t]))]

----------------------------------------------------------------------------
\* Every object the server keeps for a thread is in its cursor or in the frame
\* that made it, each once; so no way out of a call, a failing one or one after
\* the file was destroyed under it, leaves one open, and none is open while the
\* thread waits for the user or for a KDC, or has returned.
Holds(t) ==
  <<cursor[t].ref, cursor[t].it>> \o [i \in DOMAIN stack[t] |-> stack[t][i].ptr]
Waits(t) == ~Busy(t) \/ Top(t).at \in {"prompt", "wait"}
NothingLeftOpen ==
  /\ \A q \in DOMAIN lib.heap :
       Cardinality({ u \in (Thread \X (1 .. MaxDepth + 2)) :
                       u[2] \in DOMAIN Holds(u[1]) /\ Holds(u[1])[u[2]] = q }) = 1
  /\ \A t \in Thread : ToSet(Holds(t)) \subseteq DOMAIN lib.heap \cup {0}
  /\ \A t \in Thread : Waits(t) => ToSet(Holds(t)) \subseteq {0}

\* A search that fails missed nothing: no ticket that it was for was in the
\* file, and good, from its start to its end, however tickets and the file
\* itself came and went.
SearchFinds ==
  \A t \in Thread :
    At(t, {"get_cred"}, "close") /\ Top(t).x.res.code # "KSUCCESS" => there[t] = {}

\* A listing that ends with the end of the file has every ticket, expired ones
\* as well, that was there from its start to its end, whatever other programs
\* saved and whether or not they made the file anew meanwhile.
ListingIsWhole ==
  \A t \in Thread :
    At(t, {"klist"}, "close") /\ Top(t).x.res.code = "EOF" => there[t] \subseteq Top(t).x.got
====
