---------------------------- MODULE CCacheServer ----------------------------
(***************************************************************************)
(* The RPC server of the credentials cache, krbcc/src/exe/procs.cxx and    *)
(* rundown.cxx: its clients hold handles, its four handle maps turn them   *)
(* into objects of the library, and every handler runs under api_lock.     *)
(* When a client goes, the RPC runtime runs down the handles it still      *)
(* held, one at a time, between the calls of the others.                   *)
(*                                                                         *)
(* The maps are used through what HandleTable promises (HandleMap          *)
(* implements it): a new handle is one nobody holds, or CC_NOMEM.  The     *)
(* runtime checks that a client passes its own handles; the null handle is *)
(* all else that reaches a handler, and only one that closes.              *)
(***************************************************************************)
EXTENDS CCache2Compat

CONSTANTS
  Client,
  Handle    \* bound: the handles of a map

Kind   == { "context", "ccache", "ncs", "creds" }

NoServer == [lib |-> NoLib, table |-> [k \in Kind |-> [h \in {} |-> 0]]]

Answer(s, err) == [srv |-> s, err |-> err, opened |-> FALSE]

Enter(s, kind, h, q) ==
  [s EXCEPT !.table[kind] = [x \in DOMAIN @ \cup {h} |-> IF x = h THEN q ELSE @[x]]]
Leave(s, kind, h) ==
  [s EXCEPT !.table[kind] = [x \in DOMAIN @ \ {h} |-> @[x]]]

(* An object that no handle leads to any more.                             *)
Lose(l, q) == [Free(l, q) EXCEPT !.leaked = TRUE]

(* Mutant: the handle of a failed call stays open, as in a handler without *)
(* the `if (retval) close'.                                                *)
OpensKeepsHandle(s, kind, h, r) ==
  [srv |-> Enter([s EXCEPT !.lib = r.lib], kind, h, IF "ptr" \in DOMAIN r THEN r.ptr ELSE 0),
   err |-> r.err, opened |-> r.err = "CC_NOERROR"]

(* Mutant: the out variable is stored whatever the result.                 *)
OpensStoresNull(s, kind, h, r) ==
  LET q == IF "ptr" \in DOMAIN r THEN r.ptr ELSE 0
  IN  [srv |-> Enter([s EXCEPT !.lib = r.lib], kind, h, q), err |-> r.err, opened |-> TRUE]

(* The handlers that give out a handle: create it, call the library, and   *)
(* store the object under it or, the call having failed, close it.  The    *)
(* object that a failed call left in the out variable is forgotten.        *)
Opens(s, kind, h, r) ==
  CASE r.err = "CC_NOERROR" ->
         [srv |-> Enter([s EXCEPT !.lib = r.lib], kind, h, r.ptr), err |-> r.err, opened |-> TRUE]
    [] r.err # "CC_NOERROR" /\ "ptr" \in DOMAIN r ->
         Answer([s EXCEPT !.lib = Lose(r.lib, r.ptr)], r.err)
    [] OTHER -> Answer([s EXCEPT !.lib = r.lib], r.err)

(* Mutant: the handle is closed and the library not called.                *)
ClosesHandleOnly(s, kind, h, r) == Answer(Leave(s, kind, h), "CC_NOERROR")

(* The handlers that take a handle back: `cc_int32 retval' inside the try  *)
(* hides the result, and the handle is closed whatever it was.             *)
Closes(s, kind, h, r) ==
  LET q == s.table[kind][h]
      l == IF q \in DOMAIN r.lib.heap THEN Lose(r.lib, q) ELSE r.lib
  IN  Answer(Leave([s EXCEPT !.lib = l], kind, h), "CC_NOERROR")

Works(s, r) == Answer([s EXCEPT !.lib = r.lib], r.err)
----------------------------------------------------------------------------
VARIABLES
  srv,      \* [lib, table]
  owns,     \* the handles the RPC runtime keeps for each client
  gone,     \* clients whose connection broke
  stuck     \* a call is in a loop it will not leave, with api_lock

vars == <<srv, owns, gone, stuck>>

Init ==
  /\ srv = NoServer
  /\ owns = [c \in Client |-> {}]
  /\ gone = {}
  /\ stuck = FALSE

Now == [srv EXCEPT !.lib.data = Quiet(@)]
Held(c, kind) == { h \in Handle : <<kind, h>> \in owns[c] }
Object(kind, h) == srv.table[kind][h]

Calls(c) == c \notin gone /\ ~stuck /\ UNCHANGED <<gone, stuck>>

(* A handler of kind `kind' that ends as r says, on a free handle h, or    *)
(* with CC_NOMEM because no handle could be made.                          *)
GivesHandle(c, kind, r) ==
  /\ Calls(c)
  /\ Room(srv.lib)
  /\ \/ \E h \in Handle \ DOMAIN srv.table[kind] :
          LET a == Opens(Now, kind, h, r)
          IN  /\ srv' = a.srv
              /\ owns' = IF a.opened THEN [owns EXCEPT ![c] = @ \cup {<<kind, h>>}]
                         ELSE owns
     \/ srv' = Now /\ UNCHANGED owns

Takes(c, kind, h, r) ==
  /\ Calls(c)
  /\ srv' = Closes(Now, kind, h, r).srv
  /\ owns' = [owns EXCEPT ![c] = @ \ {<<kind, h>>}]

Changes(c, r) == Calls(c) /\ srv' = Works(Now, r).srv /\ UNCHANGED owns

L == Now.lib

rcc_initialize(c) == GivesHandle(c, "context", CcInitialize(L))
rcc_shutdown(c) ==
  \E h \in Held(c, "context") : Takes(c, "context", h, CcShutdown(L, Object("context", h)))
rcc_get_change_time(c) == Held(c, "context") # {} /\ Changes(c, CcGetChangeTime(L))

rcc_create(c) ==
  /\ Held(c, "context") # {}
  /\ RoomForCache(srv.lib.data)
  /\ \E n \in Name, v \in Version, p \in Principal :
       GivesHandle(c, "ccache", CcCreate(L, n, v, p))
rcc_open(c) ==
  /\ Held(c, "context") # {}
  /\ \E n \in Name, v \in Version : GivesHandle(c, "ccache", CcOpen(L, n, v))
rcc_close(c) ==
  \E h \in Held(c, "ccache") : Takes(c, "ccache", h, CcClose(L, Object("ccache", h)))
rcc_destroy(c) ==
  \E h \in Held(c, "ccache") : Takes(c, "ccache", h, CcDestroy(L, Object("ccache", h)))

rcc_seq_fetch_NCs_begin(c) == Held(c, "context") # {} /\ GivesHandle(c, "ncs", CcNCsBegin(L))
rcc_seq_fetch_NCs_next(c) ==
  \E h \in Held(c, "ncs") : GivesHandle(c, "ccache", CcNCsNext(L, Object("ncs", h)))
rcc_seq_fetch_NCs_end(c) ==
  \E h \in Held(c, "ncs") : Takes(c, "ncs", h, CcNCsEnd(L, Object("ncs", h)))

(* A dual cache keeps the preflight walk from ending.                      *)
rcc_get_NC_info(c) ==
  /\ Held(c, "context") # {}
  /\ c \notin gone /\ ~stuck
  /\ stuck' = (CcGetNCInfo(L).err = "never")
  /\ srv' = Now
  /\ UNCHANGED <<owns, gone>>

rcc_get(c) ==
  \E h \in Held(c, "ccache") :
    LET q == Object("ccache", h)
    IN  Changes(c, CcGetName(L, q)) \/ Changes(c, CcGetPrincipal(L, q))
                                   \/ Changes(c, CcGetCredVersion(L, q))
rcc_set_principal(c) ==
  \E h \in Held(c, "ccache"), v \in Version, p \in Principal :
    Changes(c, CcSetPrincipal(L, Object("ccache", h), v, p))
rcc_store(c) ==
  /\ RoomForCred(srv.lib.data)
  /\ \E h \in Held(c, "ccache"), new \in Creds : Changes(c, CcStore(L, Object("ccache", h), new))
rcc_remove_cred(c) ==
  \E h \in Held(c, "ccache"), old \in Creds :
    Changes(c, CcRemoveCred(L, Object("ccache", h), old))

rcc_seq_fetch_creds_begin(c) ==
  \E h \in Held(c, "ccache") : GivesHandle(c, "creds", CcCredsBegin(L, Object("ccache", h)))
rcc_seq_fetch_creds_next(c) ==
  \E h \in Held(c, "creds") : Changes(c, CcCredsNext(L, Object("creds", h)))
rcc_seq_fetch_creds_end(c) ==
  \E h \in Held(c, "creds") : Takes(c, "creds", h, CcCredsEnd(L, Object("creds", h)))

(* The client's process ends, or a new one takes its place.                *)
Break(c) ==
  /\ c \notin gone
  /\ gone' = gone \cup {c}
  /\ UNCHANGED <<srv, owns, stuck>>

Connect(c) ==
  /\ c \in gone
  /\ owns[c] = {}
  /\ gone' = gone \ {c}
  /\ UNCHANGED <<srv, owns, stuck>>

(* Mutant: a cache handle is run down by destroying the cache.             *)
RundownDestroys(kind, q) ==
  CASE kind = "context" -> CcShutdown(L, q)
    [] kind = "ccache"  -> CcDestroy(L, q)
    [] kind = "ncs"     -> CcNCsEnd(L, q)
    [] kind = "creds"   -> CcCredsEnd(L, q)

(* H..._rundown calls the handler that closes that kind of handle.         *)
RundownCall(kind, q) ==
  CASE kind = "context" -> CcShutdown(L, q)
    [] kind = "ccache"  -> CcClose(L, q)
    [] kind = "ncs"     -> CcNCsEnd(L, q)
    [] kind = "creds"   -> CcCredsEnd(L, q)

(* Mutant: contexts alone have a rundown routine.                          *)
RundownContexts(c) ==
  /\ c \in gone /\ ~stuck
  /\ \E h \in Held(c, "context") :
       /\ srv' = Closes(Now, "context", h, CcShutdown(L, Object("context", h))).srv
       /\ owns' = [owns EXCEPT ![c] = @ \ {<<"context", h>>}]
  /\ UNCHANGED <<gone, stuck>>

Rundown(c) ==
  /\ c \in gone /\ ~stuck
  /\ \E kind \in Kind : \E h \in Held(c, kind) :
       /\ srv' = Closes(Now, kind, h, RundownCall(kind, Object(kind, h))).srv
       /\ owns' = [owns EXCEPT ![c] = @ \ {<<kind, h>>}]
  /\ UNCHANGED <<gone, stuck>>

Next ==
  \E c \in Client :
    \/ rcc_initialize(c) \/ rcc_shutdown(c) \/ rcc_get_change_time(c)
    \/ rcc_create(c) \/ rcc_open(c) \/ rcc_close(c) \/ rcc_destroy(c)
    \/ rcc_seq_fetch_NCs_begin(c) \/ rcc_seq_fetch_NCs_next(c) \/ rcc_seq_fetch_NCs_end(c)
    \/ rcc_get_NC_info(c) \/ rcc_get(c) \/ rcc_set_principal(c)
    \/ rcc_store(c) \/ rcc_remove_cred(c)
    \/ rcc_seq_fetch_creds_begin(c) \/ rcc_seq_fetch_creds_next(c)
    \/ rcc_seq_fetch_creds_end(c)
    \/ Break(c) \/ Connect(c) \/ Rundown(c)

Spec == Init /\ [][Next]_vars

(* The RPC runtime gets round to every handle of a broken connection.      *)
FairSpec == Spec /\ \A c \in Client : WF_vars(Rundown(c))
----------------------------------------------------------------------------
LiveHandles(kind) == { <<kind, h>> : h \in DOMAIN srv.table[kind] }

(* Type invariant: tables of handles to pointers, handles per client.      *)
ServerTypeOK ==
  /\ \A k \in Kind : srv.table[k] \in [DOMAIN srv.table[k] -> Pointer]
                     /\ DOMAIN srv.table[k] \subseteq Handle
  /\ owns \in [Client -> SUBSET (Kind \X Handle)]
  /\ gone \subseteq Client
  /\ stuck \in BOOLEAN

(* The maps hold exactly the handles the runtime keeps for the clients,    *)
(* and no two clients have one in common: no handle is left open by a      *)
(* failed call, and none is closed under the client that holds it.         *)
HandlesHaveOwners ==
  /\ UNION { LiveHandles(k) : k \in Kind } = UNION { owns[c] : c \in Client }
  /\ \A b, c \in Client : b # c => owns[b] \cap owns[c] = {}

(* Each handle leads to an object of its kind that exists, which no other  *)
(* handle leads to, and every object but the leaked ones has a handle:     *)
(* the server neither uses nor frees an object twice, and frees all.       *)
HandlesLeadToObjects ==
  \A k \in Kind :
    /\ IsInjective(srv.table[k])
    /\ { srv.table[k][h] : h \in DOMAIN srv.table[k] } =
         { q \in DOMAIN srv.lib.heap : srv.lib.heap[q].kind = k }

(* A client's going takes nothing from the others: what the runtime runs   *)
(* down leaves every cache and credential in place.                        *)
RundownKeepsData ==
  [][\A c \in Client : Rundown(c) =>
       /\ srv'.lib.data.cache = srv.lib.data.cache
       /\ srv'.lib.data.cred = srv.lib.data.cred]_vars

(* What many clients do at once, and what rundown does for those that went, *)
(* is to the data a sequence of whole method calls: api_lock lets no call   *)
(* see half of another's, and a call that finds no handle free has changed  *)
(* nothing when it fails (procs.cxx makes the handle first).                *)
Data == INSTANCE CCacheContext WITH data <- srv.lib.data

ServerImplementsContext == Data!DataSpec

(* Whatever a client held when it went is given back, unless a call of     *)
(* another never returns (cc_get_NC_info, procs.cxx:475).                  *)
GivenBack == \A c \in Client : c \in gone ~> owns[c] = {} \/ stuck
=============================================================================
