----------------------------- MODULE CCacheCalls -----------------------------
(***************************************************************************)
(* The v2 interface of the credentials cache library as its callers see    *)
(* it: any number of them, each call atomic (the server holds api_lock     *)
(* around it), on the caches and through the objects they hold.  A caller  *)
(* keeps what a call gave it only when the call returned CC_NOERROR.       *)
(* Contexts hold nothing of the data and are left to CCacheServer.         *)
(***************************************************************************)
EXTENDS CCache2Compat

VARIABLES
  lib,
  owed      \* history: what each iterator has still to return

calls == <<lib, owed>>

Held(kind) == { q \in DOMAIN lib.heap : lib.heap[q].kind = kind }
Iterators(l) == { q \in DOMAIN l.heap : l.heap[q].kind # "ccache" }

(* What an iterator would return of the caches or credentials it was made  *)
(* for, were it to start now: a cache once per version, the credentials    *)
(* of the version it was asked for.                                        *)
Items(l, it) ==
  IF it.kind = "ncs"
  THEN { e \in ToSet(it.set) \X Version : Live(l.data, e[1]) /\ Has(l, e[1], e[2]) }
  ELSE { k \in ToSet(it.set) :
           /\ Live(l.data, it.id)
           /\ k \in ToSet(l.data.cache[it.id].creds)
           /\ it.version = l.data.cred[k].version }

Returned(r) ==
  CASE r.err # "CC_NOERROR" -> {}
    [] "cred" \in DOMAIN r -> { r.cred }
    [] "ptr" \in DOMAIN r -> { <<r.lib.heap[r.ptr].id, r.lib.heap[r.ptr].version>> }
    [] OTHER -> {}

(* An object handed out with an error is dropped.                          *)
Kept(r) == IF r.err = "CC_NOERROR" \/ "ptr" \notin DOMAIN r THEN r.lib
           ELSE [Free(r.lib, r.ptr) EXCEPT !.leaked = TRUE]

Call == OnData(lib, Quiet(lib.data))

Finish(r, returned) ==
  LET l == Kept(r)
  IN  /\ lib' = l
      /\ owed' = [q \in Iterators(l) |->
                    IF q \in DOMAIN owed
                    THEN (owed[q] \ returned[q]) \cap Items(l, l.heap[q])
                    ELSE Items(l, l.heap[q])]

Ends(r)          == Finish(r, [q \in Pointer |-> {}])
Continues(q, r)  == Finish(r, [x \in Pointer |-> IF x = q THEN Returned(r) ELSE {}])

Init ==
  /\ lib = NoLib
  /\ owed = [q \in {} |-> {}]

Open ==
  /\ Room(lib)
  /\ \E n \in Name, v \in Version : Ends(CcOpen(Call, n, v))

Create ==
  /\ Room(lib) /\ RoomForCache(lib.data)
  /\ \E n \in Name, v \in Version, p \in Principal : Ends(CcCreate(Call, n, v, p))

Close   == \E q \in Held("ccache") : Ends(CcClose(Call, q))
DestroyCache == \E q \in Held("ccache") : Ends(CcDestroy(Call, q))

NCsBegin == Room(lib) /\ Ends(CcNCsBegin(Call))
NCsNext  == Room(lib) /\ \E q \in Held("ncs") : Continues(q, CcNCsNext(Call, q))
NCsEnd   == \E q \in Held("ncs") : Ends(CcNCsEnd(Call, q))

ChangePrincipal ==
  \E q \in Held("ccache"), v \in Version, p \in Principal :
    Ends(CcSetPrincipal(Call, q, v, p))

Store ==
  /\ RoomForCred(lib.data)
  /\ \E q \in Held("ccache"), new \in Creds : Ends(CcStore(Call, q, new))

RemoveCred ==
  \E q \in Held("ccache"), old \in Creds : Ends(CcRemoveCred(Call, q, old))

CredsBegin == Room(lib) /\ \E q \in Held("ccache") : Ends(CcCredsBegin(Call, q))
CredsNext  == \E q \in Held("creds") : Continues(q, CcCredsNext(Call, q))
CredsEnd   == \E q \in Held("creds") : Ends(CcCredsEnd(Call, q))

(* The calls that only read.                                               *)
Read ==
  \/ Ends(CcGetChangeTime(Call)) \/ Ends(CcGetNCInfo(Call))
  \/ \E q \in Held("ccache") :
       Ends(CcGetName(Call, q)) \/ Ends(CcGetCredVersion(Call, q))
                               \/ Ends(CcGetPrincipal(Call, q))

Next ==
  \/ Open \/ Create \/ Close \/ DestroyCache
  \/ NCsBegin \/ NCsNext \/ NCsEnd
  \/ ChangePrincipal \/ Store \/ RemoveCred
  \/ CredsBegin \/ CredsNext \/ CredsEnd
  \/ Read

Spec == Init /\ [][Next]_calls
----------------------------------------------------------------------------
(* Type invariant: what the callers hold is references and iterators.      *)
CallsTypeOK ==
  /\ DOMAIN lib.heap \subseteq Pointer
  /\ \A q \in DOMAIN lib.heap : lib.heap[q] \in CacheRef \cup NCsIt \cup CredsIt
  /\ lib.leaked \in BOOLEAN
  /\ DOMAIN owed = Iterators(lib)

(* A reference is in the mode of a version its cache has, so a caller of   *)
(* one version never gets at a cache of the other: CCache2Compat.cp:352    *)
(* promises it for cc_open, the iterator must keep it too.                 *)
RefsAreOpenedRight ==
  \A q \in Held("ccache") :
    LET r == lib.heap[q]
    IN  Live(lib.data, r.id) => r.version \in Version /\ Has(lib, r.id, r.version)

(* A reference or iterator whose cache was destroyed stays dead, whatever  *)
(* is created after, under the same name or not.                           *)
StaleStaysStale ==
  [][\A q \in DOMAIN lib.heap \cap DOMAIN lib'.heap :
       lib.heap[q].kind # "ncs" /\ lib'.heap[q].kind # "ncs"
         /\ lib'.heap[q].id = lib.heap[q].id /\ ~Live(lib.data, lib.heap[q].id)
       => ~Live(lib'.data, lib.heap[q].id)]_calls

(* An iterator over caches whose next call will say CC_END has returned    *)
(* every cache it was made for that is still there, once for each version  *)
(* it had, however caches came, went and changed between the calls.        *)
CachesAllReturned ==
  \A q \in Held("ncs") :
    Room(lib) /\ CcNCsNext(lib, q).err = "CC_END" => owed[q] = {}

(* Likewise an iterator over credentials: those removed under it make it   *)
(* fail, but not lose the ones behind them.                                *)
CredsAllReturned ==
  \A q \in Held("creds") : CcCredsNext(lib, q).err = "CC_END" => owed[q] = {}

(* The v2 calls use the data layer as CCacheContext allows: each is one    *)
(* method, or only reads.                                                  *)
Data == INSTANCE CCacheContext WITH data <- lib.data

ImplementsContext == Data!DataSpec
----------------------------------------------------------------------------
(* What the documents, comments and assertions of the library say and its  *)
(* code does not do.                                                       *)

(* An ID is of one object (CCIUniqueGlobally.h:11): an iterator made for a *)
(* cache that is still there returns no other cache's credentials.         *)
CredsOfItsCache ==
  \A q \in Held("creds") :
    LET r == CcCredsNext(lib, q)
    IN  r.err = "CC_NOERROR" /\ Live(lib.data, lib.heap[q].id)
        => r.cred \in ToSet(lib.data.cache[lib.heap[q].id].creds)
=============================================================================
