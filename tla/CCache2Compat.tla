---------------------------- MODULE CCache2Compat ----------------------------
(***************************************************************************)
(* The v2 calls of the credentials cache library, CCache2Compat.cp: what   *)
(* the server executes for its clients.  The caller holds pointers to      *)
(* objects that hold IDs of the data layer: a cache reference, in v4 or v5 *)
(* mode; an iterator over caches; an iterator over credentials.  Iterators *)
(* copy the list of IDs when they are made and resolve each ID when they   *)
(* reach it.                                                               *)
(*                                                                         *)
(* Each call is a function from the library's state to the state, the      *)
(* error and the results it leaves, so that the server module can run it   *)
(* inside a handler.                                                       *)
(***************************************************************************)
EXTENDS CCacheData

CONSTANT MaxObjects     \* bound: objects held at a time

ASSUME ObjectsAssumption == MaxObjects \in Nat

Pointer == 1 .. MaxObjects

CacheRef == [kind : {"ccache"}, id : CacheId, version : Version \cup {"both"}]
NCsIt    == [kind : {"ncs"}, set : Seq(CacheId), pos : Nat, repeat : 0 .. 1]
CredsIt  == [kind : {"creds"}, id : CacheId, set : Seq(CredId), pos : Nat,
             version : Version \cup {"both"}]
Context  == [kind |-> "context"]

(* leaked: some object is left that no pointer leads to.                   *)
NoLib == [data |-> ContextChanged(NoData), heap |-> [q \in {} |-> Context], leaked |-> FALSE]

Result(l, err) == [lib |-> l, err |-> err]
Room(l)        == DOMAIN l.heap # Pointer
NewPointer(l)  == CHOOSE q \in Pointer \ DOMAIN l.heap :
                    \A r \in Pointer \ DOMAIN l.heap : q <= r
Make(l, obj)   ==
  LET q == NewPointer(l)
  IN  [l EXCEPT !.heap = [x \in DOMAIN @ \cup {q} |-> IF x = q THEN obj ELSE @[x]]]
Free(l, q)     == [l EXCEPT !.heap = [x \in DOMAIN @ \ {q} |-> @[x]]]
Given(l, obj)  == [lib |-> Make(l, obj), err |-> "CC_NOERROR", ptr |-> NewPointer(l)]
OnData(l, d)   == [l EXCEPT !.data = d]

Has(l, c, v)   == l.data.cache[c].principal[v] # None
Dual(l, c)     == \A v \in Version : Has(l, c, v)
OwnMode(l, c)  == IF Has(l, c, "v4") THEN "v4" ELSE "v5"
----------------------------------------------------------------------------
CcInitialize(l) == Given(l, Context)
CcShutdown(l, q) == Result(Free(l, q), "CC_NOERROR")

CcGetChangeTime(l) == Result(l, "CC_NOERROR")

(* Mutant: any version opens the cache.                                    *)
CcOpenUnchecked(l, n, v) ==
  IF ~Known(l.data, n) THEN Result(l, "CC_NO_EXIST")
  ELSE Given(l, [kind |-> "ccache", id |-> FindCCache(l.data, n), version |-> v])

CcOpen(l, n, v) ==
  IF ~Known(l.data, n) \/ ~Has(l, FindCCache(l.data, n), v)
  THEN Result(l, "CC_NO_EXIST")
  ELSE Given(l, [kind |-> "ccache", id |-> FindCCache(l.data, n), version |-> v])

CcCreate(l, n, v, p) ==
  LET made == CreateCCache(l.data, n, v, p)
  IN  Given(OnData(l, made.d), [kind |-> "ccache", id |-> made.id, version |-> v])

CcClose(l, q) == Result(Free(l, q), "CC_NOERROR")

(* When the cache is already gone Destroy throws and the reference stays.  *)
CcDestroy(l, q) ==
  IF Live(l.data, l.heap[q].id)
  THEN Result(Free(OnData(l, Destroy(l.data, l.heap[q].id)), q), "CC_NOERROR")
  ELSE Result(l, "CC_NO_EXIST")

CcNCsBegin(l) ==
  Given(l, [kind |-> "ncs", set |-> l.data.order, pos |-> 1, repeat |-> 0])

(* Mutant: the count of visits is not set back for the next cache.         *)
OpenCurrentCountsOn(l, q) ==
  LET it == l.heap[q]
      c  == it.set[it.pos]
      l1 == [l EXCEPT !.heap[q].repeat = @ + 1]
  IN  IF Live(l.data, c)
      THEN Given(l1, [kind |-> "ccache", id |-> c, version |-> OwnMode(l, c)])
      ELSE [Given(l1, [kind |-> "ccache", id |-> c, version |-> "both"])
              EXCEPT !.err = "CC_NO_EXIST"]

(* new CCICCache on the current ID; on a cache that is gone the reference  *)
(* has been made and handed out when GetCredentialsVersion throws.         *)
OpenCurrent(l, q) ==
  LET it == l.heap[q]
      c  == it.set[it.pos]
      l1 == [l EXCEPT !.heap[q].repeat = 1]
  IN  IF Live(l.data, c)
      THEN Given(l1, [kind |-> "ccache", id |-> c, version |-> OwnMode(l, c)])
      ELSE [Given(l1, [kind |-> "ccache", id |-> c, version |-> "both"])
              EXCEPT !.err = "CC_NO_EXIST"]

(* Mutant: a cache that has gone ends the iteration.                       *)
CcNCsNextStopsAtGone(l, q) ==
  LET it == l.heap[q]
      l1 == [l EXCEPT !.heap[q].pos = @ + 1]
  IN  CASE it.pos > Len(it.set) -> Result(l, "CC_END")
        [] it.pos <= Len(it.set) /\ it.repeat = 0 -> OpenCurrent(l, q)
        [] OTHER -> IF it.pos < Len(it.set) /\ Live(l.data, it.set[it.pos])
                    THEN OpenCurrent(l1, q) ELSE Result(l1, "CC_END")

(* The first visit opens a cache as v4 if it can; a second visit to a dual *)
(* cache opens it as v5 and does not advance; any other second visit       *)
(* advances and visits the next.                                           *)
CcNCsNext(l, q) ==
  LET it == l.heap[q]
      c  == it.set[it.pos]
      l1 == [l EXCEPT !.heap[q].pos = @ + 1]
  IN  CASE it.pos > Len(it.set) -> Result(l, "CC_END")
        [] it.pos <= Len(it.set) /\ it.repeat = 0 -> OpenCurrent(l, q)
        [] OTHER ->
             IF Live(l.data, c) /\ Dual(l, c)
             THEN Given(l, [kind |-> "ccache", id |-> c, version |-> "v5"])
             ELSE IF it.pos = Len(it.set) THEN Result(l1, "CC_END")
                  ELSE OpenCurrent(l1, q)

CcNCsEnd(l, q) == Result(Free(l, q), "CC_NOERROR")

(* The preflight walks the caches until CC_END, which a dual cache keeps   *)
(* from coming; it then ends the walk with cc_seq_fetch_creds_end, which   *)
(* rejects an iterator over caches.                                        *)
CcGetNCInfo(l) ==
  Result(l, IF \E c \in ToSet(l.data.order) : Dual(l, c) THEN "never" ELSE "CC_BAD_PARM")

CcGetName(l, q) ==
  Result(l, IF Live(l.data, l.heap[q].id) THEN "CC_NOERROR" ELSE "CC_NO_EXIST")

(* cc_get_cred_version does not look at the cache.                         *)
CcGetCredVersion(l, q) == Result(l, "CC_NOERROR")

CcGetPrincipal(l, q) ==
  LET r == l.heap[q]
  IN  Result(l, CASE ~Live(l.data, r.id) -> "CC_NO_EXIST"
                  [] Live(l.data, r.id) /\ (r.version = "both" \/ ~Has(l, r.id, r.version)) ->
                       "CC_BAD_PARM"
                  [] OTHER -> "CC_NOERROR")

(* The version is the caller's, not the reference's.                       *)
CcSetPrincipal(l, q, v, p) ==
  IF Live(l.data, l.heap[q].id)
  THEN Result(OnData(l, CompatSetPrincipal(l.data, l.heap[q].id, v, p)), "CC_NOERROR")
  ELSE Result(l, "CC_NO_EXIST")

CcStore(l, q, new) ==
  IF Live(l.data, l.heap[q].id)
  THEN Result(OnData(l, StoreCredentials(l.data, l.heap[q].id, new)), "CC_NOERROR")
  ELSE Result(l, "CC_NO_EXIST")

(* cci_compat_credentials_equal, for one client and one issue time: v4     *)
(* credentials are told apart by those alone, v5 credentials by the server *)
(* too.                                                                    *)
Equal(old, new) ==
  /\ old.version = new.version
  /\ old.version = "v5" => old.service = new.service

(* Mutant: the walk does not stop at the first match.                      *)
CcRemoveCredAll(l, q, old) ==
  LET c     == l.heap[q].id
      ids   == IF Live(l.data, c) THEN l.data.cache[c].creds ELSE <<>>
      match == { k \in ToSet(ids) : Equal(old, l.data.cred[k]) }
      cut(d, k) == RemoveCredentials(d, c, k)
  IN  IF match = {} THEN Result(l, "CC_NOTFOUND")
      ELSE Result([OnData(l, FoldSet(LAMBDA k, d : cut(d, k), Pin(l.data), match))
                     EXCEPT !.leaked = TRUE], "CC_NOERROR")

(* Mutant: the cache goes with its last credentials.                       *)
CcRemoveCredDestroysEmpty(l, q, old) ==
  LET c     == l.heap[q].id
      ids   == IF Live(l.data, c) THEN l.data.cache[c].creds ELSE <<>>
      match == { i \in DOMAIN ids : Equal(old, l.data.cred[ids[i]]) }
      first == CHOOSE i \in match : \A j \in match : i <= j
      cut   == RemoveCredentials(Pin(l.data), c, ids[first])
  IN  IF match = {} THEN Result(l, "CC_NOTFOUND")
      ELSE Result([OnData(l, IF Len(ids) = 1 THEN Destroy(cut, c) ELSE cut)
                     EXCEPT !.leaked = TRUE], "CC_NOERROR")

(* cc_remove_cred walks the cache with an iterator it never releases; each *)
(* step but the matching one leaves its credentials object too.            *)
CcRemoveCred(l, q, old) ==
  LET c     == l.heap[q].id
      ids   == l.data.cache[c].creds
      match == { i \in DOMAIN ids : Equal(old, l.data.cred[ids[i]]) }
      first == CHOOSE i \in match : \A j \in match : i <= j
      seen  == IF ids = <<>> THEN l.data ELSE Pin(l.data)
      l1    == [OnData(l, seen) EXCEPT !.leaked = TRUE]
  IN  CASE ~Live(l.data, c) -> Result(l, "CC_NOTFOUND")
        [] Live(l.data, c) /\ match = {} -> Result(l1, "CC_NOTFOUND")
        [] OTHER -> Result(OnData(l1, RemoveCredentials(seen, c, ids[first])), "CC_NOERROR")

CcCredsBegin(l, q) ==
  LET c == l.heap[q].id
  IN  IF Live(l.data, c)
      THEN Given(l, [kind |-> "creds", id |-> c, set |-> l.data.cache[c].creds,
                     pos |-> 1, version |-> l.heap[q].version])
      ELSE Result(l, "CC_NO_EXIST")

(* Mutant: a credential that is gone ends the iteration.                   *)
CcCredsNextStopsAtGone(l, q) ==
  LET it == l.heap[q]
      k  == it.set[it.pos]
      l1 == [OnData(l, Pin(l.data)) EXCEPT !.heap[q].pos = @ + 1]
  IN  IF it.pos > Len(it.set) \/ k \notin DOMAIN l.data.cred THEN Result(l, "CC_END")
      ELSE [lib |-> l1, err |-> "CC_NOERROR", cred |-> k]

(* Skips credentials of the other version; stops with an error at one that *)
(* is gone, leaving the iterator behind it.                                *)
CcCredsNext(l, q) ==
  LET it   == l.heap[q]
      rest == it.pos .. Len(it.set)
      gone == { i \in rest : it.set[i] \notin DOMAIN l.data.cred }
      mine == { i \in rest \ gone : it.version \in {"both", l.data.cred[it.set[i]].version} }
      stop == CHOOSE i \in gone \cup mine : \A j \in gone \cup mine : i <= j
      l1   == IF rest = {} THEN l ELSE OnData(l, Pin(l.data))
  IN  CASE gone \cup mine = {} ->
             Result([l1 EXCEPT !.heap[q].pos = Len(it.set) + 1], "CC_END")
        [] gone \cup mine # {} /\ stop \in gone ->
             Result([l1 EXCEPT !.heap[q].pos = stop + 1], "CC_NOTFOUND")
        [] OTHER ->
             [lib |-> [l1 EXCEPT !.heap[q].pos = stop + 1], err |-> "CC_NOERROR",
              cred |-> it.set[stop]]

CcCredsEnd(l, q) == Result(Free(l, q), "CC_NOERROR")
=============================================================================
