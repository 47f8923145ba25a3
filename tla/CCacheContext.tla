---------------------------- MODULE CCacheContext ----------------------------
(***************************************************************************)
(* The library's global context as a state machine: each step is one       *)
(* method call on the data of CCacheData, as the v2 and v3 interfaces make *)
(* them.  The v2 server uses some of the methods only; it (CCacheServer)   *)
(* and its interface (CCacheCalls) implement this module.                  *)
(***************************************************************************)
EXTENDS CCacheData

(* CreateNewCCache tries numbers without end; so many are enough here.     *)
ASSUME NamesAssumption == MaxCaches <= Len(NewNames) /\ IsInjective(NewNames)

VARIABLE data     \* the record of CCacheData

DataInit == data = ContextChanged(NoData)

MCreate ==
  /\ RoomForCache(data)
  /\ \E v \in Version, p \in Principal :
       \/ \E n \in Name : data' = CreateCCache(Quiet(data), n, v, p).d
       \/ data' = CreateDefaultCCache(Quiet(data), v, p).d
       \/ data' = CreateNewCCache(Quiet(data), v, p).d

MDestroy == \E c \in DOMAIN data.cache : data' = Destroy(Quiet(data), c)

MSetDefault == \E c \in DOMAIN data.cache : data' = SetDefault(Quiet(data), c)

MSetPrincipal ==
  \E c \in DOMAIN data.cache, v \in Version, p \in Principal :
    \/ data' = SetPrincipal(Quiet(data), c, v, p)
    \/ data' = CompatSetPrincipal(Quiet(data), c, v, p)

MStore ==
  /\ RoomForCred(data)
  /\ \E c \in DOMAIN data.cache, new \in Creds :
       data' = StoreCredentials(Quiet(data), c, new)

(* Making a credentials object out of an ID resolves it.                   *)
MFetch == data' = Pin(Quiet(data))

(* The ID handed to RemoveCredentials is that of such an object, made just *)
(* now or before, in which case it may be stale.                           *)
MRemove ==
  \E c \in DOMAIN data.cache, k \in CredId :
    /\ \/ k \in DOMAIN data.cred
       \/ data.pinned /\ k < data.nextCred
    /\ data' = RemoveCredentials(Pin(Quiet(data)), c, k)

MMove ==
  \E c \in DOMAIN data.cache, to \in DOMAIN data.cache :
    data' = Move(Quiet(data), c, to)

(* A method that only reads, and any method on an ID whose cache is gone:  *)
(* Resolve throws ccErrCCacheNotFound before anything changes.             *)
MRead == data' = Quiet(data)

DataNext ==
  \/ MRead \/ MFetch \/ MDestroy \/ MSetDefault \/ MMove
  \/ MRemove \/ MStore \/ MSetPrincipal \/ MCreate

DataSpec == DataInit /\ [][DataNext]_data
----------------------------------------------------------------------------
(* Type invariant of the library's data.                                   *)
DataTypeOK ==
  /\ data.order \in Seq(CacheId)
  /\ DOMAIN data.cache \subseteq CacheId
  /\ \A c \in DOMAIN data.cache : data.cache[c] \in Cache
  /\ DOMAIN data.cred \subseteq CredId
  /\ \A k \in DOMAIN data.cred : data.cred[k] \in Creds
  /\ data.nextCache \in 0 .. MaxCaches
  /\ data.nextCred \in 0 .. MaxCreds
  /\ data.pinned \in BOOLEAN
  /\ data.stamped \in BOOLEAN
  /\ data.touched \subseteq CacheId

(* The list of the context and the registry of caches hold the same caches, *)
(* each once, under different names.  FindCCache resolves every ID of the  *)
(* list (CCIContextData.cp:190), so one stale ID would make every open and *)
(* create fail from then on.                                               *)
ListMatchesRegistry ==
  /\ ToSet(data.order) = DOMAIN data.cache
  /\ IsInjective(data.order)
  /\ \A c, e \in DOMAIN data.cache :
       data.cache[c].name = data.cache[e].name => c = e

(* Every pointer in a cache's vector is to a credential that still exists, *)
(* and no credential is in two caches or twice in one: otherwise           *)
(* SetPrincipal and RemoveCredentials (CCICCacheData.cp:169, 218) would    *)
(* delete it twice.                                                        *)
CredsOwnedOnce ==
  /\ \A c \in DOMAIN data.cache :
       /\ IsInjective(data.cache[c].creds)
       /\ ToSet(data.cache[c].creds) \subseteq DOMAIN data.cred
  /\ \A c, e \in DOMAIN data.cache :
       c # e => ToSet(data.cache[c].creds) \cap ToSet(data.cache[e].creds) = {}

(* An ID is given out once as long as its object lives: the next ID of a   *)
(* registry is above every live one, also after the credentials' Globals   *)
(* were deleted and IDs restarted.                                         *)
NextIdsFresh ==
  /\ \A c \in DOMAIN data.cache : c < data.nextCache
  /\ \A k \in DOMAIN data.cred : k < data.nextCred

(* A client that polls change times misses nothing: a call that changes    *)
(* the contents of a cache stamps that cache and the context, and a call   *)
(* that changes the list of caches stamps the context.                     *)
ChangesAreStamped ==
  [][/\ data'.cache # data.cache \/ data'.order # data.order => data'.stamped
     /\ \A c \in DOMAIN data.cache \cap DOMAIN data'.cache :
          data'.cache[c] # data.cache[c] => c \in data'.touched]_data

(* The default cache is the first of the list (CCIContextData.cp:75), and  *)
(* while it exists only SetDefault makes another one the default.          *)
DefaultStays ==
  [][data.order # <<>> /\ Live(data', data.order[Default])
       => \/ data'.order[Default] = data.order[Default]
          \/ \E c \in DOMAIN data.cache : data' = SetDefault(Quiet(data), c)]_data
=============================================================================
