------------------------ MODULE CCacheContext_proofs ------------------------
(***************************************************************************)
(* Proofs about CCacheContext, for any names, principals and bounds: the   *)
(* list of caches and the registry of caches never part, and an ID is not  *)
(* given out while its object lives.                                       *)
(*                                                                         *)
(* What each method does to the record `data' is in the lemmas of          *)
(* CCache2Compat_proofs.                                                   *)
(***************************************************************************)
EXTENDS CCacheContext, CCache2Compat_proofs

(***************************************************************************)
(* The state machine.                                                      *)
(***************************************************************************)
LEMMA InitGood == DataInit => Good(data)
<1> SUFFICES ASSUME DataInit PROVE Good(data)
  OBVIOUS
<1>1. /\ Record(data) /\ data.order = <<>> /\ data.cache = [c \in {} |-> {}] /\ data.nextCache = 0
      /\ data.cred = [k \in {} |-> {}] /\ data.nextCred = 0
  BY DEF DataInit, ContextChanged, NoData, Record, DataFields
<1>2. WellFormed(data)
  BY <1>1 DEF WellFormed, CacheMap
<1>3. Listed(data.order, data.cache)
  BY <1>1 DEF Listed, IsInjective
<1> QED BY <1>1, <1>2, <1>3 DEF Good, Below

(* A method leaves the data good, whichever it is.                         *)
LEMMA NextGood ==
  ASSUME Good(data), [DataNext]_data
  PROVE  Good(data')
<1> DEFINE q == Quiet(data)
<1>1. Good(q) /\ DOMAIN q.cache = DOMAIN data.cache /\ Good(Pin(q)) /\ DOMAIN Pin(q).cache = DOMAIN data.cache
  BY StampsKeep DEF Preserves, Alike
<1> HIDE DEF q
<1>2. CASE MRead
  BY <1>1, <1>2 DEF MRead, q
<1>3. CASE MFetch
  BY <1>1, <1>3 DEF MFetch, q
<1>4. CASE MDestroy
  BY <1>1, <1>4, DestroyKeeps DEF MDestroy, q
<1>5. CASE MSetDefault
  BY <1>1, <1>5, SetDefaultKeeps DEF MSetDefault, q
<1>6. CASE MMove
  BY <1>1, <1>6, MoveKeeps DEF MMove, q
<1>7. CASE MRemove
  BY <1>1, <1>7, RemoveCredentialsKeeps DEF MRemove, q
<1>8. CASE MStore
  BY <1>1, <1>8, StoreCredentialsKeeps DEF MStore, q
<1>9. CASE MSetPrincipal
  BY <1>1, <1>9, SetPrincipalKeeps DEF MSetPrincipal, q
<1>10. CASE MCreate
  BY <1>1, <1>10, CreateCCacheKeeps, CreatesKeep DEF MCreate, q
<1>11. CASE UNCHANGED data
  BY <1>11
<1> QED BY <1>2, <1>3, <1>4, <1>5, <1>6, <1>7, <1>8, <1>9, <1>10, <1>11, Zenon DEF DataNext

GoodData == Good(data)

(* Every state of the data is good.                                        *)
LEMMA AlwaysGood == DataSpec => []GoodData
<1>1. DataInit => GoodData
  BY InitGood DEF GoodData
<1>2. GoodData /\ [DataNext]_data => GoodData'
  BY NextGood DEF GoodData
<1> QED BY <1>1, <1>2, PTL DEF DataSpec

(* ListMatchesRegistry: whatever methods are called, on whichever caches,   *)
(* moved onto themselves included, the context's list holds every live      *)
(* cache once and no other, each under a name of its own, so FindCCache     *)
(* never resolves an ID that is gone.                                       *)
THEOREM ListCorrect == DataSpec => []ListMatchesRegistry
<1>1. GoodData => ListMatchesRegistry
  BY DEF GoodData, Good, Listed, ListMatchesRegistry, ToSet
<1> QED BY AlwaysGood, <1>1, PTL

(* NextIdsFresh: an ID is above every live one when it is given out, also   *)
(* after the IDs of the credentials restarted.                              *)
THEOREM IdsCorrect == DataSpec => []NextIdsFresh
<1>1. GoodData => NextIdsFresh
  BY DEF GoodData, Good, Below, NextIdsFresh
<1> QED BY AlwaysGood, <1>1, PTL

(***************************************************************************)
(* Ownership and types.                                                    *)
(***************************************************************************)
DataInv == Good(data) /\ OwnsOnce(data) /\ Typed(data)

(* The first data owns no credential, and is typed.                        *)
LEMMA InitOwnsAndTyped == DataInit => OwnsOnce(data) /\ Typed(data)
<1> SUFFICES ASSUME DataInit PROVE OwnsOnce(data) /\ Typed(data)
  OBVIOUS
<1>1. /\ data.cache = [c \in {} |-> {}] /\ data.nextCache = 0
      /\ data.cred = [k \in {} |-> {}] /\ data.nextCred = 0
      /\ data.pinned = FALSE /\ data.stamped = TRUE /\ data.touched = {}
  BY DEF DataInit, ContextChanged, NoData
<1>2. DOMAIN data.cache = {} /\ DOMAIN data.cred = {}
  BY <1>1
<1>3. OwnsOnce(data)
  BY <1>2 DEF OwnsOnce
<1>4. 0 \in 0 .. MaxCaches /\ 0 \in 0 .. MaxCreds
  BY DataAssumption
<1>5. Typed(data)
  BY <1>1, <1>2, <1>4 DEF Typed
<1> QED BY <1>3, <1>5

(* A method, whichever it is, leaves each credential with one owner and    *)
(* the fields typed.                                                       *)
LEMMA NextOwnsAndTyped ==
  ASSUME DataInv, [DataNext]_data
  PROVE  OwnsOnce(data') /\ Typed(data')
<1> DEFINE q == Quiet(data)
           z == Pin(q)
           Right(d) == Good(d) /\ OwnsOnce(d) /\ Typed(d)
<1>1. Right(q) /\ Right(z)
  <2>1. Right(q)
    BY StampsKeep, StampsTyped, StampsOwn DEF DataInv, Preserves, Good
  <2> HIDE DEF q
  <2> QED BY <2>1, StampsKeep, StampsTyped, StampsOwn DEF Preserves, Good
<1>2. /\ q.cache = data.cache /\ z.cache = data.cache
      /\ q.nextCache = data.nextCache /\ q.nextCred = data.nextCred
  <2>1. WellFormed(data) /\ WellFormed(q)
    BY <1>1 DEF DataInv, Good
  <2>2. q.cache = data.cache /\ q.nextCache = data.nextCache /\ q.nextCred = data.nextCred
    BY <2>1, StampsDo
  <2> HIDE DEF q
  <2>3. z.cache = q.cache
    BY <2>1, StampsDo
  <2> QED BY <2>2, <2>3
<1> HIDE DEF q, z
<1>3. CASE MRead \/ MFetch
  BY <1>1, <1>3 DEF MRead, MFetch, q, z
<1>4. CASE MDestroy
  <2>1. PICK c \in DOMAIN q.cache : data' = Destroy(q, c)
    BY <1>2, <1>4 DEF MDestroy, q
  <2> QED BY <1>1, <2>1, CachesOwn, CachesTyped DEF Good
<1>5. CASE MSetDefault
  <2>1. PICK c \in DOMAIN q.cache : data' = SetDefault(q, c)
    BY <1>2, <1>5 DEF MSetDefault, q
  <2> QED BY <1>1, <2>1, CachesOwn, CachesTyped DEF Good
<1>6. CASE MMove
  <2>1. PICK c \in DOMAIN q.cache, to \in DOMAIN q.cache : data' = Move(q, c, to)
    BY <1>2, <1>6 DEF MMove, q
  <2> QED BY <1>1, <2>1, CachesOwn, CachesTyped DEF Good
<1>7. CASE MRemove
  <2>1. PICK c \in DOMAIN z.cache, k \in CredId : data' = RemoveCredentials(z, c, k)
    BY <1>2, <1>7 DEF MRemove, q, z
  <2> QED BY <1>1, <2>1, RemoveCredentialsOwns, CredentialsTyped DEF Good
<1>8. CASE MStore
  <2>1. PICK c \in DOMAIN q.cache, new \in Creds : data' = StoreCredentials(q, c, new)
    BY <1>2, <1>8 DEF MStore, q
  <2>2. RoomForCred(q)
    BY <1>2, <1>8 DEF MStore, RoomForCred
  <2> QED BY <1>1, <2>1, <2>2, StoreCredentialsOwns, CredentialsTyped
<1>9. CASE MSetPrincipal
  <2>1. PICK c \in DOMAIN q.cache, v \in Version, p \in Principal :
          data' \in {SetPrincipal(q, c, v, p), CompatSetPrincipal(q, c, v, p)}
    BY <1>2, <1>9 DEF MSetPrincipal, q
  <2> QED BY <1>1, <2>1, SetPrincipalOwns, SetPrincipalTyped DEF Good
<1>10. CASE MCreate
  <2>1. PICK v \in Version, p \in Principal :
          \/ \E n \in Name : data' = CreateCCache(q, n, v, p).d
          \/ data' = CreateDefaultCCache(q, v, p).d
          \/ data' = CreateNewCCache(q, v, p).d
    BY <1>10 DEF MCreate, q
  <2>2. RoomForCache(q)
    BY <1>2, <1>10 DEF MCreate, RoomForCache
  <2>3. Typed(data')
    BY <1>1, <2>1, <2>2, CreateCCacheTyped, CreatesTyped, NamesAssumption
  <2>4. \E n : data' = CreateCCache(q, n, v, p).d
    BY <2>1, Zenon DEF CreateDefaultCCache, CreateNewCCache
  <2>5. OwnsOnce(data')
    BY <1>1, <2>4, CreateCCacheOwns
  <2> QED BY <2>3, <2>5
<1>11. CASE UNCHANGED data
  BY <1>11 DEF DataInv
<1> QED BY <1>3, <1>4, <1>5, <1>6, <1>7, <1>8, <1>9, <1>10, <1>11, Zenon DEF DataNext

(* Every state of the data is good, owns credentials once, and is typed.   *)
LEMMA AlwaysRight == DataSpec => []DataInv
<1>1. DataInit => DataInv
  BY InitGood, InitOwnsAndTyped DEF DataInv
<1>2. DataInv /\ [DataNext]_data => DataInv'
  BY NextGood, NextOwnsAndTyped DEF DataInv
<1> QED BY <1>1, <1>2, PTL DEF DataSpec

(* CredsOwnedOnce: SetPrincipal and RemoveCredentials never meet a pointer  *)
(* to a credential that was deleted, nor leave one in two caches, whatever  *)
(* was stored, removed, moved and destroyed before, and although the IDs    *)
(* of credentials start again when the last one goes.                       *)
THEOREM OwnershipCorrect == DataSpec => []CredsOwnedOnce
<1>1. DataInv => CredsOwnedOnce
  BY MembersOfSeq DEF DataInv, OwnsOnce, CredsOwnedOnce
<1> QED BY AlwaysRight, <1>1, PTL

(* DataTypeOK: the IDs stay in bounds, and CreateNewCCache always finds a   *)
(* name that is free.                                                       *)
THEOREM TypesCorrect == DataSpec => []DataTypeOK
<1>1. DataInv => DataTypeOK
  <2> SUFFICES ASSUME DataInv PROVE DataTypeOK
    OBVIOUS
  <2>1. DOMAIN data.cache \subseteq CacheId /\ DOMAIN data.cred \subseteq CredId
    BY IdsInBounds DEF DataInv
  <2>2. data.order \in Seq(CacheId)
    BY <2>1, SeqMonotonic DEF DataInv, Good, Listed
  <2>3. ASSUME NEW c \in DOMAIN data.cache PROVE data.cache[c] \in Cache
    <3> DEFINE x == data.cache[c]
    <3>1. x = [f \in CacheFields |-> x[f]]
      BY DEF DataInv, Good, WellFormed, CacheMap
    <3>2. x.name \in Name /\ x.principal \in [Version -> Principal \cup {None}]
      BY DEF DataInv, Typed
    <3>3. x.creds \in Seq(CredId)
      BY <2>1, SeqMonotonic DEF DataInv, OwnsOnce
    <3> HIDE DEF x
    <3>4. x \in Cache
      BY <3>1, <3>2, <3>3 DEF Cache, CacheFields
    <3> QED BY <3>4 DEF x
  <2> QED BY <2>1, <2>2, <2>3 DEF DataInv, Typed, DataTypeOK
<1> QED BY AlwaysRight, <1>1, PTL

(***************************************************************************)
(* What a method tells those who poll the times of change.                 *)
(***************************************************************************)
(* From d to e the stamps of the context and of the caches in S were set,   *)
(* and no other cache was changed.                                         *)
Told(e, d, S) ==
  /\ e.stamped = TRUE /\ S \subseteq e.touched
  /\ \A b \in DOMAIN d.cache \cap DOMAIN e.cache : b \notin S => e.cache[b] = d.cache[b]

(* The context's Changed() stamps it and changes nothing else.             *)
LEMMA ContextChangedFields ==
  ASSUME NEW d, Record(d)
  PROVE  /\ ContextChanged(d).stamped = TRUE /\ ContextChanged(d).touched = d.touched
         /\ ContextChanged(d).cache = d.cache /\ ContextChanged(d).order = d.order
BY DEF Record, DataFields, ContextChanged

(* The cache's Changed() stamps it and the context, and changes no cache.  *)
LEMMA ChangedFields ==
  ASSUME NEW d, Record(d), NEW c
  PROVE  /\ Changed(d, c).stamped = TRUE /\ c \in Changed(d, c).touched
         /\ Changed(d, c).cache = d.cache /\ Changed(d, c).order = d.order
BY DEF Record, DataFields, Changed

(* Deleting credentials changes no cache and stamps nothing.               *)
LEMMA DeleteCredsFields ==
  ASSUME NEW d, Record(d), NEW S
  PROVE  /\ Record(DeleteCreds(d, S))
         /\ DeleteCreds(d, S).cache = d.cache /\ DeleteCreds(d, S).order = d.order
BY DEF Record, DataFields, DeleteCreds

(* Both ways to set a principal change one cache, and stamp it.            *)
LEMMA SetPrincipalTells ==
  ASSUME NEW d, Good(d), NEW c \in DOMAIN d.cache, NEW v, NEW p
  PROVE  /\ Told(SetPrincipal(d, c, v, p), d, {c})
         /\ Told(CompatSetPrincipal(d, c, v, p), d, {c})
<1>1. Record(d) /\ CacheMap(d.cache)
  BY DEF Good, WellFormed
<1>2. Told(CompatSetPrincipal(d, c, v, p), d, {c})
  BY <1>1 DEF CompatSetPrincipal, Changed, Told, Record, DataFields, CacheMap
<1> DEFINE gone == OfVersion(d, c, v)
           rest == Without(d.cache[c].creds, gone)
           cut == [d EXCEPT !.cache[c].principal[v] = p, !.cache[c].creds = rest]
<1>3. SetPrincipal(d, c, v, p) = Changed(DeleteCreds(cut, gone), c)
  <2>1. [d EXCEPT !.cache[c].principal[v] = p,
                  !.cache[c].creds = Without(@, gone)] = cut
    <3> HIDE DEF gone
    <3> QED BY <1>1 DEF Record, DataFields, CacheMap, CacheFields
  <2> QED BY <2>1, Zenon DEF SetPrincipal
<1> HIDE DEF gone, rest
<1>4. Record(cut) /\ \A b \in DOMAIN d.cache : b # c => cut.cache[b] = d.cache[b]
  BY <1>1 DEF Record, DataFields, CacheMap
<1> HIDE DEF cut
<1>5. Record(DeleteCreds(cut, gone)) /\ DeleteCreds(cut, gone).cache = cut.cache
  BY <1>4, DeleteCredsFields
<1> DEFINE left == DeleteCreds(cut, gone)
           e == Changed(left, c)
<1> HIDE DEF left
<1>6. e.stamped = TRUE /\ c \in e.touched /\ e.cache = left.cache
  BY <1>5, ChangedFields DEF left
<1> HIDE DEF e
<1>7. Told(e, d, {c})
  BY <1>4, <1>5, <1>6 DEF Told, left
<1> QED BY <1>2, <1>3, <1>7 DEF e, left

(* Storing and removing credentials change one cache, and stamp it.        *)
LEMMA CredentialsTell ==
  ASSUME NEW d, Good(d), NEW c \in DOMAIN d.cache, NEW k
  PROVE  /\ Told(StoreCredentials(d, c, k), d, {c}) /\ StoreCredentials(d, c, k).order = d.order
         /\ Told(RemoveCredentials(d, c, k), d, {c}) /\ RemoveCredentials(d, c, k).order = d.order
<1>1. Record(d) /\ CacheMap(d.cache)
  BY DEF Good, WellFormed
<1>2. Told(StoreCredentials(d, c, k), d, {c}) /\ StoreCredentials(d, c, k).order = d.order
  BY <1>1 DEF StoreCredentials, Changed, Told, Record, DataFields, CacheMap
<1> DEFINE less == [d EXCEPT !.cache[c].creds = RemoveFirst(@, k)]
           cut == IF k \in ToSet(d.cache[c].creds) THEN DeleteCreds(less, {k}) ELSE d
<1>3. RemoveCredentials(d, c, k) = Changed(cut, c)
  BY DEF RemoveCredentials
<1>4. /\ Record(less) /\ less.order = d.order
      /\ \A b \in DOMAIN d.cache : b # c => less.cache[b] = d.cache[b]
  BY <1>1 DEF Record, DataFields, CacheMap
<1> HIDE DEF less
<1>5. /\ Record(cut) /\ cut.order = d.order
      /\ \A b \in DOMAIN d.cache : b # c => cut.cache[b] = d.cache[b]
  BY <1>1, <1>4, DeleteCredsFields
<1> HIDE DEF cut
<1> DEFINE e == Changed(cut, c)
<1>6. e.stamped = TRUE /\ c \in e.touched /\ e.cache = cut.cache /\ e.order = cut.order
  BY <1>5, ChangedFields
<1> HIDE DEF e
<1>7. Told(e, d, {c}) /\ e.order = d.order
  BY <1>5, <1>6 DEF Told
<1> QED BY <1>2, <1>3, <1>7 DEF e

(* Destroying a cache, or making it the default, changes no other cache.   *)
LEMMA DestroyTells ==
  ASSUME NEW d, Good(d), NEW c \in DOMAIN d.cache
  PROVE  Told(Destroy(d, c), d, {}) /\ Told(SetDefault(d, c), d, {})
<1>1. Record(d) /\ CacheMap(d.cache)
  BY DEF Good, WellFormed
<1> QED BY <1>1 DEF Destroy, SetDefault, RemoveCCache, ContextChanged, Told, Record, DataFields, CacheMap

(* Creating a cache changes at most that one, which is the last of the list. *)
LEMMA CreateTells ==
  ASSUME NEW d, Good(d), NEW n, NEW v, NEW p
  PROVE  /\ \E S : Told(CreateCCache(d, n, v, p).d, d, S)
         /\ CreateCCache(d, n, v, p).d.order \in {d.order, Append(d.order, d.nextCache)}
<1> DEFINE e == CreateCCache(d, n, v, p).d
<1>1. CASE Known(d, n)
  <2> DEFINE c == FindCCache(d, n)
             s == SetPrincipal(d, c, v, p)
  <2>1. e = ContextChanged(s)
    BY <1>1 DEF CreateCCache
  <2>2. c \in DOMAIN d.cache
    BY <1>1, FindsLive
  <2> HIDE DEF c
  <2>3. Good(s) /\ s.order = d.order /\ Told(s, d, {c})
    BY <2>2, SetPrincipalKeeps, SetPrincipalTells DEF Alike
  <2> HIDE DEF s
  <2>4. e.stamped = TRUE /\ e.touched = s.touched /\ e.cache = s.cache /\ e.order = s.order
    BY <2>1, <2>3, ContextChangedFields DEF Good, WellFormed
  <2>5. Told(e, d, {c}) /\ e.order = d.order
    BY <2>3, <2>4 DEF Told
  <2> QED BY <2>5
<1>2. CASE ~Known(d, n)
  <2>1. Record(d) /\ d.nextCache \notin DOMAIN d.cache
    BY DEF Good, WellFormed, Below
  <2>2. e = ContextChanged([NewCCache(d, n, v, p) EXCEPT !.order = Append(@, d.nextCache)])
    BY <1>2 DEF CreateCCache
  <2> HIDE DEF e
  <2>3. Told(e, d, {}) /\ e.order = Append(d.order, d.nextCache)
    BY <2>1, <2>2 DEF NewCCache, ContextChanged, Changed, Told, Record, DataFields
  <2> QED BY <2>3 DEF e
<1> QED BY <1>1, <1>2

(* What a method of the library does to those who poll, and to the default. *)
Polled(e, d) ==
  /\ e.cache # d.cache \/ e.order # d.order => e.stamped
  /\ \A c \in DOMAIN d.cache \cap DOMAIN e.cache : e.cache[c] # d.cache[c] => c \in e.touched
Stays(e, d) == d.order # <<>> /\ Live(e, d.order[Default]) => e.order[Default] = d.order[Default]

(* A method that tells of its changes can be polled for them.              *)
LEMMA ToldIsPolled ==
  ASSUME NEW d, NEW e, NEW S, Told(e, d, S)
  PROVE  Polled(e, d)
BY DEF Told, Polled

(* A list that stays or grows at its end keeps the default.                *)
LEMMA SameOrAppended ==
  ASSUME NEW d, Good(d), NEW e, e.order \in {d.order, Append(d.order, d.nextCache)}
  PROVE  Stays(e, d)
<1>1. d.order \in Seq(DOMAIN d.cache)
  BY DEF Good, Listed
<1>2. d.order # <<>> => Append(d.order, d.nextCache)[1] = d.order[1]
  <2> DEFINE s == d.order
             S == DOMAIN d.cache \cup {d.nextCache}
  <2>1. s \in Seq(S) /\ d.nextCache \in S
    BY <1>1, SeqMonotonic
  <2> HIDE DEF s, S
  <2>2. s # <<>> => Append(s, d.nextCache)[1] = s[1]
    BY <2>1
  <2> QED BY <2>2 DEF s
<1> QED BY <1>2 DEF Stays, Default

(* Destroying a cache keeps the default, unless it is the default.         *)
LEMMA DestroyOrders ==
  ASSUME NEW d, Good(d), NEW c \in DOMAIN d.cache
  PROVE  Stays(Destroy(d, c), d)
<1> DEFINE r == RemoveCCache(d, c)
<1>1. Record(r) /\ r.cache = d.cache /\ (d.order[1] # c => r.order[1] = d.order[1])
  BY RemoveCCacheLists
<1> HIDE DEF r
<1>2. Destroy(d, c).order = r.order /\ DOMAIN Destroy(d, c).cache = DOMAIN d.cache \ {c}
  BY <1>1 DEF Destroy, Record, DataFields, r
<1> QED BY <1>1, <1>2 DEF Stays, Live, Default

(* A move stamps both caches it changes, and keeps the default.            *)
LEMMA MoveTells ==
  ASSUME NEW d, Good(d), NEW c \in DOMAIN d.cache, NEW to \in DOMAIN d.cache
  PROVE  Polled(Move(d, c, to), d) /\ Stays(Move(d, c, to), d)
<1> DEFINE m == [d.cache EXCEPT ![to] = [d.cache[c] EXCEPT !.name = d.cache[to].name],
                                ![c]  = [d.cache[to] EXCEPT !.name = d.cache[c].name]]
           e == [d EXCEPT !.cache = m]
           f == Changed(e, to)
<1>1. Move(d, c, to) = Destroy(f, c)
  <2>1. [d EXCEPT !.cache[to] = [d.cache[c] EXCEPT !.name = d.cache[to].name],
                  !.cache[c]  = [d.cache[to] EXCEPT !.name = d.cache[c].name]] = e
    BY DEF Good, WellFormed, Record, DataFields
  <2> QED BY <2>1, Zenon DEF Move
<1>2. /\ CacheMap(m) /\ DOMAIN m = DOMAIN d.cache
      /\ \A b \in DOMAIN d.cache : m[b].name = d.cache[b].name
      /\ \A b \in DOMAIN d.cache : b # c /\ b # to => m[b] = d.cache[b]
  <2> DEFINE x == [d.cache[c] EXCEPT !.name = d.cache[to].name]
             y == [d.cache[to] EXCEPT !.name = d.cache[c].name]
  <2>1. /\ x = [n \in CacheFields |-> x[n]] /\ x.name = d.cache[to].name
        /\ y = [n \in CacheFields |-> y[n]] /\ y.name = d.cache[c].name
    BY DEF Good, WellFormed, CacheMap, CacheFields
  <2>2. m = [d.cache EXCEPT ![to] = x, ![c] = y]
    OBVIOUS
  <2> HIDE DEF x, y, m
  <2>3. /\ m = [b \in DOMAIN m |-> m[b]] /\ DOMAIN m = DOMAIN d.cache /\ m[c] = y
        /\ \A b \in DOMAIN d.cache \ {c} : m[b] = IF b = to THEN x ELSE d.cache[b]
    BY <2>2 DEF Good, WellFormed, CacheMap
  <2> QED BY <2>1, <2>3 DEF Good, WellFormed, CacheMap
<1> HIDE DEF m
<1>3. /\ Record(e) /\ e.order = d.order /\ e.nextCache = d.nextCache
      /\ e.cred = d.cred /\ e.nextCred = d.nextCred /\ e.cache = m
  BY DEF Good, WellFormed, Record, DataFields
<1> HIDE DEF e
<1>4. Preserves(e, d)
  BY <1>2, <1>3, SameIsKept
<1>5. Good(f) /\ f.stamped = TRUE /\ to \in f.touched /\ f.cache = m /\ f.order = d.order
  BY <1>3, <1>4, StampsKeep, ChangedFields DEF Preserves
<1> HIDE DEF f
<1>6. c \in DOMAIN f.cache
  BY <1>2, <1>5
<1>7. Stays(Destroy(f, c), d)
  BY <1>2, <1>5, <1>6, DestroyOrders DEF Stays
<1>8. /\ Destroy(f, c).touched = f.touched /\ Destroy(f, c).stamped = TRUE
      /\ Destroy(f, c).cache = [x \in DOMAIN f.cache \ {c} |-> f.cache[x]]
  BY <1>5 DEF Good, WellFormed, Record, DataFields, Destroy, RemoveCCache, ContextChanged
<1>9. Polled(Destroy(f, c), d)
  BY <1>2, <1>5, <1>8 DEF Polled
<1> QED BY <1>1, <1>7, <1>9

(* Every method, on data whose stamps are cleared, tells of its changes.    *)
LEMMA MethodsTell ==
  ASSUME Good(data), DataNext
  PROVE  Polled(data', data) /\ (Stays(data', data) \/ MSetDefault)
<1> DEFINE q == Quiet(data)
<1>1. /\ Good(q) /\ q.cache = data.cache /\ q.order = data.order /\ q.nextCache = data.nextCache
      /\ Record(q) /\ Record(data)
  BY StampsKeep DEF Preserves, Good, WellFormed, Record, DataFields, Quiet
<1>2. /\ Good(Pin(q)) /\ Pin(q).cache = data.cache /\ Pin(q).order = data.order
      /\ Pin(q).nextCache = data.nextCache
  BY <1>1, StampsKeep DEF Preserves, Record, DataFields, Pin
<1> HIDE DEF q
<1>3. ASSUME NEW d, d.cache = data.cache, d.order = data.order, Polled(data', d) PROVE Polled(data', data)
  BY <1>3 DEF Polled
<1>4. ASSUME data'.order \in {data.order, Append(data.order, data.nextCache)} PROVE Stays(data', data)
  BY <1>4, SameOrAppended
<1>5. CASE MRead \/ MFetch
  BY <1>1, <1>2, <1>4, <1>5 DEF MRead, MFetch, Polled, q
<1>6. CASE MDestroy
  <2>1. PICK c \in DOMAIN q.cache : data' = Destroy(q, c)
    BY <1>1, <1>6 DEF MDestroy, q
  <2>2. Polled(data', q) /\ Stays(data', q)
    BY <1>1, <2>1, DestroyTells, ToldIsPolled, DestroyOrders
  <2> QED BY <1>1, <1>3, <2>2 DEF Stays
<1>7. CASE MSetDefault
  <2>1. PICK c \in DOMAIN q.cache : data' = SetDefault(q, c)
    BY <1>1, <1>7 DEF MSetDefault, q
  <2>2. Polled(data', q)
    BY <1>1, <2>1, DestroyTells, ToldIsPolled
  <2> QED BY <1>1, <1>3, <1>7, <2>2
<1>8. CASE MMove
  <2>1. PICK c \in DOMAIN q.cache, to \in DOMAIN q.cache : data' = Move(q, c, to)
    BY <1>1, <1>8 DEF MMove, q
  <2>2. Polled(data', q) /\ Stays(data', q)
    BY <1>1, <2>1, MoveTells
  <2> QED BY <1>1, <1>3, <2>2 DEF Stays
<1>9. CASE MRemove
  <2>1. PICK c \in DOMAIN q.cache, k \in CredId : data' = RemoveCredentials(Pin(q), c, k)
    BY <1>1, <1>9 DEF MRemove, q
  <2>2. c \in DOMAIN Pin(q).cache
    BY <1>1, <1>2, <2>1
  <2>3. Told(data', Pin(q), {c}) /\ data'.order = Pin(q).order
    BY <1>2, <2>1, <2>2, CredentialsTell
  <2>4. Polled(data', Pin(q))
    BY <2>3, ToldIsPolled
  <2> QED BY <1>2, <1>3, <1>4, <2>3, <2>4
<1>10. CASE MStore
  <2>1. PICK c \in DOMAIN q.cache, new \in Creds : data' = StoreCredentials(q, c, new)
    BY <1>1, <1>10 DEF MStore, q
  <2>2. Told(data', q, {c}) /\ data'.order = q.order
    BY <1>1, <2>1, CredentialsTell
  <2>3. Polled(data', q)
    BY <2>2, ToldIsPolled
  <2> QED BY <1>1, <1>3, <1>4, <2>2, <2>3
<1>11. CASE MSetPrincipal
  <2>1. PICK c \in DOMAIN q.cache, v \in Version, p \in Principal :
          data' \in {SetPrincipal(q, c, v, p), CompatSetPrincipal(q, c, v, p)}
    BY <1>1, <1>11 DEF MSetPrincipal, q
  <2>2. Told(data', q, {c})
    BY <1>1, <2>1, SetPrincipalTells
  <2>3. Polled(data', q)
    BY <2>2, ToldIsPolled
  <2>4. SetPrincipal(q, c, v, p).order = q.order
    BY <1>1, <2>1, SetPrincipalKeeps DEF Alike
  <2>5. CompatSetPrincipal(q, c, v, p).order = q.order
    BY <1>1 DEF CompatSetPrincipal, Changed, Record, DataFields
  <2>6. data'.order = q.order
    BY <2>1, <2>4, <2>5
  <2> QED BY <1>1, <1>3, <1>4, <2>3, <2>6
<1>12. CASE MCreate
  <2>1. PICK v \in Version, p \in Principal :
          \/ \E n \in Name : data' = CreateCCache(q, n, v, p).d
          \/ data' = CreateDefaultCCache(q, v, p).d
          \/ data' = CreateNewCCache(q, v, p).d
    BY <1>12 DEF MCreate, q
  <2>2. \E n : data' = CreateCCache(q, n, v, p).d
    BY <2>1, Zenon DEF CreateDefaultCCache, CreateNewCCache
  <2>3. PICK n : data' = CreateCCache(q, n, v, p).d
    BY <2>2
  <2>4. Polled(data', q) /\ data'.order \in {data.order, Append(data.order, data.nextCache)}
    BY <1>1, <2>3, CreateTells, ToldIsPolled
  <2> QED BY <1>1, <1>3, <1>4, <2>4
<1> QED BY <1>5, <1>6, <1>7, <1>8, <1>9, <1>10, <1>11, <1>12, Zenon DEF DataNext

(* ChangesAreStamped: a client that polls the times of change misses no     *)
(* change of a cache and none of the list, whatever method made it.         *)
THEOREM StampsCorrect == DataSpec => ChangesAreStamped
<1>1. GoodData /\ [DataNext]_data
        => [/\ data'.cache # data.cache \/ data'.order # data.order => data'.stamped
            /\ \A c \in DOMAIN data.cache \cap DOMAIN data'.cache :
                 data'.cache[c] # data.cache[c] => c \in data'.touched]_data
  BY MethodsTell DEF GoodData, Polled
<1> QED BY AlwaysGood, <1>1, PTL DEF DataSpec, ChangesAreStamped

(* DefaultStays: creating, destroying and moving other caches, and whatever *)
(* is done to their contents, leave the default cache the default.          *)
THEOREM DefaultCorrect == DataSpec => DefaultStays
<1>1. GoodData /\ [DataNext]_data
        => [data.order # <<>> /\ Live(data', data.order[Default])
              => \/ data'.order[Default] = data.order[Default]
                 \/ \E c \in DOMAIN data.cache : data' = SetDefault(Quiet(data), c)]_data
  BY MethodsTell DEF GoodData, Stays, MSetDefault
<1> QED BY AlwaysGood, <1>1, PTL DEF DataSpec, DefaultStays
=============================================================================
