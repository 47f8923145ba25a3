----------------------------- MODULE CCacheData -----------------------------
(***************************************************************************)
(* The data layer of the credentials cache library,                        *)
(* krbcc/src/CCacheLib/Sources: one CCIContextData (the ordered list of    *)
(* caches, the first of which is the default), the CCICCacheData objects   *)
(* and the CCICredentialsData objects, with the tables of CCIUniqueGlobally *)
(* that turn an ID back into an object.  IDs are what the rest of the      *)
(* library holds, so an ID may outlive its object.                         *)
(*                                                                         *)
(* The data is one record, and each method is a function on it:            *)
(* CCacheContext makes a state machine of them, CCache2Compat composes     *)
(* them into the calls of the v2 interface.  The locks of the source     *)
(* (StReadLock, StWriteLock) are empty classes; the server serialises      *)
(* every call.                                                             *)
(***************************************************************************)
EXTENDS Integers, Sequences, FiniteSets, SequencesExt

CONSTANTS
  Name,             \* cache names
  InitialName,      \* sInitialDefaultCCacheName
  NewNames,         \* "0", "1", ...: the names CreateNewCCache tries, in order
  Principal,
  None,             \* the absence of a principal
  Service,          \* the services credentials are for
  MaxCaches,        \* bound: CCICCacheData objects ever made
  MaxCreds          \* bound: CCICredentialsData objects ever made

ASSUME DataAssumption ==
  /\ InitialName \in Name
  /\ NewNames \in Seq(Name)
  /\ None \notin Principal
  /\ MaxCaches \in Nat /\ MaxCreds \in Nat

Version == { "v4", "v5" }
CacheId == 0 .. MaxCaches - 1
CredId  == 0 .. MaxCreds - 1

(* What tells one set of credentials from another: the rest of the        *)
(* structure is copied and never looked at.                                *)
Creds   == [version : Version, service : Service]

(* principal[v] = None is mHavePrincipalV<v> = false.                      *)
Cache == [name : Name, principal : [Version -> Principal \cup {None}], creds : Seq(CredId)]

(* order: mCCaches.  cache, cred: the registries of live objects, with the *)
(* next ID of each.  pinned: the static proxy of the credentials registry  *)
(* has been used, so its Globals live on when the last credential goes.    *)
(* stamped, touched: whether the current call has reached the context's    *)
(* Changed(), and the caches whose Changed() it has reached.               *)
NoData ==
  [order |-> <<>>, cache |-> [c \in {} |-> {}], nextCache |-> 0,
   cred |-> [k \in {} |-> {}], nextCred |-> 0, pinned |-> FALSE,
   stamped |-> FALSE, touched |-> {}]

Live(d, c) == c \in DOMAIN d.cache
Default == 1
----------------------------------------------------------------------------
(* CCIContextData                                                          *)

Named(d, n) == { c \in ToSet(d.order) : d.cache[c].name = n }
Known(d, n) == Named(d, n) # {}
FindCCache(d, n) ==
  LET i == CHOOSE j \in DOMAIN d.order :
             /\ d.cache[d.order[j]].name = n
             /\ \A l \in 1 .. j - 1 : d.cache[d.order[l]].name # n
  IN  d.order[i]

GetDefaultCCacheName(d) ==
  IF d.order = <<>> THEN InitialName ELSE d.cache[d.order[Default]].name

(* Changed stamps the cache with a new time and its context with a later   *)
(* one (CCICurrentTime always increases).                                  *)
ContextChanged(d) == [d EXCEPT !.stamped = TRUE]
Changed(d, c)     == [d EXCEPT !.stamped = TRUE, !.touched = @ \cup {c}]

(* Mutant: RemoveCCache leaves the ID in the list.                         *)
RemoveCCacheStays(d, c) == ContextChanged(d)

RemoveCCache(d, c) == ContextChanged([d EXCEPT !.order = RemoveFirst(@, c)])
----------------------------------------------------------------------------
(* CCICCacheData                                                           *)

(* Mutant: the objects' own proxies do not count (bug BZ 252 of            *)
(* Documentation/Bugs), so the Globals go while credentials are left.      *)
DeleteCredsUncounted(d, S) ==
  LET left == DOMAIN d.cred \ S
  IN  [d EXCEPT !.cred = [k \in left |-> d.cred[k]],
                !.nextCred = IF ~d.pinned THEN 0 ELSE @]

(* Deleting credentials takes them out of the registry; when that empties  *)
(* a registry nobody has pinned, its Globals go too and IDs restart.       *)
DeleteCreds(d, S) ==
  LET left == DOMAIN d.cred \ S
  IN  [d EXCEPT !.cred = [k \in left |-> d.cred[k]],
                !.nextCred = IF left = {} /\ ~d.pinned THEN 0 ELSE @]

OfVersion(d, c, v) == { k \in ToSet(d.cache[c].creds) : d.cred[k].version = v }

(* What std::remove_if and erase leave of a vector: the others, in order.   *)
Without(s, gone) ==
  LET kept[i \in 0 .. Len(s)] ==
        IF i = 0 THEN <<>>
        ELSE IF s[i] \in gone THEN kept[i - 1] ELSE Append(kept[i - 1], s[i])
  IN  kept[Len(s)]

CompatSetPrincipal(d, c, v, p) == Changed([d EXCEPT !.cache[c].principal[v] = p], c)

(* Mutant: the credentials are deleted and their pointers kept.            *)
SetPrincipalKeepsPointers(d, c, v, p) ==
  Changed(DeleteCreds([d EXCEPT !.cache[c].principal[v] = p], OfVersion(d, c, v)), c)

SetPrincipal(d, c, v, p) ==
  LET gone == OfVersion(d, c, v)
      cut  == [d EXCEPT !.cache[c].principal[v] = p,
                        !.cache[c].creds = Without(@, gone)]
  IN  Changed(DeleteCreds(cut, gone), c)

(* Mutant: the least ID that is free.                                      *)
NewCCacheReusesId(d, n, v, p) ==
  LET c   == CHOOSE x \in CacheId \ DOMAIN d.cache : \A y \in CacheId \ DOMAIN d.cache : x <= y
      new == [name |-> n, principal |-> [w \in Version |-> IF w = v THEN p ELSE None],
              creds |-> <<>>]
  IN  Changed([d EXCEPT !.cache = [x \in DOMAIN @ \cup {c} |-> IF x = c THEN new ELSE @[x]],
                        !.nextCache = @ + 1], c)

(* new CCICCacheData: register it and stamp it.                            *)
NewCCache(d, n, v, p) ==
  LET c   == d.nextCache
      new == [name |-> n, principal |-> [w \in Version |-> IF w = v THEN p ELSE None],
              creds |-> <<>>]
  IN  Changed([d EXCEPT !.cache = [x \in DOMAIN @ \cup {c} |-> IF x = c THEN new ELSE @[x]],
                        !.nextCache = c + 1], c)

(* Mutant: CreateCCache pushes in front.                                   *)
CreateCCachePushFront(d, n, v, p) ==
  IF Known(d, n)
  THEN LET c == FindCCache(d, n) IN [d |-> SetPrincipal(d, c, v, p), id |-> c]
  ELSE [d |-> ContextChanged([NewCCache(d, n, v, p) EXCEPT !.order = <<d.nextCache>> \o @]),
        id |-> d.nextCache]

(* An existing cache gets the principal, loses that version's credentials  *)
(* and keeps its ID.                                                       *)
CreateCCache(d, n, v, p) ==
  IF Known(d, n)
  THEN LET c == FindCCache(d, n)
       IN  [d |-> ContextChanged(SetPrincipal(d, c, v, p)), id |-> c]
  ELSE [d |-> ContextChanged([NewCCache(d, n, v, p) EXCEPT !.order = Append(@, d.nextCache)]),
        id |-> d.nextCache]

CreateDefaultCCache(d, v, p) == CreateCCache(d, GetDefaultCCacheName(d), v, p)

CreateNewCCache(d, v, p) ==
  IF d.order = <<>> THEN CreateDefaultCCache(d, v, p)
  ELSE LET i == CHOOSE j \in DOMAIN NewNames :
                  /\ ~Known(d, NewNames[j])
                  /\ \A l \in 1 .. j - 1 : Known(d, NewNames[l])
       IN  CreateCCache(d, NewNames[i], v, p)

SetDefault(d, c) ==
  LET r == RemoveCCache(d, c) IN ContextChanged([r EXCEPT !.order = <<c>> \o @])

(* delete this: the destructor takes the cache out of the list; the        *)
(* credentials it points to stay registered, owned by nobody.              *)
Destroy(d, c) ==
  LET r == RemoveCCache(d, c)
  IN  [r EXCEPT !.cache = [x \in DOMAIN @ \ {c} |-> @[x]]]

StoreCredentials(d, c, new) ==
  LET k == d.nextCred
  IN  Changed([d EXCEPT !.cred = [x \in DOMAIN @ \cup {k} |-> IF x = k THEN new ELSE @[x]],
                        !.nextCred = k + 1,
                        !.cache[c].creds = Append(@, k)], c)

(* Mutant: the vector is changed and Changed() forgotten.                  *)
RemoveCredentialsQuiet(d, c, k) ==
  IF k \in ToSet(d.cache[c].creds)
  THEN DeleteCreds([d EXCEPT !.cache[c].creds = RemoveFirst(@, k)], {k}) ELSE d

(* Mutant: the pointer is set to nil and not erased.                       *)
RemoveCredentialsLeavesNil(d, c, k) ==
  LET nil == -1
      cut == IF k \in ToSet(d.cache[c].creds)
             THEN DeleteCreds([d EXCEPT !.cache[c].creds =
                               [i \in DOMAIN @ |-> IF @[i] = k THEN nil ELSE @[i]]], {k})
             ELSE d
  IN  Changed(cut, c)

RemoveCredentials(d, c, k) ==
  LET cut == IF k \in ToSet(d.cache[c].creds)
             THEN DeleteCreds([d EXCEPT !.cache[c].creds = RemoveFirst(@, k)], {k})
             ELSE d
  IN  Changed(cut, c)

(* The two caches swap principals and credentials; the source, which now   *)
(* holds what the destination held, is destroyed.  Moving a cache onto     *)
(* itself swaps nothing and destroys it.                                   *)
Move(d, c, to) ==
  LET swapped == [d EXCEPT !.cache[to] = [d.cache[c] EXCEPT !.name = d.cache[to].name],
                           !.cache[c]  = [d.cache[to] EXCEPT !.name = d.cache[c].name]]
  IN  Destroy(Changed(swapped, to), c)

(* The stamps of the call before are history.                              *)
Quiet(d) == [d EXCEPT !.stamped = FALSE, !.touched = {}]

(* CCICredentialsData::Resolve, found or not, uses the static proxy.       *)
Pin(d) == [d EXCEPT !.pinned = TRUE]

RoomForCache(d) == d.nextCache < MaxCaches
RoomForCred(d)  == d.nextCred < MaxCreds
=============================================================================
