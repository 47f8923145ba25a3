-------------------------- MODULE Krb4Client_proofs --------------------------
(***************************************************************************)
(* For any programs, realms, KDCs and bounds: nothing of the server is     *)
(* left open by a way out of the ticket file, a search that fails missed   *)
(* nothing, a listing is whole, and what is handed from call to call is a  *)
(* ticket where the caller takes it for one, whatever the other programs   *)
(* do to the file meanwhile.                                               *)
(***************************************************************************)
EXTENDS Krb4Client, CCache2Compat_proofs

(***************************************************************************)
(* The data of the server, of which this library uses the v4 part alone.   *)
(***************************************************************************)
OnlyV4(d) ==
  /\ \A c \in DOMAIN d.cache :
       "v4" \in DOMAIN d.cache[c].principal /\ d.cache[c].principal["v4"] # None
  /\ \A k \in DOMAIN d.cred : \E s : d.cred[k] = [version |-> "v4", service |-> s]

(* Lists match registries, no ticket is in two caches, and all is v4.      *)
FileData(d) == Good(d) /\ OwnsOnce(d) /\ OnlyV4(d)

(* The tickets of a cache.                                                 *)
Holding(d, c) == ToSet(d.cache[c].creds)

(* From d to e: tickets do not move into another cache, and a cache that    *)
(* stays keeps all of its tickets or none.                                 *)
Flows(d, e) ==
  /\ \A c \in DOMAIN e.cache : \A k \in Holding(e, c) \cap DOMAIN d.cred :
       c \in DOMAIN d.cache /\ k \in Holding(d, c)
  /\ \A c \in DOMAIN d.cache \cap DOMAIN e.cache :
       Holding(d, c) \subseteq Holding(e, c) \/ Holding(d, c) \cap Holding(e, c) = {}

(* What caches hold are registered tickets.                                *)
LEMMA HoldingLive ==
  ASSUME NEW d, FileData(d), NEW c \in DOMAIN d.cache
  PROVE  Holding(d, c) \subseteq DOMAIN d.cred
<1>1. d.cache[c].creds \in Seq(DOMAIN d.cred)
  BY DEF FileData, OwnsOnce
<1> QED BY <1>1, MembersOfSeq DEF Holding

(* The stamps and the pin are no part of it.                               *)
LEMMA StampsFlow ==
  ASSUME NEW d, FileData(d)
  PROVE  /\ FileData(Quiet(d)) /\ FileData(Pin(d))
         /\ Flows(d, d) /\ Flows(d, Quiet(d)) /\ Flows(d, Pin(d))
         /\ \A b : Flows(b, d) => Flows(b, Quiet(d)) /\ Flows(b, Pin(d))
<1>1. Good(Quiet(d)) /\ Good(Pin(d))
  BY StampsKeep DEF FileData, Preserves
<1>2. WellFormed(d)
  BY DEF FileData, Good
<1>3. OwnsOnce(Quiet(d)) /\ OwnsOnce(Pin(d))
  BY <1>2, StampsOwn DEF FileData
<1>4. Quiet(d).cache = d.cache /\ Quiet(d).cred = d.cred /\ Pin(d).cache = d.cache /\ Pin(d).cred = d.cred
  BY <1>2, StampsDo
<1>5. OnlyV4(Quiet(d)) /\ OnlyV4(Pin(d))
  BY <1>4 DEF OnlyV4, FileData
<1>6. /\ Flows(d, d) /\ Flows(d, Quiet(d)) /\ Flows(d, Pin(d))
      /\ \A b : Flows(b, d) => Flows(b, Quiet(d)) /\ Flows(b, Pin(d))
  BY <1>4 DEF Flows, Holding
<1> QED BY <1>1, <1>3, <1>5, <1>6 DEF FileData

(* Only cache c changed, and it kept its v4 principal.                     *)
LEMMA OneCacheFlows ==
  ASSUME NEW d, FileData(d), NEW e, NEW c \in DOMAIN d.cache, ChangesCache(d, e, c),
         Holding(d, c) \subseteq Holding(e, c) \/ Holding(d, c) \cap Holding(e, c) = {},
         Holding(e, c) \cap DOMAIN d.cred \subseteq Holding(d, c)
  PROVE  Flows(d, e)
BY DEF ChangesCache, Flows, Holding

(* Storing a ticket.                                                       *)
LEMMA StoreFlows ==
  ASSUME NEW d, FileData(d), NEW c \in DOMAIN d.cache, NEW s
  PROVE  LET e == StoreCredentials(d, c, [version |-> "v4", service |-> s])
         IN  FileData(e) /\ Flows(d, e)
<1> DEFINE new == [version |-> "v4", service |-> s]
           e   == StoreCredentials(d, c, new)
           k   == d.nextCred
<1>1. Good(d) /\ OwnsOnce(d) /\ WellFormed(d)
  BY DEF FileData, Good
<1>2. Good(e) /\ OwnsOnce(e)
  BY <1>1, StoreCredentialsKeeps, StoreCredentialsOwns
<1>3. CredsStored(d, e, c, new)
  BY <1>1, StoreCredentialsDoes
<1> HIDE DEF e
<1>4. k \notin DOMAIN d.cred
  BY <1>1 DEF Good, Below
<1>5. Holding(e, c) = Holding(d, c) \cup {k}
  <2>1. d.cache[c].creds \in Seq(DOMAIN d.cred)
    BY <1>1 DEF OwnsOnce
  <2> DEFINE t == d.cache[c].creds
  <2>2. e.cache[c].creds = Append(t, k)
    BY <1>3 DEF CredsStored
  <2> HIDE DEF t, k
  <2>3. t \in Seq(DOMAIN d.cred)
    BY <2>1 DEF t
  <2>4. /\ DOMAIN Append(t, k) = 1 .. Len(t) + 1 /\ Len(t) \in Nat /\ DOMAIN t = 1 .. Len(t)
        /\ \A i \in 1 .. Len(t) : Append(t, k)[i] = t[i]
        /\ Append(t, k)[Len(t) + 1] = k
    BY <2>3
  <2>5. ToSet(Append(t, k)) = ToSet(t) \cup {k}
    BY <2>4 DEF ToSet
  <2> QED BY <2>2, <2>5 DEF Holding, t
<1>6. Flows(d, e)
  BY <1>3, <1>4, <1>5, OneCacheFlows DEF CredsStored
<1>7. OnlyV4(e)
  <2>1. ASSUME NEW b \in DOMAIN e.cache
        PROVE  "v4" \in DOMAIN e.cache[b].principal /\ e.cache[b].principal["v4"] # None
    BY <1>3 DEF CredsStored, ChangesCache, FileData, OnlyV4
  <2>2. ASSUME NEW x \in DOMAIN e.cred
        PROVE  \E y : e.cred[x] = [version |-> "v4", service |-> y]
    BY <1>3 DEF CredsStored, FileData, OnlyV4
  <2> QED BY <2>1, <2>2 DEF OnlyV4
<1> QED BY <1>2, <1>6, <1>7 DEF FileData, e, new

(* Destroying a cache.                                                     *)
LEMMA DestroyFlows ==
  ASSUME NEW d, FileData(d), NEW c \in DOMAIN d.cache
  PROVE  FileData(Destroy(d, c)) /\ Flows(d, Destroy(d, c))
<1> DEFINE e == Destroy(d, c)
<1>1. Good(d) /\ OwnsOnce(d) /\ WellFormed(d)
  BY DEF FileData, Good
<1>2. Good(e) /\ OwnsOnce(e)
  BY <1>1, DestroyKeeps, CachesOwn
<1>3. CacheGone(d, e, c)
  BY <1>1, DestroyDoes
<1> HIDE DEF e
<1>4. Flows(d, e)
  BY <1>3 DEF CacheGone, Flows, Holding
<1>5. OnlyV4(e)
  <2>1. \A b \in DOMAIN e.cache :
          "v4" \in DOMAIN e.cache[b].principal /\ e.cache[b].principal["v4"] # None
    BY <1>3 DEF CacheGone, OnlyV4, FileData
  <2>2. ASSUME NEW k \in DOMAIN e.cred PROVE \E s : e.cred[k] = [version |-> "v4", service |-> s]
    <3>1. k \in DOMAIN d.cred /\ e.cred[k] = d.cred[k]
      BY <1>3 DEF CacheGone
    <3> QED BY <3>1 DEF OnlyV4, FileData
  <2> QED BY <2>1, <2>2 DEF OnlyV4
<1> QED BY <1>2, <1>4, <1>5 DEF FileData, e

(* Making the file: anew, or on what is there, of which no v4 ticket stays. *)
LEMMA CreateFlows ==
  ASSUME NEW d, FileData(d), NEW n, NEW p \in Principal
  PROVE  LET e == CreateCCache(d, n, "v4", p).d
         IN  FileData(e) /\ Flows(d, e)
<1> DEFINE made == CreateCCache(d, n, "v4", p)
           e == made.d
<1>1. Good(d) /\ OwnsOnce(d) /\ WellFormed(d) /\ p # None
  BY DataAssumption DEF FileData, Good
<1>2. Good(e) /\ OwnsOnce(e)
  BY <1>1, CreateCCacheKeeps, CreateCCacheOwns
<1>3. CASE ~Known(d, n)
  <2>1. CacheMade(d, made, n, "v4", p)
    BY <1>1, <1>3, CreateCCacheDoes
  <2> HIDE DEF made
  <2>2. /\ DOMAIN e.cache = DOMAIN d.cache \cup {d.nextCache}
        /\ e.cache[d.nextCache].principal = [w \in Version |-> IF w = "v4" THEN p ELSE None]
        /\ e.cache[d.nextCache].creds = <<>> /\ e.cred = d.cred
        /\ \A b \in DOMAIN d.cache \ {d.nextCache} : e.cache[b] = d.cache[b]
    BY <2>1 DEF CacheMade
  <2>3. d.nextCache \notin DOMAIN d.cache
    BY <1>1 DEF Good, Below
  <2>4. Holding(e, d.nextCache) = {}
    BY <2>2 DEF Holding, ToSet
  <2> HIDE DEF e
  <2>5. OnlyV4(e)
    <3>1. ASSUME NEW b \in DOMAIN e.cache
          PROVE  "v4" \in DOMAIN e.cache[b].principal /\ e.cache[b].principal["v4"] # None
      <4>1. CASE b = d.nextCache
        BY <1>1, <2>2, <4>1 DEF Version
      <4>2. CASE b # d.nextCache
        BY <2>2, <4>2 DEF OnlyV4, FileData
      <4> QED BY <4>1, <4>2
    <3>2. \A k \in DOMAIN e.cred : \E s : e.cred[k] = [version |-> "v4", service |-> s]
      <4>1. e.cred = d.cred
        BY <2>2
      <4>2. \A k \in DOMAIN d.cred : \E s : d.cred[k] = [version |-> "v4", service |-> s]
        BY DEF OnlyV4, FileData
      <4> QED BY <4>1, <4>2, Zenon
    <3> QED BY <3>1, <3>2 DEF OnlyV4
  <2>6. Flows(d, e)
    <3>1. ASSUME NEW c \in DOMAIN d.cache
          PROVE  c \in DOMAIN e.cache /\ Holding(e, c) = Holding(d, c)
      <4>1. e.cache[c] = d.cache[c] /\ c \in DOMAIN e.cache
        BY <2>2, <2>3
      <4> QED BY <4>1 DEF Holding
    <3> QED BY <2>2, <2>4, <3>1 DEF Flows
  <2> QED BY <1>2, <2>5, <2>6 DEF FileData, e, made
<1>4. CASE Known(d, n)
  <2> DEFINE c == FindCCache(d, n)
             f == SetPrincipal(d, c, "v4", p)
             gone == OfVersion(d, c, "v4")
  <2>1. c \in DOMAIN d.cache
    BY <1>1, <1>4, FindsLive
  <2>2. CacheRemade(made, f, c)
    BY <1>1, <1>4, CreateKnownDoes
  <2>3. PrincipalSet(d, f, c, "v4", p)
    BY <1>1, <2>1, SetPrincipalDoes
  <2> HIDE DEF made, f, c
  <2>4. e.cache = f.cache /\ e.cred = f.cred
    BY <2>2 DEF CacheRemade
  <2>5. /\ ChangesCache(d, f, c)
        /\ f.cache[c].principal = [d.cache[c].principal EXCEPT !["v4"] = p]
        /\ f.cache[c].creds = Without(d.cache[c].creds, gone)
        /\ f.cred = [k \in DOMAIN d.cred \ gone |-> d.cred[k]]
    BY <2>3 DEF PrincipalSet
  <2>6. gone = Holding(d, c)
    <3>1. ASSUME NEW k \in Holding(d, c) PROVE d.cred[k].version = "v4"
      <4>1. k \in DOMAIN d.cred
        BY <2>1, HoldingLive
      <4>2. PICK s : d.cred[k] = [version |-> "v4", service |-> s]
        BY <4>1 DEF FileData, OnlyV4
      <4> QED BY <4>2
    <3>2. gone = { k \in Holding(d, c) : d.cred[k].version = "v4" }
      BY DEF OfVersion, Holding
    <3> HIDE DEF gone
    <3> QED BY <3>1, <3>2
  <2>7. Holding(f, c) = {}
    <3>1. /\ d.cache[c].creds \in Seq(DOMAIN d.cred) /\ IsInjective(d.cache[c].creds)
      BY <1>1, <2>1 DEF OwnsOnce
    <3>2. ToSet(Without(d.cache[c].creds, gone)) = ToSet(d.cache[c].creds) \ gone
      BY <3>1, WithoutProperties
    <3> QED BY <2>5, <2>6, <3>2 DEF Holding
  <2>8. Flows(d, f)
    BY <2>1, <2>5, <2>7, OneCacheFlows
  <2> HIDE DEF gone
  <2>9. OnlyV4(f)
    <3>1. ASSUME NEW b \in DOMAIN f.cache
          PROVE  "v4" \in DOMAIN f.cache[b].principal /\ f.cache[b].principal["v4"] # None
      BY <1>1, <2>1, <2>5 DEF ChangesCache, FileData, OnlyV4
    <3>2. \A k \in DOMAIN f.cred : \E s : f.cred[k] = [version |-> "v4", service |-> s]
      BY <2>5 DEF FileData, OnlyV4
    <3> QED BY <3>1, <3>2 DEF OnlyV4
  <2> HIDE DEF e
  <2>10. OnlyV4(e) /\ Flows(d, e)
    BY <2>4, <2>8, <2>9 DEF OnlyV4, Flows, Holding
  <2> QED BY <1>2, <2>10 DEF FileData, e, made
<1> QED BY <1>3, <1>4

(* A ticket expires.                                                       *)
LEMMA ExpiryFlows ==
  ASSUME NEW d, FileData(d), NEW k \in DOMAIN d.cred
  PROVE  LET e == [d EXCEPT !.cred[k].service.old = TRUE]
         IN  FileData(e) /\ Flows(d, e)
<1> DEFINE y == [d.cred[k].service EXCEPT !.old = TRUE]
           x == [d.cred[k] EXCEPT !.service = y]
           m == [d.cred EXCEPT ![k] = x]
           e == [d EXCEPT !.cred = m]
<1>1. Good(d) /\ OwnsOnce(d) /\ WellFormed(d)
  BY DEF FileData, Good
<1>2. [d EXCEPT !.cred[k].service.old = TRUE] = e
  BY <1>1 DEF WellFormed, Record, DataFields
<1>3. x = [version |-> "v4", service |-> y]
  <2>1. PICK s : d.cred[k] = [version |-> "v4", service |-> s]
    BY DEF FileData, OnlyV4
  <2> HIDE DEF y
  <2> QED BY <2>1
<1> HIDE DEF x, y
<1>4. /\ m = [b \in DOMAIN d.cred |-> m[b]] /\ DOMAIN m = DOMAIN d.cred
      /\ m[k] = x /\ \A b \in DOMAIN d.cred \ {k} : m[b] = d.cred[b]
  BY <1>1 DEF WellFormed
<1> HIDE DEF m
<1>5. /\ Record(e) /\ e.order = d.order /\ e.nextCache = d.nextCache /\ e.cache = d.cache
      /\ e.nextCred = d.nextCred /\ e.cred = m
  BY <1>1 DEF WellFormed, Record, DataFields
<1> HIDE DEF e
<1>6. Good(e)
  BY <1>1, <1>4, <1>5 DEF Good, WellFormed
<1>7. OwnsOnce(e)
  BY <1>1, <1>4, <1>5 DEF OwnsOnce
<1>8. OnlyV4(e)
  <2>1. \A c \in DOMAIN e.cache :
          "v4" \in DOMAIN e.cache[c].principal /\ e.cache[c].principal["v4"] # None
    BY <1>5 DEF FileData, OnlyV4
  <2>2. ASSUME NEW b \in DOMAIN e.cred PROVE \E s : e.cred[b] = [version |-> "v4", service |-> s]
    <3>1. CASE b = k
      BY <1>3, <1>4, <1>5, <3>1
    <3>2. CASE b # k
      <4>1. b \in DOMAIN d.cred /\ e.cred[b] = d.cred[b]
        BY <1>4, <1>5, <3>2
      <4> QED BY <4>1 DEF FileData, OnlyV4
    <3> QED BY <3>1, <3>2
  <2> QED BY <2>1, <2>2 DEF OnlyV4
<1>9. Flows(d, e)
  BY <1>5 DEF Flows, Holding
<1> QED BY <1>2, <1>6, <1>7, <1>8, <1>9 DEF FileData

(***************************************************************************)
(* The server and its objects.                                             *)
(***************************************************************************)
FileRight(l) == LibFormed(l) /\ DOMAIN l.heap \subseteq Pointer /\ FileData(l.data)

(* Other data under the same objects.                                      *)
LEMMA OnDataRight ==
  ASSUME NEW l, FileRight(l), NEW d, FileData(d)
  PROVE  /\ FileRight(OnData(l, d)) /\ OnData(l, d).data = d /\ OnData(l, d).heap = l.heap
<1>1. OtherData(l, OnData(l, d), d)
  BY OnDataDoes DEF FileRight
<1> QED BY <1>1 DEF FileRight, OtherData

(* What the library leaves becomes the state, without its stamps.          *)
LEMMA LibDoes ==
  ASSUME NEW l, FileRight(l), Lib(l)
  PROVE  /\ FileRight(lib') /\ lib'.heap = l.heap
         /\ lib'.data.cache = l.data.cache /\ lib'.data.order = l.data.order
         /\ lib'.data.cred = l.data.cred
         /\ \A d : Flows(d, l.data) => Flows(d, lib'.data)
<1>1. FileData(l.data) /\ WellFormed(l.data)
  BY DEF FileRight, FileData, Good
<1>2. FileData(Quiet(l.data)) /\ \A d : Flows(d, l.data) => Flows(d, Quiet(l.data))
  BY <1>1, StampsFlow
<1>3. /\ Quiet(l.data).cache = l.data.cache /\ Quiet(l.data).order = l.data.order
      /\ Quiet(l.data).cred = l.data.cred
  BY <1>1, StampsDo
<1>4. lib' = OnData(l, Quiet(l.data))
  BY DEF Lib
<1>5. /\ FileRight(OnData(l, Quiet(l.data))) /\ OnData(l, Quiet(l.data)).data = Quiet(l.data)
      /\ OnData(l, Quiet(l.data)).heap = l.heap
  BY <1>2, OnDataRight
<1> QED BY <1>2, <1>3, <1>4, <1>5

(* A new object.                                                           *)
LEMMA GivenDoes ==
  ASSUME NEW l, FileRight(l), Room(l), NEW obj
  PROVE  LET r == Given(l, obj)
         IN  /\ r.err = "CC_NOERROR" /\ Added(l, r.lib, r.ptr, obj)
             /\ FileRight(r.lib) /\ r.lib.data = l.data /\ r.ptr \in Nat \ {0}
<1>1. Added(l, Make(l, obj), NewPointer(l), obj)
  BY MakeAdds DEF FileRight
<1>2. /\ Given(l, obj).lib = Make(l, obj) /\ Given(l, obj).ptr = NewPointer(l)
      /\ Given(l, obj).err = "CC_NOERROR"
  BY DEF Given
<1>3. FileRight(Make(l, obj))
  BY <1>1 DEF Added, FileRight
<1>4. NewPointer(l) \in Nat \ {0}
  BY <1>1, ObjectsAssumption DEF Added, Pointer
<1> QED BY <1>1, <1>2, <1>3, <1>4 DEF Added

(* An object freed.                                                        *)
LEMMA FreeDoes ==
  ASSUME NEW l, FileRight(l), NEW q
  PROVE  FileRight(Free(l, q)) /\ Freed(l, Free(l, q), q)
<1>1. Freed(l, Free(l, q), q)
  BY FreeFrees DEF FileRight
<1> QED BY <1>1 DEF Freed, FileRight

(* The file is one cache, or there is none.                                *)
LEMMA FileIsOneCache ==
  ASSUME NEW l, FileRight(l)
  PROVE  /\ ~Known(l.data, File) => InFile(l) = {}
         /\ Known(l.data, File)
              => LET c == FindCCache(l.data, File)
                 IN  Live(l.data, c) /\ Has(l, c, "v4") /\ InFile(l) \subseteq Holding(l.data, c)
         /\ \A k \in InFile(l) : \E c \in DOMAIN l.data.cache : k \in Holding(l.data, c)
<1> DEFINE d == l.data
           c == FindCCache(d, File)
<1>1. FileData(d) /\ Good(d) /\ Listed(d.order, d.cache)
  BY DEF FileRight, FileData, Good
<1>2. ToSet(d.order) \subseteq DOMAIN d.cache
  BY <1>1, MembersOfSeq DEF Listed
<1>3. \A b \in Named(d, File) : b \in DOMAIN d.cache /\ d.cache[b].name = File
  BY <1>2 DEF Named
<1>4. InFile(l) = UNION { Holding(d, b) : b \in Named(d, File) }
  BY DEF InFile, Holding
<1>5. ~Known(d, File) => InFile(l) = {}
  BY <1>4 DEF Known
<1>6. \A k \in InFile(l) : \E b \in DOMAIN d.cache : k \in Holding(d, b)
  BY <1>3, <1>4
<1>7. ASSUME Known(d, File)
      PROVE  Live(d, c) /\ Has(l, c, "v4") /\ InFile(l) \subseteq Holding(d, c)
  <2>1. c \in DOMAIN d.cache
    BY <1>1, <1>7, FindsLive
  <2>2. d.cache[c].name = File
    BY <1>1, <1>7, FindsLive
  <2>3. \A b \in Named(d, File) : b = c
    BY <1>1, <1>3, <2>1, <2>2 DEF Listed
  <2>4. InFile(l) \subseteq Holding(d, c)
    BY <1>4, <2>3
  <2>5. Has(l, c, "v4")
    BY <1>1, <2>1 DEF Has, FileData, OnlyV4
  <2> QED BY <2>1, <2>4, <2>5 DEF Live
<1> QED BY <1>5, <1>6, <1>7

(***************************************************************************)
(* Call stacks.                                                            *)
(***************************************************************************)
FrameFields == {"proc", "at", "name", "realm", "ptr", "x"}

(* The places where a frame has something of the server.                   *)
Special == {"name", "next", "store", "shut", "close", "destroy"}

(* What a frame is, whatever its procedure; a plain one keeps nothing of    *)
(* the server, and has nothing in the cursor.                              *)
XRight(proc, x) ==
  /\ proc \in {"get_cred", "klist"} => x = [n \in DOMAIN x |-> x[n]] /\ "res" \in DOMAIN x
  /\ proc = "klist" => "got" \in DOMAIN x
FrameRight(f) ==
  /\ f = [n \in FrameFields |-> f[n]]
  /\ f.proc \in {"in_tkt", "get_in_tkt"} => f.name \in Principal
  /\ XRight(f.proc, f.x)
Plain(f) == f.ptr = 0 /\ f.at \notin Special

(* A call stack: only the innermost frame may be at such a place.          *)
StackRight(s) ==
  /\ s \in Seq(ToSet(s)) /\ Len(s) <= MaxDepth
  /\ \A i \in 1 .. Len(s) : FrameRight(s[i])
  /\ \A i \in 2 .. Len(s) : Plain(s[i])

(* The innermost frame, and those that stay under it.                      *)
LEMMA StackParts ==
  ASSUME NEW s, StackRight(s), s # <<>>
  PROVE  /\ FrameRight(Head(s)) /\ Head(s) = s[1] /\ Len(s) \in Nat \ {0} /\ DOMAIN s = 1 .. Len(s)
         /\ Tail(s) \in Seq(ToSet(s)) /\ Len(Tail(s)) = Len(s) - 1
         /\ \A i \in 1 .. Len(s) - 1 : Tail(s)[i] = s[i + 1]
<1> DEFINE T == ToSet(s)
<1>1. s \in Seq(T)
  BY DEF StackRight
<1> HIDE DEF T
<1>2. /\ Head(s) = s[1] /\ Len(s) \in Nat \ {0} /\ DOMAIN s = 1 .. Len(s)
      /\ Tail(s) \in Seq(T) /\ Len(Tail(s)) = Len(s) - 1
      /\ \A i \in 1 .. Len(s) - 1 : Tail(s)[i] = s[i + 1]
  BY <1>1
<1>3. FrameRight(s[1])
  BY <1>2 DEF StackRight
<1> QED BY <1>2, <1>3 DEF T

(* A sequence of right frames, plain from the second on.                   *)
LEMMA StackIs ==
  ASSUME NEW T, NEW r \in Seq(T), Len(r) <= MaxDepth,
         \A i \in 1 .. Len(r) : FrameRight(r[i]), \A i \in 2 .. Len(r) : Plain(r[i])
  PROVE  StackRight(r)
<1>1. r \in Seq(ToSet(r))
  BY SeqOfMembers
<1> QED BY <1>1 DEF StackRight

(* The innermost frame goes on, calls, or returns.                         *)
LEMMA StackTurns ==
  ASSUME NEW s, StackRight(s), s # <<>>, NEW f, FrameRight(f)
  PROVE  /\ StackRight(<<f>> \o Tail(s)) /\ <<f>> \o Tail(s) # <<>> /\ Head(<<f>> \o Tail(s)) = f
         /\ Len(<<f>> \o Tail(s)) = Len(s)
<1> DEFINE n == Len(s)
           T == ToSet(s) \cup {f}
           b == Tail(s)
           r == <<f>> \o b
<1>1. /\ n \in Nat \ {0} /\ b \in Seq(T) /\ Len(b) = n - 1
      /\ \A i \in 1 .. n - 1 : b[i] = s[i + 1]
  <2>1. b \in Seq(ToSet(s))
    BY StackParts
  <2>2. b \in Seq(T)
    <3> DEFINE S == ToSet(s)
    <3> HIDE DEF S
    <3> QED BY <2>1 DEF S
  <2> QED BY <2>2, StackParts
<1>2. /\ \A i \in 1 .. n : FrameRight(s[i])
      /\ \A i \in 2 .. n : Plain(s[i])
      /\ n <= MaxDepth
  BY DEF StackRight
<1> HIDE DEF b, n, T
<1>3. f \in T
  BY DEF T
<1>4. /\ r \in Seq(T) /\ Len(r) = n /\ Head(r) = f /\ r[1] = f
      /\ \A i \in 2 .. n : r[i] = b[i - 1]
  BY <1>1, <1>3
<1> HIDE DEF r
<1>5. \A i \in 2 .. n : r[i] = s[i]
  <2>1. ASSUME NEW i \in 2 .. n PROVE r[i] = s[i]
    <3>1. i - 1 \in 1 .. n - 1 /\ (i - 1) + 1 = i
      BY <1>1
    <3> QED BY <1>1, <1>4, <3>1
  <2> QED BY <2>1
<1>6. StackRight(r)
  <2>1. \A i \in 1 .. Len(r) : FrameRight(r[i])
    <3>1. ASSUME NEW i \in 1 .. n PROVE FrameRight(r[i])
      <4>1. CASE i = 1
        BY <1>4, <4>1
      <4>2. CASE i # 1
        <5>1. i \in 2 .. n
          BY <1>1, <4>2
        <5> QED BY <1>2, <1>5, <5>1
      <4> QED BY <4>1, <4>2
    <3> QED BY <1>4, <3>1
  <2>2. \A i \in 2 .. Len(r) : Plain(r[i])
    BY <1>2, <1>4, <1>5
  <2> QED BY <1>2, <1>4, <2>1, <2>2, StackIs
<1>7. r # <<>>
  BY <1>1, <1>4
<1> QED BY <1>4, <1>6, <1>7 DEF r, b, n

(* The innermost frame calls.                                              *)
LEMMA StackCalls ==
  ASSUME NEW s, StackRight(s), s # <<>>, Len(s) < MaxDepth, NEW f, FrameRight(f),
         NEW g, FrameRight(g), Plain(g)
  PROVE  /\ StackRight(<<f, g>> \o Tail(s)) /\ <<f, g>> \o Tail(s) # <<>>
         /\ Head(<<f, g>> \o Tail(s)) = f
<1> DEFINE n == Len(s)
           S == ToSet(s)
           T == S \cup {f, g}
           b == Tail(s)
           r == <<f, g>> \o b
<1>1. /\ n \in Nat \ {0} /\ b \in Seq(S) /\ Len(b) = n - 1
      /\ \A i \in 1 .. n - 1 : b[i] = s[i + 1]
  BY StackParts
<1>2. /\ \A i \in 1 .. n : FrameRight(s[i])
      /\ \A i \in 2 .. n : Plain(s[i])
      /\ n < MaxDepth /\ MaxDepth \in Nat
  BY FileAssumption DEF StackRight
<1> HIDE DEF b, n, S
<1>3. b \in Seq(T) /\ f \in T /\ g \in T
  BY <1>1
<1> HIDE DEF T
<1>4. /\ r \in Seq(T) /\ Len(r) = n + 1 /\ Head(r) = f /\ r[1] = f /\ r[2] = g
      /\ \A i \in 3 .. n + 1 : r[i] = b[i - 2]
  BY <1>1, <1>3
<1> HIDE DEF r
<1>5. \A i \in 3 .. n + 1 : r[i] = s[i - 1] /\ i - 1 \in 2 .. n
  <2>1. ASSUME NEW i \in 3 .. n + 1 PROVE r[i] = s[i - 1] /\ i - 1 \in 2 .. n
    <3>1. i - 2 \in 1 .. n - 1 /\ (i - 2) + 1 = i - 1 /\ i - 1 \in 2 .. n
      BY <1>1
    <3> QED BY <1>1, <1>4, <3>1
  <2> QED BY <2>1
<1>6. StackRight(r)
  <2>1. ASSUME NEW i \in 1 .. n + 1 PROVE FrameRight(r[i]) /\ (i # 1 => Plain(r[i]))
    <3>1. CASE i = 1
      BY <1>4, <3>1
    <3>2. CASE i = 2
      BY <1>4, <3>2
    <3>3. CASE i \in 3 .. n + 1
      <4>1. r[i] = s[i - 1] /\ i - 1 \in 2 .. n /\ i - 1 \in 1 .. n
        BY <1>1, <1>5, <3>3
      <4> QED BY <1>2, <4>1
    <3> QED BY <1>1, <3>1, <3>2, <3>3
  <2>2. \A i \in 2 .. n + 1 : i \in 1 .. n + 1 /\ i # 1
    BY <1>1
  <2>3. n + 1 <= MaxDepth
    BY <1>1, <1>2
  <2> QED BY <1>4, <2>1, <2>2, <2>3, StackIs
<1>7. r # <<>>
  BY <1>1, <1>4
<1> QED BY <1>4, <1>6, <1>7 DEF r, b

(* The innermost frame returns.                                            *)
LEMMA StackReturns ==
  ASSUME NEW s, StackRight(s), s # <<>>
  PROVE  StackRight(Tail(s)) /\ (Tail(s) # <<>> => Plain(Head(Tail(s))))
<1> DEFINE n == Len(s)
           T == ToSet(s)
           b == Tail(s)
<1>1. /\ n \in Nat \ {0} /\ b \in Seq(T) /\ Len(b) = n - 1
      /\ \A i \in 1 .. n - 1 : b[i] = s[i + 1]
  BY StackParts
<1>2. /\ \A i \in 1 .. n : FrameRight(s[i])
      /\ \A i \in 2 .. n : Plain(s[i])
      /\ n <= MaxDepth /\ MaxDepth \in Nat
  BY FileAssumption DEF StackRight
<1> HIDE DEF b, n, T
<1>3. \A i \in 1 .. n - 1 : FrameRight(b[i]) /\ Plain(b[i])
  <2>1. ASSUME NEW i \in 1 .. n - 1 PROVE FrameRight(b[i]) /\ Plain(b[i])
    <3>1. i + 1 \in 1 .. n /\ i + 1 \in 2 .. n
      BY <1>1
    <3> QED BY <1>1, <1>2, <3>1
  <2> QED BY <2>1
<1>4. StackRight(b)
  <2>1. \A i \in 2 .. Len(b) : i \in 1 .. n - 1
    BY <1>1
  <2>2. n - 1 <= MaxDepth
    BY <1>1, <1>2
  <2> QED BY <1>1, <1>3, <2>1, <2>2, StackIs
<1>5. b # <<>> => Plain(Head(b))
  <2>1. b # <<>> => Head(b) = b[1] /\ 1 \in 1 .. n - 1
    BY <1>1
  <2> QED BY <1>3, <2>1
<1> QED BY <1>4, <1>5 DEF b

(***************************************************************************)
(* The invariant.                                                          *)
(***************************************************************************)
(* Where a thread may have something in its cursor, or in its frame.        *)
InPlace(s, c) ==
  /\ c = [ref |-> c.ref, it |-> c.it] /\ c.ref \in Nat /\ c.it \in Nat
  /\ c # NoCursor =>
       /\ c.ref # 0 /\ s # <<>> /\ Head(s).proc \in Opened
       /\ Head(s).at \in {"name", "next", "store", "shut", "close"}
  /\ s # <<>> /\ Head(s).proc \in Opened /\ Head(s).at \in {"name", "next", "store", "shut"}
       => c.ref # 0
  /\ s # <<>> /\ Head(s).at = "name" => c.it = 0
  /\ s # <<>> /\ Head(s).ptr # 0 => Head(s).proc \notin Opened /\ Head(s).at \in {"destroy", "close"}

(* The server's objects that a thread has.                                 *)
Mine(s, c) == ({c.ref, c.it} \cup (IF s = <<>> THEN {} ELSE {Head(s).ptr})) \ {0}
Own(t) == Mine(stack[t], cursor[t])

(* What the objects in a cursor are: a reference and, another object, an   *)
(* iterator.                                                               *)
Objects(l, c) ==
  /\ c.ref # 0 => c.ref # c.it /\ l.heap[c.ref].version = "v4"
  /\ c.it # 0 =>
       \E i, x, n : /\ l.heap[c.it] = [kind |-> "creds", id |-> i, set |-> x, pos |-> n, version |-> "v4"]
                    /\ n \in Nat \ {0} /\ x \in Seq(ToSet(x))

(* The tickets that a listing has noted.                                   *)
Got(f) == IF f.proc = "klist" THEN f.x.got ELSE {}

(* The tickets th, but for those that are noted, are ahead of the iterator, *)
(* all of whose tickets its cache still holds.                             *)
Ahead(l, o, th, got) ==
  /\ o.id \in DOMAIN l.data.cache
  /\ ToSet(o.set) \subseteq Holding(l.data, o.id) /\ th \subseteq Holding(l.data, o.id)
  /\ \A k \in th : k \in got \/ \E i \in o.pos .. Len(o.set) : o.set[i] = k

(* How what a search is to find comes to be found.                         *)
Found(l, s, c, th) ==
  Searches(s) =>
    LET f == Head(s)
    IN  /\ f.at \in {"name", "next"} /\ c.it = 0 =>
             \/ th = {}
             \/ /\ l.heap[c.ref].id \in DOMAIN l.data.cache
                /\ th \subseteq Holding(l.data, l.heap[c.ref].id)
        /\ f.at \in {"name", "next"} /\ c.it # 0 => th = {} \/ Ahead(l, l.heap[c.it], th, Got(f))
        /\ f.at = "close" /\ f.proc = "get_cred" /\ f.x.res.code # "KSUCCESS" => th = {}
        /\ f.at = "close" /\ f.proc = "klist" /\ f.x.res.code = "EOF" => th \subseteq f.x.got

(* All that holds of a thread with stack s and cursor c which watches th.  *)
ThreadRight(l, s, c, th) ==
  /\ StackRight(s) /\ InPlace(s, c)
  /\ Mine(s, c) \subseteq DOMAIN l.heap /\ Objects(l, c)
  /\ Found(l, s, c, th)

(* The invariant: every thread is right, and every object of the server is *)
(* one of exactly one thread.                                              *)
KInv ==
  /\ FileRight(lib)
  /\ stack = [t \in Thread |-> stack[t]]
  /\ cursor = [t \in Thread |-> cursor[t]]
  /\ \A t \in Thread : ThreadRight(lib, stack[t], cursor[t], there[t])
  /\ \A t, u \in Thread : t # u => Own(t) \cap Own(u) = {}
  /\ \A q \in DOMAIN lib.heap : \E t \in Thread : q \in Own(t)

(***************************************************************************)
(* A step of one thread, for itself and for the others.                    *)
(***************************************************************************)
Watched(m, s, th) ==
  IF ~Searches(s) THEN {}
  ELSE IF Head(s).at = "start" THEN Sought(m, Head(s)) ELSE th \cap Sought(m, Head(s))

(* What Watches records for one thread.                                    *)
LEMMA WatchesOne ==
  ASSUME Watches, NEW t \in Thread
  PROVE  there'[t] = Watched(lib', stack'[t], there[t])
<1>1. there'[t] = CASE ~Searches(stack'[t]) -> {}
                    [] Searches(stack'[t]) /\ Head(stack'[t]).at = "start" -> Sought(lib', Head(stack'[t]))
                    [] OTHER -> there[t] \cap Sought(lib', Head(stack'[t]))
  BY DEF Watches
<1>2. CASE ~Searches(stack'[t])
  BY <1>1, <1>2 DEF Watched
<1>3. CASE Searches(stack'[t]) /\ Head(stack'[t]).at = "start"
  BY <1>1, <1>3 DEF Watched
<1>4. CASE Searches(stack'[t]) /\ Head(stack'[t]).at # "start"
  BY <1>1, <1>4 DEF Watched
<1> QED BY <1>2, <1>3, <1>4

(* Tickets that a search still watches are in the file.                    *)
LEMMA WatchedInFile ==
  ASSUME NEW m, NEW s, NEW th, s = <<>> \/ Head(s).at # "start"
  PROVE  Watched(m, s, th) \subseteq th \cap InFile(m)
BY DEF Watched, Searches, Sought

(* Tickets of one cache that are in the file afterwards: there are none, or  *)
(* the cache is still there with all it had.                               *)
LEMMA FoundFlows ==
  ASSUME NEW l, FileRight(l), NEW m, FileRight(m), Flows(l.data, m.data),
         NEW c \in DOMAIN l.data.cache, NEW th, th \subseteq Holding(l.data, c) \cap InFile(m)
  PROVE  \/ th = {}
         \/ c \in DOMAIN m.data.cache /\ Holding(l.data, c) \subseteq Holding(m.data, c)
<1> SUFFICES ASSUME NEW k \in th
             PROVE  c \in DOMAIN m.data.cache /\ Holding(l.data, c) \subseteq Holding(m.data, c)
  OBVIOUS
<1>1. FileData(l.data) /\ k \in DOMAIN l.data.cred
  BY HoldingLive DEF FileRight
<1>2. PICK b \in DOMAIN m.data.cache : k \in Holding(m.data, b)
  BY FileIsOneCache
<1>3. b \in DOMAIN l.data.cache /\ k \in Holding(l.data, b)
  BY <1>1, <1>2 DEF Flows
<1>4. b = c
  BY <1>1, <1>3 DEF FileData, OwnsOnce, Holding
<1> QED BY <1>2, <1>4 DEF Flows

(* A thread that makes no step stays right, while others change the data    *)
(* and leave its objects.                                                  *)
LEMMA OthersKeep ==
  ASSUME NEW l, FileRight(l), NEW m, FileRight(m), Flows(l.data, m.data),
         NEW s, NEW c, NEW th, ThreadRight(l, s, c, th),
         \A q \in Mine(s, c) : q \in DOMAIN m.heap /\ m.heap[q] = l.heap[q]
  PROVE  ThreadRight(m, s, c, Watched(m, s, th))
<1> DEFINE tw == Watched(m, s, th)
           f == Head(s)
<1>1. InPlace(s, c) /\ Objects(l, c) /\ Found(l, s, c, th)
  BY DEF ThreadRight
<1>2. /\ c.ref # 0 => m.heap[c.ref] = l.heap[c.ref]
      /\ c.it # 0 => m.heap[c.it] = l.heap[c.it]
  BY DEF Mine
<1>3. Objects(m, c)
  BY <1>1, <1>2 DEF Objects
<1>4. ASSUME f.at # "start" PROVE tw \subseteq th \cap InFile(m)
  BY <1>4, WatchedInFile
<1> HIDE DEF tw
<1>5. Found(m, s, c, tw)
  <2> SUFFICES ASSUME Searches(s) PROVE Found(m, s, c, tw)
    BY DEF Found
  <2>1. ASSUME f.at \in {"name", "next"}, c.it = 0
        PROVE  tw = {} \/ (/\ m.heap[c.ref].id \in DOMAIN m.data.cache
                           /\ tw \subseteq Holding(m.data, m.heap[c.ref].id))
    <3> DEFINE i == l.heap[c.ref].id
    <3>1. c.ref # 0 /\ m.heap[c.ref].id = i
      BY <1>1, <1>2, <2>1 DEF InPlace, Searches, Opened
    <3>2. th = {} \/ (i \in DOMAIN l.data.cache /\ th \subseteq Holding(l.data, i))
      BY <1>1, <2>1 DEF Found
    <3>3. tw \subseteq th \cap InFile(m)
      BY <1>4, <2>1
    <3> HIDE DEF i
    <3>4. CASE i \in DOMAIN l.data.cache /\ th \subseteq Holding(l.data, i)
      <4>1. tw \subseteq Holding(l.data, i) \cap InFile(m)
        BY <3>3, <3>4
      <4>2. tw = {} \/ (i \in DOMAIN m.data.cache /\ Holding(l.data, i) \subseteq Holding(m.data, i))
        BY <3>4, <4>1, FoundFlows
      <4> QED BY <3>1, <4>1, <4>2
    <3> QED BY <3>2, <3>3, <3>4
  <2>2. ASSUME f.at \in {"name", "next"}, c.it # 0
        PROVE  tw = {} \/ Ahead(m, m.heap[c.it], tw, Got(f))
    <3> DEFINE o == l.heap[c.it]
               g == Got(f)
    <3>1. m.heap[c.it] = o
      BY <1>2, <2>2
    <3>2. th = {} \/ Ahead(l, o, th, g)
      BY <1>1, <2>2 DEF Found
    <3>3. tw \subseteq th \cap InFile(m)
      BY <1>4, <2>2
    <3> HIDE DEF o, g
    <3>4. CASE Ahead(l, o, th, g)
      <4>1. tw \subseteq Holding(l.data, o.id) \cap InFile(m) /\ o.id \in DOMAIN l.data.cache
        BY <3>3, <3>4 DEF Ahead
      <4>2. tw = {} \/ (o.id \in DOMAIN m.data.cache /\ Holding(l.data, o.id) \subseteq Holding(m.data, o.id))
        BY <4>1, FoundFlows
      <4> QED BY <3>1, <3>3, <3>4, <4>1, <4>2 DEF Ahead, g
    <3> QED BY <3>2, <3>3, <3>4
  <2>3. f.at = "close" => tw \subseteq th
    BY <1>4
  <2> QED BY <1>1, <2>1, <2>2, <2>3 DEF Found
<1> QED BY <1>3, <1>5 DEF ThreadRight, tw

(* Thread t makes a step after which the server is m, and it has stack s and *)
(* cursor c.                                                               *)
Moves(t, m, s, c) ==
  /\ FileRight(m) /\ Flows(lib.data, m.data)
  /\ \A q \in DOMAIN lib.heap \ Own(t) : m.heap[q] = lib.heap[q]
  /\ DOMAIN m.heap = (DOMAIN lib.heap \ Own(t)) \cup Mine(s, c)
  /\ Mine(s, c) \cap (DOMAIN lib.heap \ Own(t)) = {}
  /\ ThreadRight(m, s, c, Watched(m, s, there[t]))

(* The step of the system is one that thread t makes.                      *)
Acts(t) ==
  \E s, c : /\ stack' = [stack EXCEPT ![t] = s] /\ cursor' = [cursor EXCEPT ![t] = c]
            /\ Moves(t, lib', s, c)

(* A step of one thread keeps the invariant.                               *)
LEMMA StepKeeps ==
  ASSUME KInv, NEW t \in Thread, Acts(t), Watches
  PROVE  KInv'
<1>1. PICK s, c : /\ stack' = [stack EXCEPT ![t] = s] /\ cursor' = [cursor EXCEPT ![t] = c]
                  /\ Moves(t, lib', s, c)
  BY DEF Acts
<1>2. /\ stack' = [u \in Thread |-> stack'[u]]
      /\ cursor' = [u \in Thread |-> cursor'[u]]
      /\ stack'[t] = s /\ cursor'[t] = c
      /\ \A u \in Thread \ {t} : stack'[u] = stack[u] /\ cursor'[u] = cursor[u]
  <2>1. stack = [u \in Thread |-> stack[u]] /\ cursor = [u \in Thread |-> cursor[u]]
    BY DEF KInv
  <2>2. /\ stack' = [u \in Thread |-> stack'[u]] /\ stack'[t] = s
        /\ \A u \in Thread \ {t} : stack'[u] = stack[u]
    BY <1>1, <2>1
  <2>3. /\ cursor' = [u \in Thread |-> cursor'[u]] /\ cursor'[t] = c
        /\ \A u \in Thread \ {t} : cursor'[u] = cursor[u]
    BY <1>1, <2>1
  <2> QED BY <2>2, <2>3
<1>3. Own(t)' = Mine(s, c) /\ \A u \in Thread \ {t} : Own(u)' = Own(u)
  BY <1>2 DEF Own
<1>4. \A u \in Thread : there'[u] = Watched(lib', stack'[u], there[u])
  BY WatchesOne
<1>5. ASSUME NEW u \in Thread \ {t} PROVE Own(u) \subseteq DOMAIN lib.heap \ Own(t)
  BY DEF KInv, ThreadRight, Own
<1>6. ASSUME NEW u \in Thread
      PROVE  ThreadRight(lib', stack'[u], cursor'[u], there'[u])
  <2>1. CASE u = t
    BY <1>1, <1>2, <1>4, <2>1 DEF Moves
  <2>2. CASE u # t
    <3>1. ThreadRight(lib, stack[u], cursor[u], there[u]) /\ FileRight(lib)
      BY DEF KInv
    <3>2. \A q \in Mine(stack[u], cursor[u]) : q \in DOMAIN lib'.heap /\ lib'.heap[q] = lib.heap[q]
      BY <1>1, <1>5, <2>2 DEF Moves, Own
    <3>3. FileRight(lib') /\ Flows(lib.data, lib'.data)
      BY <1>1 DEF Moves
    <3>4. ThreadRight(lib', stack[u], cursor[u], Watched(lib', stack[u], there[u]))
      BY <3>1, <3>2, <3>3, OthersKeep
    <3> QED BY <1>2, <1>4, <2>2, <3>4
  <2> QED BY <2>1, <2>2
<1>7. ASSUME NEW u \in Thread, NEW v \in Thread, u # v PROVE Own(u)' \cap Own(v)' = {}
  <2>1. CASE u # t /\ v # t
    BY <1>3, <1>7, <2>1 DEF KInv
  <2>2. CASE u = t \/ v = t
    <3>1. \A w \in Thread \ {t} : Own(t)' \cap Own(w)' = {}
      BY <1>1, <1>3, <1>5 DEF Moves
    <3> QED BY <1>7, <2>2, <3>1
  <2> QED BY <2>1, <2>2
<1>8. ASSUME NEW q \in DOMAIN lib'.heap PROVE \E u \in Thread : q \in Own(u)'
  <2>1. CASE q \in Mine(s, c)
    BY <1>3, <2>1
  <2>2. CASE q \in DOMAIN lib.heap \ Own(t)
    <3>1. PICK u \in Thread : q \in Own(u)
      BY <2>2 DEF KInv
    <3> QED BY <1>3, <2>2, <3>1
  <2> QED BY <1>1, <2>1, <2>2 DEF Moves
<1>9. FileRight(lib')
  BY <1>1 DEF Moves
<1> QED BY <1>2, <1>6, <1>7, <1>8, <1>9 DEF KInv

(***************************************************************************)
(* The steps that leave the server alone.                                  *)
(***************************************************************************)
(* A thread that is idle or at a plain frame has nothing of the server.     *)
LEMMA PlainHasNone ==
  ASSUME KInv, NEW t \in Thread, ~Busy(t) \/ Plain(Top(t))
  PROVE  cursor[t] = NoCursor /\ Own(t) = {} /\ StackRight(stack[t])
<1>1. InPlace(stack[t], cursor[t]) /\ StackRight(stack[t])
  BY DEF KInv, ThreadRight
<1>2. cursor[t] = NoCursor
  BY <1>1 DEF InPlace, Busy, Top, Plain, Special
<1>3. cursor[t].ref = 0 /\ cursor[t].it = 0
  BY <1>2 DEF NoCursor
<1>4. Own(t) = {}
  BY <1>3 DEF Own, Mine, Busy, Top, Plain
<1> QED BY <1>1, <1>2, <1>4

(* With an empty cursor, at a plain frame or at none, nothing is required.  *)
LEMMA PlainIsRight ==
  ASSUME NEW l, NEW s, StackRight(s), s = <<>> \/ Plain(Head(s)), NEW th
  PROVE  ThreadRight(l, s, NoCursor, th) /\ Mine(s, NoCursor) = {}
<1>1. NoCursor = [ref |-> 0, it |-> 0] /\ NoCursor.ref = 0 /\ NoCursor.it = 0
  BY DEF NoCursor
<1>2. InPlace(s, NoCursor)
  BY <1>1 DEF InPlace, Plain, Special
<1>3. Mine(s, NoCursor) = {} /\ Objects(l, NoCursor)
  BY <1>1 DEF Mine, Objects, Plain
<1>4. Found(l, s, NoCursor, th)
  BY DEF Found, Searches, Plain, Special
<1> QED BY <1>2, <1>3, <1>4 DEF ThreadRight

(* A thread at a plain frame, or at none, that leaves the server alone.    *)
LEMMA PlainActs ==
  ASSUME KInv, NEW t \in Thread, ~Busy(t) \/ Plain(Top(t)), Keeps,
         NEW s, StackRight(s), s = <<>> \/ Plain(Head(s)), stack' = [stack EXCEPT ![t] = s]
  PROVE  Acts(t)
<1>1. cursor[t] = NoCursor /\ Own(t) = {}
  BY PlainHasNone
<1>2. cursor' = [cursor EXCEPT ![t] = NoCursor] /\ lib' = lib
  <2>1. cursor = [u \in Thread |-> cursor[u]]
    BY DEF KInv
  <2> QED BY <1>1, <2>1 DEF Keeps
<1>3. FileRight(lib) /\ Flows(lib.data, lib.data)
  BY StampsFlow DEF KInv, FileRight
<1>4. \A th : ThreadRight(lib, s, NoCursor, th) /\ Mine(s, NoCursor) = {}
  BY PlainIsRight
<1>5. Moves(t, lib, s, NoCursor)
  BY <1>1, <1>3, <1>4 DEF Moves
<1> QED BY <1>2, <1>5 DEF Acts

(* A plain frame goes on as a plain one, calls, or returns.                *)
LEMMA PlainTurns ==
  ASSUME KInv, NEW t \in Thread, Busy(t), Plain(Top(t)), Keeps,
         NEW f, FrameRight(f), Plain(f), Becomes(t, f)
  PROVE  Acts(t)
<1> DEFINE s == <<f>> \o Tail(stack[t])
<1>1. StackRight(stack[t]) /\ stack[t] # <<>>
  BY PlainHasNone DEF Busy
<1>2. StackRight(s) /\ Head(s) = f
  BY <1>1, StackTurns
<1>3. stack' = [stack EXCEPT ![t] = s]
  BY DEF Becomes
<1> HIDE DEF s
<1> QED BY <1>2, <1>3, PlainActs

(* It calls.                                                               *)
LEMMA PlainCalls ==
  ASSUME KInv, NEW t \in Thread, Busy(t), Plain(Top(t)), Keeps,
         NEW f, FrameRight(f), Plain(f), NEW g, FrameRight(g), Plain(g),
         Len(stack[t]) < MaxDepth, stack' = [stack EXCEPT ![t] = <<f, g>> \o Tail(@)]
  PROVE  Acts(t)
<1> DEFINE s == <<f, g>> \o Tail(stack[t])
<1>1. StackRight(stack[t]) /\ stack[t] # <<>>
  BY PlainHasNone DEF Busy
<1>2. StackRight(s) /\ Head(s) = f
  BY <1>1, StackCalls
<1>3. stack' = [stack EXCEPT ![t] = s]
  OBVIOUS
<1> HIDE DEF s
<1> QED BY <1>2, <1>3, PlainActs

(* It returns.                                                             *)
LEMMA PlainReturns ==
  ASSUME KInv, NEW t \in Thread, Busy(t), Plain(Top(t)), Keeps, NEW code, NEW val, Returns(t, code, val)
  PROVE  Acts(t)
<1> DEFINE s == Tail(stack[t])
<1>1. StackRight(stack[t]) /\ stack[t] # <<>>
  BY PlainHasNone DEF Busy
<1>2. StackRight(s) /\ (s = <<>> \/ Plain(Head(s)))
  BY <1>1, StackReturns
<1>3. stack' = [stack EXCEPT ![t] = s]
  BY DEF Returns
<1> HIDE DEF s
<1> QED BY <1>2, <1>3, PlainActs

(* The innermost frame of a thread, at a place.                            *)
LEMMA TopIs ==
  ASSUME KInv, NEW t \in Thread, Busy(t)
  PROVE  /\ FrameRight(Top(t)) /\ StackRight(stack[t]) /\ Head(stack[t]) = Top(t)
         /\ InPlace(stack[t], cursor[t])
         /\ Top(t).at \notin Special => Plain(Top(t))
<1>1. StackRight(stack[t]) /\ InPlace(stack[t], cursor[t])
  BY DEF KInv, ThreadRight
<1>2. FrameRight(Top(t))
  BY <1>1, StackParts DEF Busy, Top
<1>3. Top(t).at \notin Special => Plain(Top(t))
  BY <1>1 DEF InPlace, Plain, Special, Busy, Top
<1> QED BY <1>1, <1>2, <1>3 DEF Top

(* A frame at another place, and with something else in x.                 *)
LEMMA FrameGoes ==
  ASSUME NEW f, FrameRight(f), NEW at
  PROVE  LET g == [f EXCEPT !.at = at]
         IN  /\ FrameRight(g) /\ g.at = at /\ g.ptr = f.ptr /\ g.proc = f.proc
             /\ g.name = f.name /\ g.realm = f.realm /\ g.x = f.x
<1> DEFINE g == [f EXCEPT !.at = at]
<1>1. f = [n \in FrameFields |-> f[n]]
  BY DEF FrameRight
<1>2. /\ g = [n \in FrameFields |-> g[n]] /\ g.at = at /\ g.ptr = f.ptr /\ g.proc = f.proc
      /\ g.name = f.name /\ g.realm = f.realm /\ g.x = f.x
  BY <1>1 DEF FrameFields
<1> HIDE DEF g
<1>3. FrameRight(g)
  BY <1>2 DEF FrameRight
<1> QED BY <1>2, <1>3 DEF g

(* A frame at another place, with another x.                               *)
Gotten(f, at, x) == [f EXCEPT !.at = at, !.x = x]

(* It is a right frame when the x is one for its procedure.                *)
LEMMA FrameGets ==
  ASSUME NEW f, FrameRight(f), NEW at, NEW x, XRight(f.proc, x)
  PROVE  LET g == Gotten(f, at, x)
         IN  /\ FrameRight(g) /\ g.at = at /\ g.ptr = f.ptr /\ g.proc = f.proc
             /\ g.name = f.name /\ g.realm = f.realm /\ g.x = x
<1> DEFINE g == Gotten(f, at, x)
<1>1. f = [n \in FrameFields |-> f[n]]
  BY DEF FrameRight
<1>2. /\ g = [n \in FrameFields |-> g[n]] /\ g.at = at /\ g.ptr = f.ptr /\ g.proc = f.proc
      /\ g.name = f.name /\ g.realm = f.realm /\ g.x = x
  BY <1>1 DEF FrameFields, Gotten
<1> HIDE DEF g
<1>3. FrameRight(g)
  BY <1>2 DEF FrameRight
<1> QED BY <1>2, <1>3 DEF g

(* The frames that calls start with.                                       *)
LEMMA FramesRight ==
  /\ \A name, realm :
       /\ FrameRight(GetCred(name, realm)) /\ Plain(GetCred(name, realm))
       /\ FrameRight(MkReq(name, realm)) /\ Plain(MkReq(name, realm))
       /\ FrameRight(GetAdTkt(name, realm)) /\ Plain(GetAdTkt(name, realm))
       /\ \A p : FrameRight(Save(name, realm, p)) /\ Plain(Save(name, realm, p))
       /\ \A req : FrameRight(Exchange(name, realm, req)) /\ Plain(Exchange(name, realm, req))
  /\ FrameRight(Fullname) /\ Plain(Fullname)
  /\ \A p \in Principal :
       /\ FrameRight(Login(p)) /\ Plain(Login(p))
       /\ FrameRight(Frame("in_tkt", p, Home, NoX)) /\ Plain(Frame("in_tkt", p, Home, NoX))
  /\ FrameRight(Frame("dest_tkt", NoRealm, NoRealm, NoX)) /\ Plain(Frame("dest_tkt", NoRealm, NoRealm, NoX))
  /\ FrameRight(Klist) /\ Plain(Klist)
<1>1. ASSUME NEW proc \in Procs, NEW name, NEW realm, NEW x,
             proc \in {"in_tkt", "get_in_tkt"} => name \in Principal,
             XRight(proc, x)
      PROVE  FrameRight(Frame(proc, name, realm, x)) /\ Plain(Frame(proc, name, realm, x))
  <2> DEFINE g == Frame(proc, name, realm, x)
  <2>1. /\ g = [n \in FrameFields |-> g[n]] /\ g.at = "start" /\ g.ptr = 0 /\ g.proc = proc
        /\ g.name = name /\ g.x = x
    BY DEF Frame, FrameFields
  <2> HIDE DEF g
  <2>2. FrameRight(g) /\ Plain(g)
    BY <1>1, <2>1 DEF FrameRight, Plain, Special
  <2> QED BY <2>2 DEF g
<1> HIDE DEF Frame
<1>2. ASSUME NEW name, NEW realm
      PROVE  /\ FrameRight(GetCred(name, realm)) /\ Plain(GetCred(name, realm))
             /\ FrameRight(MkReq(name, realm)) /\ Plain(MkReq(name, realm))
             /\ FrameRight(GetAdTkt(name, realm)) /\ Plain(GetAdTkt(name, realm))
             /\ \A p : FrameRight(Save(name, realm, p)) /\ Plain(Save(name, realm, p))
             /\ \A req : FrameRight(Exchange(name, realm, req)) /\ Plain(Exchange(name, realm, req))
  <2> DEFINE x == [res |-> Nothing, prompt |-> TRUE]
  <2>1. XRight("get_cred", x)
    BY DEF XRight
  <2> HIDE DEF x
  <2>2. FrameRight(Frame("get_cred", name, realm, x)) /\ Plain(Frame("get_cred", name, realm, x))
    BY <1>1, <2>1 DEF Procs
  <2>3. \A y : /\ FrameRight(Frame("mk_req", name, realm, y)) /\ Plain(Frame("mk_req", name, realm, y))
               /\ FrameRight(Frame("get_ad_tkt", name, realm, y)) /\ Plain(Frame("get_ad_tkt", name, realm, y))
               /\ FrameRight(Frame("save", name, realm, y)) /\ Plain(Frame("save", name, realm, y))
               /\ FrameRight(Frame("exchange", name, realm, y)) /\ Plain(Frame("exchange", name, realm, y))
    BY <1>1 DEF Procs, XRight
  <2> QED BY <2>2, <2>3, Zenon DEF x, GetCred, MkReq, GetAdTkt, Save, Exchange
<1>3. FrameRight(Fullname) /\ Plain(Fullname)
  BY <1>1 DEF Procs, Fullname, XRight
<1>4. \A p \in Principal :
       /\ FrameRight(Login(p)) /\ Plain(Login(p))
       /\ FrameRight(Frame("in_tkt", p, Home, NoX)) /\ Plain(Frame("in_tkt", p, Home, NoX))
  BY <1>1 DEF Procs, Login, XRight
<1>5. FrameRight(Frame("dest_tkt", NoRealm, NoRealm, NoX)) /\ Plain(Frame("dest_tkt", NoRealm, NoRealm, NoX))
  BY <1>1 DEF Procs, XRight
<1>6. FrameRight(Klist) /\ Plain(Klist)
  <2> DEFINE x == [res |-> Nothing, got |-> {}]
             f == Frame("klist", NoRealm, NoRealm, x)
  <2>1. XRight("klist", x)
    BY DEF XRight
  <2> HIDE DEF x
  <2>2. FrameRight(f) /\ Plain(f)
    BY <1>1, <2>1 DEF Procs
  <2>3. Klist = [f EXCEPT !.at = "probe"]
    BY DEF Klist, x
  <2> HIDE DEF f
  <2>4. FrameRight(Klist) /\ Klist.at = "probe" /\ Klist.ptr = f.ptr
    BY <2>2, <2>3, FrameGoes
  <2> QED BY <2>2, <2>4 DEF Plain, Special
<1> QED BY <1>2, <1>3, <1>4, <1>5, <1>6

(* A plain frame goes to another place.                                    *)
LEMMA GoesActs ==
  ASSUME KInv, NEW t \in Thread, Busy(t), Plain(Top(t)), Keeps, NEW at, at \notin Special, Goto(t, at)
  PROVE  Acts(t)
<1> DEFINE g == [Top(t) EXCEPT !.at = at]
<1>1. FrameRight(g) /\ Plain(g)
  BY TopIs, FrameGoes DEF Plain
<1>2. Becomes(t, g)
  BY DEF Goto
<1> HIDE DEF g
<1> QED BY <1>1, <1>2, PlainTurns

(* A plain frame goes to another place with something else in x.           *)
LEMMA WithActs ==
  ASSUME KInv, NEW t \in Thread, Busy(t), Plain(Top(t)), Keeps, NEW at, at \notin Special,
         NEW x, XRight(Top(t).proc, x), With(t, at, x)
  PROVE  Acts(t)
<1> DEFINE f == Top(t)
           g == Gotten(f, at, x)
<1>1. FrameRight(g) /\ Plain(g)
  <2>1. FrameRight(f) /\ Plain(f)
    BY TopIs
  <2>2. FrameRight(g) /\ g.at = at /\ g.ptr = f.ptr
    BY <2>1, FrameGets
  <2> QED BY <2>1, <2>2 DEF Plain
<1>2. Becomes(t, g)
  BY DEF With, Gotten
<1> HIDE DEF g
<1> QED BY <1>1, <1>2, PlainTurns

(* A plain frame calls a procedure.                                        *)
LEMMA EntersActs ==
  ASSUME KInv, NEW t \in Thread, Busy(t), Plain(Top(t)), Keeps, NEW at, at \notin Special,
         NEW f, FrameRight(f), Plain(f), Enters(t, f, at)
  PROVE  Acts(t)
<1> DEFINE g == [Top(t) EXCEPT !.at = at]
<1>1. FrameRight(g) /\ Plain(g)
  BY TopIs, FrameGoes DEF Plain
<1>2. Len(stack[t]) < MaxDepth /\ stack' = [stack EXCEPT ![t] = <<f, g>> \o Tail(@)]
  BY DEF Enters, Calls, Top
<1> HIDE DEF g
<1> QED BY <1>1, <1>2, PlainCalls

(* get_ad_tkt calls, and keeps the realm, or the ticket, that it got.      *)
LEMMA AdTktCalls ==
  ASSUME KInv, NEW t \in Thread, Busy(t), Plain(Top(t)), Keeps, NEW at, at \notin Special,
         Top(t).proc = "get_ad_tkt", NEW l
  PROVE  /\ LooksForTgt(t, l, at) => Acts(t)
         /\ HasTgt(t) => Acts(t)
<1>1. FrameRight(Top(t))
  BY TopIs
<1>0. \A a, y : LET g == Gotten(Top(t), a, y)
               IN  FrameRight(g) /\ g.at = a /\ g.ptr = Top(t).ptr
  <2> DEFINE f == Top(t)
  <2>1. FrameRight(f) /\ \A y : XRight(f.proc, y)
    BY <1>1 DEF XRight
  <2> HIDE DEF f
  <2>2. \A a, y : LET g == Gotten(f, a, y)
                 IN  FrameRight(g) /\ g.at = a /\ g.ptr = f.ptr
    BY <2>1, FrameGets
  <2> QED BY <2>2 DEF f
<1>2. ASSUME LooksForTgt(t, l, at) PROVE Acts(t)
  <2> DEFINE y == [Top(t).x EXCEPT !.l = l]
             g == Gotten(Top(t), at, y)
             f == GetCred(Top(t).realm, l)
  <2>1. FrameRight(g) /\ Plain(g)
    <3> HIDE DEF y
    <3> QED BY <1>0 DEF Plain
  <2>2. [Top(t) EXCEPT !.at = at, !.x.l = l] = g
    BY <1>1 DEF FrameRight, FrameFields, Gotten
  <2>3. Len(stack[t]) < MaxDepth /\ stack' = [stack EXCEPT ![t] = <<f, g>> \o Tail(@)]
    BY <1>2, <2>2 DEF LooksForTgt
  <2>4. FrameRight(f) /\ Plain(f)
    BY FramesRight
  <2> HIDE DEF f, g
  <2> QED BY <2>1, <2>3, <2>4, PlainCalls
<1>3. ASSUME HasTgt(t) PROVE Acts(t)
  <2> DEFINE y == [Top(t).x EXCEPT !.cr = ret[t].val]
             g == Gotten(Top(t), "request", y)
             f == MkReq(Top(t).realm, Top(t).x.l)
  <2>1. FrameRight(g) /\ Plain(g)
    <3> HIDE DEF y
    <3>1. FrameRight(g) /\ g.at = "request" /\ g.ptr = Top(t).ptr
      BY <1>0
    <3> QED BY <3>1 DEF Plain, Special
  <2>2. [Top(t) EXCEPT !.at = "request", !.x.cr = ret[t].val] = g
    BY <1>1 DEF FrameRight, FrameFields, Gotten
  <2>3. Len(stack[t]) < MaxDepth /\ stack' = [stack EXCEPT ![t] = <<f, g>> \o Tail(@)]
    BY <1>3, <2>2 DEF HasTgt
  <2>4. FrameRight(f) /\ Plain(f)
    BY FramesRight
  <2> HIDE DEF f, g
  <2> QED BY <2>1, <2>3, <2>4, PlainCalls
<1> QED BY <1>2, <1>3

(* A caller goes on with what its callee left.                             *)
LEMMA ResumesPlain ==
  ASSUME KInv, NEW t \in Thread, NEW procs, NEW at, at \notin Special, At(t, procs, at)
  PROVE  Busy(t) /\ Plain(Top(t)) /\ Top(t).proc \in procs /\ FrameRight(Top(t))
BY TopIs DEF At

(* send_kdc.c.                                                             *)
LEMMA ExchangeActs ==
  ASSUME KInv, NEW t \in Thread,
         NextHost(t) \/ NextRound(t) \/ NoAnswer(t) \/ Timeout(t) \/ Receive(t)
  PROVE  Acts(t)
<1>1. At(t, {"exchange"}, "start") \/ At(t, {"exchange"}, "wait")
  BY DEF NextHost, NextRound, NoAnswer, Timeout, Receive, RoundOver
<1>2. Busy(t) /\ Plain(Top(t)) /\ Top(t).proc = "exchange"
  BY <1>1, ResumesPlain DEF Special
<1>3. Keeps
  BY DEF NextHost, NextRound, NoAnswer, Timeout, Receive
<1>4. /\ "start" \notin Special /\ "wait" \notin Special
  BY DEF Special
<1>10. \A x : XRight(Top(t).proc, x)
  BY <1>2 DEF XRight
<1>5. CASE NextHost(t)
  <2>1. (\E x : With(t, "wait", x)) \/ (\E x : With(t, "start", x))
    BY <1>5 DEF NextHost
  <2> QED BY <1>2, <1>3, <1>4, <1>10, <2>1, WithActs
<1>6. CASE NextRound(t)
  BY <1>2, <1>3, <1>4, <1>6, <1>10, WithActs DEF NextRound
<1>7. CASE NoAnswer(t)
  BY <1>2, <1>3, <1>7, PlainReturns DEF NoAnswer
<1>8. CASE Timeout(t)
  BY <1>2, <1>3, <1>4, <1>8, GoesActs DEF Timeout
<1>9. CASE Receive(t)
  <2>1. \/ Goto(t, "start")
        \/ Returns(t, "KSUCCESS", Top(t).x.req)
        \/ Returns(t, "INTK_ERR", NoRealm)
    <3>1. CASE Head(inbox[t]) = "stray"
      BY <1>9, <3>1 DEF Receive
    <3>2. CASE Head(inbox[t]) = "granted"
      BY <1>9, <3>2 DEF Receive
    <3>3. CASE Head(inbox[t]) \notin {"stray", "granted"}
      BY <1>9, <3>3 DEF Receive
    <3> QED BY <3>1, <3>2, <3>3
  <2> QED BY <1>2, <1>3, <1>4, <2>1, GoesActs, PlainReturns
<1> QED BY <1>5, <1>6, <1>7, <1>8, <1>9

(* mk_req.c.                                                               *)
LEMMA MkReqActs ==
  ASSUME KInv, NEW t \in Thread, mk_req(t)
  PROVE  Acts(t)
<1> DEFINE f == Top(t)
<1>0. {"start", "realm", "first", "got", "again"} \cap Special = {}
  BY DEF Special
<1>1. \E at \in {"start", "realm", "first", "got", "again"} : At(t, {"mk_req"}, at) /\ Keeps
  BY DEF mk_req, Resumes
<1>2. Busy(t) /\ Plain(Top(t)) /\ Keeps
  BY <1>0, <1>1, ResumesPlain
<1>3. \/ Enters(t, Fullname, "realm")
      \/ Enters(t, GetCred(f.name, f.realm), "first")
      \/ Enters(t, GetAdTkt(f.name, f.realm), "got")
      \/ Enters(t, GetCred(f.name, f.realm), "again")
      \/ Passes(t)
  <2>1. CASE Resumes(t, "mk_req", "realm") /\
             CASE Code(t) = "KSUCCESS" -> Enters(t, GetCred(f.name, f.realm), "first")
               [] Code(t) = "NO_TKT_FIL" -> Enters(t, GetAdTkt(f.name, f.realm), "got")
               [] OTHER -> Passes(t)
    <3>1. CASE Code(t) = "KSUCCESS"
      BY <2>1, <3>1
    <3>2. CASE Code(t) = "NO_TKT_FIL"
      BY <2>1, <3>2
    <3>3. CASE Code(t) \notin {"KSUCCESS", "NO_TKT_FIL"}
      BY <2>1, <3>3
    <3> QED BY <3>1, <3>2, <3>3
  <2> QED BY <2>1 DEF mk_req
<1> HIDE DEF f
<1>4. Passes(t) => Acts(t)
  BY <1>2, PlainReturns DEF Passes
<1> QED BY <1>0, <1>2, <1>3, <1>4, EntersActs, FramesRight

(* getadtkt.c.                                                             *)
LEMMA GetAdTktActs ==
  ASSUME KInv, NEW t \in Thread, FindsRealm(t) \/ GetsTgt(t) \/ AsksKdc(t)
  PROVE  Acts(t)
<1> DEFINE f == Top(t)
           places == {"start", "realm", "login", "realm2", "tgt", "cross", "tgt2", "request",
                      "answer", "saved"}
<1>0. places \cap Special = {}
  BY DEF Special
<1>1. \E at \in places : At(t, {"get_ad_tkt"}, at) /\ Keeps
  BY DEF FindsRealm, GetsTgt, AsksKdc, Resumes
<1>2. Busy(t) /\ Plain(Top(t)) /\ Keeps /\ Top(t).proc = "get_ad_tkt"
  BY <1>0, <1>1, ResumesPlain
<1>3. /\ Passes(t) => Acts(t)
      /\ \A code, val : Returns(t, code, val) => Acts(t)
      /\ \A l, at : at \in places /\ LooksForTgt(t, l, at) => Acts(t)
      /\ HasTgt(t) => Acts(t)
      /\ \A g, at : FrameRight(g) /\ Plain(g) /\ at \in places /\ Enters(t, g, at) => Acts(t)
  <2>1. \A code, val : Returns(t, code, val) => Acts(t)
    BY <1>2, PlainReturns
  <2>2. \A l, at : at \in places /\ LooksForTgt(t, l, at) => Acts(t)
    BY <1>0, <1>2, AdTktCalls
  <2>3. HasTgt(t) => Acts(t)
    BY <1>0, <1>2, AdTktCalls
  <2>4. \A g, at : FrameRight(g) /\ Plain(g) /\ at \in places /\ Enters(t, g, at) => Acts(t)
    BY <1>0, <1>2, EntersActs
  <2> QED BY <2>1, <2>2, <2>3, <2>4 DEF Passes
<1>4. CASE FindsRealm(t)
  <2>1. \/ Enters(t, Fullname, "realm")
        \/ Enters(t, GetCred(f.realm, f.realm), "login")
        \/ Enters(t, Fullname, "realm2")
        \/ LooksForTgt(t, ret[t].val, "tgt")
        \/ Passes(t)
    <3>1. CASE Resumes(t, "get_ad_tkt", "realm") /\
               CASE Code(t) = "KSUCCESS" -> LooksForTgt(t, ret[t].val, "tgt")
                 [] Code(t) \in {"RET_NOTKT", "NO_TKT_FIL"} -> Enters(t, GetCred(f.realm, f.realm), "login")
                 [] OTHER -> Passes(t)
      <4>1. CASE Code(t) = "KSUCCESS"
        BY <3>1, <4>1
      <4>2. CASE Code(t) \in {"RET_NOTKT", "NO_TKT_FIL"}
        BY <3>1, <4>2
      <4>3. CASE Code(t) \notin {"KSUCCESS", "RET_NOTKT", "NO_TKT_FIL"}
        BY <3>1, <4>3
      <4> QED BY <4>1, <4>2, <4>3
    <3> QED BY <1>4, <3>1 DEF FindsRealm
  <2> HIDE DEF f
  <2> QED BY <1>3, <2>1, FramesRight
<1>5. CASE GetsTgt(t)
  <2> DEFINE l == f.x.l
  <2>1. \/ HasTgt(t)
        \/ Returns(t, "AD_NOTGT", NoRealm)
        \/ Enters(t, GetAdTkt(f.realm, l), "cross")
        \/ LooksForTgt(t, l, "tgt2")
        \/ Passes(t)
    <3>1. CASE Resumes(t, "get_ad_tkt", "tgt") /\
               CASE Code(t) = "KSUCCESS" -> HasTgt(t)
                 [] Code(t) # "KSUCCESS" /\ f.realm = l -> Returns(t, "AD_NOTGT", NoRealm)
                 [] OTHER -> Enters(t, GetAdTkt(f.realm, l), "cross")
      <4>1. CASE Code(t) = "KSUCCESS"
        BY <3>1, <4>1
      <4>2. CASE Code(t) # "KSUCCESS" /\ f.realm = l
        BY <3>1, <4>2
      <4>3. CASE Code(t) # "KSUCCESS" /\ f.realm # l
        BY <3>1, <4>3
      <4> QED BY <4>1, <4>2, <4>3
    <3> QED BY <1>5, <3>1 DEF GetsTgt
  <2> HIDE DEF f, l
  <2> QED BY <1>3, <2>1, FramesRight
<1>6. CASE AsksKdc(t)
  <2>1. \/ Enters(t, Exchange(f.name, f.realm, ret[t].val), "answer")
        \/ Enters(t, Save(f.name, f.realm, f.x.cr.ticket.issued), "saved")
        \/ (\E code, val : Returns(t, code, val))
        \/ Passes(t)
    <3>1. CASE Resumes(t, "get_ad_tkt", "answer") /\
               CASE Code(t) # "KSUCCESS" -> Passes(t)
                 [] Code(t) = "KSUCCESS" /\ ret[t].val # f.x.cr -> Returns(t, "INTK_ERR", NoRealm)
                 [] OTHER -> Enters(t, Save(f.name, f.realm, f.x.cr.ticket.issued), "saved")
      <4>1. CASE Code(t) # "KSUCCESS"
        BY <3>1, <4>1
      <4>2. CASE Code(t) = "KSUCCESS" /\ ret[t].val # f.x.cr
        BY <3>1, <4>2
      <4>3. CASE Code(t) = "KSUCCESS" /\ ret[t].val = f.x.cr
        BY <3>1, <4>3
      <4> QED BY <4>1, <4>2, <4>3
    <3> QED BY <1>6, <3>1 DEF AsksKdc
  <2> HIDE DEF f
  <2> QED BY <1>3, <2>1, FramesRight
<1> QED BY <1>4, <1>5, <1>6

(* k_gettkt.c, the dialog of krb_get_cred, the listing, and new calls.      *)
LEMMA LoginActs ==
  ASSUME KInv, NEW t \in Thread, krb_get_in_tkt(t) \/ LoggedIn(t) \/ GivesUp(t) \/ LogsIn(t)
  PROVE  Acts(t)
<1>0. {"start", "answer", "file", "saved", "login", "prompt"} \cap Special = {}
  BY DEF Special
<1>1. CASE krb_get_in_tkt(t)
  <2> DEFINE p == Top(t).name
  <2>1. \E at \in {"start", "answer", "file", "saved"} : At(t, {"get_in_tkt"}, at) /\ Keeps
    BY <1>1 DEF krb_get_in_tkt, Resumes
  <2>2. Busy(t) /\ Plain(Top(t)) /\ Keeps /\ p \in Principal
    <3>1. Busy(t) /\ Plain(Top(t)) /\ Keeps /\ FrameRight(Top(t)) /\ Top(t).proc \in {"get_in_tkt"}
      BY <1>0, <2>1, ResumesPlain
    <3> QED BY <3>1 DEF FrameRight
  <2>3. \/ Enters(t, Exchange(Home, Home, Asked(p)), "answer")
        \/ Enters(t, Frame("in_tkt", p, Home, NoX), "file")
        \/ Enters(t, Save(Home, Home, p), "saved")
        \/ Passes(t)
    BY <1>1 DEF krb_get_in_tkt
  <2> HIDE DEF p
  <2>4. Passes(t) => Acts(t)
    BY <2>2, PlainReturns DEF Passes
  <2> QED BY <1>0, <2>2, <2>3, <2>4, EntersActs, FramesRight
<1>2. CASE LoggedIn(t)
  <2> DEFINE x == [res |-> Nothing, prompt |-> FALSE]
  <2>1. Busy(t) /\ Plain(Top(t)) /\ Keeps /\ Top(t).proc = "get_cred"
    BY <1>0, <1>2, ResumesPlain DEF LoggedIn, Resumes
  <2>2. With(t, "start", x) \/ Goto(t, "prompt")
    BY <1>2 DEF LoggedIn
  <2>3. XRight("get_cred", x)
    BY DEF XRight
  <2> HIDE DEF x
  <2> QED BY <1>0, <2>1, <2>2, <2>3, WithActs, GoesActs
<1>3. CASE GivesUp(t)
  <2>1. Busy(t) /\ Plain(Top(t)) /\ Keeps
    BY <1>0, <1>3, ResumesPlain DEF GivesUp
  <2> QED BY <1>3, <2>1, PlainReturns DEF GivesUp
<1>4. CASE LogsIn(t)
  <2>1. Busy(t) /\ Plain(Top(t)) /\ Keeps
    BY <1>0, <1>4, ResumesPlain DEF LogsIn
  <2>2. PICK p \in Principal : Enters(t, Login(p), "login")
    BY <1>4 DEF LogsIn
  <2> QED BY <1>0, <2>1, <2>2, EntersActs, FramesRight
<1> QED BY <1>1, <1>2, <1>3, <1>4

(* The end of a listing's call, a new call, and the network.               *)
LEMMA OthersAct ==
  ASSUME KInv, NEW t \in Thread, ListingOfRealm(t) \/ Starts(t) \/ Arrives(t)
  PROVE  Acts(t)
<1>0. {"realm", "start", "wait"} \cap Special = {}
  BY DEF Special
<1>1. CASE ListingOfRealm(t)
  <2>1. Busy(t) /\ Plain(Top(t)) /\ Keeps
    BY <1>0, <1>1, ResumesPlain DEF ListingOfRealm, Resumes
  <2>2. Goto(t, "start") \/ (\E code, val : Returns(t, code, val))
    <3>1. CASE Code(t) = "KSUCCESS"
      BY <1>1, <3>1 DEF ListingOfRealm
    <3>2. CASE Code(t) = "NO_TKT_FIL"
      BY <1>1, <3>2 DEF ListingOfRealm
    <3>3. CASE Code(t) \notin {"KSUCCESS", "NO_TKT_FIL"}
      BY <1>1, <3>3 DEF ListingOfRealm, Passes
    <3> QED BY <3>1, <3>2, <3>3
  <2> QED BY <1>0, <2>1, <2>2, GoesActs, PlainReturns
<1>2. CASE Starts(t)
  <2>1. ~Busy(t) /\ Keeps
    BY <1>2 DEF Starts
  <2> DEFINE Calling == UNION { { MkReq(s, r) : s \in Host } : r \in Realm }
             Asking == { Login(p) : p \in Principal }
             Rest == { Frame("dest_tkt", NoRealm, NoRealm, NoX), Klist }
  <2>5. PICK f \in Rest \cup Asking \cup Calling : stack' = [stack EXCEPT ![t] = <<f>>]
    <3> DEFINE S == Rest \cup Asking \cup Calling
    <3>1. \E f \in S : f.proc \in Does[t] /\ stack' = [stack EXCEPT ![t] = <<f>>]
      BY <1>2 DEF Starts
    <3> HIDE DEF S
    <3>2. \E f \in S : stack' = [stack EXCEPT ![t] = <<f>>]
      BY <3>1
    <3> QED BY <3>2 DEF S
  <2>2. \/ \E r, q : f = MkReq(r, q)
        \/ \E p \in Principal : f = Login(p)
        \/ f = Frame("dest_tkt", NoRealm, NoRealm, NoX)
        \/ f = Klist
    <3>1. CASE f \in Calling
      <4>1. PICK q \in Realm : f \in { MkReq(r, q) : r \in Host }
        BY <3>1
      <4> QED BY <4>1
    <3>2. CASE f \in Asking
      BY <3>2
    <3>3. CASE f \in Rest
      BY <3>3
    <3> HIDE DEF Calling, Asking, Rest
    <3> QED BY <3>1, <3>2, <3>3
  <2>3. FrameRight(f) /\ Plain(f)
    <3> DEFINE d == Frame("dest_tkt", NoRealm, NoRealm, NoX)
               k == Klist
    <3>1. FrameRight(d) /\ Plain(d) /\ FrameRight(k) /\ Plain(k)
      BY FramesRight
    <3>2. (\E r, q : f = MkReq(r, q)) \/ (\E p \in Principal : f = Login(p)) \/ f = d \/ f = k
      BY <2>2
    <3> HIDE DEF d, k
    <3>3. CASE \E r, q : f = MkReq(r, q)
      BY <3>3, FramesRight
    <3>4. CASE \E p \in Principal : f = Login(p)
      BY <3>4, FramesRight
    <3> QED BY <3>1, <3>2, <3>3, <3>4
  <2>4. StackRight(<<f>>) /\ Head(<<f>>) = f
    <3>1. /\ <<f>> \in Seq({f}) /\ Len(<<f>>) = 1 /\ Head(<<f>>) = f
          /\ \A i \in 1 .. 1 : <<f>>[i] = f
      OBVIOUS
    <3>2. 1 <= MaxDepth /\ 2 .. 1 = {}
      BY FileAssumption
    <3> DEFINE r == <<f>>
    <3>3. r \in Seq({f}) /\ Len(r) = 1 /\ \A i \in 1 .. 1 : r[i] = f
      BY <3>1
    <3>4. FrameRight(f)
      BY <2>3
    <3> HIDE DEF r
    <3>5. StackRight(r)
      BY <3>2, <3>3, <3>4, StackIs
    <3> QED BY <3>1, <3>5 DEF r
  <2> QED BY <2>1, <2>3, <2>4, <2>5, PlainActs
<1>3. CASE Arrives(t)
  <2>1. Busy(t) /\ Plain(Top(t)) /\ Keeps /\ UNCHANGED stack
    BY <1>0, <1>3, ResumesPlain DEF Arrives, file, Keeps
  <2>2. stack' = [stack EXCEPT ![t] = stack[t]]
    <3>1. stack = [u \in Thread |-> stack[u]]
      BY DEF KInv
    <3> QED BY <2>1, <3>1
  <2>3. StackRight(stack[t]) /\ Plain(Head(stack[t]))
    BY <2>1, PlainHasNone DEF Top
  <2> QED BY <2>1, <2>2, <2>3, PlainActs
<1> QED BY <1>1, <1>2, <1>3

(***************************************************************************)
(* The steps that use the server.                                          *)
(***************************************************************************)
(* What a step has to show: the library leaves l, and the thread keeps s    *)
(* and c.                                                                  *)
LEMMA ChangeActs ==
  ASSUME KInv, NEW t \in Thread, NEW l, FileRight(l), Flows(lib.data, l.data), Lib(l),
         NEW s, StackRight(s), NEW c, InPlace(s, c), Objects(l, c),
         DOMAIN l.heap = (DOMAIN lib.heap \ Own(t)) \cup Mine(s, c),
         Mine(s, c) \cap (DOMAIN lib.heap \ Own(t)) = {},
         \A q \in DOMAIN lib.heap \ Own(t) : l.heap[q] = lib.heap[q],
         Found(lib', s, c, Watched(lib', s, there[t])),
         stack' = [stack EXCEPT ![t] = s], cursor' = [cursor EXCEPT ![t] = c]
  PROVE  Acts(t)
<1>1. FileRight(lib') /\ lib'.heap = l.heap /\ Flows(lib.data, lib'.data)
  BY LibDoes
<1>2. Objects(lib', c)
  BY <1>1 DEF Objects
<1>3. Mine(s, c) \subseteq DOMAIN lib'.heap
  BY <1>1
<1>4. ThreadRight(lib', s, c, Watched(lib', s, there[t]))
  BY <1>2, <1>3 DEF ThreadRight
<1>5. Moves(t, lib', s, c)
  BY <1>1, <1>4 DEF Moves
<1> QED BY <1>5 DEF Acts

(* The same, when the server is left alone.                                *)
LEMMA KeepActs ==
  ASSUME KInv, NEW t \in Thread, Keeps, NEW s, StackRight(s), InPlace(s, cursor[t]),
         Mine(s, cursor[t]) = Own(t), Found(lib, s, cursor[t], Watched(lib, s, there[t])),
         stack' = [stack EXCEPT ![t] = s]
  PROVE  Acts(t)
<1> DEFINE c == cursor[t]
<1>1. FileRight(lib) /\ Flows(lib.data, lib.data)
  BY StampsFlow DEF KInv, FileRight
<1>2. Own(t) \subseteq DOMAIN lib.heap /\ Objects(lib, c)
  BY DEF KInv, ThreadRight, Own
<1>3. ThreadRight(lib, s, c, Watched(lib, s, there[t]))
  BY <1>2 DEF ThreadRight
<1>4. Moves(t, lib, s, c)
  BY <1>1, <1>2, <1>3 DEF Moves
<1>5. lib' = lib /\ cursor' = [cursor EXCEPT ![t] = c]
  <2>1. cursor = [u \in Thread |-> cursor[u]]
    BY DEF KInv
  <2> QED BY <2>1 DEF Keeps
<1> QED BY <1>4, <1>5 DEF Acts

(* With the cursor in use, the thread has what is in it.                    *)
LEMMA OpenedOwns ==
  ASSUME KInv, NEW t \in Thread, Busy(t), Top(t).proc \in Opened
  PROVE  /\ Top(t).ptr = 0 /\ Own(t) = {cursor[t].ref, cursor[t].it} \ {0}
         /\ Own(t) \subseteq DOMAIN lib.heap /\ 0 \notin DOMAIN lib.heap
         /\ Objects(lib, cursor[t]) /\ Found(lib, stack[t], cursor[t], there[t])
<1>1. /\ InPlace(stack[t], cursor[t]) /\ Objects(lib, cursor[t]) /\ Own(t) \subseteq DOMAIN lib.heap
      /\ Found(lib, stack[t], cursor[t], there[t])
  BY DEF KInv, ThreadRight, Own
<1>2. Top(t).ptr = 0
  BY <1>1 DEF InPlace, Busy, Top
<1>3. Own(t) = {cursor[t].ref, cursor[t].it} \ {0}
  BY <1>2 DEF Own, Mine, Busy, Top
<1>4. 0 \notin DOMAIN lib.heap
  BY ObjectsAssumption DEF KInv, FileRight, Pointer
<1> QED BY <1>1, <1>2, <1>3, <1>4

(* The other frames own what is in theirs.                                 *)
LEMMA PointerOwns ==
  ASSUME KInv, NEW t \in Thread, Busy(t), Top(t).proc \notin Opened
  PROVE  /\ cursor[t] = NoCursor /\ Own(t) = {Top(t).ptr} \ {0}
         /\ Own(t) \subseteq DOMAIN lib.heap /\ 0 \notin DOMAIN lib.heap
<1>1. InPlace(stack[t], cursor[t]) /\ Own(t) \subseteq DOMAIN lib.heap
  BY DEF KInv, ThreadRight, Own
<1>2. cursor[t] = NoCursor
  BY <1>1 DEF InPlace, Busy, Top
<1>3. cursor[t].ref = 0 /\ cursor[t].it = 0
  BY <1>2 DEF NoCursor
<1>4. Own(t) = {Top(t).ptr} \ {0}
  BY <1>3 DEF Own, Mine, Busy, Top
<1>5. 0 \notin DOMAIN lib.heap
  BY ObjectsAssumption DEF KInv, FileRight, Pointer
<1> QED BY <1>1, <1>2, <1>4, <1>5

(* The stack when the innermost frame becomes f.                           *)
LEMMA BecomesDoes ==
  ASSUME KInv, NEW t \in Thread, Busy(t), NEW f, FrameRight(f), Becomes(t, f)
  PROVE  \E s : /\ stack' = [stack EXCEPT ![t] = s] /\ StackRight(s)
                /\ s # <<>> /\ Head(s) = f
<1> DEFINE s == <<f>> \o Tail(stack[t])
<1>1. StackRight(stack[t]) /\ stack[t] # <<>>
  BY TopIs DEF Busy
<1>2. StackRight(s) /\ s # <<>> /\ Head(s) = f
  BY <1>1, StackTurns
<1>3. stack' = [stack EXCEPT ![t] = s]
  BY DEF Becomes
<1> HIDE DEF s
<1> QED BY <1>2, <1>3

(* The stack when the innermost frame goes to another place,               *)
LEMMA GotoDoes ==
  ASSUME KInv, NEW t \in Thread, Busy(t), NEW at, Goto(t, at)
  PROVE  \E s : /\ stack' = [stack EXCEPT ![t] = s] /\ StackRight(s) /\ s # <<>>
                /\ Head(s).at = at /\ Head(s).ptr = Top(t).ptr /\ Head(s).proc = Top(t).proc
                /\ Head(s).name = Top(t).name /\ Head(s).realm = Top(t).realm /\ Head(s).x = Top(t).x
<1> DEFINE g == [Top(t) EXCEPT !.at = at]
<1>1. /\ FrameRight(g) /\ g.at = at /\ g.ptr = Top(t).ptr /\ g.proc = Top(t).proc
      /\ g.name = Top(t).name /\ g.realm = Top(t).realm /\ g.x = Top(t).x
  BY TopIs, FrameGoes
<1>2. Becomes(t, g)
  BY DEF Goto
<1> HIDE DEF g
<1>3. PICK s : /\ stack' = [stack EXCEPT ![t] = s] /\ StackRight(s) /\ s # <<>> /\ Head(s) = g
  BY <1>1, <1>2, BecomesDoes
<1> QED BY <1>1, <1>3

(* with something else in x,                                               *)
LEMMA WithDoes ==
  ASSUME KInv, NEW t \in Thread, Busy(t), NEW at, NEW x, XRight(Top(t).proc, x), With(t, at, x)
  PROVE  \E s : /\ stack' = [stack EXCEPT ![t] = s] /\ StackRight(s) /\ s # <<>>
                /\ Head(s).at = at /\ Head(s).ptr = Top(t).ptr /\ Head(s).proc = Top(t).proc
                /\ Head(s).name = Top(t).name /\ Head(s).realm = Top(t).realm /\ Head(s).x = x
<1> DEFINE f == Top(t)
           g == Gotten(f, at, x)
<1>1. /\ FrameRight(g) /\ g.at = at /\ g.ptr = f.ptr /\ g.proc = f.proc
      /\ g.name = f.name /\ g.realm = f.realm /\ g.x = x
  <2>1. FrameRight(f) /\ XRight(f.proc, x)
    BY TopIs
  <2> HIDE DEF f
  <2> QED BY <2>1, FrameGets
<1>2. Becomes(t, g)
  BY DEF With, Gotten
<1> HIDE DEF g
<1>3. PICK s : /\ stack' = [stack EXCEPT ![t] = s] /\ StackRight(s) /\ s # <<>> /\ Head(s) = g
  BY <1>1, <1>2, BecomesDoes
<1> QED BY <1>1, <1>3

(* when a procedure is done with the file,                                 *)
LEMMA StopsDoes ==
  ASSUME KInv, NEW t \in Thread, Busy(t), Top(t).proc \in Opened, NEW code, NEW val,
         Stops(t, code, val)
  PROVE  \E s : /\ stack' = [stack EXCEPT ![t] = s] /\ StackRight(s) /\ s # <<>>
                /\ Head(s).at = "close" /\ Head(s).ptr = 0 /\ Head(s).proc = Top(t).proc
                /\ Top(t).proc \in {"get_cred", "klist"} => Head(s).x.res.code = code
                /\ Top(t).proc = "klist" => Head(s).x.got = Top(t).x.got
<1> DEFINE x == Top(t).x
           y == [x EXCEPT !.res = Result4(code, val)]
<1>1. XRight(Top(t).proc, x)
  BY TopIs DEF FrameRight
<1> HIDE DEF x
<1>2. /\ XRight(Top(t).proc, y)
      /\ Top(t).proc \in {"get_cred", "klist"} => y.res = Result4(code, val)
      /\ Top(t).proc = "klist" => y.got = x.got
  BY <1>1 DEF XRight
<1>3. With(t, "close", y)
  BY DEF Stops, x
<1> HIDE DEF y
<1>4. PICK s : /\ stack' = [stack EXCEPT ![t] = s] /\ StackRight(s) /\ s # <<>>
               /\ Head(s).at = "close" /\ Head(s).ptr = Top(t).ptr /\ Head(s).proc = Top(t).proc
               /\ Head(s).name = Top(t).name /\ Head(s).realm = Top(t).realm /\ Head(s).x = y
  BY <1>2, <1>3, WithDoes
<1>5. Top(t).ptr = 0
  BY OpenedOwns
<1>6. Result4(code, val).code = code
  BY DEF Result4
<1> QED BY <1>2, <1>4, <1>5, <1>6 DEF x

(* and when it returns.                                                    *)
LEMMA ReturnsDoes ==
  ASSUME KInv, NEW t \in Thread, Busy(t), NEW code, NEW val, Returns(t, code, val)
  PROVE  \E s : /\ stack' = [stack EXCEPT ![t] = s] /\ StackRight(s)
                /\ s = <<>> \/ Plain(Head(s))
<1>1. StackRight(stack[t]) /\ stack[t] # <<>>
  BY TopIs DEF Busy
<1> QED BY <1>1, StackReturns DEF Returns

(* tf_close closes what is in the cursor.                                  *)
LEMMA ClosedDoes ==
  ASSUME KInv, NEW t \in Thread
  PROVE  /\ FileRight(Closed(t)) /\ Closed(t).data = lib.data
         /\ DOMAIN Closed(t).heap = DOMAIN lib.heap \ {cursor[t].ref, cursor[t].it}
         /\ \A q \in DOMAIN Closed(t).heap : Closed(t).heap[q] = lib.heap[q]
         /\ cursor[t] = NoCursor => Closed(t) = lib
<1> DEFINE c == cursor[t]
           l == IF c.ref # 0 /\ c.it # 0 THEN Free(lib, c.it) ELSE lib
           m == IF c.ref # 0 THEN Free(l, c.ref) ELSE l
<1>1. Closed(t) = m
  BY DEF Closed, CcCredsEnd, CcClose, Result
<1>2. InPlace(stack[t], c) /\ FileRight(lib) /\ 0 \notin DOMAIN lib.heap
  BY ObjectsAssumption DEF KInv, ThreadRight, FileRight, Pointer
<1>3. c = NoCursor \/ c.ref # 0
  BY <1>2 DEF InPlace
<1>4. CASE c = NoCursor
  <2>1. c.ref = 0 /\ c.it = 0
    BY <1>4 DEF NoCursor
  <2>2. m = lib
    BY <2>1
  <2> QED BY <1>1, <1>2, <2>1, <2>2
<1>5. CASE c.ref # 0
  <2>1. c # NoCursor
    BY <1>5 DEF NoCursor
  <2>2. /\ FileRight(l) /\ l.data = lib.data /\ DOMAIN l.heap = DOMAIN lib.heap \ {c.it}
        /\ \A q \in DOMAIN l.heap : l.heap[q] = lib.heap[q]
    <3>1. FileRight(Free(lib, c.it)) /\ Freed(lib, Free(lib, c.it), c.it)
      BY <1>2, FreeDoes
    <3>2. CASE c.it # 0
      BY <1>5, <3>1, <3>2 DEF Freed
    <3>3. CASE c.it = 0
      BY <1>2, <3>3
    <3> QED BY <3>2, <3>3
  <2>3. m = Free(l, c.ref)
    BY <1>5
  <2> HIDE DEF l, m
  <2>4. FileRight(m) /\ Freed(l, m, c.ref)
    BY <2>2, <2>3, FreeDoes
  <2>5. /\ m.data = lib.data /\ DOMAIN m.heap = DOMAIN lib.heap \ {c.ref, c.it}
        /\ \A q \in DOMAIN m.heap : m.heap[q] = lib.heap[q]
    BY <2>2, <2>4 DEF Freed
  <2> QED BY <1>1, <2>1, <2>4, <2>5
<1> QED BY <1>3, <1>4, <1>5

(* After tf_close the thread has nothing of the server.                    *)
LEMMA ShutActs ==
  ASSUME KInv, NEW t \in Thread, Busy(t), Top(t).proc \in Opened, Shut(t),
         NEW s, StackRight(s), InPlace(s, NoCursor), s = <<>> \/ Head(s).ptr = 0,
         Found(lib', s, NoCursor, Watched(lib', s, there[t])),
         stack' = [stack EXCEPT ![t] = s]
  PROVE  Acts(t)
<1> DEFINE l == Closed(t)
<1>1. Own(t) = {cursor[t].ref, cursor[t].it} \ {0} /\ 0 \notin DOMAIN lib.heap
  BY OpenedOwns
<1>2. /\ FileRight(l) /\ l.data = lib.data /\ DOMAIN l.heap = DOMAIN lib.heap \ Own(t)
      /\ \A q \in DOMAIN l.heap : l.heap[q] = lib.heap[q]
  BY <1>1, ClosedDoes
<1>3. Lib(l) /\ cursor' = [cursor EXCEPT ![t] = NoCursor]
  BY DEF Shut
<1> HIDE DEF l
<1>4. NoCursor.ref = 0 /\ NoCursor.it = 0
  BY DEF NoCursor
<1>5. Mine(s, NoCursor) = {} /\ Objects(l, NoCursor)
  BY <1>4 DEF Mine, Objects
<1>6. Flows(lib.data, l.data)
  BY <1>2, StampsFlow DEF FileRight
<1> QED BY <1>2, <1>3, <1>5, <1>6, ChangeActs

(* cc_open gives a reference to the one cache that is the file; that it      *)
(* fails means that there is none.                                         *)
LEMMA OpenDoes ==
  ASSUME NEW l, FileRight(l), Room(l)
  PROVE  LET r == CcOpen(l, File, "v4")
         IN  /\ r.err # "CC_NOERROR" => InFile(l) = {}
             /\ r.err = "CC_NOERROR" =>
                  \E c : /\ c \in DOMAIN l.data.cache /\ InFile(l) \subseteq Holding(l.data, c)
                         /\ Added(l, r.lib, r.ptr, [kind |-> "ccache", id |-> c, version |-> "v4"])
                         /\ FileRight(r.lib) /\ r.lib.data = l.data /\ r.ptr \in Nat \ {0}
<1> DEFINE c == FindCCache(l.data, File)
           obj == [kind |-> "ccache", id |-> c, version |-> "v4"]
<1>1. /\ ~Known(l.data, File) => InFile(l) = {}
      /\ Known(l.data, File) => Live(l.data, c) /\ Has(l, c, "v4") /\ InFile(l) \subseteq Holding(l.data, c)
  BY FileIsOneCache
<1>2. /\ Given(l, obj).err = "CC_NOERROR" /\ Added(l, Given(l, obj).lib, Given(l, obj).ptr, obj)
      /\ FileRight(Given(l, obj).lib) /\ Given(l, obj).lib.data = l.data /\ Given(l, obj).ptr \in Nat \ {0}
  <2> HIDE DEF obj
  <2> QED BY GivenDoes
<1>3. CASE Known(l.data, File)
  <2>1. CcOpen(l, File, "v4") = Given(l, obj)
    BY <1>1, <1>3 DEF CcOpen
  <2> QED BY <1>1, <1>2, <1>3, <2>1 DEF Live
<1>4. CASE ~Known(l.data, File)
  <2>1. CcOpen(l, File, "v4").err = "CC_NO_EXIST"
    BY <1>4 DEF CcOpen, Result
  <2> QED BY <1>1, <1>4, <2>1
<1> QED BY <1>3, <1>4

(* The file is where it was when the stamps are forgotten.                  *)
LEMMA LibKeepsFile ==
  ASSUME NEW l, FileRight(l), Lib(l)
  PROVE  InFile(lib') = InFile(l) /\ \A c : Holding(lib'.data, c) = Holding(l.data, c)
<1>1. lib'.data.cache = l.data.cache /\ lib'.data.order = l.data.order
  BY LibDoes
<1> QED BY <1>1 DEF InFile, Named, Holding

(* A reference is put into the empty cursor.                               *)
LEMMA CursorOpens ==
  ASSUME KInv, NEW t \in Thread, Busy(t), Top(t).proc \in Opened, cursor[t] = NoCursor, Room(lib),
         NEW r, r = CcOpen(lib, File, "v4"), r.err = "CC_NOERROR", Lib(r.lib),
         cursor' = [cursor EXCEPT ![t] = [ref |-> r.ptr, it |-> 0]],
         NEW at \in {"name", "shut"}, Goto(t, at)
  PROVE  Acts(t)
<1> DEFINE c == [ref |-> r.ptr, it |-> 0]
           l == r.lib
           q == r.ptr
<1>1. FileRight(lib)
  BY DEF KInv
<1>2. PICK i : /\ i \in DOMAIN lib.data.cache /\ InFile(lib) \subseteq Holding(lib.data, i)
               /\ Added(lib, l, q, [kind |-> "ccache", id |-> i, version |-> "v4"])
               /\ FileRight(l) /\ l.data = lib.data /\ q \in Nat \ {0}
  BY <1>1, OpenDoes
<1>3. PICK s : /\ stack' = [stack EXCEPT ![t] = s] /\ StackRight(s) /\ s # <<>>
               /\ Head(s).at = at /\ Head(s).ptr = Top(t).ptr /\ Head(s).proc = Top(t).proc
               /\ Head(s).name = Top(t).name /\ Head(s).realm = Top(t).realm /\ Head(s).x = Top(t).x
  BY GotoDoes
<1>4. Top(t).ptr = 0 /\ Own(t) = {}
  <2>1. Top(t).ptr = 0 /\ Own(t) = {cursor[t].ref, cursor[t].it} \ {0}
    BY OpenedOwns
  <2>2. cursor[t].ref = 0 /\ cursor[t].it = 0
    BY DEF NoCursor
  <2> QED BY <2>1, <2>2
<1>5. /\ c.ref = q /\ c.it = 0 /\ c = [ref |-> c.ref, it |-> c.it] /\ c # NoCursor
  BY <1>2 DEF NoCursor
<1>6. cursor' = [cursor EXCEPT ![t] = c] /\ Lib(l)
  OBVIOUS
<1> HIDE DEF c, l, q
<1>7. InPlace(s, c)
  BY <1>2, <1>3, <1>4, <1>5 DEF InPlace
<1>8. Mine(s, c) = {q}
  BY <1>2, <1>3, <1>4, <1>5 DEF Mine
<1>9. /\ DOMAIN l.heap = DOMAIN lib.heap \cup {q} /\ q \notin DOMAIN lib.heap
      /\ \A x \in DOMAIN lib.heap : l.heap[x] = lib.heap[x]
      /\ l.heap[q].version = "v4" /\ l.heap[q].id = i
  BY <1>2 DEF Added
<1>10. Objects(l, c)
  BY <1>2, <1>5, <1>9 DEF Objects
<1>11. Flows(lib.data, l.data)
  BY <1>1, <1>2, StampsFlow DEF FileRight
<1>12. Found(lib', s, c, Watched(lib', s, there[t]))
  <2>1. /\ Watched(lib', s, there[t]) \subseteq InFile(lib')
    BY <1>3, WatchedInFile
  <2>2. InFile(lib') = InFile(l) /\ Holding(lib'.data, i) = Holding(l.data, i)
    BY <1>2, <1>6, LibKeepsFile
  <2>3. InFile(l) = InFile(lib)
    BY <1>2 DEF InFile
  <2>4. lib'.heap = l.heap /\ lib'.data.cache = l.data.cache
    BY <1>2, <1>6, LibDoes
  <2> QED BY <1>2, <1>3, <1>5, <1>9, <2>1, <2>2, <2>3, <2>4 DEF Found
<1> QED BY <1>2, <1>3, <1>4, <1>6, <1>7, <1>8, <1>9, <1>10, <1>11, <1>12, ChangeActs

(* A procedure stops with an empty cursor: what it says of its search must   *)
(* be so.                                                                  *)
LEMMA ShutStops ==
  ASSUME KInv, NEW t \in Thread, Busy(t), Top(t).proc \in Opened, Shut(t),
         NEW code, NEW val, Stops(t, code, val),
         Top(t).proc \in {"get_cred", "klist"} => InFile(lib') = {}
  PROVE  Acts(t)
<1>1. PICK s : /\ stack' = [stack EXCEPT ![t] = s] /\ StackRight(s) /\ s # <<>>
               /\ Head(s).at = "close" /\ Head(s).ptr = 0 /\ Head(s).proc = Top(t).proc
               /\ Top(t).proc \in {"get_cred", "klist"} => Head(s).x.res.code = code
               /\ Top(t).proc = "klist" => Head(s).x.got = Top(t).x.got
  BY StopsDoes
<1>2. NoCursor = [ref |-> NoCursor.ref, it |-> NoCursor.it] /\ NoCursor.ref = 0 /\ NoCursor.it = 0
  BY DEF NoCursor
<1>3. InPlace(s, NoCursor)
  BY <1>1, <1>2 DEF InPlace
<1>4. Watched(lib', s, there[t]) \subseteq InFile(lib')
  BY <1>1, WatchedInFile
<1>5. Found(lib', s, NoCursor, Watched(lib', s, there[t]))
  BY <1>1, <1>4 DEF Found, Searches
<1> QED BY <1>1, <1>3, <1>5, ShutActs

(* tf_init, and the first look of the listing.                             *)
LEMMA InitActs ==
  ASSUME KInv, NEW t \in Thread, tf_init(t) \/ ListingProbes(t)
  PROVE  Acts(t)
<1> DEFINE r == CcOpen(lib, File, "v4")
<1>1. /\ Busy(t) /\ Top(t).proc \in Opened /\ Top(t).at \in {"start", "probe"} /\ Room(lib)
  BY DEF tf_init, ListingProbes, At, Opened
<1>2. cursor[t] = NoCursor
  BY <1>1, TopIs, PlainHasNone DEF Special
<1>3. Closed(t) = lib
  BY <1>2, ClosedDoes
<1>4. CASE r.err = "CC_NOERROR"
  <2>1. /\ Lib(r.lib) /\ cursor' = [cursor EXCEPT ![t] = [ref |-> r.ptr, it |-> 0]]
        /\ Goto(t, "name") \/ Goto(t, "shut")
    BY <1>3, <1>4 DEF tf_init, ListingProbes
  <2> HIDE DEF r
  <2> QED BY <1>1, <1>2, <1>4, <2>1, CursorOpens DEF r
<1>5. CASE r.err # "CC_NOERROR"
  <2>1. Shut(t) /\ (Stops(t, "NO_TKT_FIL", NoRealm) \/ Returns(t, "KSUCCESS", NoRealm))
    BY <1>3, <1>5 DEF tf_init, ListingProbes
  <2>2. InFile(lib') = {}
    <3>1. FileRight(lib) /\ InFile(lib) = {}
      BY <1>1, <1>5, OpenDoes DEF KInv
    <3>2. Lib(lib)
      BY <1>3, <2>1 DEF Shut
    <3> QED BY <3>1, <3>2, LibKeepsFile
  <2>3. CASE Stops(t, "NO_TKT_FIL", NoRealm)
    BY <1>1, <2>1, <2>2, <2>3, ShutStops
  <2>4. CASE Returns(t, "KSUCCESS", NoRealm)
    <3>1. PICK s : /\ stack' = [stack EXCEPT ![t] = s] /\ StackRight(s)
                   /\ s = <<>> \/ Plain(Head(s))
      BY <1>1, <2>4, ReturnsDoes
    <3>2. ThreadRight(lib', s, NoCursor, Watched(lib', s, there[t]))
      BY <3>1, PlainIsRight
    <3> QED BY <1>1, <2>1, <3>1, <3>2, ShutActs DEF ThreadRight, Plain
  <2> QED BY <2>1, <2>3, <2>4
<1> QED BY <1>4, <1>5

(* A procedure stops with the server, and its cursor, as they are.         *)
LEMMA KeepStops ==
  ASSUME KInv, NEW t \in Thread, Busy(t), Top(t).proc \in Opened, Keeps,
         NEW code, NEW val, Stops(t, code, val),
         Top(t).proc = "get_cred" => there[t] = {},
         Top(t).proc = "klist" => code # "EOF",
         cursor[t] = NoCursor \/ cursor[t].ref # 0
  PROVE  Acts(t)
<1> DEFINE c == cursor[t]
<1>1. PICK s : /\ stack' = [stack EXCEPT ![t] = s] /\ StackRight(s) /\ s # <<>>
               /\ Head(s).at = "close" /\ Head(s).ptr = 0 /\ Head(s).proc = Top(t).proc
               /\ Top(t).proc \in {"get_cred", "klist"} => Head(s).x.res.code = code
               /\ Top(t).proc = "klist" => Head(s).x.got = Top(t).x.got
  BY StopsDoes
<1>2. InPlace(stack[t], c)
  BY TopIs
<1>3. InPlace(s, c)
  BY <1>1, <1>2 DEF InPlace
<1>4. Mine(s, c) = Own(t)
  <2>1. Own(t) = {c.ref, c.it} \ {0}
    BY OpenedOwns
  <2> QED BY <1>1, <2>1 DEF Mine
<1>5. Watched(lib, s, there[t]) \subseteq there[t]
  BY <1>1, WatchedInFile
<1>6. Found(lib, s, c, Watched(lib, s, there[t]))
  BY <1>1, <1>5 DEF Found, Searches
<1> QED BY <1>1, <1>3, <1>4, <1>6, KeepActs

(* A reference on a cache that is gone: the search has nothing to find.     *)
LEMMA GoneIsEmpty ==
  ASSUME KInv, NEW t \in Thread, Busy(t), Top(t).proc \in {"get_cred", "klist"},
         Top(t).at \in {"name", "next"}, cursor[t].it = 0
  PROVE  \/ there[t] = {}
         \/ /\ lib.heap[cursor[t].ref].id \in DOMAIN lib.data.cache
            /\ there[t] \subseteq Holding(lib.data, lib.heap[cursor[t].ref].id)
<1>1. Found(lib, stack[t], cursor[t], there[t])
  BY DEF KInv, ThreadRight
<1>2. Searches(stack[t])
  BY DEF Searches, Busy, Top
<1> QED BY <1>1, <1>2 DEF Found, Top

(* tf_get_pname, and the principal that tf_save_cred files under.          *)
LEMMA PnameActs ==
  ASSUME KInv, NEW t \in Thread, tf_get_pname(t) \/ SaveReads(t)
  PROVE  Acts(t)
<1> DEFINE c == cursor[t]
           o == lib.heap[c.ref]
           r == CcGetPrincipal(lib, c.ref)
           y == [Top(t).x EXCEPT !.label = lib.data.cache[o.id].principal["v4"]]
<1>1. Busy(t) /\ Top(t).proc \in Opened /\ Top(t).at = "name" /\ Keeps
  BY DEF tf_get_pname, SaveReads, At, Reads, Opened
<1>2. InPlace(stack[t], c) /\ Head(stack[t]) = Top(t) /\ stack[t] # <<>>
  BY <1>1, TopIs DEF Busy
<1>3. c.ref # 0 /\ c.it = 0 /\ c # NoCursor
  BY <1>1, <1>2 DEF InPlace, NoCursor
<1>4. o.version = "v4"
  BY <1>1, <1>3, OpenedOwns DEF Objects
<1>5. o.id \in DOMAIN lib.data.cache => r.err = "CC_NOERROR"
  <2>1. ASSUME o.id \in DOMAIN lib.data.cache PROVE Has(lib, o.id, "v4")
    BY <2>1 DEF KInv, FileRight, FileData, OnlyV4, Has
  <2>2. r = Result(lib, CASE ~Live(lib.data, o.id) -> "CC_NO_EXIST"
                          [] Live(lib.data, o.id) /\ (o.version = "both" \/ ~Has(lib, o.id, o.version)) ->
                               "CC_BAD_PARM"
                          [] OTHER -> "CC_NOERROR")
    BY DEF CcGetPrincipal
  <2> QED BY <1>4, <2>1, <2>2 DEF Live, Result
<1>6. CASE Stops(t, "CC", NoRealm) /\ r.err # "CC_NOERROR"
  <2>1. Top(t).proc = "get_cred" => there[t] = {}
    BY <1>1, <1>3, <1>5, <1>6, GoneIsEmpty
  <2> HIDE DEF r
  <2> QED BY <1>1, <1>3, <1>6, <2>1, KeepStops
<1>7. ASSUME NEW s, stack' = [stack EXCEPT ![t] = s], StackRight(s), s # <<>>,
             Head(s).at \in {"next", "store"}, Head(s).ptr = Top(t).ptr, Head(s).proc = Top(t).proc,
             Head(s).x = Top(t).x \/ Head(s).proc = "save"
      PROVE  Acts(t)
  <2>1. InPlace(s, c)
    BY <1>1, <1>2, <1>3, <1>7 DEF InPlace, Special
  <2>2. Mine(s, c) = Own(t)
    BY <1>2, <1>7 DEF Mine, Own
  <2>3. Watched(lib, s, there[t]) \subseteq there[t]
    BY <1>7, WatchedInFile
  <2>4. Found(lib, s, c, Watched(lib, s, there[t]))
    <3>1. CASE Searches(s)
      <4>1. Top(t).proc \in {"get_cred", "klist"}
        BY <1>7, <3>1 DEF Searches
      <4> QED BY <1>1, <1>3, <1>7, <2>3, <4>1, GoneIsEmpty DEF Found
    <3> QED BY <3>1 DEF Found
  <2> QED BY <1>1, <1>7, <2>1, <2>2, <2>4, KeepActs
<1>8. CASE Goto(t, "next")
  <2>1. PICK s : /\ stack' = [stack EXCEPT ![t] = s] /\ StackRight(s) /\ s # <<>>
                 /\ Head(s).at = "next" /\ Head(s).ptr = Top(t).ptr /\ Head(s).proc = Top(t).proc
                 /\ Head(s).name = Top(t).name /\ Head(s).realm = Top(t).realm /\ Head(s).x = Top(t).x
    BY <1>1, <1>8, GotoDoes
  <2> QED BY <1>7, <2>1
<1>9. CASE Top(t).proc = "save" /\ With(t, "store", y)
  <2> HIDE DEF y
  <2>1. XRight(Top(t).proc, y)
    BY <1>9 DEF XRight
  <2>2. PICK s : /\ stack' = [stack EXCEPT ![t] = s] /\ StackRight(s) /\ s # <<>>
                 /\ Head(s).at = "store" /\ Head(s).ptr = Top(t).ptr /\ Head(s).proc = Top(t).proc
                 /\ Head(s).name = Top(t).name /\ Head(s).realm = Top(t).realm /\ Head(s).x = y
    BY <1>1, <1>9, <2>1, WithDoes
  <2> QED BY <1>7, <1>9, <2>2
<1> QED BY <1>6, <1>8, <1>9 DEF tf_get_pname, SaveReads, At

(* tf_get_cred_begin: all that the search is for is ahead of the iterator, or*)
(* the cache has gone and with it what the search was for.                 *)
LEMMA BeginActs ==
  ASSUME KInv, NEW t \in Thread, tf_get_cred_begin(t)
  PROVE  Acts(t)
<1> DEFINE c == cursor[t]
           o == lib.heap[c.ref]
           r == CcCredsBegin(lib, c.ref)
           set == lib.data.cache[o.id].creds
           obj == [kind |-> "creds", id |-> o.id, set |-> set, pos |-> 1, version |-> o.version]
<1>1. Busy(t) /\ Top(t).proc \in Opened /\ Top(t).proc \in Reads /\ Top(t).at = "next" /\ c.it = 0 /\ Room(lib)
  BY DEF tf_get_cred_begin, At, Reads, Opened
<1>2. InPlace(stack[t], c) /\ Head(stack[t]) = Top(t) /\ stack[t] # <<>> /\ StackRight(stack[t])
  BY <1>1, TopIs DEF Busy
<1>3. c.ref # 0 /\ c.ref \in Nat /\ c = [ref |-> c.ref, it |-> c.it]
  BY <1>1, <1>2 DEF InPlace
<1>4. o.version = "v4"
  BY <1>1, <1>3, OpenedOwns DEF Objects
<1>5. /\ Top(t).ptr = 0 /\ Own(t) = {c.ref} /\ Own(t) \subseteq DOMAIN lib.heap
  BY <1>1, <1>3, OpenedOwns
<1>6. FileRight(lib)
  BY DEF KInv
<1>7. CASE o.id \notin DOMAIN lib.data.cache
  <2>1. r.err # "CC_NOERROR"
    BY <1>7 DEF CcCredsBegin, Live, Result
  <2>2. Keeps /\ Stops(t, "RET_NOTKT", NoRealm)
    BY <2>1 DEF tf_get_cred_begin
  <2>3. Top(t).proc = "get_cred" => there[t] = {}
    BY <1>1, <1>7, GoneIsEmpty
  <2> QED BY <1>1, <1>3, <2>2, <2>3, KeepStops
<1>8. CASE o.id \in DOMAIN lib.data.cache
  <2> DEFINE q == r.ptr
             l == r.lib
             s == stack[t]
             new == [ref |-> c.ref, it |-> q]
  <2>1. r = Given(lib, obj)
    BY <1>8 DEF CcCredsBegin, Live
  <2> HIDE DEF r
  <2>2. set \in Seq(ToSet(set)) /\ ToSet(set) = Holding(lib.data, o.id)
    <3>1. set \in Seq(DOMAIN lib.data.cred)
      BY <1>6, <1>8 DEF FileRight, FileData, OwnsOnce
    <3> HIDE DEF set
    <3>2. set \in Seq(ToSet(set))
      BY <3>1, SeqOfMembers
    <3> QED BY <3>2 DEF Holding, set
  <2>3. /\ obj = [kind |-> "creds", id |-> o.id, set |-> set, pos |-> 1, version |-> "v4"]
        /\ obj.id = o.id /\ obj.set = set /\ obj.pos = 1
    BY <1>4
  <2> HIDE DEF obj, set
  <2>4. /\ r.err = "CC_NOERROR" /\ Added(lib, l, q, obj)
        /\ FileRight(l) /\ l.data = lib.data /\ q \in Nat \ {0}
    BY <1>1, <1>6, <2>1, GivenDoes
  <2>5. Lib(l) /\ UNCHANGED stack /\ cursor' = [cursor EXCEPT ![t] = new]
    <3>1. Lib(l) /\ UNCHANGED stack /\ cursor' = [cursor EXCEPT ![t].it = q]
      BY <2>4 DEF tf_get_cred_begin, r
    <3>2. [cursor[t] EXCEPT !.it = q] = new
      BY <1>3
    <3> QED BY <3>1, <3>2
  <2>6. stack' = [stack EXCEPT ![t] = s]
    <3>1. stack = [u \in Thread |-> stack[u]]
      BY DEF KInv
    <3> QED BY <2>5, <3>1
  <2>7. /\ new.ref = c.ref /\ new.it = q /\ new = [ref |-> new.ref, it |-> new.it] /\ new # NoCursor
    BY <2>4 DEF NoCursor
  <2>8. /\ DOMAIN l.heap = DOMAIN lib.heap \cup {q} /\ q \notin DOMAIN lib.heap /\ l.heap[q] = obj
        /\ \A x \in DOMAIN lib.heap : l.heap[x] = lib.heap[x]
    BY <2>4 DEF Added
  <2> HIDE DEF new, q, l
  <2>9. InPlace(s, new)
    BY <1>1, <1>2, <1>3, <1>5, <2>4, <2>7 DEF InPlace
  <2>10. Mine(s, new) = {c.ref, q}
    BY <1>2, <1>3, <1>5, <2>4, <2>7 DEF Mine
  <2>11. Objects(l, new)
    <3>1. c.ref # q /\ l.heap[c.ref].version = "v4"
      BY <1>4, <1>5, <2>8
    <3>2. \E i, x, n : /\ l.heap[q] = [kind |-> "creds", id |-> i, set |-> x, pos |-> n, version |-> "v4"]
                       /\ n \in Nat \ {0} /\ x \in Seq(ToSet(x))
      <4> DEFINE a == o.id
                 b == 1
      <4>1. l.heap[q] = [kind |-> "creds", id |-> a, set |-> set, pos |-> b, version |-> "v4"]
        BY <2>3, <2>8
      <4>2. b \in Nat \ {0} /\ set \in Seq(ToSet(set))
        BY <2>2
      <4> HIDE DEF a, b
      <4> QED BY <4>1, <4>2
    <3> QED BY <2>7, <3>1, <3>2 DEF Objects
  <2>12. Flows(lib.data, l.data)
    BY <1>6, <2>4, StampsFlow DEF FileRight
  <2>13. Found(lib', s, new, Watched(lib', s, there[t]))
    <3> DEFINE tw == Watched(lib', s, there[t])
    <3> SUFFICES ASSUME Searches(s) PROVE Found(lib', s, new, tw)
      BY DEF Found
    <3>1. tw \subseteq there[t]
      BY <1>1, <1>2, WatchedInFile
    <3>2. Top(t).proc \in {"get_cred", "klist"}
      BY <1>2 DEF Searches
    <3>3. there[t] = {} \/ there[t] \subseteq Holding(lib.data, o.id)
      BY <1>1, <3>2, GoneIsEmpty
    <3>4. /\ lib'.heap[new.it] = obj /\ lib'.data.cache = lib.data.cache
          /\ Holding(lib'.data, o.id) = Holding(lib.data, o.id)
      BY <2>4, <2>5, <2>7, <2>8, LibDoes, LibKeepsFile
    <3> HIDE DEF tw
    <3>5. tw = {} \/ Ahead(lib', obj, tw, Got(Head(s)))
      <4>1. ASSUME NEW k \in tw PROVE k \in Holding(lib.data, o.id) /\ \E i \in 1 .. Len(set) : set[i] = k
        <5>1. k \in ToSet(set)
          BY <2>2, <3>1, <3>3
        <5> QED BY <2>2, <5>1 DEF ToSet
      <4> QED BY <1>8, <2>2, <2>3, <3>4, <4>1 DEF Ahead
    <3> QED BY <1>1, <1>2, <2>4, <2>7, <3>4, <3>5 DEF Found
  <2> QED BY <1>2, <1>3, <1>5, <2>4, <2>5, <2>6, <2>8, <2>9, <2>10, <2>11, <2>12, <2>13, ChangeActs
<1> QED BY <1>7, <1>8

(* The next ticket of an iterator, which is a live one.  While its cache     *)
(* holds all that it is for, it goes one on, until the end.                *)
NextIs(l, q, o, r) ==
  /\ \/ /\ r.err = "CC_NOERROR" /\ r.cred \in DOMAIN l.data.cred
        /\ \E n : /\ r.lib.heap[q] = [kind |-> "creds", id |-> o.id, set |-> o.set, pos |-> n, version |-> "v4"]
                  /\ n \in Nat \ {0}
                  /\ ToSet(o.set) \subseteq DOMAIN l.data.cred
                       => n = o.pos + 1 /\ o.pos <= Len(o.set) /\ r.cred = o.set[o.pos]
     \/ /\ r.err = "CC_NOTFOUND" /\ ~(ToSet(o.set) \subseteq DOMAIN l.data.cred)
     \/ /\ r.err = "CC_END"
        /\ ToSet(o.set) \subseteq DOMAIN l.data.cred => o.pos > Len(o.set)
  /\ FileRight(r.lib) /\ r.lib.data \in {l.data, Pin(l.data)}
  /\ DOMAIN r.lib.heap = DOMAIN l.heap
  /\ \A x \in DOMAIN l.heap \ {q} : r.lib.heap[x] = l.heap[x]

(* The iterator at another place.                                          *)
LEMMA PosDoes ==
  ASSUME NEW l, FileRight(l), NEW q \in DOMAIN l.heap, NEW i, NEW x, NEW n, NEW m,
         l.heap[q] = [kind |-> "creds", id |-> i, set |-> x, pos |-> n, version |-> "v4"]
  PROVE  LET k == [l EXCEPT !.heap[q].pos = m]
         IN  /\ FileRight(k) /\ k.data = l.data /\ DOMAIN k.heap = DOMAIN l.heap
             /\ k.heap[q] = [kind |-> "creds", id |-> i, set |-> x, pos |-> m, version |-> "v4"]
             /\ \A y \in DOMAIN l.heap \ {q} : k.heap[y] = l.heap[y]
<1> DEFINE obj == [kind |-> "creds", id |-> i, set |-> x, pos |-> m, version |-> "v4"]
           k == [l EXCEPT !.heap[q].pos = m]
<1>1. [l.heap[q] EXCEPT !.pos = m] = obj
  OBVIOUS
<1>2. k = [l EXCEPT !.heap[q] = obj]
  BY <1>1 DEF FileRight, LibFormed, LibFields
<1> HIDE DEF k, obj
<1>3. Altered(l, k, q, obj)
  BY <1>2, AlterDoes DEF FileRight
<1>4. FileRight(k)
  BY <1>3 DEF Altered, FileRight
<1> QED BY <1>3, <1>4 DEF Altered, k, obj

(* CcCredsNext is such a step.                                             *)
LEMMA NextDoes ==
  ASSUME NEW l, FileRight(l), NEW q \in DOMAIN l.heap, NEW i, NEW x, NEW n \in Nat \ {0},
         x \in Seq(ToSet(x)),
         l.heap[q] = [kind |-> "creds", id |-> i, set |-> x, pos |-> n, version |-> "v4"]
  PROVE  NextIs(l, q, l.heap[q], CcCredsNext(l, q))
<1> DEFINE o == l.heap[q]
           rest == o.pos .. Len(o.set)
           gone == { j \in rest : o.set[j] \notin DOMAIN l.data.cred }
           mine == { j \in rest \ gone : o.version \in {"both", l.data.cred[o.set[j]].version} }
           stop == CHOOSE j \in gone \cup mine : \A h \in gone \cup mine : j <= h
           l1 == IF rest = {} THEN l ELSE OnData(l, Pin(l.data))
           r == CcCredsNext(l, q)
<1>1. o.id = i /\ o.set = x /\ o.pos = n /\ o.version = "v4"
  OBVIOUS
<1>2. /\ Len(x) \in Nat /\ DOMAIN x = 1 .. Len(x)
      /\ rest = n .. Len(x) /\ rest \subseteq 1 .. Len(x)
  <2> DEFINE T == ToSet(x)
  <2>1. x \in Seq(T)
    OBVIOUS
  <2> HIDE DEF T
  <2>2. Len(x) \in Nat /\ DOMAIN x = 1 .. Len(x)
    BY <2>1
  <2>3. rest = n .. Len(x)
    BY <1>1
  <2> QED BY <2>2, <2>3
<1>3. FileRight(l1) /\ l1.data \in {l.data, Pin(l.data)} /\ l1.heap = l.heap
  <2>1. FileData(Pin(l.data))
    BY StampsFlow DEF FileRight
  <2> QED BY <2>1, OnDataRight
<1>4. mine = rest \ gone
  <2>1. ASSUME NEW j \in rest \ gone PROVE l.data.cred[o.set[j]].version = "v4"
    <3>1. x[j] \in DOMAIN l.data.cred
      BY <1>1, <2>1
    <3>2. PICK s : l.data.cred[x[j]] = [version |-> "v4", service |-> s]
      BY <3>1 DEF FileRight, FileData, OnlyV4
    <3> QED BY <1>1, <3>2
  <2> QED BY <1>1, <2>1
<1>5. gone \cup mine = rest
  BY <1>4
<1>6. ToSet(x) \subseteq DOMAIN l.data.cred => gone = {}
  BY <1>1, <1>2 DEF ToSet
<1>7. r = CASE gone \cup mine = {} -> Result([l1 EXCEPT !.heap[q].pos = Len(o.set) + 1], "CC_END")
            [] gone \cup mine # {} /\ stop \in gone ->
                 Result([l1 EXCEPT !.heap[q].pos = stop + 1], "CC_NOTFOUND")
            [] OTHER ->
                 [lib |-> [l1 EXCEPT !.heap[q].pos = stop + 1], err |-> "CC_NOERROR", cred |-> o.set[stop]]
  BY DEF CcCredsNext
<1>8. rest # {} => stop = n
  <2>1. rest # {} => n \in rest /\ \A h \in rest : n <= h
    BY <1>2
  <2> HIDE DEF rest, gone, mine
  <2>2. rest # {} => stop \in rest /\ \A h \in rest : stop <= h
    BY <1>5, <2>1
  <2>3. rest \subseteq Nat
    BY <1>2 DEF rest
  <2> HIDE DEF stop
  <2>4. ASSUME rest # {} PROVE stop = n
    <3>1. n \in rest /\ stop \in rest /\ n <= stop /\ stop <= n
      BY <2>1, <2>2, <2>4
    <3> QED BY <2>3, <3>1
  <2> QED BY <2>4
<1> DEFINE at(m) == [l1 EXCEPT !.heap[q].pos = m]
<1>9. \A m : /\ FileRight(at(m)) /\ at(m).data \in {l.data, Pin(l.data)} /\ DOMAIN at(m).heap = DOMAIN l.heap
             /\ at(m).heap[q] = [kind |-> "creds", id |-> i, set |-> x, pos |-> m, version |-> "v4"]
             /\ \A y \in DOMAIN l.heap \ {q} : at(m).heap[y] = l.heap[y]
  <2> HIDE DEF l1
  <2> QED BY <1>3, PosDoes
<1>10. CASE rest = {}
  <2>1. r = Result(at(Len(x) + 1), "CC_END")
    BY <1>1, <1>5, <1>7, <1>10
  <2>2. n > Len(x)
    BY <1>2, <1>10
  <2> HIDE DEF at, r
  <2>3. r.lib = at(Len(x) + 1) /\ r.err = "CC_END"
    BY <2>1 DEF Result
  <2> QED BY <1>1, <1>9, <2>2, <2>3 DEF NextIs, r
<1>11. CASE rest # {} /\ stop \in gone
  <2>1. r = Result(at(stop + 1), "CC_NOTFOUND")
    BY <1>5, <1>7, <1>11
  <2>2. ~(ToSet(x) \subseteq DOMAIN l.data.cred)
    BY <1>6, <1>11
  <2> HIDE DEF at, r
  <2>3. r.lib = at(stop + 1) /\ r.err = "CC_NOTFOUND"
    BY <2>1 DEF Result
  <2> DEFINE k == stop + 1
  <2> HIDE DEF k, o, stop, gone, rest
  <2>4. r.lib = at(k)
    BY <2>3 DEF k
  <2>5. /\ FileRight(r.lib) /\ r.lib.data \in {l.data, Pin(l.data)} /\ DOMAIN r.lib.heap = DOMAIN l.heap
        /\ \A y \in DOMAIN l.heap \ {q} : r.lib.heap[y] = l.heap[y]
    BY <1>9, <2>4
  <2> QED BY <1>1, <2>2, <2>3, <2>5 DEF NextIs, r, o
<1>12. CASE rest # {} /\ stop \notin gone
  <2>1. r = [lib |-> at(stop + 1), err |-> "CC_NOERROR", cred |-> x[stop]]
    <3>1. o.set = x
      BY <1>1
    <3>2. gone \cup mine # {} /\ stop \notin gone
      BY <1>5, <1>12
    <3> DEFINE next == [l1 EXCEPT !.heap[q].pos = stop + 1]
    <3>3. next = at(stop + 1)
      OBVIOUS
    <3> HIDE DEF o, gone, mine, stop, r, l1, at
    <3>4. r = [lib |-> next, err |-> "CC_NOERROR", cred |-> o.set[stop]]
      BY <1>7, <3>2
    <3> QED BY <3>1, <3>3, <3>4
  <2>2. stop = n /\ n <= Len(x) /\ n + 1 \in Nat \ {0} /\ x[n] \in DOMAIN l.data.cred
    <3>1. stop = n
      BY <1>8, <1>12
    <3>2. n .. Len(x) # {}
      BY <1>2, <1>12
    <3>3. n <= Len(x)
      BY <1>2, <3>2
    <3>4. x[n] \in DOMAIN l.data.cred
      <4>1. n \in rest /\ n \notin gone
        <5>1. n \in rest
          BY <1>2, <3>3
        <5> HIDE DEF rest, gone, stop
        <5> QED BY <1>12, <3>1, <5>1
      <4>2. \A j \in rest \ gone : x[j] \in DOMAIN l.data.cred
        BY <1>1
      <4> HIDE DEF rest, gone
      <4> QED BY <4>1, <4>2
    <3> QED BY <3>1, <3>3, <3>4
  <2> HIDE DEF at, r, stop
  <2>3. r.lib = at(n + 1) /\ r.err = "CC_NOERROR" /\ r.cred = x[n]
    BY <2>1, <2>2
  <2>4. \E m : /\ r.lib.heap[q] = [kind |-> "creds", id |-> o.id, set |-> o.set, pos |-> m, version |-> "v4"]
               /\ m \in Nat \ {0}
               /\ m = o.pos + 1 /\ o.pos <= Len(o.set) /\ r.cred = o.set[o.pos]
    BY <1>1, <1>9, <2>2, <2>3
  <2> HIDE DEF o
  <2> QED BY <1>9, <2>2, <2>3, <2>4 DEF NextIs, r, o
<1> QED BY <1>10, <1>11, <1>12

(* tf_get_cred: a ticket noted, used or passed over, the end of the file, or*)
(* a ticket that has gone.                                                 *)
LEMMA GetCredActs ==
  ASSUME KInv, NEW t \in Thread, tf_get_cred(t)
  PROVE  Acts(t)
<1> DEFINE c == cursor[t]
           o == lib.heap[c.it]
           r == CcCredsNext(lib, c.it)
           l == r.lib
           th == there[t]
           f == Top(t)
<1>1. Busy(t) /\ f.proc \in Reads /\ f.proc \in Opened /\ f.at = "next" /\ c.it # 0
  BY DEF tf_get_cred, At, Reads, Opened
<1>2. InPlace(stack[t], c) /\ Head(stack[t]) = f /\ stack[t] # <<>> /\ FrameRight(f) /\ StackRight(stack[t])
  BY <1>1, TopIs DEF Busy
<1>3. c.ref # 0 /\ c.ref \in Nat /\ c = [ref |-> c.ref, it |-> c.it] /\ c # NoCursor
  BY <1>1, <1>2 DEF InPlace, NoCursor
<1>4. /\ f.ptr = 0 /\ Own(t) = {c.ref, c.it} /\ Own(t) \subseteq DOMAIN lib.heap
      /\ Objects(lib, c) /\ Found(lib, stack[t], c, th)
  BY <1>1, <1>3, OpenedOwns
<1>5. FileRight(lib)
  BY DEF KInv
<1>6. c.ref # c.it /\ lib.heap[c.ref].version = "v4" /\ NextIs(lib, c.it, o, r)
  <2>1. c.ref # c.it /\ lib.heap[c.ref].version = "v4"
    BY <1>3, <1>4 DEF Objects
  <2>2. PICK i, x, n : /\ o = [kind |-> "creds", id |-> i, set |-> x, pos |-> n, version |-> "v4"]
                       /\ n \in Nat \ {0} /\ x \in Seq(ToSet(x))
    BY <1>1, <1>4 DEF Objects
  <2>3. c.it \in DOMAIN lib.heap
    BY <1>4
  <2> QED BY <1>5, <2>1, <2>2, <2>3, NextDoes
<1>7. Searches(stack[t]) => th = {} \/ Ahead(lib, o, th, Got(f))
  BY <1>1, <1>2, <1>4 DEF Found
<1>8. Ahead(lib, o, th, Got(f)) => ToSet(o.set) \subseteq DOMAIN lib.data.cred
  <2>1. o.id \in DOMAIN lib.data.cache => Holding(lib.data, o.id) \subseteq DOMAIN lib.data.cred
    BY <1>5, HoldingLive DEF FileRight
  <2> QED BY <2>1 DEF Ahead
<1>9. /\ FileRight(l) /\ l.data.cache = lib.data.cache /\ l.data.cred = lib.data.cred
      /\ Flows(lib.data, l.data)
  <2>1. FileData(lib.data) /\ WellFormed(lib.data)
    BY <1>5 DEF FileRight, FileData, Good
  <2>2. FileRight(l) /\ l.data \in {lib.data, Pin(lib.data)}
    BY <1>6 DEF NextIs
  <2>3. /\ Pin(lib.data).cache = lib.data.cache /\ Pin(lib.data).cred = lib.data.cred
        /\ Flows(lib.data, lib.data) /\ Flows(lib.data, Pin(lib.data))
    <3>1. FileData(lib.data)
      BY <1>5 DEF FileRight
    <3> QED BY <2>1, <3>1, StampsFlow, StampsDo
  <2>4. CASE l.data = lib.data
    BY <2>2, <2>3, <2>4
  <2>5. CASE l.data = Pin(lib.data)
    BY <2>2, <2>3, <2>5
  <2> QED BY <2>2, <2>4, <2>5
<1>10. DOMAIN l.heap = DOMAIN lib.heap /\ \A x \in DOMAIN lib.heap \ {c.it} : l.heap[x] = lib.heap[x]
  BY <1>6 DEF NextIs
<1>11. CASE r.err = "CC_NOERROR"
  <2> DEFINE k == r.cred
             tk == lib.data.cred[k].service
  <2>1. Lib(l) /\ UNCHANGED cursor /\ Uses(t, k)
    BY <1>11 DEF tf_get_cred
  <2>2. PICK n : /\ l.heap[c.it] = [kind |-> "creds", id |-> o.id, set |-> o.set, pos |-> n, version |-> "v4"]
                 /\ n \in Nat \ {0}
                 /\ ToSet(o.set) \subseteq DOMAIN lib.data.cred
                      => n = o.pos + 1 /\ o.pos <= Len(o.set) /\ k = o.set[o.pos]
    BY <1>6, <1>11 DEF NextIs
  <2>3. /\ lib'.heap = l.heap /\ lib'.data.cache = lib.data.cache /\ lib'.data.cred = lib.data.cred
    BY <1>9, <2>1, LibDoes
  <2>4. o.set \in Seq(ToSet(o.set)) /\ o.pos \in Nat \ {0}
    <3>1. PICK i, x, m : /\ o = [kind |-> "creds", id |-> i, set |-> x, pos |-> m, version |-> "v4"]
                         /\ m \in Nat \ {0} /\ x \in Seq(ToSet(x))
      BY <1>1, <1>4 DEF Objects
    <3>2. o.set = x /\ o.pos = m
      BY <3>1
    <3> HIDE DEF o
    <3> QED BY <3>1, <3>2
  <2>5. ASSUME Ahead(lib, o, th, Got(f)), NEW tw \in SUBSET th, NEW got, Got(f) \subseteq got,
               k \in tw => k \in got
        PROVE  Ahead(lib', lib'.heap[c.it], tw, got)
    <3> DEFINE w == lib'.heap[c.it]
    <3>1. w.id = o.id /\ w.set = o.set /\ w.pos = o.pos + 1 /\ k = o.set[o.pos]
      BY <1>8, <2>2, <2>3, <2>5
    <3>2. \A j \in tw : j \in got \/ \E i \in o.pos + 1 .. Len(o.set) : o.set[i] = j
      <4>1. ASSUME NEW j \in tw, j \notin got PROVE \E i \in o.pos + 1 .. Len(o.set) : o.set[i] = j
        <5>1. PICK i \in o.pos .. Len(o.set) : o.set[i] = j
          BY <2>5, <4>1 DEF Ahead
        <5>2. i # o.pos
          BY <2>5, <3>1, <4>1, <5>1
        <5>3. Len(o.set) \in Nat
          <6> DEFINE x == o.set
                     X == ToSet(x)
          <6>1. x \in Seq(X)
            BY <2>4
          <6> HIDE DEF x, X
          <6>2. Len(x) \in Nat
            BY <6>1
          <6> QED BY <6>2 DEF x
        <5>4. i \in o.pos + 1 .. Len(o.set)
          BY <2>4, <5>1, <5>2, <5>3
        <5> QED BY <5>1, <5>4
      <4> QED BY <4>1
    <3>3. \A i : Holding(lib'.data, i) = Holding(lib.data, i)
      BY <2>3 DEF Holding
    <3> HIDE DEF w
    <3>4. /\ o.id \in DOMAIN lib'.data.cache
          /\ ToSet(o.set) \subseteq Holding(lib'.data, o.id) /\ tw \subseteq Holding(lib'.data, o.id)
      BY <2>3, <2>5, <3>3 DEF Ahead
    <3>5. Ahead(lib', w, tw, got)
      BY <3>1, <3>2, <3>4 DEF Ahead
    <3> QED BY <3>5 DEF w
  <2>6. ASSUME NEW s, stack' = [stack EXCEPT ![t] = s], StackRight(s), s # <<>>, Head(s).ptr = 0,
               Head(s).proc = f.proc, Head(s).at \in {"next", "close"},
               Found(lib', s, c, Watched(lib', s, there[t]))
        PROVE  Acts(t)
    <3>1. InPlace(s, c)
      BY <1>1, <1>2, <1>3, <2>6 DEF InPlace
    <3>2. Mine(s, c) = Own(t)
      BY <1>1, <1>3, <1>4, <2>6 DEF Mine
    <3>3. Objects(l, c)
      <4>1. l.heap[c.ref] = lib.heap[c.ref]
        BY <1>4, <1>6, <1>10
      <4>2. \E i, x, m : /\ l.heap[c.it] = [kind |-> "creds", id |-> i, set |-> x, pos |-> m, version |-> "v4"]
                         /\ m \in Nat \ {0} /\ x \in Seq(ToSet(x))
        <5> DEFINE a == o.id
                   b == o.set
        <5>1. l.heap[c.it] = [kind |-> "creds", id |-> a, set |-> b, pos |-> n, version |-> "v4"]
          BY <2>2
        <5>2. n \in Nat \ {0} /\ b \in Seq(ToSet(b))
          BY <2>2, <2>4
        <5> HIDE DEF a, b
        <5> QED BY <5>1, <5>2
      <4> QED BY <1>6, <4>1, <4>2 DEF Objects
    <3>4. cursor' = [cursor EXCEPT ![t] = c]
      <4>1. cursor = [u \in Thread |-> cursor[u]]
        BY DEF KInv
      <4> QED BY <2>1, <4>1
    <3> HIDE DEF l, c
    <3>5. /\ DOMAIN l.heap = (DOMAIN lib.heap \ Own(t)) \cup Mine(s, c)
          /\ Mine(s, c) \cap (DOMAIN lib.heap \ Own(t)) = {}
          /\ \A q \in DOMAIN lib.heap \ Own(t) : l.heap[q] = lib.heap[q]
      BY <1>4, <1>10, <3>2
    <3> QED BY <1>9, <2>1, <2>6, <3>1, <3>3, <3>4, <3>5, ChangeActs
  <2>7. CASE f.proc = "klist"
    <3> DEFINE x == f.x
               y == [x EXCEPT !.got = @ \cup {k}]
    <3>1. With(t, "next", y)
      BY <2>1, <2>7 DEF Uses, Notes
    <3>2. XRight("klist", x)
      BY <1>2, <2>7 DEF FrameRight
    <3> HIDE DEF x, k
    <3>3. XRight(f.proc, y) /\ y.got = x.got \cup {k}
      BY <2>7, <3>2 DEF XRight
    <3> HIDE DEF y
    <3>4. PICK s : /\ stack' = [stack EXCEPT ![t] = s] /\ StackRight(s) /\ s # <<>>
                   /\ Head(s).at = "next" /\ Head(s).ptr = f.ptr /\ Head(s).proc = f.proc
                   /\ Head(s).name = f.name /\ Head(s).realm = f.realm /\ Head(s).x = y
      BY <1>1, <3>1, <3>3, WithDoes
    <3> DEFINE tw == Watched(lib', s, there[t])
    <3>5. tw \subseteq th
      BY <3>4, WatchedInFile
    <3>6. Searches(stack[t])
      BY <1>2, <2>7 DEF Searches
    <3>7. Got(Head(s)) = Got(f) \cup {k}
      BY <2>7, <3>3, <3>4 DEF Got, x
    <3> HIDE DEF tw
    <3>8. tw = {} \/ Ahead(lib', lib'.heap[c.it], tw, Got(Head(s)))
      BY <1>7, <2>5, <3>5, <3>6, <3>7 DEF k
    <3>9. Found(lib', s, c, tw)
      BY <1>1, <3>4, <3>8 DEF Found
    <3> QED BY <1>4, <2>6, <3>4, <3>9 DEF tw
  <2>8. CASE \E val : Stops(t, "KSUCCESS", val) /\ f.proc # "klist"
    <3>1. PICK s : /\ stack' = [stack EXCEPT ![t] = s] /\ StackRight(s) /\ s # <<>>
                   /\ Head(s).at = "close" /\ Head(s).ptr = 0 /\ Head(s).proc = f.proc
                   /\ f.proc \in {"get_cred", "klist"} => Head(s).x.res.code = "KSUCCESS"
                   /\ f.proc = "klist" => Head(s).x.got = f.x.got
      BY <1>1, <2>8, StopsDoes
    <3>2. Found(lib', s, c, Watched(lib', s, there[t]))
      BY <2>8, <3>1 DEF Found, Searches
    <3> QED BY <2>6, <3>1, <3>2
  <2>9. CASE /\ f.proc = "get_cred" /\ UNCHANGED stack
             /\ ~(tk.name = f.name /\ tk.realm = f.realm /\ ~tk.old)
    <3> DEFINE s == stack[t]
               tw == Watched(lib', s, there[t])
    <3>1. stack' = [stack EXCEPT ![t] = s]
      <4>1. stack = [u \in Thread |-> stack[u]]
        BY DEF KInv
      <4> QED BY <2>9, <4>1
    <3>2. Searches(s) /\ Head(s).at = "next" /\ Head(s) = f
      BY <1>1, <1>2, <2>9 DEF Searches
    <3>3. tw \subseteq th /\ tw \subseteq Sought(lib', f)
      BY <3>2 DEF Watched
    <3>4. k \notin Sought(lib', f)
      BY <2>3, <2>9 DEF Sought
    <3>5. Got(f) = {}
      BY <2>9 DEF Got
    <3> HIDE DEF tw, k, tk
    <3>6. tw = {} \/ Ahead(lib', lib'.heap[c.it], tw, Got(f))
      BY <1>7, <2>5, <3>2, <3>3, <3>4, <3>5 DEF k
    <3>7. Found(lib', s, c, tw)
      BY <1>1, <3>2, <3>6 DEF Found
    <3> QED BY <1>1, <1>2, <1>4, <2>6, <3>1, <3>2, <3>7 DEF tw
  <2>10. f.proc = "klist" \/ f.proc = "fullname" \/ f.proc = "get_cred"
    BY <1>1 DEF Reads, Opened
  <2>11. CASE f.proc = "fullname"
    <3>1. Stops(t, "KSUCCESS", tk.realm)
      BY <2>1, <2>11 DEF Uses
    <3> QED BY <2>8, <2>11, <3>1
  <2>12. CASE f.proc = "get_cred"
    <3>1. IF tk.name = f.name /\ tk.realm = f.realm /\ ~tk.old
          THEN Stops(t, "KSUCCESS", [key |-> k, ticket |-> tk])
          ELSE UNCHANGED stack
      BY <2>1, <2>12 DEF Uses
    <3> QED BY <2>8, <2>9, <2>12, <3>1
  <2> QED BY <2>7, <2>10, <2>11, <2>12
<1>12. CASE r.err # "CC_NOERROR"
  <2> DEFINE m == Free(l, c.it)
             new == [ref |-> c.ref, it |-> 0]
  <2>1. Lib(m) /\ cursor' = [cursor EXCEPT ![t].it = 0] /\ Stops(t, EndCode(t, r.err), NoRealm)
    BY <1>12 DEF tf_get_cred, IterationEnds, CcCredsEnd, Result
  <2>2. cursor' = [cursor EXCEPT ![t] = new]
    <3>1. [cursor[t] EXCEPT !.it = 0] = new
      BY <1>3
    <3> QED BY <2>1, <3>1
  <2>3. FileRight(m) /\ Freed(l, m, c.it)
    BY <1>9, FreeDoes
  <2>4. PICK s : /\ stack' = [stack EXCEPT ![t] = s] /\ StackRight(s) /\ s # <<>>
                 /\ Head(s).at = "close" /\ Head(s).ptr = 0 /\ Head(s).proc = f.proc
                 /\ f.proc \in {"get_cred", "klist"} => Head(s).x.res.code = EndCode(t, r.err)
                 /\ f.proc = "klist" => Head(s).x.got = f.x.got
    BY <1>1, <2>1, StopsDoes
  <2>5. /\ new.ref = c.ref /\ new.it = 0 /\ new = [ref |-> new.ref, it |-> new.it] /\ new # NoCursor
    BY <1>3 DEF NoCursor
  <2> HIDE DEF new, m
  <2>6. InPlace(s, new)
    BY <1>1, <1>3, <2>4, <2>5 DEF InPlace
  <2>7. Mine(s, new) = {c.ref}
    BY <1>3, <2>4, <2>5 DEF Mine
  <2>8. /\ DOMAIN m.heap = DOMAIN lib.heap \ {c.it} /\ m.data = l.data
        /\ \A q \in DOMAIN m.heap : m.heap[q] = lib.heap[q]
    BY <1>10, <2>3 DEF Freed
  <2>9. Objects(m, new)
    <3>1. c.ref \in DOMAIN m.heap
      BY <1>4, <1>6, <2>8
    <3> QED BY <1>3, <1>6, <2>5, <2>8, <3>1 DEF Objects
  <2>10. /\ DOMAIN m.heap = (DOMAIN lib.heap \ Own(t)) \cup Mine(s, new)
         /\ Mine(s, new) \cap (DOMAIN lib.heap \ Own(t)) = {}
         /\ \A q \in DOMAIN lib.heap \ Own(t) : m.heap[q] = lib.heap[q]
    BY <1>4, <1>6, <2>7, <2>8
  <2>11. Found(lib', s, new, Watched(lib', s, there[t]))
    <3> DEFINE tw == Watched(lib', s, there[t])
    <3>1. tw \subseteq th
      BY <2>4, WatchedInFile
    <3>2. Searches(stack[t]) => th \subseteq Got(f)
      <4>1. ASSUME Ahead(lib, o, th, Got(f)) PROVE th \subseteq Got(f)
        <5>1. o.pos > Len(o.set)
          BY <1>6, <1>8, <1>12, <4>1 DEF NextIs
        <5>3. o.set \in Seq(ToSet(o.set)) /\ o.pos \in Nat
          <6>1. PICK i, x, n : /\ o = [kind |-> "creds", id |-> i, set |-> x, pos |-> n, version |-> "v4"]
                               /\ n \in Nat \ {0} /\ x \in Seq(ToSet(x))
            BY <1>1, <1>4 DEF Objects
          <6>2. o.set = x /\ o.pos = n
            BY <6>1
          <6> HIDE DEF o
          <6> QED BY <6>1, <6>2
        <5>4. \A y : y \in Seq(ToSet(y)) => Len(y) \in Nat
          OBVIOUS
        <5>2. \A i \in o.pos .. Len(o.set) : FALSE
          <6>1. Len(o.set) \in Nat
            BY <5>3, <5>4
          <6> QED BY <5>1, <5>3, <6>1
        <5> QED BY <4>1, <5>2 DEF Ahead
      <4> QED BY <1>7, <4>1
    <3>3. Searches(s) => Searches(stack[t])
      BY <1>2, <2>4 DEF Searches
    <3> HIDE DEF tw, th
    <3>4. f.proc = "get_cred" /\ Searches(s) => tw = {}
      BY <3>1, <3>2, <3>3 DEF Got
    <3>5. f.proc = "klist" /\ Searches(s) => tw \subseteq Head(s).x.got
      BY <2>4, <3>1, <3>2, <3>3 DEF Got
    <3>6. Found(lib', s, new, tw)
      BY <2>4, <3>4, <3>5 DEF Found
    <3> QED BY <3>6 DEF tw
  <2>12. Flows(lib.data, m.data)
    BY <1>9, <2>8
  <2> QED BY <2>1, <2>2, <2>3, <2>4, <2>6, <2>9, <2>10, <2>11, <2>12, ChangeActs
<1> QED BY <1>11, <1>12

(* tf_save_cred: the ticket goes to the end of its cache.                   *)
LEMMA SaveActs ==
  ASSUME KInv, NEW t \in Thread, tf_save_cred(t)
  PROVE  Acts(t)
<1> DEFINE c == cursor[t]
           i == lib.heap[c.ref].id
           new == Filed(t)
           r == CcStore(lib, c.ref, new)
           e == StoreCredentials(lib.data, i, new)
<1>1. Busy(t) /\ Top(t).proc = "save" /\ Top(t).proc \in Opened /\ Top(t).at = "store"
  BY DEF tf_save_cred, At, Opened
<1>2. InPlace(stack[t], c) /\ Head(stack[t]) = Top(t) /\ stack[t] # <<>>
  BY <1>1, TopIs DEF Busy
<1>3. c.ref # 0 /\ c # NoCursor
  BY <1>1, <1>2 DEF InPlace, NoCursor
<1>4. Own(t) = {c.ref, c.it} \ {0} /\ Objects(lib, c) /\ Own(t) \subseteq DOMAIN lib.heap
  BY <1>1, OpenedOwns
<1>5. CASE r.err # "CC_NOERROR"
  <2>1. Shut(t) /\ Stops(t, "KFAILURE", NoRealm)
    BY <1>5 DEF tf_save_cred
  <2> QED BY <1>1, <2>1, ShutStops
<1>6. CASE r.err = "CC_NOERROR"
  <2>1. Lib(r.lib) /\ UNCHANGED cursor /\ Stops(t, "KSUCCESS", NoRealm)
    BY <1>6 DEF tf_save_cred
  <2>2. i \in DOMAIN lib.data.cache /\ r.lib = OnData(lib, e)
    BY <1>6 DEF CcStore, Result, Live
  <2>3. FileData(e) /\ Flows(lib.data, e)
    <3>1. FileData(lib.data)
      BY DEF KInv, FileRight
    <3>2. PICK s : new = [version |-> "v4", service |-> s]
      BY DEF Filed
    <3> HIDE DEF new, i
    <3> QED BY <2>2, <3>1, <3>2, StoreFlows
  <2> DEFINE l == r.lib
  <2>4. FileRight(l) /\ l.data = e /\ l.heap = lib.heap
    <3> HIDE DEF e, r
    <3> QED BY <2>2, <2>3, OnDataRight DEF KInv
  <2>5. PICK s : /\ stack' = [stack EXCEPT ![t] = s] /\ StackRight(s) /\ s # <<>>
                 /\ Head(s).at = "close" /\ Head(s).ptr = 0 /\ Head(s).proc = Top(t).proc
                 /\ Top(t).proc \in {"get_cred", "klist"} => Head(s).x.res.code = "KSUCCESS"
                 /\ Top(t).proc = "klist" => Head(s).x.got = Top(t).x.got
    BY <1>1, <2>1, StopsDoes
  <2>6. cursor' = [cursor EXCEPT ![t] = c]
    <3>1. cursor = [u \in Thread |-> cursor[u]]
      BY DEF KInv
    <3> QED BY <2>1, <3>1
  <2> HIDE DEF e, r, l, i, new
  <2>7. InPlace(s, c)
    BY <1>1, <1>2, <1>3, <2>5 DEF InPlace
  <2>8. Mine(s, c) = Own(t)
    BY <1>4, <2>5 DEF Mine
  <2>9. Objects(l, c)
    BY <1>4, <2>4 DEF Objects
  <2>10. Found(lib', s, c, Watched(lib', s, there[t]))
    BY <1>1, <2>5 DEF Found, Searches
  <2>11. /\ DOMAIN l.heap = (DOMAIN lib.heap \ Own(t)) \cup Mine(s, c)
         /\ Mine(s, c) \cap (DOMAIN lib.heap \ Own(t)) = {}
    BY <1>4, <2>4, <2>8
  <2>12. Lib(l) /\ Flows(lib.data, l.data)
    BY <2>1, <2>3, <2>4 DEF l
  <2> QED BY <2>4, <2>5, <2>6, <2>7, <2>9, <2>10, <2>11, <2>12, ChangeActs
<1> QED BY <1>5, <1>6

(* tf_close, and the listing after it has seen that there is a file.        *)
LEMMA CloseActs ==
  ASSUME KInv, NEW t \in Thread, tf_close(t) \/ ListingShuts(t)
  PROVE  Acts(t)
<1>1. Busy(t) /\ Top(t).proc \in Opened /\ Shut(t)
  BY DEF tf_close, ListingShuts, At, Opened
<1>2. FrameRight(Top(t)) /\ StackRight(stack[t]) /\ Head(stack[t]) = Top(t) /\ Top(t).ptr = 0
  BY <1>1, TopIs, OpenedOwns
<1>3. ASSUME NEW s, stack' = [stack EXCEPT ![t] = s], StackRight(s), s = <<>> \/ Plain(Head(s))
      PROVE  Acts(t)
  <2>1. ThreadRight(lib', s, NoCursor, Watched(lib', s, there[t]))
    BY <1>3, PlainIsRight
  <2> QED BY <1>1, <1>3, <2>1, ShutActs DEF ThreadRight, Plain
<1>4. ASSUME NEW code, NEW val, Returns(t, code, val) PROVE Acts(t)
  <2>1. PICK s : /\ stack' = [stack EXCEPT ![t] = s] /\ StackRight(s)
                 /\ s = <<>> \/ Plain(Head(s))
    BY <1>1, <1>4, ReturnsDoes
  <2> QED BY <1>3, <2>1
<1>5. CASE Goto(t, "prompt")
  <2>1. PICK s : /\ stack' = [stack EXCEPT ![t] = s] /\ StackRight(s) /\ s # <<>>
                 /\ Head(s).at = "prompt" /\ Head(s).ptr = Top(t).ptr /\ Head(s).proc = Top(t).proc
                 /\ Head(s).name = Top(t).name /\ Head(s).realm = Top(t).realm /\ Head(s).x = Top(t).x
    BY <1>1, <1>5, GotoDoes
  <2>2. Plain(Head(s))
    BY <1>2, <2>1 DEF Plain, Special
  <2> QED BY <1>3, <2>1, <2>2
<1>6. CASE ListingShuts(t)
  <2> DEFINE g == [Top(t) EXCEPT !.at = "realm"]
             s == <<Fullname, g>> \o Tail(stack[t])
  <2>1. Len(stack[t]) < MaxDepth /\ stack' = [stack EXCEPT ![t] = s]
    BY <1>6 DEF ListingShuts, Enters, Calls, Top
  <2>2. FrameRight(g) /\ Plain(g)
    BY <1>2, FrameGoes DEF Plain, Special
  <2>3. FrameRight(Fullname) /\ Plain(Fullname)
    BY FramesRight
  <2>4. stack[t] # <<>>
    BY <1>1 DEF Busy
  <2> HIDE DEF g
  <2>5. StackRight(s) /\ s # <<>> /\ Head(s) = Fullname
    BY <1>2, <2>1, <2>2, <2>3, <2>4, StackCalls
  <2> HIDE DEF s
  <2> QED BY <1>3, <2>1, <2>3, <2>5
<1>7. CASE tf_close(t)
  BY <1>4, <1>5, <1>7 DEF tf_close
<1> QED BY <1>6, <1>7

(* What in_tkt and dest_tkt have to show: the library leaves l, and the      *)
(* frame that stays has all that the thread has of the server.              *)
LEMMA PointerActs ==
  ASSUME KInv, NEW t \in Thread, Busy(t), Top(t).proc \notin Opened, UNCHANGED cursor,
         NEW l, FileRight(l), Flows(lib.data, l.data), Lib(l),
         NEW s, StackRight(s), stack' = [stack EXCEPT ![t] = s],
         NEW q, \/ q = 0 /\ (s = <<>> \/ Plain(Head(s)))
                \/ /\ s # <<>> /\ Head(s).ptr = q /\ q # 0 /\ q \notin DOMAIN lib.heap
                   /\ Head(s).proc \in {"in_tkt", "dest_tkt"} /\ Head(s).at \in {"destroy", "close"},
         DOMAIN l.heap = (DOMAIN lib.heap \ Own(t)) \cup ({q} \ {0}),
         \A x \in DOMAIN lib.heap \ Own(t) : l.heap[x] = lib.heap[x]
  PROVE  Acts(t)
<1>1. cursor[t] = NoCursor /\ 0 \notin DOMAIN lib.heap
  BY PointerOwns
<1>2. NoCursor = [ref |-> NoCursor.ref, it |-> NoCursor.it] /\ NoCursor.ref = 0 /\ NoCursor.it = 0
  BY DEF NoCursor
<1>3. InPlace(s, NoCursor)
  BY <1>2 DEF InPlace, Plain, Special, Opened
<1>4. Mine(s, NoCursor) = {q} \ {0}
  BY <1>2 DEF Mine, Plain
<1>5. Objects(l, NoCursor)
  BY <1>2 DEF Objects
<1>6. Found(lib', s, NoCursor, Watched(lib', s, there[t]))
  BY DEF Found, Searches, Plain, Special
<1>7. cursor' = [cursor EXCEPT ![t] = NoCursor]
  <2>1. cursor = [u \in Thread |-> cursor[u]]
    BY DEF KInv
  <2> QED BY <1>1, <2>1
<1>8. Mine(s, NoCursor) \cap (DOMAIN lib.heap \ Own(t)) = {}
  BY <1>1, <1>4
<1> QED BY <1>3, <1>4, <1>5, <1>6, <1>7, <1>8, ChangeActs

(* cc_open of in_tkt and dest_tkt.                                         *)
LEMMA OpensActs ==
  ASSUME KInv, NEW t \in Thread, OpensFile(t)
  PROVE  Acts(t)
<1> DEFINE r == CcOpen(lib, File, "v4")
           f == [Top(t) EXCEPT !.at = "destroy", !.ptr = r.ptr]
<1>1. /\ Busy(t) /\ Top(t).proc \in {"in_tkt", "dest_tkt"} /\ Top(t).proc \notin Opened
      /\ Top(t).at = "start" /\ Room(lib) /\ UNCHANGED cursor
  BY DEF OpensFile, At, Opened
<1>2. FrameRight(Top(t)) /\ Plain(Top(t)) /\ FileRight(lib)
  BY <1>1, TopIs DEF Special, KInv
<1>3. Own(t) = {}
  BY <1>1, <1>2, PlainHasNone
<1>4. CASE r.err # "CC_NOERROR"
  <2>1. Keeps
    BY <1>1, <1>4 DEF OpensFile, Keeps
  <2>2. Goto(t, "create") \/ Returns(t, "RET_TKFIL", NoRealm)
    BY <1>4 DEF OpensFile
  <2>3. CASE Goto(t, "create")
    BY <1>1, <1>2, <2>1, <2>3, GoesActs DEF Special
  <2> QED BY <1>1, <1>2, <2>1, <2>2, <2>3, PlainReturns
<1>5. CASE r.err = "CC_NOERROR"
  <2>1. Lib(r.lib) /\ Becomes(t, f)
    BY <1>5 DEF OpensFile
  <2>2. PICK i : /\ Added(lib, r.lib, r.ptr, [kind |-> "ccache", id |-> i, version |-> "v4"])
                 /\ FileRight(r.lib) /\ r.lib.data = lib.data /\ r.ptr \in Nat \ {0}
    BY <1>1, <1>2, <1>5, OpenDoes
  <2> DEFINE l == r.lib
             q == r.ptr
  <2>3. /\ Lib(l) /\ FileRight(l) /\ l.data = lib.data /\ q \in Nat \ {0}
        /\ DOMAIN l.heap = DOMAIN lib.heap \cup {q} /\ q \notin DOMAIN lib.heap
        /\ \A x \in DOMAIN lib.heap : l.heap[x] = lib.heap[x]
    BY <2>1, <2>2 DEF Added
  <2> HIDE DEF l, q, r
  <2>4. f = [Top(t) EXCEPT !.at = "destroy", !.ptr = q]
    BY DEF q
  <2> HIDE DEF f
  <2>5. FrameRight(f) /\ f.ptr = q /\ f.at = "destroy" /\ f.proc = Top(t).proc
    BY <1>2, <2>4 DEF FrameRight, FrameFields
  <2>6. PICK s : stack' = [stack EXCEPT ![t] = s] /\ StackRight(s) /\ s # <<>> /\ Head(s) = f
    BY <1>1, <2>1, <2>5, BecomesDoes
  <2>7. Flows(lib.data, l.data)
    BY <1>2, <2>3, StampsFlow DEF FileRight
  <2>8. DOMAIN l.heap = (DOMAIN lib.heap \ Own(t)) \cup ({q} \ {0})
    BY <1>3, <2>3
  <2>9. /\ s # <<>> /\ Head(s).ptr = q /\ q # 0 /\ q \notin DOMAIN lib.heap
        /\ Head(s).proc \in {"in_tkt", "dest_tkt"} /\ Head(s).at \in {"destroy", "close"}
    BY <1>1, <2>3, <2>5, <2>6
  <2>10. \A x \in DOMAIN lib.heap \ Own(t) : l.heap[x] = lib.heap[x]
    BY <2>3
  <2> QED BY <1>1, <2>3, <2>6, <2>7, <2>8, <2>9, <2>10, PointerActs
<1> QED BY <1>4, <1>5

(* cc_destroy of in_tkt and dest_tkt: whether the cache is there or not, the  *)
(* reference goes.                                                         *)
LEMMA DestroysActs ==
  ASSUME KInv, NEW t \in Thread, DestroysFile(t)
  PROVE  Acts(t)
<1> DEFINE q == Top(t).ptr
           l == Destroyed(lib, q)
           i == lib.heap[q].id
           f == [Top(t) EXCEPT !.at = "create", !.ptr = 0]
<1>1. /\ Busy(t) /\ Top(t).proc \in {"in_tkt", "dest_tkt"} /\ Top(t).proc \notin Opened
      /\ Top(t).at = "destroy" /\ UNCHANGED cursor /\ Lib(l)
      /\ Becomes(t, f) \/ Returns(t, "RET_OK", NoRealm)
  BY DEF DestroysFile, At, Opened
<1>2. FrameRight(Top(t)) /\ FileRight(lib)
  BY <1>1, TopIs DEF KInv
<1>3. Own(t) = {q} \ {0} /\ 0 \notin DOMAIN lib.heap
  BY <1>1, PointerOwns
<1>4. /\ FileRight(l) /\ Flows(lib.data, l.data)
      /\ DOMAIN l.heap = DOMAIN lib.heap \ {q}
      /\ \A x \in DOMAIN l.heap : l.heap[x] = lib.heap[x]
  <2>1. CASE Live(lib.data, i)
    <3> DEFINE e == Destroy(lib.data, i)
               m == OnData(lib, e)
    <3>1. l = Free(m, q)
      BY <2>1 DEF Destroyed, CcDestroy, Result
    <3>2. FileData(e) /\ Flows(lib.data, e)
      BY <1>2, <2>1, DestroyFlows DEF Live, FileRight
    <3> HIDE DEF e
    <3>3. FileRight(m) /\ m.data = e /\ m.heap = lib.heap
      BY <1>2, <3>2, OnDataRight
    <3> HIDE DEF m
    <3>4. FileRight(l) /\ Freed(m, l, q)
      BY <3>1, <3>3, FreeDoes
    <3> HIDE DEF l
    <3> QED BY <3>2, <3>3, <3>4 DEF Freed
  <2>2. CASE ~Live(lib.data, i)
    <3>1. l = Free(lib, q)
      BY <2>2 DEF Destroyed, CcDestroy, Result
    <3>2. FileRight(l) /\ Freed(lib, l, q)
      BY <1>2, <3>1, FreeDoes
    <3>3. Flows(lib.data, lib.data)
      BY <1>2, StampsFlow DEF FileRight
    <3> HIDE DEF l
    <3> QED BY <3>2, <3>3 DEF Freed
  <2> QED BY <2>1, <2>2
<1> HIDE DEF l
<1>5. ASSUME NEW s, stack' = [stack EXCEPT ![t] = s], StackRight(s), s = <<>> \/ Plain(Head(s))
      PROVE  Acts(t)
  <2>1. DOMAIN l.heap = (DOMAIN lib.heap \ Own(t)) \cup ({0} \ {0})
    BY <1>3, <1>4
  <2>2. \A x \in DOMAIN lib.heap \ Own(t) : l.heap[x] = lib.heap[x]
    BY <1>3, <1>4
  <2> QED BY <1>1, <1>4, <1>5, <2>1, <2>2, PointerActs
<1>6. CASE Becomes(t, f)
  <2>1. FrameRight(f) /\ f.ptr = 0 /\ f.at = "create"
    BY <1>2 DEF FrameRight, FrameFields
  <2>2. Plain(f)
    BY <2>1 DEF Plain, Special
  <2> HIDE DEF f
  <2>3. PICK s : stack' = [stack EXCEPT ![t] = s] /\ StackRight(s) /\ s # <<>> /\ Head(s) = f
    BY <1>1, <1>6, <2>1, BecomesDoes
  <2> QED BY <1>5, <2>2, <2>3
<1>7. CASE Returns(t, "RET_OK", NoRealm)
  <2>1. PICK s : stack' = [stack EXCEPT ![t] = s] /\ StackRight(s) /\ (s = <<>> \/ Plain(Head(s)))
    BY <1>1, <1>7, ReturnsDoes
  <2> QED BY <1>5, <2>1
<1> QED BY <1>1, <1>6, <1>7

(* cc_create and cc_close of in_tkt.                                       *)
LEMMA CreatesActs ==
  ASSUME KInv, NEW t \in Thread, CreatesFile(t)
  PROVE  Acts(t)
<1> DEFINE p == Top(t).name
           r == CcCreate(lib, File, "v4", p)
           q == r.ptr
           l == r.lib
           made == CreateCCache(lib.data, File, "v4", p)
           e == made.d
           m == OnData(lib, e)
           obj == [kind |-> "ccache", id |-> made.id, version |-> "v4"]
           f == [Top(t) EXCEPT !.at = "close", !.ptr = q]
<1>1. /\ Busy(t) /\ Top(t).proc = "in_tkt" /\ Top(t).proc \notin Opened
      /\ Top(t).at = "create" /\ UNCHANGED cursor /\ Lib(l) /\ Becomes(t, f) /\ Room(lib)
  BY DEF CreatesFile, At, Opened
<1>2. FrameRight(Top(t)) /\ Plain(Top(t)) /\ FileRight(lib) /\ p \in Principal
  BY <1>1, TopIs DEF KInv, FrameRight, Special
<1>3. Own(t) = {}
  BY <1>1, <1>2, PlainHasNone
<1>4. FileData(e) /\ Flows(lib.data, e)
  BY <1>2, CreateFlows DEF FileRight
<1>5. r = Given(m, obj)
  BY DEF CcCreate
<1>6. FileRight(m) /\ m.data = e /\ m.heap = lib.heap
  <2> HIDE DEF e
  <2> QED BY <1>2, <1>4, OnDataRight
<1>7. Added(m, l, q, obj) /\ FileRight(l) /\ l.data = e /\ q \in Nat \ {0}
  <2>1. Room(m)
    BY <1>1, <1>6 DEF Room
  <2> HIDE DEF m, obj, e
  <2> QED BY <1>5, <1>6, <2>1, GivenDoes DEF l, q
<1> HIDE DEF l, r, made, e, m, obj
<1>8. /\ DOMAIN l.heap = DOMAIN lib.heap \cup {q} /\ q \notin DOMAIN lib.heap
      /\ \A x \in DOMAIN lib.heap : l.heap[x] = lib.heap[x]
  BY <1>6, <1>7 DEF Added
<1>9. FrameRight(f) /\ f.ptr = q /\ f.at = "close" /\ f.proc = "in_tkt"
  <2> HIDE DEF q
  <2> QED BY <1>1, <1>2 DEF FrameRight, FrameFields
<1> HIDE DEF f, q
<1>10. PICK s : stack' = [stack EXCEPT ![t] = s] /\ StackRight(s) /\ s # <<>> /\ Head(s) = f
  BY <1>1, <1>9, BecomesDoes
<1>11. DOMAIN l.heap = (DOMAIN lib.heap \ Own(t)) \cup ({q} \ {0})
  BY <1>3, <1>7, <1>8
<1>12. Flows(lib.data, l.data)
  BY <1>4, <1>7
<1>13. /\ Head(s).ptr = q /\ q # 0 /\ q \notin DOMAIN lib.heap
       /\ Head(s).proc \in {"in_tkt", "dest_tkt"} /\ Head(s).at \in {"destroy", "close"}
  BY <1>7, <1>8, <1>9, <1>10
<1>14. \A x \in DOMAIN lib.heap \ Own(t) : l.heap[x] = lib.heap[x]
  BY <1>8
<1> QED BY <1>1, <1>7, <1>10, <1>11, <1>12, <1>13, <1>14, PointerActs

(* cc_close at the end of in_tkt.                                          *)
LEMMA ClosesActs ==
  ASSUME KInv, NEW t \in Thread, ClosesFile(t)
  PROVE  Acts(t)
<1> DEFINE q == Top(t).ptr
           l == Free(lib, q)
<1>1. /\ Busy(t) /\ Top(t).proc \notin Opened /\ UNCHANGED cursor /\ Lib(l)
      /\ Returns(t, "KSUCCESS", NoRealm)
  BY DEF ClosesFile, At, Opened, CcClose, Result
<1>2. FileRight(lib) /\ Flows(lib.data, lib.data)
  BY StampsFlow DEF KInv, FileRight
<1>3. Own(t) = {q} \ {0} /\ 0 \notin DOMAIN lib.heap
  BY <1>1, PointerOwns
<1>4. FileRight(l) /\ Freed(lib, l, q)
  BY <1>2, FreeDoes
<1> HIDE DEF l
<1>5. PICK s : stack' = [stack EXCEPT ![t] = s] /\ StackRight(s) /\ (s = <<>> \/ Plain(Head(s)))
  BY <1>1, ReturnsDoes
<1>6. /\ DOMAIN l.heap = (DOMAIN lib.heap \ Own(t)) \cup ({0} \ {0}) /\ l.data = lib.data
      /\ \A x \in DOMAIN lib.heap \ Own(t) : l.heap[x] = lib.heap[x]
  BY <1>3, <1>4 DEF Freed
<1> QED BY <1>1, <1>2, <1>4, <1>5, <1>6, PointerActs

(***************************************************************************)
(* The invariant holds from the beginning and is kept.                     *)
(***************************************************************************)
(* Every step of a thread is one for itself and for the others.             *)
LEMMA ThreadActs ==
  ASSUME KInv, NEW t \in Thread,
         Step(t) \/ GivesUp(t) \/ LogsIn(t) \/ Starts(t) \/ Arrives(t)
  PROVE  Acts(t)
<1>1. ASSUME FileStep(t) PROVE Acts(t)
  BY <1>1, InitActs, PnameActs, BeginActs, GetCredActs, SaveActs, CloseActs,
     OpensActs, DestroysActs, CreatesActs, ClosesActs DEF FileStep
<1>2. ASSUME Step(t) PROVE Acts(t)
  BY <1>1, <1>2, ExchangeActs, MkReqActs, GetAdTktActs, LoginActs, InitActs, CloseActs, OthersAct
     DEF Step
<1> QED BY <1>2, LoginActs, OthersAct

(* A ticket of the file expires: every thread stays right.                  *)
LEMMA ExpiresKeeps ==
  ASSUME KInv, Expires, Watches
  PROVE  KInv'
<1> DEFINE d == lib.data
<1>1. PICK k \in InFile(lib) : lib' = [lib EXCEPT !.data.cred[k].service.old = TRUE]
  BY DEF Expires
<1> DEFINE e == [d EXCEPT !.cred[k].service.old = TRUE]
<1>2. FileRight(lib) /\ FileData(d)
  BY DEF KInv, FileRight
<1>3. k \in DOMAIN d.cred
  <2>1. PICK c \in DOMAIN d.cache : k \in Holding(d, c)
    BY <1>2, FileIsOneCache
  <2> QED BY <1>2, <2>1, HoldingLive
<1>4. FileData(e) /\ Flows(d, e)
  BY <1>2, <1>3, ExpiryFlows
<1>5. lib' = OnData(lib, e)
  BY <1>1, <1>2 DEF OnData, FileRight, LibFormed, LibFields
<1> HIDE DEF e
<1>6. FileRight(lib') /\ lib'.data = e /\ lib'.heap = lib.heap
  BY <1>2, <1>4, <1>5, OnDataRight
<1>7. stack' = stack /\ cursor' = cursor
  BY DEF Expires
<1>8. ASSUME NEW t \in Thread
      PROVE  ThreadRight(lib', stack'[t], cursor'[t], there'[t])
  <2>1. ThreadRight(lib, stack[t], cursor[t], there[t])
    BY DEF KInv
  <2>2. \A q \in Mine(stack[t], cursor[t]) : q \in DOMAIN lib'.heap /\ lib'.heap[q] = lib.heap[q]
    BY <1>6, <2>1 DEF ThreadRight
  <2>3. Flows(lib.data, lib'.data)
    BY <1>4, <1>6
  <2>4. ThreadRight(lib', stack[t], cursor[t], Watched(lib', stack[t], there[t]))
    BY <1>2, <1>6, <2>1, <2>2, <2>3, OthersKeep
  <2>5. there'[t] = Watched(lib', stack'[t], there[t])
    BY WatchesOne
  <2> QED BY <1>7, <2>4, <2>5
<1>9. \A t \in Thread : Own(t)' = Own(t)
  BY <1>7 DEF Own
<1> QED BY <1>6, <1>7, <1>8, <1>9 DEF KInv

(* With no thread in a call the server has no object.                       *)
LEMMA LibIsRight ==
  ASSUME NEW p \in Principal
  PROVE  /\ FileRight(NoLib) /\ DOMAIN NoLib.heap = {}
         /\ FileRight(LoggedInLib(p)) /\ DOMAIN LoggedInLib(p).heap = {}
<1> DEFINE d == NoLib.data
           made == CreateCCache(d, File, "v4", p)
           e == made.d
           c == made.id
           tgt == [version |-> "v4", service |-> Asked(p).ticket]
           g == StoreCredentials(e, c, tgt)
<1>1. d = ContextChanged(NoData) /\ d.order = <<>> /\ DOMAIN d.cache = {} /\ DOMAIN d.cred = {}
  BY DEF NoLib, ContextChanged, NoData
<1>2. FileData(d)
  <2>1. Good(d) /\ OwnsOnce(d)
    BY <1>1, FirstDataRight DEF DataRight
  <2> QED BY <1>1, <2>1 DEF FileData, OnlyV4
<1>3. FileRight(NoLib) /\ DOMAIN NoLib.heap = {}
  <2>1. LibFormed(NoLib) /\ DOMAIN NoLib.heap = {}
    BY DEF NoLib, LibFormed, LibFields
  <2> QED BY <1>2, <2>1 DEF FileRight
<1>4. FileData(e)
  BY <1>2, CreateFlows
<1>5. c \in DOMAIN e.cache
  <2>1. ~Known(d, File)
    BY <1>1 DEF Known, Named, ToSet
  <2>2. CacheMade(d, made, File, "v4", p)
    BY <1>2, <2>1, CreateCCacheDoes DEF FileData, Good
  <2> HIDE DEF made
  <2> QED BY <2>2 DEF CacheMade
<1>6. FileData(g)
  <2> HIDE DEF made
  <2> QED BY <1>4, <1>5, StoreFlows
<1>7. LoggedInLib(p) = OnData(NoLib, Quiet(g))
  BY DEF LoggedInLib
<1> HIDE DEF g
<1>8. FileData(Quiet(g))
  BY <1>6, StampsFlow
<1> QED BY <1>3, <1>7, <1>8, OnDataRight

(* At the start.                                                           *)
LEMMA InitRight == Init => KInv
<1> SUFFICES ASSUME Init PROVE KInv
  OBVIOUS
<1>1. FileRight(lib) /\ DOMAIN lib.heap = {}
  <2>1. CASE lib = NoLib
    <3>1. LibFormed(NoLib) /\ DOMAIN NoLib.heap = {}
      BY DEF NoLib, LibFormed, LibFields
    <3>2. NoLib.data = ContextChanged(NoData) /\ DOMAIN NoLib.data.cache = {} /\ DOMAIN NoLib.data.cred = {}
      BY DEF NoLib, ContextChanged, NoData
    <3>3. Good(NoLib.data) /\ OwnsOnce(NoLib.data)
      BY <3>2, FirstDataRight DEF DataRight
    <3> QED BY <2>1, <3>1, <3>2, <3>3 DEF FileRight, FileData, OnlyV4
  <2>2. CASE \E p \in Owner : lib = LoggedInLib(p)
    <3>1. PICK p \in Owner : lib = LoggedInLib(p)
      BY <2>2
    <3>2. p \in Principal
      BY ClientAssumption
    <3> QED BY <3>1, <3>2, LibIsRight
  <2> QED BY <2>1, <2>2 DEF Init
<1>2. /\ stack = [t \in Thread |-> <<>>] /\ cursor = [t \in Thread |-> NoCursor]
  BY DEF Init, FileInit
<1>3. StackRight(<<>>)
  BY FileAssumption, EmptySeq DEF StackRight
<1>4. \A th : ThreadRight(lib, <<>>, NoCursor, th) /\ Mine(<<>>, NoCursor) = {}
  BY <1>3, PlainIsRight
<1>5. \A t \in Thread : Own(t) = {} /\ ThreadRight(lib, stack[t], cursor[t], there[t])
  BY <1>2, <1>4 DEF Own
<1> QED BY <1>1, <1>2, <1>5 DEF KInv

(* All of what threads are is right at all times.                          *)
THEOREM ClientAlwaysRight == Spec => []KInv
<1>1. Init => KInv
  BY InitRight
<1>2. KInv /\ [Next]_vars => KInv'
  <2> SUFFICES ASSUME KInv, [Next]_vars PROVE KInv'
    OBVIOUS
  <2>1. ASSUME NEW t \in Thread, Watches,
               Step(t) \/ GivesUp(t) \/ LogsIn(t) \/ Starts(t) \/ Arrives(t)
        PROVE  KInv'
    BY <2>1, ThreadActs, StepKeeps
  <2>2. CASE Expires /\ Watches
    BY <2>2, ExpiresKeeps
  <2>3. CASE UNCHANGED vars
    BY <2>3 DEF vars, file, KInv, Own
  <2> QED BY <2>1, <2>2, <2>3 DEF Next
<1> QED BY <1>1, <1>2, PTL DEF Spec

(* Two places and then those of another sequence.                           *)
LEMMA TwoAndMore ==
  ASSUME NEW T, NEW a \in Seq(T), NEW b \in Seq(T), Len(a) = 2
  PROVE  /\ DOMAIN (a \o b) = 1 .. Len(b) + 2 /\ (a \o b)[1] = a[1] /\ (a \o b)[2] = a[2]
         /\ \A i \in 1 .. Len(b) : (a \o b)[i + 2] = b[i]
<1> DEFINE r == a \o b
           n == Len(b)
<1>1. /\ r \in Seq(T) /\ Len(r) = Len(a) + n
      /\ \A i \in 1 .. Len(a) + n : r[i] = IF i <= Len(a) THEN a[i] ELSE b[i - Len(a)]
  BY ConcatProperties
<1>2. n \in Nat
  OBVIOUS
<1> HIDE DEF r, n
<1>3. DOMAIN r = 1 .. n + 2
  BY <1>1, <1>2
<1>4. r[1] = a[1] /\ r[2] = a[2]
  BY <1>1, <1>2
<1>5. ASSUME NEW i \in 1 .. n PROVE r[i + 2] = b[i]
  <2>1. i + 2 \in 1 .. 2 + n /\ ~(i + 2 <= 2) /\ (i + 2) - 2 = i
    BY <1>2
  <2> QED BY <1>1, <2>1
<1> QED BY <1>3, <1>4, <1>5 DEF r, n

(* What a thread holds, place by place.                                    *)
LEMMA HoldsIs ==
  ASSUME KInv, NEW t \in Thread
  PROVE  /\ Len(stack[t]) \in Nat /\ Len(stack[t]) <= MaxDepth
         /\ DOMAIN Holds(t) = 1 .. Len(stack[t]) + 2
         /\ Holds(t)[1] = cursor[t].ref /\ Holds(t)[2] = cursor[t].it
         /\ \A i \in 1 .. Len(stack[t]) : Holds(t)[i + 2] = stack[t][i].ptr
<1> DEFINE s == stack[t]
           n == Len(s)
           a == <<cursor[t].ref, cursor[t].it>>
           b == [i \in DOMAIN s |-> s[i].ptr]
           T == {cursor[t].ref, cursor[t].it} \cup { s[i].ptr : i \in 1 .. n }
<1>1. s \in Seq(ToSet(s)) /\ n <= MaxDepth
  BY DEF KInv, ThreadRight, StackRight
<1>2. n \in Nat /\ DOMAIN s = 1 .. n
  <2> DEFINE X == ToSet(s)
  <2> HIDE DEF s, X
  <2>1. s \in Seq(X)
    BY <1>1 DEF X
  <2> QED BY <2>1
<1>3. b = [i \in 1 .. n |-> s[i].ptr]
  BY <1>2
<1>4. a \in Seq(T) /\ b \in Seq(T) /\ Len(a) = 2 /\ Len(b) = n
  <2>1. \A i \in 1 .. n : s[i].ptr \in T
    OBVIOUS
  <2> HIDE DEF n, s
  <2> DEFINE U == T
  <2>2. cursor[t].ref \in U /\ cursor[t].it \in U /\ \A i \in 1 .. n : s[i].ptr \in U
    BY <2>1
  <2> HIDE DEF U
  <2>3. a \in Seq(U) /\ Len(a) = 2
    BY <2>2
  <2>4. b \in Seq(U) /\ Len(b) = n
    BY <1>2, <1>3, <2>2
  <2> QED BY <2>3, <2>4 DEF U
<1>5. a[1] = cursor[t].ref /\ a[2] = cursor[t].it
  OBVIOUS
<1>6. Holds(t) = a \o b
  BY DEF Holds
<1> HIDE DEF a, b, T, s, n
<1>7. /\ DOMAIN Holds(t) = 1 .. n + 2 /\ Holds(t)[1] = a[1] /\ Holds(t)[2] = a[2]
      /\ \A i \in 1 .. n : Holds(t)[i + 2] = b[i]
  BY <1>4, <1>6, TwoAndMore
<1>8. \A i \in 1 .. n : Holds(t)[i + 2] = s[i].ptr
  BY <1>3, <1>7
<1> QED BY <1>1, <1>2, <1>5, <1>7, <1>8 DEF n, s

(* Each of a thread's objects has one place, and nothing else is in any.     *)
LEMMA PlacesDiffer ==
  ASSUME KInv, NEW t \in Thread
  PROVE  /\ ToSet(Holds(t)) \subseteq Own(t) \cup {0}
         /\ \A q \in Own(t) : \E i \in DOMAIN Holds(t) :
              Holds(t)[i] = q /\ \A j \in DOMAIN Holds(t) : Holds(t)[j] = q => j = i
<1> DEFINE s == stack[t]
           c == cursor[t]
           n == Len(s)
           h == Holds(t)
<1>1. /\ n \in Nat /\ DOMAIN h = 1 .. n + 2 /\ h[1] = c.ref /\ h[2] = c.it
      /\ \A i \in 1 .. n : h[i + 2] = s[i].ptr
  BY HoldsIs
<1>2. StackRight(s) /\ InPlace(s, c) /\ Objects(lib, c)
  BY DEF KInv, ThreadRight
<1>3. Own(t) = ({c.ref, c.it} \cup (IF s = <<>> THEN {} ELSE {Head(s).ptr})) \ {0}
  BY DEF Own, Mine
<1>4. s # <<>> => Head(s) = s[1] /\ n >= 1
  BY <1>2, StackParts
<1>5. \A i \in 2 .. n : s[i].ptr = 0
  BY <1>2 DEF StackRight, Plain
<1>6. s = <<>> => n = 0
  OBVIOUS
<1>7. c.ref = 0 => c.it = 0
  <2>1. c = NoCursor => c.it = 0
    BY DEF NoCursor
  <2> QED BY <1>2, <2>1 DEF InPlace
<1>8. c.ref # 0 => c.ref # c.it
  BY <1>2 DEF Objects
<1>9. s # <<>> /\ Head(s).ptr # 0 => c.ref = 0 /\ c.it = 0
  <2>1. c = NoCursor => c.it = 0 /\ c.ref = 0
    BY DEF NoCursor
  <2> QED BY <1>2, <2>1 DEF InPlace
<1> HIDE DEF h, n, c, s
<1>10. ASSUME NEW i \in DOMAIN h, i > 3 PROVE h[i] = 0
  <2>1. i - 2 \in 2 .. n /\ i - 2 \in 1 .. n /\ (i - 2) + 2 = i
    BY <1>1, <1>10
  <2> QED BY <1>1, <1>5, <2>1
<1>11. 3 \in DOMAIN h => s # <<>> /\ h[3] = Head(s).ptr
  <2>1. ASSUME 3 \in DOMAIN h PROVE s # <<>> /\ h[3] = Head(s).ptr
    <3>1. 1 \in 1 .. n /\ 1 + 2 = 3
      BY <1>1, <2>1
    <3> QED BY <1>1, <1>4, <1>6, <3>1
  <2> QED BY <2>1
<1>12. s # <<>> => 3 \in DOMAIN h
  BY <1>1, <1>4
<1>13. \A i \in DOMAIN h : i = 1 \/ i = 2 \/ i = 3 \/ i > 3
  BY <1>1
<1>14. ASSUME NEW i \in DOMAIN h PROVE h[i] \in Own(t) \cup {0}
  BY <1>1, <1>3, <1>10, <1>11, <1>13
<1>15. ASSUME NEW q \in Own(t)
       PROVE  \E i \in DOMAIN h : h[i] = q /\ \A j \in DOMAIN h : h[j] = q => j = i
  <2>1. 1 \in DOMAIN h /\ 2 \in DOMAIN h /\ q # 0
    BY <1>1, <1>3
  <2>2. CASE q = c.ref
    <3>1. \A j \in DOMAIN h : h[j] = q => j = 1
      BY <1>1, <1>8, <1>9, <1>10, <1>11, <1>13, <2>1, <2>2
    <3> QED BY <1>1, <2>1, <2>2, <3>1
  <2>3. CASE q = c.it
    <3>1. \A j \in DOMAIN h : h[j] = q => j = 2
      BY <1>1, <1>7, <1>8, <1>9, <1>10, <1>11, <1>13, <2>1, <2>3
    <3> QED BY <1>1, <2>1, <2>3, <3>1
  <2>4. CASE s # <<>> /\ q = Head(s).ptr
    <3>1. \A j \in DOMAIN h : h[j] = q => j = 3
      BY <1>1, <1>9, <1>10, <1>13, <2>1, <2>4
    <3> QED BY <1>11, <1>12, <2>1, <2>4, <3>1
  <2> QED BY <1>3, <2>2, <2>3, <2>4
<1> QED BY <1>14, <1>15 DEF h, ToSet

(* Every object of the server is in one place of one thread, and a thread    *)
(* that waits for the user or a KDC, or is in no call, has none.             *)
THEOREM NothingIsLeftOpen == Spec => []NothingLeftOpen
<1>1. KInv => NothingLeftOpen
  <2> SUFFICES ASSUME KInv PROVE NothingLeftOpen
    OBVIOUS
  <2>1. 0 \notin DOMAIN lib.heap
    BY ObjectsAssumption DEF KInv, FileRight, Pointer
  <2>2. \A t \in Thread : Own(t) \subseteq DOMAIN lib.heap /\ 0 \notin Own(t)
    BY DEF KInv, ThreadRight, Own, Mine
  <2>3. ASSUME NEW q \in DOMAIN lib.heap
        PROVE  Cardinality({ u \in (Thread \X (1 .. MaxDepth + 2)) :
                               u[2] \in DOMAIN Holds(u[1]) /\ Holds(u[1])[u[2]] = q }) = 1
    <3> DEFINE P == { u \in (Thread \X (1 .. MaxDepth + 2)) :
                        u[2] \in DOMAIN Holds(u[1]) /\ Holds(u[1])[u[2]] = q }
    <3>1. PICK t \in Thread : q \in Own(t)
      BY DEF KInv
    <3>2. PICK i \in DOMAIN Holds(t) :
            Holds(t)[i] = q /\ \A j \in DOMAIN Holds(t) : Holds(t)[j] = q => j = i
      BY <3>1, PlacesDiffer
    <3>3. i \in 1 .. MaxDepth + 2
      BY <3>2, HoldsIs, FileAssumption
    <3>4. <<t, i>> \in P
      BY <3>2, <3>3
    <3>5. ASSUME NEW u \in P PROVE u = <<t, i>>
      <4>1. PICK v \in Thread, j \in 1 .. MaxDepth + 2 : u = <<v, j>>
        OBVIOUS
      <4>2. j \in DOMAIN Holds(v) /\ Holds(v)[j] = q
        BY <3>5, <4>1
      <4>3. q \in Own(v)
        <5>1. q \in ToSet(Holds(v))
          BY <4>2 DEF ToSet
        <5> QED BY <2>1, <5>1, PlacesDiffer
      <4>4. v = t
        BY <3>1, <4>3 DEF KInv
      <4> QED BY <3>2, <4>1, <4>2, <4>4
    <3> HIDE DEF P
    <3>6. P = {<<t, i>>}
      BY <3>4, <3>5
    <3> QED BY <3>6, FS_Singleton DEF P
  <2>4. ASSUME NEW t \in Thread PROVE ToSet(Holds(t)) \subseteq DOMAIN lib.heap \cup {0}
    BY <2>2, PlacesDiffer
  <2>5. ASSUME NEW t \in Thread, Waits(t) PROVE ToSet(Holds(t)) \subseteq {0}
    <3>1. ~Busy(t) \/ Plain(Top(t))
      BY <2>5, TopIs DEF Waits, Special
    <3>2. Own(t) = {}
      BY <3>1, PlainHasNone
    <3> QED BY <3>2, PlacesDiffer
  <2> QED BY <2>3, <2>4, <2>5 DEF NothingLeftOpen
<1> QED BY <1>1, ClientAlwaysRight, PTL

(* A search that fails missed nothing.                                     *)
THEOREM SearchAlwaysFinds == Spec => []SearchFinds
<1>1. KInv => SearchFinds
  <2> SUFFICES ASSUME KInv PROVE SearchFinds
    OBVIOUS
  <2> SUFFICES ASSUME NEW t \in Thread, At(t, {"get_cred"}, "close"), Top(t).x.res.code # "KSUCCESS"
               PROVE  there[t] = {}
    BY DEF SearchFinds
  <2>1. Found(lib, stack[t], cursor[t], there[t])
    BY DEF KInv, ThreadRight
  <2>2. Searches(stack[t]) /\ Head(stack[t]).proc = "get_cred" /\ Head(stack[t]).at = "close"
    BY DEF At, Busy, Top, Searches
  <2> QED BY <2>1, <2>2 DEF Found, Top
<1> QED BY <1>1, ClientAlwaysRight, PTL

(* A listing that comes to the end of the file has every ticket that was     *)
(* there all the while.                                                    *)
THEOREM ListingAlwaysWhole == Spec => []ListingIsWhole
<1>1. KInv => ListingIsWhole
  <2> SUFFICES ASSUME KInv PROVE ListingIsWhole
    OBVIOUS
  <2> SUFFICES ASSUME NEW t \in Thread, At(t, {"klist"}, "close"), Top(t).x.res.code = "EOF"
               PROVE  there[t] \subseteq Top(t).x.got
    BY DEF ListingIsWhole
  <2>1. Found(lib, stack[t], cursor[t], there[t])
    BY DEF KInv, ThreadRight
  <2>2. Searches(stack[t]) /\ Head(stack[t]).proc = "klist" /\ Head(stack[t]).at = "close"
    BY DEF At, Busy, Top, Searches
  <2> QED BY <2>1, <2>2 DEF Found, Top
<1> QED BY <1>1, ClientAlwaysRight, PTL

(***************************************************************************)
(* What the calls hand on to each other.                                   *)
(***************************************************************************)
(* The principals of the caches, and the tickets in them.                   *)
Ours(d) ==
  /\ \A c \in DOMAIN d.cache : d.cache[c].principal["v4"] \in Principal
  /\ \A k \in DOMAIN d.cred : d.cred[k].service \in Ticket

(* The stamps are no part of it.                                           *)
LEMMA LibOurs ==
  ASSUME NEW l, FileRight(l), Ours(l.data), Lib(l)
  PROVE  Ours(lib'.data)
BY LibDoes DEF Ours

(* Storing a ticket.                                                       *)
LEMMA StoreOurs ==
  ASSUME NEW d, FileData(d), Ours(d), NEW c \in DOMAIN d.cache, NEW s \in Ticket
  PROVE  Ours(StoreCredentials(d, c, [version |-> "v4", service |-> s]))
<1> DEFINE new == [version |-> "v4", service |-> s]
           e == StoreCredentials(d, c, new)
<1>1. new.service \in Ticket
  OBVIOUS
<1>2. WellFormed(d)
  BY DEF FileData, Good
<1> HIDE DEF new
<1>3. CredsStored(d, e, c, new)
  BY <1>2, StoreCredentialsDoes
<1> HIDE DEF e
<1>4. ASSUME NEW b \in DOMAIN e.cache PROVE e.cache[b].principal["v4"] \in Principal
  BY <1>3 DEF CredsStored, ChangesCache, Ours
<1>5. ASSUME NEW k \in DOMAIN e.cred PROVE e.cred[k].service \in Ticket
  BY <1>1, <1>3 DEF CredsStored, Ours
<1> QED BY <1>4, <1>5 DEF Ours, e, new

(* Destroying a cache.                                                     *)
LEMMA DestroyOurs ==
  ASSUME NEW d, FileData(d), Ours(d), NEW c \in DOMAIN d.cache
  PROVE  Ours(Destroy(d, c))
<1>1. CacheGone(d, Destroy(d, c), c)
  BY DestroyDoes DEF FileData, Good
<1> QED BY <1>1 DEF CacheGone, Ours

(* Making the file.                                                        *)
LEMMA CreateOurs ==
  ASSUME NEW d, FileData(d), Ours(d), NEW n, NEW p \in Principal
  PROVE  Ours(CreateCCache(d, n, "v4", p).d)
<1> DEFINE made == CreateCCache(d, n, "v4", p)
           e == made.d
<1>1. Good(d) /\ WellFormed(d)
  BY DEF FileData, Good
<1>2. CASE ~Known(d, n)
  <2> DEFINE c == d.nextCache
             x == [w \in Version |-> IF w = "v4" THEN p ELSE None]
  <2>1. CacheMade(d, made, n, "v4", p)
    BY <1>1, <1>2, CreateCCacheDoes
  <2> HIDE DEF made
  <2>2. /\ DOMAIN e.cache = DOMAIN d.cache \cup {c} /\ e.cache[c].principal = x /\ e.cred = d.cred
        /\ \A b \in DOMAIN d.cache \ {c} : e.cache[b] = d.cache[b]
    BY <2>1 DEF CacheMade
  <2>3. x["v4"] = p
    BY DEF Version
  <2> HIDE DEF e, c, x
  <2>4. Ours(e)
    BY <2>2, <2>3 DEF Ours
  <2> QED BY <2>4 DEF e, made
<1>3. CASE Known(d, n)
  <2> DEFINE c == FindCCache(d, n)
             f == SetPrincipal(d, c, "v4", p)
             gone == OfVersion(d, c, "v4")
  <2>1. c \in DOMAIN d.cache
    BY <1>1, <1>3, FindsLive
  <2>2. CacheRemade(made, f, c)
    BY <1>1, <1>3, CreateKnownDoes
  <2>3. PrincipalSet(d, f, c, "v4", p)
    BY <1>1, <2>1, SetPrincipalDoes
  <2> HIDE DEF made, f, c
  <2>4. e.cache = f.cache /\ e.cred = f.cred
    BY <2>2 DEF CacheRemade
  <2>5. /\ DOMAIN f.cache = DOMAIN d.cache /\ \A b \in DOMAIN d.cache \ {c} : f.cache[b] = d.cache[b]
        /\ f.cache[c].principal = [d.cache[c].principal EXCEPT !["v4"] = p]
        /\ f.cred = [k \in DOMAIN d.cred \ gone |-> d.cred[k]]
    BY <2>3 DEF PrincipalSet, ChangesCache
  <2>6. "v4" \in DOMAIN d.cache[c].principal
    BY <2>1 DEF FileData, OnlyV4
  <2>7. f.cache[c].principal["v4"] = p
    BY <2>5, <2>6
  <2> HIDE DEF gone, e
  <2>8. \A b \in DOMAIN f.cache : f.cache[b].principal["v4"] \in Principal
    BY <2>5, <2>7 DEF Ours
  <2>9. \A k \in DOMAIN f.cred : f.cred[k].service \in Ticket
    BY <2>5 DEF Ours
  <2>10. Ours(e)
    BY <2>4, <2>8, <2>9 DEF Ours
  <2> QED BY <2>10 DEF e, made
<1> QED BY <1>2, <1>3

(* A ticket expires.                                                       *)
LEMMA ExpiryOurs ==
  ASSUME NEW d, FileData(d), Ours(d), NEW k \in DOMAIN d.cred
  PROVE  Ours([d EXCEPT !.cred[k].service.old = TRUE])
<1> DEFINE s == d.cred[k].service
           y == [s EXCEPT !.old = TRUE]
           x == [d.cred[k] EXCEPT !.service = y]
           m == [d.cred EXCEPT ![k] = x]
           e == [d EXCEPT !.cred = m]
<1>1. WellFormed(d)
  BY DEF FileData, Good
<1>2. [d EXCEPT !.cred[k].service.old = TRUE] = e
  BY <1>1 DEF WellFormed, Record, DataFields
<1>3. y \in Ticket
  <2>1. s \in Ticket
    BY DEF Ours
  <2> HIDE DEF s
  <2> QED BY <2>1 DEF Ticket
<1>4. x.service = y
  <2>1. PICK z : d.cred[k] = [version |-> "v4", service |-> z]
    BY DEF FileData, OnlyV4
  <2> HIDE DEF y
  <2> QED BY <2>1
<1> HIDE DEF x, y
<1>5. DOMAIN m = DOMAIN d.cred /\ m[k] = x /\ \A b \in DOMAIN d.cred \ {k} : m[b] = d.cred[b]
  BY <1>1 DEF WellFormed
<1> HIDE DEF m
<1>6. e.cache = d.cache /\ e.cred = m
  BY <1>1 DEF WellFormed, Record, DataFields
<1> HIDE DEF e
<1>7. Ours(e)
  BY <1>3, <1>4, <1>5, <1>6 DEF Ours
<1> QED BY <1>2, <1>7

(* The library at the start.                                               *)
LEMMA FirstOurs ==
  ASSUME NEW p \in Principal
  PROVE  Ours(NoLib.data) /\ Ours(LoggedInLib(p).data)
<1> DEFINE d == NoLib.data
           made == CreateCCache(d, File, "v4", p)
           e == made.d
           c == made.id
           s == Asked(p).ticket
           g == StoreCredentials(e, c, [version |-> "v4", service |-> s])
<1>1. d = ContextChanged(NoData) /\ d.order = <<>> /\ DOMAIN d.cache = {} /\ DOMAIN d.cred = {}
  BY DEF NoLib, ContextChanged, NoData
<1>2. FileData(d) /\ Ours(d)
  <2>1. FileRight(NoLib)
    BY LibIsRight
  <2> QED BY <1>1, <2>1 DEF FileRight, Ours
<1>3. FileData(e) /\ Ours(e)
  BY <1>2, CreateFlows, CreateOurs
<1>4. c \in DOMAIN e.cache
  <2>1. ~Known(d, File)
    BY <1>1 DEF Known, Named, ToSet
  <2>2. CacheMade(d, made, File, "v4", p)
    BY <1>2, <2>1, CreateCCacheDoes DEF FileData, Good
  <2> HIDE DEF made
  <2>3. c = d.nextCache /\ DOMAIN e.cache = DOMAIN d.cache \cup {d.nextCache}
    BY <2>2 DEF CacheMade
  <2> QED BY <2>3
<1>5. s \in Ticket
  BY FileAssumption DEF Asked, Ticket, SName
<1>6. LoggedInLib(p) = OnData(NoLib, Quiet(g))
  BY DEF LoggedInLib
<1> HIDE DEF made, s
<1>7. FileData(g) /\ Ours(g)
  BY <1>3, <1>4, <1>5, StoreFlows, StoreOurs
<1> HIDE DEF g
<1>8. Quiet(g).cache = g.cache /\ Quiet(g).cred = g.cred /\ FileData(Quiet(g))
  BY <1>7, StampsDo, StampsFlow DEF FileData, Good
<1>9. LoggedInLib(p).data = Quiet(g)
  <2>1. FileRight(NoLib)
    BY LibIsRight
  <2> QED BY <1>6, <1>8, <2>1, OnDataRight
<1> QED BY <1>2, <1>7, <1>8, <1>9 DEF Ours

(* A result that is a ticket; what a failed search leaves is none.          *)
IsTicket(v) == v.ticket \in Ticket

(* What a frame keeps, by its procedure.                                   *)
XTyped(proc, x) ==
  /\ proc = "get_cred" =>
       x = [n \in {"res", "prompt"} |-> x[n]] /\ (x.res.code = "KSUCCESS" => IsTicket(x.res.val))
  /\ proc = "fullname" => x = [n \in {"res"} |-> x[n]] /\ x.res.val \in SName
  /\ proc = "get_ad_tkt" => x = [n \in {"l", "cr"} |-> x[n]] /\ x.l \in SName
  /\ proc = "save" =>
       x = [n \in {"res", "label", "issued"} |-> x[n]] /\ x.label \in Principal /\ x.issued \in Principal
  /\ proc = "exchange" => x = [n \in {"req", "round", "host", "found"} |-> x[n]] /\ IsTicket(x.req)

(* What is so at some places only: the user is asked after a failure, and   *)
(* the KDC when there is a krbtgt.                                         *)
AtTyped(proc, at, x) ==
  /\ proc = "get_cred" /\ at \in {"prompt", "login"} => x.res.code # "KSUCCESS"
  /\ proc = "get_ad_tkt" /\ at \in {"request", "answer", "saved"} => IsTicket(x.cr)

FrameTyped(f) ==
  /\ f.proc \in Procs /\ XTyped(f.proc, f.x) /\ AtTyped(f.proc, f.at, f.x)
  /\ f.proc \in {"mk_req", "get_ad_tkt"} => f.name \in SName /\ f.realm \in SName
  /\ f.proc = "save" => f.name \in SName

(* The places where a caller takes what its callee leaves for a realm, or   *)
(* for a ticket.                                                           *)
WantsRealm(g) == g.proc = "get_ad_tkt" /\ g.at \in {"realm", "realm2"}
WantsTicket(g) ==
  \/ g.proc = "get_ad_tkt" /\ g.at \in {"tgt", "tgt2", "request"}
  \/ g.proc = "mk_req" /\ g.at \in {"first", "again"}

(* The callee is one that leaves it.                                       *)
Above(f, g) ==
  /\ WantsRealm(g) => f.proc = "fullname"
  /\ WantsTicket(g) => f.proc \in {"get_cred", "mk_req"}

(* What is returned: r to a caller g, and by a callee f.                    *)
Brings(g, r) ==
  /\ WantsRealm(g) => r.val \in SName
  /\ WantsTicket(g) /\ r.code = "KSUCCESS" => IsTicket(r.val)
Leaves(f, r) ==
  /\ f.proc = "fullname" => r.val \in SName
  /\ f.proc \in {"get_cred", "mk_req"} /\ r.code = "KSUCCESS" => IsTicket(r.val)

(* A stack on which every call is to one that leaves what is wanted, and    *)
(* whose innermost frame has it from the last.                             *)
StackTyped(s, r) ==
  /\ \A i \in 1 .. Len(s) : FrameTyped(s[i])
  /\ \A i \in 1 .. Len(s) - 1 : Above(s[i], s[i + 1])
  /\ s # <<>> => Brings(s[1], r)

(* The invariant.                                                          *)
TInv ==
  /\ Ours(lib.data)
  /\ stack = [t \in Thread |-> stack[t]]
  /\ ret = [t \in Thread |-> ret[t]]
  /\ \A t \in Thread : StackTyped(stack[t], ret[t])
  /\ inbox = [t \in Thread |-> inbox[t]]
  /\ \A t \in Thread : inbox[t] \in Seq(Packet)
  /\ calls \in 0 .. MaxCalls

(* What is left is what was wanted.                                        *)
LEMMA LeavesBrings ==
  ASSUME NEW f, NEW g, Above(f, g), NEW r, Leaves(f, r)
  PROVE  Brings(g, r)
BY DEF Above, Leaves, Brings

(* The elements of the three stacks that a step may leave.                  *)
LEMMA StackElements ==
  ASSUME NEW s, StackRight(s), s # <<>>, NEW f, NEW g
  PROVE  LET n == Len(s)
             turned == <<f>> \o Tail(s)
             called == <<f, g>> \o Tail(s)
         IN  /\ n \in Nat \ {0}
             /\ Len(turned) = n /\ turned[1] = f /\ \A i \in 2 .. n : turned[i] = s[i]
             /\ Len(called) = n + 1 /\ called[1] = f /\ called[2] = g
             /\ \A i \in 3 .. n + 1 : called[i] = s[i - 1]
<1> DEFINE n == Len(s)
           T == ToSet(s) \cup {f, g}
           b == Tail(s)
           turned == <<f>> \o b
           called == <<f, g>> \o b
<1>1. n \in Nat \ {0} /\ Len(b) = n - 1 /\ \A i \in 1 .. n - 1 : b[i] = s[i + 1]
  BY StackParts
<1>2. b \in Seq(T) /\ f \in T /\ g \in T
  <2> DEFINE S == ToSet(s)
  <2>1. b \in Seq(S)
    BY StackParts
  <2> HIDE DEF S, b
  <2> QED BY <2>1 DEF S
<1> HIDE DEF T, b, n
<1>3. Len(turned) = n /\ turned[1] = f /\ \A i \in 2 .. n : turned[i] = b[i - 1]
  BY <1>1, <1>2
<1>4. /\ Len(called) = n + 1 /\ called[1] = f /\ called[2] = g
      /\ \A i \in 3 .. n + 1 : called[i] = b[i - 2]
  BY <1>1, <1>2
<1> HIDE DEF turned, called
<1>5. ASSUME NEW i \in 2 .. n PROVE turned[i] = s[i]
  <2>1. i - 1 \in 1 .. n - 1 /\ (i - 1) + 1 = i
    BY <1>1
  <2> QED BY <1>1, <1>3, <2>1
<1>6. ASSUME NEW i \in 3 .. n + 1 PROVE called[i] = s[i - 1]
  <2>1. i - 2 \in 1 .. n - 1 /\ (i - 2) + 1 = i - 1
    BY <1>1
  <2> QED BY <1>1, <1>4, <2>1
<1> QED BY <1>1, <1>3, <1>4, <1>5, <1>6 DEF turned, called, b, n

(* The innermost frame goes on.                                            *)
LEMMA TypedTurns ==
  ASSUME NEW s, StackRight(s), s # <<>>, NEW r, StackTyped(s, r),
         NEW f, FrameTyped(f), f.proc = Head(s).proc, NEW q, Brings(f, q)
  PROVE  StackTyped(<<f>> \o Tail(s), q)
<1> DEFINE n == Len(s)
           w == <<f>> \o Tail(s)
<1>1. /\ n \in Nat \ {0} /\ Len(w) = n /\ w[1] = f /\ \A i \in 2 .. n : w[i] = s[i]
      /\ s[1].proc = f.proc
  BY StackElements, StackParts
<1>2. (\A i \in 1 .. n : FrameTyped(s[i])) /\ \A i \in 1 .. n - 1 : Above(s[i], s[i + 1])
  BY DEF StackTyped
<1> HIDE DEF n, w
<1>3. ASSUME NEW i \in 1 .. n PROVE FrameTyped(w[i])
  BY <1>1, <1>2
<1>4. ASSUME NEW i \in 1 .. n - 1 PROVE Above(w[i], w[i + 1])
  <2>1. i + 1 \in 2 .. n /\ w[i + 1] = s[i + 1] /\ Above(s[i], s[i + 1])
    BY <1>1, <1>2
  <2>2. w[i].proc = s[i].proc
    BY <1>1
  <2> QED BY <2>1, <2>2 DEF Above
<1>5. w # <<>> => Brings(w[1], q)
  BY <1>1
<1> QED BY <1>1, <1>3, <1>4, <1>5 DEF StackTyped, w

(* It calls.                                                               *)
LEMMA TypedCalls ==
  ASSUME NEW s, StackRight(s), s # <<>>, NEW r, StackTyped(s, r),
         NEW g, FrameTyped(g), g.proc = Head(s).proc,
         NEW f, FrameTyped(f), Above(f, g), NEW q, Brings(f, q)
  PROVE  StackTyped(<<f, g>> \o Tail(s), q)
<1> DEFINE n == Len(s)
           w == <<f, g>> \o Tail(s)
<1>1. /\ n \in Nat \ {0} /\ Len(w) = n + 1 /\ w[1] = f /\ w[2] = g
      /\ \A i \in 3 .. n + 1 : w[i] = s[i - 1]
      /\ s[1].proc = g.proc
  BY StackElements, StackParts
<1>2. (\A i \in 1 .. n : FrameTyped(s[i])) /\ \A i \in 1 .. n - 1 : Above(s[i], s[i + 1])
  BY DEF StackTyped
<1> HIDE DEF n, w
<1>3. ASSUME NEW i \in 1 .. n + 1 PROVE FrameTyped(w[i])
  <2>1. CASE i \in {1, 2}
    BY <1>1, <2>1
  <2>2. CASE i \notin {1, 2}
    <3>1. i \in 3 .. n + 1 /\ i - 1 \in 1 .. n
      BY <1>1, <2>2
    <3> QED BY <1>1, <1>2, <3>1
  <2> QED BY <2>1, <2>2
<1>4. ASSUME NEW i \in 1 .. n PROVE Above(w[i], w[i + 1])
  <2>1. CASE i = 1
    BY <1>1, <2>1
  <2>2. CASE i # 1
    <3>1. /\ i - 1 \in 1 .. n - 1 /\ i + 1 \in 3 .. n + 1
          /\ w[i + 1] = s[i]
      BY <1>1, <2>2
    <3>2. Above(s[i - 1], s[i])
      BY <1>1, <1>2, <3>1
    <3>3. w[i].proc = s[i - 1].proc
      <4>1. CASE i = 2
        BY <1>1, <4>1
      <4>2. CASE i # 2
        <5>1. i \in 3 .. n + 1
          BY <1>1, <2>2, <4>2
        <5> QED BY <1>1, <5>1
      <4> QED BY <4>1, <4>2
    <3> QED BY <3>1, <3>2, <3>3 DEF Above
  <2> QED BY <2>1, <2>2
<1>5. w # <<>> => Brings(w[1], q)
  BY <1>1
<1>6. Len(w) - 1 = n
  BY <1>1
<1> QED BY <1>1, <1>3, <1>4, <1>5, <1>6 DEF StackTyped, w

(* It returns.                                                             *)
LEMMA TypedReturns ==
  ASSUME NEW s, StackRight(s), s # <<>>, NEW r, StackTyped(s, r), NEW q, Leaves(Head(s), q)
  PROVE  StackTyped(Tail(s), q)
<1> DEFINE n == Len(s)
           b == Tail(s)
<1>1. /\ n \in Nat \ {0} /\ Len(b) = n - 1 /\ \A i \in 1 .. n - 1 : b[i] = s[i + 1]
      /\ Head(s) = s[1]
  BY StackParts
<1>2. (\A i \in 1 .. n : FrameTyped(s[i])) /\ \A i \in 1 .. n - 1 : Above(s[i], s[i + 1])
  BY DEF StackTyped
<1>3. b # <<>> => n - 1 # 0
  <2> DEFINE T == ToSet(s)
  <2>1. b \in Seq(T)
    BY StackParts
  <2> HIDE DEF T, b
  <2> QED BY <1>1, <2>1
<1> HIDE DEF n, b
<1>4. ASSUME NEW i \in 1 .. n - 1 PROVE FrameTyped(b[i])
  BY <1>1, <1>2
<1>5. ASSUME NEW i \in 1 .. (n - 1) - 1 PROVE Above(b[i], b[i + 1])
  <2>1. i \in 1 .. n - 1 /\ i + 1 \in 1 .. n - 1
    BY <1>1
  <2>2. b[i] = s[i + 1] /\ b[i + 1] = s[(i + 1) + 1]
    BY <1>1, <2>1
  <2> QED BY <1>2, <2>1, <2>2
<1>6. ASSUME b # <<>> PROVE Brings(b[1], q)
  <2>1. 1 \in 1 .. n - 1
    BY <1>1, <1>3, <1>6
  <2>2. b[1] = s[2] /\ Above(s[1], s[2])
    BY <1>1, <1>2, <2>1
  <2> QED BY <1>1, <2>2, LeavesBrings
<1> QED BY <1>1, <1>4, <1>5, <1>6 DEF StackTyped, b

(* Thread t makes a step after which its stack is typed.                    *)
TypedActs(t) ==
  \E s, q : /\ stack' = [stack EXCEPT ![t] = s] /\ ret' = [ret EXCEPT ![t] = q]
            /\ StackTyped(s, q)

(* The innermost frame, and what its callee left for it.                    *)
LEMMA TopTyped ==
  ASSUME KInv, TInv, NEW t \in Thread, Busy(t)
  PROVE  /\ FrameTyped(Top(t)) /\ Brings(Top(t), ret[t]) /\ FrameRight(Top(t))
         /\ StackRight(stack[t]) /\ stack[t] # <<>> /\ StackTyped(stack[t], ret[t])
         /\ Head(stack[t]) = Top(t)
<1>1. StackRight(stack[t]) /\ Head(stack[t]) = Top(t) /\ FrameRight(Top(t)) /\ stack[t] # <<>>
  BY TopIs DEF Busy
<1>2. StackTyped(stack[t], ret[t])
  BY DEF TInv
<1>3. Top(t) = stack[t][1] /\ Len(stack[t]) \in Nat \ {0}
  BY <1>1, StackParts
<1> QED BY <1>1, <1>2, <1>3 DEF StackTyped

(* The procedures that want nothing of their callees but the code.          *)
Wanting == {"mk_req", "get_ad_tkt"}

LEMMA TurnsTyped ==
  ASSUME KInv, TInv, NEW t \in Thread, Busy(t), Top(t).proc \notin Wanting,
         NEW f, FrameTyped(f), f.proc = Top(t).proc, Becomes(t, f), UNCHANGED ret \/ Took(t)
  PROVE  TypedActs(t)
<1>1. PICK q : ret' = [ret EXCEPT ![t] = q]
  <2>1. ret = [u \in Thread |-> ret[u]]
    BY DEF TInv
  <2>2. UNCHANGED ret => ret' = [ret EXCEPT ![t] = ret[t]]
    BY <2>1
  <2> QED BY <2>2 DEF Took
<1>2. Brings(f, q)
  BY DEF Brings, WantsRealm, WantsTicket, Wanting
<1>3. stack' = [stack EXCEPT ![t] = <<f>> \o Tail(stack[t])]
  BY DEF Becomes
<1>4. StackTyped(<<f>> \o Tail(stack[t]), q)
  BY <1>2, TopTyped, TypedTurns
<1> QED BY <1>1, <1>3, <1>4 DEF TypedActs

(* A frame at another place, with what it kept or something else.           *)
LEMMA FrameTypedAt ==
  ASSUME NEW f, FrameRight(f), FrameTyped(f), NEW at
  PROVE  /\ AtTyped(f.proc, at, f.x) => FrameTyped([f EXCEPT !.at = at])
         /\ [f EXCEPT !.at = at].proc = f.proc /\ [f EXCEPT !.at = at].at = at
<1> DEFINE g == [f EXCEPT !.at = at]
<1>1. g.at = at /\ g.proc = f.proc /\ g.name = f.name /\ g.realm = f.realm /\ g.x = f.x
  BY FrameGoes
<1> HIDE DEF g
<1>2. AtTyped(f.proc, at, f.x) => FrameTyped(g)
  BY <1>1 DEF FrameTyped
<1> QED BY <1>1, <1>2 DEF g

LEMMA FrameTypedWith ==
  ASSUME NEW f, FrameRight(f), FrameTyped(f),
         NEW at, NEW x, XTyped(f.proc, x), AtTyped(f.proc, at, x)
  PROVE  LET g == Gotten(f, at, x) IN FrameTyped(g) /\ g.proc = f.proc /\ g.at = at
<1> DEFINE g == Gotten(f, at, x)
<1>1. g.at = at /\ g.proc = f.proc /\ g.name = f.name /\ g.realm = f.realm /\ g.x = x
  BY DEF Gotten, FrameRight, FrameFields
<1> HIDE DEF g
<1>2. FrameTyped(g) /\ g.proc = f.proc /\ g.at = at
  BY <1>1 DEF FrameTyped
<1> QED BY <1>2 DEF g

LEMMA GoesTyped ==
  ASSUME KInv, TInv, NEW t \in Thread, Busy(t), Top(t).proc \notin Wanting,
         NEW at, AtTyped(Top(t).proc, at, Top(t).x), Goto(t, at), UNCHANGED ret \/ Took(t)
  PROVE  TypedActs(t)
<1> DEFINE g == [Top(t) EXCEPT !.at = at]
<1>1. FrameTyped(g) /\ g.proc = Top(t).proc
  BY TopTyped, FrameTypedAt
<1>2. Becomes(t, g)
  BY DEF Goto
<1> HIDE DEF g
<1> QED BY <1>1, <1>2, TurnsTyped

LEMMA WithTyped ==
  ASSUME KInv, TInv, NEW t \in Thread, Busy(t), Top(t).proc \notin Wanting,
         NEW at, NEW x, XTyped(Top(t).proc, x), AtTyped(Top(t).proc, at, x), With(t, at, x),
         UNCHANGED ret \/ Took(t)
  PROVE  TypedActs(t)
<1> DEFINE g == Gotten(Top(t), at, x)
<1>1. FrameTyped(g) /\ g.proc = Top(t).proc
  BY TopTyped, FrameTypedWith
<1>2. Becomes(t, g)
  BY DEF With, Gotten
<1> HIDE DEF g
<1> QED BY <1>1, <1>2, TurnsTyped

LEMMA EntersTyped ==
  ASSUME KInv, TInv, NEW t \in Thread, Busy(t),
         NEW at, AtTyped(Top(t).proc, at, Top(t).x),
         NEW f, FrameTyped(f), Above(f, [proc |-> Top(t).proc, at |-> at]), Brings(f, Nothing),
         Enters(t, f, at)
  PROVE  TypedActs(t)
<1> DEFINE g == [Top(t) EXCEPT !.at = at]
<1>1. FrameTyped(g) /\ g.proc = Top(t).proc /\ g.at = at
  BY TopTyped, FrameTypedAt
<1>2. /\ stack' = [stack EXCEPT ![t] = <<f, g>> \o Tail(stack[t])]
      /\ ret' = [ret EXCEPT ![t] = Nothing]
  BY DEF Enters, Calls, Took, Top
<1> HIDE DEF g
<1>3. Above(f, g)
  BY <1>1 DEF Above, WantsRealm, WantsTicket
<1>4. StackTyped(<<f, g>> \o Tail(stack[t]), Nothing)
  BY <1>1, <1>3, TopTyped, TypedCalls
<1> QED BY <1>2, <1>4 DEF TypedActs

LEMMA ReturnsTyped ==
  ASSUME KInv, TInv, NEW t \in Thread, Busy(t), NEW code, NEW val, Returns(t, code, val),
         Top(t).proc = "fullname" => val \in SName,
         Top(t).proc \in {"get_cred", "mk_req"} /\ code = "KSUCCESS" => IsTicket(val)
  PROVE  TypedActs(t)
<1> DEFINE q == Result4(code, val)
<1>1. stack' = [stack EXCEPT ![t] = Tail(stack[t])] /\ ret' = [ret EXCEPT ![t] = q]
  BY DEF Returns
<1>2. q.code = code /\ q.val = val
  BY DEF Result4
<1>3. Leaves(Top(t), q)
  BY <1>2 DEF Leaves
<1> HIDE DEF q
<1>4. StackTyped(Tail(stack[t]), q)
  BY <1>3, TopTyped, TypedReturns
<1> QED BY <1>1, <1>4 DEF TypedActs

(* A procedure of the file stops, with what it is to return.                *)
LEMMA StopsTyped ==
  ASSUME KInv, TInv, NEW t \in Thread, Busy(t), Top(t).proc \in Opened, UNCHANGED ret,
         NEW code, NEW val, Stops(t, code, val),
         Top(t).proc = "fullname" => val \in SName,
         Top(t).proc = "get_cred" /\ code = "KSUCCESS" => IsTicket(val)
  PROVE  TypedActs(t)
<1> DEFINE f == Top(t)
           v == Result4(code, val)
           x == [f.x EXCEPT !.res = v]
<1>1. v.code = code /\ v.val = val
  BY DEF Result4
<1>2. FrameTyped(f)
  BY TopTyped
<1>3. With(t, "close", x)
  BY DEF Stops
<1> HIDE DEF v
<1>4. XTyped(f.proc, x)
  <2>0. XTyped(f.proc, f.x)
    BY <1>2 DEF FrameTyped
  <2> DEFINE o == f.x
  <2>1. CASE f.proc = "get_cred"
    <3>1. o = [n \in {"res", "prompt"} |-> o[n]]
      BY <2>0, <2>1 DEF XTyped
    <3> HIDE DEF o
    <3>2. x = [n \in {"res", "prompt"} |-> x[n]] /\ x.res = v
      BY <3>1 DEF o
    <3> HIDE DEF x
    <3> QED BY <1>1, <2>1, <3>2 DEF XTyped
  <2>2. CASE f.proc = "fullname"
    <3>1. o = [n \in {"res"} |-> o[n]]
      BY <2>0, <2>2 DEF XTyped
    <3> HIDE DEF o
    <3>2. x = [n \in {"res"} |-> x[n]] /\ x.res = v
      BY <3>1 DEF o
    <3> HIDE DEF x
    <3> QED BY <1>1, <2>2, <3>2 DEF XTyped
  <2>3. CASE f.proc = "save"
    <3>1. o = [n \in {"res", "label", "issued"} |-> o[n]] /\ o.label \in Principal /\ o.issued \in Principal
      BY <2>0, <2>3 DEF XTyped
    <3> HIDE DEF o
    <3>2. x = [n \in {"res", "label", "issued"} |-> x[n]] /\ x.label = o.label /\ x.issued = o.issued
      BY <3>1 DEF o
    <3> HIDE DEF x
    <3> QED BY <2>3, <3>1, <3>2 DEF XTyped
  <2>4. CASE f.proc = "klist"
    BY <2>4 DEF XTyped
  <2> QED BY <2>1, <2>2, <2>3, <2>4 DEF Opened
<1>5. AtTyped(f.proc, "close", x) /\ f.proc \notin Wanting
  BY DEF AtTyped, Opened, Wanting
<1> HIDE DEF x
<1> QED BY <1>3, <1>4, <1>5, WithTyped

(* The frames with which procedures start.                                 *)
LEMMA FramesTyped ==
  /\ \A name, realm :
       /\ FrameTyped(GetCred(name, realm)) /\ GetCred(name, realm).proc = "get_cred"
       /\ name \in SName /\ realm \in SName =>
            /\ FrameTyped(MkReq(name, realm)) /\ FrameTyped(GetAdTkt(name, realm))
       /\ MkReq(name, realm).proc = "mk_req" /\ MkReq(name, realm).at = "start"
       /\ GetAdTkt(name, realm).proc = "get_ad_tkt" /\ GetAdTkt(name, realm).at = "start"
       /\ \A p \in Principal : name \in SName => FrameTyped(Save(name, realm, p))
       /\ \A p : Save(name, realm, p).proc = "save"
       /\ \A req : IsTicket(req) => FrameTyped(Exchange(name, realm, req))
       /\ \A req : Exchange(name, realm, req).proc = "exchange"
  /\ FrameTyped(Fullname) /\ Fullname.proc = "fullname"
  /\ \A p : /\ FrameTyped(Login(p)) /\ Login(p).proc = "get_in_tkt"
            /\ FrameTyped(Frame("in_tkt", p, Home, NoX)) /\ Frame("in_tkt", p, Home, NoX).proc = "in_tkt"
  /\ FrameTyped(Frame("dest_tkt", NoRealm, NoRealm, NoX))
  /\ FrameTyped(Klist) /\ Klist.proc = "klist"
<1>1. ASSUME NEW proc, NEW name, NEW realm, NEW x
      PROVE  LET f == Frame(proc, name, realm, x)
             IN  /\ f.proc = proc /\ f.at = "start" /\ f.x = x
                 /\ f.name = name /\ f.realm = realm
  BY DEF Frame
<1>2. NoRealm \in SName /\ Nothing.code # "KSUCCESS" /\ Nothing.val = NoRealm
  BY DEF SName, Nothing
<1>3. ASSUME NEW proc \in Procs, NEW name, NEW realm, NEW x, XTyped(proc, x),
             proc \in Wanting \cup {"save"} => name \in SName, proc \in Wanting => realm \in SName
      PROVE  FrameTyped(Frame(proc, name, realm, x))
  <2> DEFINE f == Frame(proc, name, realm, x)
  <2>1. f.proc = proc /\ f.at = "start" /\ f.x = x /\ f.name = name /\ f.realm = realm
    BY <1>1
  <2> HIDE DEF f
  <2>2. FrameTyped(f)
    BY <1>3, <2>1 DEF FrameTyped, AtTyped, Wanting
  <2> QED BY <2>2 DEF f
<1>4. XTyped("get_cred", [res |-> Nothing, prompt |-> TRUE])
  BY <1>2 DEF XTyped
<1>5. XTyped("get_ad_tkt", [l |-> NoRealm, cr |-> Nothing])
  BY <1>2 DEF XTyped
<1>6. XTyped("fullname", NoX)
  BY <1>2 DEF XTyped, NoX
<1>7. \A p \in Principal : XTyped("save", [res |-> Nothing, label |-> p, issued |-> p])
  BY DEF XTyped
<1>8. ASSUME NEW req, IsTicket(req)
      PROVE  XTyped("exchange", [req |-> req, round |-> 0, host |-> 0, found |-> {}])
  BY <1>8 DEF XTyped
<1>9. \A x : XTyped("mk_req", x) /\ XTyped("in_tkt", x) /\ XTyped("get_in_tkt", x) /\ XTyped("dest_tkt", x)
             /\ XTyped("klist", x)
  BY DEF XTyped
<1>10. /\ \A name, realm :
            /\ FrameTyped(GetCred(name, realm)) /\ GetCred(name, realm).proc = "get_cred"
            /\ name \in SName /\ realm \in SName =>
                 /\ FrameTyped(MkReq(name, realm)) /\ FrameTyped(GetAdTkt(name, realm))
            /\ MkReq(name, realm).proc = "mk_req" /\ MkReq(name, realm).at = "start"
            /\ GetAdTkt(name, realm).proc = "get_ad_tkt" /\ GetAdTkt(name, realm).at = "start"
  BY <1>1, <1>3, <1>4, <1>5, <1>9 DEF GetCred, MkReq, GetAdTkt, Procs, Wanting
<1>11. \A name, realm :
            /\ \A p \in Principal : name \in SName => FrameTyped(Save(name, realm, p))
            /\ \A p : Save(name, realm, p).proc = "save"
  BY <1>1, <1>3, <1>7 DEF Save, Procs, Wanting
<1>12. \A name, realm :
            /\ \A req : IsTicket(req) => FrameTyped(Exchange(name, realm, req))
            /\ \A req : Exchange(name, realm, req).proc = "exchange"
  BY <1>1, <1>3, <1>8 DEF Exchange, Procs, Wanting
<1>13. FrameTyped(Fullname) /\ Fullname.proc = "fullname"
  BY <1>1, <1>3, <1>6 DEF Fullname, Procs, Wanting
<1>14. /\ \A p : /\ FrameTyped(Login(p)) /\ Login(p).proc = "get_in_tkt"
                 /\ FrameTyped(Frame("in_tkt", p, Home, NoX)) /\ Frame("in_tkt", p, Home, NoX).proc = "in_tkt"
       /\ FrameTyped(Frame("dest_tkt", NoRealm, NoRealm, NoX))
  BY <1>1, <1>3, <1>9 DEF Login, Procs, Wanting
<1>15. FrameTyped(Klist) /\ Klist.proc = "klist"
  <2> DEFINE f == Frame("klist", NoRealm, NoRealm, [res |-> Nothing, got |-> {}])
  <2>1. FrameTyped(f) /\ f.proc = "klist"
    BY <1>1, <1>3, <1>9 DEF Procs, Wanting
  <2>2. Klist.proc = f.proc /\ Klist.x = f.x /\ Klist.name = f.name /\ Klist.realm = f.realm
    BY DEF Klist, Frame
  <2> HIDE DEF f
  <2> QED BY <2>1, <2>2 DEF FrameTyped, AtTyped
<1> QED BY <1>10, <1>11, <1>12, <1>13, <1>14, <1>15

(* Nothing is wanted of the last result where a procedure starts.           *)
LEMMA StartsWantNothing ==
  ASSUME NEW f, f.proc \notin Wanting \/ f.at = "start"
  PROVE  \A r : Brings(f, r)
BY DEF Brings, WantsRealm, WantsTicket, Wanting

(* Packets, and calls to come.                                             *)
NetTyped ==
  /\ inbox = [t \in Thread |-> inbox[t]]
  /\ \A t \in Thread : inbox[t] \in Seq(Packet)
  /\ calls \in 0 .. MaxCalls

LEMMA NetKept ==
  ASSUME TInv
  PROVE  /\ NetTyped
         /\ UNCHANGED net => NetTyped'
         /\ \A t \in Thread, s \in Seq(Packet) :
              inbox' = [inbox EXCEPT ![t] = s] /\ UNCHANGED calls => NetTyped'
         /\ calls < MaxCalls /\ calls' = calls + 1 /\ UNCHANGED inbox => NetTyped'
<1>1. NetTyped /\ MaxCalls \in Nat
  BY ClientAssumption DEF TInv, NetTyped
<1>2. UNCHANGED net => NetTyped'
  BY <1>1 DEF NetTyped, net
<1>3. ASSUME NEW t \in Thread, NEW s \in Seq(Packet), inbox' = [inbox EXCEPT ![t] = s], UNCHANGED calls
      PROVE  NetTyped'
  BY <1>1, <1>3 DEF NetTyped
<1>4. calls < MaxCalls /\ calls' = calls + 1 /\ UNCHANGED inbox => NetTyped'
  BY <1>1 DEF NetTyped
<1> QED BY <1>1, <1>2, <1>3, <1>4

(* send_kdc.c: the request stays the same, and is what is returned.         *)
LEMMA ExchangeTyped ==
  ASSUME KInv, TInv, NEW t \in Thread,
         NextHost(t) \/ NextRound(t) \/ NoAnswer(t) \/ Timeout(t) \/ Receive(t)
  PROVE  TypedActs(t) /\ NetTyped'
<1> DEFINE x == Top(t).x
<1>1. Busy(t) /\ Top(t).proc = "exchange" /\ Top(t).proc \notin Wanting
  BY DEF NextHost, NextRound, NoAnswer, Timeout, Receive, RoundOver, At, Wanting
<1>2. x = [n \in {"req", "round", "host", "found"} |-> x[n]] /\ IsTicket(x.req)
  <2>1. FrameTyped(Top(t))
    BY <1>1, TopTyped
  <2> QED BY <1>1, <2>1 DEF FrameTyped, XTyped
<1>3. \A at, y : AtTyped(Top(t).proc, at, y)
  BY <1>1 DEF AtTyped
<1>4. ASSUME NEW y, y = [n \in {"req", "round", "host", "found"} |-> y[n]], y.req = x.req
      PROVE  XTyped(Top(t).proc, y)
  BY <1>1, <1>2, <1>4 DEF XTyped
<1>5. inbox[t] \in Seq(Packet) /\ <<>> \in Seq(Packet)
  BY EmptySeq DEF TInv
<1>6. CASE NextHost(t)
  <2>1. UNCHANGED <<ret, net>>
    BY <1>6 DEF NextHost
  <2>2. \E at, y : /\ With(t, at, y) /\ y.req = x.req
                   /\ y = [n \in {"req", "round", "host", "found"} |-> y[n]]
    <3>1. \/ With(t, "wait", [x EXCEPT !.host = @ + 1, !.found = @ \cup {x.host + 1}])
          \/ With(t, "start", [x EXCEPT !.host = @ + 1])
          \/ \E h \in x.found : With(t, "wait", [x EXCEPT !.host = h])
      BY <1>6 DEF NextHost
    <3> HIDE DEF x
    <3>2. CASE With(t, "wait", [x EXCEPT !.host = @ + 1, !.found = @ \cup {x.host + 1}])
      <4> DEFINE y == [x EXCEPT !.host = @ + 1, !.found = @ \cup {x.host + 1}]
      <4>1. y.req = x.req /\ y = [n \in {"req", "round", "host", "found"} |-> y[n]]
        BY <1>2
      <4> QED BY <3>2, <4>1
    <3>3. CASE With(t, "start", [x EXCEPT !.host = @ + 1])
      <4> DEFINE y == [x EXCEPT !.host = @ + 1]
      <4>1. y.req = x.req /\ y = [n \in {"req", "round", "host", "found"} |-> y[n]]
        BY <1>2
      <4> QED BY <3>3, <4>1
    <3>4. CASE \E h \in x.found : With(t, "wait", [x EXCEPT !.host = h])
      <4>1. PICK h \in x.found : With(t, "wait", [x EXCEPT !.host = h])
        BY <3>4
      <4> DEFINE y == [x EXCEPT !.host = h]
      <4>2. y.req = x.req /\ y = [n \in {"req", "round", "host", "found"} |-> y[n]]
        BY <1>2
      <4> QED BY <4>1, <4>2
    <3> QED BY <3>1, <3>2, <3>3, <3>4
  <2>3. PICK at, y : /\ With(t, at, y) /\ y.req = x.req
                     /\ y = [n \in {"req", "round", "host", "found"} |-> y[n]]
    BY <2>2
  <2> HIDE DEF x
  <2> QED BY <1>1, <1>3, <1>4, <2>1, <2>3, WithTyped, NetKept
<1>7. CASE NextRound(t)
  <2> DEFINE y == [x EXCEPT !.round = @ + 1, !.host = 0]
  <2>1. With(t, "start", y) /\ UNCHANGED <<ret, net>>
    BY <1>7 DEF NextRound
  <2>2. y.req = x.req /\ y = [n \in {"req", "round", "host", "found"} |-> y[n]]
    <3> HIDE DEF x
    <3> QED BY <1>2
  <2> HIDE DEF x, y
  <2> QED BY <1>1, <1>3, <1>4, <2>1, <2>2, WithTyped, NetKept
<1>8. CASE NoAnswer(t)
  <2>1. (\E code, val : Returns(t, code, val)) /\ Closes(t)
    BY <1>8 DEF NoAnswer
  <2> QED BY <1>1, <1>5, <2>1, ReturnsTyped, NetKept DEF Closes
<1>9. CASE Timeout(t)
  <2>1. Goto(t, "start") /\ UNCHANGED <<ret, net>>
    BY <1>9 DEF Timeout
  <2> QED BY <1>1, <1>3, <2>1, GoesTyped, NetKept
<1>10. CASE Receive(t)
  <2>0. inbox[t] # <<>>
    BY <1>10 DEF Receive
  <2>1. \/ Goto(t, "start") /\ inbox' = [inbox EXCEPT ![t] = Tail(inbox[t])] /\ UNCHANGED <<calls, ret>>
        \/ (\E code, val : Returns(t, code, val)) /\ Closes(t)
    <3>1. CASE Head(inbox[t]) = "stray"
      BY <1>10, <3>1 DEF Receive
    <3>2. CASE Head(inbox[t]) = "granted"
      BY <1>10, <3>2 DEF Receive
    <3>3. CASE Head(inbox[t]) \notin {"stray", "granted"}
      BY <1>10, <3>3 DEF Receive
    <3> QED BY <3>1, <3>2, <3>3
  <2>2. Tail(inbox[t]) \in Seq(Packet)
    BY <1>5, <2>0
  <2>3. CASE Goto(t, "start") /\ inbox' = [inbox EXCEPT ![t] = Tail(inbox[t])] /\ UNCHANGED <<calls, ret>>
    BY <1>1, <1>3, <2>2, <2>3, GoesTyped, NetKept
  <2>4. CASE (\E code, val : Returns(t, code, val)) /\ Closes(t)
    BY <1>1, <1>5, <2>4, ReturnsTyped, NetKept DEF Closes
  <2> QED BY <2>1, <2>3, <2>4
<1> QED BY <1>6, <1>7, <1>8, <1>9, <1>10

(* mk_req.c: it passes on what a search found, or a failure.                *)
LEMMA MkReqTyped ==
  ASSUME KInv, TInv, NEW t \in Thread, mk_req(t)
  PROVE  TypedActs(t)
<1> DEFINE f == Top(t)
<1>1. Busy(t) /\ f.proc = "mk_req"
  BY DEF mk_req, Resumes, At
<1>2. FrameTyped(f) /\ Brings(f, ret[t])
  BY <1>1, TopTyped
<1>3. f.name \in SName /\ f.realm \in SName
  BY <1>1, <1>2 DEF FrameTyped
<1>4. \A at : AtTyped(f.proc, at, f.x)
  BY <1>1 DEF AtTyped
<1>5. \/ Enters(t, Fullname, "realm")
      \/ \E at \in {"first", "again"} : Enters(t, GetCred(f.name, f.realm), at)
      \/ Enters(t, GetAdTkt(f.name, f.realm), "got")
      \/ Passes(t) /\ (Code(t) = "KSUCCESS" => f.at \in {"first", "again"})
  <2>1. CASE Resumes(t, "mk_req", "realm") /\
             CASE Code(t) = "KSUCCESS" -> Enters(t, GetCred(f.name, f.realm), "first")
               [] Code(t) = "NO_TKT_FIL" -> Enters(t, GetAdTkt(f.name, f.realm), "got")
               [] OTHER -> Passes(t)
    <3>1. CASE Code(t) = "KSUCCESS"
      BY <2>1, <3>1
    <3>2. CASE Code(t) = "NO_TKT_FIL"
      BY <2>1, <3>2
    <3>3. CASE Code(t) \notin {"KSUCCESS", "NO_TKT_FIL"}
      BY <2>1, <3>3
    <3> QED BY <3>1, <3>2, <3>3
  <2> QED BY <2>1 DEF mk_req, Resumes, At
<1> HIDE DEF f
<1>6. CASE Enters(t, Fullname, "realm")
  <2>1. Above(Fullname, [proc |-> f.proc, at |-> "realm"])
    BY <1>1 DEF Above, WantsRealm, WantsTicket
  <2>2. FrameTyped(Fullname) /\ Brings(Fullname, Nothing)
    BY FramesTyped, StartsWantNothing DEF Wanting
  <2> QED BY <1>1, <1>4, <1>6, <2>1, <2>2, EntersTyped DEF f
<1>7. CASE \E at \in {"first", "again"} : Enters(t, GetCred(f.name, f.realm), at)
  <2> DEFINE g == GetCred(f.name, f.realm)
  <2>1. PICK at \in {"first", "again"} : Enters(t, g, at)
    BY <1>7
  <2>2. FrameTyped(g) /\ g.proc = "get_cred"
    BY FramesTyped
  <2> HIDE DEF g
  <2>3. Above(g, [proc |-> f.proc, at |-> at]) /\ Brings(g, Nothing)
    BY <1>1, <2>2, StartsWantNothing DEF Above, WantsRealm, Wanting
  <2> QED BY <1>1, <1>4, <2>1, <2>2, <2>3, EntersTyped DEF f
<1>8. CASE Enters(t, GetAdTkt(f.name, f.realm), "got")
  <2> DEFINE g == GetAdTkt(f.name, f.realm)
  <2>2. FrameTyped(g) /\ g.at = "start"
    BY <1>3, FramesTyped
  <2> HIDE DEF g
  <2>3. Above(g, [proc |-> f.proc, at |-> "got"]) /\ Brings(g, Nothing)
    BY <1>1, <2>2, StartsWantNothing DEF Above, WantsRealm, WantsTicket
  <2> QED BY <1>1, <1>4, <1>8, <2>2, <2>3, EntersTyped DEF f, g
<1>9. CASE Passes(t) /\ (Code(t) = "KSUCCESS" => f.at \in {"first", "again"})
  <2>1. ret[t].code = "KSUCCESS" => IsTicket(ret[t].val)
    BY <1>1, <1>2, <1>9 DEF Brings, WantsTicket, Code
  <2> QED BY <1>1, <1>9, <2>1, ReturnsTyped DEF Passes, f
<1> QED BY <1>5, <1>6, <1>7, <1>8, <1>9

(* getadtkt.c calls, and keeps a realm, or a ticket.                        *)
LEMMA AdTktTyped ==
  ASSUME KInv, TInv, NEW t \in Thread, Busy(t), Top(t).proc = "get_ad_tkt"
  PROVE  /\ \A l \in SName, at \in {"tgt", "tgt2"} : LooksForTgt(t, l, at) => TypedActs(t)
         /\ IsTicket(ret[t].val) /\ HasTgt(t) => TypedActs(t)
<1> DEFINE x == Top(t).x
<1>1. /\ FrameTyped(Top(t)) /\ FrameRight(Top(t)) /\ Head(stack[t]) = Top(t)
      /\ StackRight(stack[t]) /\ stack[t] # <<>> /\ StackTyped(stack[t], ret[t])
  BY TopTyped
<1>2. x = [n \in {"l", "cr"} |-> x[n]] /\ x.l \in SName /\ Top(t).realm \in SName
  BY <1>1 DEF FrameTyped, XTyped
<1>3. ASSUME NEW l \in SName, NEW at \in {"tgt", "tgt2"}, LooksForTgt(t, l, at) PROVE TypedActs(t)
  <2> DEFINE y == [x EXCEPT !.l = l]
             g == Gotten(Top(t), at, y)
             f == GetCred(Top(t).realm, l)
  <2>1. XTyped(Top(t).proc, y)
    <3>1. y = [n \in {"l", "cr"} |-> y[n]] /\ y.l = l
      <4> HIDE DEF x
      <4> QED BY <1>2
    <3> HIDE DEF y
    <3> QED BY <3>1 DEF XTyped
  <2>2. AtTyped(Top(t).proc, at, y)
    BY DEF AtTyped
  <2>3. [Top(t) EXCEPT !.at = at, !.x.l = l] = g
    BY <1>1 DEF FrameRight, FrameFields, Gotten
  <2> HIDE DEF y
  <2>4. FrameTyped(g) /\ g.proc = Top(t).proc /\ g.at = at
    BY <1>1, <2>1, <2>2, FrameTypedWith
  <2>5. /\ stack' = [stack EXCEPT ![t] = <<f, g>> \o Tail(stack[t])]
        /\ ret' = [ret EXCEPT ![t] = Nothing]
    BY <1>3, <2>3 DEF LooksForTgt, Took
  <2>6. FrameTyped(f) /\ f.proc = "get_cred"
    BY FramesTyped
  <2> HIDE DEF f, g
  <2>7. Above(f, g) /\ Brings(f, Nothing)
    BY <2>4, <2>6, StartsWantNothing DEF Above, WantsRealm, Wanting
  <2>8. StackTyped(<<f, g>> \o Tail(stack[t]), Nothing)
    BY <1>1, <2>4, <2>6, <2>7, TypedCalls
  <2> QED BY <2>5, <2>8 DEF TypedActs
<1>4. ASSUME IsTicket(ret[t].val), HasTgt(t) PROVE TypedActs(t)
  <2> DEFINE v == ret[t].val
             y == [x EXCEPT !.cr = v]
             g == Gotten(Top(t), "request", y)
             f == MkReq(Top(t).realm, x.l)
  <2>1. XTyped(Top(t).proc, y) /\ AtTyped(Top(t).proc, "request", y)
    <3>1. IsTicket(v)
      BY <1>4
    <3> HIDE DEF v
    <3>2. y = [n \in {"l", "cr"} |-> y[n]] /\ y.l = x.l /\ y.cr = v
      <4> HIDE DEF x
      <4> QED BY <1>2
    <3> HIDE DEF y
    <3> QED BY <1>2, <3>1, <3>2 DEF XTyped, AtTyped
  <2>3. [Top(t) EXCEPT !.at = "request", !.x.cr = ret[t].val] = g
    BY <1>1 DEF FrameRight, FrameFields, Gotten
  <2> HIDE DEF y
  <2>4. FrameTyped(g) /\ g.proc = Top(t).proc /\ g.at = "request"
    BY <1>1, <2>1, FrameTypedWith
  <2>5. /\ stack' = [stack EXCEPT ![t] = <<f, g>> \o Tail(stack[t])]
        /\ ret' = [ret EXCEPT ![t] = Nothing]
    BY <1>4, <2>3 DEF HasTgt, Took
  <2>6. FrameTyped(f) /\ f.proc = "mk_req" /\ f.at = "start"
    BY <1>2, FramesTyped
  <2> HIDE DEF f, g
  <2>7. Above(f, g) /\ Brings(f, Nothing)
    BY <2>4, <2>6, StartsWantNothing DEF Above, WantsRealm
  <2>8. StackTyped(<<f, g>> \o Tail(stack[t]), Nothing)
    BY <1>1, <2>4, <2>6, <2>7, TypedCalls
  <2> QED BY <2>5, <2>8 DEF TypedActs
<1> QED BY <1>3, <1>4

(* getadtkt.c: the realm of the file, the krbtgt, and the KDC's answer.     *)
LEMMA GetAdTktTyped ==
  ASSUME KInv, TInv, NEW t \in Thread, FindsRealm(t) \/ GetsTgt(t) \/ AsksKdc(t)
  PROVE  TypedActs(t)
<1> DEFINE f == Top(t)
           l == f.x.l
<1>1. Busy(t) /\ f.proc = "get_ad_tkt"
  BY DEF FindsRealm, GetsTgt, AsksKdc, Resumes, At
<1>2. FrameTyped(f) /\ Brings(f, ret[t])
  BY <1>1, TopTyped
<1>3. f.name \in SName /\ f.realm \in SName /\ l \in SName
  BY <1>1, <1>2 DEF FrameTyped, XTyped
<1>4. Passes(t) \/ (\E code, val : Returns(t, code, val)) => TypedActs(t)
  BY <1>1, ReturnsTyped DEF Passes
<1>5. ASSUME NEW at, at \notin {"request", "answer", "saved"}, NEW g, FrameTyped(g),
             g.proc \notin Wanting \/ g.at = "start",
             Above(g, [proc |-> f.proc, at |-> at]), Enters(t, g, at)
      PROVE  TypedActs(t)
  <2>1. AtTyped(f.proc, at, f.x) /\ Brings(g, Nothing)
    BY <1>1, <1>5, StartsWantNothing DEF AtTyped
  <2> QED BY <1>1, <1>5, <2>1, EntersTyped
<1>6. CASE FindsRealm(t)
  <2>1. \/ Enters(t, Fullname, "realm")
        \/ Enters(t, Fullname, "realm2")
        \/ Enters(t, GetCred(f.realm, f.realm), "login")
        \/ LooksForTgt(t, ret[t].val, "tgt") /\ f.at \in {"realm", "realm2"}
        \/ Passes(t)
    <3>1. CASE Resumes(t, "get_ad_tkt", "realm") /\
               CASE Code(t) = "KSUCCESS" -> LooksForTgt(t, ret[t].val, "tgt")
                 [] Code(t) \in {"RET_NOTKT", "NO_TKT_FIL"} -> Enters(t, GetCred(f.realm, f.realm), "login")
                 [] OTHER -> Passes(t)
      <4>0. f.at = "realm"
        BY <3>1 DEF Resumes, At
      <4>1. CASE Code(t) = "KSUCCESS"
        BY <3>1, <4>0, <4>1
      <4>2. CASE Code(t) \in {"RET_NOTKT", "NO_TKT_FIL"}
        BY <3>1, <4>2
      <4>3. CASE Code(t) \notin {"KSUCCESS", "RET_NOTKT", "NO_TKT_FIL"}
        BY <3>1, <4>3
      <4> QED BY <4>1, <4>2, <4>3
    <3>2. CASE Resumes(t, "get_ad_tkt", "realm2") /\ LooksForTgt(t, ret[t].val, "tgt")
      BY <3>2 DEF Resumes, At
    <3> QED BY <1>6, <3>1, <3>2 DEF FindsRealm
  <2>2. f.at \in {"realm", "realm2"} => ret[t].val \in SName
    BY <1>1, <1>2 DEF Brings, WantsRealm
  <2>3. \A at \in {"realm", "realm2"} : Enters(t, Fullname, at) => TypedActs(t)
    <3>1. \A at \in {"realm", "realm2"} : Above(Fullname, [proc |-> f.proc, at |-> at])
      BY FramesTyped DEF Above, WantsTicket
    <3> QED BY <1>5, <3>1, FramesTyped DEF Wanting
  <2>4. Enters(t, GetCred(f.realm, f.realm), "login") => TypedActs(t)
    <3> DEFINE g == GetCred(f.realm, f.realm)
    <3>1. FrameTyped(g) /\ g.proc = "get_cred"
      BY FramesTyped
    <3> HIDE DEF g
    <3>2. Above(g, [proc |-> f.proc, at |-> "login"])
      BY DEF Above, WantsRealm, WantsTicket
    <3> QED BY <1>5, <3>1, <3>2 DEF Wanting, g
  <2> HIDE DEF f
  <2>5. LooksForTgt(t, ret[t].val, "tgt") /\ f.at \in {"realm", "realm2"} => TypedActs(t)
    BY <1>1, <2>2, AdTktTyped DEF f
  <2> QED BY <1>4, <2>1, <2>3, <2>4, <2>5
<1>7. CASE GetsTgt(t)
  <2>1. \/ HasTgt(t) /\ Code(t) = "KSUCCESS" /\ f.at \in {"tgt", "tgt2"}
        \/ Returns(t, "AD_NOTGT", NoRealm)
        \/ Enters(t, GetAdTkt(f.realm, l), "cross")
        \/ LooksForTgt(t, l, "tgt2")
        \/ Passes(t)
    <3>1. CASE Resumes(t, "get_ad_tkt", "tgt") /\
               CASE Code(t) = "KSUCCESS" -> HasTgt(t)
                 [] Code(t) # "KSUCCESS" /\ f.realm = l -> Returns(t, "AD_NOTGT", NoRealm)
                 [] OTHER -> Enters(t, GetAdTkt(f.realm, l), "cross")
      <4>0. f.at = "tgt"
        BY <3>1 DEF Resumes, At
      <4>1. CASE Code(t) = "KSUCCESS"
        BY <3>1, <4>0, <4>1
      <4>2. CASE Code(t) # "KSUCCESS" /\ f.realm = l
        BY <3>1, <4>2
      <4>3. CASE Code(t) # "KSUCCESS" /\ f.realm # l
        BY <3>1, <4>3
      <4> QED BY <4>1, <4>2, <4>3
    <3>2. CASE Resumes(t, "get_ad_tkt", "tgt2") /\
               IF Code(t) = "KSUCCESS" THEN HasTgt(t) ELSE Passes(t)
      BY <3>2 DEF Resumes, At
    <3> QED BY <1>7, <3>1, <3>2 DEF GetsTgt
  <2>2. Code(t) = "KSUCCESS" /\ f.at \in {"tgt", "tgt2"} => IsTicket(ret[t].val)
    BY <1>1, <1>2 DEF Brings, WantsTicket, Code
  <2>3. Enters(t, GetAdTkt(f.realm, l), "cross") => TypedActs(t)
    <3> DEFINE g == GetAdTkt(f.realm, l)
    <3>1. FrameTyped(g) /\ g.at = "start"
      BY <1>3, FramesTyped
    <3> HIDE DEF g
    <3>2. Above(g, [proc |-> f.proc, at |-> "cross"])
      BY DEF Above, WantsRealm, WantsTicket
    <3> QED BY <1>5, <3>1, <3>2 DEF g
  <2> HIDE DEF f, l
  <2>4. LooksForTgt(t, l, "tgt2") => TypedActs(t)
    BY <1>1, <1>3, AdTktTyped DEF f
  <2>5. HasTgt(t) /\ Code(t) = "KSUCCESS" /\ f.at \in {"tgt", "tgt2"} => TypedActs(t)
    BY <1>1, <2>2, AdTktTyped DEF f
  <2> QED BY <1>4, <2>1, <2>3, <2>4, <2>5
<1>8. CASE AsksKdc(t)
  <2>1. \/ /\ Enters(t, Exchange(f.name, f.realm, ret[t].val), "answer")
           /\ f.at = "request" /\ Code(t) = "KSUCCESS"
        \/ Enters(t, Save(f.name, f.realm, f.x.cr.ticket.issued), "saved") /\ f.at = "answer"
        \/ (\E code, val : Returns(t, code, val))
        \/ Passes(t)
    <3>1. CASE Resumes(t, "get_ad_tkt", "answer") /\
               CASE Code(t) # "KSUCCESS" -> Passes(t)
                 [] Code(t) = "KSUCCESS" /\ ret[t].val # f.x.cr -> Returns(t, "INTK_ERR", NoRealm)
                 [] OTHER -> Enters(t, Save(f.name, f.realm, f.x.cr.ticket.issued), "saved")
      <4>0. f.at = "answer"
        BY <3>1 DEF Resumes, At
      <4>1. CASE Code(t) # "KSUCCESS"
        BY <3>1, <4>1
      <4>2. CASE Code(t) = "KSUCCESS" /\ ret[t].val # f.x.cr
        BY <3>1, <4>2
      <4>3. CASE Code(t) = "KSUCCESS" /\ ret[t].val = f.x.cr
        BY <3>1, <4>0, <4>3
      <4> QED BY <4>1, <4>2, <4>3
    <3>2. CASE Resumes(t, "get_ad_tkt", "request") /\
               IF Code(t) = "KSUCCESS" THEN Enters(t, Exchange(f.name, f.realm, ret[t].val), "answer")
               ELSE Returns(t, "AD_NOTGT", NoRealm)
      BY <3>2 DEF Resumes, At
    <3> QED BY <1>8, <3>1, <3>2 DEF AsksKdc
  <2>2. f.at \in {"request", "answer"} => IsTicket(f.x.cr)
    BY <1>1, <1>2 DEF FrameTyped, AtTyped
  <2>3. CASE /\ Enters(t, Exchange(f.name, f.realm, ret[t].val), "answer")
             /\ f.at = "request" /\ Code(t) = "KSUCCESS"
    <3> DEFINE g == Exchange(f.name, f.realm, ret[t].val)
    <3>1. IsTicket(ret[t].val)
      BY <1>1, <1>2, <2>3 DEF Brings, WantsTicket, Code
    <3>2. FrameTyped(g) /\ g.proc = "exchange"
      <4>1. \A name, realm, req : IsTicket(req) => FrameTyped(Exchange(name, realm, req))
        BY FramesTyped
      <4>2. \A name, realm, req : Exchange(name, realm, req).proc = "exchange"
        BY FramesTyped
      <4> QED BY <3>1, <4>1, <4>2
    <3> HIDE DEF g
    <3>3. Above(g, [proc |-> f.proc, at |-> "answer"]) /\ Brings(g, Nothing)
      BY <3>2, StartsWantNothing DEF Above, WantsRealm, WantsTicket, Wanting
    <3>4. AtTyped(f.proc, "answer", f.x)
      BY <1>1, <2>2, <2>3 DEF AtTyped
    <3> QED BY <1>1, <2>3, <3>2, <3>3, <3>4, EntersTyped DEF g
  <2>4. CASE Enters(t, Save(f.name, f.realm, f.x.cr.ticket.issued), "saved") /\ f.at = "answer"
    <3> DEFINE p == f.x.cr.ticket.issued
               g == Save(f.name, f.realm, p)
    <3>1. p \in Principal
      <4>1. f.x.cr.ticket \in Ticket
        BY <2>2, <2>4 DEF IsTicket
      <4> QED BY <4>1 DEF Ticket
    <3> HIDE DEF p
    <3>2. FrameTyped(g) /\ g.proc = "save"
      BY <1>3, <3>1, FramesTyped
    <3> HIDE DEF g
    <3>3. Above(g, [proc |-> f.proc, at |-> "saved"]) /\ Brings(g, Nothing)
      BY <3>2, StartsWantNothing DEF Above, WantsRealm, WantsTicket, Wanting
    <3>4. AtTyped(f.proc, "saved", f.x)
      BY <1>1, <2>2, <2>4 DEF AtTyped
    <3> QED BY <1>1, <2>4, <3>2, <3>3, <3>4, EntersTyped DEF g, p
  <2> QED BY <1>4, <2>1, <2>3, <2>4
<1> QED BY <1>6, <1>7, <1>8

(* k_gettkt.c, and the dialog of krb_get_cred.                              *)
LEMMA LoginTyped ==
  ASSUME KInv, TInv, NEW t \in Thread, krb_get_in_tkt(t) \/ LoggedIn(t) \/ GivesUp(t) \/ LogsIn(t)
  PROVE  TypedActs(t)
<1> DEFINE f == Top(t)
<1>1. CASE krb_get_in_tkt(t)
  <2> DEFINE p == f.name
             in == Frame("in_tkt", p, Home, NoX)
             ex == Exchange(Home, Home, Asked(p))
             sv == Save(Home, Home, p)
  <2>1. Busy(t) /\ f.proc = "get_in_tkt"
    BY <1>1 DEF krb_get_in_tkt, Resumes, At
  <2>2. p \in Principal
    BY <2>1, TopTyped DEF FrameRight
  <2>3. \/ Enters(t, ex, "answer") \/ Enters(t, in, "file") \/ Enters(t, sv, "saved") \/ Passes(t)
    BY <1>1 DEF krb_get_in_tkt
  <2>4. FrameTyped(ex) /\ ex.proc = "exchange"
    <3>1. IsTicket(Asked(p))
      BY <2>2, FileAssumption DEF IsTicket, Asked, Ticket, SName
    <3> HIDE DEF p
    <3> QED BY <3>1, FramesTyped
  <2>5. FrameTyped(in) /\ in.proc = "in_tkt" /\ FrameTyped(sv) /\ sv.proc = "save"
    <3>1. Home \in SName
      BY FileAssumption DEF SName
    <3> HIDE DEF p
    <3> QED BY <2>2, <3>1, FramesTyped
  <2> HIDE DEF in, ex, sv
  <2>6. \A at : AtTyped(f.proc, at, f.x)
    BY <2>1 DEF AtTyped
  <2>7. \A g, at : Above(g, [proc |-> f.proc, at |-> at])
    BY <2>1 DEF Above, WantsRealm, WantsTicket
  <2>8. Brings(in, Nothing) /\ Brings(ex, Nothing) /\ Brings(sv, Nothing)
    BY <2>4, <2>5, StartsWantNothing DEF Wanting
  <2>9. Passes(t) => TypedActs(t)
    BY <2>1, ReturnsTyped DEF Passes
  <2> QED BY <2>1, <2>3, <2>4, <2>5, <2>6, <2>7, <2>8, <2>9, EntersTyped
<1>2. CASE LoggedIn(t)
  <2> DEFINE x == [res |-> Nothing, prompt |-> FALSE]
  <2>1. Busy(t) /\ f.proc = "get_cred" /\ f.at = "login" /\ f.proc \notin Wanting /\ Took(t)
    BY <1>2 DEF LoggedIn, Resumes, At, Wanting
  <2>2. With(t, "start", x) \/ Goto(t, "prompt")
    BY <1>2 DEF LoggedIn
  <2>3. XTyped("get_cred", x) /\ AtTyped("get_cred", "start", x)
    BY DEF XTyped, AtTyped, Nothing
  <2> HIDE DEF x
  <2>4. AtTyped("get_cred", "prompt", f.x)
    BY <2>1, TopTyped DEF FrameTyped, AtTyped
  <2> QED BY <2>1, <2>2, <2>3, <2>4, WithTyped, GoesTyped
<1>3. CASE GivesUp(t)
  <2>1. Busy(t) /\ f.proc = "get_cred" /\ f.at = "prompt" /\ Returns(t, f.x.res.code, NoRealm)
    BY <1>3 DEF GivesUp, At
  <2>2. f.x.res.code # "KSUCCESS"
    BY <2>1, TopTyped DEF FrameTyped, AtTyped
  <2> QED BY <2>1, <2>2, ReturnsTyped
<1>4. CASE LogsIn(t)
  <2>1. Busy(t) /\ f.proc = "get_cred" /\ f.at = "prompt"
    BY <1>4 DEF LogsIn, At
  <2>2. PICK p \in Principal : Enters(t, Login(p), "login")
    BY <1>4 DEF LogsIn
  <2>3. AtTyped(f.proc, "login", f.x)
    BY <2>1, TopTyped DEF FrameTyped, AtTyped
  <2> DEFINE g == Login(p)
  <2>4. FrameTyped(g) /\ g.proc = "get_in_tkt"
    BY FramesTyped
  <2> HIDE DEF g
  <2>5. Above(g, [proc |-> f.proc, at |-> "login"]) /\ Brings(g, Nothing)
    BY <2>1, <2>4, StartsWantNothing DEF Above, WantsRealm, WantsTicket, Wanting
  <2> QED BY <2>1, <2>2, <2>3, <2>4, <2>5, EntersTyped DEF g
<1> QED BY <1>1, <1>2, <1>3, <1>4

(* The end of a listing's call, a new call, and the network.               *)
LEMMA OthersTyped ==
  ASSUME KInv, TInv, NEW t \in Thread, ListingOfRealm(t) \/ Starts(t) \/ Arrives(t)
  PROVE  TypedActs(t)
<1>1. CASE ListingOfRealm(t)
  <2>1. Busy(t) /\ Top(t).proc = "klist" /\ Top(t).proc \notin Wanting
    BY <1>1 DEF ListingOfRealm, Resumes, At, Wanting
  <2>2. (Goto(t, "start") /\ Took(t)) \/ (\E code, val : Returns(t, code, val))
    <3>1. CASE Code(t) = "KSUCCESS"
      BY <1>1, <3>1 DEF ListingOfRealm
    <3>2. CASE Code(t) = "NO_TKT_FIL"
      BY <1>1, <3>2 DEF ListingOfRealm
    <3>3. CASE Code(t) \notin {"KSUCCESS", "NO_TKT_FIL"}
      BY <1>1, <3>3 DEF ListingOfRealm, Passes
    <3> QED BY <3>1, <3>2, <3>3
  <2>3. AtTyped(Top(t).proc, "start", Top(t).x)
    BY <2>1 DEF AtTyped
  <2> QED BY <2>1, <2>2, <2>3, GoesTyped, ReturnsTyped
<1>2. CASE Starts(t)
  <2> DEFINE Calling == UNION { { MkReq(s, r) : s \in Host } : r \in Realm }
             Asking == { Login(p) : p \in Principal }
             Rest == { Frame("dest_tkt", NoRealm, NoRealm, NoX), Klist }
  <2>1. PICK f \in Rest \cup Asking \cup Calling : stack' = [stack EXCEPT ![t] = <<f>>]
    <3> DEFINE S == Rest \cup Asking \cup Calling
    <3>1. \E f \in S : f.proc \in Does[t] /\ stack' = [stack EXCEPT ![t] = <<f>>]
      BY <1>2 DEF Starts
    <3> HIDE DEF S
    <3>2. \E f \in S : stack' = [stack EXCEPT ![t] = <<f>>]
      BY <3>1
    <3> QED BY <3>2 DEF S
  <2>2. FrameTyped(f) /\ Brings(f, Nothing)
    <3>1. CASE f \in Calling
      <4>1. PICK q \in Realm : f \in { MkReq(r, q) : r \in Host }
        BY <3>1
      <4>2. PICK r \in Host : f = MkReq(r, q)
        BY <4>1
      <4>3. r \in SName /\ q \in SName
        BY DEF SName
      <4>4. FrameTyped(f) /\ f.at = "start"
        BY <4>2, <4>3, FramesTyped
      <4> QED BY <4>4, StartsWantNothing
    <3>2. CASE f \in Asking
      <4>1. FrameTyped(f) /\ f.proc = "get_in_tkt"
        BY <3>2, FramesTyped
      <4> QED BY <4>1, StartsWantNothing DEF Wanting
    <3>3. CASE f \in Rest
      <4> DEFINE d == Frame("dest_tkt", NoRealm, NoRealm, NoX)
      <4>1. FrameTyped(d) /\ d.proc = "dest_tkt" /\ FrameTyped(Klist) /\ Klist.proc = "klist"
        BY FramesTyped DEF Frame
      <4>2. f = d \/ f = Klist
        BY <3>3
      <4> HIDE DEF d, Calling, Asking, Rest
      <4>3. FrameTyped(f) /\ f.proc \notin Wanting
        BY <4>1, <4>2 DEF Wanting
      <4> QED BY <4>3, StartsWantNothing
    <3> HIDE DEF Calling, Asking, Rest
    <3> QED BY <3>1, <3>2, <3>3
  <2> HIDE DEF Calling, Asking, Rest
  <2>3. ret' = [ret EXCEPT ![t] = Nothing]
    BY <1>2 DEF Starts, Took
  <2>4. StackTyped(<<f>>, Nothing)
    <3> DEFINE s == <<f>>
    <3>1. Len(s) = 1 /\ s[1] = f
      OBVIOUS
    <3> HIDE DEF s
    <3>2. StackTyped(s, Nothing)
      BY <2>2, <3>1 DEF StackTyped
    <3> QED BY <3>2 DEF s
  <2> QED BY <2>1, <2>3, <2>4 DEF TypedActs
<1>3. CASE Arrives(t)
  <2>1. UNCHANGED <<stack, ret>>
    BY <1>3 DEF Arrives, file
  <2>2. stack' = [stack EXCEPT ![t] = stack[t]] /\ ret' = [ret EXCEPT ![t] = ret[t]]
    <3>1. stack = [u \in Thread |-> stack[u]] /\ ret = [u \in Thread |-> ret[u]]
      BY DEF TInv
    <3>2. stack' = [stack EXCEPT ![t] = stack[t]]
      BY <2>1, <3>1
    <3>3. ret' = [ret EXCEPT ![t] = ret[t]]
      BY <2>1, <3>1
    <3> QED BY <3>2, <3>3
  <2>3. StackTyped(stack[t], ret[t])
    BY DEF TInv
  <2> QED BY <2>2, <2>3 DEF TypedActs
<1> QED BY <1>1, <1>2, <1>3

(* What is put into a socket's queue is a packet.                           *)
LEMMA ArrivesNet ==
  ASSUME TInv, NEW t \in Thread, Arrives(t)
  PROVE  NetTyped'
<1>1. PICK p \in Packet : inbox' = [inbox EXCEPT ![t] = Append(inbox[t], p)]
  BY DEF Arrives
<1>2. Append(inbox[t], p) \in Seq(Packet)
  BY DEF TInv
<1>3. UNCHANGED calls
  BY DEF Arrives
<1> QED BY <1>1, <1>2, <1>3, NetKept

(* The steps with the cursor in the file.                                  *)
LEMMA ShutOurs ==
  ASSUME KInv, TInv, NEW t \in Thread, Shut(t)
  PROVE  Ours(lib'.data)
<1>1. FileRight(Closed(t)) /\ Closed(t).data = lib.data
  BY ClosedDoes
<1> QED BY <1>1, LibOurs DEF Shut, TInv

LEMMA InitTyped ==
  ASSUME KInv, TInv, NEW t \in Thread, tf_init(t) \/ ListingProbes(t)
  PROVE  TypedActs(t) /\ Ours(lib'.data)
<1> DEFINE r == CcOpen(lib, File, "v4")
<1>1. /\ Busy(t) /\ Top(t).proc \in Opened /\ Top(t).at \in {"start", "probe"} /\ Room(lib)
      /\ Top(t).proc \notin Wanting
  BY DEF tf_init, ListingProbes, At, Opened, Wanting
<1>2. Closed(t) = lib
  <2>1. cursor[t] = NoCursor
    BY <1>1, TopIs, PlainHasNone DEF Special
  <2> QED BY <2>1, ClosedDoes
<1>3. \A at \in {"name", "shut"} : AtTyped(Top(t).proc, at, Top(t).x)
  BY DEF AtTyped
<1>4. CASE r.err = "CC_NOERROR"
  <2>1. Lib(r.lib) /\ (Goto(t, "name") \/ Goto(t, "shut")) /\ UNCHANGED ret
    BY <1>2, <1>4 DEF tf_init, ListingProbes
  <2> DEFINE l == r.lib
  <2>2. FileRight(l) /\ l.data = lib.data
    BY <1>1, <1>4, OpenDoes DEF KInv
  <2> HIDE DEF r, l
  <2>3. Ours(lib'.data)
    BY <2>1, <2>2, LibOurs DEF TInv, l
  <2> QED BY <1>1, <1>3, <2>1, <2>3, GoesTyped
<1>5. CASE r.err # "CC_NOERROR"
  <2>1. /\ Shut(t)
        /\ \/ Stops(t, "NO_TKT_FIL", NoRealm) /\ UNCHANGED ret
           \/ Top(t).proc = "klist" /\ Returns(t, "KSUCCESS", NoRealm)
    <3>1. CASE tf_init(t)
      BY <1>2, <1>5, <3>1 DEF tf_init
    <3>2. CASE ListingProbes(t)
      BY <1>2, <1>5, <3>2 DEF ListingProbes, At
    <3> QED BY <3>1, <3>2
  <2>2. NoRealm \in SName
    BY DEF SName
  <2> QED BY <1>1, <2>1, <2>2, StopsTyped, ReturnsTyped, ShutOurs
<1> QED BY <1>4, <1>5

LEMMA ReadTyped ==
  ASSUME KInv, TInv, NEW t \in Thread, tf_get_pname(t) \/ tf_get_cred_begin(t) \/ SaveReads(t)
  PROVE  TypedActs(t) /\ Ours(lib'.data)
<1>0. NoRealm \in SName /\ Ours(lib.data) /\ FileRight(lib)
  BY DEF SName, TInv, KInv
<1>1. CASE tf_get_pname(t)
  <2>1. Busy(t) /\ Top(t).proc \in Opened /\ Top(t).proc \notin Wanting /\ Keeps /\ UNCHANGED ret
    BY <1>1 DEF tf_get_pname, At, Reads, Opened, Wanting
  <2>2. Goto(t, "next") \/ Stops(t, "CC", NoRealm)
    BY <1>1 DEF tf_get_pname
  <2>3. AtTyped(Top(t).proc, "next", Top(t).x)
    BY DEF AtTyped
  <2>4. Ours(lib'.data)
    BY <1>0, <2>1 DEF Keeps
  <2> QED BY <1>0, <2>1, <2>2, <2>3, <2>4, StopsTyped, GoesTyped
<1>2. CASE tf_get_cred_begin(t)
  <2> DEFINE r == CcCredsBegin(lib, cursor[t].ref)
             l == r.lib
  <2>1. Busy(t) /\ Top(t).proc \in Opened /\ Room(lib) /\ UNCHANGED ret
    BY <1>2 DEF tf_get_cred_begin, At, Reads, Opened
  <2>2. CASE r.err = "CC_NOERROR"
    <3>1. Lib(l) /\ UNCHANGED stack
      BY <1>2, <2>2 DEF tf_get_cred_begin
    <3>2. \E obj : r = Given(lib, obj)
      BY <2>2 DEF CcCredsBegin, Result
    <3>3. FileRight(l) /\ l.data = lib.data
      <4>1. PICK obj : r = Given(lib, obj)
        BY <3>2
      <4> HIDE DEF r
      <4> QED BY <1>0, <2>1, <4>1, GivenDoes DEF l
    <3> HIDE DEF l, r
    <3>4. Ours(lib'.data)
      BY <1>0, <3>1, <3>3, LibOurs
    <3>5. stack' = [stack EXCEPT ![t] = stack[t]] /\ ret' = [ret EXCEPT ![t] = ret[t]]
      <4>1. stack = [u \in Thread |-> stack[u]] /\ ret = [u \in Thread |-> ret[u]]
        BY DEF TInv
      <4>2. stack' = [stack EXCEPT ![t] = stack[t]]
        BY <3>1, <4>1
      <4>3. ret' = [ret EXCEPT ![t] = ret[t]]
        BY <2>1, <4>1
      <4> QED BY <4>2, <4>3
    <3>6. StackTyped(stack[t], ret[t])
      BY DEF TInv
    <3> QED BY <3>4, <3>5, <3>6 DEF TypedActs
  <2>3. CASE r.err # "CC_NOERROR"
    <3>1. Keeps /\ Stops(t, "RET_NOTKT", NoRealm)
      BY <1>2, <2>3 DEF tf_get_cred_begin
    <3>2. Ours(lib'.data)
      BY <1>0, <3>1 DEF Keeps
    <3> QED BY <1>0, <2>1, <3>1, <3>2, StopsTyped
  <2> QED BY <2>2, <2>3
<1>3. CASE SaveReads(t)
  <2> DEFINE q == cursor[t].ref
             p == lib.data.cache[lib.heap[q].id].principal["v4"]
             x == Top(t).x
             y == [x EXCEPT !.label = p]
  <2>1. Busy(t) /\ Top(t).proc = "save" /\ Top(t).proc \in Opened /\ Keeps /\ UNCHANGED ret
    BY <1>3 DEF SaveReads, At, Opened
  <2>2. Ours(lib'.data)
    BY <1>0, <2>1 DEF Keeps
  <2>3. CASE CcGetPrincipal(lib, q).err = "CC_NOERROR"
    <3>1. With(t, "store", y)
      BY <1>3, <2>3 DEF SaveReads
    <3>2. lib.heap[q].id \in DOMAIN lib.data.cache
      BY <2>3 DEF CcGetPrincipal, Result, Live
    <3>3. p \in Principal
      BY <1>0, <3>2 DEF Ours
    <3>4. XTyped("save", x)
      BY <2>1, TopTyped DEF FrameTyped
    <3> HIDE DEF p, x
    <3>5. y = [n \in {"res", "label", "issued"} |-> y[n]] /\ y.label = p /\ y.issued = x.issued
      BY <3>4 DEF XTyped
    <3> HIDE DEF y
    <3>6. XTyped("save", y) /\ AtTyped("save", "store", y)
      BY <3>3, <3>4, <3>5 DEF XTyped, AtTyped
    <3> QED BY <2>1, <2>2, <3>1, <3>6, WithTyped DEF Wanting
  <2>4. CASE CcGetPrincipal(lib, q).err # "CC_NOERROR"
    <3>1. Stops(t, "CC", NoRealm)
      BY <1>3, <2>4 DEF SaveReads
    <3> QED BY <1>0, <2>1, <2>2, <3>1, StopsTyped
  <2> QED BY <2>3, <2>4
<1> QED BY <1>1, <1>2, <1>3

(* tf_get_cred: what a search stops with is a ticket of the file.           *)
LEMMA GetCredTyped ==
  ASSUME KInv, TInv, NEW t \in Thread, tf_get_cred(t)
  PROVE  TypedActs(t) /\ Ours(lib'.data)
<1> DEFINE c == cursor[t]
           o == lib.heap[c.it]
           r == CcCredsNext(lib, c.it)
           l == r.lib
           f == Top(t)
<1>1. /\ Busy(t) /\ f.proc \in Reads /\ f.proc \in Opened /\ c.it # 0
      /\ f.proc \notin Wanting /\ UNCHANGED ret
  BY DEF tf_get_cred, At, Reads, Opened, Wanting
<1>2. FileRight(lib) /\ Ours(lib.data)
  BY DEF KInv, TInv
<1>3. NextIs(lib, c.it, o, r)
  <2>1. Own(t) = {c.ref, c.it} \ {0} /\ Own(t) \subseteq DOMAIN lib.heap /\ Objects(lib, c)
    BY <1>1, OpenedOwns
  <2>2. PICK i, x, n : /\ o = [kind |-> "creds", id |-> i, set |-> x, pos |-> n, version |-> "v4"]
                       /\ n \in Nat \ {0} /\ x \in Seq(ToSet(x))
    BY <1>1, <2>1 DEF Objects
  <2>3. c.it \in DOMAIN lib.heap
    BY <1>1, <2>1
  <2> QED BY <1>2, <2>2, <2>3, NextDoes
<1>4. FileRight(l) /\ Ours(l.data)
  <2>1. FileRight(l) /\ l.data \in {lib.data, Pin(lib.data)}
    BY <1>3 DEF NextIs
  <2>2. Pin(lib.data).cache = lib.data.cache /\ Pin(lib.data).cred = lib.data.cred
    BY <1>2, StampsDo DEF FileRight, FileData, Good
  <2> QED BY <1>2, <2>1, <2>2 DEF Ours
<1>5. NoRealm \in SName
  BY DEF SName
<1>6. CASE r.err = "CC_NOERROR"
  <2> DEFINE k == r.cred
             s == lib.data.cred[k].service
             v == [key |-> k, ticket |-> s]
  <2>1. Lib(l) /\ Uses(t, k)
    BY <1>6 DEF tf_get_cred
  <2>2. s \in Ticket
    BY <1>2, <1>3, <1>6 DEF NextIs, Ours
  <2>3. IsTicket(v) /\ s.realm \in SName
    BY <2>2 DEF IsTicket, Ticket, SName
  <2>4. Ours(lib'.data)
    <3> HIDE DEF l
    <3> QED BY <1>4, <2>1, LibOurs
  <2>5. \/ f.proc = "klist" /\ With(t, "next", [f.x EXCEPT !.got = @ \cup {k}])
        \/ f.proc = "fullname" /\ Stops(t, "KSUCCESS", s.realm)
        \/ f.proc = "get_cred" /\ Stops(t, "KSUCCESS", v)
        \/ f.proc = "get_cred" /\ UNCHANGED stack
    <3>1. CASE f.proc = "klist"
      BY <2>1, <3>1 DEF Uses, Notes
    <3>2. CASE f.proc = "fullname"
      BY <2>1, <3>2 DEF Uses
    <3>3. CASE f.proc = "get_cred"
      BY <2>1, <3>3 DEF Uses
    <3> QED BY <1>1, <3>1, <3>2, <3>3 DEF Reads, Opened
  <2> HIDE DEF k, s, v
  <2>6. CASE f.proc = "klist" /\ With(t, "next", [f.x EXCEPT !.got = @ \cup {k}])
    <3> DEFINE y == [f.x EXCEPT !.got = @ \cup {k}]
    <3>1. XTyped(f.proc, y) /\ AtTyped(f.proc, "next", y)
      BY <2>6 DEF XTyped, AtTyped
    <3> HIDE DEF y
    <3> QED BY <1>1, <2>4, <2>6, <3>1, WithTyped DEF y
  <2>7. CASE f.proc = "fullname" /\ Stops(t, "KSUCCESS", s.realm)
    BY <1>1, <2>3, <2>4, <2>7, StopsTyped
  <2>8. CASE f.proc = "get_cred" /\ Stops(t, "KSUCCESS", v)
    BY <1>1, <2>3, <2>4, <2>8, StopsTyped
  <2>9. CASE UNCHANGED stack
    <3>1. stack' = [stack EXCEPT ![t] = stack[t]] /\ ret' = [ret EXCEPT ![t] = ret[t]]
      <4>1. stack = [u \in Thread |-> stack[u]] /\ ret = [u \in Thread |-> ret[u]]
        BY DEF TInv
      <4>2. stack' = [stack EXCEPT ![t] = stack[t]]
        BY <2>9, <4>1
      <4>3. ret' = [ret EXCEPT ![t] = ret[t]]
        BY <1>1, <4>1
      <4> QED BY <4>2, <4>3
    <3>2. StackTyped(stack[t], ret[t])
      BY DEF TInv
    <3> QED BY <2>4, <3>1, <3>2 DEF TypedActs
  <2> QED BY <2>5, <2>6, <2>7, <2>8, <2>9
<1>7. CASE r.err # "CC_NOERROR"
  <2>1. Lib(CcCredsEnd(l, c.it).lib) /\ Stops(t, EndCode(t, r.err), NoRealm)
    BY <1>7 DEF tf_get_cred, IterationEnds
  <2> DEFINE m == CcCredsEnd(l, c.it).lib
  <2>2. FileRight(m) /\ m.data = l.data
    <3>1. m = Free(l, c.it)
      BY DEF CcCredsEnd, Result
    <3> HIDE DEF l, m
    <3> QED BY <1>4, <3>1, FreeDoes DEF Freed
  <2> HIDE DEF m
  <2>3. Ours(lib'.data)
    BY <1>4, <2>1, <2>2, LibOurs DEF m
  <2>4. f.proc = "get_cred" => EndCode(t, r.err) = "RET_NOTKT"
    <3> HIDE DEF r
    <3> QED BY DEF EndCode
  <2> QED BY <1>1, <1>5, <2>1, <2>3, <2>4, StopsTyped
<1> QED BY <1>6, <1>7

(* tf_save_cred: what is filed is a ticket.                                 *)
LEMMA SaveTyped ==
  ASSUME KInv, TInv, NEW t \in Thread, tf_save_cred(t)
  PROVE  TypedActs(t) /\ Ours(lib'.data)
<1> DEFINE i == lib.heap[cursor[t].ref].id
           new == Filed(t)
           s == new.service
           r == CcStore(lib, cursor[t].ref, new)
           e == StoreCredentials(lib.data, i, new)
<1>1. Busy(t) /\ Top(t).proc = "save" /\ Top(t).proc \in Opened /\ UNCHANGED ret
  BY DEF tf_save_cred, At, Opened
<1>2. FileRight(lib) /\ FileData(lib.data) /\ Ours(lib.data)
  BY DEF KInv, TInv, FileRight
<1>3. CASE r.err # "CC_NOERROR"
  <2>1. Shut(t) /\ Stops(t, "KFAILURE", NoRealm)
    BY <1>3 DEF tf_save_cred
  <2> QED BY <1>1, <2>1, ShutOurs, StopsTyped
<1>4. CASE r.err = "CC_NOERROR"
  <2>1. Lib(r.lib) /\ Stops(t, "KSUCCESS", NoRealm)
    BY <1>4 DEF tf_save_cred
  <2>2. i \in DOMAIN lib.data.cache /\ r.lib = OnData(lib, e)
    BY <1>4 DEF CcStore, Result, Live
  <2>3. s \in Ticket /\ new = [version |-> "v4", service |-> s]
    <3>1. Top(t).name \in SName /\ Top(t).x.label \in Principal /\ Top(t).x.issued \in Principal
      BY <1>1, TopTyped DEF FrameTyped, XTyped
    <3> QED BY <3>1, FileAssumption DEF Filed, Ticket
  <2> HIDE DEF new, s, i
  <2>4. Ours(e)
    BY <1>2, <2>2, <2>3, StoreOurs
  <2>5. FileData(e)
    BY <1>2, <2>2, <2>3, StoreFlows
  <2> HIDE DEF e, r
  <2>6. FileRight(r.lib) /\ r.lib.data = e
    BY <1>2, <2>2, <2>5, OnDataRight
  <2>7. Ours(lib'.data)
    BY <2>1, <2>4, <2>6, LibOurs
  <2> QED BY <1>1, <2>1, <2>7, StopsTyped
<1> QED BY <1>3, <1>4

(* tf_close returns what the search stopped with, or asks the user after a  *)
(* failure.                                                                *)
LEMMA CloseTyped ==
  ASSUME KInv, TInv, NEW t \in Thread, tf_close(t) \/ ListingShuts(t)
  PROVE  TypedActs(t) /\ Ours(lib'.data)
<1> DEFINE f == Top(t)
           res == f.x.res
<1>1. Busy(t) /\ f.proc \in Opened /\ f.proc \notin Wanting /\ Shut(t)
  BY DEF tf_close, ListingShuts, At, Opened, Wanting
<1>2. Ours(lib'.data)
  BY <1>1, ShutOurs
<1>3. FrameTyped(f)
  BY <1>1, TopTyped
<1>4. CASE tf_close(t) /\ MayPrompt(t) /\ res.code # "KSUCCESS"
  <2>1. Goto(t, "prompt") /\ UNCHANGED ret
    BY <1>4 DEF tf_close
  <2>2. AtTyped(f.proc, "prompt", f.x)
    BY <1>4 DEF MayPrompt, AtTyped
  <2> QED BY <1>1, <1>2, <2>1, <2>2, GoesTyped
<1>5. CASE tf_close(t) /\ ~(MayPrompt(t) /\ res.code # "KSUCCESS")
  <2>1. Returns(t, res.code, res.val)
    BY <1>5 DEF tf_close
  <2>2. /\ f.proc = "fullname" => res.val \in SName
        /\ f.proc = "get_cred" /\ res.code = "KSUCCESS" => IsTicket(res.val)
    BY <1>3 DEF FrameTyped, XTyped
  <2> QED BY <1>1, <1>2, <2>1, <2>2, ReturnsTyped DEF Wanting
<1>6. CASE ListingShuts(t)
  <2>1. f.proc = "klist" /\ Enters(t, Fullname, "realm")
    BY <1>6 DEF ListingShuts, At
  <2>2. FrameTyped(Fullname) /\ Brings(Fullname, Nothing)
    <3>1. FrameTyped(Fullname) /\ Fullname.proc = "fullname"
      BY FramesTyped
    <3> QED BY <3>1, StartsWantNothing DEF Wanting
  <2>3. AtTyped(f.proc, "realm", f.x) /\ Above(Fullname, [proc |-> f.proc, at |-> "realm"])
    BY <2>1 DEF AtTyped, Above, WantsRealm, WantsTicket
  <2> QED BY <1>1, <1>2, <2>1, <2>2, <2>3, EntersTyped
<1> QED BY <1>4, <1>5, <1>6

(* in_tkt and dest_tkt.                                                    *)
LEMMA PointerTyped ==
  ASSUME KInv, TInv, NEW t \in Thread, Busy(t), Top(t).proc \in {"in_tkt", "dest_tkt"},
         NEW at, NEW ptr, UNCHANGED ret,
         Becomes(t, [Top(t) EXCEPT !.at = at, !.ptr = ptr])
  PROVE  TypedActs(t)
<1> DEFINE f == Top(t)
           g == [f EXCEPT !.at = at, !.ptr = ptr]
<1>1. FrameRight(f)
  BY TopTyped
<1> HIDE DEF f
<1>2. g.proc = f.proc
  BY <1>1 DEF FrameRight, FrameFields
<1> HIDE DEF g
<1>3. FrameTyped(g) /\ f.proc \notin Wanting
  BY <1>2 DEF FrameTyped, XTyped, AtTyped, Wanting, Procs, f
<1> QED BY <1>2, <1>3, TurnsTyped DEF f, g

LEMMA OpensFileTyped ==
  ASSUME KInv, TInv, NEW t \in Thread, OpensFile(t)
  PROVE  TypedActs(t) /\ Ours(lib'.data)
<1> DEFINE r == CcOpen(lib, File, "v4")
<1>1. /\ Busy(t) /\ Top(t).proc \in {"in_tkt", "dest_tkt"} /\ Room(lib) /\ Top(t).proc \notin Wanting
      /\ FileRight(lib) /\ Ours(lib.data)
  BY DEF OpensFile, At, Wanting, KInv, TInv
<1>2. CASE r.err = "CC_NOERROR"
  <2>1. Lib(r.lib) /\ Becomes(t, [Top(t) EXCEPT !.at = "destroy", !.ptr = r.ptr]) /\ UNCHANGED ret
    BY <1>2 DEF OpensFile
  <2>2. FileRight(r.lib) /\ r.lib.data = lib.data
    BY <1>1, <1>2, OpenDoes
  <2> HIDE DEF r
  <2>3. Ours(lib'.data)
    BY <1>1, <2>1, <2>2, LibOurs
  <2> QED BY <1>1, <2>1, <2>3, PointerTyped
<1>3. CASE r.err # "CC_NOERROR"
  <2>1. UNCHANGED lib /\ ((Goto(t, "create") /\ UNCHANGED ret) \/ Returns(t, "RET_TKFIL", NoRealm))
    BY <1>3 DEF OpensFile
  <2>2. AtTyped(Top(t).proc, "create", Top(t).x)
    BY <1>1 DEF AtTyped
  <2> QED BY <1>1, <2>1, <2>2, GoesTyped, ReturnsTyped
<1> QED BY <1>2, <1>3

LEMMA DestroysFileTyped ==
  ASSUME KInv, TInv, NEW t \in Thread, DestroysFile(t)
  PROVE  TypedActs(t) /\ Ours(lib'.data)
<1> DEFINE q == Top(t).ptr
           l == Destroyed(lib, q)
           i == lib.heap[q].id
<1>1. /\ Busy(t) /\ Top(t).proc \in {"in_tkt", "dest_tkt"} /\ Lib(l)
      /\ \/ Becomes(t, [Top(t) EXCEPT !.at = "create", !.ptr = 0]) /\ UNCHANGED ret
         \/ Returns(t, "RET_OK", NoRealm)
  BY DEF DestroysFile, At
<1>2. FileRight(lib) /\ FileData(lib.data) /\ Ours(lib.data)
  BY DEF KInv, TInv, FileRight
<1>3. FileRight(l) /\ Ours(l.data)
  <2>1. CASE Live(lib.data, i)
    <3> DEFINE e == Destroy(lib.data, i)
               m == OnData(lib, e)
    <3>1. l = Free(m, q)
      BY <2>1 DEF Destroyed, CcDestroy, Result
    <3>2. FileData(e) /\ Ours(e)
      BY <1>2, <2>1, DestroyFlows, DestroyOurs DEF Live
    <3> HIDE DEF e
    <3>3. FileRight(m) /\ m.data = e
      BY <1>2, <3>2, OnDataRight
    <3> HIDE DEF m
    <3>4. FileRight(l) /\ Freed(m, l, q)
      BY <3>1, <3>3, FreeDoes
    <3> HIDE DEF l
    <3> QED BY <3>2, <3>3, <3>4 DEF Freed
  <2>2. CASE ~Live(lib.data, i)
    <3>1. l = Free(lib, q)
      BY <2>2 DEF Destroyed, CcDestroy, Result
    <3>2. FileRight(l) /\ Freed(lib, l, q)
      BY <1>2, <3>1, FreeDoes
    <3> HIDE DEF l
    <3> QED BY <1>2, <3>2 DEF Freed
  <2> QED BY <2>1, <2>2
<1> HIDE DEF l
<1>4. Ours(lib'.data)
  BY <1>1, <1>3, LibOurs
<1> QED BY <1>1, <1>4, PointerTyped, ReturnsTyped

LEMMA CreatesFileTyped ==
  ASSUME KInv, TInv, NEW t \in Thread, CreatesFile(t)
  PROVE  TypedActs(t) /\ Ours(lib'.data)
<1> DEFINE p == Top(t).name
           r == CcCreate(lib, File, "v4", p)
           made == CreateCCache(lib.data, File, "v4", p)
           e == made.d
           m == OnData(lib, e)
           obj == [kind |-> "ccache", id |-> made.id, version |-> "v4"]
<1>1. /\ Busy(t) /\ Top(t).proc = "in_tkt" /\ Lib(r.lib) /\ Room(lib) /\ UNCHANGED ret
      /\ Becomes(t, [Top(t) EXCEPT !.at = "close", !.ptr = r.ptr])
  BY DEF CreatesFile, At
<1>2. FileRight(lib) /\ FileData(lib.data) /\ Ours(lib.data) /\ p \in Principal
  BY <1>1, TopIs DEF KInv, TInv, FileRight, FrameRight
<1>3. FileData(e) /\ Ours(e)
  BY <1>2, CreateFlows, CreateOurs
<1>4. r = Given(m, obj)
  BY DEF CcCreate
<1>5. FileRight(m) /\ m.data = e /\ m.heap = lib.heap
  <2> HIDE DEF e
  <2> QED BY <1>2, <1>3, OnDataRight
<1>6. FileRight(r.lib) /\ r.lib.data = e
  <2>1. Room(m)
    BY <1>1, <1>5 DEF Room
  <2> HIDE DEF m, obj, e, r
  <2> QED BY <1>4, <1>5, <2>1, GivenDoes
<1>7. Ours(lib'.data)
  <2> HIDE DEF r, e
  <2> QED BY <1>1, <1>3, <1>6, LibOurs
<1>8. TypedActs(t)
  <2> HIDE DEF r
  <2> QED BY <1>1, PointerTyped
<1> QED BY <1>7, <1>8

LEMMA ClosesFileTyped ==
  ASSUME KInv, TInv, NEW t \in Thread, ClosesFile(t)
  PROVE  TypedActs(t) /\ Ours(lib'.data)
<1> DEFINE l == Free(lib, Top(t).ptr)
<1>1. Busy(t) /\ Top(t).proc = "in_tkt" /\ Lib(l) /\ Returns(t, "KSUCCESS", NoRealm)
  BY DEF ClosesFile, At, CcClose, Result
<1>2. FileRight(lib) /\ Ours(lib.data)
  BY DEF KInv, TInv
<1>3. FileRight(l) /\ Freed(lib, l, Top(t).ptr)
  BY <1>2, FreeDoes
<1> HIDE DEF l
<1>4. Ours(lib'.data)
  BY <1>1, <1>2, <1>3, LibOurs DEF Freed
<1> QED BY <1>1, <1>4, ReturnsTyped

(* A step of thread t keeps all of it.                                      *)
LEMMA FileStepTyped ==
  ASSUME KInv, TInv, NEW t \in Thread, FileStep(t)
  PROVE  TypedActs(t) /\ Ours(lib'.data)
<1>1. CASE tf_init(t)
  BY <1>1, InitTyped
<1>2. CASE tf_get_pname(t) \/ tf_get_cred_begin(t) \/ SaveReads(t)
  BY <1>2, ReadTyped
<1>3. CASE tf_get_cred(t)
  BY <1>3, GetCredTyped
<1>4. CASE tf_save_cred(t)
  BY <1>4, SaveTyped
<1>5. CASE tf_close(t)
  BY <1>5, CloseTyped
<1>6. CASE OpensFile(t) \/ DestroysFile(t)
  BY <1>6, OpensFileTyped, DestroysFileTyped
<1>7. CASE CreatesFile(t) \/ ClosesFile(t)
  BY <1>7, CreatesFileTyped, ClosesFileTyped
<1> QED BY <1>1, <1>2, <1>3, <1>4, <1>5, <1>6, <1>7 DEF FileStep

LEMMA ThreadTyped ==
  ASSUME KInv, TInv, NEW t \in Thread,
         Step(t) \/ GivesUp(t) \/ LogsIn(t) \/ Starts(t) \/ Arrives(t)
  PROVE  TypedActs(t) /\ Ours(lib'.data) /\ NetTyped'
<1>1. ASSUME UNCHANGED lib PROVE Ours(lib'.data)
  BY <1>1 DEF TInv
<1>2. UNCHANGED net => NetTyped'
  BY NetKept
<1>3. CASE FileStep(t) /\ UNCHANGED net
  BY <1>2, <1>3, FileStepTyped
<1>4. CASE NextHost(t) \/ NextRound(t) \/ NoAnswer(t) \/ Timeout(t) \/ Receive(t)
  <2>1. UNCHANGED lib
    BY <1>4 DEF NextHost, NextRound, NoAnswer, Timeout, Receive, Keeps
  <2> QED BY <1>1, <1>4, <2>1, ExchangeTyped
<1>5. CASE mk_req(t) \/ FindsRealm(t) \/ GetsTgt(t) \/ AsksKdc(t) \/ krb_get_in_tkt(t) \/ LoggedIn(t)
  <2>1. UNCHANGED lib /\ UNCHANGED net
    BY <1>5 DEF mk_req, FindsRealm, GetsTgt, AsksKdc, krb_get_in_tkt, LoggedIn, Resumes, Keeps
  <2> QED BY <1>1, <1>2, <1>5, <2>1, MkReqTyped, GetAdTktTyped, LoginTyped
<1>6. CASE ListingProbes(t) \/ ListingShuts(t)
  <2>1. UNCHANGED net
    BY <1>6 DEF ListingProbes, ListingShuts
  <2> QED BY <1>2, <1>6, <2>1, InitTyped, CloseTyped
<1>7. CASE ListingOfRealm(t) \/ GivesUp(t)
  <2>1. UNCHANGED lib /\ UNCHANGED net
    BY <1>7 DEF ListingOfRealm, GivesUp, Resumes, Keeps
  <2> QED BY <1>1, <1>2, <1>7, <2>1, OthersTyped, LoginTyped
<1>8. CASE LogsIn(t) \/ Starts(t)
  <2>1. UNCHANGED lib /\ calls < MaxCalls /\ calls' = calls + 1 /\ UNCHANGED inbox
    BY <1>8 DEF LogsIn, Starts, Keeps
  <2>2. NetTyped'
    BY <2>1, NetKept
  <2> QED BY <1>1, <1>8, <2>1, <2>2, OthersTyped, LoginTyped
<1>9. CASE Arrives(t)
  <2>1. UNCHANGED lib
    BY <1>9 DEF Arrives, file
  <2> QED BY <1>1, <1>9, <2>1, OthersTyped, ArrivesNet
<1> QED BY <1>3, <1>4, <1>5, <1>6, <1>7, <1>8, <1>9 DEF Step

LEMMA TypedKeeps ==
  ASSUME TInv, NEW t \in Thread, TypedActs(t), Ours(lib'.data), NetTyped'
  PROVE  TInv'
<1>1. PICK s, q : /\ stack' = [stack EXCEPT ![t] = s] /\ ret' = [ret EXCEPT ![t] = q]
                  /\ StackTyped(s, q)
  BY DEF TypedActs
<1>2. /\ stack = [u \in Thread |-> stack[u]] /\ ret = [u \in Thread |-> ret[u]]
      /\ \A u \in Thread : StackTyped(stack[u], ret[u])
  BY DEF TInv
<1>3. stack' = [u \in Thread |-> stack'[u]] /\ ret' = [u \in Thread |-> ret'[u]]
  BY <1>1, <1>2
<1>4. ASSUME NEW u \in Thread PROVE StackTyped(stack'[u], ret'[u])
  <2>1. CASE u = t
    <3>1. stack'[u] = s /\ ret'[u] = q
      BY <1>1, <1>2, <2>1
    <3> QED BY <1>1, <3>1
  <2>2. CASE u # t
    <3>1. stack'[u] = stack[u] /\ ret'[u] = ret[u]
      BY <1>1, <1>2, <2>2
    <3> QED BY <1>2, <3>1
  <2> QED BY <2>1, <2>2
<1> QED BY <1>3, <1>4 DEF TInv, NetTyped

(* A ticket that has expired is one.                                       *)
LEMMA ExpiresTyped ==
  ASSUME KInv, TInv, Expires, UNCHANGED net
  PROVE  TInv'
<1> DEFINE d == lib.data
           e(k) == [d EXCEPT !.cred[k].service.old = TRUE]
<1>1. PICK k \in InFile(lib) : lib' = [lib EXCEPT !.data.cred[k].service.old = TRUE]
  BY DEF Expires
<1>2. FileRight(lib) /\ FileData(d) /\ Ours(d)
  BY DEF KInv, FileRight, TInv
<1>3. k \in DOMAIN d.cred
  <2>1. PICK c \in DOMAIN d.cache : k \in Holding(d, c)
    BY <1>2, FileIsOneCache
  <2> QED BY <1>2, <2>1, HoldingLive
<1>4. FileData(e(k)) /\ Ours(e(k))
  BY <1>2, <1>3, ExpiryFlows, ExpiryOurs
<1>5. lib' = OnData(lib, e(k))
  BY <1>1, <1>2 DEF OnData, FileRight, LibFormed, LibFields
<1> HIDE DEF e
<1>6. lib'.data = e(k)
  BY <1>2, <1>4, <1>5, OnDataRight
<1>7. stack' = stack /\ ret' = ret /\ NetTyped'
  BY NetKept DEF Expires
<1> QED BY <1>4, <1>6, <1>7 DEF TInv, NetTyped

(* At the start.                                                           *)
LEMMA FirstTyped == Init => TInv
<1> SUFFICES ASSUME Init PROVE TInv
  OBVIOUS
<1>1. Ours(lib.data)
  <2>1. CASE lib = NoLib
    <3>1. NoLib.data = ContextChanged(NoData) /\ DOMAIN NoLib.data.cache = {} /\ DOMAIN NoLib.data.cred = {}
      BY DEF NoLib, ContextChanged, NoData
    <3> QED BY <2>1, <3>1 DEF Ours
  <2>2. CASE \E p \in Owner : lib = LoggedInLib(p)
    <3>1. PICK p \in Owner : lib = LoggedInLib(p)
      BY <2>2
    <3>2. p \in Principal
      BY ClientAssumption
    <3> QED BY <3>1, <3>2, FirstOurs
  <2> QED BY <2>1, <2>2 DEF Init
<1>2. /\ stack = [t \in Thread |-> <<>>] /\ ret = [t \in Thread |-> Nothing]
      /\ inbox = [t \in Thread |-> <<>>] /\ calls = 0
  BY DEF Init, FileInit
<1>3. \A r : StackTyped(<<>>, r)
  BY DEF StackTyped
<1>4. <<>> \in Seq(Packet) /\ 0 \in 0 .. MaxCalls
  BY EmptySeq, ClientAssumption
<1> QED BY <1>1, <1>2, <1>3, <1>4 DEF TInv

(* What the two invariants say of one thread.                              *)
LEMMA TypeOfThread ==
  ASSUME KInv, TInv, NEW t \in Thread, NEW i \in DOMAIN stack[t]
  PROVE  LET f == stack[t][i]
         IN  /\ f.proc \in Procs /\ f.ptr \in Nat
             /\ f.proc = "exchange" => f.x.req.ticket \in Ticket
             /\ f.proc = "save" => f.name \in SName /\ {f.x.label, f.x.issued} \subseteq Principal
<1> DEFINE f == stack[t][i]
<1>1. StackRight(stack[t]) /\ StackTyped(stack[t], ret[t]) /\ Own(t) \subseteq DOMAIN lib.heap
  BY DEF KInv, ThreadRight, TInv, Own
<1>2. DOMAIN stack[t] = 1 .. Len(stack[t]) /\ Len(stack[t]) \in Nat
  <2> DEFINE s == stack[t]
             T == ToSet(s)
  <2>1. s \in Seq(T)
    BY <1>1 DEF StackRight
  <2> HIDE DEF T, s
  <2>2. DOMAIN s = 1 .. Len(s) /\ Len(s) \in Nat
    BY <2>1
  <2> QED BY <2>2 DEF s
<1>3. FrameTyped(f)
  BY <1>1, <1>2 DEF StackTyped
<1>4. f.ptr \in Nat
  <2>1. CASE i = 1
    <3>1. stack[t] # <<>>
      BY <1>2
    <3>2. Head(stack[t]) = f
      BY <1>1, <2>1, <3>1, StackParts
    <3>3. f.ptr \in Own(t) \cup {0}
      BY <3>1, <3>2 DEF Own, Mine
    <3>4. DOMAIN lib.heap \subseteq Nat
      BY ObjectsAssumption DEF KInv, FileRight, Pointer
    <3> HIDE DEF f
    <3> QED BY <1>1, <3>3, <3>4
  <2>2. CASE i # 1
    <3>1. i \in 2 .. Len(stack[t])
      BY <1>2, <2>2
    <3> QED BY <1>1, <3>1 DEF StackRight, Plain
  <2> QED BY <2>1, <2>2
<1> HIDE DEF f
<1>5. /\ f.proc = "exchange" => f.x.req.ticket \in Ticket
      /\ f.proc = "save" => f.name \in SName /\ {f.x.label, f.x.issued} \subseteq Principal
  BY <1>3 DEF FrameTyped, XTyped, IsTicket
<1> QED BY <1>3, <1>4, <1>5 DEF FrameTyped, f

LEMMA TypedSays ==
  ASSUME KInv, TInv
  PROVE  Krb4TypeOK
<1>1. cursor \in [Thread -> [ref : Nat, it : Nat]]
  <2>1. cursor = [t \in Thread |-> cursor[t]]
    BY DEF KInv
  <2>2. \A t \in Thread : cursor[t] \in [ref : Nat, it : Nat]
    BY DEF KInv, ThreadRight, InPlace
  <2> QED BY <2>1, <2>2
<1>2. ASSUME NEW t \in Thread PROVE \A i \in DOMAIN inbox[t] : inbox[t][i] \in Packet
  <2>1. inbox[t] \in Seq(Packet)
    BY DEF TInv
  <2> QED BY <2>1
<1>3. (\A k \in DOMAIN lib.data.cred : lib.data.cred[k].service \in Ticket) /\ calls \in 0 .. MaxCalls
  BY DEF TInv, Ours
<1> QED BY <1>1, <1>2, <1>3, TypeOfThread DEF Krb4TypeOK

(* What a search leaves, what is asked of a KDC with it, and what is saved   *)
(* are tickets at all times, although the callers look at the code alone    *)
(* (krb_mk_req, mk_req.c; get_ad_tkt, getadtkt.c).                          *)
THEOREM ClientTypeCorrect == Spec => []Krb4TypeOK
<1>1. Init => TInv
  BY FirstTyped
<1>2. KInv /\ TInv /\ [Next]_vars => TInv'
  <2> SUFFICES ASSUME KInv, TInv, [Next]_vars PROVE TInv'
    OBVIOUS
  <2>1. ASSUME NEW t \in Thread, Step(t) \/ GivesUp(t) \/ LogsIn(t) \/ Starts(t) \/ Arrives(t)
        PROVE  TInv'
    BY <2>1, ThreadTyped, TypedKeeps
  <2>2. CASE Expires /\ UNCHANGED net
    BY <2>2, ExpiresTyped
  <2>3. CASE UNCHANGED vars
    BY <2>3 DEF vars, file, net, TInv
  <2> QED BY <2>1, <2>2, <2>3 DEF Next
<1>3. KInv /\ TInv => Krb4TypeOK
  BY TypedSays
<1> QED BY <1>1, <1>2, <1>3, ClientAlwaysRight, PTL DEF Spec
=============================================================================
