-------------------------- MODULE CCacheCalls_proofs --------------------------
(***************************************************************************)
(* Proofs about CCacheCalls: for any names, principals and bounds, what    *)
(* the callers hold is right, however they interleave their calls; the     *)
(* iterators return all they should; and the calls use the data as         *)
(* CCacheContext allows.                                                   *)
(***************************************************************************)
EXTENDS CCacheCalls, CCache2Compat_proofs

(***************************************************************************)
(* The objects of the callers.  w is what an iterator has still to return. *)
(***************************************************************************)
RefRight(l, o) ==
  /\ o \in CacheRef /\ o.version \in Version /\ o.id < l.data.nextCache
  /\ Live(l.data, o.id) => Has(l, o.id, o.version)

(* What is owed is at the position of the iterator or behind it; of the    *)
(* cache at the position, once visited, only the second version is.        *)
NCsRight(l, o, w) ==
  /\ o \in NCsIt /\ o.pos >= 1
  /\ \A e \in w :
       /\ e \in Items(l, o)
       /\ \E i \in o.pos .. Len(o.set) :
            /\ o.set[i] = e[1]
            /\ i = o.pos /\ o.repeat = 1 => e[2] = "v5" /\ Has(l, e[1], "v4")

CredsRight(l, o, w) ==
  /\ o \in CredsIt /\ o.pos >= 1 /\ o.version \in Version /\ o.id < l.data.nextCache
  /\ \A k \in w :
       /\ k \in Items(l, o)
       /\ \E i \in o.pos .. Len(o.set) : o.set[i] = k

ObjectRight(l, o, w) == RefRight(l, o) \/ NCsRight(l, o, w) \/ CredsRight(l, o, w)

Right(l, w) ==
  /\ LibFormed(l) /\ DataRight(l.data) /\ l.leaked \in BOOLEAN
  /\ DOMAIN l.heap \subseteq Pointer
  /\ DOMAIN w = Iterators(l)
  /\ \A q \in DOMAIN l.heap : ObjectRight(l, l.heap[q], w[q])

(* The inductive invariant.                                                *)
CallsInv == Right(lib, owed)

(* Objects see the library through its data only.                          *)
LEMMA ObjectsSeeData ==
  ASSUME NEW l, NEW m, m.data = l.data, NEW o, NEW w
  PROVE  /\ Items(m, o) = Items(l, o)
         /\ ObjectRight(m, o, w) <=> ObjectRight(l, o, w)
<1>1. Items(m, o) = Items(l, o)
  BY DEF Items, Has
<1>2. RefRight(m, o) <=> RefRight(l, o)
  BY DEF RefRight, Has
<1>3. NCsRight(m, o, w) <=> NCsRight(l, o, w)
  BY <1>1 DEF NCsRight, Has
<1>4. CredsRight(m, o, w) <=> CredsRight(l, o, w)
  BY <1>1 DEF CredsRight
<1> QED BY <1>1, <1>2, <1>3, <1>4 DEF ObjectRight

(* An object that no call has moved stays right while the data moves on.   *)
LEMMA UnmovedStaysRight ==
  ASSUME NEW l, DataRight(l.data), NEW m, Onward(l.data, m.data), DataRight(m.data),
         NEW o, NEW w, ObjectRight(l, o, w), NEW w2, w2 \subseteq w \cap Items(m, o)
  PROVE  ObjectRight(m, o, w2)
<1>0. /\ l.data.nextCache \in Nat /\ m.data.nextCache \in Nat /\ CacheId \subseteq Int
      /\ l.data.nextCache <= m.data.nextCache
  BY DataAssumption DEF DataRight, Good, Below, CacheId, Onward
<1>1. CASE RefRight(l, o)
  <2>1. o \in CacheRef /\ o.id \in Int /\ o.version \in Version
    BY <1>0, <1>1 DEF RefRight, CacheRef
  <2>2. Live(m.data, o.id) => Has(m, o.id, o.version)
    BY <1>0, <1>1, <2>1 DEF RefRight, Live, Has, Onward
  <2> QED BY <1>0, <1>1, <2>1, <2>2 DEF RefRight, ObjectRight
<1>2. CASE NCsRight(l, o, w)
  <2> SUFFICES ASSUME NEW e \in w2
               PROVE  /\ e \in Items(m, o)
                      /\ \E i \in o.pos .. Len(o.set) :
                            /\ o.set[i] = e[1]
                            /\ i = o.pos /\ o.repeat = 1 => e[2] = "v5" /\ Has(m, e[1], "v4")
    BY <1>2 DEF NCsRight, ObjectRight
  <2>1. o.kind = "ncs" /\ e \in Items(l, o) /\ e \in Items(m, o)
    BY <1>2 DEF NCsRight, NCsIt
  <2>2. Live(l.data, e[1]) /\ Live(m.data, e[1])
    BY <2>1 DEF Items
  <2>3. Has(l, e[1], "v4") => Has(m, e[1], "v4")
    BY <2>2 DEF Onward, Has, Live, Version
  <2> QED BY <1>2, <2>1, <2>3 DEF NCsRight
<1>3. CASE CredsRight(l, o, w)
  <2>1. o.id \in Int
    BY <1>0, <1>3 DEF CredsRight, CredsIt
  <2> QED BY <1>0, <1>3, <2>1 DEF CredsRight, ObjectRight
<1> QED BY <1>1, <1>2, <1>3 DEF ObjectRight

(***************************************************************************)
(* What a call does to the library: l before, m after; w is what the       *)
(* iterators owed, ret what the call returned from them.                   *)
(***************************************************************************)
Same(l, m, x)  == x \in DOMAIN l.heap /\ m.heap[x] = l.heap[x]
Fresh(l, m, x) == x \notin DOMAIN l.heap /\ ObjectRight(m, m.heap[x], Items(m, m.heap[x]))
Moved(l, m, x, w, ret) ==
  /\ x \in Iterators(l) \cap Iterators(m)
  /\ ObjectRight(m, m.heap[x], (w[x] \ ret[x]) \cap Items(m, m.heap[x]))

Proceeds(l, m, w, ret) ==
  /\ LibFormed(m) /\ DataRight(m.data) /\ m.leaked \in BOOLEAN
  /\ DOMAIN m.heap \subseteq Pointer
  /\ Onward(l.data, m.data)
  /\ \A x \in DOMAIN m.heap : Same(l, m, x) \/ Fresh(l, m, x) \/ Moved(l, m, x, w, ret)

Owed(m, w, ret) ==
  [q \in Iterators(m) |-> IF q \in DOMAIN w
                          THEN (w[q] \ ret[q]) \cap Items(m, m.heap[q])
                          ELSE Items(m, m.heap[q])]

(* What proceeds from a right library, and owes what is left, is right.    *)
LEMMA ProceedsKeepsRight ==
  ASSUME NEW l, NEW w, Right(l, w), NEW m, NEW ret, Proceeds(l, m, w, ret)
  PROVE  Right(m, Owed(m, w, ret))
<1> DEFINE u == Owed(m, w, ret)
<1>1. DOMAIN u = Iterators(m)
  BY DEF Owed
<1>2. ASSUME NEW x \in DOMAIN m.heap
      PROVE  ObjectRight(m, m.heap[x], u[x])
  <2>1. CASE m.heap[x].kind = "ccache"
    <3>1. ASSUME NEW v, ObjectRight(m, m.heap[x], v)
          PROVE  ObjectRight(m, m.heap[x], u[x])
      BY <2>1, <3>1 DEF ObjectRight, NCsRight, CredsRight, NCsIt, CredsIt
    <3>2. CASE Same(l, m, x)
      <4>1. ObjectRight(l, m.heap[x], w[x])
        BY <3>2 DEF Same, Right
      <4>2. RefRight(l, m.heap[x])
        BY <4>1, <2>1 DEF ObjectRight, NCsRight, CredsRight, NCsIt, CredsIt
      <4>3. ObjectRight(l, m.heap[x], {})
        BY <4>2 DEF ObjectRight
      <4>4. ObjectRight(m, m.heap[x], {})
        BY <4>3, UnmovedStaysRight DEF Proceeds, Right
      <4> QED BY <4>4, <3>1
    <3> QED BY <3>1, <3>2 DEF Fresh, Moved, Proceeds
  <2>2. CASE m.heap[x].kind # "ccache"
    <3>0. x \in Iterators(m)
      BY <2>2 DEF Iterators
    <3>1. CASE Same(l, m, x)
      <4>1. x \in DOMAIN w /\ ObjectRight(l, m.heap[x], w[x])
        BY <3>1, <2>2 DEF Same, Right, Iterators
      <4>2. u[x] = (w[x] \ ret[x]) \cap Items(m, m.heap[x])
        BY <3>0, <4>1 DEF Owed
      <4> QED BY <4>1, <4>2, UnmovedStaysRight DEF Proceeds, Right
    <3>2. CASE Fresh(l, m, x)
      <4>1. u[x] = Items(m, m.heap[x])
        BY <3>0, <3>2 DEF Owed, Right, Iterators, Fresh
      <4> QED BY <3>2, <4>1 DEF Fresh
    <3>3. CASE Moved(l, m, x, w, ret)
      <4>1. u[x] = (w[x] \ ret[x]) \cap Items(m, m.heap[x])
        BY <3>0, <3>3 DEF Owed, Right, Moved
      <4> QED BY <3>3, <4>1 DEF Moved
    <3> QED BY <3>1, <3>2, <3>3 DEF Proceeds
  <2> QED BY <2>1, <2>2
<1> HIDE DEF u
<1>3. Right(m, u)
  BY <1>1, <1>2 DEF Right, Proceeds
<1> QED BY <1>3 DEF u

(***************************************************************************)
(* The ways in which calls proceed.                                        *)
(***************************************************************************)
(* The data changes, and no object.                                        *)
LEMMA DataProceeds ==
  ASSUME NEW l, NEW w, Right(l, w), NEW m, OtherData(l, m, m.data), m.leaked \in BOOLEAN,
         DataRight(m.data), Onward(l.data, m.data), NEW ret
  PROVE  Proceeds(l, m, w, ret)
  BY DEF OtherData, Proceeds, Same, Right

(* Doing nothing proceeds.                                                 *)
LEMMA NothingProceeds ==
  ASSUME NEW l, NEW w, Right(l, w), NEW ret
  PROVE  Proceeds(l, l, w, ret) /\ OtherData(l, l, l.data) /\ Onward(l.data, l.data)
<1>1. Onward(l.data, l.data)
  BY DEF Onward, Right, DataRight, Good, Below
<1> QED BY <1>1, DataProceeds DEF Right, OtherData

(* The call gives an object.                                               *)
LEMMA GivingProceeds ==
  ASSUME NEW l, NEW w, Right(l, w), Room(l), NEW m, OtherData(l, m, m.data), m.leaked \in BOOLEAN,
         DataRight(m.data), Onward(l.data, m.data),
         NEW obj, ObjectRight(m, obj, Items(m, obj)), NEW ret
  PROVE  Proceeds(l, Make(m, obj), w, ret)
<1> DEFINE n == Make(m, obj)
           q == NewPointer(m)
<1>1. Added(m, n, q, obj)
  BY MakeAdds DEF OtherData, Right, Room
<1> HIDE DEF n, q
<1>2. ObjectRight(n, n.heap[q], Items(n, n.heap[q]))
  BY <1>1, ObjectsSeeData DEF Added
<1>3. \A x \in DOMAIN n.heap : Same(l, n, x) \/ Fresh(l, n, x)
  BY <1>1, <1>2 DEF Added, Same, Fresh, OtherData
<1> QED BY <1>1, <1>3 DEF Added, Proceeds, OtherData, Right, n

(* The call releases an object.                                            *)
LEMMA FreeingProceeds ==
  ASSUME NEW l, NEW w, Right(l, w), NEW m, OtherData(l, m, m.data), m.leaked \in BOOLEAN,
         DataRight(m.data), Onward(l.data, m.data), NEW q, NEW ret
  PROVE  Proceeds(l, Free(m, q), w, ret)
<1> DEFINE n == Free(m, q)
<1>1. Freed(m, n, q)
  BY FreeFrees DEF OtherData
<1> HIDE DEF n
<1>2. Proceeds(l, n, w, ret)
  BY <1>1 DEF Freed, Proceeds, Same, OtherData, Right
<1> QED BY <1>2 DEF n

(* The call moves an iterator.                                             *)
LEMMA MovingProceeds ==
  ASSUME NEW l, NEW w, Right(l, w), NEW m, OtherData(l, m, m.data), m.leaked \in BOOLEAN,
         DataRight(m.data), Onward(l.data, m.data), NEW q \in Iterators(l),
         NEW n, NEW obj, Altered(m, n, q, obj), obj.kind # "ccache", NEW ret,
         ObjectRight(m, obj, (w[q] \ ret[q]) \cap Items(m, obj))
  PROVE  Proceeds(l, n, w, ret)
<1>1. ObjectRight(n, n.heap[q], (w[q] \ ret[q]) \cap Items(n, n.heap[q]))
  BY ObjectsSeeData DEF Altered
<1>2. Moved(l, n, q, w, ret)
  BY <1>1 DEF Moved, Altered, Iterators, OtherData
<1>3. \A x \in DOMAIN n.heap \ {q} : Same(l, n, x)
  BY DEF Same, Altered, OtherData
<1> QED BY <1>2, <1>3 DEF Proceeds, Altered, OtherData, Right

(* What is kept of a result.                                               *)
LEMMA KeptOfResults ==
  ASSUME NEW l, NEW err, NEW obj
  PROVE  /\ Kept(Result(l, err)) = l /\ Result(l, err).err = err
         /\ Kept(Given(l, obj)) = Make(l, obj) /\ Given(l, obj).err = "CC_NOERROR"
         /\ Given(l, obj).ptr = NewPointer(l) /\ Given(l, obj).lib = Make(l, obj)
  BY DEF Kept, Result, Given

(***************************************************************************)
(* The calls.                                                              *)
(***************************************************************************)
Done(l, r, w, ret) == Proceeds(l, Kept(r), w, ret) /\ Method(l.data, Kept(r).data)

(* A call that fails before it does anything, or only reads.               *)
LEMMA NothingDone ==
  ASSUME NEW l, NEW w, Right(l, w), NEW err, NEW ret
  PROVE  Done(l, Result(l, err), w, ret)
  BY NothingProceeds, KeptOfResults DEF Done, Method

(* A call that makes a right object is done right.                         *)
LEMMA GivenDone ==
  ASSUME NEW l, NEW w, Right(l, w), Room(l), NEW obj, ObjectRight(l, obj, Items(l, obj)), NEW ret
  PROVE  Done(l, Given(l, obj), w, ret)
<1>1. Proceeds(l, Make(l, obj), w, ret)
  BY NothingProceeds, GivingProceeds DEF Right
<1>2. Make(l, obj).data = l.data
  BY MakeAdds DEF Right, Added
<1> QED BY <1>1, <1>2, KeptOfResults DEF Done, Method

(* A call that frees an object is done right.                              *)
LEMMA FreedDone ==
  ASSUME NEW l, NEW w, Right(l, w), NEW q, NEW ret
  PROVE  Done(l, Result(Free(l, q), "CC_NOERROR"), w, ret)
<1>1. Proceeds(l, Free(l, q), w, ret)
  BY NothingProceeds, FreeingProceeds DEF Right
<1>2. Free(l, q).data = l.data
  BY FreeFrees DEF Right, Freed
<1> QED BY <1>1, <1>2, KeptOfResults DEF Done, Method

(* A call that is a method of the data is done right.                      *)
LEMMA DataDone ==
  ASSUME NEW l, NEW w, Right(l, w), NEW d, Method(l.data, d), NEW err, NEW ret
  PROVE  /\ Done(l, Result(OnData(l, d), err), w, ret)
         /\ Done(l, Result([OnData(l, d) EXCEPT !.leaked = TRUE], err), w, ret)
<1> DEFINE m == OnData(l, d)
           n == [OnData(l, d) EXCEPT !.leaked = TRUE]
<1>0. DataRight(d) /\ Onward(l.data, d)
  BY MethodRight DEF Right
<1>1. /\ OtherData(l, m, d) /\ m.data = d /\ m.leaked \in BOOLEAN
      /\ OtherData(l, n, d) /\ n.data = d /\ n.leaked \in BOOLEAN
  BY OnDataDoes DEF Right, OtherData
<1> HIDE DEF m, n
<1>2. Proceeds(l, m, w, ret) /\ Proceeds(l, n, w, ret)
  BY <1>0, <1>1, DataProceeds
<1>3. Done(l, Result(m, err), w, ret) /\ Done(l, Result(n, err), w, ret)
  BY <1>1, <1>2, KeptOfResults DEF Done
<1> QED BY <1>3 DEF m, n

(* cc_open is done right.                                                  *)
LEMMA OpenDone ==
  ASSUME NEW l, NEW w, Right(l, w), Room(l), NEW n \in Name, NEW v \in Version, NEW ret
  PROVE  Done(l, CcOpen(l, n, v), w, ret)
<1> DEFINE c == FindCCache(l.data, n)
           obj == [kind |-> "ccache", id |-> c, version |-> v]
<1>1. CASE ~Known(l.data, n) \/ ~Has(l, c, v)
  BY <1>1, NothingDone DEF CcOpen
<1>2. CASE Known(l.data, n) /\ Has(l, c, v)
  <2>1. c \in DOMAIN l.data.cache
    BY <1>2, FindsLive DEF Right, DataRight
  <2>2. c \in CacheId /\ c < l.data.nextCache
    BY <2>1, IdsInBounds DEF Right, DataRight, Good, Below
  <2> HIDE DEF c
  <2>3. RefRight(l, obj)
    BY <1>2, <2>2 DEF RefRight, CacheRef
  <2>4. CcOpen(l, n, v) = Given(l, obj)
    BY <1>2 DEF CcOpen, c
  <2> QED BY <2>3, <2>4, GivenDone DEF ObjectRight
<1> QED BY <1>1, <1>2

(* cc_create is done right.                                                *)
LEMMA CreateDone ==
  ASSUME NEW l, NEW w, Right(l, w), Room(l), RoomForCache(l.data),
         NEW n \in Name, NEW v \in Version, NEW p \in Principal, NEW ret
  PROVE  Done(l, CcCreate(l, n, v, p), w, ret)
<1> DEFINE made == CreateCCache(l.data, n, v, p)
           m == OnData(l, made.d)
           obj == [kind |-> "ccache", id |-> made.id, version |-> v]
<1>1. /\ DataRight(made.d) /\ Onward(l.data, made.d)
      /\ made.id \in CacheId /\ made.id < made.d.nextCache
      /\ made.d.cache[made.id].principal[v] # None
  BY CreateCCacheRight DEF Right
<1>2. Method(l.data, made.d)
  BY DEF Method
<1>3. CcCreate(l, n, v, p) = Given(m, obj)
  BY DEF CcCreate
<1>4. OtherData(l, m, made.d) /\ m.leaked \in BOOLEAN
  BY OnDataDoes DEF Right
<1> HIDE DEF made, m
<1>5. m.data = made.d
  BY <1>4 DEF OtherData
<1>6. RefRight(m, obj)
  BY <1>1, <1>5 DEF RefRight, CacheRef, Has
<1>7. Proceeds(l, Make(m, obj), w, ret)
  BY <1>1, <1>4, <1>5, <1>6, GivingProceeds DEF ObjectRight
<1>8. Make(m, obj).data = made.d
  BY <1>4, <1>5, MakeAdds DEF Right, Added, OtherData, Room
<1> QED BY <1>2, <1>3, <1>7, <1>8, KeptOfResults DEF Done

(* The references are those of the heap.                                   *)
References(l) == { q \in DOMAIN l.heap : l.heap[q].kind = "ccache" }

(* A held reference is a right one.                                        *)
LEMMA ReferencesAreRight ==
  ASSUME NEW l, NEW w, Right(l, w), NEW q \in References(l)
  PROVE  RefRight(l, l.heap[q])
  BY DEF References, Right, ObjectRight, NCsRight, CredsRight, NCsIt, CredsIt

(* cc_destroy is done right.                                               *)
LEMMA DestroyDone ==
  ASSUME NEW l, NEW w, Right(l, w), NEW q \in References(l), NEW ret
  PROVE  Done(l, CcDestroy(l, q), w, ret)
<1> DEFINE c == l.heap[q].id
           d == Destroy(l.data, c)
           m == OnData(l, d)
<1>1. CASE ~Live(l.data, c)
  BY <1>1, NothingDone DEF CcDestroy
<1>2. CASE Live(l.data, c)
  <2>1. DataRight(d) /\ Onward(l.data, d)
    BY <1>2, DestroyRight DEF Right, Live
  <2>2. Method(l.data, d)
    BY <1>2 DEF Method, Live
  <2>3. CcDestroy(l, q) = Result(Free(m, q), "CC_NOERROR")
    BY <1>2 DEF CcDestroy
  <2>4. OtherData(l, m, d) /\ m.leaked \in BOOLEAN
    BY OnDataDoes DEF Right
  <2> HIDE DEF d, m
  <2>5. m.data = d
    BY <2>4 DEF OtherData
  <2>6. Proceeds(l, Free(m, q), w, ret)
    BY <2>1, <2>4, <2>5, FreeingProceeds
  <2>7. Free(m, q).data = d
    BY <2>4, <2>5, FreeFrees DEF Freed, OtherData
  <2> QED BY <2>2, <2>3, <2>6, <2>7, KeptOfResults DEF Done
<1> QED BY <1>1, <1>2

(* cc_set_principal is done right.                                         *)
LEMMA SetPrincipalDone ==
  ASSUME NEW l, NEW w, Right(l, w), NEW q \in References(l),
         NEW v \in Version, NEW p \in Principal, NEW ret
  PROVE  Done(l, CcSetPrincipal(l, q, v, p), w, ret)
<1> DEFINE c == l.heap[q].id
           d == CompatSetPrincipal(l.data, c, v, p)
<1>1. CASE ~Live(l.data, c)
  BY <1>1, NothingDone DEF CcSetPrincipal
<1>2. CASE Live(l.data, c)
  <2>1. Method(l.data, d)
    BY <1>2 DEF Method, Live
  <2>2. CcSetPrincipal(l, q, v, p) = Result(OnData(l, d), "CC_NOERROR")
    BY <1>2 DEF CcSetPrincipal
  <2> QED BY <2>1, <2>2, DataDone
<1> QED BY <1>1, <1>2

(* cc_store is done right.                                                 *)
LEMMA StoreDone ==
  ASSUME NEW l, NEW w, Right(l, w), RoomForCred(l.data), NEW q \in References(l),
         NEW new \in Creds, NEW ret
  PROVE  Done(l, CcStore(l, q, new), w, ret)
<1> DEFINE c == l.heap[q].id
           d == StoreCredentials(l.data, c, new)
<1>1. CASE ~Live(l.data, c)
  BY <1>1, NothingDone DEF CcStore
<1>2. CASE Live(l.data, c)
  <2>1. Method(l.data, d)
    BY <1>2 DEF Method, Live
  <2>2. CcStore(l, q, new) = Result(OnData(l, d), "CC_NOERROR")
    BY <1>2 DEF CcStore
  <2> QED BY <2>1, <2>2, DataDone
<1> QED BY <1>1, <1>2

(* cc_remove_cred is done right.                                           *)
LEMMA RemoveCredDone ==
  ASSUME NEW l, NEW w, Right(l, w), NEW q \in References(l), NEW old \in Creds, NEW ret
  PROVE  Done(l, CcRemoveCred(l, q, old), w, ret)
<1>1. PICK d, err : /\ Method(l.data, d)
                    /\ CcRemoveCred(l, q, old) \in
                         { Result(l, err), Result([OnData(l, d) EXCEPT !.leaked = TRUE], err) }
  BY RemoveCredIsMethod DEF Right
<1> QED BY <1>1, NothingDone, DataDone

(* cc_seq_fetch_creds_begin is done right.                                 *)
LEMMA CredsBeginDone ==
  ASSUME NEW l, NEW w, Right(l, w), Room(l), NEW q \in References(l), NEW ret
  PROVE  Done(l, CcCredsBegin(l, q), w, ret)
<1> DEFINE r == l.heap[q]
           c == r.id
           obj == [kind |-> "creds", id |-> c, set |-> l.data.cache[c].creds,
                   pos |-> 1, version |-> r.version]
<1>1. CASE ~Live(l.data, c)
  BY <1>1, NothingDone DEF CcCredsBegin
<1>2. CASE Live(l.data, c)
  <2>1. c \in CacheId /\ r.version \in Version /\ c < l.data.nextCache
    BY ReferencesAreRight DEF RefRight, CacheRef
  <2>2. l.data.cache[c].creds \in Seq(CredId)
    BY <1>2, CredsAreLive DEF Live, Right
  <2>3. CcCredsBegin(l, q) = Given(l, obj)
    BY <1>2 DEF CcCredsBegin
  <2> HIDE DEF c, r
  <2>4. obj \in CredsIt
    BY <2>1, <2>2 DEF CredsIt
  <2>5. \A k \in Items(l, obj) : \E i \in 1 .. Len(obj.set) : obj.set[i] = k
    BY <2>2 DEF Items, ToSet
  <2> HIDE DEF obj
  <2>6. obj.pos = 1 /\ obj.id = c /\ obj.version = r.version
    BY DEF obj
  <2>7. CredsRight(l, obj, Items(l, obj))
    BY <2>1, <2>4, <2>5, <2>6 DEF CredsRight
  <2> QED BY <2>3, <2>7, GivenDone DEF ObjectRight
<1> QED BY <1>1, <1>2

(* cc_seq_fetch_NCs_begin is done right.                                   *)
LEMMA NCsBeginDone ==
  ASSUME NEW l, NEW w, Right(l, w), Room(l), NEW ret
  PROVE  Done(l, CcNCsBegin(l), w, ret)
<1> DEFINE obj == [kind |-> "ncs", set |-> l.data.order, pos |-> 1, repeat |-> 0]
<1>1. l.data.order \in Seq(CacheId)
  BY OrderIsTyped DEF Right
<1>2. CcNCsBegin(l) = Given(l, obj)
  BY DEF CcNCsBegin
<1>3. obj \in NCsIt /\ obj.pos = 1 /\ obj.repeat = 0
  BY <1>1 DEF NCsIt
<1>4. \A e \in Items(l, obj) : \E i \in 1 .. Len(obj.set) : obj.set[i] = e[1]
  BY <1>1 DEF Items, ToSet
<1> HIDE DEF obj
<1>5. NCsRight(l, obj, Items(l, obj))
  BY <1>3, <1>4 DEF NCsRight
<1> QED BY <1>2, <1>5, GivenDone DEF ObjectRight

(***************************************************************************)
(* The iterator over caches.                                               *)
(***************************************************************************)
Visitors(l) == { q \in DOMAIN l.heap : l.heap[q].kind = "ncs" }

(* A held iterator over caches is a right one.                             *)
LEMMA VisitorsAreRight ==
  ASSUME NEW l, NEW w, Right(l, w), NEW q \in Visitors(l)
  PROVE  NCsRight(l, l.heap[q], w[q]) /\ q \in Iterators(l) /\ q \in DOMAIN l.heap
  BY DEF Visitors, Right, ObjectRight, RefRight, CredsRight, CacheRef, CredsIt, Iterators

(* it is a visitor whose position is at a cache it has not visited, and    *)
(* what it owes, if still there, is not behind.                            *)
AtNew(l, it, owe) ==
  /\ it \in NCsIt /\ it.pos \in 1 .. Len(it.set)
  /\ \A e \in owe \cap Items(l, it) : \E i \in it.pos .. Len(it.set) : it.set[i] = e[1]

(* Once the cache at the position is visited, its other version is owed.   *)
LEMMA VisitIsRight ==
  ASSUME NEW l, NEW it, NEW owe, AtNew(l, it, owe), NEW returned, NEW o,
         o = [it EXCEPT !.repeat = 1],
         LET c == it.set[it.pos] IN Live(l.data, c) => <<c, OwnMode(l, c)>> \in returned
  PROVE  NCsRight(l, o, (owe \ returned) \cap Items(l, o))
<1>1. /\ o \in NCsIt /\ o.pos = it.pos /\ o.set = it.set /\ o.repeat = 1 /\ o.pos >= 1
      /\ o.kind = "ncs" /\ it.kind = "ncs"
  BY DEF AtNew, NCsIt
<1>2. Items(l, o) = Items(l, it)
  BY <1>1 DEF Items
<1> SUFFICES ASSUME NEW e \in owe \ returned, e \in Items(l, o)
             PROVE  \E i \in o.pos .. Len(o.set) :
                       /\ o.set[i] = e[1]
                       /\ i = o.pos /\ o.repeat = 1 => e[2] = "v5" /\ Has(l, e[1], "v4")
  BY <1>1 DEF NCsRight
<1>3. PICK i \in it.pos .. Len(it.set) : it.set[i] = e[1]
  BY <1>2 DEF AtNew
<1>4. e = <<e[1], e[2]>> /\ e[2] \in Version /\ Live(l.data, e[1]) /\ Has(l, e[1], e[2])
  BY <1>1 DEF Items
<1>5. ASSUME i = o.pos
      PROVE  e[2] = "v5" /\ Has(l, e[1], "v4")
  <2>1. e # <<e[1], OwnMode(l, e[1])>>
    BY <1>1, <1>3, <1>4, <1>5
  <2> QED BY <1>4, <2>1 DEF OwnMode, Version
<1> QED BY <1>1, <1>3, <1>5

(* m is l, or l with the visitor at q advanced.                            *)
LEMMA OpenCurrentDone ==
  ASSUME NEW l, NEW w, Right(l, w), NEW q \in Visitors(l), NEW m, NEW it,
         Altered(l, m, q, it), AtNew(l, it, w[q]), Room(l),
         NEW ret, ret[q] = Returned(OpenCurrent(m, q))
  PROVE  Done(l, OpenCurrent(m, q), w, ret)
<1> DEFINE c   == it.set[it.pos]
           o   == [it EXCEPT !.repeat = 1]
           l1  == [m EXCEPT !.heap[q].repeat = 1]
           obj == [kind |-> "ccache", id |-> c, version |-> OwnMode(m, c)]
           bad == [kind |-> "ccache", id |-> c, version |-> "both"]
           r   == OpenCurrent(m, q)
           p   == NewPointer(l1)
<1>0. /\ m.data = l.data /\ m.heap[q] = it /\ LibFormed(m) /\ m.leaked = l.leaked
      /\ q \in DOMAIN m.heap /\ DOMAIN m.heap = DOMAIN l.heap
      /\ q \in DOMAIN l.heap /\ q \in Iterators(l) /\ DOMAIN l.heap \subseteq Pointer
  BY VisitorsAreRight DEF Altered, Right
<1>1. Altered(m, l1, q, o)
  <2>1. l1 = [m EXCEPT !.heap[q] = o]
    BY <1>0 DEF LibFormed
  <2> QED BY <1>0, <2>1, AlterDoes
<1>2. r = IF Live(m.data, c) THEN Given(l1, obj) ELSE [Given(l1, bad) EXCEPT !.err = "CC_NO_EXIST"]
  BY <1>0 DEF OpenCurrent
<1>3. /\ o \in NCsIt /\ o.kind = "ncs" /\ c \in CacheId
  BY DEF AtNew, NCsIt
<1> HIDE DEF l1, r, o, c
<1>4. /\ LibFormed(l1) /\ DOMAIN l1.heap = DOMAIN l.heap /\ l1.data = l.data
      /\ l1.leaked \in BOOLEAN
      /\ l1.heap[q] = o /\ \A x \in DOMAIN l.heap \ {q} : l1.heap[x] = l.heap[x]
  BY <1>0, <1>1 DEF Altered, Right
<1>5. Room(l1) /\ DOMAIN l1.heap \subseteq Pointer
  BY <1>0, <1>4 DEF Room
<1>6. ASSUME NEW n, n.data = l.data, n.heap[q] = o, q \in DOMAIN n.heap,
             Live(l.data, c) => <<c, OwnMode(m, c)>> \in ret[q]
      PROVE  Moved(l, n, q, w, ret)
  <2>1. OwnMode(m, c) = OwnMode(l, c)
    BY <1>0 DEF OwnMode, Has
  <2>2. NCsRight(l, o, (w[q] \ ret[q]) \cap Items(l, o))
    BY <1>6, <2>1, VisitIsRight DEF c, o
  <2>3. ObjectRight(n, o, (w[q] \ ret[q]) \cap Items(n, o))
    BY <1>6, <2>2, ObjectsSeeData DEF ObjectRight
  <2>4. q \in Iterators(n)
    BY <1>3, <1>6 DEF Iterators
  <2> QED BY <1>0, <1>6, <2>3, <2>4 DEF Moved
<1>7. CASE Live(m.data, c)
  <2> DEFINE n == Make(l1, obj)
  <2>1. Added(l1, n, p, obj)
    BY <1>4, <1>5, MakeAdds
  <2>2. r = Given(l1, obj) /\ Kept(r) = n
    BY <1>2, <1>7, KeptOfResults
  <2>3. r = [lib |-> n, err |-> "CC_NOERROR", ptr |-> p]
    BY <2>2 DEF Given
  <2> HIDE DEF n, p
  <2>4. Returned(r) = { <<obj.id, obj.version>> }
    <3>1. n.heap[p] = obj
      BY <2>1 DEF Added
    <3> HIDE DEF obj
    <3> QED BY <2>3, <3>1 DEF Returned
  <2>5. <<c, OwnMode(m, c)>> \in ret[q]
    BY <2>4 DEF r
  <2>6. RefRight(n, obj)
    <3>1. n.data = l.data
      BY <1>4, <2>1 DEF Added
    <3>2. c < l.data.nextCache /\ \E v \in Version : Has(l, c, v)
      BY <1>0, <1>7 DEF Right, DataRight, Good, Below, Live, Used, Has
    <3>3. OwnMode(m, c) \in Version /\ Has(l, c, OwnMode(m, c))
      BY <1>0, <3>2 DEF OwnMode, Has, Version
    <3> QED BY <1>3, <3>1, <3>2, <3>3 DEF RefRight, CacheRef, Has
  <2>7. Fresh(l, n, p)
    BY <1>4, <2>1, <2>6 DEF Fresh, Added, ObjectRight
  <2>8. Moved(l, n, q, w, ret)
    BY <1>0, <1>4, <1>6, <2>1, <2>5 DEF Added
  <2>9. \A x \in DOMAIN n.heap \ {p, q} : Same(l, n, x)
    BY <1>4, <2>1 DEF Added, Same
  <2>10. Proceeds(l, n, w, ret) /\ Method(l.data, n.data)
    BY <1>0, <1>4, <2>1, <2>7, <2>8, <2>9, NothingProceeds DEF Added, Proceeds, Right, Method
  <2> QED BY <2>2, <2>10 DEF Done, r
<1>8. CASE ~Live(m.data, c)
  <2> DEFINE n1 == Make(l1, bad)
             n2 == Free(n1, p)
             n  == [n2 EXCEPT !.leaked = TRUE]
  <2>1. Added(l1, n1, p, bad)
    BY <1>4, <1>5, MakeAdds
  <2>2. r = [lib |-> n1, err |-> "CC_NO_EXIST", ptr |-> p]
    BY <1>2, <1>8 DEF Given
  <2>3. Kept(r) = n
    <3> HIDE DEF n1, p
    <3> QED BY <2>2 DEF Kept
  <2> HIDE DEF n1, p
  <2>4. Freed(n1, n2, p)
    BY <2>1, FreeFrees DEF Added
  <2> HIDE DEF n2
  <2>5. /\ LibFormed(n) /\ n.data = n2.data /\ n.heap = n2.heap /\ n.leaked = TRUE
    BY <2>4 DEF Freed, LibFormed, LibFields
  <2> HIDE DEF n
  <2>6. /\ DOMAIN n.heap = DOMAIN l.heap /\ n.data = l.data
        /\ n.heap[q] = o /\ \A x \in DOMAIN l.heap \ {q} : n.heap[x] = l.heap[x]
    <3>1. DOMAIN n.heap = DOMAIN l1.heap /\ n.data = l1.data
      BY <2>1, <2>4, <2>5 DEF Added, Freed
    <3>2. \A x \in DOMAIN l1.heap : n.heap[x] = l1.heap[x]
      BY <2>1, <2>4, <2>5 DEF Added, Freed
    <3> QED BY <1>0, <1>4, <3>1, <3>2
  <2>7. Moved(l, n, q, w, ret)
    BY <1>0, <1>6, <1>8, <2>6
  <2>8. \A x \in DOMAIN n.heap \ {q} : Same(l, n, x)
    BY <2>6 DEF Same
  <2>9. Proceeds(l, n, w, ret) /\ Method(l.data, n.data)
    BY <1>0, <2>5, <2>6, <2>7, <2>8, NothingProceeds DEF Proceeds, Right, Method
  <2> QED BY <2>3, <2>9 DEF Done, r
<1> QED BY <1>7, <1>8

(* cc_seq_fetch_NCs_next is done right: what it returns is no longer owed. *)
LEMMA NCsNextDone ==
  ASSUME NEW l, NEW w, Right(l, w), Room(l), NEW q \in Visitors(l),
         NEW ret, ret[q] = Returned(CcNCsNext(l, q))
  PROVE  Done(l, CcNCsNext(l, q), w, ret)
<1> DEFINE it == l.heap[q]
           c  == it.set[it.pos]
           o  == [it EXCEPT !.pos = @ + 1]
           l1 == [l EXCEPT !.heap[q].pos = @ + 1]
<1>1. /\ NCsRight(l, it, w[q]) /\ q \in Iterators(l) /\ q \in DOMAIN l.heap
      /\ LibFormed(l) /\ l.leaked \in BOOLEAN
  BY VisitorsAreRight DEF Right
<1>2. /\ it \in NCsIt /\ it.pos \in Nat /\ it.pos >= 1 /\ it.set \in Seq(CacheId)
      /\ Len(it.set) \in Nat /\ it.repeat \in {0, 1}
  <2>1. it \in NCsIt /\ it.pos >= 1
    BY <1>1 DEF NCsRight
  <2> HIDE DEF it
  <2> QED BY <2>1 DEF NCsIt
<1>3. CASE it.pos > Len(it.set)
  <2>1. CcNCsNext(l, q) = Result(l, "CC_END")
    BY <1>2, <1>3 DEF CcNCsNext
  <2> QED BY <2>1, NothingDone
<1>4. CASE it.pos <= Len(it.set) /\ it.repeat = 0
  <2>1. CcNCsNext(l, q) = OpenCurrent(l, q)
    BY <1>2, <1>4 DEF CcNCsNext
  <2>2. Altered(l, l, q, it)
    BY <1>1 DEF Altered
  <2>3. AtNew(l, it, w[q])
    BY <1>1, <1>2, <1>4 DEF AtNew, NCsRight
  <2> QED BY <2>1, <2>2, <2>3, OpenCurrentDone
<1>5. CASE it.pos <= Len(it.set) /\ it.repeat = 1
  <2>1. CASE Live(l.data, c) /\ Dual(l, c)
    <3> DEFINE obj == [kind |-> "ccache", id |-> c, version |-> "v5"]
    <3>1. CcNCsNext(l, q) = Given(l, obj)
      BY <1>2, <1>5, <2>1 DEF CcNCsNext
    <3>2. c \in CacheId /\ c < l.data.nextCache /\ Has(l, c, "v5")
      BY <1>2, <1>5, <2>1 DEF Right, DataRight, Good, Below, Live, Dual, Version
    <3>3. RefRight(l, obj)
      BY <3>2 DEF RefRight, CacheRef, Version
    <3> QED BY <3>1, <3>3, GivenDone DEF ObjectRight
  <2>2. CASE ~(Live(l.data, c) /\ Dual(l, c))
    <3>1. Altered(l, l1, q, o)
      <4>1. l1 = [l EXCEPT !.heap[q] = o]
        BY <1>1 DEF LibFormed
      <4> QED BY <1>1, <4>1, AlterDoes
    <3>2. o \in NCsIt /\ o.pos = it.pos + 1 /\ o.set = it.set /\ o.kind = it.kind
      BY <1>2 DEF NCsIt
    <3>3. Items(l, o) = Items(l, it)
      BY <1>2, <3>2 DEF Items, NCsIt
    <3>4. ASSUME NEW e \in w[q]
          PROVE  /\ e \in Items(l, it)
                 /\ \E i \in o.pos .. Len(o.set) : o.set[i] = e[1]
      <4>1. e \in Items(l, it) /\ it.kind = "ncs"
        BY <1>1 DEF NCsRight, NCsIt
      <4>2. PICK i \in it.pos .. Len(it.set) :
              /\ it.set[i] = e[1]
              /\ i = it.pos => e[2] = "v5" /\ Has(l, e[1], "v4")
        BY <1>1, <1>5 DEF NCsRight
      <4>3. Live(l.data, e[1]) /\ Has(l, e[1], e[2])
        BY <4>1 DEF Items
      <4>4. i # it.pos
        BY <2>2, <4>2, <4>3 DEF Dual, Version
      <4>5. i \in o.pos .. Len(o.set) /\ it.pos < Len(it.set)
        BY <1>2, <3>2, <4>2, <4>4
      <4> QED BY <3>2, <4>1, <4>2, <4>5
    <3>5. CASE it.pos = Len(it.set)
      <4>1. CcNCsNext(l, q) = Result(l1, "CC_END")
        BY <1>2, <1>5, <2>2, <3>5 DEF CcNCsNext
      <4>2. w[q] = {}
        BY <1>2, <3>2, <3>4, <3>5
      <4> HIDE DEF l1, o
      <4>3. ObjectRight(l, o, (w[q] \ ret[q]) \cap Items(l, o)) /\ o.kind # "ccache"
        BY <1>2, <3>2, <4>2 DEF ObjectRight, NCsRight, NCsIt
      <4>4. Proceeds(l, l1, w, ret)
        BY <1>1, <3>1, <4>3, NothingProceeds, MovingProceeds DEF Right
      <4> QED BY <3>1, <4>1, <4>4, KeptOfResults DEF Done, Method, Altered
    <3>6. CASE it.pos < Len(it.set)
      <4>1. CcNCsNext(l, q) = OpenCurrent(l1, q)
        BY <1>2, <1>5, <2>2, <3>6 DEF CcNCsNext
      <4>2. AtNew(l, o, w[q])
        BY <1>2, <3>2, <3>3, <3>4, <3>6 DEF AtNew
      <4> QED BY <3>1, <4>1, <4>2, OpenCurrentDone
    <3> QED BY <1>2, <1>5, <3>5, <3>6
  <2> QED BY <2>1, <2>2
<1> QED BY <1>2, <1>3, <1>4, <1>5

(***************************************************************************)
(* The iterator over credentials.                                          *)
(***************************************************************************)
Walkers(l) == { q \in DOMAIN l.heap : l.heap[q].kind = "creds" }

(* A held iterator over credentials is a right one.                        *)
LEMMA WalkersAreRight ==
  ASSUME NEW l, NEW w, Right(l, w), NEW q \in Walkers(l)
  PROVE  CredsRight(l, l.heap[q], w[q]) /\ q \in Iterators(l) /\ q \in DOMAIN l.heap
  BY DEF Walkers, Right, ObjectRight, RefRight, NCsRight, CacheRef, NCsIt, Iterators

(* The walker advances behind stop: nothing before stop is owed, and what  *)
(* is at stop is returned or gone.                                         *)
LEMMA WalkIsRight ==
  ASSUME NEW l, NEW w, Right(l, w), NEW q \in Walkers(l), NEW stop \in Nat,
         NEW m, OtherData(l, m, m.data), m.leaked \in BOOLEAN,
         m.data = l.data \/ m.data = Pin(l.data), NEW ret,
         LET it == l.heap[q]
         IN  \A i \in it.pos .. Len(it.set) :
               i <= stop => it.set[i] \notin (w[q] \ ret[q]) \cap Items(m, it)
  PROVE  LET n == [m EXCEPT !.heap[q].pos = stop + 1]
         IN  Proceeds(l, n, w, ret) /\ Method(l.data, n.data)
<1> DEFINE it == l.heap[q]
           o  == [it EXCEPT !.pos = stop + 1]
           n  == [m EXCEPT !.heap[q].pos = stop + 1]
<1>1. /\ CredsRight(l, it, w[q]) /\ q \in Iterators(l) /\ q \in DOMAIN l.heap
      /\ LibFormed(m) /\ m.heap = l.heap /\ DataRight(l.data)
  BY WalkersAreRight DEF OtherData, Right
<1>2. DataRight(m.data) /\ Onward(l.data, m.data) /\ Method(l.data, m.data)
  BY <1>1, StampsRight, NothingProceeds DEF Method
<1>3. Altered(m, n, q, o)
  <2>1. n = [m EXCEPT !.heap[q] = o]
    BY <1>1 DEF LibFormed
  <2> QED BY <1>1, <2>1, AlterDoes
<1>4. ObjectRight(m, it, w[q] \cap Items(m, it))
  <2>1. ObjectRight(l, it, w[q])
    BY <1>1 DEF ObjectRight
  <2> HIDE DEF it
  <2> QED BY <1>1, <1>2, <2>1, UnmovedStaysRight
<1>5. it.kind = "creds" /\ it \in CredsIt /\ it.pos \in Nat /\ it.set \in Seq(CredId)
  <2>1. it \in CredsIt
    BY <1>1 DEF CredsRight
  <2> HIDE DEF it
  <2> QED BY <2>1 DEF CredsIt
<1>6. CredsRight(m, it, w[q] \cap Items(m, it))
  BY <1>4, <1>5 DEF ObjectRight, RefRight, NCsRight, CacheRef, NCsIt
<1>7. /\ o \in CredsIt /\ o.kind = "creds" /\ o.pos = stop + 1 /\ o.set = it.set
      /\ o.id = it.id /\ o.version = it.version
  <2> HIDE DEF it
  <2> QED BY <1>5 DEF CredsIt
<1>8. Items(m, o) = Items(m, it)
  BY <1>5, <1>7 DEF Items
<1>9. \A i \in it.pos .. Len(it.set) :
        i <= stop => it.set[i] \notin (w[q] \ ret[q]) \cap Items(m, it)
  OBVIOUS
<1> HIDE DEF o, n, it
<1>10. ASSUME NEW k \in (w[q] \ ret[q]) \cap Items(m, o)
       PROVE  k \in Items(m, o) /\ \E i \in o.pos .. Len(o.set) : o.set[i] = k
  <2>1. PICK i \in it.pos .. Len(it.set) : it.set[i] = k
    BY <1>6, <1>8, <1>10 DEF CredsRight
  <2>2. Len(it.set) \in Nat /\ i > stop
    BY <1>5, <1>8, <1>9, <1>10, <2>1
  <2> QED BY <1>5, <1>7, <1>10, <2>1, <2>2
<1>11. CredsRight(m, o, (w[q] \ ret[q]) \cap Items(m, o))
  BY <1>6, <1>7, <1>10 DEF CredsRight
<1>12. Proceeds(l, n, w, ret)
  BY <1>1, <1>2, <1>3, <1>7, <1>11, MovingProceeds DEF ObjectRight
<1>13. n.data = m.data
  BY <1>3 DEF Altered
<1> QED BY <1>2, <1>12, <1>13 DEF n

(* cc_seq_fetch_creds_next is done right: what it returns is no longer owed. *)
LEMMA CredsNextDone ==
  ASSUME NEW l, NEW w, Right(l, w), NEW q \in Walkers(l),
         NEW ret, ret[q] = Returned(CcCredsNext(l, q))
  PROVE  Done(l, CcCredsNext(l, q), w, ret)
<1> DEFINE it   == l.heap[q]
           rest == it.pos .. Len(it.set)
           gone == { i \in rest : it.set[i] \notin DOMAIN l.data.cred }
           mine == { i \in rest \ gone : it.version \in {"both", l.data.cred[it.set[i]].version} }
           stop == CHOOSE i \in gone \cup mine : \A j \in gone \cup mine : i <= j
           l1   == IF rest = {} THEN l ELSE OnData(l, Pin(l.data))
           r    == CcCredsNext(l, q)
<1>1. /\ CredsRight(l, it, w[q]) /\ LibFormed(l) /\ l.leaked \in BOOLEAN /\ DataRight(l.data)
  BY WalkersAreRight DEF Right
<1>2. it.pos \in Nat /\ it.pos >= 1 /\ it.set \in Seq(CredId) /\ Len(it.set) \in Nat /\ it.kind = "creds"
  <2>1. it \in CredsIt /\ it.pos >= 1
    BY <1>1 DEF CredsRight
  <2> HIDE DEF it
  <2> QED BY <2>1 DEF CredsIt
<1>3. /\ OtherData(l, l1, l1.data) /\ l1.leaked \in BOOLEAN
      /\ l1.data = l.data \/ l1.data = Pin(l.data)
      /\ l1.data.cred = l.data.cred
  <2>1. Pin(l.data).cred = l.data.cred
    BY <1>1, StampsDo DEF DataRight, Good
  <2>2. OtherData(l, OnData(l, Pin(l.data)), Pin(l.data)) /\ OnData(l, Pin(l.data)).leaked = l.leaked
    BY <1>1, OnDataDoes
  <2>3. OtherData(l, l, l.data)
    BY <1>1 DEF OtherData
  <2> QED BY <1>1, <2>1, <2>2, <2>3 DEF OtherData
<1>4. DataRight(l1.data)
  BY <1>1, <1>3, StampsRight
(* What is owed is live and of the version of the iterator.                *)
<1>5. ASSUME NEW i \in rest, it.set[i] \in Items(l1, it)
      PROVE  i \in mine
  <2>1. /\ Live(l1.data, it.id) /\ it.set[i] \in ToSet(l1.data.cache[it.id].creds)
        /\ it.version = l.data.cred[it.set[i]].version
    BY <1>2, <1>3, <1>5 DEF Items
  <2>2. it.set[i] \in DOMAIN l.data.cred
    BY <1>3, <1>4, <2>1, CredsAreLive DEF Live
  <2> QED BY <2>1, <2>2
<1>6. CASE gone \cup mine = {}
  <2> DEFINE n == [l1 EXCEPT !.heap[q].pos = Len(it.set) + 1]
  <2>1. r = Result(n, "CC_END")
    BY <1>6 DEF CcCredsNext
  <2>2. Proceeds(l, n, w, ret) /\ Method(l.data, n.data)
    <3>1. \A i \in rest : it.set[i] \notin Items(l1, it)
      BY <1>5, <1>6
    <3> HIDE DEF l1
    <3> QED BY <1>2, <1>3, <3>1, WalkIsRight
  <2> HIDE DEF n, r
  <2>3. Done(l, r, w, ret)
    BY <2>1, <2>2, KeptOfResults DEF Done
  <2> QED BY <2>3 DEF r
<1>7. CASE gone \cup mine # {}
  <2> DEFINE n == [l1 EXCEPT !.heap[q].pos = stop + 1]
  <2>0. stop \in gone \cup mine /\ \A j \in gone \cup mine : stop <= j
    <3>1. gone \cup mine \in SUBSET Nat
      <4> HIDE DEF it
      <4> QED BY <1>2
    <3> HIDE DEF gone, mine
    <3>2. PICK i \in gone \cup mine : TRUE
      BY <1>7
    <3> QED BY <3>1, <3>2, LeastNat
  <2>1. stop \in rest /\ stop \in Nat
    <3>1. stop \in rest
      <4> HIDE DEF stop, rest
      <4> QED BY <2>0
    <3> HIDE DEF stop, it
    <3> QED BY <1>2, <3>1
  <2>2. \A i \in rest : i < stop => it.set[i] \notin Items(l1, it)
    <3> HIDE DEF stop, l1, it
    <3>1. \A i \in rest : i < stop => i \notin mine
      BY <1>2, <2>0, <2>1
    <3> QED BY <1>5, <3>1
  <2>3. CASE stop \in gone
    <3>1. r = Result(n, "CC_NOTFOUND")
      BY <1>7, <2>3 DEF CcCredsNext
    <3>2. \A i \in rest : i <= stop => it.set[i] \notin Items(l1, it)
      <4>1. it.set[stop] \notin Items(l1, it)
        BY <1>5, <2>1, <2>3
      <4> HIDE DEF stop, l1, it
      <4> QED BY <1>2, <2>1, <2>2, <4>1
    <3>3. Proceeds(l, n, w, ret) /\ Method(l.data, n.data)
      <4> HIDE DEF stop, l1
      <4> QED BY <1>3, <2>1, <3>2, WalkIsRight
    <3> HIDE DEF n, r
    <3>4. Done(l, r, w, ret)
      BY <3>1, <3>3, KeptOfResults DEF Done
    <3> QED BY <3>4 DEF r
  <2>4. CASE stop \notin gone
    <3>1. r = [lib |-> n, err |-> "CC_NOERROR", cred |-> it.set[stop]]
      BY <1>7, <2>4 DEF CcCredsNext
    <3>2. Kept(r) = n /\ ret[q] = { it.set[stop] }
      <4>1. ret[q] = Returned(r)
        OBVIOUS
      <4> HIDE DEF n, stop, it, r
      <4> QED BY <3>1, <4>1 DEF Kept, Returned
    <3>3. \A i \in rest : i <= stop => it.set[i] \notin (w[q] \ ret[q]) \cap Items(l1, it)
      <4> HIDE DEF stop, l1, it
      <4> QED BY <1>2, <2>1, <2>2, <3>2
    <3>4. Proceeds(l, n, w, ret) /\ Method(l.data, n.data)
      <4> HIDE DEF stop, l1
      <4> QED BY <1>3, <2>1, <3>3, WalkIsRight
    <3> QED BY <3>2, <3>4 DEF Done
  <2> QED BY <2>3, <2>4
<1> QED BY <1>6, <1>7

(***************************************************************************)
(* The callers.                                                            *)
(***************************************************************************)
(* Each call starts on the data without the stamps of the one before.      *)
LEMMA CallIsRight ==
  ASSUME CallsInv
  PROVE  /\ Right(Call, owed)
         /\ Call.heap = lib.heap /\ Call.data = Quiet(lib.data)
         /\ Quiet(lib.data).cache = lib.data.cache
         /\ Quiet(lib.data).nextCache = lib.data.nextCache
<1> DEFINE m == Call
<1>0. Right(lib, owed)
  BY DEF CallsInv
<1>1. OtherData(lib, m, Quiet(lib.data)) /\ m.leaked = lib.leaked
  BY <1>0, OnDataDoes DEF Right, Call
<1>2. DataRight(Quiet(lib.data))
  BY <1>0, StampsRight DEF Right
<1>3. /\ Quiet(lib.data).cache = lib.data.cache /\ Quiet(lib.data).cred = lib.data.cred
      /\ Quiet(lib.data).nextCache = lib.data.nextCache
  BY <1>0, StampsDo DEF Right, DataRight, Good
<1> HIDE DEF m
<1>4. LibFormed(m) /\ m.data = Quiet(lib.data) /\ m.heap = lib.heap
  BY <1>1 DEF OtherData
<1>5. \A o : Items(m, o) = Items(lib, o)
  BY <1>3, <1>4 DEF Items, Has, Live
<1>6. ASSUME NEW o, NEW w, ObjectRight(lib, o, w)
      PROVE  ObjectRight(m, o, w)
  BY <1>3, <1>4, <1>5, <1>6 DEF ObjectRight, RefRight, NCsRight, CredsRight, Has, Live
<1>7. Right(m, owed)
  BY <1>0, <1>1, <1>2, <1>4, <1>6 DEF Right, Iterators
<1> QED BY <1>3, <1>4, <1>7 DEF m

(* What a step keeps, and what it does to the data.                        *)
StepRight ==
  /\ CallsInv'
  /\ Onward(lib.data, lib'.data)
  /\ Method(Quiet(lib.data), lib'.data)

(* A step that finishes a call done right is right.                        *)
LEMMA FinishIsRight ==
  ASSUME CallsInv, NEW r, NEW ret, Done(Call, r, owed, ret), Finish(r, ret)
  PROVE  StepRight
<1> DEFINE m == Kept(r)
<1>1. lib' = m /\ owed' = Owed(m, owed, ret)
  BY DEF Finish, Owed
<1>2. Proceeds(Call, m, owed, ret) /\ Method(Call.data, m.data)
  BY DEF Done
<1> HIDE DEF m
<1>3. Right(m, Owed(m, owed, ret))
  BY <1>2, CallIsRight, ProceedsKeepsRight
<1>4. Onward(lib.data, m.data)
  BY <1>2, CallIsRight DEF Proceeds, Onward
<1>5. Right(lib', owed')
  BY <1>1, <1>3
<1> QED BY <1>1, <1>2, <1>4, <1>5, CallIsRight DEF StepRight, CallsInv

(* A step that returns nothing of an iterator is right.                    *)
LEMMA EndsIsRight ==
  ASSUME CallsInv, NEW r, \A ret : Done(Call, r, owed, ret), Ends(r)
  PROVE  StepRight
  BY FinishIsRight DEF Ends

(* A step that continues an iteration is right.                            *)
LEMMA ContinuesIsRight ==
  ASSUME CallsInv, NEW q \in Pointer, NEW r,
         \A ret : ret[q] = Returned(r) => Done(Call, r, owed, ret), Continues(q, r)
  PROVE  StepRight
<1> DEFINE ret == [x \in Pointer |-> IF x = q THEN Returned(r) ELSE {}]
<1>1. ret[q] = Returned(r) /\ Finish(r, ret)
  BY DEF Continues
<1> HIDE DEF ret
<1> QED BY <1>1, FinishIsRight

(* The callers start with the invariant.                                   *)
LEMMA InitIsRight == Init => CallsInv
<1> SUFFICES ASSUME Init PROVE Right(lib, owed)
  BY DEF CallsInv
<1>1. /\ lib.data = ContextChanged(NoData) /\ DOMAIN lib.heap = {} /\ lib.leaked = FALSE
      /\ LibFormed(lib) /\ DOMAIN owed = {}
  BY DEF Init, NoLib, LibFormed, LibFields
<1> QED BY <1>1, FirstDataRight DEF Right, Iterators

(* Every call is a right step.                                             *)
LEMMA NextIsRight == CallsInv /\ Next => StepRight
<1> SUFFICES ASSUME CallsInv, Next PROVE StepRight
  OBVIOUS
<1> DEFINE l == Call
<1>0. /\ Right(l, owed) /\ l.heap = lib.heap /\ l.data = Quiet(lib.data)
      /\ Quiet(lib.data).nextCache = lib.data.nextCache
      /\ DOMAIN lib.heap \subseteq Pointer
  BY CallIsRight DEF CallsInv, Right
<1>1. /\ Held("ccache") = References(l) /\ Held("ncs") = Visitors(l) /\ Held("creds") = Walkers(l)
      /\ \A kind : Held(kind) \subseteq Pointer
  BY <1>0 DEF Held, References, Visitors, Walkers
<1>2. (Room(lib) => Room(l)) /\ (RoomForCache(lib.data) => RoomForCache(l.data))
      /\ (RoomForCred(lib.data) => RoomForCred(l.data))
  <2>1. WellFormed(lib.data)
    BY DEF CallsInv, Right, DataRight, Good
  <2>2. Quiet(lib.data).nextCred = lib.data.nextCred
    BY <2>1, StampsDo
  <2> HIDE DEF l
  <2> QED BY <1>0, <2>2 DEF Room, RoomForCache, RoomForCred
<1>3. ASSUME NEW q, Ends(Result(Free(l, q), "CC_NOERROR")) PROVE StepRight
  BY <1>0, <1>3, FreedDone, EndsIsRight
<1>4. ASSUME NEW err, Ends(Result(l, err)) PROVE StepRight
  BY <1>0, <1>4, NothingDone, EndsIsRight
<1> HIDE DEF l
<1>5. CASE Open
  <2>1. PICK n \in Name, v \in Version : Room(lib) /\ Ends(CcOpen(l, n, v))
    BY <1>5 DEF Open, l
  <2> QED BY <1>0, <1>2, <2>1, OpenDone, EndsIsRight DEF l
<1>6. CASE Create
  <2>1. PICK n \in Name, v \in Version, p \in Principal :
          Room(lib) /\ RoomForCache(lib.data) /\ Ends(CcCreate(l, n, v, p))
    BY <1>6 DEF Create, l
  <2> QED BY <1>0, <1>2, <2>1, CreateDone, EndsIsRight DEF l
<1>7. CASE Close \/ NCsEnd \/ CredsEnd
  BY <1>3, <1>7 DEF Close, NCsEnd, CredsEnd, CcClose, CcNCsEnd, CcCredsEnd, l
<1>8. CASE DestroyCache
  <2>1. PICK q \in References(l) : Ends(CcDestroy(l, q))
    BY <1>1, <1>8 DEF DestroyCache, l
  <2> QED BY <1>0, <2>1, DestroyDone, EndsIsRight DEF l
<1>9. CASE NCsBegin
  <2>1. Room(lib) /\ Ends(CcNCsBegin(l))
    BY <1>9 DEF NCsBegin, l
  <2> QED BY <1>0, <1>2, <2>1, NCsBeginDone, EndsIsRight DEF l
<1>10. CASE NCsNext
  <2>1. PICK q \in Visitors(l) : Room(lib) /\ Continues(q, CcNCsNext(l, q))
    BY <1>1, <1>10 DEF NCsNext, l
  <2> QED BY <1>0, <1>1, <1>2, <2>1, NCsNextDone, ContinuesIsRight DEF l
<1>11. CASE ChangePrincipal
  <2>1. PICK q \in References(l), v \in Version, p \in Principal : Ends(CcSetPrincipal(l, q, v, p))
    BY <1>1, <1>11 DEF ChangePrincipal, l
  <2> QED BY <1>0, <2>1, SetPrincipalDone, EndsIsRight DEF l
<1>12. CASE Store
  <2>1. PICK q \in References(l), new \in Creds : RoomForCred(lib.data) /\ Ends(CcStore(l, q, new))
    BY <1>1, <1>12 DEF Store, l
  <2> QED BY <1>0, <1>2, <2>1, StoreDone, EndsIsRight DEF l
<1>13. CASE RemoveCred
  <2>1. PICK q \in References(l), old \in Creds : Ends(CcRemoveCred(l, q, old))
    BY <1>1, <1>13 DEF RemoveCred, l
  <2> QED BY <1>0, <2>1, RemoveCredDone, EndsIsRight DEF l
<1>14. CASE CredsBegin
  <2>1. PICK q \in References(l) : Room(lib) /\ Ends(CcCredsBegin(l, q))
    BY <1>1, <1>14 DEF CredsBegin, l
  <2> QED BY <1>0, <1>2, <2>1, CredsBeginDone, EndsIsRight DEF l
<1>15. CASE CredsNext
  <2>1. PICK q \in Walkers(l) : Continues(q, CcCredsNext(l, q))
    BY <1>1, <1>15 DEF CredsNext, l
  <2> QED BY <1>0, <1>1, <2>1, CredsNextDone, ContinuesIsRight DEF l
<1>16. CASE Read
  BY <1>4, <1>16 DEF Read, CcGetChangeTime, CcGetNCInfo, CcGetName, CcGetCredVersion,
                     CcGetPrincipal, l
<1> QED BY <1>5, <1>6, <1>7, <1>8, <1>9, <1>10, <1>11, <1>12, <1>13, <1>14, <1>15, <1>16 DEF Next

(***************************************************************************)
(* The instance of CCacheContext has operators of its own, which are those *)
(* of CCacheData.                                                          *)
(***************************************************************************)
LEMMA SameHelpers ==
  ASSUME NEW s, NEW x, NEW d, NEW c, NEW v, NEW n
  PROVE  /\ Data!ToSet(s) = ToSet(s)
         /\ Data!RemoveFirst(s, x) = RemoveFirst(s, x)
         /\ Data!Without(s, x) = Without(s, x)
         /\ Data!ContextChanged(d) = ContextChanged(d) /\ Data!Changed(d, c) = Changed(d, c)
         /\ Data!DeleteCreds(d, x) = DeleteCreds(d, x)
<1>1. Data!ToSet(s) = ToSet(s)
  BY DEF Data!ToSet, ToSet
<1>2. Data!RemoveFirst(s, x) = RemoveFirst(s, x)
  <2>1. Data!Min({ i \in 1 .. Len(s) : s[i] = x }) = Min({ i \in 1 .. Len(s) : s[i] = x })
    BY DEF Data!Min, Min
  <2>2. \A i : Data!RemoveAt(s, i) = RemoveAt(s, i)
    BY DEF Data!RemoveAt, RemoveAt
  <2> QED BY <2>1, <2>2 DEF Data!RemoveFirst, RemoveFirst, Data!SelectInSeq, SelectInSeq
<1>3. Data!Without(s, x) = Without(s, x)
  BY DEF Data!Without, Without
<1>4. Data!ContextChanged(d) = ContextChanged(d) /\ Data!Changed(d, c) = Changed(d, c)
  BY DEF Data!ContextChanged, ContextChanged, Data!Changed, Changed
<1>5. Data!DeleteCreds(d, x) = DeleteCreds(d, x)
  BY DEF Data!DeleteCreds, DeleteCreds
<1> QED BY <1>1, <1>2, <1>3, <1>4, <1>5

(* The lookups of the data layer's specification are those of the calls.   *)
LEMMA SameLookups ==
  ASSUME NEW d, NEW c, NEW v, NEW n
  PROVE  /\ Data!OfVersion(d, c, v) = OfVersion(d, c, v)
         /\ Data!Known(d, n) <=> Known(d, n)
         /\ Data!FindCCache(d, n) = FindCCache(d, n)
         /\ Data!RemoveCCache(d, c) = RemoveCCache(d, c)
         /\ Data!Version = Version /\ Data!Creds = Creds /\ Data!CredId = CredId
<1>1. Data!OfVersion(d, c, v) = OfVersion(d, c, v)
  BY SameHelpers DEF Data!OfVersion, OfVersion
<1>2. Data!Known(d, n) <=> Known(d, n)
  BY SameHelpers DEF Data!Known, Known, Data!Named, Named
<1>3. Data!FindCCache(d, n) = FindCCache(d, n)
  BY DEF Data!FindCCache, FindCCache
<1>4. Data!RemoveCCache(d, c) = RemoveCCache(d, c)
  BY SameHelpers DEF Data!RemoveCCache, RemoveCCache
<1>5. Data!Version = Version /\ Data!Creds = Creds /\ Data!CredId = CredId
  BY DEF Data!Version, Version, Data!Creds, Creds, Data!CredId, CredId
<1> QED BY <1>1, <1>2, <1>3, <1>4, <1>5

(* The methods of the data layer's specification are those of the calls.   *)
LEMMA SameMethods ==
  ASSUME NEW d, NEW c, NEW n, NEW v, NEW p
  PROVE  /\ Data!Quiet(d) = Quiet(d) /\ Data!Pin(d) = Pin(d)
         /\ Data!ContextChanged(Data!NoData) = ContextChanged(NoData)
         /\ Data!RoomForCache(d) <=> RoomForCache(d)
         /\ Data!RoomForCred(d) <=> RoomForCred(d)
         /\ Data!Destroy(d, c) = Destroy(d, c)
         /\ Data!CompatSetPrincipal(d, c, v, p) = CompatSetPrincipal(d, c, v, p)
         /\ Data!StoreCredentials(d, c, v) = StoreCredentials(d, c, v)
         /\ Data!RemoveCredentials(d, c, v) = RemoveCredentials(d, c, v)
         /\ Data!CreateCCache(d, n, v, p) = CreateCCache(d, n, v, p)
<1>1. /\ Data!Quiet(d) = Quiet(d) /\ Data!Pin(d) = Pin(d)
      /\ Data!ContextChanged(Data!NoData) = ContextChanged(NoData)
  BY DEF Data!Quiet, Quiet, Data!Pin, Pin, Data!ContextChanged, ContextChanged, Data!NoData, NoData
<1>2. (Data!RoomForCache(d) <=> RoomForCache(d)) /\ (Data!RoomForCred(d) <=> RoomForCred(d))
  BY DEF Data!RoomForCache, RoomForCache, Data!RoomForCred, RoomForCred
<1>3. Data!Destroy(d, c) = Destroy(d, c)
  BY SameLookups DEF Data!Destroy, Destroy
<1>4. Data!CompatSetPrincipal(d, c, v, p) = CompatSetPrincipal(d, c, v, p)
  BY DEF Data!CompatSetPrincipal, CompatSetPrincipal, Data!Changed, Changed
<1>5. Data!StoreCredentials(d, c, v) = StoreCredentials(d, c, v)
  BY DEF Data!StoreCredentials, StoreCredentials, Data!Changed, Changed
<1>6. Data!RemoveCredentials(d, c, v) = RemoveCredentials(d, c, v)
  BY SameHelpers DEF Data!RemoveCredentials, RemoveCredentials
<1>7. \A a : Data!SetPrincipal(d, a, v, p) = SetPrincipal(d, a, v, p)
  <2> SUFFICES ASSUME NEW a PROVE Data!SetPrincipal(d, a, v, p) = SetPrincipal(d, a, v, p)
    OBVIOUS
  <2> DEFINE gone == OfVersion(d, a, v)
             cut  == [d EXCEPT !.cache[a].principal[v] = p, !.cache[a].creds = Without(@, gone)]
             left == [d EXCEPT !.cache[a].principal[v] = p, !.cache[a].creds = Data!Without(@, gone)]
  <2>1. Data!OfVersion(d, a, v) = gone
    BY SameLookups
  <2> HIDE DEF gone
  <2>2. \A s : Data!Without(s, gone) = Without(s, gone)
    BY SameHelpers
  <2>3. left = cut
    BY <2>2
  <2>4. Data!SetPrincipal(d, a, v, p) = Data!Changed(Data!DeleteCreds(left, gone), a)
    BY <2>1 DEF Data!SetPrincipal
  <2>5. SetPrincipal(d, a, v, p) = Changed(DeleteCreds(cut, gone), a)
    BY DEF SetPrincipal, gone
  <2> HIDE DEF left, cut
  <2> QED BY <2>3, <2>4, <2>5, SameHelpers
<1>8. Data!NewCCache(d, n, v, p) = NewCCache(d, n, v, p)
  BY SameHelpers, SameLookups DEF Data!NewCCache, NewCCache
<1>9. Data!CreateCCache(d, n, v, p) = CreateCCache(d, n, v, p)
  BY <1>7, <1>8, SameHelpers, SameLookups DEF Data!CreateCCache, CreateCCache
<1> QED BY <1>1, <1>2, <1>3, <1>4, <1>5, <1>6, <1>9

(* What a call does to the data is a method of the data layer's specification. *)
LEMMA MethodsAreContexts ==
  ASSUME NEW d, NEW e, Method(Quiet(d), e), WellFormed(d)
  PROVE  \/ e = Data!Quiet(d) \/ e = Data!Pin(Data!Quiet(d))
         \/ \E c \in DOMAIN d.cache :
              \/ e = Data!Destroy(Data!Quiet(d), c)
              \/ \E v \in Data!Version, p \in Principal :
                   e = Data!CompatSetPrincipal(Data!Quiet(d), c, v, p)
              \/ /\ Data!RoomForCred(d)
                 /\ \E new \in Data!Creds : e = Data!StoreCredentials(Data!Quiet(d), c, new)
              \/ \E k \in Data!CredId \cap DOMAIN d.cred :
                   e = Data!RemoveCredentials(Data!Pin(Data!Quiet(d)), c, k)
         \/ /\ Data!RoomForCache(d)
            /\ \E n \in Name, v \in Data!Version, p \in Principal :
                 e = Data!CreateCCache(Data!Quiet(d), n, v, p).d
<1> DEFINE f == Quiet(d)
<1>1. /\ f.cache = d.cache /\ f.cred = d.cred /\ (RoomForCred(f) <=> RoomForCred(d))
      /\ (RoomForCache(f) <=> RoomForCache(d))
  BY StampsDo DEF RoomForCred, RoomForCache
<1>2. Method(f, e)
  OBVIOUS
<1>3. Data!Quiet(d) = f
  BY SameMethods
<1> HIDE DEF f
<1>4. Data!Version = Version /\ Data!Creds = Creds /\ Data!CredId = CredId
  BY SameLookups
<1>5. CASE e = f \/ e = Pin(f)
  BY <1>3, <1>5, SameMethods
<1>6. ASSUME NEW c \in DOMAIN f.cache, e = Destroy(f, c)
      PROVE  e = Data!Destroy(f, c)
  BY <1>6, SameMethods
<1>7. ASSUME NEW c, NEW v, NEW p, e = CompatSetPrincipal(f, c, v, p)
      PROVE  e = Data!CompatSetPrincipal(f, c, v, p)
  BY <1>7, SameMethods
<1>8. ASSUME NEW c, NEW new, e = StoreCredentials(f, c, new)
      PROVE  e = Data!StoreCredentials(f, c, new)
  BY <1>8, SameMethods
<1>9. ASSUME NEW c, NEW k, e = RemoveCredentials(Pin(f), c, k)
      PROVE  e = Data!RemoveCredentials(Data!Pin(f), c, k)
  BY <1>9, SameMethods
<1>10. ASSUME NEW n, NEW v, NEW p, e = CreateCCache(f, n, v, p).d
       PROVE  e = Data!CreateCCache(f, n, v, p).d
  BY <1>10, SameMethods
<1>11. (Data!RoomForCred(d) <=> RoomForCred(d)) /\ (Data!RoomForCache(d) <=> RoomForCache(d))
  BY SameMethods
<1> QED
  BY <1>1, <1>2, <1>3, <1>4, <1>5, <1>6, <1>7, <1>8, <1>9, <1>10, <1>11 DEF Method

(* Every call is a step of the data layer's specification.                 *)
LEMMA StepIsDataNext == CallsInv /\ Method(Quiet(lib.data), lib'.data) => Data!DataNext
<1> SUFFICES ASSUME CallsInv, Method(Quiet(lib.data), lib'.data) PROVE Data!DataNext
  OBVIOUS
<1> DEFINE d == lib.data
           e == lib'.data
<1>0. WellFormed(d)
  BY DEF CallsInv, Right, DataRight, Good
<1>1. CASE e = Data!Quiet(d)
  BY <1>1 DEF Data!DataNext, Data!MRead
<1>2. CASE e = Data!Pin(Data!Quiet(d))
  BY <1>2 DEF Data!DataNext, Data!MFetch
<1>3. ASSUME NEW c \in DOMAIN d.cache, e = Data!Destroy(Data!Quiet(d), c) PROVE Data!DataNext
  BY <1>3 DEF Data!DataNext, Data!MDestroy
<1>4. ASSUME NEW c \in DOMAIN d.cache, NEW v \in Data!Version, NEW p \in Principal,
             e = Data!CompatSetPrincipal(Data!Quiet(d), c, v, p)
      PROVE  Data!DataNext
  BY <1>4 DEF Data!DataNext, Data!MSetPrincipal
<1>5. ASSUME NEW c \in DOMAIN d.cache, NEW new \in Data!Creds, Data!RoomForCred(d),
             e = Data!StoreCredentials(Data!Quiet(d), c, new)
      PROVE  Data!DataNext
  BY <1>5 DEF Data!DataNext, Data!MStore
<1>6. ASSUME NEW c \in DOMAIN d.cache, NEW k \in Data!CredId \cap DOMAIN d.cred,
             e = Data!RemoveCredentials(Data!Pin(Data!Quiet(d)), c, k)
      PROVE  Data!DataNext
  BY <1>6 DEF Data!DataNext, Data!MRemove
<1>7. ASSUME NEW n \in Name, NEW v \in Data!Version, NEW p \in Principal, Data!RoomForCache(d),
             e = Data!CreateCCache(Data!Quiet(d), n, v, p).d
      PROVE  Data!DataNext
  BY <1>7 DEF Data!DataNext, Data!MCreate
<1> QED BY <1>0, <1>1, <1>2, <1>3, <1>4, <1>5, <1>6, <1>7, MethodsAreContexts

(***************************************************************************)
(* The theorems.                                                           *)
(***************************************************************************)
LEMMA CallsAlwaysRight == Spec => []CallsInv
<1>1. Init => CallsInv
  BY InitIsRight
<1>2. CallsInv /\ [Next]_calls => CallsInv'
  <2>1. CallsInv /\ UNCHANGED calls => CallsInv'
    BY DEF CallsInv, calls
  <2> QED BY <2>1, NextIsRight DEF StepRight
<1> QED BY <1>1, <1>2, PTL DEF Spec

(* What the callers hold is references and iterators, and each iterator is *)
(* accounted for.                                                          *)
THEOREM HeldCorrect == Spec => []CallsTypeOK
<1>1. CallsInv => CallsTypeOK
  BY DEF CallsInv, Right, CallsTypeOK, ObjectRight, RefRight, NCsRight, CredsRight
<1> QED BY <1>1, CallsAlwaysRight, PTL

(* A reference, from cc_open, cc_create or an iterator, is in the mode of  *)
(* a version its cache has, whatever happens to the cache after.           *)
THEOREM RefsCorrect == Spec => []RefsAreOpenedRight
<1>1. CallsInv => RefsAreOpenedRight
  <2> SUFFICES ASSUME CallsInv, NEW q \in Held("ccache")
               PROVE  LET r == lib.heap[q]
                      IN  Live(lib.data, r.id) => r.version \in Version /\ Has(lib, r.id, r.version)
    BY DEF RefsAreOpenedRight
  <2>1. q \in References(lib)
    BY DEF Held, References
  <2> QED BY <2>1, ReferencesAreRight DEF CallsInv, RefRight
<1> QED BY <1>1, CallsAlwaysRight, PTL

(* The iterator over caches ends only when it has returned all it owes: a  *)
(* visit that finds its cache gone or changed loses no other.              *)
THEOREM AllCachesReturned == Spec => []CachesAllReturned
<1>1. CallsInv => CachesAllReturned
  <2> SUFFICES ASSUME CallsInv, NEW q \in Held("ncs"), CcNCsNext(lib, q).err = "CC_END"
               PROVE  owed[q] = {}
    BY DEF CachesAllReturned
  <2> DEFINE it == lib.heap[q]
             c  == it.set[it.pos]
  <2>1. q \in Visitors(lib)
    BY DEF Held, Visitors
  <2>2. NCsRight(lib, it, owed[q])
    BY <2>1, VisitorsAreRight DEF CallsInv
  <2>3. it \in NCsIt
    BY <2>2 DEF NCsRight
  <2>4. it.pos \in Nat /\ Len(it.set) \in Nat /\ it.repeat \in {0, 1} /\ it.kind = "ncs"
    <3> HIDE DEF it
    <3> QED BY <2>3 DEF NCsIt
  <2>5. \A m, x : OpenCurrent(m, x).err # "CC_END"
    BY DEF OpenCurrent, Given
  <2>6. \A m, obj : Given(m, obj).err # "CC_END"
    BY DEF Given
  <2>7. \/ it.pos > Len(it.set)
        \/ /\ it.pos = Len(it.set) /\ it.repeat = 1
           /\ ~(Live(lib.data, c) /\ Dual(lib, c))
    BY <2>4, <2>5, <2>6 DEF CcNCsNext
  <2>8. ASSUME NEW e \in owed[q] PROVE FALSE
    <3>1. PICK i \in it.pos .. Len(it.set) :
            /\ it.set[i] = e[1]
            /\ i = it.pos /\ it.repeat = 1 => e[2] = "v5" /\ Has(lib, e[1], "v4")
      BY <2>2, <2>8 DEF NCsRight
    <3>2. Live(lib.data, e[1]) /\ Has(lib, e[1], e[2])
      BY <2>2, <2>4, <2>8 DEF NCsRight, Items
    <3>3. i = it.pos /\ it.repeat = 1 /\ ~(Live(lib.data, c) /\ Dual(lib, c))
      BY <2>4, <2>7, <3>1
    <3> QED BY <3>1, <3>2, <3>3 DEF Dual, Version
  <2> QED BY <2>8
<1> QED BY <1>1, CallsAlwaysRight, PTL

(* The iterator over credentials says CC_END only when it has returned all *)
(* it owes.                                                                *)
THEOREM AllCredsReturned == Spec => []CredsAllReturned
<1>1. CallsInv => CredsAllReturned
  <2> SUFFICES ASSUME CallsInv, NEW q \in Held("creds"), CcCredsNext(lib, q).err = "CC_END"
               PROVE  owed[q] = {}
    BY DEF CredsAllReturned
  <2> DEFINE it   == lib.heap[q]
             rest == it.pos .. Len(it.set)
             gone == { i \in rest : it.set[i] \notin DOMAIN lib.data.cred }
             mine == { i \in rest \ gone : it.version \in {"both", lib.data.cred[it.set[i]].version} }
  <2>1. q \in Walkers(lib)
    BY DEF Held, Walkers
  <2>2. CredsRight(lib, it, owed[q]) /\ DataRight(lib.data)
    BY <2>1, WalkersAreRight DEF CallsInv, Right
  <2>3. it.kind = "creds"
    <3>1. it \in CredsIt
      BY <2>2 DEF CredsRight
    <3> QED BY <3>1 DEF CredsIt
  <2>4. gone \cup mine = {}
    BY DEF CcCredsNext, Result
  <2>5. ASSUME NEW k \in owed[q] PROVE FALSE
    <3>1. PICK i \in rest : it.set[i] = k
      BY <2>2, <2>5 DEF CredsRight
    <3>2. /\ Live(lib.data, it.id) /\ k \in ToSet(lib.data.cache[it.id].creds)
          /\ it.version = lib.data.cred[k].version
      BY <2>2, <2>3, <2>5 DEF CredsRight, Items
    <3>3. k \in DOMAIN lib.data.cred
      BY <2>2, <3>2, CredsAreLive DEF Live
    <3>4. i \in mine
      BY <3>1, <3>2, <3>3
    <3> QED BY <2>4, <3>4
  <2> QED BY <2>5
<1> QED BY <1>1, CallsAlwaysRight, PTL

(* IDs of caches are never reused, so what holds the ID of a cache that is *)
(* gone holds it of no other.                                              *)
THEOREM StaleCorrect == Spec => StaleStaysStale
<1> DEFINE Stale == \A q \in DOMAIN lib.heap \cap DOMAIN lib'.heap :
       lib.heap[q].kind # "ncs" /\ lib'.heap[q].kind # "ncs"
         /\ lib'.heap[q].id = lib.heap[q].id /\ ~Live(lib.data, lib.heap[q].id)
       => ~Live(lib'.data, lib.heap[q].id)
<1>1. CallsInv /\ [Next]_calls => [Stale]_calls
  <2> SUFFICES ASSUME CallsInv, Next PROVE Stale
    OBVIOUS
  <2>1. Onward(lib.data, lib'.data)
    BY NextIsRight DEF StepRight
  <2> SUFFICES ASSUME NEW q \in DOMAIN lib.heap, lib.heap[q].kind # "ncs",
                      ~Live(lib.data, lib.heap[q].id)
               PROVE  ~Live(lib'.data, lib.heap[q].id)
    OBVIOUS
  <2>2. ObjectRight(lib, lib.heap[q], owed[q]) /\ lib.data.nextCache \in Nat
    BY DEF CallsInv, Right, DataRight, Good, Below
  <2>3. lib.heap[q].id \in CacheId /\ lib.heap[q].id < lib.data.nextCache
    BY <2>2 DEF ObjectRight, RefRight, NCsRight, CredsRight, CacheRef, NCsIt, CredsIt
  <2>4. lib.heap[q].id \in Int
    BY <2>3, DataAssumption DEF CacheId
  <2> QED BY <2>1, <2>2, <2>3, <2>4 DEF Onward, Live
<1>2. []CallsInv /\ [][Next]_calls => [][Stale]_calls
  BY <1>1, PTL
<1> QED BY <1>2, CallsAlwaysRight, PTL DEF StaleStaysStale, Spec

(* Every call of the v2 interface is one method of the context, or none:   *)
(* what is proved of CCacheContext holds under the calls.                  *)
THEOREM CallsImplementContext == Spec => ImplementsContext
<1>1. Init => Data!DataInit
  BY SameMethods DEF Init, NoLib, Data!DataInit
<1>2. CallsInv /\ [Next]_calls => [Data!DataNext]_(lib.data)
  <2>1. CallsInv /\ Next => Data!DataNext
    BY NextIsRight, StepIsDataNext DEF StepRight
  <2>2. UNCHANGED calls => UNCHANGED lib.data
    BY DEF calls
  <2> QED BY <2>1, <2>2
<1> QED BY <1>1, <1>2, CallsAlwaysRight, PTL DEF Spec, ImplementsContext, Data!DataSpec
=============================================================================
