-------------------------- MODULE HandleMap_proofs --------------------------
(***************************************************************************)
(* For every size of size_t, heap, base and growth step: the handle map    *)
(* keeps its counters, its scan always has a free slot to stop at, and it  *)
(* implements the table of live handles.                                   *)
(***************************************************************************)
EXTENDS HandleMap, TLAPS, FiniteSetTheorems, WellFoundedInduction

(* A non-empty set of naturals has a least element: the scan stops at one. *)
LEMMA LeastNatural ==
  ASSUME NEW T \in SUBSET Nat, T # {}
  PROVE  \E x \in T : \A y \in T : x <= y
<1> DEFINE Below == { 0 .. x : x \in T }
<1>1. Below \subseteq FiniteSubsetsOf(Nat)
  <2>1. \A x \in T : IsFiniteSet(0 .. x) /\ 0 .. x \in SUBSET Nat
    BY FS_Interval
  <2> QED BY <2>1 DEF FiniteSubsetsOf
<1>2. Below # {}
  OBVIOUS
<1>3. IsWellFoundedOn(StrictSubsetOrdering(Nat), FiniteSubsetsOf(Nat))
  BY FS_StrictSubsetOrderingWellFounded
<1>4. PICK B \in Below : \A C \in Below : <<C, B>> \notin StrictSubsetOrdering(Nat)
  <2> HIDE DEF Below
  <2> QED BY <1>1, <1>2, <1>3, WFMin
<1>5. PICK x \in T : B = 0 .. x
  OBVIOUS
<1>6. ASSUME NEW y \in T, y < x PROVE FALSE
  <2>1. 0 .. y \in Below /\ 0 .. y \subseteq 0 .. x /\ x \notin 0 .. y /\ x \in 0 .. x
    BY <1>6
  <2>2. <<0 .. y, 0 .. x>> \in StrictSubsetOrdering(Nat)
    BY <2>1 DEF StrictSubsetOrdering
  <2> QED BY <1>4, <1>5, <2>1, <2>2
<1> QED BY <1>6

(* Maps that agree on their used slots have the same live handles.         *)
LEMMA SameLive ==
  ASSUME NEW m, NEW n, UsedSlots(n) = UsedSlots(m), UsedSlots(m) \subseteq Nat,
         \A i \in UsedSlots(m) : n.handles[i].data = m.handles[i].data
  PROVE  LiveTable(n) = LiveTable(m)
<1>1. \A h \in { i + MinHandle : i \in UsedSlots(m) } :
        n.handles[h - MinHandle].data = m.handles[h - MinHandle].data
  <2> TAKE h \in { i + MinHandle : i \in UsedSlots(m) }
  <2>1. PICK i \in UsedSlots(m) : h = i + MinHandle
    OBVIOUS
  <2>2. h - MinHandle = i
    BY <2>1 DEF MinHandle
  <2> QED BY <2>2
<1> QED BY <1>1 DEF LiveTable

(* Growing moves no slot: what was live stays live with its content.       *)
LEMMA GrowKeeps ==
  ASSUME NEW m, Shaped(m), Counted(m), NEW els \in Nat \ {0}, NEW ok \in BOOLEAN,
         NEW g, g = Grow(m, els, ok)
  PROVE  /\ Shaped(g.hm) /\ Counted(g.hm)
         /\ g.hm.init = m.init
         /\ UsedSlots(g.hm) = UsedSlots(m)
         /\ LiveTable(g.hm) = LiveTable(m)
         /\ g.err = "HE_NOERROR" => g.hm.size = m.size + els
         /\ g.err # "HE_NOERROR" => g.hm = m /\ g.err \in {"HE_NO_MEM", "HE_MAX_SIZE"}
<1> USE SizeAssumption
<1>1. CASE els + m.size > MaxSize \/ (~ok \/ els + m.size > HeapLimit)
  <2>1. g.hm = m /\ g.err \in {"HE_NO_MEM", "HE_MAX_SIZE"}
    BY <1>1 DEF Grow, MaxSize, Shaped
  <2> QED BY <2>1
<1>2. CASE ~(els + m.size > MaxSize) /\ ok /\ els + m.size <= HeapLimit
  <2> DEFINE hs == [i \in 0 .. m.size + els - 1 |->
                      IF i < m.size THEN m.handles[i] ELSE NewSlot]
  <2>0. m.size \in Nat /\ m.size + els \in 0 .. HeapLimit
    BY <1>2 DEF Shaped
  <2>1. /\ g.err = "HE_NOERROR"
        /\ g.hm = [m EXCEPT !.handles = hs,
                            !.last = IF m.size = 0 THEN 0 ELSE m.last,
                            !.size = m.size + els]
    BY <1>2, <2>0 DEF Grow, MaxSize, Done
  <2>2. /\ g.hm.handles = hs
        /\ g.hm.last = IF m.size = 0 THEN 0 ELSE m.last
        /\ g.hm.size = m.size + els
        /\ g.hm.init = m.init
        /\ g.hm.used = m.used
    BY <2>1 DEF Shaped
  <2>3. hs \in [0 .. m.size + els - 1 -> Slot]
    BY <2>0 DEF Shaped, Slot, NewSlot, Content
  <2>4. Shaped(g.hm)
    <3> HIDE DEF hs
    <3>1. m \in [init : BOOLEAN, handles : [0 .. m.size - 1 -> Slot],
                 last : Nat, used : Nat, size : 0 .. HeapLimit]
      BY DEF Shaped
    <3>2. g.hm = [init |-> m.init, handles |-> hs,
                  last |-> IF m.size = 0 THEN 0 ELSE m.last,
                  used |-> m.used, size |-> m.size + els]
      BY <2>1, <3>1
    <3>3. m.init \in BOOLEAN /\ m.last \in Nat /\ m.used \in Nat
      BY <3>1
    <3>4. (IF m.size = 0 THEN 0 ELSE m.last) \in Nat
      BY <3>3
    <3>5. g.hm.size = m.size + els
      BY <3>2
    <3> QED BY <2>0, <2>3, <3>2, <3>3, <3>4, <3>5 DEF Shaped
  <2>5. UsedSlots(g.hm) = UsedSlots(m)
    BY <2>0, <2>2 DEF UsedSlots, Shaped, NewSlot
  <2>6. LiveTable(g.hm) = LiveTable(m)
    <3>1. \A i \in UsedSlots(m) : g.hm.handles[i] = m.handles[i]
      BY <2>0, <2>2 DEF UsedSlots, Shaped
    <3>2. UsedSlots(m) \subseteq Nat
      BY <2>0 DEF UsedSlots, Shaped
    <3> HIDE DEF hs
    <3> QED BY <2>5, <3>1, <3>2, SameLive
  <2>7. Counted(g.hm)
    BY <2>0, <2>2, <2>5 DEF Counted, Shaped
  <2> QED BY <2>1, <2>2, <2>4, <2>5, <2>6, <2>7
<1> QED BY <1>1, <1>2 DEF Shaped

(* The head of every operation: afterwards either there is an array, or    *)
(* nothing has changed and nothing is live.                                *)
LEMMA ReadyKeeps ==
  ASSUME NEW m, WellFormed(m), Counted(m), NEW ok \in BOOLEAN,
         NEW r, r = Ready(m, ok)
  PROVE  /\ WellFormed(r.hm) /\ Counted(r.hm)
         /\ UsedSlots(r.hm) = UsedSlots(m)
         /\ LiveTable(r.hm) = LiveTable(m)
         /\ r.err = "HE_NOERROR" => r.hm.size > 0
         /\ r.err # "HE_NOERROR" => /\ r.hm = m
                                    /\ r.err \in {"HE_NO_MEM", "HE_MAX_SIZE"}
                                    /\ UsedSlots(m) = {}
<1>1. CASE m.init
  BY <1>1 DEF Ready, Done, WellFormed
<1>2. CASE ~m.init
  <2> DEFINE g == Grow(m, BaseSize, ok)
  <2>1. UsedSlots(m) = {}
    BY <1>2 DEF WellFormed, Shaped, UsedSlots
  <2>2. /\ Shaped(g.hm) /\ Counted(g.hm)
        /\ g.hm.init = m.init
        /\ UsedSlots(g.hm) = UsedSlots(m)
        /\ LiveTable(g.hm) = LiveTable(m)
        /\ g.err = "HE_NOERROR" => g.hm.size = m.size + BaseSize
        /\ g.err # "HE_NOERROR" => g.hm = m /\ g.err \in {"HE_NO_MEM", "HE_MAX_SIZE"}
    BY GrowKeeps, SizeAssumption DEF WellFormed
  <2>3. CASE g.err # "HE_NOERROR"
    BY <1>2, <2>1, <2>2, <2>3 DEF Ready
  <2>4. CASE g.err = "HE_NOERROR"
    <3>1. r.err = "HE_NOERROR" /\ r.hm = [g.hm EXCEPT !.init = TRUE]
      BY <1>2, <2>4 DEF Ready, Done
    <3>2. g.hm.size > 0 /\ g.hm.size \in Nat
      <4>1. g.hm.size = m.size + BaseSize /\ m.size \in Nat /\ BaseSize \in Nat \ {0}
        <5> HIDE DEF g
        <5> QED BY <2>2, <2>4, SizeAssumption DEF WellFormed, Shaped
      <4> HIDE DEF g
      <4> QED BY <4>1
    <3> HIDE DEF g
    <3>3. WellFormed(r.hm)
      BY <2>2, <3>1, <3>2 DEF WellFormed, Shaped
    <3>4. Counted(r.hm) /\ UsedSlots(r.hm) = UsedSlots(m) /\ LiveTable(r.hm) = LiveTable(m)
      <4>1. /\ r.hm.handles = g.hm.handles /\ r.hm.used = g.hm.used
            /\ r.hm.size = g.hm.size /\ r.hm.last = g.hm.last
        BY <2>2, <3>1 DEF Shaped
      <4>2. UsedSlots(r.hm) = UsedSlots(g.hm)
        BY <4>1 DEF UsedSlots
      <4>3. LiveTable(r.hm) = LiveTable(g.hm)
        BY <4>1, <4>2 DEF LiveTable
      <4> QED BY <2>2, <4>1, <4>2, <4>3 DEF Counted
    <3> QED BY <3>1, <3>2, <3>3, <3>4 DEF Shaped
  <2> QED BY <2>3, <2>4
<1> QED BY <1>1, <1>2 DEF WellFormed, Shaped

(* handlemap.hxx:89: with used < size the scan meets a free slot.          *)
LEMMA ScanStops ==
  ASSUME NEW m, Shaped(m), Counted(m), m.used < m.size
  PROVE  NextFree(m) \in FreeSlots(m)
<1>0. /\ m.size \in Nat /\ m.last \in Nat /\ m.last < m.size
      /\ DOMAIN m.handles = 0 .. m.size - 1
  BY DEF Shaped, Counted
<1>1. FreeSlots(m) # {}
  <2>1. SUFFICES ASSUME FreeSlots(m) = {} PROVE FALSE
    OBVIOUS
  <2>2. UsedSlots(m) = 0 .. m.size - 1
    BY <1>0, <2>1 DEF UsedSlots, FreeSlots
  <2>3. Cardinality(UsedSlots(m)) = m.size
    BY <1>0, <2>2, FS_Interval
  <2> QED BY <1>0, <2>3 DEF Counted
<1>2. \A i \in FreeSlots(m) : Distance(m, i) \in Nat
  BY <1>0 DEF FreeSlots, Distance
<1>3. PICK d \in { Distance(m, i) : i \in FreeSlots(m) } :
        \A e \in { Distance(m, i) : i \in FreeSlots(m) } : d <= e
  BY <1>1, <1>2, LeastNatural
<1>4. \E i \in FreeSlots(m) :
        \A j \in FreeSlots(m) : Distance(m, i) <= Distance(m, j)
  BY <1>3
<1> QED BY <1>4 DEF NextFree

(* The used slots are finitely many, all of them slots of the array.       *)
LEMMA UsedIsFinite ==
  ASSUME NEW m, Shaped(m)
  PROVE  /\ IsFiniteSet(UsedSlots(m))
         /\ UsedSlots(m) \subseteq 0 .. m.size - 1
         /\ UsedSlots(m) \subseteq Nat
<1>1. m.size \in Nat /\ UsedSlots(m) \subseteq 0 .. m.size - 1
  BY DEF Shaped, UsedSlots
<1>2. IsFiniteSet(0 .. m.size - 1)
  BY <1>1, FS_Interval
<1>3. IsFiniteSet(UsedSlots(m))
  BY <1>1, <1>2, FS_Subset
<1>4. UsedSlots(m) \subseteq Nat
  BY <1>1
<1> QED BY <1>1, <1>3, <1>4

(* Taking the slot the scan found makes one more handle live.              *)
LEMMA TakeKeeps ==
  ASSUME NEW m, WellFormed(m), Counted(m), m.used < m.size,
         NEW t, t = Take(m), NEW h, h = NextFree(m) + MinHandle
  PROVE  /\ WellFormed(t) /\ Counted(t)
         /\ h \in Handle /\ h \notin DOMAIN LiveTable(m)
         /\ \E c \in Content :
              LiveTable(t) = [g \in DOMAIN LiveTable(m) \cup {h} |->
                                IF g = h THEN c ELSE LiveTable(m)[g]]
<1> DEFINE i == NextFree(m)
<1>1. i \in FreeSlots(m)
  BY ScanStops DEF WellFormed
<1>2. i \in 0 .. m.size - 1 /\ i \notin UsedSlots(m) /\ m.size \in 0 .. HeapLimit
  BY <1>1 DEF FreeSlots, UsedSlots, WellFormed, Shaped
<1> HIDE DEF i
<1>3. t = [m EXCEPT !.last = i, !.handles = [m.handles EXCEPT ![i].used = TRUE],
                    !.used = m.used + 1]
  BY DEF Take, i, WellFormed, Shaped
<1>4. m.handles \in [0 .. m.size - 1 -> Slot] /\ m.used \in Nat
  BY DEF WellFormed, Shaped
<1>5. /\ t.handles = [m.handles EXCEPT ![i].used = TRUE]
      /\ t.last = i /\ t.used = m.used + 1 /\ t.size = m.size /\ t.init = m.init
  BY <1>3 DEF WellFormed, Shaped
<1>6. t.handles \in [0 .. m.size - 1 -> Slot]
  <2>1. m.handles[i] \in Slot /\ [m.handles[i] EXCEPT !.used = TRUE] \in Slot
    BY <1>2, <1>4 DEF Slot
  <2> QED BY <1>2, <1>4, <1>5, <2>1
<1>7. WellFormed(t)
  <2>1. t = [init |-> m.init, handles |-> t.handles, last |-> i,
             used |-> m.used + 1, size |-> m.size]
    <3>1. m \in [init : BOOLEAN, handles : [0 .. m.size - 1 -> Slot],
                 last : Nat, used : Nat, size : 0 .. HeapLimit]
      BY DEF WellFormed, Shaped
    <3> QED BY <1>3, <1>5, <3>1
  <2>2. /\ m.init \in BOOLEAN /\ i \in Nat /\ m.used + 1 \in Nat
        /\ t.handles \in [0 .. t.size - 1 -> Slot] /\ m.size \in 0 .. HeapLimit
    BY <1>2, <1>4, <1>5, <1>6, SizeAssumption DEF WellFormed, Shaped
  <2>3. Shaped(t)
    BY <2>1, <2>2 DEF Shaped
  <2> QED BY <1>5, <2>3 DEF WellFormed
<1>8. UsedSlots(t) = UsedSlots(m) \cup {i}
  BY <1>2, <1>4, <1>5, <1>6 DEF UsedSlots, Slot
<1>9. Counted(t)
  <2>1. Cardinality(UsedSlots(t)) = Cardinality(UsedSlots(m)) + 1
    BY <1>2, <1>8, UsedIsFinite, FS_AddElement DEF WellFormed
  <2> QED BY <1>2, <1>4, <1>5, <2>1 DEF Counted
<1>10. h = i + 1 /\ h \in Handle
  BY <1>2, SizeAssumption DEF i, MinHandle, Handle
<1>11. \A g \in Nat : g \in DOMAIN LiveTable(m) <=> g - 1 \in UsedSlots(m)
  BY UsedIsFinite DEF LiveTable, MinHandle, WellFormed
<1>12. h \notin DOMAIN LiveTable(m)
  BY <1>2, <1>10, <1>11
<1>13. /\ DOMAIN LiveTable(t) = DOMAIN LiveTable(m) \cup {h}
       /\ LiveTable(t)[h] = t.handles[i].data
       /\ \A g \in DOMAIN LiveTable(m) : LiveTable(t)[g] = LiveTable(m)[g]
  <2>1. DOMAIN LiveTable(t) = DOMAIN LiveTable(m) \cup {h}
    BY <1>8, <1>10 DEF LiveTable, MinHandle
  <2>2. LiveTable(t)[h] = t.handles[i].data
    BY <1>2, <1>10, <2>1 DEF LiveTable, MinHandle
  <2>3. ASSUME NEW g \in DOMAIN LiveTable(m)
        PROVE  LiveTable(t)[g] = LiveTable(m)[g]
    <3>1. PICK j \in UsedSlots(m) : g = j + 1
      BY <2>3 DEF LiveTable, MinHandle
    <3>2. j \in 0 .. m.size - 1 /\ j # i /\ g - MinHandle = j
      BY <1>2, <3>1, UsedIsFinite DEF MinHandle, WellFormed
    <3>3. t.handles[j] = m.handles[j]
      BY <1>4, <1>5, <3>2
    <3> QED BY <2>1, <2>3, <3>2, <3>3 DEF LiveTable
  <2> QED BY <2>1, <2>2, <2>3
<1>14. t.handles[i].data \in Content
  BY <1>2, <1>6 DEF Slot
<1>15. LiveTable(t) = [g \in DOMAIN LiveTable(m) \cup {h} |->
                         IF g = h THEN t.handles[i].data ELSE LiveTable(m)[g]]
  <2>1. LiveTable(t) = [g \in DOMAIN LiveTable(t) |-> LiveTable(t)[g]]
    BY DEF LiveTable
  <2> QED BY <1>12, <1>13, <2>1
<1> QED BY <1>7, <1>9, <1>10, <1>12, <1>14, <1>15

(* create: a fresh handle, or an error and nothing changed.                *)
LEMMA CreateKeeps ==
  ASSUME NEW m, WellFormed(m), Counted(m), NEW ok \in BOOLEAN,
         NEW c, c = Create(m, ok)
  PROVE  /\ WellFormed(c.hm) /\ Counted(c.hm)
         /\ \/ /\ c.err = "HE_NOERROR"
               /\ c.handle \in Handle /\ c.handle \notin DOMAIN LiveTable(m)
               /\ \E v \in Content :
                    LiveTable(c.hm) =
                      [g \in DOMAIN LiveTable(m) \cup {c.handle} |->
                         IF g = c.handle THEN v ELSE LiveTable(m)[g]]
            \/ /\ c.err \in {"HE_NO_MEM", "HE_MAX_SIZE"}
               /\ LiveTable(c.hm) = LiveTable(m)
<1> DEFINE r == Ready(m, ok)
           w == WithRoom(m, ok)
<1>1. /\ WellFormed(r.hm) /\ Counted(r.hm)
      /\ LiveTable(r.hm) = LiveTable(m)
      /\ r.err = "HE_NOERROR" => r.hm.size > 0
      /\ r.err # "HE_NOERROR" => r.err \in {"HE_NO_MEM", "HE_MAX_SIZE"}
  BY ReadyKeeps
<1>2. /\ WellFormed(w.hm) /\ Counted(w.hm)
      /\ LiveTable(w.hm) = LiveTable(m)
      /\ w.err = "HE_NOERROR" => w.hm.used < w.hm.size
      /\ w.err # "HE_NOERROR" => w.err \in {"HE_NO_MEM", "HE_MAX_SIZE"}
  <2>1. CASE r.err = "HE_NOERROR" /\ r.hm.used >= r.hm.size
    <3> DEFINE g == Grow(r.hm, GrowSize, ok)
    <3>1. w = g
      BY <2>1 DEF WithRoom
    <3>2. /\ Shaped(g.hm) /\ Counted(g.hm)
          /\ g.hm.init = r.hm.init
          /\ LiveTable(g.hm) = LiveTable(r.hm)
          /\ g.err = "HE_NOERROR" => g.hm.size = r.hm.size + GrowSize
          /\ g.err # "HE_NOERROR" => g.hm = r.hm /\ g.err \in {"HE_NO_MEM", "HE_MAX_SIZE"}
          /\ g.hm.used = r.hm.used
      <4>1. UsedSlots(g.hm) = UsedSlots(r.hm)
        BY <1>1, GrowKeeps, SizeAssumption DEF WellFormed
      <4> HIDE DEF g, r
      <4>2. Counted(g.hm) => g.hm.used = r.hm.used
        BY <1>1, <4>1 DEF Counted
      <4> USE DEF g
      <4> QED BY <1>1, <4>2, GrowKeeps, SizeAssumption DEF WellFormed
    <3> HIDE DEF g, r, w
    <3>3. CASE g.err = "HE_NOERROR"
      <4>1. r.hm.size \in Nat /\ r.hm.used \in Nat /\ r.hm.used = r.hm.size
        BY <1>1, <2>1 DEF WellFormed, Shaped, Counted
      <4> QED BY <1>1, <2>1, <3>1, <3>2, <3>3, <4>1, SizeAssumption DEF WellFormed
    <3>4. CASE g.err # "HE_NOERROR"
      BY <1>1, <3>1, <3>2, <3>4
    <3> QED BY <3>3, <3>4
  <2>2. CASE ~(r.err = "HE_NOERROR" /\ r.hm.used >= r.hm.size)
    <3>1. w = r
      BY <2>2 DEF WithRoom
    <3> HIDE DEF r, w
    <3>2. r.hm.used \in Nat /\ r.hm.size \in Nat
      BY <1>1 DEF WellFormed, Shaped
    <3> QED BY <1>1, <2>2, <3>1, <3>2
  <2> QED BY <2>1, <2>2
<1>3. CASE w.err # "HE_NOERROR"
  <2>1. c.hm = w.hm /\ c.err = w.err
    BY <1>3 DEF Create
  <2> HIDE DEF w
  <2> QED BY <1>2, <1>3, <2>1
<1>4. CASE w.err = "HE_NOERROR"
  <2>1. c.hm = Take(w.hm) /\ c.err = "HE_NOERROR" /\ c.handle = NextFree(w.hm) + MinHandle
    BY <1>4 DEF Create
  <2> HIDE DEF w, r
  <2> QED BY <1>2, <1>4, <2>1, TakeKeeps
<1> QED BY <1>3, <1>4

(* A handle is one more than its slot number; the null handle wraps past   *)
(* every slot.                                                             *)
LEMMA IndexOfHandle ==
  ASSUME NEW m, WellFormed(m), NEW h \in Handle
  PROVE  /\ Found(m, h) <=> h \in DOMAIN LiveTable(m)
         /\ Found(m, h) => /\ Index(h) = h - 1
                           /\ Index(h) \in UsedSlots(m)
                           /\ LiveTable(m)[h] = m.handles[Index(h)].data
<1> USE SizeAssumption
<1>1. m.size \in 0 .. HeapLimit /\ DOMAIN m.handles = 0 .. m.size - 1
  BY DEF WellFormed, Shaped
<1>2. UsedSlots(m) \subseteq 0 .. m.size - 1
  BY UsedIsFinite DEF WellFormed
<1>3. CASE h = 0
  <2>1. Index(h) = SizeT - 1
    BY <1>3 DEF Index, MinHandle
  <2>2. h - 1 \notin UsedSlots(m) /\ h \notin DOMAIN LiveTable(m)
    BY <1>2, <1>3 DEF LiveTable, MinHandle
  <2> QED BY <1>1, <2>1, <2>2 DEF Found
<1>4. CASE h # 0
  <2>1. Index(h) = h - 1 /\ h - 1 \in Nat
    BY <1>4 DEF Index, MinHandle, Handle
  <2>2. Found(m, h) <=> h - 1 \in UsedSlots(m)
    BY <1>1, <2>1 DEF Found, UsedSlots
  <2>3. h - 1 \in UsedSlots(m) <=> h \in DOMAIN LiveTable(m)
    BY <1>2, <2>1 DEF LiveTable, MinHandle, Handle
  <2>4. h \in DOMAIN LiveTable(m) => LiveTable(m)[h] = m.handles[h - 1].data
    BY DEF LiveTable, MinHandle
  <2> QED BY <2>1, <2>2, <2>3, <2>4
<1> QED BY <1>3, <1>4

(* close, once the slot is found: exactly that handle goes.                *)
LEMMA ReleaseKeeps ==
  ASSUME NEW m, WellFormed(m), Counted(m), NEW h \in Handle, Found(m, h),
         NEW t, t = Release(m, Index(h))
  PROVE  /\ WellFormed(t) /\ Counted(t)
         /\ LiveTable(t) = [g \in DOMAIN LiveTable(m) \ {h} |-> LiveTable(m)[g]]
<1> DEFINE i == Index(h)
<1>1. /\ i = h - 1 /\ i \in UsedSlots(m) /\ h \in DOMAIN LiveTable(m)
  BY IndexOfHandle
<1>2. /\ UsedSlots(m) \subseteq 0 .. m.size - 1 /\ IsFiniteSet(UsedSlots(m))
  BY UsedIsFinite DEF WellFormed
<1>3. /\ m \in [init : BOOLEAN, handles : [0 .. m.size - 1 -> Slot],
                last : Nat, used : Nat, size : 0 .. HeapLimit]
      /\ m.handles \in [0 .. m.size - 1 -> Slot] /\ m.used \in Nat
      /\ m.size \in 0 .. HeapLimit /\ m.init \in BOOLEAN /\ m.last \in Nat
  BY DEF WellFormed, Shaped
<1> HIDE DEF i
<1>4. t = [m EXCEPT !.handles = [m.handles EXCEPT ![i].used = FALSE],
                    !.used = m.used - 1]
  BY <1>3 DEF Release, i
<1>5. /\ t.handles = [m.handles EXCEPT ![i].used = FALSE]
      /\ t.last = m.last /\ t.used = m.used - 1 /\ t.size = m.size /\ t.init = m.init
  BY <1>3, <1>4
<1>6. t.handles \in [0 .. m.size - 1 -> Slot]
  <2>1. m.handles[i] \in Slot /\ [m.handles[i] EXCEPT !.used = FALSE] \in Slot
    BY <1>1, <1>2, <1>3 DEF Slot
  <2> QED BY <1>1, <1>2, <1>3, <1>5, <2>1
<1>7. UsedSlots(t) = UsedSlots(m) \ {i}
  BY <1>1, <1>2, <1>3, <1>5, <1>6 DEF UsedSlots, Slot
<1>8. /\ Cardinality(UsedSlots(t)) = Cardinality(UsedSlots(m)) - 1
      /\ Cardinality(UsedSlots(m)) > 0
  <2>1. Cardinality(UsedSlots(t)) = Cardinality(UsedSlots(m)) - 1
    <3>1. i \in UsedSlots(m) /\ IsFiniteSet(UsedSlots(m))
      BY <1>1, <1>2
    <3> QED BY <3>1, <1>7, FS_RemoveElement
  <2>2. Cardinality(UsedSlots(m)) # 0 /\ Cardinality(UsedSlots(m)) \in Nat
    BY <1>1, <1>2, FS_EmptySet, FS_CardinalityType
  <2> QED BY <2>1, <2>2
<1>9. Counted(t)
  BY <1>3, <1>5, <1>8 DEF Counted
<1>10. WellFormed(t)
  <2>1. t = [init |-> m.init, handles |-> t.handles, last |-> m.last,
             used |-> m.used - 1, size |-> m.size]
    BY <1>3, <1>4, <1>5
  <2>2. m.used - 1 \in Nat
    BY <1>3, <1>8 DEF Counted
  <2>3. Shaped(t)
    BY <1>3, <1>5, <1>6, <2>1, <2>2 DEF Shaped
  <2> QED BY <1>5, <2>3 DEF WellFormed
<1>11. DOMAIN LiveTable(t) = DOMAIN LiveTable(m) \ {h}
  <2>1. \A j \in UsedSlots(m) : j + MinHandle = h <=> j = i
    BY <1>1, <1>2 DEF MinHandle, Handle
  <2> QED BY <1>7, <2>1 DEF LiveTable
<1>12. ASSUME NEW g \in DOMAIN LiveTable(t)
       PROVE  LiveTable(t)[g] = LiveTable(m)[g]
  <2>1. PICK j \in UsedSlots(t) : g = j + 1
    BY <1>12 DEF LiveTable, MinHandle
  <2>2. j \in 0 .. m.size - 1 /\ j # i /\ g - MinHandle = j
    BY <1>2, <1>7, <2>1 DEF MinHandle
  <2>3. t.handles[j] = m.handles[j]
    BY <1>3, <1>5, <2>2
  <2> QED BY <1>11, <1>12, <2>2, <2>3 DEF LiveTable
<1>13. LiveTable(t) = [g \in DOMAIN LiveTable(t) |-> LiveTable(t)[g]]
  BY DEF LiveTable
<1> QED BY <1>9, <1>10, <1>11, <1>12, <1>13

(* operator[] on the left of an assignment: only that handle's content.    *)
LEMMA StoreKeeps ==
  ASSUME NEW m, WellFormed(m), Counted(m), NEW h \in Handle, Found(m, h),
         NEW v \in Value, NEW t, t = [m EXCEPT !.handles[Index(h)].data = v]
  PROVE  /\ WellFormed(t) /\ Counted(t)
         /\ LiveTable(t) = [LiveTable(m) EXCEPT ![h] = v]
<1> DEFINE i == Index(h)
<1>1. /\ i = h - 1 /\ i \in UsedSlots(m) /\ h \in DOMAIN LiveTable(m)
  BY IndexOfHandle
<1>2. /\ UsedSlots(m) \subseteq 0 .. m.size - 1
  BY UsedIsFinite DEF WellFormed
<1>3. /\ m \in [init : BOOLEAN, handles : [0 .. m.size - 1 -> Slot],
                last : Nat, used : Nat, size : 0 .. HeapLimit]
      /\ m.handles \in [0 .. m.size - 1 -> Slot]
  BY DEF WellFormed, Shaped
<1> HIDE DEF i
<1>4. t = [m EXCEPT !.handles = [m.handles EXCEPT ![i].data = v]]
  BY <1>3 DEF i
<1>5. /\ t.handles = [m.handles EXCEPT ![i].data = v]
      /\ t.last = m.last /\ t.used = m.used /\ t.size = m.size /\ t.init = m.init
  BY <1>3, <1>4
<1>6. t.handles \in [0 .. m.size - 1 -> Slot]
  <2>1. m.handles[i] \in Slot /\ [m.handles[i] EXCEPT !.data = v] \in Slot
    BY <1>1, <1>2, <1>3 DEF Slot, Content
  <2> QED BY <1>1, <1>2, <1>3, <1>5, <2>1
<1>7. UsedSlots(t) = UsedSlots(m)
  BY <1>1, <1>2, <1>3, <1>5, <1>6 DEF UsedSlots, Slot
<1>8. Counted(t)
  BY <1>5, <1>7 DEF Counted
<1>9. WellFormed(t)
  <2>1. t = [init |-> m.init, handles |-> t.handles, last |-> m.last,
             used |-> m.used, size |-> m.size]
    BY <1>3, <1>4, <1>5
  <2>2. Shaped(t)
    BY <1>3, <1>5, <1>6, <2>1 DEF Shaped
  <2> QED BY <1>5, <2>2 DEF WellFormed
<1>10. DOMAIN LiveTable(t) = DOMAIN LiveTable(m)
  BY <1>7 DEF LiveTable
<1>11. ASSUME NEW g \in DOMAIN LiveTable(m)
       PROVE  LiveTable(t)[g] = IF g = h THEN v ELSE LiveTable(m)[g]
  <2>1. PICK j \in UsedSlots(m) : g = j + 1
    BY <1>11 DEF LiveTable, MinHandle
  <2>2. j \in 0 .. m.size - 1 /\ g - MinHandle = j /\ (j = i <=> g = h)
    BY <1>1, <1>2, <2>1 DEF MinHandle, Handle
  <2>3. t.handles[j].data = IF j = i THEN v ELSE m.handles[j].data
    BY <1>3, <1>5, <2>2 DEF Slot
  <2>4. LiveTable(t)[g] = t.handles[j].data /\ LiveTable(m)[g] = m.handles[j].data
    BY <1>10, <1>11, <2>2 DEF LiveTable
  <2> QED BY <2>2, <2>3, <2>4
<1>12. LiveTable(t) = [g \in DOMAIN LiveTable(t) |-> LiveTable(t)[g]]
  BY DEF LiveTable
<1>13. LiveTable(m) = [g \in DOMAIN LiveTable(m) |-> LiveTable(m)[g]]
  BY DEF LiveTable
<1> QED BY <1>1, <1>8, <1>9, <1>10, <1>11, <1>12, <1>13
----------------------------------------------------------------------------
(* The strengthened invariant: the counters are right only because the     *)
(* array has its shape, and the scan is safe only because they are right.  *)
IInv == WellFormed(hm) /\ Counted(hm)

(* The map the constructor leaves (handlemap.hxx:119) has its shape, its   *)
(* counts agree, and no handle is live.                                    *)
LEMMA InitEstablishes ==
  Init => IInv /\ Table!Init
<1> SUFFICES ASSUME Init PROVE IInv /\ Table!Init
  OBVIOUS
<1>1. hm = EmptyMap /\ reply = NoReply
  BY DEF Init
<1>2. UsedSlots(hm) = {}
  BY <1>1 DEF EmptyMap, UsedSlots
<1>3. WellFormed(hm)
  BY <1>1, SizeAssumption DEF EmptyMap, WellFormed, Shaped
<1>4. Counted(hm)
  BY <1>1, <1>2, FS_EmptySet DEF EmptyMap, Counted
<1>5. LiveTable(hm) = [h \in {} |-> {}]
  BY <1>2 DEF LiveTable
<1> QED BY <1>1, <1>3, <1>4, <1>5 DEF IInv, Table!Init, NoReply, Table!NoReply

(* A call of create (handlemap.hxx:83) keeps the invariant and opens a     *)
(* handle in the table, or fails and changes none.                         *)
LEMMA CreateStep ==
  ASSUME IInv, DoCreate
  PROVE  IInv' /\ Table!Open
<1>1. PICK ok \in BOOLEAN :
        /\ hm' = Create(hm, ok).hm
        /\ reply' = IF Create(hm, ok).err = "HE_NOERROR"
                    THEN [op |-> "create", err |-> Create(hm, ok).err,
                          handle |-> Create(hm, ok).handle]
                    ELSE [op |-> "create", err |-> Create(hm, ok).err]
  BY DEF DoCreate
<1> DEFINE c == Create(hm, ok)
<1>2. /\ WellFormed(c.hm) /\ Counted(c.hm)
      /\ \/ /\ c.err = "HE_NOERROR"
            /\ c.handle \in Handle /\ c.handle \notin DOMAIN LiveTable(hm)
            /\ \E v \in Content :
                 LiveTable(c.hm) =
                   [g \in DOMAIN LiveTable(hm) \cup {c.handle} |->
                      IF g = c.handle THEN v ELSE LiveTable(hm)[g]]
         \/ /\ c.err \in {"HE_NO_MEM", "HE_MAX_SIZE"}
            /\ LiveTable(c.hm) = LiveTable(hm)
  BY CreateKeeps DEF IInv
<1> HIDE DEF c
<1>3. hm' = c.hm
  BY <1>1 DEF c
<1>4. IInv'
  BY <1>2, <1>3 DEF IInv, WellFormed, Shaped, Counted, UsedSlots
<1>5. LiveTable(hm)' = LiveTable(c.hm)
  BY <1>3 DEF LiveTable, UsedSlots
<1>6. CASE c.err = "HE_NOERROR"
  BY <1>1, <1>2, <1>4, <1>5, <1>6 DEF c, Table!Open
<1>7. CASE c.err # "HE_NOERROR"
  BY <1>1, <1>2, <1>4, <1>5, <1>7 DEF c, Table!Open, Table!Fail, Table!Failure
<1> QED BY <1>4, <1>6, <1>7

(* A call of close (handlemap.hxx:97) keeps the invariant and closes that  *)
(* handle, or finds none.                                                  *)
LEMMA CloseStep ==
  ASSUME IInv, NEW h \in Handle, DoClose(h)
  PROVE  IInv' /\ Table!Close(h)
<1>1. PICK ok \in BOOLEAN :
        hm' = Close(hm, h, ok).hm /\ reply' = Answer("close", h, Close(hm, h, ok).err)
  BY DEF DoClose
<1> DEFINE r == Ready(hm, ok)
<1>2. /\ WellFormed(r.hm) /\ Counted(r.hm)
      /\ UsedSlots(r.hm) = UsedSlots(hm)
      /\ LiveTable(r.hm) = LiveTable(hm)
      /\ r.err # "HE_NOERROR" => r.err \in Table!Failure /\ UsedSlots(hm) = {}
  BY ReadyKeeps DEF IInv, Table!Failure
<1>3. CASE r.err # "HE_NOERROR"
  <2>1. hm' = r.hm /\ reply' = [op |-> "close", err |-> r.err]
    BY <1>1, <1>3 DEF Close, Answer
  <2> HIDE DEF r
  <2>2. IInv' /\ LiveTable(hm)' = LiveTable(hm)
    BY <1>2, <2>1 DEF IInv, WellFormed, Shaped, Counted, UsedSlots, LiveTable
  <2>3. DOMAIN LiveTable(hm) = {}
    BY <1>2, <1>3 DEF LiveTable
  <2> QED BY <1>2, <1>3, <2>1, <2>2, <2>3 DEF Table!Close, Table!Fail
<1>4. CASE r.err = "HE_NOERROR" /\ ~Found(r.hm, h)
  <2>1. hm' = r.hm /\ reply' = [op |-> "close", err |-> "HE_NOT_FOUND"]
    BY <1>1, <1>4 DEF Close, Answer
  <2> HIDE DEF r
  <2>2. IInv' /\ LiveTable(hm)' = LiveTable(hm)
    BY <1>2, <2>1 DEF IInv, WellFormed, Shaped, Counted, UsedSlots, LiveTable
  <2>3. h \notin DOMAIN LiveTable(hm)
    BY <1>2, <1>4, IndexOfHandle
  <2> QED BY <2>1, <2>2, <2>3 DEF Table!Close, Table!NotFound
<1>5. CASE r.err = "HE_NOERROR" /\ Found(r.hm, h)
  <2> DEFINE t == Release(r.hm, Index(h))
  <2>1. hm' = t /\ reply' = [op |-> "close", err |-> "HE_NOERROR", handle |-> h]
    BY <1>1, <1>5 DEF Close, Done, Answer
  <2> HIDE DEF r
  <2>2. /\ WellFormed(t) /\ Counted(t)
        /\ LiveTable(t) = [g \in DOMAIN LiveTable(r.hm) \ {h} |-> LiveTable(r.hm)[g]]
    BY <1>2, <1>5, ReleaseKeeps
  <2> HIDE DEF t
  <2>3. IInv' /\ LiveTable(hm)' = LiveTable(t)
    BY <2>1, <2>2 DEF IInv, WellFormed, Shaped, Counted, UsedSlots, LiveTable
  <2>4. h \in DOMAIN LiveTable(hm)
    BY <1>2, <1>5, IndexOfHandle
  <2> QED BY <1>2, <2>1, <2>2, <2>3, <2>4 DEF Table!Close
<1> QED BY <1>3, <1>4, <1>5

(* An assignment through operator[] (handlemap.hxx:109) keeps the          *)
(* invariant and stores under that handle alone.                           *)
LEMMA StoreStep ==
  ASSUME IInv, NEW h \in Handle, NEW v \in Value, DoStore(h, v)
  PROVE  IInv' /\ Table!Store(h, v)
<1>1. PICK ok \in BOOLEAN :
        /\ hm' = Assign(hm, h, v, ok).hm
        /\ reply' = Answer("store", h, Assign(hm, h, v, ok).err)
  BY DEF DoStore
<1> DEFINE r == Ready(hm, ok)
<1>2. /\ WellFormed(r.hm) /\ Counted(r.hm)
      /\ UsedSlots(r.hm) = UsedSlots(hm)
      /\ LiveTable(r.hm) = LiveTable(hm)
      /\ r.err # "HE_NOERROR" => r.err \in Table!Failure /\ UsedSlots(hm) = {}
  BY ReadyKeeps DEF IInv, Table!Failure
<1>3. CASE r.err # "HE_NOERROR"
  <2>1. hm' = r.hm /\ reply' = [op |-> "store", err |-> r.err]
    BY <1>1, <1>3 DEF Assign, Answer
  <2> HIDE DEF r
  <2>2. IInv' /\ LiveTable(hm)' = LiveTable(hm)
    BY <1>2, <2>1 DEF IInv, WellFormed, Shaped, Counted, UsedSlots, LiveTable
  <2>3. DOMAIN LiveTable(hm) = {}
    BY <1>2, <1>3 DEF LiveTable
  <2> QED BY <1>2, <1>3, <2>1, <2>2, <2>3 DEF Table!Store, Table!Fail
<1>4. CASE r.err = "HE_NOERROR" /\ ~Found(r.hm, h)
  <2>1. hm' = r.hm /\ reply' = [op |-> "store", err |-> "HE_NOT_FOUND"]
    BY <1>1, <1>4 DEF Assign, Answer
  <2> HIDE DEF r
  <2>2. IInv' /\ LiveTable(hm)' = LiveTable(hm)
    BY <1>2, <2>1 DEF IInv, WellFormed, Shaped, Counted, UsedSlots, LiveTable
  <2>3. h \notin DOMAIN LiveTable(hm)
    BY <1>2, <1>4, IndexOfHandle
  <2> QED BY <2>1, <2>2, <2>3 DEF Table!Store, Table!NotFound
<1>5. CASE r.err = "HE_NOERROR" /\ Found(r.hm, h)
  <2> DEFINE t == [r.hm EXCEPT !.handles[Index(h)].data = v]
  <2>1. hm' = t /\ reply' = [op |-> "store", err |-> "HE_NOERROR", handle |-> h]
    BY <1>1, <1>5 DEF Assign, Done, Answer
  <2> HIDE DEF r
  <2>2. /\ WellFormed(t) /\ Counted(t)
        /\ LiveTable(t) = [LiveTable(r.hm) EXCEPT ![h] = v]
    BY <1>2, <1>5, StoreKeeps
  <2> HIDE DEF t
  <2>3. IInv' /\ LiveTable(hm)' = LiveTable(t)
    BY <2>1, <2>2 DEF IInv, WellFormed, Shaped, Counted, UsedSlots, LiveTable
  <2>4. h \in DOMAIN LiveTable(hm)
    BY <1>2, <1>5, IndexOfHandle
  <2> QED BY <1>2, <2>1, <2>2, <2>3, <2>4 DEF Table!Store
<1> QED BY <1>3, <1>4, <1>5

(* A look through operator[] (handlemap.hxx:109) keeps the invariant and   *)
(* returns what was stored.                                                *)
LEMMA LookupStep ==
  ASSUME IInv, NEW h \in Handle, DoLookup(h)
  PROVE  IInv' /\ Table!Lookup(h)
<1>1. PICK ok \in BOOLEAN :
        /\ hm' = Peek(hm, h, ok).hm
        /\ reply' = IF Peek(hm, h, ok).err = "HE_NOERROR"
                    THEN [op |-> "lookup", err |-> Peek(hm, h, ok).err, handle |-> h,
                          value |-> Peek(hm, h, ok).hm.handles[Index(h)].data]
                    ELSE [op |-> "lookup", err |-> Peek(hm, h, ok).err]
  BY DEF DoLookup
<1> DEFINE r == Ready(hm, ok)
<1>2. /\ WellFormed(r.hm) /\ Counted(r.hm)
      /\ UsedSlots(r.hm) = UsedSlots(hm)
      /\ LiveTable(r.hm) = LiveTable(hm)
      /\ r.err # "HE_NOERROR" => r.err \in Table!Failure /\ UsedSlots(hm) = {}
  BY ReadyKeeps DEF IInv, Table!Failure
<1>3. hm' = r.hm
  BY <1>1 DEF Peek
<1>4. IInv' /\ LiveTable(hm)' = LiveTable(hm)
  <2> HIDE DEF r
  <2> QED BY <1>2, <1>3 DEF IInv, WellFormed, Shaped, Counted, UsedSlots, LiveTable
<1>5. CASE r.err # "HE_NOERROR"
  <2>1. reply' = [op |-> "lookup", err |-> r.err]
    BY <1>1, <1>5 DEF Peek
  <2> HIDE DEF r
  <2>2. DOMAIN LiveTable(hm) = {}
    BY <1>2, <1>5 DEF LiveTable
  <2> QED BY <1>2, <1>4, <1>5, <2>1, <2>2 DEF Table!Lookup, Table!Fail
<1>6. CASE r.err = "HE_NOERROR" /\ ~Found(r.hm, h)
  <2>1. reply' = [op |-> "lookup", err |-> "HE_NOT_FOUND"]
    BY <1>1, <1>6 DEF Peek
  <2> HIDE DEF r
  <2>2. h \notin DOMAIN LiveTable(hm)
    BY <1>2, <1>6, IndexOfHandle
  <2> QED BY <1>4, <2>1, <2>2 DEF Table!Lookup, Table!NotFound
<1>7. CASE r.err = "HE_NOERROR" /\ Found(r.hm, h)
  <2>1. reply' = [op |-> "lookup", err |-> "HE_NOERROR", handle |-> h,
                  value |-> r.hm.handles[Index(h)].data]
    BY <1>1, <1>7 DEF Peek
  <2> HIDE DEF r
  <2>2. /\ h \in DOMAIN LiveTable(hm)
        /\ LiveTable(hm)[h] = r.hm.handles[Index(h)].data
    BY <1>2, <1>7, IndexOfHandle
  <2> QED BY <1>4, <2>1, <2>2 DEF Table!Lookup
<1> QED BY <1>5, <1>6, <1>7

(* Every step of the map keeps the invariant and is a step of the table,   *)
(* or leaves it as it is.                                                  *)
LEMMA StepPreserves ==
  ASSUME IInv, [Next]_vars
  PROVE  IInv' /\ [Table!Next]_(Table!vars)
<1>1. CASE DoCreate
  BY <1>1, CreateStep DEF Table!Next
<1>2. ASSUME NEW h \in Handle, DoClose(h)
      PROVE  IInv' /\ Table!Next
  BY <1>2, CloseStep DEF Table!Next
<1>3. ASSUME NEW h \in Handle, DoLookup(h)
      PROVE  IInv' /\ Table!Next
  BY <1>3, LookupStep DEF Table!Next
<1>4. ASSUME NEW h \in Handle, NEW v \in Value, DoStore(h, v)
      PROVE  IInv' /\ Table!Next
  <2>1. v \in Content
    BY DEF Content
  <2> QED BY <1>4, <2>1, StoreStep DEF Table!Next
<1>5. CASE UNCHANGED vars
  BY <1>5 DEF vars, IInv, WellFormed, Shaped, Counted, UsedSlots, LiveTable, Table!vars
<1> QED BY <1>1, <1>2, <1>3, <1>4, <1>5 DEF Next

(* The invariant holds in every state.                                     *)
LEMMA Inductive ==
  Spec => []IInv
<1>1. Init => IInv
  BY InitEstablishes
<1>2. IInv /\ [Next]_vars => IInv'
  BY StepPreserves
<1> QED BY <1>1, <1>2, PTL DEF Spec

(* The slots, counters and flags of the map describe one array, for every  *)
(* base and growth size and every heap (handlemap.hxx:38-80).              *)
THEOREM TypeCorrect == Spec => []TypeOK
<1>1. IInv => TypeOK
  BY DEF IInv, TypeOK
<1> QED BY <1>1, Inductive, PTL

(* `used' is always the number of used slots, whatever was closed, reused  *)
(* and grown, and the cursor is inside the array; with ScanStops, the scan *)
(* in create (handlemap.hxx:89) always ends.                               *)
THEOREM CountsCorrect == Spec => []CountsAgree
<1>1. IInv => CountsAgree
  BY DEF IInv, CountsAgree
<1> QED BY <1>1, Inductive, PTL

(* The map implements the table of live handles that the server's handlers *)
(* rely on: create returns a handle nobody holds, close removes that one,  *)
(* a lookup finds what was stored, and a failed call changes no handle.    *)
THEOREM Refinement == Spec => ImplementsTable
<1>1. Init => Table!Init
  BY InitEstablishes
<1>2. IInv /\ [Next]_vars => [Table!Next]_(Table!vars)
  BY StepPreserves
<1> QED BY <1>1, <1>2, Inductive, PTL DEF Spec, ImplementsTable, Table!Spec
============================================================================
