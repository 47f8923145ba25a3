------------------------- MODULE CCache2Compat_proofs -------------------------
(***************************************************************************)
(* Lemmas about the operators of CCacheData and CCache2Compat, for any     *)
(* names, principals and bounds, which the proofs about CCacheContext,     *)
(* CCacheCalls and CCacheServer share.                                     *)
(*                                                                         *)
(* Every method is a function on the record of the data, so what it keeps  *)
(* is a predicate of such a record, and each method is a lemma: from a     *)
(* good record it makes a good one.                                        *)
(***************************************************************************)
EXTENDS CCache2Compat, SequenceTheorems, FiniteSetTheorems, TLAPS

(* A record of CCacheData has its eight fields, and its caches have three. *)
DataFields == {"order", "cache", "nextCache", "cred", "nextCred", "pinned", "stamped", "touched"}
CacheFields == {"name", "principal", "creds"}
Record(d) == d = [f \in DataFields |-> d[f]]
CacheMap(m) ==
  /\ m = [c \in DOMAIN m |-> m[c]]
  /\ \A c \in DOMAIN m : m[c] = [f \in CacheFields |-> m[c][f]]
WellFormed(d) == Record(d) /\ CacheMap(d.cache) /\ d.cred = [k \in DOMAIN d.cred |-> d.cred[k]]

Listed(order, cache) ==
  /\ order \in Seq(DOMAIN cache)
  /\ DOMAIN cache \subseteq ToSet(order)
  /\ IsInjective(order)
  /\ \A c, e \in DOMAIN cache : cache[c].name = cache[e].name => c = e

Below(S, next) == next \in Nat /\ S \subseteq Nat /\ \A x \in S : x < next

Good(d) ==
  /\ WellFormed(d)
  /\ Listed(d.order, d.cache)
  /\ Below(DOMAIN d.cache, d.nextCache)
  /\ Below(DOMAIN d.cred, d.nextCred)

(***************************************************************************)
(* Induction over the naturals, in a form the provers can use: for a set,  *)
(* not for an operator.                                                    *)
(***************************************************************************)
LEMMA LeastNat ==
  ASSUME NEW T \in SUBSET Nat, NEW n \in T
  PROVE  \E m \in T : \A k \in T : m <= k
<1> DEFINE S == 0 .. n
           F == { 0 .. m : m \in { m \in T : m <= n } }
           R == StrictSubsetOrdering(S)
<1>1. IsFiniteSet(S)
  BY FS_Interval
<1>2. F \subseteq FiniteSubsetsOf(S)
  <2>1. ASSUME NEW m \in T, m <= n PROVE 0 .. m \in SUBSET S
    BY <2>1
  <2> QED BY <1>1, <2>1, FS_FiniteSubsetsOfFinite
<1>3. IsWellFoundedOn(R, FiniteSubsetsOf(S))
  BY FS_StrictSubsetOrderingWellFounded
<1>4. 0 .. n \in F
  OBVIOUS
<1>5. \E x \in F : \A y \in F : ~(<<y, x>> \in R)
  <2> HIDE DEF F, R, S
  <2> QED BY <1>2, <1>3, <1>4, WFMin
<1>6. PICK m \in T : m <= n /\ \A y \in F : ~(<<y, 0 .. m>> \in R)
  BY <1>5
<1>7. ASSUME NEW k \in T, ~(m <= k) PROVE FALSE
  <2>1. k \in Nat /\ m \in Nat /\ k < m /\ k <= n
    BY <1>6, <1>7
  <2>2. 0 .. k \in F
    BY <2>1
  <2>3. 0 .. k \in SUBSET S /\ 0 .. m \in SUBSET S
    BY <2>1, <1>6
  <2>4. m \in 0 .. m /\ m \notin 0 .. k
    BY <2>1
  <2>5. \A j \in 0 .. k : j \in 0 .. m
    BY <2>1
  <2>6. <<0 .. k, 0 .. m>> \in R
    BY <2>3, <2>4, <2>5 DEF StrictSubsetOrdering
  <2> QED BY <1>6, <2>2, <2>6
<1> QED BY <1>7

(* A set with 0 and the successors of its members has every natural.       *)
LEMMA NatSetInduction ==
  ASSUME NEW T, 0 \in T, \A n \in Nat : n \in T => n + 1 \in T
  PROVE  Nat \subseteq T
<1> DEFINE U == { n \in Nat : n \notin T }
<1> SUFFICES ASSUME NEW n \in U PROVE FALSE
  OBVIOUS
<1>1. PICK m \in U : \A k \in U : m <= k
  BY LeastNat
<1>2. m # 0 /\ m - 1 \in Nat /\ m - 1 \notin U
  BY <1>1
<1> QED BY <1>1, <1>2

(***************************************************************************)
(* The list without some of its members.                                   *)
(***************************************************************************)
LEMMA WithoutProperties ==
  ASSUME NEW S, NEW s \in Seq(S), IsInjective(s), NEW gone
  PROVE  /\ Without(s, gone) \in Seq(S \ gone)
         /\ IsInjective(Without(s, gone))
         /\ ToSet(Without(s, gone)) = ToSet(s) \ gone
<1> DEFINE n == Len(s)
           Next(x, i) == IF s[i] \in gone THEN x ELSE Append(x, s[i])
           Is(f, m) == f = [i \in 0 .. m |-> IF i = 0 THEN <<>> ELSE Next(f[i - 1], i)]
<1>1. n \in Nat /\ DOMAIN s = 1 .. n
  OBVIOUS
<1>2. \E f : Is(f, n)
  <2> DEFINE T == { m \in Nat : \E f : Is(f, m) }
  <2>1. 0 \in T
    <3>1. Is([i \in 0 .. 0 |-> <<>>], 0)
      OBVIOUS
    <3> QED BY <3>1
  <2>2. ASSUME NEW m \in Nat, m \in T PROVE m + 1 \in T
    <3>1. PICK f : Is(f, m)
      BY <2>2
    <3> DEFINE g == [i \in 0 .. m + 1 |-> IF i <= m THEN f[i] ELSE Next(f[m], m + 1)]
    <3>2. ASSUME NEW i \in 0 .. m + 1
          PROVE  g[i] = IF i = 0 THEN <<>> ELSE Next(g[i - 1], i)
      <4> HIDE DEF Next
      <4>1. CASE i = 0
        BY <3>1, <4>1
      <4>2. CASE i \in 1 .. m
        <5>1. i - 1 \in 0 .. m + 1 /\ i - 1 <= m /\ i \in 0 .. m /\ i <= m
          BY <4>2
        <5>2. g[i] = f[i] /\ g[i - 1] = f[i - 1]
          BY <5>1
        <5>3. f[i] = Next(f[i - 1], i)
          BY <3>1, <4>2, <5>1
        <5> QED BY <4>2, <5>2, <5>3
      <4>3. CASE i = m + 1
        <5>1. i - 1 = m /\ m \in 0 .. m + 1 /\ ~(i <= m) /\ i # 0
          BY <4>3
        <5>2. g[m] = f[m] /\ g[i] = Next(f[m], m + 1)
          BY <5>1
        <5> QED BY <4>3, <5>1, <5>2
      <4> QED BY <4>1, <4>2, <4>3
    <3>3. Is(g, m + 1)
      <4> DEFINE h == [i \in 0 .. m + 1 |-> IF i = 0 THEN <<>> ELSE Next(g[i - 1], i)]
      <4>1. \A i \in 0 .. m + 1 : g[i] = h[i]
        BY <3>2
      <4>2. g = h
        <5> HIDE DEF h, Next
        <5>1. g = [i \in 0 .. m + 1 |-> g[i]] /\ h = [i \in 0 .. m + 1 |-> h[i]]
          BY DEF h
        <5> HIDE DEF g
        <5> QED BY <4>1, <5>1
      <4> QED BY <4>2
    <3> HIDE DEF g, Is
    <3>4. \E h : Is(h, m + 1)
      BY <3>3
    <3> QED BY <3>4
  <2> HIDE DEF T
  <2>3. n \in T
    BY <1>1, <2>1, <2>2, NatSetInduction
  <2> QED BY <2>3 DEF T
<1> DEFINE kept == CHOOSE f : Is(f, n)
<1>3. Is(kept, n)
  BY <1>2
<1>4. Without(s, gone) = kept[n]
  BY DEF Without
<1> HIDE DEF kept
<1>5. /\ kept[0] = <<>>
      /\ \A m \in 0 .. n - 1 : kept[m + 1] = Next(kept[m], m + 1)
  <2> HIDE DEF Next, n
  <2>1. kept[0] = <<>>
    BY <1>1, <1>3
  <2>2. ASSUME NEW m \in 0 .. n - 1 PROVE kept[m + 1] = Next(kept[m], m + 1)
    <3>1. m + 1 \in 0 .. n /\ m + 1 # 0 /\ (m + 1) - 1 = m
      BY <1>1
    <3>2. kept[m + 1] = Next(kept[(m + 1) - 1], m + 1)
      BY <1>3, <3>1
    <3> QED BY <3>1, <3>2
  <2> QED BY <2>1, <2>2
<1> DEFINE Right(i) == /\ kept[i] \in Seq(S \ gone)
                       /\ IsInjective(kept[i])
                       /\ \A x : x \in ToSet(kept[i]) <=> x \notin gone /\ \E j \in 1 .. i : s[j] = x
           T == { i \in Nat : i <= n => Right(i) }
<1>6. Right(0)
  BY <1>5 DEF IsInjective, ToSet
<1>7. ASSUME NEW m \in Nat, m + 1 <= n, Right(m) PROVE Right(m + 1)
  <2>1. /\ m + 1 \in 1 .. n /\ m + 1 - 1 = m /\ m + 1 \in DOMAIN s
        /\ 1 .. m + 1 = 1 .. m \cup {m + 1}
    BY <1>1, <1>7
  <2>2. kept[m + 1] = Next(kept[m], m + 1)
    <3> HIDE DEF Next
    <3> QED BY <1>1, <1>5, <1>7
  <2>3. CASE s[m + 1] \in gone
    BY <1>7, <2>1, <2>2, <2>3
  <2>4. CASE s[m + 1] \notin gone
    <3> DEFINE k == kept[m]
               y == s[m + 1]
               r == Append(k, y)
    <3>1. kept[m + 1] = r
      BY <2>2, <2>4
    <3>2. k \in Seq(S \ gone) /\ y \in S \ gone
      BY <1>7, <2>1, <2>4
    <3>8. IsInjective(k)
      BY <1>7
    <3>3. y \notin ToSet(k)
      <4>1. ASSUME NEW j \in 1 .. m PROVE s[j] # y
        BY <1>1, <1>7, <2>1 DEF IsInjective
      <4> QED BY <1>7, <4>1
    <3> HIDE DEF k, y
    <3>4. /\ r \in Seq(S \ gone) /\ Len(r) = Len(k) + 1 /\ r[Len(k) + 1] = y
          /\ \A i \in 1 .. Len(k) : r[i] = k[i]
      BY <3>2
    <3>5. IsInjective(r)
      BY <3>2, <3>3, <3>4, <3>8 DEF IsInjective, ToSet
    <3>6. ASSUME NEW x PROVE x \in ToSet(r) <=> x \in ToSet(k) \/ x = y
      BY <3>2, <3>4 DEF ToSet
    <3> HIDE DEF r
    <3>7. \A x : x \in ToSet(r) <=> x \notin gone /\ \E j \in 1 .. m + 1 : s[j] = x
      BY <1>7, <2>1, <2>4, <3>6 DEF k, y
    <3> QED BY <3>1, <3>4, <3>5, <3>7
  <2> QED BY <2>3, <2>4
<1> HIDE DEF Right
<1>8. 0 \in T
  BY <1>6
<1>9. ASSUME NEW m \in Nat, m \in T PROVE m + 1 \in T
  BY <1>1, <1>7, <1>9
<1>10. n \in T
  <2> HIDE DEF T
  <2> QED BY <1>1, <1>8, <1>9, NatSetInduction
<1>11. Right(n)
  BY <1>1, <1>10
<1>12. ASSUME NEW x PROVE x \in ToSet(kept[n]) <=> x \in ToSet(s) \ gone
  BY <1>1, <1>11 DEF Right, ToSet
<1> QED BY <1>4, <1>11, <1>12 DEF Right

(***************************************************************************)
(* The list without one of its members.                                    *)
(***************************************************************************)
LEMMA RemoveFirstProperties ==
  ASSUME NEW S, NEW s \in Seq(S), IsInjective(s), NEW e \in ToSet(s)
  PROVE  LET r == RemoveFirst(s, e)
         IN  /\ r \in Seq(S \ {e})
             /\ IsInjective(r)
             /\ ToSet(s) \ {e} \subseteq ToSet(r)
             /\ s[1] # e => r[1] = s[1]
<1> DEFINE I == { i \in 1 .. Len(s) : s[i] = e }
<1>1. DOMAIN s = 1 .. Len(s) /\ Len(s) \in Nat
  OBVIOUS
<1>2. PICK i \in 1 .. Len(s) : s[i] = e
  BY <1>1 DEF ToSet
<1>3. I = {i}
  BY <1>1, <1>2 DEF IsInjective
<1>4. Min(I) = i
  BY <1>3 DEF Min
<1>5. SelectInSeq(s, LAMBDA v : v = e) = i
  BY <1>3, <1>4 DEF SelectInSeq
<1>6. RemoveFirst(s, e) = SubSeq(s, 1, i - 1) \o SubSeq(s, i + 1, Len(s))
  BY <1>2, <1>5 DEF RemoveFirst, RemoveAt
<1> DEFINE a == SubSeq(s, 1, i - 1)
           b == SubSeq(s, i + 1, Len(s))
           r == a \o b
           T == S \ {e}
<1>7. \A j \in 1 .. Len(s) : j # i => s[j] \in T
  BY <1>1, <1>2 DEF IsInjective
<1>8. a \in Seq(T) /\ Len(a) = i - 1 /\ \A j \in 1 .. i - 1 : a[j] = s[j]
  <2>1. \A j \in 1 .. i - 1 : s[j] \in T
    BY <1>1, <1>7
  <2> QED BY <1>1, <2>1, SubSeqProperties
<1>9. b \in Seq(T) /\ Len(b) = Len(s) - i /\ \A j \in 1 .. Len(s) - i : b[j] = s[i + j]
  <2>1. \A j \in i + 1 .. Len(s) : s[j] \in T
    BY <1>1, <1>7
  <2>2. /\ b \in Seq(T) /\ Len(b) = IF i + 1 <= Len(s) THEN Len(s) - (i + 1) + 1 ELSE 0
        /\ \A j \in 1 .. Len(s) - (i + 1) + 1 : b[j] = s[i + 1 + j - 1]
    <3>1. i + 1 \in Int /\ Len(s) \in Int
      BY <1>1
    <3> HIDE DEF T
    <3> QED BY <2>1, <3>1, SubSeqProperties
  <2> HIDE DEF b
  <2>3. Len(b) = Len(s) - i
    <3>1. CASE i + 1 <= Len(s)
      <4>1. Len(b) = Len(s) - (i + 1) + 1
        BY <2>2, <3>1, Zenon
      <4> QED BY <1>1, <1>2, <4>1
    <3>2. CASE ~(i + 1 <= Len(s))
      <4>1. Len(b) = 0
        BY <2>2, <3>2, Zenon
      <4>2. i \in Int /\ Len(s) \in Int /\ i <= Len(s)
        BY <1>1, <1>2
      <4>3. Len(s) - i = 0
        BY <3>2, <4>2
      <4> QED BY <4>1, <4>3
    <3> QED BY <3>1, <3>2
  <2>4. ASSUME NEW j \in 1 .. Len(s) - i PROVE b[j] = s[i + j]
    <3>1. j \in 1 .. Len(s) - (i + 1) + 1 /\ i + 1 + j - 1 = i + j
      BY <1>1
    <3>2. b[j] = s[i + 1 + j - 1]
      BY <2>2, <3>1, Zenon
    <3> QED BY <3>1, <3>2, Zenon
  <2> QED BY <2>2, <2>3, <2>4
<1> HIDE DEF a, b, T
<1>10. /\ r \in Seq(T) /\ Len(r) = Len(s) - 1
       /\ \A j \in 1 .. Len(s) - 1 : r[j] = IF j < i THEN s[j] ELSE s[j + 1]
  <2>1. /\ r \in Seq(T) /\ Len(r) = Len(a) + Len(b)
        /\ \A j \in 1 .. Len(a) + Len(b) : r[j] = IF j <= Len(a) THEN a[j] ELSE b[j - Len(a)]
    BY <1>8, <1>9, ConcatProperties
  <2>2. Len(a) + Len(b) = Len(s) - 1 /\ Len(a) = i - 1
    BY <1>1, <1>8, <1>9
  <2> HIDE DEF r
  <2>3. ASSUME NEW j \in 1 .. Len(s) - 1 PROVE r[j] = IF j < i THEN s[j] ELSE s[j + 1]
    <3>1. CASE j < i
      <4>1. j \in 1 .. i - 1 /\ j <= i - 1 /\ j \in 1 .. Len(a) + Len(b)
        BY <1>1, <2>2, <3>1
      <4>2. r[j] = a[j]
        <5>1. r[j] = IF j <= Len(a) THEN a[j] ELSE b[j - Len(a)]
          BY <2>1, <4>1, Zenon
        <5> QED BY <2>2, <4>1, <5>1
      <4>3. a[j] = s[j]
        BY <1>8, <4>1, Zenon
      <4> QED BY <3>1, <4>2, <4>3
    <3>2. CASE ~(j < i)
      <4>1. j - (i - 1) \in 1 .. Len(s) - i /\ i + (j - (i - 1)) = j + 1
        BY <1>1, <3>2
      <4>2. r[j] = b[j - (i - 1)]
        <5>1. r[j] = IF j <= Len(a) THEN a[j] ELSE b[j - Len(a)]
          BY <2>1, <2>2, Zenon
        <5>2. ~(j <= i - 1)
          BY <1>1, <3>2
        <5> QED BY <2>2, <5>1, <5>2, Zenon
      <4>3. b[j - (i - 1)] = s[j + 1]
        BY <1>9, <4>1, Zenon
      <4> QED BY <3>2, <4>2, <4>3
    <3> QED BY <3>1, <3>2
  <2> QED BY <2>1, <2>2, <2>3
<1> HIDE DEF r
<1>11. IsInjective(r)
  <2>1. DOMAIN r = 1 .. Len(s) - 1
    BY <1>1, <1>10
  <2> DEFINE from(j) == IF j < i THEN j ELSE j + 1
  <2>2. ASSUME NEW j \in 1 .. Len(s) - 1 PROVE from(j) \in DOMAIN s /\ r[j] = s[from(j)]
    <3>1. from(j) \in 1 .. Len(s) /\ r[j] = s[from(j)]
      BY <1>1, <1>10
    <3> QED BY <1>1, <3>1
  <2>3. ASSUME NEW j \in 1 .. Len(s) - 1, NEW k \in 1 .. Len(s) - 1, from(j) = from(k) PROVE j = k
    BY <1>1, <2>3
  <2> HIDE DEF from
  <2>4. ASSUME NEW j \in 1 .. Len(s) - 1, NEW k \in 1 .. Len(s) - 1, r[j] = r[k] PROVE j = k
    <3>1. s[from(j)] = s[from(k)]
      BY <2>2, <2>4
    <3>2. from(j) = from(k)
      BY <2>2, <3>1 DEF IsInjective
    <3> QED BY <2>3, <3>2
  <2> QED BY <2>1, <2>4 DEF IsInjective
<1>12. ASSUME NEW x \in ToSet(s) \ {e} PROVE x \in ToSet(r)
  <2>1. PICK j \in 1 .. Len(s) : s[j] = x
    BY <1>1 DEF ToSet
  <2>2. j # i
    BY <1>2, <2>1
  <2>3. DOMAIN r = 1 .. Len(s) - 1
    BY <1>1, <1>10
  <2>4. CASE j < i
    BY <1>1, <1>10, <2>1, <2>3, <2>4 DEF ToSet
  <2>5. CASE j > i
    <3>1. j - 1 \in 1 .. Len(s) - 1 /\ ~(j - 1 < i) /\ (j - 1) + 1 = j
      BY <1>1, <2>5
    <3> QED BY <1>10, <2>1, <2>3, <3>1 DEF ToSet
  <2> QED BY <1>1, <2>2, <2>4, <2>5
<1>13. ASSUME s[1] # e PROVE r[1] = s[1]
  <2>1. 1 \in 1 .. Len(s) - 1 /\ 1 < i
    BY <1>1, <1>2, <1>13
  <2> QED BY <1>10, <2>1
<1> QED BY <1>6, <1>10, <1>11, <1>12, <1>13 DEF r, a, b, T

(***************************************************************************)
(* The methods.                                                            *)
(***************************************************************************)
(* e has the caches of d, under the same names and in the same order.      *)
Alike(e, d) ==
  /\ WellFormed(e)
  /\ e.order = d.order /\ e.nextCache = d.nextCache
  /\ DOMAIN e.cache = DOMAIN d.cache
  /\ \A c \in DOMAIN d.cache : e.cache[c].name = d.cache[c].name

(* What is like good data, with fresh IDs of credentials, is good.         *)
LEMMA AlikeIsGood ==
  ASSUME NEW d, Good(d), NEW e, Alike(e, d), Below(DOMAIN e.cred, e.nextCred)
  PROVE  Good(e)
BY DEF Good, Alike, Listed

(* Being alike goes from step to step.                                     *)
LEMMA AlikeIsTransitive ==
  ASSUME NEW d, NEW e, NEW f, Alike(e, d), Alike(f, e)
  PROVE  Alike(f, d)
BY DEF Alike

(* Stamps and the pin are no part of what is good.                         *)
Preserves(e, d) == Good(e) /\ Alike(e, d) /\ e.cred = d.cred /\ e.nextCred = d.nextCred

(* d and e differ in what the caches hold and in stamps, at most.          *)
LEMMA SameIsKept ==
  ASSUME NEW d, Good(d), NEW e, Record(e), e.order = d.order, e.nextCache = d.nextCache,
         e.cred = d.cred, e.nextCred = d.nextCred, CacheMap(e.cache), DOMAIN e.cache = DOMAIN d.cache,
         \A c \in DOMAIN d.cache : e.cache[c].name = d.cache[c].name
  PROVE  Preserves(e, d)
<1>1. Alike(e, d)
  BY DEF Good, WellFormed, Alike
<1>2. Below(DOMAIN e.cred, e.nextCred)
  BY DEF Good
<1> QED BY <1>1, <1>2, AlikeIsGood DEF Preserves

(* Stamping, forgetting stamps and pinning keep the data good.             *)
LEMMA StampsKeep ==
  ASSUME NEW d, Good(d)
  PROVE  /\ Preserves(ContextChanged(d), d) /\ Preserves(Quiet(d), d) /\ Preserves(Pin(d), d)
         /\ \A c : Preserves(Changed(d, c), d)
<1> DEFINE Same(e) == /\ Record(e) /\ e.order = d.order /\ e.nextCache = d.nextCache
                      /\ e.cred = d.cred /\ e.nextCred = d.nextCred /\ e.cache = d.cache
<1>1. Record(d)
  BY DEF Good, WellFormed
<1>2. Same(ContextChanged(d)) /\ Same(Quiet(d)) /\ Same(Pin(d))
  BY <1>1 DEF Record, DataFields, ContextChanged, Quiet, Pin
<1>3. ASSUME NEW c PROVE Same(Changed(d, c))
  BY <1>1 DEF Record, DataFields, Changed
<1>4. ASSUME NEW e, Same(e) PROVE Preserves(e, d)
  BY <1>4, SameIsKept DEF Good, WellFormed
<1> HIDE DEF Same
<1> QED BY <1>2, <1>3, <1>4

(* Credentials that go leave the caches alone, and the next ID above those  *)
(* that stay, if it does not restart.                                      *)
LEMMA DeleteCredsKeeps ==
  ASSUME NEW d, Good(d), NEW S
  PROVE  Good(DeleteCreds(d, S)) /\ Alike(DeleteCreds(d, S), d)
<1> DEFINE left == DOMAIN d.cred \ S
           n == IF left = {} /\ ~d.pinned THEN 0 ELSE d.nextCred
           e == DeleteCreds(d, S)
<1>1. Record(d) /\ Below(DOMAIN d.cred, d.nextCred)
  BY DEF Good, WellFormed
<1>2. /\ Record(e) /\ e.order = d.order /\ e.nextCache = d.nextCache
      /\ e.cache = d.cache /\ e.cred = [k \in left |-> d.cred[k]] /\ e.nextCred = n
  BY <1>1 DEF Record, DataFields, DeleteCreds
<1>3. Below(left, n)
  BY <1>1 DEF Below
<1> HIDE DEF e, n
<1>4. Alike(e, d) /\ DOMAIN e.cred = left
  BY <1>2 DEF Good, WellFormed, Alike
<1> QED BY <1>2, <1>3, <1>4, AlikeIsGood DEF e

(* A change to a cache that keeps its name.                                *)
LEMMA CacheKeeps ==
  ASSUME NEW d, Good(d), NEW c \in DOMAIN d.cache, NEW x,
         x = [f \in CacheFields |-> x[f]], x.name = d.cache[c].name
  PROVE  Preserves([d EXCEPT !.cache[c] = x], d)
<1> DEFINE m == [d.cache EXCEPT ![c] = x]
           e == [d EXCEPT !.cache[c] = x]
<1>1. Record(d) /\ CacheMap(d.cache)
  BY DEF Good, WellFormed
<1>2. CacheMap(m) /\ DOMAIN m = DOMAIN d.cache /\ \A b \in DOMAIN m : m[b].name = d.cache[b].name
  BY <1>1 DEF CacheMap
<1>3. /\ Record(e) /\ e.order = d.order /\ e.nextCache = d.nextCache
      /\ e.cred = d.cred /\ e.nextCred = d.nextCred /\ e.cache = m
  BY <1>1 DEF Record, DataFields
<1> HIDE DEF e, m
<1> QED BY <1>2, <1>3, SameIsKept DEF e

(* A principal set in a cache keeps the data good.                         *)
LEMMA PrincipalKeeps ==
  ASSUME NEW d, Good(d), NEW c \in DOMAIN d.cache, NEW v, NEW p
  PROVE  Preserves([d EXCEPT !.cache[c].principal[v] = p], d)
<1> DEFINE x == [d.cache[c] EXCEPT !.principal[v] = p]
<1>1. x = [f \in CacheFields |-> x[f]] /\ x.name = d.cache[c].name
  BY DEF Good, WellFormed, CacheMap, CacheFields
<1>2. [d EXCEPT !.cache[c].principal[v] = p] = [d EXCEPT !.cache[c] = x]
  BY DEF Good, WellFormed, Record, DataFields, CacheMap
<1> HIDE DEF x
<1> QED BY <1>1, <1>2, CacheKeeps

(* Other credentials in a cache keep the data good.                        *)
LEMMA CredsKeep ==
  ASSUME NEW d, Good(d), NEW c \in DOMAIN d.cache, NEW s
  PROVE  Preserves([d EXCEPT !.cache[c].creds = s], d)
<1> DEFINE x == [d.cache[c] EXCEPT !.creds = s]
<1>1. x = [f \in CacheFields |-> x[f]] /\ x.name = d.cache[c].name
  BY DEF Good, WellFormed, CacheMap, CacheFields
<1>2. [d EXCEPT !.cache[c].creds = s] = [d EXCEPT !.cache[c] = x]
  BY DEF Good, WellFormed, Record, DataFields, CacheMap
<1> HIDE DEF x
<1> QED BY <1>1, <1>2, CacheKeeps

(* Both ways to set a principal keep the data good.                        *)
LEMMA SetPrincipalKeeps ==
  ASSUME NEW d, Good(d), NEW c \in DOMAIN d.cache, NEW v, NEW p
  PROVE  /\ Good(SetPrincipal(d, c, v, p)) /\ Alike(SetPrincipal(d, c, v, p), d)
         /\ Good(CompatSetPrincipal(d, c, v, p))
<1> DEFINE gone == OfVersion(d, c, v)
           rest == Without(d.cache[c].creds, gone)
           named == [d EXCEPT !.cache[c].principal[v] = p]
           cut == [named EXCEPT !.cache[c].creds = rest]
<1>1. Preserves(named, d) /\ c \in DOMAIN named.cache
  BY PrincipalKeeps DEF Preserves, Alike
<1>2. SetPrincipal(d, c, v, p) = Changed(DeleteCreds(cut, gone), c)
  <2>1. [d EXCEPT !.cache[c].principal[v] = p,
                  !.cache[c].creds = Without(@, gone)] = cut
    <3> HIDE DEF gone
    <3> QED BY DEF Good, WellFormed, Record, DataFields, CacheMap, CacheFields
  <2> QED BY <2>1, Zenon DEF SetPrincipal
<1>3. CompatSetPrincipal(d, c, v, p) = Changed(named, c)
  BY DEF CompatSetPrincipal
<1> HIDE DEF named, rest, gone
<1>4. Preserves(cut, named)
  BY <1>1, CredsKeep DEF Preserves
<1> HIDE DEF cut
<1>5. Good(DeleteCreds(cut, gone)) /\ Alike(DeleteCreds(cut, gone), cut)
  BY <1>4, DeleteCredsKeeps DEF Preserves
<1>6. Preserves(Changed(DeleteCreds(cut, gone), c), DeleteCreds(cut, gone)) /\ Preserves(Changed(named, c), named)
  BY <1>1, <1>5, StampsKeep DEF Preserves
<1> QED BY <1>1, <1>2, <1>3, <1>4, <1>5, <1>6, AlikeIsTransitive DEF Preserves

(* Removing credentials keeps the data good.                               *)
LEMMA RemoveCredentialsKeeps ==
  ASSUME NEW d, Good(d), NEW c \in DOMAIN d.cache, NEW k
  PROVE  Good(RemoveCredentials(d, c, k))
<1> DEFINE less == [d EXCEPT !.cache[c].creds = RemoveFirst(@, k)]
           cut == IF k \in ToSet(d.cache[c].creds) THEN DeleteCreds(less, {k}) ELSE d
<1>1. Good(less)
  <2>1. less = [d EXCEPT !.cache[c].creds = RemoveFirst(d.cache[c].creds, k)]
    BY DEF Good, WellFormed, Record, DataFields, CacheMap, CacheFields
  <2> QED BY <2>1, CredsKeep DEF Preserves
<1> HIDE DEF less
<1>2. Good(cut)
  BY <1>1, DeleteCredsKeeps
<1>3. RemoveCredentials(d, c, k) = Changed(cut, c)
  BY DEF RemoveCredentials, less
<1> HIDE DEF cut
<1> QED BY <1>2, <1>3, StampsKeep DEF Preserves

(* Storing credentials keeps the data good: their ID is fresh.             *)
LEMMA StoreCredentialsKeeps ==
  ASSUME NEW d, Good(d), NEW c \in DOMAIN d.cache, NEW new
  PROVE  Good(StoreCredentials(d, c, new))
<1> DEFINE k == d.nextCred
           m == [x \in DOMAIN d.cred \cup {k} |-> IF x = k THEN new ELSE d.cred[x]]
           more == [d EXCEPT !.cred = m, !.nextCred = k + 1]
           e == [more EXCEPT !.cache[c].creds = Append(d.cache[c].creds, k)]
<1>1. StoreCredentials(d, c, new) = Changed(e, c)
  <2>1. [d EXCEPT !.cred = [x \in DOMAIN @ \cup {k} |-> IF x = k THEN new ELSE @[x]],
                  !.nextCred = k + 1,
                  !.cache[c].creds = Append(@, k)] = e
    <3>1. d = [f \in DataFields |-> d[f]]
      BY DEF Good, WellFormed, Record
    <3> QED BY <3>1 DEF DataFields
  <2> QED BY <2>1, Zenon DEF StoreCredentials
<1>2. Below(DOMAIN m, k + 1) /\ m = [x \in DOMAIN m |-> m[x]]
  BY DEF Good, Below
<1> HIDE DEF m, k
<1>3. /\ Record(more) /\ more.order = d.order /\ more.nextCache = d.nextCache
      /\ more.cache = d.cache /\ more.cred = m /\ more.nextCred = k + 1
  BY DEF Good, WellFormed, Record, DataFields
<1> HIDE DEF more
<1>4. Alike(more, d)
  BY <1>2, <1>3 DEF Good, WellFormed, Alike
<1>5. Good(more)
  BY <1>2, <1>3, <1>4, AlikeIsGood
<1>6. Preserves(e, more)
  BY <1>3, <1>5, CredsKeep
<1> HIDE DEF e
<1> QED BY <1>1, <1>6, StampsKeep DEF Preserves

(* A name that is known leads to a live cache of that name.                *)
LEMMA FindsLive ==
  ASSUME NEW d, Good(d), NEW n, Known(d, n)
  PROVE  FindCCache(d, n) \in DOMAIN d.cache /\ d.cache[FindCCache(d, n)].name = n
<1> DEFINE First(j) == /\ d.cache[d.order[j]].name = n
                       /\ \A l \in 1 .. j - 1 : d.cache[d.order[l]].name # n
<1>1. PICK c \in ToSet(d.order) : d.cache[c].name = n
  BY DEF Known, Named
<1>2. PICK j \in DOMAIN d.order : d.order[j] = c
  BY <1>1 DEF ToSet
<1>3. ASSUME NEW b \in DOMAIN d.order, d.cache[d.order[b]].name = n PROVE d.order[b] = c
  BY <1>1, <1>2, <1>3 DEF Good, Listed
<1>4. First(j)
  <2>1. ASSUME NEW l \in 1 .. j - 1 PROVE d.cache[d.order[l]].name # n
    <3>1. l \in DOMAIN d.order /\ l # j
      BY <1>2 DEF Good, Listed
    <3> QED BY <1>2, <1>3, <3>1 DEF Good, Listed, IsInjective
  <2> QED BY <1>1, <1>2, <2>1
<1> DEFINE i == CHOOSE b \in DOMAIN d.order : First(b)
<1>5. i \in DOMAIN d.order /\ d.cache[d.order[i]].name = n
  BY <1>4
<1>6. FindCCache(d, n) = d.order[i]
  BY DEF FindCCache
<1> HIDE DEF i
<1> QED BY <1>5, <1>6 DEF Good, Listed

(* A cache with a new ID and a new name, at the end of the list.           *)
LEMMA CreateCCacheKeeps ==
  ASSUME NEW d, Good(d), NEW n, NEW v, NEW p
  PROVE  Good(CreateCCache(d, n, v, p).d)
<1>1. CASE Known(d, n)
  <2>1. FindCCache(d, n) \in DOMAIN d.cache
    BY <1>1, FindsLive
  <2> DEFINE c == FindCCache(d, n)
  <2>2. CreateCCache(d, n, v, p).d = ContextChanged(SetPrincipal(d, c, v, p))
    BY <1>1 DEF CreateCCache
  <2> QED BY <2>1, <2>2, SetPrincipalKeeps, StampsKeep DEF Preserves
<1>2. CASE ~Known(d, n)
  <2> DEFINE c == d.nextCache
             new == [name |-> n, principal |-> [w \in Version |-> IF w = v THEN p ELSE None], creds |-> <<>>]
             m == [x \in DOMAIN d.cache \cup {c} |-> IF x = c THEN new ELSE d.cache[x]]
             e == [NewCCache(d, n, v, p) EXCEPT !.order = Append(@, c)]
  <2>1. CreateCCache(d, n, v, p).d = ContextChanged(e)
    BY <1>2 DEF CreateCCache
  <2>2. /\ Record(e) /\ e.order = Append(d.order, c) /\ e.nextCache = c + 1 /\ e.cache = m
        /\ e.cred = d.cred /\ e.nextCred = d.nextCred
    <3>1. Record(d)
      BY DEF Good, WellFormed
    <3> HIDE DEF new
    <3>2. NewCCache(d, n, v, p) = Changed([d EXCEPT !.cache = m, !.nextCache = c + 1], c)
      BY DEF NewCCache, new
    <3> HIDE DEF m, c
    <3> QED BY <3>1, <3>2 DEF Record, DataFields, Changed
  <2> HIDE DEF e
  <2>3. new = [f \in CacheFields |-> new[f]] /\ new.name = n
    BY DEF CacheFields
  <2> HIDE DEF new
  <2>4. c \in Nat /\ c \notin DOMAIN d.cache /\ DOMAIN m = DOMAIN d.cache \cup {c}
    BY DEF Good, Below
  <2>5. CacheMap(m)
    BY <2>3, <2>4 DEF Good, WellFormed, CacheMap
  <2>6. Below(DOMAIN m, c + 1)
    BY <2>4 DEF Good, Below
  <2>7. \A b \in DOMAIN d.cache : d.cache[b].name # n
    BY <1>2 DEF Known, Named, Good, Listed
  <2>8. Listed(Append(d.order, c), m)
    <3> DEFINE s == Append(d.order, c)
    <3>1. d.order \in Seq(DOMAIN d.cache) /\ IsInjective(d.order) /\ DOMAIN d.cache \subseteq ToSet(d.order)
      BY DEF Good, Listed
    <3>2. /\ s \in Seq(DOMAIN m) /\ Len(s) = Len(d.order) + 1 /\ s[Len(d.order) + 1] = c
          /\ \A i \in 1 .. Len(d.order) : s[i] = d.order[i] /\ d.order[i] \in DOMAIN d.cache
      BY <2>4, <3>1
    <3>3. DOMAIN m \subseteq ToSet(s)
      BY <2>4, <3>1, <3>2 DEF ToSet
    <3>4. IsInjective(s)
      BY <2>4, <3>1, <3>2 DEF IsInjective
    <3>5. \A a, b \in DOMAIN m : m[a].name = m[b].name => a = b
      BY <2>3, <2>4, <2>7 DEF Good, Listed
    <3> QED BY <3>2, <3>3, <3>4, <3>5 DEF Listed
  <2>9. Good(e)
    BY <2>2, <2>5, <2>6, <2>8 DEF Good, WellFormed
  <2> QED BY <2>1, <2>9, StampsKeep DEF Preserves
<1> QED BY <1>1, <1>2

(* The creations that choose the name themselves keep the data good.       *)
LEMMA CreatesKeep ==
  ASSUME NEW d, Good(d), NEW v, NEW p
  PROVE  Good(CreateDefaultCCache(d, v, p).d) /\ Good(CreateNewCCache(d, v, p).d)
<1>1. Good(CreateDefaultCCache(d, v, p).d)
  BY CreateCCacheKeeps DEF CreateDefaultCCache
<1>2. CASE d.order = <<>>
  BY <1>1, <1>2 DEF CreateNewCCache
<1>3. CASE d.order # <<>>
  <2> DEFINE i == CHOOSE j \in DOMAIN NewNames :
                    /\ ~Known(d, NewNames[j])
                    /\ \A l \in 1 .. j - 1 : Known(d, NewNames[l])
  <2>1. CreateNewCCache(d, v, p) = CreateCCache(d, NewNames[i], v, p)
    BY <1>3 DEF CreateNewCCache
  <2> HIDE DEF i
  <2> QED BY <1>1, <2>1, CreateCCacheKeeps
<1> QED BY <1>2, <1>3

(* RemoveCCache leaves a list of the others.                               *)
LEMMA RemoveCCacheLists ==
  ASSUME NEW d, Good(d), NEW c \in DOMAIN d.cache
  PROVE  LET r == RemoveCCache(d, c)
         IN  /\ Record(r) /\ r.cache = d.cache /\ r.nextCache = d.nextCache
             /\ r.cred = d.cred /\ r.nextCred = d.nextCred
             /\ r.order \in Seq(DOMAIN d.cache \ {c}) /\ IsInjective(r.order)
             /\ DOMAIN d.cache \ {c} \subseteq ToSet(r.order)
             /\ d.order[1] # c => r.order[1] = d.order[1]
<1> DEFINE r == RemoveCCache(d, c)
<1>1. /\ Record(r) /\ r.cache = d.cache /\ r.nextCache = d.nextCache
      /\ r.cred = d.cred /\ r.nextCred = d.nextCred /\ r.order = RemoveFirst(d.order, c)
  BY DEF RemoveCCache, ContextChanged, Good, WellFormed, Record, DataFields
<1>2. /\ d.order \in Seq(DOMAIN d.cache) /\ IsInjective(d.order)
      /\ DOMAIN d.cache \subseteq ToSet(d.order)
  BY DEF Good, Listed
<1>3. /\ r.order \in Seq(DOMAIN d.cache \ {c}) /\ IsInjective(r.order)
      /\ ToSet(d.order) \ {c} \subseteq ToSet(r.order)
      /\ d.order[1] # c => r.order[1] = d.order[1]
  <2> DEFINE S == DOMAIN d.cache
             o == d.order
  <2>1. o \in Seq(S) /\ IsInjective(o) /\ c \in ToSet(o)
    BY <1>2
  <2> HIDE DEF S, o
  <2>2. LET f == RemoveFirst(o, c)
        IN  f \in Seq(S \ {c}) /\ IsInjective(f) /\ ToSet(o) \ {c} \subseteq ToSet(f)
            /\ (o[1] # c => f[1] = o[1])
    BY <2>1, RemoveFirstProperties
  <2> QED BY <1>1, <2>2, Zenon DEF S, o
<1> QED BY <1>1, <1>2, <1>3

(* Making a cache the default keeps the data good.                         *)
LEMMA SetDefaultKeeps ==
  ASSUME NEW d, Good(d), NEW c \in DOMAIN d.cache
  PROVE  Good(SetDefault(d, c))
<1> DEFINE r == RemoveCCache(d, c)
           e == [r EXCEPT !.order = <<c>> \o @]
           s == <<c>> \o r.order
<1>1. SetDefault(d, c) = ContextChanged(e)
  BY DEF SetDefault
<1>2. /\ Record(r) /\ r.cache = d.cache /\ r.nextCache = d.nextCache
      /\ r.cred = d.cred /\ r.nextCred = d.nextCred
      /\ r.order \in Seq(DOMAIN d.cache \ {c}) /\ IsInjective(r.order)
      /\ DOMAIN d.cache \ {c} \subseteq ToSet(r.order)
  BY RemoveCCacheLists
<1> HIDE DEF r
<1>3. /\ Record(e) /\ e.cache = d.cache /\ e.nextCache = d.nextCache
      /\ e.cred = d.cred /\ e.nextCred = d.nextCred /\ e.order = s
  BY <1>2 DEF Record, DataFields
<1>4. Listed(s, d.cache)
  <2>1. /\ s \in Seq(DOMAIN d.cache) /\ Len(s) = Len(r.order) + 1 /\ s[1] = c
        /\ \A i \in 1 .. Len(r.order) : s[i + 1] = r.order[i] /\ r.order[i] \in DOMAIN d.cache \ {c}
    <3>1. r.order \in Seq(DOMAIN d.cache) /\ <<c>> \in Seq(DOMAIN d.cache) /\ Len(<<c>>) = 1 /\ <<c>>[1] = c
      <4>1. r.order \in Seq(DOMAIN d.cache)
        BY <1>2, SeqMonotonic
      <4>2. <<c>> \in Seq(DOMAIN d.cache)
        <5> DEFINE S == DOMAIN d.cache
        <5>1. c \in S
          OBVIOUS
        <5> HIDE DEF S
        <5>2. <<c>> \in Seq(S)
          BY <5>1
        <5> QED BY <5>2 DEF S
      <4> QED BY <4>1, <4>2
    <3>2. /\ s \in Seq(DOMAIN d.cache) /\ Len(s) = 1 + Len(r.order)
          /\ \A i \in 1 .. 1 + Len(r.order) : s[i] = IF i <= 1 THEN <<c>>[i] ELSE r.order[i - 1]
      BY <3>1, ConcatProperties
    <3> HIDE DEF s
    <3>3. Len(s) = Len(r.order) + 1 /\ s[1] = c
      BY <3>1, <3>2
    <3>4. \A i \in 1 .. Len(r.order) : s[i + 1] = r.order[i]
      BY <3>1, <3>2
    <3>5. \A i \in 1 .. Len(r.order) : r.order[i] \in DOMAIN d.cache \ {c}
      BY <1>2
    <3> QED BY <3>2, <3>3, <3>4, <3>5
  <2> HIDE DEF s
  <2>2. ASSUME NEW x \in DOMAIN d.cache PROVE x \in ToSet(s)
    <3>1. CASE x = c
      BY <2>1, <3>1 DEF ToSet
    <3>2. CASE x # c
      <4>1. PICK i \in 1 .. Len(r.order) : r.order[i] = x
        BY <1>2, <3>2 DEF ToSet
      <4> QED BY <2>1, <4>1 DEF ToSet
    <3> QED BY <3>1, <3>2
  <2>3. IsInjective(s)
    <3>1. ASSUME NEW i \in 1 .. Len(s), NEW j \in 1 .. Len(s), s[i] = s[j] PROVE i = j
      <4>1. Len(r.order) \in Nat /\ DOMAIN r.order = 1 .. Len(r.order)
        BY <1>2
      <4>2. i - 1 \in 1 .. Len(r.order) \/ i = 1
        BY <2>1, <4>1
      <4>3. j - 1 \in 1 .. Len(r.order) \/ j = 1
        BY <2>1, <4>1
      <4>4. \A k \in 1 .. Len(r.order) : s[k + 1] = r.order[k] /\ s[k + 1] # c
        BY <2>1
      <4>5. i = i - 1 + 1 /\ j = j - 1 + 1
        BY <2>1, <4>1
      <4>6. CASE i = 1 /\ j # 1
        BY <2>1, <3>1, <4>3, <4>4, <4>5, <4>6
      <4>7. CASE i # 1 /\ j = 1
        BY <2>1, <3>1, <4>2, <4>4, <4>5, <4>7
      <4>8. CASE i # 1 /\ j # 1
        <5>1. r.order[i - 1] = r.order[j - 1]
          BY <3>1, <4>2, <4>3, <4>4, <4>5, <4>8
        <5>2. i - 1 = j - 1
          BY <1>2, <4>1, <4>2, <4>3, <4>8, <5>1 DEF IsInjective
        <5> QED BY <4>5, <5>2, Zenon
      <4> QED BY <4>6, <4>7, <4>8
    <3> QED BY <2>1, <3>1 DEF IsInjective
  <2> QED BY <2>1, <2>2, <2>3 DEF Good, Listed
<1>5. Good(e)
  BY <1>3, <1>4 DEF Good, WellFormed
<1> QED BY <1>1, <1>5, StampsKeep DEF Preserves

(* Destroying a cache keeps the data good.                                 *)
LEMMA DestroyKeeps ==
  ASSUME NEW d, Good(d), NEW c \in DOMAIN d.cache
  PROVE  Good(Destroy(d, c))
<1> DEFINE r == RemoveCCache(d, c)
           m == [x \in DOMAIN d.cache \ {c} |-> d.cache[x]]
           e == Destroy(d, c)
<1>1. /\ Record(r) /\ r.cache = d.cache /\ r.nextCache = d.nextCache
      /\ r.cred = d.cred /\ r.nextCred = d.nextCred
      /\ r.order \in Seq(DOMAIN d.cache \ {c}) /\ IsInjective(r.order)
      /\ DOMAIN d.cache \ {c} \subseteq ToSet(r.order)
  BY RemoveCCacheLists
<1> HIDE DEF r
<1>2. /\ Record(e) /\ e.cache = m /\ e.nextCache = d.nextCache
      /\ e.cred = d.cred /\ e.nextCred = d.nextCred /\ e.order = r.order
  BY <1>1 DEF Destroy, Record, DataFields, r
<1>3. CacheMap(m) /\ DOMAIN m = DOMAIN d.cache \ {c} /\ \A x \in DOMAIN m : m[x] = d.cache[x]
  BY DEF Good, WellFormed, CacheMap
<1> HIDE DEF e, m
<1>4. Listed(r.order, m)
  BY <1>1, <1>3 DEF Good, Listed
<1> QED BY <1>2, <1>3, <1>4 DEF Good, WellFormed, Below, e

(* Moving a cache onto another keeps the data good.                        *)
LEMMA MoveKeeps ==
  ASSUME NEW d, Good(d), NEW c \in DOMAIN d.cache, NEW to \in DOMAIN d.cache
  PROVE  Good(Move(d, c, to))
<1> DEFINE m == [d.cache EXCEPT ![to] = [d.cache[c] EXCEPT !.name = d.cache[to].name],
                                ![c]  = [d.cache[to] EXCEPT !.name = d.cache[c].name]]
           e == [d EXCEPT !.cache = m]
<1>1. Move(d, c, to) = Destroy(Changed(e, to), c)
  <2>1. [d EXCEPT !.cache[to] = [d.cache[c] EXCEPT !.name = d.cache[to].name],
                  !.cache[c]  = [d.cache[to] EXCEPT !.name = d.cache[c].name]] = e
    BY DEF Good, WellFormed, Record, DataFields
  <2> QED BY <2>1, Zenon DEF Move
<1>2. CacheMap(m) /\ DOMAIN m = DOMAIN d.cache /\ \A b \in DOMAIN d.cache : m[b].name = d.cache[b].name
  <2> DEFINE x == [d.cache[c] EXCEPT !.name = d.cache[to].name]
             y == [d.cache[to] EXCEPT !.name = d.cache[c].name]
  <2>1. /\ x = [f \in CacheFields |-> x[f]] /\ x.name = d.cache[to].name
        /\ y = [f \in CacheFields |-> y[f]] /\ y.name = d.cache[c].name
    BY DEF Good, WellFormed, CacheMap, CacheFields
  <2>2. m = [d.cache EXCEPT ![to] = x, ![c] = y]
    OBVIOUS
  <2> HIDE DEF x, y, m
  <2>3. /\ m = [b \in DOMAIN m |-> m[b]] /\ DOMAIN m = DOMAIN d.cache /\ m[c] = y
        /\ \A b \in DOMAIN d.cache \ {c} : m[b] = IF b = to THEN x ELSE d.cache[b]
    BY <2>2 DEF Good, WellFormed, CacheMap
  <2> QED BY <2>1, <2>3 DEF Good, WellFormed, CacheMap
<1> HIDE DEF m
<1>3. /\ Record(e) /\ e.order = d.order /\ e.nextCache = d.nextCache
      /\ e.cred = d.cred /\ e.nextCred = d.nextCred /\ e.cache = m
  BY DEF Good, WellFormed, Record, DataFields
<1> HIDE DEF e
<1>4. Preserves(e, d)
  BY <1>2, <1>3, SameIsKept
<1>5. Preserves(Changed(e, to), e)
  BY <1>4, StampsKeep DEF Preserves
<1>6. c \in DOMAIN Changed(e, to).cache
  BY <1>4, <1>5 DEF Preserves, Alike
<1> QED BY <1>1, <1>5, <1>6, DestroyKeeps DEF Preserves

(***************************************************************************)
(* What each method does to the record, field by field.                    *)
(***************************************************************************)
(* From d to e the contents of cache c changed, and no other cache's, and  *)
(* the change is stamped.                                                  *)
ChangesCache(d, e, c) ==
  /\ e.order = d.order /\ e.nextCache = d.nextCache /\ e.pinned = d.pinned
  /\ e.stamped = TRUE /\ e.touched = d.touched \cup {c}
  /\ DOMAIN e.cache = DOMAIN d.cache
  /\ e.cache[c].name = d.cache[c].name
  /\ \A b \in DOMAIN d.cache \ {c} : e.cache[b] = d.cache[b]

CredsDeleted(d, e, S) ==
  /\ Record(e) /\ e.order = d.order /\ e.nextCache = d.nextCache
  /\ e.pinned = d.pinned /\ e.stamped = d.stamped /\ e.touched = d.touched
  /\ e.cache = d.cache /\ e.nextCred \in {0, d.nextCred}
  /\ e.cred = [k \in DOMAIN d.cred \ S |-> d.cred[k]]

(* What deleting a set of credentials does to each field.                  *)
LEMMA DeleteCredsDoes ==
  ASSUME NEW d, Record(d), NEW S
  PROVE  CredsDeleted(d, DeleteCreds(d, S), S)
BY DEF Record, DataFields, DeleteCreds, CredsDeleted

Stamped(d, e, c) ==
  /\ Record(e) /\ e.order = d.order /\ e.nextCache = d.nextCache
  /\ e.pinned = d.pinned /\ e.stamped = TRUE /\ e.touched = d.touched \cup {c}
  /\ e.cache = d.cache /\ e.nextCred = d.nextCred /\ e.cred = d.cred

(* What the cache's Changed() does to each field.                          *)
LEMMA ChangedDoes ==
  ASSUME NEW d, Record(d), NEW c
  PROVE  Stamped(d, Changed(d, c), c)
BY DEF Record, DataFields, Changed, Stamped

PrincipalSet(d, e, c, v, p) ==
  LET gone == OfVersion(d, c, v)
  IN  /\ ChangesCache(d, e, c)
      /\ e.cache[c].principal = [d.cache[c].principal EXCEPT ![v] = p]
      /\ e.cache[c].creds = Without(d.cache[c].creds, gone)
      /\ e.cred = [k \in DOMAIN d.cred \ gone |-> d.cred[k]]
      /\ e.nextCred \in {0, d.nextCred}

(* What SetPrincipal does: the credentials of the version go.              *)
LEMMA SetPrincipalDoes ==
  ASSUME NEW d, WellFormed(d), NEW c \in DOMAIN d.cache, NEW v, NEW p
  PROVE  PrincipalSet(d, SetPrincipal(d, c, v, p), c, v, p)
<1> DEFINE gone == OfVersion(d, c, v)
           rest == Without(d.cache[c].creds, gone)
           cut == [d EXCEPT !.cache[c].principal[v] = p, !.cache[c].creds = rest]
           less == DeleteCreds(cut, gone)
           e == Changed(less, c)
<1>1. SetPrincipal(d, c, v, p) = e
  <2>1. [d EXCEPT !.cache[c].principal[v] = p,
                  !.cache[c].creds = Without(@, gone)] = cut
    <3> HIDE DEF gone
    <3> QED BY DEF WellFormed, Record, DataFields, CacheMap, CacheFields
  <2> QED BY <2>1, Zenon DEF SetPrincipal
<1> HIDE DEF gone, rest
<1>2. /\ Record(cut) /\ cut.order = d.order /\ cut.nextCache = d.nextCache
      /\ cut.pinned = d.pinned /\ cut.touched = d.touched /\ cut.nextCred = d.nextCred
      /\ cut.cred = d.cred /\ DOMAIN cut.cache = DOMAIN d.cache
      /\ \A b \in DOMAIN d.cache \ {c} : cut.cache[b] = d.cache[b]
      /\ cut.cache[c].name = d.cache[c].name /\ cut.cache[c].creds = rest
      /\ cut.cache[c].principal = [d.cache[c].principal EXCEPT ![v] = p]
  <2> DEFINE pr == [d.cache[c].principal EXCEPT ![v] = p]
             x == [d.cache[c] EXCEPT !.principal = pr, !.creds = rest]
             m == [d.cache EXCEPT ![c] = x]
  <2>1. cut = [d EXCEPT !.cache = m]
    <3> DEFINE named == [d EXCEPT !.cache[c].principal[v] = p]
               y == [d.cache[c] EXCEPT !.principal = pr]
    <3>1. cut = [named EXCEPT !.cache[c].creds = rest]
      BY DEF WellFormed, Record, DataFields, CacheMap, CacheFields
    <3>2. named = [d EXCEPT !.cache = [d.cache EXCEPT ![c] = y]]
      BY DEF WellFormed, Record, DataFields, CacheMap, CacheFields
    <3> HIDE DEF cut, named, pr
    <3>3. x = [y EXCEPT !.creds = rest]
      BY DEF WellFormed, CacheMap, CacheFields
    <3> HIDE DEF x, y
    <3> DEFINE more == [d.cache EXCEPT ![c] = y]
    <3>4. more[c] = y /\ [more EXCEPT ![c] = x] = m
      BY DEF WellFormed, CacheMap
    <3> HIDE DEF more, m
    <3>5. Record(named) /\ named.cache = more
      BY <3>2 DEF WellFormed, Record, DataFields, more
    <3>6. cut = [named EXCEPT !.cache = m]
      BY <3>1, <3>3, <3>4, <3>5 DEF Record, DataFields
    <3>7. [named EXCEPT !.cache = m] = [d EXCEPT !.cache = m]
      BY <3>2 DEF WellFormed, Record, DataFields, more
    <3> QED BY <3>6, <3>7
  <2> HIDE DEF pr
  <2>2. x.name = d.cache[c].name /\ x.creds = rest /\ x.principal = pr
    BY DEF WellFormed, CacheMap, CacheFields
  <2> HIDE DEF x
  <2>3. DOMAIN m = DOMAIN d.cache /\ m[c] = x /\ \A b \in DOMAIN d.cache \ {c} : m[b] = d.cache[b]
    BY DEF WellFormed, CacheMap
  <2> HIDE DEF m, cut
  <2>4. /\ Record(cut) /\ cut.order = d.order /\ cut.nextCache = d.nextCache
        /\ cut.pinned = d.pinned /\ cut.touched = d.touched /\ cut.nextCred = d.nextCred
        /\ cut.cred = d.cred /\ cut.cache = m
    BY <2>1 DEF WellFormed, Record, DataFields
  <2> QED BY <2>2, <2>3, <2>4 DEF pr
<1> HIDE DEF cut
<1>3. /\ Record(less) /\ less.order = d.order /\ less.nextCache = d.nextCache
      /\ less.pinned = d.pinned /\ less.touched = d.touched
      /\ less.cache = cut.cache /\ less.nextCred \in {0, d.nextCred}
      /\ less.cred = [k \in DOMAIN d.cred \ gone |-> d.cred[k]]
  BY <1>2, DeleteCredsDoes DEF CredsDeleted
<1> HIDE DEF less
<1>4. Stamped(less, e, c)
  BY <1>3, ChangedDoes
<1> HIDE DEF e
<1> QED BY <1>1, <1>2, <1>3, <1>4 DEF Stamped, PrincipalSet, ChangesCache, gone, rest

PrincipalChanged(d, e, c, v, p) ==
  /\ ChangesCache(d, e, c)
  /\ e.cache[c].principal = [d.cache[c].principal EXCEPT ![v] = p]
  /\ e.cache[c].creds = d.cache[c].creds
  /\ e.cred = d.cred /\ e.nextCred = d.nextCred

(* What CompatSetPrincipal does: the credentials stay.                     *)
LEMMA CompatSetPrincipalDoes ==
  ASSUME NEW d, WellFormed(d), NEW c \in DOMAIN d.cache, NEW v, NEW p
  PROVE  PrincipalChanged(d, CompatSetPrincipal(d, c, v, p), c, v, p)
BY DEF PrincipalChanged, CompatSetPrincipal, Changed, ChangesCache, WellFormed, Record, DataFields, CacheMap, CacheFields

CredsStored(d, e, c, new) ==
  LET k == d.nextCred
  IN  /\ ChangesCache(d, e, c)
      /\ e.cache[c].principal = d.cache[c].principal
      /\ e.cache[c].creds = Append(d.cache[c].creds, k)
      /\ e.cred = [x \in DOMAIN d.cred \cup {k} |-> IF x = k THEN new ELSE d.cred[x]]
      /\ e.nextCred = k + 1

(* What StoreCredentials does: a new ID at the end of one cache.           *)
LEMMA StoreCredentialsDoes ==
  ASSUME NEW d, WellFormed(d), NEW c \in DOMAIN d.cache, NEW new
  PROVE  CredsStored(d, StoreCredentials(d, c, new), c, new)
BY DEF CredsStored, StoreCredentials, Changed, ChangesCache, WellFormed, Record, DataFields, CacheMap, CacheFields

CredsRemoved(d, e, c, k) ==
  /\ ChangesCache(d, e, c)
  /\ e.cache[c].principal = d.cache[c].principal
  /\ k \in ToSet(d.cache[c].creds)
       => /\ e.cache[c].creds = RemoveFirst(d.cache[c].creds, k)
          /\ e.cred = [x \in DOMAIN d.cred \ {k} |-> d.cred[x]]
          /\ e.nextCred \in {0, d.nextCred}
  /\ k \notin ToSet(d.cache[c].creds)
       => e.cache[c].creds = d.cache[c].creds /\ e.cred = d.cred /\ e.nextCred = d.nextCred

(* What RemoveCredentials does: one credential goes from its cache.        *)
LEMMA RemoveCredentialsDoes ==
  ASSUME NEW d, WellFormed(d), NEW c \in DOMAIN d.cache, NEW k
  PROVE  CredsRemoved(d, RemoveCredentials(d, c, k), c, k)
<1>1. CASE k \notin ToSet(d.cache[c].creds)
  <2>1. RemoveCredentials(d, c, k) = Changed(d, c)
    BY <1>1 DEF RemoveCredentials
  <2> DEFINE e == Changed(d, c)
  <2>2. Stamped(d, e, c)
    BY ChangedDoes DEF WellFormed
  <2> HIDE DEF e
  <2> QED BY <1>1, <2>1, <2>2 DEF Stamped, CredsRemoved, ChangesCache, e
<1>2. CASE k \in ToSet(d.cache[c].creds)
  <2> DEFINE rest == RemoveFirst(d.cache[c].creds, k)
             cut == [d EXCEPT !.cache[c].creds = rest]
             less == DeleteCreds(cut, {k})
             e == Changed(less, c)
  <2>1. RemoveCredentials(d, c, k) = e
    <3>1. [d EXCEPT !.cache[c].creds = RemoveFirst(@, k)] = cut
      BY DEF WellFormed, Record, DataFields, CacheMap, CacheFields
    <3>2. RemoveCredentials(d, c, k)
            = Changed(DeleteCreds([d EXCEPT !.cache[c].creds = RemoveFirst(@, k)], {k}), c)
      BY <1>2 DEF RemoveCredentials
    <3> QED BY <3>1, <3>2, Zenon
  <2> HIDE DEF rest
  <2>2. /\ Record(cut) /\ cut.order = d.order /\ cut.nextCache = d.nextCache
        /\ cut.pinned = d.pinned /\ cut.touched = d.touched /\ cut.nextCred = d.nextCred
        /\ cut.cred = d.cred /\ DOMAIN cut.cache = DOMAIN d.cache
        /\ \A b \in DOMAIN d.cache \ {c} : cut.cache[b] = d.cache[b]
        /\ cut.cache[c].name = d.cache[c].name /\ cut.cache[c].creds = rest
        /\ cut.cache[c].principal = d.cache[c].principal
    BY DEF WellFormed, Record, DataFields, CacheMap, CacheFields
  <2> HIDE DEF cut
  <2>3. /\ Record(less) /\ less.order = d.order /\ less.nextCache = d.nextCache
        /\ less.pinned = d.pinned /\ less.touched = d.touched
        /\ less.cache = cut.cache /\ less.nextCred \in {0, d.nextCred}
        /\ less.cred = [x \in DOMAIN d.cred \ {k} |-> d.cred[x]]
    BY <2>2, DeleteCredsDoes DEF CredsDeleted
  <2> HIDE DEF less
  <2>4. Stamped(less, e, c)
    BY <2>3, ChangedDoes
  <2> HIDE DEF e
  <2> QED BY <1>2, <2>1, <2>2, <2>3, <2>4 DEF Stamped, CredsRemoved, ChangesCache, rest
<1> QED BY <1>1, <1>2

(* A cache is registered under a new ID.                                   *)
CacheMade(d, made, n, v, p) ==
  LET e == made.d
      c == d.nextCache
  IN  /\ made.id = c
      /\ e.order = Append(d.order, c) /\ e.nextCache = c + 1
      /\ e.pinned = d.pinned /\ e.stamped = TRUE /\ e.touched = d.touched \cup {c}
      /\ e.cred = d.cred /\ e.nextCred = d.nextCred
      /\ DOMAIN e.cache = DOMAIN d.cache \cup {c}
      /\ e.cache[c].name = n /\ e.cache[c].creds = <<>>
      /\ e.cache[c].principal = [w \in Version |-> IF w = v THEN p ELSE None]
      /\ \A b \in DOMAIN d.cache \ {c} : e.cache[b] = d.cache[b]

(* What creating a cache of a new name does.                               *)
LEMMA CreateCCacheDoes ==
  ASSUME NEW d, WellFormed(d), NEW n, ~Known(d, n), NEW v, NEW p
  PROVE  CacheMade(d, CreateCCache(d, n, v, p), n, v, p)
<1> DEFINE c == d.nextCache
           x == [name |-> n, principal |-> [w \in Version |-> IF w = v THEN p ELSE None], creds |-> <<>>]
           m == [b \in DOMAIN d.cache \cup {c} |-> IF b = c THEN x ELSE d.cache[b]]
           made == CreateCCache(d, n, v, p)
<1>1. /\ x.name = n /\ x.creds = <<>>
      /\ x.principal = [w \in Version |-> IF w = v THEN p ELSE None]
  OBVIOUS
<1>2. /\ made.d = ContextChanged([NewCCache(d, n, v, p) EXCEPT !.order = Append(@, c)])
      /\ made.id = c
  BY DEF CreateCCache
<1>3. NewCCache(d, n, v, p) = Changed([d EXCEPT !.cache = m, !.nextCache = c + 1], c)
  <2>1. Record(d)
    BY DEF WellFormed
  <2> HIDE DEF x
  <2>2. NewCCache(d, n, v, p)
          = Changed([d EXCEPT !.cache = [b \in DOMAIN @ \cup {c} |-> IF b = c THEN x ELSE @[b]],
                              !.nextCache = c + 1], c)
    BY Zenon DEF NewCCache, x
  <2> QED BY <2>1, <2>2 DEF Record, DataFields
<1> HIDE DEF x, made
<1>4. /\ DOMAIN m = DOMAIN d.cache \cup {c} /\ m[c] = x
      /\ \A b \in DOMAIN d.cache \ {c} : m[b] = d.cache[b]
  OBVIOUS
<1> HIDE DEF m
<1> DEFINE f == [d EXCEPT !.cache = m, !.nextCache = c + 1]
           g == Changed(f, c)
           h == [g EXCEPT !.order = Append(@, c)]
<1>5. /\ Record(f) /\ f.order = d.order /\ f.nextCache = c + 1
      /\ f.pinned = d.pinned /\ f.touched = d.touched
      /\ f.cred = d.cred /\ f.nextCred = d.nextCred /\ f.cache = m
  BY DEF WellFormed, Record, DataFields
<1>6. made.d = ContextChanged(h)
  BY <1>2, <1>3
<1> HIDE DEF f
<1>7. Stamped(f, g, c)
  BY <1>5, ChangedDoes
<1> HIDE DEF g
<1>8. /\ made.d.order = Append(g.order, c) /\ made.d.nextCache = g.nextCache
      /\ made.d.pinned = g.pinned /\ made.d.stamped = TRUE /\ made.d.touched = g.touched
      /\ made.d.cred = g.cred /\ made.d.nextCred = g.nextCred /\ made.d.cache = g.cache
  <2> HIDE DEF c
  <2> QED BY <1>6, <1>7 DEF Stamped, Record, DataFields, ContextChanged
<1> DEFINE e == made.d
<1> HIDE DEF e
<1>9. /\ e.order = Append(d.order, c) /\ e.nextCache = c + 1
      /\ e.pinned = d.pinned /\ e.stamped = TRUE /\ e.touched = d.touched \cup {c}
      /\ e.cred = d.cred /\ e.nextCred = d.nextCred /\ e.cache = m
  BY <1>5, <1>7, <1>8 DEF Stamped, e
<1>10. \A b \in DOMAIN d.cache \ {c} : e.cache[b] = d.cache[b]
  BY <1>4, <1>9
<1>11. DOMAIN e.cache = DOMAIN d.cache \cup {c} /\ e.cache[c].name = n /\ e.cache[c].creds = <<>>
       /\ e.cache[c].principal = [w \in Version |-> IF w = v THEN p ELSE None]
  BY <1>1, <1>4, <1>9
<1> QED BY <1>2, <1>9, <1>10, <1>11, Zenon DEF CacheMade, e, made

(* A known cache is given a principal, as f was.                           *)
CacheRemade(made, f, c) ==
  LET e == made.d
  IN  /\ made.id = c
      /\ e.order = f.order /\ e.nextCache = f.nextCache
      /\ e.pinned = f.pinned /\ e.stamped = TRUE /\ e.touched = f.touched
      /\ e.cred = f.cred /\ e.nextCred = f.nextCred /\ e.cache = f.cache

(* What creating a cache of a known name does: it is emptied of the version. *)
LEMMA CreateKnownDoes ==
  ASSUME NEW d, Good(d), NEW n, Known(d, n), NEW v, NEW p
  PROVE  LET c == FindCCache(d, n)
         IN  CacheRemade(CreateCCache(d, n, v, p), SetPrincipal(d, c, v, p), c)
<1> DEFINE c == FindCCache(d, n)
           f == SetPrincipal(d, c, v, p)
<1>1. Record(f)
  BY FindsLive, SetPrincipalKeeps DEF Good, WellFormed
<1>2. CreateCCache(d, n, v, p) = [d |-> ContextChanged(f), id |-> c]
  BY DEF CreateCCache
<1> HIDE DEF f, c
<1> QED BY <1>1, <1>2 DEF Record, DataFields, ContextChanged, CacheRemade, c, f

CacheGone(d, e, c) ==
  /\ e.order = RemoveFirst(d.order, c) /\ e.nextCache = d.nextCache
  /\ e.pinned = d.pinned /\ e.stamped = TRUE /\ e.touched = d.touched
  /\ e.cred = d.cred /\ e.nextCred = d.nextCred
  /\ DOMAIN e.cache = DOMAIN d.cache \ {c}
  /\ \A b \in DOMAIN d.cache \ {c} : e.cache[b] = d.cache[b]

(* What Destroy does: the cache goes, and nothing else.                    *)
LEMMA DestroyDoes ==
  ASSUME NEW d, WellFormed(d), NEW c
  PROVE  CacheGone(d, Destroy(d, c), c)
BY DEF CacheGone, Destroy, RemoveCCache, ContextChanged, WellFormed, Record, DataFields

DefaultSet(d, e) ==
  /\ e.nextCache = d.nextCache /\ e.pinned = d.pinned
  /\ e.stamped = TRUE /\ e.touched = d.touched
  /\ e.cred = d.cred /\ e.nextCred = d.nextCred /\ e.cache = d.cache

(* What SetDefault does: the list changes its order.                       *)
LEMMA SetDefaultDoes ==
  ASSUME NEW d, WellFormed(d), NEW c
  PROVE  DefaultSet(d, SetDefault(d, c))
BY DEF DefaultSet, SetDefault, RemoveCCache, ContextChanged, WellFormed, Record, DataFields

CacheMoved(d, e, c, to) ==
  /\ e.nextCache = d.nextCache /\ e.pinned = d.pinned
  /\ e.stamped = TRUE /\ e.touched = d.touched \cup {to}
  /\ e.cred = d.cred /\ e.nextCred = d.nextCred
  /\ DOMAIN e.cache = DOMAIN d.cache \ {c}
  /\ \A b \in DOMAIN d.cache \ {c} :
       /\ e.cache[b].name = d.cache[b].name
       /\ e.cache[b].principal = d.cache[IF b = to THEN c ELSE b].principal
       /\ e.cache[b].creds = d.cache[IF b = to THEN c ELSE b].creds

(* What Move does: one cache gets the contents of the other, which goes.   *)
LEMMA MoveDoes ==
  ASSUME NEW d, WellFormed(d), NEW c \in DOMAIN d.cache, NEW to \in DOMAIN d.cache
  PROVE  CacheMoved(d, Move(d, c, to), c, to)
<1> DEFINE m == [d.cache EXCEPT ![to] = [d.cache[c] EXCEPT !.name = d.cache[to].name],
                                ![c]  = [d.cache[to] EXCEPT !.name = d.cache[c].name]]
           e == [d EXCEPT !.cache = m]
           f == Changed(e, to)
<1>1. Move(d, c, to) = Destroy(f, c)
  <2>1. [d EXCEPT !.cache[to] = [d.cache[c] EXCEPT !.name = d.cache[to].name],
                  !.cache[c]  = [d.cache[to] EXCEPT !.name = d.cache[c].name]] = e
    BY DEF WellFormed, Record, DataFields
  <2> QED BY <2>1, Zenon DEF Move
<1>2. /\ DOMAIN m = DOMAIN d.cache
      /\ \A b \in DOMAIN d.cache \ {c} :
           /\ m[b].name = d.cache[b].name
           /\ m[b].principal = d.cache[IF b = to THEN c ELSE b].principal
           /\ m[b].creds = d.cache[IF b = to THEN c ELSE b].creds
  <2> DEFINE x == [d.cache[c] EXCEPT !.name = d.cache[to].name]
             y == [d.cache[to] EXCEPT !.name = d.cache[c].name]
  <2>1. x.name = d.cache[to].name /\ x.principal = d.cache[c].principal /\ x.creds = d.cache[c].creds
    BY DEF WellFormed, CacheMap, CacheFields
  <2>3. m = [d.cache EXCEPT ![to] = x, ![c] = y]
    OBVIOUS
  <2> HIDE DEF x, y, m
  <2>2. /\ DOMAIN m = DOMAIN d.cache
        /\ \A b \in DOMAIN d.cache \ {c} : m[b] = IF b = to THEN x ELSE d.cache[b]
    BY <2>3 DEF WellFormed, CacheMap
  <2> QED BY <2>1, <2>2
<1> HIDE DEF m
<1>3. /\ Record(e) /\ e.nextCache = d.nextCache /\ e.pinned = d.pinned /\ e.touched = d.touched
      /\ e.cred = d.cred /\ e.nextCred = d.nextCred /\ e.cache = m
  BY DEF WellFormed, Record, DataFields
<1> HIDE DEF e
<1>4. Stamped(e, f, to)
  BY <1>3, ChangedDoes
<1> HIDE DEF f
<1>5. /\ Destroy(f, c).nextCache = f.nextCache /\ Destroy(f, c).pinned = f.pinned
      /\ Destroy(f, c).stamped = TRUE /\ Destroy(f, c).touched = f.touched
      /\ Destroy(f, c).cred = f.cred /\ Destroy(f, c).nextCred = f.nextCred
      /\ DOMAIN Destroy(f, c).cache = DOMAIN f.cache \ {c}
      /\ \A b \in DOMAIN f.cache \ {c} : Destroy(f, c).cache[b] = f.cache[b]
  BY <1>4 DEF Stamped, Destroy, RemoveCCache, ContextChanged, Record, DataFields
<1> QED BY <1>1, <1>2, <1>3, <1>4, <1>5 DEF Stamped, CacheMoved

(* What forgetting the stamps and pinning do to each field.                *)
LEMMA StampsDo ==
  ASSUME NEW d, WellFormed(d)
  PROVE  /\ Quiet(d).cache = d.cache /\ Quiet(d).order = d.order /\ Quiet(d).cred = d.cred
         /\ Quiet(d).nextCache = d.nextCache /\ Quiet(d).nextCred = d.nextCred
         /\ Quiet(d).pinned = d.pinned /\ Quiet(d).stamped = FALSE /\ Quiet(d).touched = {}
         /\ Pin(d).cache = d.cache /\ Pin(d).order = d.order /\ Pin(d).cred = d.cred
         /\ Pin(d).nextCache = d.nextCache /\ Pin(d).nextCred = d.nextCred
         /\ Pin(d).pinned = TRUE /\ Pin(d).stamped = d.stamped /\ Pin(d).touched = d.touched
BY DEF Quiet, Pin, WellFormed, Record, DataFields

(***************************************************************************)
(* Who owns the credentials.                                               *)
(***************************************************************************)
OwnsOnce(d) ==
  /\ \A c \in DOMAIN d.cache :
       d.cache[c].creds \in Seq(DOMAIN d.cred) /\ IsInjective(d.cache[c].creds)
  /\ \A c, e \in DOMAIN d.cache :
       c # e => ToSet(d.cache[c].creds) \cap ToSet(d.cache[e].creds) = {}

(* A sequence whose members are in a set is a sequence over that set.      *)
LEMMA SeqOfMembers ==
  ASSUME NEW S, NEW s \in Seq(S), NEW T, ToSet(s) \subseteq T
  PROVE  s \in Seq(T)
<1>1. \A i \in 1 .. Len(s) : s[i] \in T
  BY DEF ToSet
<1> QED BY <1>1, SeqDef

(* The members of a sequence over a set are in it.                         *)
LEMMA MembersOfSeq ==
  ASSUME NEW S, NEW s \in Seq(S)
  PROVE  ToSet(s) \subseteq S
BY DEF ToSet

(* The credentials of one cache are replaced by others of its own or by    *)
(* new ones, and those of the other caches stay.                           *)
LEMMA OwnsOnceAfter ==
  ASSUME NEW d, OwnsOnce(d), NEW e, NEW c,
         DOMAIN e.cache \subseteq DOMAIN d.cache \cup {c},
         \A b \in DOMAIN e.cache \ {c} :
           /\ e.cache[b] = d.cache[b]
           /\ ToSet(d.cache[b].creds) \subseteq DOMAIN e.cred
           /\ ToSet(d.cache[b].creds) \cap ToSet(e.cache[c].creds) = {},
         e.cache[c].creds \in Seq(DOMAIN e.cred), IsInjective(e.cache[c].creds)
  PROVE  OwnsOnce(e)
<1>1. ASSUME NEW b \in DOMAIN e.cache
      PROVE  e.cache[b].creds \in Seq(DOMAIN e.cred) /\ IsInjective(e.cache[b].creds)
  <2>1. CASE b = c
    BY <2>1
  <2>2. CASE b # c
    <3> DEFINE s == d.cache[b].creds
    <3>1. s \in Seq(DOMAIN d.cred) /\ IsInjective(s) /\ e.cache[b].creds = s
      BY <2>2 DEF OwnsOnce
    <3>2. ToSet(s) \subseteq DOMAIN e.cred
      BY <2>2
    <3> HIDE DEF s
    <3>3. s \in Seq(DOMAIN e.cred)
      BY <3>1, <3>2, SeqOfMembers
    <3> QED BY <3>1, <3>3
  <2> QED BY <2>1, <2>2
<1>2. ASSUME NEW a \in DOMAIN e.cache, NEW b \in DOMAIN e.cache, a # b
      PROVE  ToSet(e.cache[a].creds) \cap ToSet(e.cache[b].creds) = {}
  <2>1. CASE a = c
    BY <1>2, <2>1
  <2>2. CASE b = c
    BY <1>2, <2>2
  <2>3. CASE a # c /\ b # c
    BY <1>2, <2>3 DEF OwnsOnce
  <2> QED BY <2>1, <2>2, <2>3
<1> QED BY <1>1, <1>2 DEF OwnsOnce

(* What leaves the caches, or some of them, and the credentials, as they   *)
(* are.                                                                    *)
LEMMA OwnsOnceStays ==
  ASSUME NEW d, OwnsOnce(d), NEW e, DOMAIN e.cache \subseteq DOMAIN d.cache, e.cred = d.cred,
         \A b \in DOMAIN e.cache : e.cache[b].creds = d.cache[b].creds
  PROVE  OwnsOnce(e)
BY DEF OwnsOnce

(* Both ways to set a principal leave each credential to one cache.        *)
LEMMA SetPrincipalOwns ==
  ASSUME NEW d, WellFormed(d), OwnsOnce(d), NEW c \in DOMAIN d.cache, NEW v, NEW p
  PROVE  OwnsOnce(SetPrincipal(d, c, v, p)) /\ OwnsOnce(CompatSetPrincipal(d, c, v, p))
<1> DEFINE e == SetPrincipal(d, c, v, p)
           f == CompatSetPrincipal(d, c, v, p)
           gone == OfVersion(d, c, v)
           s == d.cache[c].creds
           r == Without(s, gone)
<1>0. PrincipalSet(d, e, c, v, p) /\ PrincipalChanged(d, f, c, v, p)
  BY SetPrincipalDoes, CompatSetPrincipalDoes
<1> HIDE DEF e, f
<1>1. /\ DOMAIN e.cache = DOMAIN d.cache /\ e.cache[c].creds = r
      /\ \A b \in DOMAIN d.cache \ {c} : e.cache[b] = d.cache[b]
      /\ e.cred = [k \in DOMAIN d.cred \ gone |-> d.cred[k]]
  BY <1>0 DEF PrincipalSet, ChangesCache
<1>2. /\ DOMAIN f.cache = DOMAIN d.cache /\ f.cache[c].creds = s /\ f.cred = d.cred
      /\ \A b \in DOMAIN d.cache \ {c} : f.cache[b] = d.cache[b]
  BY <1>0 DEF PrincipalChanged, ChangesCache
<1>3. OwnsOnce(f)
  <2>1. \A b \in DOMAIN f.cache : f.cache[b].creds = d.cache[b].creds
    BY <1>2
  <2> QED BY <1>2, <2>1, OwnsOnceStays
<1>4. gone \subseteq ToSet(s) /\ s \in Seq(DOMAIN d.cred) /\ IsInjective(s)
  BY DEF OfVersion, OwnsOnce
<1> HIDE DEF gone
<1>5. \A b \in DOMAIN d.cache \ {c} : ToSet(d.cache[b].creds) \cap ToSet(s) = {}
  BY DEF OwnsOnce
<1>6. \A b \in DOMAIN d.cache : ToSet(d.cache[b].creds) \subseteq DOMAIN d.cred
  BY MembersOfSeq DEF OwnsOnce
<1> HIDE DEF s
<1>7. r \in Seq(DOMAIN d.cred \ gone) /\ IsInjective(r) /\ ToSet(r) = ToSet(s) \ gone
  BY <1>4, WithoutProperties
<1> HIDE DEF r
<1>8. DOMAIN e.cred = DOMAIN d.cred \ gone
  BY <1>1
<1>9. ASSUME NEW b \in DOMAIN e.cache \ {c}
      PROVE  /\ e.cache[b] = d.cache[b]
             /\ ToSet(d.cache[b].creds) \subseteq DOMAIN e.cred
             /\ ToSet(d.cache[b].creds) \cap ToSet(e.cache[c].creds) = {}
  <2>1. ToSet(d.cache[b].creds) \cap ToSet(s) = {} /\ ToSet(d.cache[b].creds) \subseteq DOMAIN d.cred
    BY <1>1, <1>5, <1>6
  <2> QED BY <1>1, <1>4, <1>7, <1>8, <2>1
<1>10. OwnsOnce(e)
  <2>1. e.cache[c].creds \in Seq(DOMAIN e.cred) /\ IsInjective(e.cache[c].creds)
    BY <1>1, <1>7, <1>8
  <2> QED BY <1>1, <1>9, <2>1, OwnsOnceAfter
<1> QED BY <1>3, <1>10 DEF e, f

(* Storing credentials leaves each to one cache.                           *)
LEMMA StoreCredentialsOwns ==
  ASSUME NEW d, Good(d), OwnsOnce(d), NEW c \in DOMAIN d.cache, NEW new
  PROVE  OwnsOnce(StoreCredentials(d, c, new))
<1> DEFINE e == StoreCredentials(d, c, new)
           k == d.nextCred
           s == d.cache[c].creds
           r == Append(s, k)
<1>0. CredsStored(d, e, c, new)
  BY StoreCredentialsDoes DEF Good
<1> HIDE DEF e
<1>1. /\ DOMAIN e.cache = DOMAIN d.cache /\ e.cache[c].creds = r
      /\ \A b \in DOMAIN d.cache \ {c} : e.cache[b] = d.cache[b]
      /\ DOMAIN e.cred = DOMAIN d.cred \cup {k}
  BY <1>0 DEF CredsStored, ChangesCache
<1>2. s \in Seq(DOMAIN d.cred) /\ IsInjective(s)
  BY DEF OwnsOnce
<1>3. k \notin DOMAIN d.cred
  BY DEF Good, Below
<1>4. \A b \in DOMAIN d.cache \ {c} :
        /\ ToSet(d.cache[b].creds) \cap ToSet(s) = {}
        /\ ToSet(d.cache[b].creds) \subseteq DOMAIN d.cred
  BY MembersOfSeq DEF OwnsOnce
<1> HIDE DEF k, s
<1>5. /\ r \in Seq(DOMAIN e.cred) /\ Len(r) = Len(s) + 1 /\ r[Len(s) + 1] = k
      /\ \A i \in 1 .. Len(s) : r[i] = s[i] /\ r[i] # k
  BY <1>1, <1>2, <1>3
<1>6. IsInjective(r) /\ \A x \in ToSet(r) : x = k \/ x \in ToSet(s)
  BY <1>2, <1>5 DEF IsInjective, ToSet
<1> HIDE DEF r
<1>7. \A b \in DOMAIN e.cache \ {c} :
        /\ e.cache[b] = d.cache[b]
        /\ ToSet(d.cache[b].creds) \subseteq DOMAIN e.cred
        /\ ToSet(d.cache[b].creds) \cap ToSet(e.cache[c].creds) = {}
  BY <1>1, <1>3, <1>4, <1>6
<1>8. OwnsOnce(e)
  <2>1. e.cache[c].creds \in Seq(DOMAIN e.cred) /\ IsInjective(e.cache[c].creds)
    BY <1>1, <1>5, <1>6
  <2> QED BY <1>1, <1>7, <2>1, OwnsOnceAfter
<1> QED BY <1>8 DEF e

(* Removing credentials leaves each to one cache.                          *)
LEMMA RemoveCredentialsOwns ==
  ASSUME NEW d, WellFormed(d), OwnsOnce(d), NEW c \in DOMAIN d.cache, NEW k
  PROVE  OwnsOnce(RemoveCredentials(d, c, k))
<1> DEFINE e == RemoveCredentials(d, c, k)
           s == d.cache[c].creds
           r == RemoveFirst(s, k)
<1>0. CredsRemoved(d, e, c, k)
  BY RemoveCredentialsDoes
<1> HIDE DEF e
<1>1. /\ DOMAIN e.cache = DOMAIN d.cache
      /\ \A b \in DOMAIN d.cache \ {c} : e.cache[b] = d.cache[b]
      /\ k \in ToSet(s) => e.cache[c].creds = r /\ e.cred = [x \in DOMAIN d.cred \ {k} |-> d.cred[x]]
      /\ k \notin ToSet(s) => e.cache[c].creds = s /\ e.cred = d.cred
  BY <1>0 DEF CredsRemoved, ChangesCache
<1>2. CASE k \notin ToSet(s)
  <2>1. \A b \in DOMAIN e.cache : e.cache[b].creds = d.cache[b].creds
    BY <1>1, <1>2
  <2>2. OwnsOnce(e)
    BY <1>1, <1>2, <2>1, OwnsOnceStays
  <2> QED BY <2>2 DEF e
<1>3. CASE k \in ToSet(s)
  <2>1. s \in Seq(DOMAIN d.cred) /\ IsInjective(s)
    BY DEF OwnsOnce
  <2>2. \A b \in DOMAIN d.cache \ {c} :
          /\ ToSet(d.cache[b].creds) \cap ToSet(s) = {}
          /\ ToSet(d.cache[b].creds) \subseteq DOMAIN d.cred
    BY MembersOfSeq DEF OwnsOnce
  <2> HIDE DEF s
  <2>3. r \in Seq(DOMAIN d.cred \ {k}) /\ IsInjective(r)
    BY <1>3, <2>1, RemoveFirstProperties
  <2>4. r \in Seq(ToSet(s))
    <3>1. s \in Seq(ToSet(s))
      BY <2>1, SeqOfMembers
    <3>2. r \in Seq(ToSet(s) \ {k})
      BY <1>3, <2>1, <3>1, RemoveFirstProperties
    <3> QED BY <3>2, SeqMonotonic
  <2>5. ToSet(r) \subseteq ToSet(s)
    <3> HIDE DEF r
    <3> QED BY <2>4, MembersOfSeq
  <2> HIDE DEF r
  <2>6. DOMAIN e.cred = DOMAIN d.cred \ {k} /\ e.cache[c].creds = r
    BY <1>1, <1>3
  <2>7. ASSUME NEW b \in DOMAIN e.cache \ {c}
        PROVE  /\ e.cache[b] = d.cache[b]
               /\ ToSet(d.cache[b].creds) \subseteq DOMAIN e.cred
               /\ ToSet(d.cache[b].creds) \cap ToSet(e.cache[c].creds) = {}
    <3>1. /\ ToSet(d.cache[b].creds) \cap ToSet(s) = {}
          /\ ToSet(d.cache[b].creds) \subseteq DOMAIN d.cred
      BY <1>1, <2>2
    <3> QED BY <1>1, <1>3, <2>5, <2>6, <3>1
  <2>8. OwnsOnce(e)
    BY <1>1, <2>3, <2>6, <2>7, OwnsOnceAfter
  <2> QED BY <2>8 DEF e
<1> QED BY <1>2, <1>3

(* Creating a cache leaves each credential to one cache.                   *)
LEMMA CreateCCacheOwns ==
  ASSUME NEW d, Good(d), OwnsOnce(d), NEW n, NEW v, NEW p
  PROVE  OwnsOnce(CreateCCache(d, n, v, p).d)
<1> DEFINE e == CreateCCache(d, n, v, p).d
<1>1. CASE Known(d, n)
  <2> DEFINE c == FindCCache(d, n)
             f == SetPrincipal(d, c, v, p)
  <2>1. c \in DOMAIN d.cache
    BY <1>1, FindsLive
  <2>2. e.cache = f.cache /\ e.cred = f.cred
    <3>1. CacheRemade(CreateCCache(d, n, v, p), f, c)
      BY <1>1, CreateKnownDoes
    <3> HIDE DEF c, f
    <3> QED BY <3>1 DEF CacheRemade
  <2> HIDE DEF c, e
  <2>3. OwnsOnce(f)
    BY <2>1, SetPrincipalOwns DEF Good
  <2> HIDE DEF f
  <2>4. OwnsOnce(e)
    BY <2>2, <2>3, OwnsOnceStays
  <2> QED BY <2>4 DEF e
<1>2. CASE ~Known(d, n)
  <2> DEFINE c == d.nextCache
  <2>0. CacheMade(d, CreateCCache(d, n, v, p), n, v, p)
    BY <1>2, CreateCCacheDoes DEF Good
  <2>1. /\ DOMAIN e.cache = DOMAIN d.cache \cup {c} /\ e.cache[c].creds = <<>> /\ e.cred = d.cred
        /\ \A b \in DOMAIN d.cache \ {c} : e.cache[b] = d.cache[b]
    BY <2>0 DEF CacheMade
  <2> HIDE DEF e, c
  <2>2. \A b \in DOMAIN d.cache : ToSet(d.cache[b].creds) \subseteq DOMAIN d.cred
    BY MembersOfSeq DEF OwnsOnce
  <2>3. /\ <<>> \in Seq(DOMAIN e.cred) /\ IsInjective(<<>>) /\ ToSet(<<>>) = {}
    BY DEF IsInjective, ToSet
  <2>4. \A b \in DOMAIN e.cache \ {c} :
          /\ e.cache[b] = d.cache[b]
          /\ ToSet(d.cache[b].creds) \subseteq DOMAIN e.cred
          /\ ToSet(d.cache[b].creds) \cap ToSet(e.cache[c].creds) = {}
    BY <2>1, <2>2, <2>3
  <2>5. OwnsOnce(e)
    <3>1. e.cache[c].creds \in Seq(DOMAIN e.cred) /\ IsInjective(e.cache[c].creds)
      BY <2>1, <2>3
    <3> QED BY <2>1, <2>4, <3>1, OwnsOnceAfter
  <2> QED BY <2>5 DEF e
<1> QED BY <1>1, <1>2

(* Destroying, moving and choosing the default leave each credential to one cache. *)
LEMMA CachesOwn ==
  ASSUME NEW d, WellFormed(d), OwnsOnce(d), NEW c \in DOMAIN d.cache, NEW to \in DOMAIN d.cache
  PROVE  OwnsOnce(Destroy(d, c)) /\ OwnsOnce(SetDefault(d, c)) /\ OwnsOnce(Move(d, c, to))
<1>1. OwnsOnce(Destroy(d, c))
  <2> DEFINE e == Destroy(d, c)
  <2>0. CacheGone(d, e, c)
    BY DestroyDoes
  <2> HIDE DEF e
  <2>1. /\ DOMAIN e.cache \subseteq DOMAIN d.cache /\ e.cred = d.cred
        /\ \A b \in DOMAIN e.cache : e.cache[b].creds = d.cache[b].creds
    BY <2>0 DEF CacheGone
  <2>2. OwnsOnce(e)
    BY <2>1, OwnsOnceStays
  <2> QED BY <2>2 DEF e
<1>2. OwnsOnce(SetDefault(d, c))
  BY SetDefaultDoes, OwnsOnceStays DEF DefaultSet
<1>3. OwnsOnce(Move(d, c, to))
  <2> DEFINE e == Move(d, c, to)
             from(b) == IF b = to THEN c ELSE b
  <2>0. CacheMoved(d, e, c, to)
    BY MoveDoes
  <2> HIDE DEF e
  <2>1. /\ DOMAIN e.cache = DOMAIN d.cache \ {c} /\ e.cred = d.cred
        /\ \A b \in DOMAIN e.cache : e.cache[b].creds = d.cache[from(b)].creds
    BY <2>0 DEF CacheMoved
  <2>2. /\ \A b \in DOMAIN e.cache : from(b) \in DOMAIN d.cache
        /\ \A a, b \in DOMAIN e.cache : a # b => from(a) # from(b)
    BY <2>1
  <2> HIDE DEF from
  <2>3. OwnsOnce(e)
    BY <2>1, <2>2 DEF OwnsOnce
  <2> QED BY <2>3 DEF e
<1> QED BY <1>1, <1>2, <1>3

(***************************************************************************)
(* What the fields of the record are.                                      *)
(***************************************************************************)
Typed(d) ==
  /\ \A c \in DOMAIN d.cache :
       d.cache[c].name \in Name /\ d.cache[c].principal \in [Version -> Principal \cup {None}]
  /\ \A k \in DOMAIN d.cred : d.cred[k] \in Creds
  /\ d.nextCache \in 0 .. MaxCaches /\ d.nextCred \in 0 .. MaxCreds
  /\ d.pinned \in BOOLEAN /\ d.stamped \in BOOLEAN
  /\ d.touched \subseteq CacheId

(* Registered IDs are within the bounds.                                   *)
LEMMA IdsInBounds ==
  ASSUME NEW d, Good(d), Typed(d)
  PROVE  DOMAIN d.cache \subseteq CacheId /\ DOMAIN d.cred \subseteq CredId
BY DataAssumption DEF Good, Below, Typed, CacheId, CredId

(* A method that changes one cache within its types keeps the types.       *)
LEMMA ChangesCacheTyped ==
  ASSUME NEW d, Good(d), Typed(d), NEW c \in DOMAIN d.cache, NEW e, ChangesCache(d, e, c),
         e.cache[c].principal \in [Version -> Principal \cup {None}],
         \A k \in DOMAIN e.cred : e.cred[k] \in Creds, e.nextCred \in 0 .. MaxCreds
  PROVE  Typed(e)
<1>1. c \in CacheId
  BY IdsInBounds
<1> QED BY <1>1 DEF Typed, ChangesCache

(* Both ways to set a principal keep the types.                            *)
LEMMA SetPrincipalTyped ==
  ASSUME NEW d, Good(d), Typed(d), NEW c \in DOMAIN d.cache, NEW v \in Version, NEW p \in Principal
  PROVE  Typed(SetPrincipal(d, c, v, p)) /\ Typed(CompatSetPrincipal(d, c, v, p))
<1> DEFINE e == SetPrincipal(d, c, v, p)
           f == CompatSetPrincipal(d, c, v, p)
           pr == [d.cache[c].principal EXCEPT ![v] = p]
           left == DOMAIN d.cred \ OfVersion(d, c, v)
<1>1. PrincipalSet(d, e, c, v, p) /\ PrincipalChanged(d, f, c, v, p)
  BY SetPrincipalDoes, CompatSetPrincipalDoes DEF Good
<1> HIDE DEF e, f
<1>2. pr \in [Version -> Principal \cup {None}]
  BY DEF Typed
<1>3. /\ ChangesCache(d, e, c) /\ e.cache[c].principal = pr
      /\ e.cred = [k \in left |-> d.cred[k]] /\ e.nextCred \in {0, d.nextCred}
  BY <1>1 DEF PrincipalSet
<1>4. ChangesCache(d, f, c) /\ f.cache[c].principal = pr /\ f.cred = d.cred /\ f.nextCred = d.nextCred
  BY <1>1 DEF PrincipalChanged
<1>5. Typed(e)
  <2>1. /\ \A k \in DOMAIN e.cred : e.cred[k] \in Creds
        /\ e.nextCred \in 0 .. MaxCreds
    BY <1>3, DataAssumption DEF Typed
  <2> HIDE DEF pr
  <2> QED BY <1>2, <1>3, <2>1, ChangesCacheTyped
<1>6. Typed(f)
  <2>1. /\ \A k \in DOMAIN f.cred : f.cred[k] \in Creds
        /\ f.nextCred \in 0 .. MaxCreds
    BY <1>4 DEF Typed
  <2> HIDE DEF pr
  <2> QED BY <1>2, <1>4, <2>1, ChangesCacheTyped
<1> QED BY <1>5, <1>6 DEF e, f

(* Storing and removing credentials keep the types.                        *)
LEMMA CredentialsTyped ==
  ASSUME NEW d, Good(d), Typed(d), NEW c \in DOMAIN d.cache, NEW k
  PROVE  /\ RoomForCred(d) /\ k \in Creds => Typed(StoreCredentials(d, c, k))
         /\ Typed(RemoveCredentials(d, c, k))
<1>1. ASSUME RoomForCred(d), k \in Creds PROVE Typed(StoreCredentials(d, c, k))
  <2> DEFINE e == StoreCredentials(d, c, k)
             n == d.nextCred
  <2>1. CredsStored(d, e, c, k)
    BY StoreCredentialsDoes DEF Good
  <2> HIDE DEF e
  <2>2. /\ ChangesCache(d, e, c) /\ e.cache[c].principal = d.cache[c].principal
        /\ e.cred = [x \in DOMAIN d.cred \cup {n} |-> IF x = n THEN k ELSE d.cred[x]]
        /\ e.nextCred = n + 1
    BY <2>1 DEF CredsStored
  <2>3. /\ \A x \in DOMAIN e.cred : e.cred[x] \in Creds
        /\ e.nextCred \in 0 .. MaxCreds
        /\ e.cache[c].principal \in [Version -> Principal \cup {None}]
    BY <1>1, <2>2, DataAssumption DEF Typed, RoomForCred
  <2>4. Typed(e)
    BY <2>2, <2>3, ChangesCacheTyped
  <2> QED BY <2>4 DEF e
<1>2. Typed(RemoveCredentials(d, c, k))
  <2> DEFINE e == RemoveCredentials(d, c, k)
  <2>1. CredsRemoved(d, e, c, k)
    BY RemoveCredentialsDoes DEF Good
  <2> HIDE DEF e
  <2>2. /\ ChangesCache(d, e, c) /\ e.cache[c].principal = d.cache[c].principal
        /\ e.cred = d.cred \/ e.cred = [x \in DOMAIN d.cred \ {k} |-> d.cred[x]]
        /\ e.nextCred \in {0, d.nextCred}
    BY <2>1 DEF CredsRemoved
  <2>3. /\ \A x \in DOMAIN e.cred : e.cred[x] \in Creds
        /\ e.nextCred \in 0 .. MaxCreds
        /\ e.cache[c].principal \in [Version -> Principal \cup {None}]
    BY <2>2, DataAssumption DEF Typed
  <2>4. Typed(e)
    BY <2>2, <2>3, ChangesCacheTyped
  <2> QED BY <2>4 DEF e
<1> QED BY <1>1, <1>2

(* Creating a cache keeps the types.                                       *)
LEMMA CreateCCacheTyped ==
  ASSUME NEW d, Good(d), Typed(d), RoomForCache(d),
         NEW n \in Name, NEW v \in Version, NEW p \in Principal
  PROVE  Typed(CreateCCache(d, n, v, p).d) /\ CreateCCache(d, n, v, p).id \in CacheId
<1> DEFINE made == CreateCCache(d, n, v, p)
           e == made.d
<1>1. CASE Known(d, n)
  <2> DEFINE c == FindCCache(d, n)
             f == SetPrincipal(d, c, v, p)
  <2>1. c \in DOMAIN d.cache
    BY <1>1, FindsLive
  <2>2. CacheRemade(made, f, c)
    BY <1>1, CreateKnownDoes
  <2> HIDE DEF c, made
  <2>3. Typed(f) /\ c \in CacheId
    BY <2>1, SetPrincipalTyped, IdsInBounds
  <2> HIDE DEF f
  <2>4. Typed(e) /\ made.id \in CacheId
    BY <2>2, <2>3 DEF CacheRemade, Typed
  <2> QED BY <2>4 DEF made
<1>2. CASE ~Known(d, n)
  <2> DEFINE c == d.nextCache
             pr == [w \in Version |-> IF w = v THEN p ELSE None]
  <2>1. CacheMade(d, made, n, v, p)
    BY <1>2, CreateCCacheDoes DEF Good
  <2> HIDE DEF made
  <2>2. c \in CacheId /\ c + 1 \in 0 .. MaxCaches
    BY DataAssumption DEF Typed, RoomForCache, CacheId
  <2>3. pr \in [Version -> Principal \cup {None}]
    OBVIOUS
  <2>4. /\ made.id = c /\ e.nextCache = c + 1
        /\ e.pinned = d.pinned /\ e.stamped = TRUE /\ e.touched = d.touched \cup {c}
        /\ e.cred = d.cred /\ e.nextCred = d.nextCred
        /\ DOMAIN e.cache = DOMAIN d.cache \cup {c}
        /\ e.cache[c].name = n /\ e.cache[c].principal = pr
        /\ \A b \in DOMAIN d.cache \ {c} : e.cache[b] = d.cache[b]
    BY <2>1 DEF CacheMade
  <2> HIDE DEF c, pr, e
  <2>5. Typed(e) /\ made.id \in CacheId
    BY <2>2, <2>3, <2>4 DEF Typed
  <2> QED BY <2>5 DEF e, made
<1> QED BY <1>1, <1>2

(* Destroying, moving and choosing the default keep the types.             *)
LEMMA CachesTyped ==
  ASSUME NEW d, Good(d), Typed(d), NEW c \in DOMAIN d.cache, NEW to \in DOMAIN d.cache
  PROVE  Typed(Destroy(d, c)) /\ Typed(SetDefault(d, c)) /\ Typed(Move(d, c, to))
<1>1. Typed(Destroy(d, c))
  <2> DEFINE e == Destroy(d, c)
  <2>1. CacheGone(d, e, c)
    BY DestroyDoes DEF Good
  <2> HIDE DEF e
  <2>2. Typed(e)
    BY <2>1 DEF CacheGone, Typed
  <2> QED BY <2>2 DEF e
<1>2. Typed(SetDefault(d, c))
  <2> DEFINE e == SetDefault(d, c)
  <2>1. DefaultSet(d, e)
    BY SetDefaultDoes DEF Good
  <2> HIDE DEF e
  <2>2. Typed(e)
    BY <2>1 DEF DefaultSet, Typed
  <2> QED BY <2>2 DEF e
<1>3. Typed(Move(d, c, to))
  <2> DEFINE e == Move(d, c, to)
  <2>1. CacheMoved(d, e, c, to) /\ to \in CacheId
    BY MoveDoes, IdsInBounds DEF Good
  <2> HIDE DEF e
  <2>2. Typed(e)
    BY <2>1 DEF CacheMoved, Typed
  <2> QED BY <2>2 DEF e
<1> QED BY <1>1, <1>2, <1>3

(* Forgetting the stamps and pinning keep the types.                       *)
LEMMA StampsTyped ==
  ASSUME NEW d, WellFormed(d), Typed(d)
  PROVE  Typed(Quiet(d)) /\ Typed(Pin(d))
<1> DEFINE e == Quiet(d)
           f == Pin(d)
<1>1. /\ e.cache = d.cache /\ e.cred = d.cred /\ e.nextCache = d.nextCache
      /\ e.nextCred = d.nextCred /\ e.pinned = d.pinned /\ e.stamped = FALSE /\ e.touched = {}
      /\ f.cache = d.cache /\ f.cred = d.cred /\ f.nextCache = d.nextCache
      /\ f.nextCred = d.nextCred /\ f.pinned = TRUE /\ f.stamped = d.stamped /\ f.touched = d.touched
  BY StampsDo
<1> HIDE DEF e, f
<1>2. Typed(e) /\ Typed(f)
  BY <1>1 DEF Typed
<1> QED BY <1>2 DEF e, f

(* Forgetting the stamps and pinning leave each credential to one cache.   *)
LEMMA StampsOwn ==
  ASSUME NEW d, WellFormed(d), OwnsOnce(d)
  PROVE  OwnsOnce(Quiet(d)) /\ OwnsOnce(Pin(d))
<1>1. /\ Quiet(d).cache = d.cache /\ Quiet(d).cred = d.cred
      /\ Pin(d).cache = d.cache /\ Pin(d).cred = d.cred
  BY StampsDo
<1> QED BY <1>1, OwnsOnceStays

(* A name that no cache has is among the first ones, if there are as many  *)
(* as there can be caches.                                                 *)
LEMMA NewNameFound ==
  ASSUME NEW d, Good(d), IsInjective(NewNames), d.nextCache < Len(NewNames)
  PROVE  \E j \in DOMAIN NewNames : /\ ~Known(d, NewNames[j])
                                    /\ \A l \in 1 .. j - 1 : Known(d, NewNames[l])
<1> DEFINE n == Len(NewNames)
           next == d.nextCache
           Unused == { j \in 1 .. n : ~Known(d, NewNames[j]) }
<1>1. n \in Nat /\ DOMAIN NewNames = 1 .. n /\ next \in Nat /\ next < n
  BY DataAssumption DEF Good, Below
<1>2. \E j \in 1 .. n : j \in Unused
  <2> SUFFICES ASSUME Unused = {} PROVE FALSE
    OBVIOUS
  <2>1. ASSUME NEW j \in 1 .. n
        PROVE  \E c \in 0 .. next - 1 : c \in DOMAIN d.cache /\ d.cache[c].name = NewNames[j]
    <3>1. Known(d, NewNames[j])
      OBVIOUS
    <3>2. PICK c \in ToSet(d.order) : d.cache[c].name = NewNames[j]
      BY <3>1 DEF Known, Named
    <3>3. c \in DOMAIN d.cache
      BY MembersOfSeq DEF Good, Listed
    <3> QED BY <1>1, <3>2, <3>3 DEF Good, Below
  <2> DEFINE f == [j \in 1 .. n |-> CHOOSE c \in 0 .. next - 1 :
                                       c \in DOMAIN d.cache /\ d.cache[c].name = NewNames[j]]
  <2>2. ASSUME NEW j \in 1 .. n PROVE f[j] \in 0 .. next - 1 /\ d.cache[f[j]].name = NewNames[j]
    BY <2>1
  <2>3. f \in [1 .. n -> 0 .. next - 1]
    BY <2>2
  <2>4. /\ IsFiniteSet(1 .. n) /\ Cardinality(1 .. n) = n
        /\ IsFiniteSet(0 .. next - 1) /\ Cardinality(0 .. next - 1) = next
    <3> HIDE DEF n, next
    <3>1. /\ IsFiniteSet(1 .. n) /\ Cardinality(1 .. n) = IF 1 > n THEN 0 ELSE n - 1 + 1
          /\ IsFiniteSet(0 .. next - 1)
          /\ Cardinality(0 .. next - 1) = IF 0 > next - 1 THEN 0 ELSE next - 1 - 0 + 1
      BY <1>1, FS_Interval
    <3> QED BY <1>1, <3>1
  <2> HIDE DEF f
  <2>5. \E i, j \in 1 .. n : i # j /\ f[i] = f[j]
    <3> DEFINE S == 1 .. n
               T == 0 .. next - 1
    <3>1. IsFiniteSet(S) /\ IsFiniteSet(T) /\ Cardinality(T) < Cardinality(S) /\ f \in [S -> T]
      BY <1>1, <2>3, <2>4
    <3> HIDE DEF S, T
    <3>2. \E i, j \in S : i # j /\ f[i] = f[j]
      BY <3>1, FS_PigeonHole
    <3> QED BY <3>2 DEF S
  <2> QED BY <1>1, <2>2, <2>5 DEF IsInjective
<1>3. PICK j \in Unused : \A l \in Unused : j <= l
  <2>1. Unused \in SUBSET Nat
    BY <1>1
  <2> HIDE DEF Unused
  <2> QED BY <1>2, <2>1, LeastNat
<1> QED BY <1>1, <1>3

(* The creations that choose the name themselves keep the types.           *)
LEMMA CreatesTyped ==
  ASSUME NEW d, Good(d), Typed(d), RoomForCache(d), NEW v \in Version, NEW p \in Principal,
         IsInjective(NewNames), MaxCaches <= Len(NewNames)
  PROVE  Typed(CreateDefaultCCache(d, v, p).d) /\ Typed(CreateNewCCache(d, v, p).d)
<1>1. GetDefaultCCacheName(d) \in Name
  <2>1. CASE d.order = <<>>
    BY <2>1, DataAssumption DEF GetDefaultCCacheName
  <2>2. CASE d.order # <<>>
    <3>1. d.order[1] \in DOMAIN d.cache
      BY <2>2 DEF Good, Listed
    <3> QED BY <2>2, <3>1 DEF GetDefaultCCacheName, Default, Typed
  <2> QED BY <2>1, <2>2
<1>2. Typed(CreateDefaultCCache(d, v, p).d)
  <2> DEFINE n == GetDefaultCCacheName(d)
  <2>1. CreateDefaultCCache(d, v, p) = CreateCCache(d, n, v, p)
    BY DEF CreateDefaultCCache
  <2> HIDE DEF n
  <2> QED BY <1>1, <2>1, CreateCCacheTyped DEF n
<1>3. CASE d.order = <<>>
  BY <1>2, <1>3 DEF CreateNewCCache
<1>4. CASE d.order # <<>>
  <2> DEFINE Unused(j) == /\ ~Known(d, NewNames[j])
                        /\ \A l \in 1 .. j - 1 : Known(d, NewNames[l])
             i == CHOOSE j \in DOMAIN NewNames : Unused(j)
  <2>1. CreateNewCCache(d, v, p) = CreateCCache(d, NewNames[i], v, p)
    BY <1>4 DEF CreateNewCCache
  <2>2. d.nextCache < Len(NewNames)
    BY DataAssumption DEF RoomForCache, Typed
  <2>3. i \in DOMAIN NewNames
    BY <2>2, NewNameFound
  <2> HIDE DEF i
  <2>4. NewNames[i] \in Name
    BY <2>3, DataAssumption
  <2> QED BY <1>2, <2>1, <2>4, CreateCCacheTyped
<1> QED BY <1>2, <1>3, <1>4

(***************************************************************************)
(* The objects the callers hold.                                           *)
(***************************************************************************)
LibFields == {"data", "heap", "leaked"}
LibFormed(l) ==
  /\ l = [f \in LibFields |-> l[f]]
  /\ l.heap = [q \in DOMAIN l.heap |-> l.heap[q]]

(* While there is room, a new pointer is one that nobody holds.            *)
LEMMA NewPointerIsFree ==
  ASSUME NEW l, DOMAIN l.heap \subseteq Pointer, Room(l)
  PROVE  NewPointer(l) \in Pointer \ DOMAIN l.heap
<1> DEFINE T == Pointer \ DOMAIN l.heap
<1>1. T \in SUBSET Nat /\ \E q \in T : TRUE
  <2>1. Pointer \subseteq Nat
    BY ObjectsAssumption DEF Pointer
  <2>2. \E q \in T : TRUE
    BY DEF Room
  <2> QED BY <2>1, <2>2
<1>2. \E m \in T : \A k \in T : m <= k
  <2> HIDE DEF T
  <2> QED BY <1>1, LeastNat
<1> QED BY <1>2 DEF NewPointer

(* m is l with the object obj at a pointer q that was free.                *)
Added(l, m, q, obj) ==
  /\ LibFormed(m) /\ m.data = l.data /\ m.leaked = l.leaked
  /\ q \in Pointer \ DOMAIN l.heap
  /\ DOMAIN m.heap = DOMAIN l.heap \cup {q} /\ m.heap[q] = obj
  /\ \A x \in DOMAIN l.heap : m.heap[x] = l.heap[x]

(* Making an object adds it at a free pointer and leaves the others.       *)
LEMMA MakeAdds ==
  ASSUME NEW l, LibFormed(l), DOMAIN l.heap \subseteq Pointer, Room(l), NEW obj
  PROVE  Added(l, Make(l, obj), NewPointer(l), obj)
<1> DEFINE q == NewPointer(l)
           h == [x \in DOMAIN l.heap \cup {q} |-> IF x = q THEN obj ELSE l.heap[x]]
           m == Make(l, obj)
<1>1. q \in Pointer \ DOMAIN l.heap
  BY NewPointerIsFree
<1>2. m = [l EXCEPT !.heap = h]
  BY DEF Make, LibFormed, LibFields
<1> HIDE DEF q, m
<1>3. /\ h = [x \in DOMAIN h |-> h[x]] /\ DOMAIN h = DOMAIN l.heap \cup {q} /\ h[q] = obj
      /\ \A x \in DOMAIN l.heap : h[x] = l.heap[x]
  BY <1>1
<1> HIDE DEF h
<1>4. /\ m = [f \in LibFields |-> m[f]] /\ m.data = l.data /\ m.leaked = l.leaked /\ m.heap = h
  BY <1>2 DEF LibFormed, LibFields
<1>5. Added(l, m, q, obj)
  BY <1>1, <1>3, <1>4 DEF Added, LibFormed
<1> QED BY <1>5 DEF m, q

(* m is l without the object at q.                                         *)
Freed(l, m, q) ==
  /\ LibFormed(m) /\ m.data = l.data /\ m.leaked = l.leaked
  /\ DOMAIN m.heap = DOMAIN l.heap \ {q}
  /\ \A x \in DOMAIN m.heap : m.heap[x] = l.heap[x]

(* Freeing takes one object and leaves the others.                         *)
LEMMA FreeFrees ==
  ASSUME NEW l, LibFormed(l), NEW q
  PROVE  Freed(l, Free(l, q), q)
<1> DEFINE h == [x \in DOMAIN l.heap \ {q} |-> l.heap[x]]
           m == Free(l, q)
<1>1. m = [l EXCEPT !.heap = h]
  BY DEF Free, LibFormed, LibFields
<1> HIDE DEF m
<1>2. /\ h = [x \in DOMAIN h |-> h[x]] /\ DOMAIN h = DOMAIN l.heap \ {q}
      /\ \A x \in DOMAIN h : h[x] = l.heap[x]
  OBVIOUS
<1> HIDE DEF h
<1>3. /\ m = [f \in LibFields |-> m[f]] /\ m.data = l.data /\ m.leaked = l.leaked /\ m.heap = h
  BY <1>1 DEF LibFormed, LibFields
<1>4. Freed(l, m, q)
  BY <1>2, <1>3 DEF Freed, LibFormed
<1> QED BY <1>4 DEF m

(* m is l with other data, and perhaps something leaked.                   *)
OtherData(l, m, d) == LibFormed(m) /\ m.data = d /\ m.heap = l.heap

(* Other data leaves the objects as they are.                              *)
LEMMA OnDataDoes ==
  ASSUME NEW l, LibFormed(l), NEW d
  PROVE  /\ OtherData(l, OnData(l, d), d) /\ OnData(l, d).leaked = l.leaked
         /\ OtherData(l, [OnData(l, d) EXCEPT !.leaked = TRUE], d)
         /\ [OnData(l, d) EXCEPT !.leaked = TRUE].leaked = TRUE
BY DEF OtherData, OnData, LibFormed, LibFields

(* m is l with another object at q.                                        *)
Altered(l, m, q, obj) ==
  /\ LibFormed(m) /\ m.data = l.data /\ m.leaked = l.leaked
  /\ DOMAIN m.heap = DOMAIN l.heap /\ m.heap[q] = obj
  /\ \A x \in DOMAIN l.heap \ {q} : m.heap[x] = l.heap[x]

(* Changing an object leaves the others.                                   *)
LEMMA AlterDoes ==
  ASSUME NEW l, LibFormed(l), NEW q \in DOMAIN l.heap, NEW obj
  PROVE  Altered(l, [l EXCEPT !.heap[q] = obj], q, obj)
<1> DEFINE h == [l.heap EXCEPT ![q] = obj]
           m == [l EXCEPT !.heap[q] = obj]
<1>1. m = [l EXCEPT !.heap = h]
  BY DEF LibFormed, LibFields
<1> HIDE DEF m
<1>2. /\ h = [x \in DOMAIN h |-> h[x]] /\ DOMAIN h = DOMAIN l.heap /\ h[q] = obj
      /\ \A x \in DOMAIN l.heap \ {q} : h[x] = l.heap[x]
  BY DEF LibFormed
<1> HIDE DEF h
<1>3. /\ m = [f \in LibFields |-> m[f]] /\ m.data = l.data /\ m.leaked = l.leaked /\ m.heap = h
  BY <1>1 DEF LibFormed, LibFields
<1>4. Altered(l, m, q, obj)
  BY <1>2, <1>3 DEF Altered, LibFormed
<1> QED BY <1>4 DEF m

(***************************************************************************)
(* The data under the calls.                                               *)
(***************************************************************************)
(* Every cache has a principal of some version.                            *)
Used(d) == \A c \in DOMAIN d.cache : \E v \in Version : d.cache[c].principal[v] # None

DataRight(d) == Good(d) /\ OwnsOnce(d) /\ Typed(d) /\ Used(d)

(* From d to e: no cache that is gone comes back, and no principal goes.   *)
Onward(d, e) ==
  /\ d.nextCache <= e.nextCache
  /\ \A c \in DOMAIN e.cache : c \in DOMAIN d.cache \/ d.nextCache <= c
  /\ \A c \in DOMAIN d.cache \cap DOMAIN e.cache, v \in Version :
       d.cache[c].principal[v] # None => e.cache[c].principal[v] # None

(* One cache gets a principal or keeps those it has; the others stay.      *)
LEMMA OneCacheOnward ==
  ASSUME NEW d, DataRight(d), NEW e, NEW c \in DOMAIN d.cache, ChangesCache(d, e, c),
         \/ e.cache[c].principal = d.cache[c].principal
         \/ \E v \in Version, p \in Principal :
              e.cache[c].principal = [d.cache[c].principal EXCEPT ![v] = p]
  PROVE  Onward(d, e) /\ Used(e)
<1>1. d.nextCache \in Nat /\ d.cache[c].principal \in [Version -> Principal \cup {None}]
  BY DEF DataRight, Good, Below, Typed
<1>2. ASSUME NEW v \in Version, d.cache[c].principal[v] # None
      PROVE  e.cache[c].principal[v] # None
  BY <1>1, <1>2, DataAssumption
<1>3. \A b \in DOMAIN d.cache, v \in Version :
        d.cache[b].principal[v] # None => e.cache[b].principal[v] # None
  BY <1>2 DEF ChangesCache
<1>4. Used(e)
  BY <1>3 DEF Used, DataRight, ChangesCache
<1> QED BY <1>1, <1>3, <1>4 DEF Onward, ChangesCache

(* Forgetting the stamps and pinning leave the data right.                 *)
LEMMA StampsRight ==
  ASSUME NEW d, DataRight(d)
  PROVE  /\ DataRight(Quiet(d)) /\ Onward(d, Quiet(d))
         /\ DataRight(Pin(d)) /\ Onward(d, Pin(d))
<1>1. WellFormed(d) /\ d.nextCache \in Nat
  BY DEF DataRight, Good, Below
<1>2. Good(Quiet(d)) /\ Good(Pin(d))
  BY StampsKeep DEF DataRight, Preserves
<1>3. OwnsOnce(Quiet(d)) /\ OwnsOnce(Pin(d)) /\ Typed(Quiet(d)) /\ Typed(Pin(d))
  BY <1>1, StampsOwn, StampsTyped DEF DataRight
<1>4. /\ Quiet(d).cache = d.cache /\ Quiet(d).nextCache = d.nextCache
      /\ Pin(d).cache = d.cache /\ Pin(d).nextCache = d.nextCache
  BY <1>1, StampsDo
<1> QED BY <1>1, <1>2, <1>3, <1>4 DEF DataRight, Onward, Used

(* CompatSetPrincipal leaves the data right.                               *)
LEMMA CompatSetPrincipalRight ==
  ASSUME NEW d, DataRight(d), NEW c \in DOMAIN d.cache, NEW v \in Version, NEW p \in Principal
  PROVE  LET e == CompatSetPrincipal(d, c, v, p) IN DataRight(e) /\ Onward(d, e)
<1> DEFINE e == CompatSetPrincipal(d, c, v, p)
<1>0. WellFormed(d)
  BY DEF DataRight, Good
<1>1. PrincipalChanged(d, e, c, v, p)
  BY <1>0, CompatSetPrincipalDoes
<1>2. Good(e) /\ OwnsOnce(e) /\ Typed(e)
  BY <1>0, SetPrincipalKeeps, SetPrincipalOwns, SetPrincipalTyped DEF DataRight
<1> HIDE DEF e
<1>3. Onward(d, e) /\ Used(e)
  BY <1>1, OneCacheOnward DEF PrincipalChanged
<1> QED BY <1>2, <1>3 DEF DataRight, e

(* StoreCredentials leaves the data right.                                 *)
LEMMA StoreCredentialsRight ==
  ASSUME NEW d, DataRight(d), NEW c \in DOMAIN d.cache, NEW new \in Creds, RoomForCred(d)
  PROVE  LET e == StoreCredentials(d, c, new) IN DataRight(e) /\ Onward(d, e)
<1> DEFINE e == StoreCredentials(d, c, new)
<1>0. WellFormed(d)
  BY DEF DataRight, Good
<1>1. CredsStored(d, e, c, new)
  BY <1>0, StoreCredentialsDoes
<1>2. Good(e) /\ OwnsOnce(e) /\ Typed(e)
  BY <1>0, StoreCredentialsKeeps, StoreCredentialsOwns, CredentialsTyped DEF DataRight
<1> HIDE DEF e
<1>3. Onward(d, e) /\ Used(e)
  BY <1>1, OneCacheOnward DEF CredsStored
<1> QED BY <1>2, <1>3 DEF DataRight, e

(* RemoveCredentials leaves the data right.                                *)
LEMMA RemoveCredentialsRight ==
  ASSUME NEW d, DataRight(d), NEW c \in DOMAIN d.cache, NEW k
  PROVE  LET e == RemoveCredentials(d, c, k) IN DataRight(e) /\ Onward(d, e)
<1> DEFINE e == RemoveCredentials(d, c, k)
<1>0. WellFormed(d)
  BY DEF DataRight, Good
<1>1. CredsRemoved(d, e, c, k)
  BY <1>0, RemoveCredentialsDoes
<1>2. Good(e) /\ OwnsOnce(e) /\ Typed(e)
  BY <1>0, RemoveCredentialsKeeps, RemoveCredentialsOwns, CredentialsTyped DEF DataRight
<1> HIDE DEF e
<1>3. Onward(d, e) /\ Used(e)
  BY <1>1, OneCacheOnward DEF CredsRemoved
<1> QED BY <1>2, <1>3 DEF DataRight, e

(* Destroy leaves the data right.                                          *)
LEMMA DestroyRight ==
  ASSUME NEW d, DataRight(d), NEW c \in DOMAIN d.cache
  PROVE  LET e == Destroy(d, c) IN DataRight(e) /\ Onward(d, e)
<1> DEFINE e == Destroy(d, c)
<1>0. WellFormed(d) /\ d.nextCache \in Nat
  BY DEF DataRight, Good, Below
<1>1. CacheGone(d, e, c)
  BY <1>0, DestroyDoes
<1>2. Good(e) /\ OwnsOnce(e) /\ Typed(e)
  BY <1>0, DestroyKeeps, CachesOwn, CachesTyped DEF DataRight
<1> HIDE DEF e
<1>3. Onward(d, e) /\ Used(e)
  BY <1>0, <1>1 DEF CacheGone, Onward, Used, DataRight
<1> QED BY <1>2, <1>3 DEF DataRight, e

(* The cache made, or the one known, has the principal.                    *)
LEMMA CreateCCacheRight ==
  ASSUME NEW d, DataRight(d), RoomForCache(d),
         NEW n \in Name, NEW v \in Version, NEW p \in Principal
  PROVE  LET made == CreateCCache(d, n, v, p)
         IN  /\ DataRight(made.d) /\ Onward(d, made.d)
             /\ made.id \in CacheId /\ made.id < made.d.nextCache
             /\ made.d.cache[made.id].principal[v] # None
<1> DEFINE made == CreateCCache(d, n, v, p)
           e == made.d
           f == SetPrincipal(d, FindCCache(d, n), v, p)
<1>0. WellFormed(d) /\ d.nextCache \in Nat /\ p # None
  BY DataAssumption DEF DataRight, Good, Below
<1>1. Good(e) /\ OwnsOnce(e) /\ Typed(e) /\ made.id \in CacheId
  BY CreateCCacheKeeps, CreateCCacheOwns, CreateCCacheTyped DEF DataRight
<1>2. ~Known(d, n) => CacheMade(d, made, n, v, p)
  BY <1>0, CreateCCacheDoes
<1>3. Known(d, n) => /\ FindCCache(d, n) \in DOMAIN d.cache
                     /\ CacheRemade(made, f, FindCCache(d, n))
                     /\ PrincipalSet(d, f, FindCCache(d, n), v, p)
  BY <1>0, FindsLive, CreateKnownDoes, SetPrincipalDoes DEF DataRight
<1> HIDE DEF made, f
<1>4. CASE ~Known(d, n)
  <2>0. /\ made.id = d.nextCache /\ e.nextCache = d.nextCache + 1
        /\ DOMAIN e.cache = DOMAIN d.cache \cup {d.nextCache}
        /\ e.cache[d.nextCache].principal[v] = p
        /\ \A b \in DOMAIN d.cache \ {d.nextCache} : e.cache[b] = d.cache[b]
    BY <1>2, <1>4 DEF CacheMade
  <2>1. d.nextCache \notin DOMAIN d.cache
    BY DEF DataRight, Good, Below
  <2>2. Used(e) /\ Onward(d, e)
    BY <1>0, <2>0, <2>1 DEF Used, Onward, DataRight
  <2> QED BY <1>0, <1>1, <2>0, <2>2 DEF DataRight, made
<1>5. CASE Known(d, n)
  <2> DEFINE c == FindCCache(d, n)
  <2>1. /\ c \in DOMAIN d.cache /\ made.id = c /\ e.nextCache = f.nextCache /\ e.cache = f.cache
        /\ ChangesCache(d, f, c)
        /\ f.cache[c].principal = [d.cache[c].principal EXCEPT ![v] = p]
    BY <1>3, <1>5 DEF CacheRemade, PrincipalSet
  <2> HIDE DEF c
  <2>2. Onward(d, f) /\ Used(f)
    BY <2>1, OneCacheOnward
  <2>3. d.cache[c].principal \in [Version -> Principal \cup {None}] /\ c < d.nextCache
    BY <2>1 DEF DataRight, Typed, Good, Below
  <2>4. f.cache[c].principal[v] = p
    BY <2>1, <2>3
  <2>5. Onward(d, e) /\ Used(e)
    BY <2>1, <2>2 DEF Onward, Used
  <2> QED BY <1>0, <1>1, <2>1, <2>3, <2>4, <2>5 DEF DataRight, ChangesCache, made
<1> QED BY <1>4, <1>5

(* The credentials of a live cache are in its list, and are live.          *)
LEMMA CredsAreLive ==
  ASSUME NEW d, DataRight(d), NEW c \in DOMAIN d.cache
  PROVE  /\ d.cache[c].creds \in Seq(CredId)
         /\ ToSet(d.cache[c].creds) \subseteq DOMAIN d.cred
         /\ \A i \in DOMAIN d.cache[c].creds : d.cache[c].creds[i] \in CredId \cap DOMAIN d.cred
<1>1. DOMAIN d.cred \subseteq CredId /\ d.cache[c].creds \in Seq(DOMAIN d.cred)
  BY IdsInBounds DEF DataRight, OwnsOnce
<1>2. ToSet(d.cache[c].creds) \subseteq DOMAIN d.cred
  BY <1>1, MembersOfSeq
<1> HIDE DEF CredId
<1>3. d.cache[c].creds \in Seq(CredId)
  BY <1>1, <1>2, SeqOfMembers
<1> QED BY <1>1, <1>2, <1>3

(* The list of the data holds caches of the bounds.                        *)
LEMMA OrderIsTyped ==
  ASSUME NEW d, DataRight(d)
  PROVE  d.order \in Seq(CacheId)
<1>1. DOMAIN d.cache \subseteq CacheId /\ d.order \in Seq(DOMAIN d.cache)
  BY IdsInBounds DEF DataRight, Good, Listed
<1>2. ToSet(d.order) \subseteq DOMAIN d.cache
  BY <1>1, MembersOfSeq
<1> QED BY <1>1, <1>2, SeqOfMembers

(* What the calls do to the data: one method, or nothing.                  *)
Method(d, e) ==
  \/ e = d \/ e = Pin(d)
  \/ \E c \in DOMAIN d.cache :
       \/ e = Destroy(d, c)
       \/ \E v \in Version, p \in Principal : e = CompatSetPrincipal(d, c, v, p)
       \/ RoomForCred(d) /\ \E new \in Creds : e = StoreCredentials(d, c, new)
       \/ \E k \in CredId \cap DOMAIN d.cred : e = RemoveCredentials(Pin(d), c, k)
  \/ /\ RoomForCache(d)
     /\ \E n \in Name, v \in Version, p \in Principal : e = CreateCCache(d, n, v, p).d

(* One method leaves the data right, and moves it onward.                  *)
LEMMA MethodRight ==
  ASSUME NEW d, DataRight(d), NEW e, Method(d, e)
  PROVE  DataRight(e) /\ Onward(d, e)
<1>1. CASE e = d
  BY <1>1 DEF Onward, DataRight, Good, Below
<1>2. CASE e = Pin(d)
  BY <1>2, StampsRight
<1>3. ASSUME NEW c \in DOMAIN d.cache, e = Destroy(d, c) PROVE DataRight(e) /\ Onward(d, e)
  BY <1>3, DestroyRight
<1>4. ASSUME NEW c \in DOMAIN d.cache, NEW v \in Version, NEW p \in Principal,
             e = CompatSetPrincipal(d, c, v, p)
      PROVE  DataRight(e) /\ Onward(d, e)
  BY <1>4, CompatSetPrincipalRight
<1>5. ASSUME NEW c \in DOMAIN d.cache, RoomForCred(d), NEW new \in Creds,
             e = StoreCredentials(d, c, new)
      PROVE  DataRight(e) /\ Onward(d, e)
  BY <1>5, StoreCredentialsRight
<1>6. ASSUME NEW c \in DOMAIN d.cache, NEW k, e = RemoveCredentials(Pin(d), c, k)
      PROVE  DataRight(e) /\ Onward(d, e)
  <2>1. /\ DataRight(Pin(d)) /\ Pin(d).cache = d.cache /\ Pin(d).nextCache = d.nextCache
    BY StampsRight, StampsDo DEF DataRight, Good
  <2>2. DataRight(e) /\ Onward(Pin(d), e)
    BY <1>6, <2>1, RemoveCredentialsRight
  <2> QED BY <2>1, <2>2 DEF Onward
<1>7. ASSUME RoomForCache(d), NEW n \in Name, NEW v \in Version, NEW p \in Principal,
             e = CreateCCache(d, n, v, p).d
      PROVE  DataRight(e) /\ Onward(d, e)
  BY <1>7, CreateCCacheRight
<1> QED BY <1>1, <1>2, <1>3, <1>4, <1>5, <1>6, <1>7 DEF Method

(* cc_remove_cred changes nothing, pins, or removes one credential.        *)
LEMMA RemoveCredIsMethod ==
  ASSUME NEW l, DataRight(l.data), NEW q, NEW old \in Creds
  PROVE  \E d, err : /\ Method(l.data, d)
                     /\ CcRemoveCred(l, q, old) \in
                          { Result(l, err), Result([OnData(l, d) EXCEPT !.leaked = TRUE], err) }
<1> DEFINE c     == l.heap[q].id
           ids   == l.data.cache[c].creds
           match == { i \in DOMAIN ids : Equal(old, l.data.cred[ids[i]]) }
           first == CHOOSE i \in match : \A j \in match : i <= j
           seen  == IF ids = <<>> THEN l.data ELSE Pin(l.data)
           l1    == [OnData(l, seen) EXCEPT !.leaked = TRUE]
           d     == RemoveCredentials(seen, c, ids[first])
<1>0. Method(l.data, seen) /\ Method(l.data, l.data)
  BY DEF Method
<1>1. CASE ~Live(l.data, c)
  <2>1. CcRemoveCred(l, q, old) = Result(l, "CC_NOTFOUND")
    BY <1>1 DEF CcRemoveCred
  <2> QED BY <1>0, <2>1
<1>2. CASE Live(l.data, c) /\ match = {}
  <2>1. CcRemoveCred(l, q, old) = Result(l1, "CC_NOTFOUND")
    BY <1>2 DEF CcRemoveCred
  <2> HIDE DEF seen
  <2> QED BY <1>0, <2>1
<1>3. CASE Live(l.data, c) /\ match # {}
  <2>1. CcRemoveCred(l, q, old) = Result(OnData(l1, d), "CC_NOERROR")
    BY <1>3 DEF CcRemoveCred
  <2>2. ids \in Seq(CredId) /\ \A i \in DOMAIN ids : ids[i] \in CredId \cap DOMAIN l.data.cred
    BY <1>3, CredsAreLive DEF Live
  <2>3. first \in match
    <3>0. DOMAIN ids \subseteq Nat
      <4> HIDE DEF ids
      <4> QED BY <2>2
    <3>1. match \in SUBSET Nat
      BY <3>0
    <3> HIDE DEF match
    <3>2. PICK i \in match : TRUE
      BY <1>3
    <3> QED BY <3>1, <3>2, LeastNat
  <2>4. ids # <<>> /\ seen = Pin(l.data) /\ ids[first] \in CredId \cap DOMAIN l.data.cred
    <3>1. first \in DOMAIN ids
      BY <2>3
    <3> HIDE DEF first, ids
    <3> QED BY <2>2, <3>1 DEF seen
  <2>5. Method(l.data, d)
    BY <1>3, <2>4 DEF Method, Live
  <2>6. OnData(l1, d) = [OnData(l, d) EXCEPT !.leaked = TRUE]
    <3> HIDE DEF seen, d
    <3> QED BY DEF OnData
  <2> HIDE DEF d, l1
  <2> QED BY <2>1, <2>5, <2>6
<1> QED BY <1>1, <1>2, <1>3

(* The library starts with no data.                                        *)
LEMMA FirstDataRight == DataRight(ContextChanged(NoData))
<1> DEFINE d == ContextChanged(NoData)
<1>1. /\ d.order = <<>> /\ DOMAIN d.cache = {} /\ DOMAIN d.cred = {}
      /\ d.nextCache = 0 /\ d.nextCred = 0
      /\ d.pinned = FALSE /\ d.stamped = TRUE /\ d.touched = {}
      /\ WellFormed(d)
  BY DEF ContextChanged, NoData, WellFormed, Record, DataFields, CacheMap
<1> HIDE DEF d
<1>2. Listed(d.order, d.cache)
  BY <1>1, EmptySeq DEF Listed, IsInjective
<1>3. Good(d)
  BY <1>1, <1>2 DEF Good, Below
<1>4. OwnsOnce(d) /\ Used(d)
  BY <1>1 DEF OwnsOnce, Used
<1>5. d.pinned \in BOOLEAN /\ d.stamped \in BOOLEAN
  BY <1>1, Zenon
<1>6. d.nextCache \in 0 .. MaxCaches /\ d.nextCred \in 0 .. MaxCreds
  BY <1>1, DataAssumption
<1>7. Typed(d)
  BY <1>1, <1>5, <1>6 DEF Typed
<1>8. DataRight(d)
  BY <1>3, <1>4, <1>7 DEF DataRight
<1> QED BY <1>8 DEF d
=============================================================================
