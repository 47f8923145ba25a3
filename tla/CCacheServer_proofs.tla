------------------------- MODULE CCacheServer_proofs -------------------------
(***************************************************************************)
(* For any clients, handles, names and credentials: the server's handle    *)
(* maps hold exactly the handles the RPC runtime keeps for the clients, in  *)
(* which what a library call does to the data plays no part; the handles    *)
(* of a kind and the library's objects of that kind correspond one to one;  *)
(* the data stays right; rundown keeps it; and every handler is a step of  *)
(* the data layer's specification, CCacheContext, or none.                 *)
(***************************************************************************)
EXTENDS CCacheServer, CCache2Compat_proofs

(* A state of the server has the two fields and a table for each kind.     *)
Shaped(s) ==
  /\ s = [lib |-> s.lib, table |-> s.table]
  /\ s.table = [k \in Kind |-> s.table[k]]

(* A handle is live in a map if and only if a client owns it, and then one *)
(* client alone does.                                                      *)
Owned ==
  /\ owns \in [Client -> SUBSET (Kind \X Handle)]
  /\ \A k \in Kind : DOMAIN srv.table[k] \subseteq Handle
  /\ \A k \in Kind, h \in Handle :
       h \in DOMAIN srv.table[k] <=> \E c \in Client : <<k, h>> \in owns[c]
  /\ \A b, c \in Client : b # c => owns[b] \cap owns[c] = {}

OwnersInv == Shaped(srv) /\ Owned

(* t is s with D for the live handles of one kind.                         *)
Becomes(t, s, kind, D) ==
  /\ Shaped(t)
  /\ DOMAIN t.table[kind] = D
  /\ \A k \in Kind \ {kind} : t.table[k] = s.table[k]

(* What happens in the library leaves the tables alone.                    *)
LEMMA LibraryKeepsTables ==
  ASSUME NEW s, Shaped(s), NEW l
  PROVE  Shaped([s EXCEPT !.lib = l]) /\ [s EXCEPT !.lib = l].table = s.table
BY DEF Shaped

(* The pending marks of the data layer are cleared in the library alone.   *)
LEMMA NowKeepsTables ==
  ASSUME Shaped(srv)
  PROVE  Shaped(Now) /\ Now.table = srv.table
<1> DEFINE l == [srv.lib EXCEPT !.data = Quiet(@)]
<1>1. Now = [srv EXCEPT !.lib = l]
  BY DEF Now, Shaped
<1>2. Shaped([srv EXCEPT !.lib = l]) /\ [srv EXCEPT !.lib = l].table = srv.table
  BY LibraryKeepsTables
<1> QED BY <1>1, <1>2

(* Entering a handle adds it to the map of its kind alone.                 *)
LEMMA EnterAdds ==
  ASSUME NEW s, Shaped(s), NEW kind \in Kind, NEW h, NEW q
  PROVE  Becomes(Enter(s, kind, h, q), s, kind, DOMAIN s.table[kind] \cup {h})
BY DEF Enter, Shaped, Becomes

(* Leaving takes a handle from the map of its kind alone.                  *)
LEMMA LeaveTakes ==
  ASSUME NEW s, Shaped(s), NEW kind \in Kind, NEW h
  PROVE  Becomes(Leave(s, kind, h), s, kind, DOMAIN s.table[kind] \ {h})
BY DEF Leave, Shaped, Becomes

(* What a handler that gives out a handle ends with.                       *)
GaveOrNot(a, s, kind, h) ==
  \/ a.opened = TRUE /\ Becomes(a.srv, s, kind, DOMAIN s.table[kind] \cup {h})
  \/ a.opened = FALSE /\ Shaped(a.srv) /\ a.srv.table = s.table

(* A handler that gives out a handle has it in its map if and only if the  *)
(* client gets it.                                                         *)
LEMMA OpensOrNot ==
  ASSUME NEW s, Shaped(s), NEW kind \in Kind, NEW h, NEW r
  PROVE  GaveOrNot(Opens(s, kind, h, r), s, kind, h)
<1> USE DEF GaveOrNot
<1> DEFINE a == Opens(s, kind, h, r)
<1>1. CASE r.err = "CC_NOERROR"
  <2> DEFINE u == [s EXCEPT !.lib = r.lib]
  <2>1. a = [srv |-> Enter(u, kind, h, r.ptr), err |-> r.err, opened |-> TRUE]
    BY <1>1 DEF Opens
  <2>2. Shaped(u) /\ u.table = s.table
    BY LibraryKeepsTables
  <2>3. a.srv = Enter(u, kind, h, r.ptr) /\ a.opened = TRUE
    BY <2>1
  <2> HIDE DEF u
  <2>4. Becomes(Enter(u, kind, h, r.ptr), u, kind, DOMAIN u.table[kind] \cup {h})
    BY <2>2, EnterAdds
  <2> QED BY <2>2, <2>3, <2>4 DEF Becomes
<1>2. CASE r.err # "CC_NOERROR"
  <2> DEFINE l == IF "ptr" \in DOMAIN r THEN Lose(r.lib, r.ptr) ELSE r.lib
             u == [s EXCEPT !.lib = l]
  <2>1. a = Answer(u, r.err)
    BY <1>2 DEF Opens
  <2>2. Shaped(u) /\ u.table = s.table
    BY LibraryKeepsTables
  <2> HIDE DEF u
  <2>3. a.srv = u /\ a.opened = FALSE
    BY <2>1 DEF Answer
  <2> QED BY <2>2, <2>3
<1> QED BY <1>1, <1>2

(* A handler that takes a handle back has it out of its map, whatever the  *)
(* library answered.                                                       *)
LEMMA ClosesAlways ==
  ASSUME NEW s, Shaped(s), NEW kind \in Kind, NEW h, NEW r
  PROVE  Becomes(Closes(s, kind, h, r).srv, s, kind, DOMAIN s.table[kind] \ {h})
<1> DEFINE q == s.table[kind][h]
           l == IF q \in DOMAIN r.lib.heap THEN Lose(r.lib, q) ELSE r.lib
           u == [s EXCEPT !.lib = l]
<1>1. Closes(s, kind, h, r).srv = Leave(u, kind, h)
  BY DEF Closes, Answer
<1>2. Shaped(u) /\ u.table = s.table
  BY LibraryKeepsTables
<1> HIDE DEF u
<1>3. Becomes(Leave(u, kind, h), u, kind, DOMAIN u.table[kind] \ {h})
  BY <1>2, LeaveTakes
<1> QED BY <1>1, <1>2, <1>3 DEF Becomes

(* A handle that enters its map and its client's set at once keeps them in *)
(* step.                                                                   *)
LEMMA BothGain ==
  ASSUME OwnersInv, NEW c \in Client, NEW kind \in Kind, NEW h \in Handle,
         h \notin DOMAIN srv.table[kind],
         Becomes(srv', srv, kind, DOMAIN srv.table[kind] \cup {h}),
         owns' = [owns EXCEPT ![c] = @ \cup {<<kind, h>>}]
  PROVE  OwnersInv'
<1>1. \A b \in Client : <<kind, h>> \notin owns[b]
  BY DEF OwnersInv, Owned
<1>2. /\ owns'[c] = owns[c] \cup {<<kind, h>>}
      /\ \A b \in Client \ {c} : owns'[b] = owns[b]
  BY DEF OwnersInv, Owned
<1>3. owns' \in [Client -> SUBSET (Kind \X Handle)]
  BY DEF OwnersInv, Owned
<1>4. \A k \in Kind : DOMAIN srv'.table[k] \subseteq Handle
  BY DEF OwnersInv, Owned, Becomes
<1>5. ASSUME NEW k \in Kind, NEW g \in Handle
      PROVE  g \in DOMAIN srv'.table[k] <=> \E b \in Client : <<k, g>> \in owns'[b]
  <2>1. CASE k = kind /\ g = h
    BY <1>2, <2>1 DEF Becomes
  <2>2. CASE k # kind \/ g # h
    <3>1. <<k, g>> # <<kind, h>>
      BY <2>2
    <3>2. g \in DOMAIN srv'.table[k] <=> g \in DOMAIN srv.table[k]
      BY <2>2 DEF Becomes
    <3>3. ASSUME NEW b \in Client PROVE <<k, g>> \in owns'[b] <=> <<k, g>> \in owns[b]
      BY <1>2, <3>1
    <3> QED BY <3>2, <3>3 DEF OwnersInv, Owned
  <2> QED BY <2>1, <2>2
<1>6. ASSUME NEW b \in Client, NEW d \in Client, b # d PROVE owns'[b] \cap owns'[d] = {}
  <2>1. owns[b] \cap owns[d] = {} /\ <<kind, h>> \notin owns[b] /\ <<kind, h>> \notin owns[d]
    BY <1>1, <1>6 DEF OwnersInv, Owned
  <2> QED BY <1>2, <1>6, <2>1
<1> QED BY <1>3, <1>4, <1>5, <1>6 DEF OwnersInv, Owned, Becomes

(* So does one that leaves both.                                           *)
LEMMA BothLose ==
  ASSUME OwnersInv, NEW c \in Client, NEW kind \in Kind, NEW h \in Handle,
         <<kind, h>> \in owns[c],
         Becomes(srv', srv, kind, DOMAIN srv.table[kind] \ {h}),
         owns' = [owns EXCEPT ![c] = @ \ {<<kind, h>>}]
  PROVE  OwnersInv'
<1>1. \A b \in Client \ {c} : <<kind, h>> \notin owns[b]
  BY DEF OwnersInv, Owned
<1>2. /\ owns'[c] = owns[c] \ {<<kind, h>>}
      /\ \A b \in Client \ {c} : owns'[b] = owns[b]
  BY DEF OwnersInv, Owned
<1>3. owns' \in [Client -> SUBSET (Kind \X Handle)]
  BY DEF OwnersInv, Owned
<1>4. \A k \in Kind : DOMAIN srv'.table[k] \subseteq Handle
  BY DEF OwnersInv, Owned, Becomes
<1>5. ASSUME NEW k \in Kind, NEW g \in Handle
      PROVE  g \in DOMAIN srv'.table[k] <=> \E b \in Client : <<k, g>> \in owns'[b]
  <2>1. CASE k = kind /\ g = h
    <3>1. \A b \in Client : <<k, g>> \notin owns'[b]
      BY <1>1, <1>2, <2>1
    <3> QED BY <2>1, <3>1 DEF Becomes
  <2>2. CASE k # kind \/ g # h
    <3>1. <<k, g>> # <<kind, h>>
      BY <2>2
    <3>2. g \in DOMAIN srv'.table[k] <=> g \in DOMAIN srv.table[k]
      BY <2>2 DEF Becomes
    <3>3. ASSUME NEW b \in Client PROVE <<k, g>> \in owns'[b] <=> <<k, g>> \in owns[b]
      BY <1>2, <3>1
    <3> QED BY <3>2, <3>3 DEF OwnersInv, Owned
  <2> QED BY <2>1, <2>2
<1>6. ASSUME NEW b \in Client, NEW d \in Client, b # d PROVE owns'[b] \cap owns'[d] = {}
  <2>1. owns[b] \cap owns[d] = {}
    BY <1>6 DEF OwnersInv, Owned
  <2>2. owns'[b] \subseteq owns[b] /\ owns'[d] \subseteq owns[d]
    BY <1>2
  <2> QED BY <2>1, <2>2
<1> QED BY <1>3, <1>4, <1>5, <1>6 DEF OwnersInv, Owned, Becomes

(* Opening keeps maps and owners in step.                                  *)
LEMMA GivesHandleKeeps ==
  ASSUME OwnersInv, NEW c \in Client, NEW kind \in Kind, NEW r, GivesHandle(c, kind, r)
  PROVE  OwnersInv'
<1>0. Shaped(Now) /\ Now.table = srv.table
  BY NowKeepsTables DEF OwnersInv
<1>1. CASE srv' = Now /\ UNCHANGED owns
  BY <1>0, <1>1 DEF OwnersInv, Owned
<1>2. ASSUME NEW h \in Handle \ DOMAIN srv.table[kind],
             LET a == Opens(Now, kind, h, r)
             IN  /\ srv' = a.srv
                 /\ owns' = IF a.opened THEN [owns EXCEPT ![c] = @ \cup {<<kind, h>>}] ELSE owns
      PROVE  OwnersInv'
  <2> DEFINE a == Opens(Now, kind, h, r)
  <2>1. CASE a.opened = TRUE /\ Becomes(a.srv, Now, kind, DOMAIN Now.table[kind] \cup {h})
    <3>1. Becomes(srv', srv, kind, DOMAIN srv.table[kind] \cup {h})
      BY <1>0, <1>2, <2>1 DEF Becomes
    <3>2. owns' = [owns EXCEPT ![c] = @ \cup {<<kind, h>>}]
      BY <1>2, <2>1
    <3> QED BY <3>1, <3>2, BothGain
  <2>2. CASE a.opened = FALSE /\ Shaped(a.srv) /\ a.srv.table = Now.table
    <3>1. owns' = owns /\ Shaped(srv') /\ srv'.table = srv.table
      BY <1>0, <1>2, <2>2
    <3> QED BY <3>1 DEF OwnersInv, Owned
  <2>3. GaveOrNot(a, Now, kind, h)
    BY <1>0, OpensOrNot
  <2> QED BY <2>1, <2>2, <2>3 DEF GaveOrNot
<1> QED BY <1>1, <1>2 DEF GivesHandle

(* So does closing, by a call or by a rundown.                             *)
LEMMA ClosingKeeps ==
  ASSUME OwnersInv, NEW c \in Client, NEW kind \in Kind, NEW h \in Held(c, kind), NEW r,
         srv' = Closes(Now, kind, h, r).srv,
         owns' = [owns EXCEPT ![c] = @ \ {<<kind, h>>}]
  PROVE  OwnersInv'
<1>1. Shaped(Now) /\ Now.table = srv.table
  BY NowKeepsTables DEF OwnersInv
<1>2. Becomes(Closes(Now, kind, h, r).srv, Now, kind, DOMAIN Now.table[kind] \ {h})
  BY <1>1, ClosesAlways
<1>3. Becomes(srv', srv, kind, DOMAIN srv.table[kind] \ {h})
  BY <1>1, <1>2 DEF Becomes
<1>4. h \in Handle /\ <<kind, h>> \in owns[c]
  BY DEF Held
<1> QED BY <1>3, <1>4, BothLose

(* A call that closes a handle is such a closing.                          *)
LEMMA TakesKeeps ==
  ASSUME OwnersInv, NEW c \in Client, NEW kind \in Kind, NEW h \in Held(c, kind), NEW r,
         Takes(c, kind, h, r)
  PROVE  OwnersInv'
BY ClosingKeeps DEF Takes

(* The other handlers leave handles alone.                                 *)
LEMMA ChangesKeeps ==
  ASSUME OwnersInv, NEW c, NEW r, Changes(c, r)
  PROVE  OwnersInv'
<1>1. Shaped(Now) /\ Now.table = srv.table
  BY NowKeepsTables DEF OwnersInv
<1>2. srv' = [Now EXCEPT !.lib = r.lib] /\ owns' = owns
  BY DEF Changes, Works, Answer
<1>3. Shaped(srv') /\ srv'.table = srv.table
  BY <1>1, <1>2, LibraryKeepsTables
<1> QED BY <1>2, <1>3 DEF OwnersInv, Owned

(* At first the maps are empty and no one owns a handle.                   *)
LEMMA InitOwners == Init => OwnersInv
BY DEF Init, NoServer, OwnersInv, Owned, Shaped

(* Every handler, broken connection and rundown keeps maps and owners in   *)
(* step.                                                                   *)
LEMMA NextOwners ==
  ASSUME OwnersInv, [Next]_vars
  PROVE  OwnersInv'
<1> USE DEF Kind
<1>1. ASSUME NEW c \in Client, rcc_initialize(c) PROVE OwnersInv'
  BY <1>1, GivesHandleKeeps DEF rcc_initialize
<1>2. ASSUME NEW c \in Client, rcc_shutdown(c) PROVE OwnersInv'
  BY <1>2, TakesKeeps DEF rcc_shutdown
<1>3. ASSUME NEW c \in Client, rcc_get_change_time(c) PROVE OwnersInv'
  BY <1>3, ChangesKeeps DEF rcc_get_change_time
<1>4. ASSUME NEW c \in Client, rcc_create(c) PROVE OwnersInv'
  BY <1>4, GivesHandleKeeps DEF rcc_create
<1>5. ASSUME NEW c \in Client, rcc_open(c) PROVE OwnersInv'
  BY <1>5, GivesHandleKeeps DEF rcc_open
<1>6. ASSUME NEW c \in Client, rcc_close(c) PROVE OwnersInv'
  BY <1>6, TakesKeeps DEF rcc_close
<1>7. ASSUME NEW c \in Client, rcc_destroy(c) PROVE OwnersInv'
  BY <1>7, TakesKeeps DEF rcc_destroy
<1>8. ASSUME NEW c \in Client, rcc_seq_fetch_NCs_begin(c) PROVE OwnersInv'
  BY <1>8, GivesHandleKeeps DEF rcc_seq_fetch_NCs_begin
<1>9. ASSUME NEW c \in Client, rcc_seq_fetch_NCs_next(c) PROVE OwnersInv'
  BY <1>9, GivesHandleKeeps DEF rcc_seq_fetch_NCs_next
<1>10. ASSUME NEW c \in Client, rcc_seq_fetch_NCs_end(c) PROVE OwnersInv'
  BY <1>10, TakesKeeps DEF rcc_seq_fetch_NCs_end
<1>11. ASSUME NEW c \in Client, rcc_get_NC_info(c) PROVE OwnersInv'
  <2>1. Shaped(Now) /\ Now.table = srv.table
    BY NowKeepsTables DEF OwnersInv
  <2> QED BY <1>11, <2>1 DEF rcc_get_NC_info, OwnersInv, Owned
<1>12. ASSUME NEW c \in Client, rcc_get(c) PROVE OwnersInv'
  BY <1>12, ChangesKeeps DEF rcc_get
<1>13. ASSUME NEW c \in Client, rcc_set_principal(c) PROVE OwnersInv'
  BY <1>13, ChangesKeeps DEF rcc_set_principal
<1>14. ASSUME NEW c \in Client, rcc_store(c) PROVE OwnersInv'
  BY <1>14, ChangesKeeps DEF rcc_store
<1>15. ASSUME NEW c \in Client, rcc_remove_cred(c) PROVE OwnersInv'
  BY <1>15, ChangesKeeps DEF rcc_remove_cred
<1>16. ASSUME NEW c \in Client, rcc_seq_fetch_creds_begin(c) PROVE OwnersInv'
  BY <1>16, GivesHandleKeeps DEF rcc_seq_fetch_creds_begin
<1>17. ASSUME NEW c \in Client, rcc_seq_fetch_creds_next(c) PROVE OwnersInv'
  BY <1>17, ChangesKeeps DEF rcc_seq_fetch_creds_next
<1>18. ASSUME NEW c \in Client, rcc_seq_fetch_creds_end(c) PROVE OwnersInv'
  BY <1>18, TakesKeeps DEF rcc_seq_fetch_creds_end
<1>19. ASSUME NEW c \in Client, Break(c) PROVE OwnersInv'
  BY <1>19 DEF Break, OwnersInv, Owned
<1>20. ASSUME NEW c \in Client, Connect(c) PROVE OwnersInv'
  BY <1>20 DEF Connect, OwnersInv, Owned
<1>21. ASSUME NEW c \in Client, Rundown(c) PROVE OwnersInv'
  <2>1. PICK kind \in Kind : \E h \in Held(c, kind) :
          /\ srv' = Closes(Now, kind, h, RundownCall(kind, Object(kind, h))).srv
          /\ owns' = [owns EXCEPT ![c] = @ \ {<<kind, h>>}]
    BY <1>21 DEF Rundown
  <2> QED BY <2>1, ClosingKeeps
<1>22. CASE UNCHANGED vars
  BY <1>22 DEF vars, OwnersInv, Owned
<1> QED
  BY <1>1, <1>2, <1>3, <1>4, <1>5, <1>6, <1>7, <1>8, <1>9, <1>10, <1>11, <1>12, <1>13,
     <1>14, <1>15, <1>16, <1>17, <1>18, <1>19, <1>20, <1>21, <1>22 DEF Next

(* No handler leaves a handle open that its client did not get, and none   *)
(* closes a handle under the client that holds it: the maps of procs.cxx   *)
(* and the handles the RPC runtime would run down are the same, each with  *)
(* one owner.                                                              *)
THEOREM OneOwnerEach == Spec => []HandlesHaveOwners
<1>1. OwnersInv => HandlesHaveOwners
  <2> SUFFICES ASSUME OwnersInv PROVE HandlesHaveOwners
    OBVIOUS
  <2>1. ASSUME NEW k \in Kind, NEW x \in LiveHandles(k)
        PROVE  x \in UNION { owns[c] : c \in Client }
    BY <2>1 DEF OwnersInv, Owned, LiveHandles
  <2>2. ASSUME NEW c \in Client, NEW x \in owns[c]
        PROVE  x \in UNION { LiveHandles(k) : k \in Kind }
    <3>1. PICK k \in Kind, h \in Handle : x = <<k, h>>
      BY <2>2 DEF OwnersInv, Owned
    <3>2. x \in LiveHandles(k)
      BY <2>2, <3>1 DEF OwnersInv, Owned, LiveHandles
    <3> QED BY <3>2
  <2>3. \A b, c \in Client : b # c => owns[b] \cap owns[c] = {}
    BY DEF OwnersInv, Owned
  <2> HIDE DEF Kind
  <2> QED BY <2>1, <2>2, <2>3 DEF HandlesHaveOwners
<1> QED BY InitOwners, NextOwners, <1>1, PTL DEF Spec

(***************************************************************************)
(* The objects behind the handles.                                         *)
(***************************************************************************)
(* The library under the server: its data right, its objects of a kind.    *)
LibRight(l) ==
  /\ LibFormed(l) /\ DataRight(l.data)
  /\ DOMAIN l.heap \subseteq Pointer
  /\ \A q \in DOMAIN l.heap : "kind" \in DOMAIN l.heap[q] /\ l.heap[q].kind \in Kind

(* Each handle leads to an object of its kind, and each object has one.    *)
Leads(s) ==
  \A k \in Kind :
    /\ \A h \in DOMAIN s.table[k] :
         s.table[k][h] \in DOMAIN s.lib.heap /\ s.lib.heap[s.table[k][h]].kind = k
    /\ \A g, h \in DOMAIN s.table[k] : s.table[k][g] = s.table[k][h] => g = h
    /\ \A q \in DOMAIN s.lib.heap : s.lib.heap[q].kind = k
         => \E h \in DOMAIN s.table[k] : s.table[k][h] = q
    /\ s.table[k] = [h \in DOMAIN s.table[k] |-> s.table[k][h]]

(* What a call does to the objects: it leaves them, gives one or frees     *)
(* one; the others keep their kinds.                                       *)
AlikeObjects(l, m) ==
  \A x \in DOMAIN l.heap \cap DOMAIN m.heap : m.heap[x].kind = l.heap[x].kind
Keeps(l, m) == LibRight(m) /\ DOMAIN m.heap = DOMAIN l.heap /\ AlikeObjects(l, m)
Gains(l, m, q, k) ==
  /\ LibRight(m) /\ AlikeObjects(l, m)
  /\ q \in Pointer \ DOMAIN l.heap
  /\ DOMAIN m.heap = DOMAIN l.heap \cup {q} /\ m.heap[q].kind = k
Drops(l, m, q) == LibRight(m) /\ DOMAIN m.heap = DOMAIN l.heap \ {q} /\ AlikeObjects(l, m)

(* Data that moves by a method, under the same objects.                    *)
LEMMA DataKeeps ==
  ASSUME NEW l, LibRight(l), NEW d, Method(l.data, d)
  PROVE  /\ Keeps(l, OnData(l, d)) /\ OnData(l, d).data = d
         /\ Keeps(l, [OnData(l, d) EXCEPT !.leaked = TRUE])
<1> DEFINE m == OnData(l, d)
           n == [OnData(l, d) EXCEPT !.leaked = TRUE]
<1>1. OtherData(l, m, d) /\ OtherData(l, n, d)
  BY OnDataDoes DEF LibRight
<1>2. DataRight(d)
  BY MethodRight DEF LibRight
<1> HIDE DEF m, n
<1>3. Keeps(l, m) /\ m.data = d /\ Keeps(l, n)
  BY <1>1, <1>2 DEF Keeps, LibRight, OtherData, AlikeObjects
<1> QED BY <1>3 DEF m, n

(* Making an object gains one of its kind.                                 *)
LEMMA MakeGains ==
  ASSUME NEW l, LibRight(l), Room(l), NEW obj, "kind" \in DOMAIN obj, obj.kind \in Kind
  PROVE  Gains(l, Make(l, obj), NewPointer(l), obj.kind)
<1> DEFINE m == Make(l, obj)
           q == NewPointer(l)
<1>1. Added(l, m, q, obj)
  BY MakeAdds DEF LibRight
<1> HIDE DEF m, q
<1>2. Gains(l, m, q, obj.kind)
  BY <1>1 DEF Added, Gains, LibRight, AlikeObjects
<1> QED BY <1>2 DEF m, q

(* Freeing an object, or losing it, drops it and no other.                 *)
LEMMA FreeDrops ==
  ASSUME NEW l, LibRight(l), NEW q
  PROVE  Drops(l, Free(l, q), q) /\ Drops(l, Lose(l, q), q)
<1> DEFINE m == Free(l, q)
           n == [m EXCEPT !.leaked = TRUE]
<1>1. Freed(l, m, q)
  BY FreeFrees DEF LibRight
<1> HIDE DEF m
<1>2. LibFormed(n) /\ n.heap = m.heap /\ n.data = m.data
  BY <1>1 DEF Freed, LibFormed, LibFields
<1>3. Lose(l, q) = n
  BY DEF Lose, m
<1> HIDE DEF n
<1>4. Drops(l, m, q) /\ Drops(l, n, q)
  BY <1>1, <1>2 DEF Freed, Drops, LibRight, AlikeObjects
<1> QED BY <1>3, <1>4 DEF m

(* A field of an object changes, but not its kind.                         *)
LEMMA AlterKeeps ==
  ASSUME NEW l, LibRight(l), NEW q \in DOMAIN l.heap, NEW obj,
         "kind" \in DOMAIN obj, obj.kind = l.heap[q].kind
  PROVE  Keeps(l, [l EXCEPT !.heap[q] = obj])
<1> DEFINE m == [l EXCEPT !.heap[q] = obj]
<1>1. Altered(l, m, q, obj)
  BY AlterDoes DEF LibRight
<1> HIDE DEF m
<1>2. Keeps(l, m)
  BY <1>1 DEF Altered, Keeps, LibRight, AlikeObjects
<1> QED BY <1>2 DEF m

(* What keeps the objects may come before what gains, drops or keeps.      *)
LEMMA KeepsThenGains ==
  ASSUME NEW l, NEW m, Keeps(l, m), NEW n, NEW q, NEW k
  PROVE  /\ Gains(m, n, q, k) => Gains(l, n, q, k)
         /\ Drops(m, n, q) => Drops(l, n, q)
         /\ Keeps(m, n) => Keeps(l, n)
  BY DEF Keeps, Gains, Drops, AlikeObjects

(* The results of calls that give an object of kind k, that take the       *)
(* object at q back, and of the others.                                    *)
Giving(l, r, k) ==
  \/ r.err = "CC_NOERROR" /\ Gains(l, r.lib, r.ptr, k)
  \/ r.err # "CC_NOERROR" /\ "ptr" \in DOMAIN r /\ \E j : Gains(l, r.lib, r.ptr, j)
  \/ r.err # "CC_NOERROR" /\ "ptr" \notin DOMAIN r /\ Keeps(l, r.lib)
Taking(l, r, q) == Keeps(l, r.lib) \/ Drops(l, r.lib, q)

(* A call that fails and leaves the objects gives none.                    *)
LEMMA ResultsOfNothing ==
  ASSUME NEW l, LibRight(l), NEW m, Keeps(l, m), NEW err
  PROVE  /\ Keeps(l, Result(m, err).lib) /\ Keeps(l, l) /\ Keeps(l, Result(l, err).lib)
         /\ err # "CC_NOERROR" => \A k : Giving(l, Result(m, err), k)
         /\ err # "CC_NOERROR" => \A k : Giving(l, Result(l, err), k)
  BY DEF Keeps, AlikeObjects, Giving, Result

(* A call that succeeds gives an object of its kind.                       *)
LEMMA GivenGives ==
  ASSUME NEW l, LibRight(l), Room(l), NEW m, Keeps(l, m), NEW obj, "kind" \in DOMAIN obj,
         obj.kind \in Kind
  PROVE  Giving(l, Given(m, obj), obj.kind)
<1>1. Gains(m, Make(m, obj), NewPointer(m), obj.kind)
  BY MakeGains DEF Keeps, Room
<1>2. Gains(l, Make(m, obj), NewPointer(m), obj.kind)
  BY <1>1, KeepsThenGains
<1> QED BY <1>2 DEF Giving, Given

(* The calls that open and that begin an iteration give an object or fail. *)
LEMMA BeginningsGive ==
  ASSUME NEW l, LibRight(l), Room(l)
  PROVE  /\ Giving(l, CcInitialize(l), "context")
         /\ Giving(l, CcNCsBegin(l), "ncs")
         /\ \A n \in Name, v \in Version : Giving(l, CcOpen(l, n, v), "ccache")
         /\ \A q : Giving(l, CcCredsBegin(l, q), "creds")
<1>0. Keeps(l, l)
  BY ResultsOfNothing DEF Keeps, AlikeObjects
<1>1. Giving(l, CcInitialize(l), "context")
  <2>1. Giving(l, Given(l, Context), Context.kind)
    BY <1>0, GivenGives DEF Context, Kind
  <2> QED BY <2>1 DEF CcInitialize, Context
<1>2. Giving(l, CcNCsBegin(l), "ncs")
  <2> DEFINE obj == [kind |-> "ncs", set |-> l.data.order, pos |-> 1, repeat |-> 0]
  <2>1. Giving(l, Given(l, obj), obj.kind)
    BY <1>0, GivenGives DEF Kind
  <2> QED BY <2>1 DEF CcNCsBegin
<1>3. ASSUME NEW n \in Name, NEW v \in Version PROVE Giving(l, CcOpen(l, n, v), "ccache")
  <2> DEFINE obj == [kind |-> "ccache", id |-> FindCCache(l.data, n), version |-> v]
  <2>1. Giving(l, Given(l, obj), obj.kind)
    BY <1>0, GivenGives DEF Kind
  <2>2. Giving(l, Result(l, "CC_NO_EXIST"), "ccache")
    BY <1>0, ResultsOfNothing
  <2> QED BY <2>1, <2>2 DEF CcOpen
<1>4. ASSUME NEW q PROVE Giving(l, CcCredsBegin(l, q), "creds")
  <2> DEFINE c == l.heap[q].id
             obj == [kind |-> "creds", id |-> c, set |-> l.data.cache[c].creds,
                     pos |-> 1, version |-> l.heap[q].version]
  <2>1. Giving(l, Given(l, obj), obj.kind)
    BY <1>0, GivenGives DEF Kind
  <2>2. Giving(l, Result(l, "CC_NO_EXIST"), "creds")
    BY <1>0, ResultsOfNothing
  <2> QED BY <2>1, <2>2 DEF CcCredsBegin
<1> QED BY <1>1, <1>2, <1>3, <1>4

(* cc_create gives a reference.                                            *)
LEMMA CreateGives ==
  ASSUME NEW l, LibRight(l), Room(l), RoomForCache(l.data),
         NEW n \in Name, NEW v \in Version, NEW p \in Principal
  PROVE  Giving(l, CcCreate(l, n, v, p), "ccache")
<1> DEFINE made == CreateCCache(l.data, n, v, p)
           m == OnData(l, made.d)
           obj == [kind |-> "ccache", id |-> made.id, version |-> v]
<1>1. Keeps(l, m)
  <2>1. Method(l.data, made.d)
    BY DEF Method
  <2> HIDE DEF made
  <2> QED BY <2>1, DataKeeps
<1>2. CcCreate(l, n, v, p) = Given(m, obj)
  BY DEF CcCreate
<1> HIDE DEF made, m
<1>3. Giving(l, Given(m, obj), obj.kind)
  BY <1>1, GivenGives DEF Kind
<1> QED BY <1>2, <1>3

(* Opening the cache an iterator is at gives a reference, or fails and leaves one. *)
LEMMA OpenCurrentGives ==
  ASSUME NEW l, LibRight(l), Room(l), NEW m, Keeps(l, m), NEW q \in DOMAIN l.heap
  PROVE  Giving(l, OpenCurrent(m, q), "ccache")
<1> DEFINE it  == m.heap[q]
           c   == it.set[it.pos]
           l1  == [m EXCEPT !.heap[q].repeat = 1]
           obj == [kind |-> "ccache", id |-> c, version |-> OwnMode(m, c)]
           bad == [kind |-> "ccache", id |-> c, version |-> "both"]
<1>1. Keeps(l, l1)
  <2> DEFINE o == [it EXCEPT !.repeat = 1]
  <2>1. LibRight(m) /\ q \in DOMAIN m.heap
    BY DEF Keeps
  <2>2. l1 = [m EXCEPT !.heap[q] = o]
    BY <2>1 DEF LibRight, LibFormed
  <2>3. "kind" \in DOMAIN o /\ o.kind = m.heap[q].kind
    BY <2>1 DEF LibRight
  <2> HIDE DEF o
  <2>4. Keeps(m, l1)
    BY <2>1, <2>2, <2>3, AlterKeeps
  <2> HIDE DEF l1
  <2> QED BY <2>4, KeepsThenGains
<1> HIDE DEF l1, c
<1>2. Giving(l, Given(l1, obj), obj.kind) /\ Giving(l, Given(l1, bad), bad.kind)
  BY <1>1, GivenGives DEF Kind
<1>3. Giving(l, [Given(l1, bad) EXCEPT !.err = "CC_NO_EXIST"], "ccache")
  <2>1. Gains(l, Make(l1, bad), NewPointer(l1), "ccache")
    BY <1>2 DEF Giving, Given
  <2> HIDE DEF bad
  <2> QED BY <2>1 DEF Giving, Given
<1>4. OpenCurrent(m, q) \in { Given(l1, obj), [Given(l1, bad) EXCEPT !.err = "CC_NO_EXIST"] }
  BY DEF OpenCurrent, l1, c
<1> QED BY <1>2, <1>3, <1>4

(* The next cache of an iteration is given as a reference, or none is.     *)
LEMMA NCsNextGives ==
  ASSUME NEW l, LibRight(l), Room(l), NEW q \in DOMAIN l.heap
  PROVE  Giving(l, CcNCsNext(l, q), "ccache")
<1> DEFINE it  == l.heap[q]
           c   == it.set[it.pos]
           l1  == [l EXCEPT !.heap[q].pos = @ + 1]
           obj == [kind |-> "ccache", id |-> c, version |-> "v5"]
<1>0. Keeps(l, l)
  BY DEF Keeps, AlikeObjects
<1>1. Keeps(l, l1)
  <2> DEFINE o == [it EXCEPT !.pos = @ + 1]
  <2>1. l1 = [l EXCEPT !.heap[q] = o]
    BY DEF LibRight, LibFormed
  <2>2. "kind" \in DOMAIN o /\ o.kind = l.heap[q].kind
    BY DEF LibRight
  <2> HIDE DEF o
  <2> QED BY <2>1, <2>2, AlterKeeps
<1>2. CcNCsNext(l, q) \in { Result(l, "CC_END"), OpenCurrent(l, q), Given(l, obj),
                            Result(l1, "CC_END"), OpenCurrent(l1, q) }
  BY DEF CcNCsNext
<1> HIDE DEF l1, c
<1>3. Giving(l, OpenCurrent(l, q), "ccache") /\ Giving(l, OpenCurrent(l1, q), "ccache")
  BY <1>0, <1>1, OpenCurrentGives
<1>4. Giving(l, Given(l, obj), obj.kind)
  BY <1>0, GivenGives DEF Kind
<1>5. Giving(l, Result(l, "CC_END"), "ccache") /\ Giving(l, Result(l1, "CC_END"), "ccache")
  BY <1>1, ResultsOfNothing
<1> QED BY <1>2, <1>3, <1>4, <1>5

(* A call that frees its object takes it.                                  *)
LEMMA FreedTakes ==
  ASSUME NEW l, LibRight(l), NEW q
  PROVE  Taking(l, Result(Free(l, q), "CC_NOERROR"), q)
  BY FreeDrops DEF Taking, Result

(* cc_destroy takes its reference, or fails and leaves it.                 *)
LEMMA DestroyTakes ==
  ASSUME NEW l, LibRight(l), NEW q
  PROVE  Taking(l, CcDestroy(l, q), q)
<1> DEFINE c == l.heap[q].id
           m == OnData(l, Destroy(l.data, c))
<1>1. CASE ~Live(l.data, c)
  BY <1>1, ResultsOfNothing DEF CcDestroy, Taking, Keeps, AlikeObjects
<1>2. CASE Live(l.data, c)
  <2>1. CcDestroy(l, q) = Result(Free(m, q), "CC_NOERROR")
    BY <1>2 DEF CcDestroy
  <2>2. Keeps(l, m)
    <3>1. Method(l.data, Destroy(l.data, c))
      BY <1>2 DEF Method, Live
    <3> QED BY <3>1, DataKeeps
  <2> HIDE DEF m
  <2>3. Drops(m, Free(m, q), q)
    BY <2>2, FreeDrops DEF Keeps
  <2> QED BY <2>1, <2>2, <2>3, KeepsThenGains DEF Taking, Result
<1> QED BY <1>1, <1>2

(* The calls that work on a cache leave every object.                      *)
LEMMA WorkKeeps ==
  ASSUME NEW l, LibRight(l), NEW q
  PROVE  /\ Keeps(l, CcGetChangeTime(l).lib) /\ Keeps(l, CcGetName(l, q).lib)
         /\ Keeps(l, CcGetPrincipal(l, q).lib) /\ Keeps(l, CcGetCredVersion(l, q).lib)
         /\ \A v \in Version, p \in Principal : Keeps(l, CcSetPrincipal(l, q, v, p).lib)
         /\ \A new \in Creds : RoomForCred(l.data) => Keeps(l, CcStore(l, q, new).lib)
         /\ \A old \in Creds : Keeps(l, CcRemoveCred(l, q, old).lib)
<1>0. Keeps(l, l)
  BY DEF Keeps, AlikeObjects
<1>1. /\ Keeps(l, CcGetChangeTime(l).lib) /\ Keeps(l, CcGetName(l, q).lib)
      /\ Keeps(l, CcGetPrincipal(l, q).lib) /\ Keeps(l, CcGetCredVersion(l, q).lib)
  BY <1>0 DEF CcGetChangeTime, CcGetName, CcGetPrincipal, CcGetCredVersion, Result
<1>2. ASSUME NEW v \in Version, NEW p \in Principal PROVE Keeps(l, CcSetPrincipal(l, q, v, p).lib)
  <2> DEFINE c == l.heap[q].id
             d == CompatSetPrincipal(l.data, c, v, p)
  <2>1. Live(l.data, c) => Method(l.data, d)
    BY DEF Method, Live
  <2>2. CcSetPrincipal(l, q, v, p).lib = IF Live(l.data, c) THEN OnData(l, d) ELSE l
    BY DEF CcSetPrincipal, Result
  <2> HIDE DEF d
  <2>3. Method(l.data, d) => Keeps(l, OnData(l, d))
    BY DataKeeps
  <2> QED BY <1>0, <2>1, <2>2, <2>3
<1>3. ASSUME NEW new \in Creds, RoomForCred(l.data) PROVE Keeps(l, CcStore(l, q, new).lib)
  <2> DEFINE c == l.heap[q].id
             d == StoreCredentials(l.data, c, new)
  <2>1. Live(l.data, c) => Method(l.data, d)
    BY <1>3 DEF Method, Live
  <2>2. CcStore(l, q, new).lib = IF Live(l.data, c) THEN OnData(l, d) ELSE l
    BY DEF CcStore, Result
  <2> HIDE DEF d
  <2>3. Method(l.data, d) => Keeps(l, OnData(l, d))
    BY DataKeeps
  <2> QED BY <1>0, <2>1, <2>2, <2>3
<1>4. ASSUME NEW old \in Creds PROVE Keeps(l, CcRemoveCred(l, q, old).lib)
  <2>1. PICK d, err : /\ Method(l.data, d)
                      /\ CcRemoveCred(l, q, old) \in
                           { Result(l, err), Result([OnData(l, d) EXCEPT !.leaked = TRUE], err) }
    BY RemoveCredIsMethod DEF LibRight
  <2> DEFINE m == [OnData(l, d) EXCEPT !.leaked = TRUE]
  <2>2. Keeps(l, m)
    BY <2>1, DataKeeps
  <2> HIDE DEF m
  <2>3. Result(l, err).lib = l /\ Result(m, err).lib = m
    BY DEF Result
  <2>4. CcRemoveCred(l, q, old).lib \in { l, m }
    BY <2>1, <2>3 DEF m
  <2> QED BY <1>0, <2>2, <2>4
<1> QED BY <1>1, <1>2, <1>3, <1>4

Walked(m, q, n) == [m EXCEPT !.heap[q].pos = n]

(* The next credentials of an iteration move the iterator; the data is     *)
(* pinned at most.                                                         *)
LEMMA CredsNextWalks ==
  ASSUME NEW l, NEW q
  PROVE  \E m, n : /\ m \in { l, OnData(l, Pin(l.data)) }
                   /\ CcCredsNext(l, q).lib = Walked(m, q, n)
<1> DEFINE it   == l.heap[q]
           rest == it.pos .. Len(it.set)
           lost == { i \in rest : it.set[i] \notin DOMAIN l.data.cred }
           mine == { i \in rest \ lost : it.version \in {"both", l.data.cred[it.set[i]].version} }
           stop == CHOOSE i \in lost \cup mine : \A j \in lost \cup mine : i <= j
           l1   == IF rest = {} THEN l ELSE OnData(l, Pin(l.data))
           r    == CcCredsNext(l, q)
<1>1. r \in { Result([l1 EXCEPT !.heap[q].pos = Len(it.set) + 1], "CC_END"),
              Result([l1 EXCEPT !.heap[q].pos = stop + 1], "CC_NOTFOUND"),
              [lib |-> [l1 EXCEPT !.heap[q].pos = stop + 1], err |-> "CC_NOERROR",
               cred |-> it.set[stop]] }
  <2>1. CASE lost \cup mine = {}
    BY <2>1 DEF CcCredsNext
  <2>2. CASE lost \cup mine # {} /\ stop \in lost
    BY <2>2 DEF CcCredsNext
  <2>3. CASE lost \cup mine # {} /\ stop \notin lost
    BY <2>3 DEF CcCredsNext
  <2> QED BY <2>1, <2>2, <2>3
<1>2. l1 \in { l, OnData(l, Pin(l.data)) }
  OBVIOUS
<1>3. r \in { Result(Walked(l1, q, Len(it.set) + 1), "CC_END"),
              Result(Walked(l1, q, stop + 1), "CC_NOTFOUND"),
              [lib |-> Walked(l1, q, stop + 1), err |-> "CC_NOERROR", cred |-> it.set[stop]] }
  BY <1>1 DEF Walked
<1> HIDE DEF l1, stop, it, r, rest, lost, mine
<1>4. r.lib = Walked(l1, q, Len(it.set) + 1) \/ r.lib = Walked(l1, q, stop + 1)
  BY <1>3 DEF Result
<1> QED BY <1>2, <1>4 DEF r

(* The next credentials of an iteration leave every object.                *)
LEMMA CredsNextKeeps ==
  ASSUME NEW l, LibRight(l), NEW q \in DOMAIN l.heap
  PROVE  Keeps(l, CcCredsNext(l, q).lib)
<1>1. PICK m, n : /\ m \in { l, OnData(l, Pin(l.data)) }
                  /\ CcCredsNext(l, q).lib = Walked(m, q, n)
  BY CredsNextWalks
<1>2. Keeps(l, m)
  <2>1. Keeps(l, l)
    BY DEF Keeps, AlikeObjects
  <2>2. Keeps(l, OnData(l, Pin(l.data)))
    BY DataKeeps DEF Method
  <2> QED BY <1>1, <2>1, <2>2
<1> DEFINE o == [m.heap[q] EXCEPT !.pos = n]
<1>3. LibRight(m) /\ q \in DOMAIN m.heap
  BY <1>2 DEF Keeps
<1>4. Walked(m, q, n) = [m EXCEPT !.heap[q] = o]
  BY <1>3 DEF LibRight, LibFormed, Walked
<1>5. "kind" \in DOMAIN o /\ o.kind = m.heap[q].kind
  BY <1>3 DEF LibRight
<1> HIDE DEF o
<1>6. Keeps(m, [m EXCEPT !.heap[q] = o])
  BY <1>3, <1>5, AlterKeeps
<1> QED BY <1>1, <1>2, <1>4, <1>6, KeepsThenGains

(***************************************************************************)
(* The handlers.                                                           *)
(***************************************************************************)
ObjectsInv(s) == LibRight(s.lib) /\ Leads(s)

(* A library changed under the server, its objects kept.                   *)
LEMMA StayingLeads ==
  ASSUME NEW s, Shaped(s), ObjectsInv(s), NEW l, Keeps(s.lib, l)
  PROVE  ObjectsInv([s EXCEPT !.lib = l])
<1> DEFINE u == [s EXCEPT !.lib = l]
<1>1. u.lib = l /\ u.table = s.table
  BY DEF Shaped
<1> HIDE DEF u
<1>2. ObjectsInv(u)
  BY <1>1 DEF ObjectsInv, Leads, Keeps, AlikeObjects
<1> QED BY <1>2 DEF u

(* An object gained under a new handle.                                    *)
LEMMA EnteringLeads ==
  ASSUME NEW s, Shaped(s), ObjectsInv(s), NEW kind \in Kind, NEW h, h \notin DOMAIN s.table[kind],
         NEW l, NEW q, Gains(s.lib, l, q, kind)
  PROVE  ObjectsInv(Enter([s EXCEPT !.lib = l], kind, h, q))
<1> DEFINE u == [s EXCEPT !.lib = l]
           t == Enter(u, kind, h, q)
           D == DOMAIN s.table[kind]
<1>1. u.lib = l /\ u.table = s.table /\ Shaped(u)
  BY LibraryKeepsTables DEF Shaped
<1> HIDE DEF u
<1>2. /\ t.lib = l
      /\ t.table[kind] = [x \in D \cup {h} |-> IF x = h THEN q ELSE s.table[kind][x]]
      /\ \A k \in Kind \ {kind} : t.table[k] = s.table[k]
  BY <1>1 DEF Enter, Shaped
<1> HIDE DEF t
<1>3. /\ LibRight(l) /\ DOMAIN l.heap = DOMAIN s.lib.heap \cup {q} /\ q \notin DOMAIN s.lib.heap
      /\ l.heap[q].kind = kind
      /\ \A x \in DOMAIN s.lib.heap : l.heap[x].kind = s.lib.heap[x].kind
  BY DEF Gains, AlikeObjects
<1>4. ASSUME NEW k \in Kind
      PROVE  /\ \A x \in DOMAIN t.table[k] : t.table[k][x] \in DOMAIN l.heap /\ l.heap[t.table[k][x]].kind = k
             /\ \A x, y \in DOMAIN t.table[k] : t.table[k][x] = t.table[k][y] => x = y
             /\ \A p \in DOMAIN l.heap : l.heap[p].kind = k
                  => \E x \in DOMAIN t.table[k] : t.table[k][x] = p
             /\ t.table[k] = [x \in DOMAIN t.table[k] |-> t.table[k][x]]
  <2>0. /\ \A x \in DOMAIN s.table[k] :
             s.table[k][x] \in DOMAIN s.lib.heap /\ s.lib.heap[s.table[k][x]].kind = k
        /\ \A x, y \in DOMAIN s.table[k] : s.table[k][x] = s.table[k][y] => x = y
        /\ \A p \in DOMAIN s.lib.heap : s.lib.heap[p].kind = k
             => \E x \in DOMAIN s.table[k] : s.table[k][x] = p
        /\ s.table[k] = [x \in DOMAIN s.table[k] |-> s.table[k][x]]
    BY DEF ObjectsInv, Leads
  <2>1. CASE k = kind
    <3>1. /\ DOMAIN t.table[k] = D \cup {h} /\ t.table[k][h] = q
          /\ t.table[k] = [x \in DOMAIN t.table[k] |-> t.table[k][x]]
          /\ \A x \in D : t.table[k][x] = s.table[k][x]
      BY <1>2, <2>1
    <3> QED BY <1>3, <2>0, <2>1, <3>1
  <2>2. CASE k # kind
    BY <1>2, <1>3, <2>0, <2>2
  <2> QED BY <2>1, <2>2
<1>5. ObjectsInv(t)
  BY <1>2, <1>3, <1>4 DEF ObjectsInv, Leads
<1> QED BY <1>5 DEF t, u

(* A handle gone with its object.                                          *)
LEMMA LeavingLeads ==
  ASSUME NEW s, Shaped(s), ObjectsInv(s), NEW kind \in Kind, NEW h \in DOMAIN s.table[kind],
         NEW l, Drops(s.lib, l, s.table[kind][h])
  PROVE  ObjectsInv(Leave([s EXCEPT !.lib = l], kind, h))
<1> DEFINE u == [s EXCEPT !.lib = l]
           t == Leave(u, kind, h)
           D == DOMAIN s.table[kind]
           q == s.table[kind][h]
<1>1. u.lib = l /\ u.table = s.table /\ Shaped(u)
  BY LibraryKeepsTables DEF Shaped
<1> HIDE DEF u
<1>2. /\ t.lib = l
      /\ t.table[kind] = [x \in D \ {h} |-> s.table[kind][x]]
      /\ \A k \in Kind \ {kind} : t.table[k] = s.table[k]
  BY <1>1 DEF Leave, Shaped
<1> HIDE DEF t
<1>3. /\ LibRight(l) /\ DOMAIN l.heap = DOMAIN s.lib.heap \ {q}
      /\ \A x \in DOMAIN l.heap : l.heap[x].kind = s.lib.heap[x].kind
  BY DEF Drops, AlikeObjects
<1>4. ASSUME NEW k \in Kind
      PROVE  /\ \A x \in DOMAIN t.table[k] : t.table[k][x] \in DOMAIN l.heap /\ l.heap[t.table[k][x]].kind = k
             /\ \A x, y \in DOMAIN t.table[k] : t.table[k][x] = t.table[k][y] => x = y
             /\ \A p \in DOMAIN l.heap : l.heap[p].kind = k
                  => \E x \in DOMAIN t.table[k] : t.table[k][x] = p
             /\ t.table[k] = [x \in DOMAIN t.table[k] |-> t.table[k][x]]
  <2>0. /\ \A x \in DOMAIN s.table[k] :
             s.table[k][x] \in DOMAIN s.lib.heap /\ s.lib.heap[s.table[k][x]].kind = k
        /\ \A x, y \in DOMAIN s.table[k] : s.table[k][x] = s.table[k][y] => x = y
        /\ \A p \in DOMAIN s.lib.heap : s.lib.heap[p].kind = k
             => \E x \in DOMAIN s.table[k] : s.table[k][x] = p
        /\ s.table[k] = [x \in DOMAIN s.table[k] |-> s.table[k][x]]
        /\ s.lib.heap[q].kind = kind
    BY DEF ObjectsInv, Leads
  <2>1. CASE k = kind
    <3>1. /\ DOMAIN t.table[k] = D \ {h}
          /\ t.table[k] = [x \in DOMAIN t.table[k] |-> t.table[k][x]]
          /\ \A x \in D \ {h} : t.table[k][x] = s.table[k][x]
      BY <1>2, <2>1
    <3> QED BY <1>3, <2>0, <2>1, <3>1
  <2>2. CASE k # kind
    <3>1. \A x \in DOMAIN s.table[k] : s.table[k][x] # q
      BY <2>0, <2>2
    <3> HIDE DEF q
    <3> QED BY <1>2, <1>3, <2>0, <2>2, <3>1
  <2> QED BY <2>1, <2>2
<1>5. ObjectsInv(t)
  BY <1>2, <1>3, <1>4 DEF ObjectsInv, Leads
<1> QED BY <1>5 DEF t, u

(* A handler that opens, whether its call succeeds or fails, leaves handles and objects one to one. *)
LEMMA OpensLeads ==
  ASSUME NEW s, Shaped(s), ObjectsInv(s), NEW kind \in Kind, NEW h, h \notin DOMAIN s.table[kind],
         NEW r, Giving(s.lib, r, kind)
  PROVE  ObjectsInv(Opens(s, kind, h, r).srv)
<1>1. CASE r.err = "CC_NOERROR"
  <2>1. Gains(s.lib, r.lib, r.ptr, kind)
    BY <1>1 DEF Giving
  <2>2. Opens(s, kind, h, r).srv = Enter([s EXCEPT !.lib = r.lib], kind, h, r.ptr)
    BY <1>1 DEF Opens
  <2> QED BY <2>1, <2>2, EnteringLeads
<1>2. CASE r.err # "CC_NOERROR" /\ "ptr" \in DOMAIN r
  <2> DEFINE l == Lose(r.lib, r.ptr)
  <2>1. PICK j : Gains(s.lib, r.lib, r.ptr, j)
    BY <1>2 DEF Giving
  <2>2. Drops(r.lib, l, r.ptr)
    BY <2>1, FreeDrops DEF Gains
  <2>3. Opens(s, kind, h, r).srv = [s EXCEPT !.lib = l]
    BY <1>2 DEF Opens, Answer
  <2> HIDE DEF l
  <2>4. Keeps(s.lib, l)
    BY <2>1, <2>2 DEF Gains, Drops, Keeps, AlikeObjects
  <2> QED BY <2>3, <2>4, StayingLeads
<1>3. CASE r.err # "CC_NOERROR" /\ "ptr" \notin DOMAIN r
  <2>1. Keeps(s.lib, r.lib)
    BY <1>3 DEF Giving
  <2>2. Opens(s, kind, h, r).srv = [s EXCEPT !.lib = r.lib]
    BY <1>3 DEF Opens, Answer
  <2> QED BY <2>1, <2>2, StayingLeads
<1> QED BY <1>1, <1>2, <1>3

(* A handler that closes, whether its call succeeds or fails, leaves handles and objects one to one. *)
LEMMA ClosesLeads ==
  ASSUME NEW s, Shaped(s), ObjectsInv(s), NEW kind \in Kind, NEW h \in DOMAIN s.table[kind],
         NEW r, Taking(s.lib, r, s.table[kind][h])
  PROVE  ObjectsInv(Closes(s, kind, h, r).srv)
<1> DEFINE q == s.table[kind][h]
           l == IF q \in DOMAIN r.lib.heap THEN Lose(r.lib, q) ELSE r.lib
<1>1. Closes(s, kind, h, r).srv = Leave([s EXCEPT !.lib = l], kind, h)
  BY DEF Closes, Answer
<1>2. q \in DOMAIN s.lib.heap
  BY DEF ObjectsInv, Leads
<1> HIDE DEF q
<1>3. Drops(s.lib, l, q)
  <2>1. CASE Keeps(s.lib, r.lib)
    <3>1. Drops(r.lib, Lose(r.lib, q), q)
      BY <2>1, FreeDrops DEF Keeps
    <3> QED BY <1>2, <2>1, <3>1, KeepsThenGains DEF Keeps
  <2>2. CASE Drops(s.lib, r.lib, q)
    BY <2>2 DEF Drops
  <2> QED BY <2>1, <2>2 DEF Taking, q
<1> QED BY <1>1, <1>3, LeavingLeads DEF q

(* The inductive invariant.                                                *)
ServerInv ==
  /\ OwnersInv
  /\ ObjectsInv(srv)
  /\ gone \subseteq Client
  /\ stuck \in BOOLEAN

(* Every handler starts on the data without the stamps of the one before.  *)
LEMMA NowIsRight ==
  ASSUME OwnersInv, ObjectsInv(srv)
  PROVE  /\ Shaped(Now) /\ ObjectsInv(Now) /\ LibRight(L) /\ Now.lib = L
         /\ Now.table = srv.table
         /\ L.heap = srv.lib.heap /\ L.data = Quiet(srv.lib.data)
<1> DEFINE l == OnData(srv.lib, Quiet(srv.lib.data))
<1>0. Shaped(srv) /\ LibRight(srv.lib)
  BY DEF OwnersInv, ObjectsInv
<1>1. OtherData(srv.lib, l, Quiet(srv.lib.data))
  BY <1>0, OnDataDoes DEF LibRight
<1>2. DataRight(Quiet(srv.lib.data))
  BY <1>0, StampsRight DEF LibRight
<1>3. Now = [srv EXCEPT !.lib = l]
  <2>1. l = [srv.lib EXCEPT !.data = Quiet(@)]
    BY DEF OnData
  <2> HIDE DEF l
  <2> QED BY <1>0, <2>1 DEF Now, Shaped
<1> HIDE DEF l
<1>4. Keeps(srv.lib, l)
  BY <1>0, <1>1, <1>2 DEF Keeps, LibRight, AlikeObjects, OtherData
<1>5. ObjectsInv(Now)
  BY <1>0, <1>3, <1>4, StayingLeads DEF ObjectsInv
<1>6. Now.lib = l
  BY <1>0, <1>3 DEF Shaped
<1>7. Shaped(Now) /\ Now.table = srv.table
  BY <1>0, NowKeepsTables
<1> QED BY <1>1, <1>5, <1>6, <1>7 DEF L, ObjectsInv, OtherData

(* A handle that a client holds leads to an object.                        *)
LEMMA HeldLeads ==
  ASSUME OwnersInv, ObjectsInv(srv), NEW c \in Client, NEW kind \in Kind, NEW h \in Held(c, kind)
  PROVE  /\ h \in DOMAIN srv.table[kind] /\ h \in DOMAIN Now.table[kind]
         /\ Object(kind, h) = Now.table[kind][h] /\ Object(kind, h) \in DOMAIN L.heap
<1>1. h \in DOMAIN srv.table[kind]
  BY DEF Held, OwnersInv, Owned
<1>2. srv.table[kind][h] \in DOMAIN srv.lib.heap
  BY <1>1 DEF ObjectsInv, Leads
<1> QED BY <1>1, <1>2, NowIsRight DEF Object

(* So does every step of a client that may get a handle.                   *)
LEMMA GivesHandleLeads ==
  ASSUME OwnersInv, ObjectsInv(srv), NEW c \in Client, NEW kind \in Kind, NEW r,
         GivesHandle(c, kind, r), Room(L) => Giving(L, r, kind)
  PROVE  ObjectsInv(srv)' /\ gone' = gone /\ stuck' = stuck
<1>0. /\ Shaped(Now) /\ ObjectsInv(Now) /\ Now.lib = L /\ Now.table = srv.table
      /\ L.heap = srv.lib.heap
  BY NowIsRight
<1>1. Giving(L, r, kind)
  BY <1>0 DEF GivesHandle, Room
<1>2. ASSUME NEW h, h \notin DOMAIN srv.table[kind] PROVE ObjectsInv(Opens(Now, kind, h, r).srv)
  BY <1>0, <1>1, <1>2, OpensLeads
<1>3. ObjectsInv(srv')
  BY <1>0, <1>2 DEF GivesHandle
<1> QED BY <1>3 DEF GivesHandle, Calls

(* So does every step that closes a handle its client holds.               *)
LEMMA ClosingLeads ==
  ASSUME OwnersInv, ObjectsInv(srv), NEW c \in Client, NEW kind \in Kind, NEW h \in Held(c, kind),
         NEW r, Taking(L, r, Object(kind, h)), srv' = Closes(Now, kind, h, r).srv
  PROVE  ObjectsInv(srv)'
<1>1. ObjectsInv(Closes(Now, kind, h, r).srv)
  BY NowIsRight, HeldLeads, ClosesLeads
<1>2. ObjectsInv(srv')
  BY <1>1
<1> QED BY <1>2

(* So does every call that gives a handle back.                            *)
LEMMA TakesLeads ==
  ASSUME OwnersInv, ObjectsInv(srv), NEW c \in Client, NEW kind \in Kind, NEW h \in Held(c, kind),
         NEW r, Takes(c, kind, h, r), Taking(L, r, Object(kind, h))
  PROVE  ObjectsInv(srv)' /\ gone' = gone /\ stuck' = stuck
  BY ClosingLeads DEF Takes, Calls

(* So does every call that works on a cache.                               *)
LEMMA ChangesLeads ==
  ASSUME OwnersInv, ObjectsInv(srv), NEW c, NEW r, Changes(c, r), Keeps(L, r.lib)
  PROVE  ObjectsInv(srv)' /\ gone' = gone /\ stuck' = stuck
<1>1. srv' = [Now EXCEPT !.lib = r.lib]
  BY DEF Changes, Works, Answer
<1>2. ObjectsInv(srv')
  BY <1>1, NowIsRight, StayingLeads
<1> QED BY <1>2 DEF Changes, Calls

(* The server starts with the invariant.                                   *)
LEMMA InitServer == Init => ServerInv
<1> SUFFICES ASSUME Init PROVE ServerInv
  OBVIOUS
<1> DEFINE d == srv.lib.data
<1>0. OwnersInv
  BY InitOwners
<1>1. /\ d = ContextChanged(NoData) /\ DOMAIN srv.lib.heap = {} /\ LibFormed(srv.lib)
      /\ \A k \in Kind : /\ DOMAIN srv.table[k] = {}
                        /\ srv.table[k] = [h \in DOMAIN srv.table[k] |-> srv.table[k][h]]
  BY DEF Init, NoServer, NoLib, LibFormed, LibFields
<1>2. DataRight(d)
  BY <1>1, FirstDataRight
<1>3. ObjectsInv(srv)
  BY <1>1, <1>2 DEF ObjectsInv, LibRight, Leads
<1> QED BY <1>0, <1>3 DEF ServerInv, Init

(* Every step of the server, a handler or a rundown, keeps the invariant.  *)
LEMMA NextServer ==
  ASSUME ServerInv, [Next]_vars
  PROVE  ServerInv'
<1> USE DEF Kind
<1> DEFINE Fine == ObjectsInv(srv)' /\ gone' \subseteq Client /\ stuck' \in BOOLEAN
<1>0. /\ OwnersInv /\ ObjectsInv(srv) /\ gone \subseteq Client /\ stuck \in BOOLEAN
      /\ LibRight(L) /\ OwnersInv'
  BY NowIsRight, NextOwners DEF ServerInv
<1>r. (RoomForCache(srv.lib.data) => RoomForCache(L.data))
      /\ (RoomForCred(srv.lib.data) => RoomForCred(L.data))
  <2>1. WellFormed(srv.lib.data) /\ L.data = Quiet(srv.lib.data)
    BY <1>0, NowIsRight DEF ObjectsInv, LibRight, DataRight, Good
  <2>0. /\ Quiet(srv.lib.data).nextCache = srv.lib.data.nextCache
        /\ Quiet(srv.lib.data).nextCred = srv.lib.data.nextCred
    BY <2>1, StampsDo
  <2>2. L.data.nextCache = srv.lib.data.nextCache /\ L.data.nextCred = srv.lib.data.nextCred
    BY <2>0, <2>1
  <2> HIDE DEF L
  <2> QED BY <2>2 DEF RoomForCache, RoomForCred
<1>1. ASSUME NEW c \in Client, rcc_initialize(c) PROVE Fine
  BY <1>0, <1>1, BeginningsGive, GivesHandleLeads DEF rcc_initialize
<1>2. ASSUME NEW c \in Client, rcc_shutdown(c) PROVE Fine
  BY <1>0, <1>2, FreedTakes, TakesLeads DEF rcc_shutdown, CcShutdown
<1>3. ASSUME NEW c \in Client, rcc_get_change_time(c) PROVE Fine
  BY <1>0, <1>3, WorkKeeps, ChangesLeads DEF rcc_get_change_time
<1>4. ASSUME NEW c \in Client, rcc_create(c) PROVE Fine
  <2>1. PICK n \in Name, v \in Version, p \in Principal :
          RoomForCache(srv.lib.data) /\ GivesHandle(c, "ccache", CcCreate(L, n, v, p))
    BY <1>4 DEF rcc_create
  <2> QED BY <1>0, <1>r, <2>1, CreateGives, GivesHandleLeads
<1>5. ASSUME NEW c \in Client, rcc_open(c) PROVE Fine
  BY <1>0, <1>5, BeginningsGive, GivesHandleLeads DEF rcc_open
<1>6. ASSUME NEW c \in Client, rcc_close(c) PROVE Fine
  BY <1>0, <1>6, FreedTakes, TakesLeads DEF rcc_close, CcClose
<1>7. ASSUME NEW c \in Client, rcc_destroy(c) PROVE Fine
  BY <1>0, <1>7, DestroyTakes, TakesLeads DEF rcc_destroy
<1>8. ASSUME NEW c \in Client, rcc_seq_fetch_NCs_begin(c) PROVE Fine
  BY <1>0, <1>8, BeginningsGive, GivesHandleLeads DEF rcc_seq_fetch_NCs_begin
<1>9. ASSUME NEW c \in Client, rcc_seq_fetch_NCs_next(c) PROVE Fine
  BY <1>0, <1>9, HeldLeads, NCsNextGives, GivesHandleLeads DEF rcc_seq_fetch_NCs_next
<1>10. ASSUME NEW c \in Client, rcc_seq_fetch_NCs_end(c) PROVE Fine
  BY <1>0, <1>10, FreedTakes, TakesLeads DEF rcc_seq_fetch_NCs_end, CcNCsEnd
<1>11. ASSUME NEW c \in Client, rcc_get_NC_info(c) PROVE Fine
  <2>1. srv' = Now /\ gone' = gone /\ stuck' \in BOOLEAN
    BY <1>11 DEF rcc_get_NC_info
  <2>2. ObjectsInv(srv')
    BY <1>0, <2>1, NowIsRight
  <2> QED BY <1>0, <2>1, <2>2
<1>12. ASSUME NEW c \in Client, rcc_get(c) PROVE Fine
  BY <1>0, <1>12, WorkKeeps, ChangesLeads DEF rcc_get
<1>13. ASSUME NEW c \in Client, rcc_set_principal(c) PROVE Fine
  BY <1>0, <1>13, WorkKeeps, ChangesLeads DEF rcc_set_principal
<1>14. ASSUME NEW c \in Client, rcc_store(c) PROVE Fine
  BY <1>0, <1>r, <1>14, WorkKeeps, ChangesLeads DEF rcc_store
<1>15. ASSUME NEW c \in Client, rcc_remove_cred(c) PROVE Fine
  BY <1>0, <1>15, WorkKeeps, ChangesLeads DEF rcc_remove_cred
<1>16. ASSUME NEW c \in Client, rcc_seq_fetch_creds_begin(c) PROVE Fine
  BY <1>0, <1>16, BeginningsGive, GivesHandleLeads DEF rcc_seq_fetch_creds_begin
<1>17. ASSUME NEW c \in Client, rcc_seq_fetch_creds_next(c) PROVE Fine
  BY <1>0, <1>17, HeldLeads, CredsNextKeeps, ChangesLeads DEF rcc_seq_fetch_creds_next
<1>18. ASSUME NEW c \in Client, rcc_seq_fetch_creds_end(c) PROVE Fine
  BY <1>0, <1>18, FreedTakes, TakesLeads DEF rcc_seq_fetch_creds_end, CcCredsEnd
<1>19. ASSUME NEW c \in Client, Break(c) \/ Connect(c) PROVE Fine
  BY <1>0, <1>19 DEF Break, Connect
<1>21. ASSUME NEW c \in Client, Rundown(c) PROVE Fine
  <2>1. PICK kind \in Kind : \E h \in Held(c, kind) :
          srv' = Closes(Now, kind, h, RundownCall(kind, Object(kind, h))).srv
    BY <1>21 DEF Rundown
  <2>2. PICK h \in Held(c, kind) :
          srv' = Closes(Now, kind, h, RundownCall(kind, Object(kind, h))).srv
    BY <2>1
  <2>3. RundownCall(kind, Object(kind, h)) = Result(Free(L, Object(kind, h)), "CC_NOERROR")
    BY DEF RundownCall, CcShutdown, CcClose, CcNCsEnd, CcCredsEnd
  <2>4. gone' = gone /\ stuck' = stuck
    BY <1>21 DEF Rundown
  <2> QED BY <1>0, <2>2, <2>3, <2>4, FreedTakes, ClosingLeads
<1>22. ASSUME UNCHANGED vars PROVE Fine
  <2>1. srv' = srv /\ gone' = gone /\ stuck' = stuck
    BY <1>22 DEF vars
  <2>2. ObjectsInv(srv')
    BY <1>0, <2>1
  <2> QED BY <1>0, <2>1, <2>2
<1> HIDE DEF Fine
<1>23. Fine
  BY <1>1, <1>2, <1>3, <1>4, <1>5, <1>6, <1>7, <1>8, <1>9, <1>10, <1>11, <1>12, <1>13,
     <1>14, <1>15, <1>16, <1>17, <1>18, <1>19, <1>21, <1>22 DEF Next
<1> QED BY <1>0, <1>23 DEF ServerInv, Fine

(* The invariant holds in every state of the server.                       *)
LEMMA ServerAlwaysRight == Spec => []ServerInv
  BY InitServer, NextServer, PTL DEF Spec

(* What the server keeps is what the code's types say: tables from handles *)
(* to pointers, handles of each client.                                    *)
THEOREM ServerTypes == Spec => []ServerTypeOK
<1>1. ServerInv => ServerTypeOK
  <2> SUFFICES ASSUME ServerInv PROVE ServerTypeOK
    OBVIOUS
  <2>1. ASSUME NEW k \in Kind PROVE srv.table[k] \in [DOMAIN srv.table[k] -> Pointer]
    <3>1. srv.table[k] = [h \in DOMAIN srv.table[k] |-> srv.table[k][h]]
      BY DEF ServerInv, ObjectsInv, Leads
    <3>2. \A h \in DOMAIN srv.table[k] : srv.table[k][h] \in Pointer
      BY DEF ServerInv, ObjectsInv, Leads, LibRight
    <3> QED BY <3>1, <3>2
  <2> QED BY <2>1 DEF ServerTypeOK, ServerInv, OwnersInv, Owned
<1> QED BY <1>1, ServerAlwaysRight, PTL

(* The server neither uses nor frees an object twice, and every object it  *)
(* has not leaked can still be freed: the objects of a kind and the live   *)
(* handles of that kind correspond one to one, whatever calls fail and     *)
(* whatever clients go.                                                    *)
THEOREM HandlesCorrect == Spec => []HandlesLeadToObjects
<1>1. ServerInv => HandlesLeadToObjects
  <2> SUFFICES ASSUME ServerInv, NEW k \in Kind
               PROVE  /\ IsInjective(srv.table[k])
                      /\ { srv.table[k][h] : h \in DOMAIN srv.table[k] } =
                           { q \in DOMAIN srv.lib.heap : srv.lib.heap[q].kind = k }
    BY DEF HandlesLeadToObjects
  <2>1. /\ \A h \in DOMAIN srv.table[k] :
             srv.table[k][h] \in DOMAIN srv.lib.heap /\ srv.lib.heap[srv.table[k][h]].kind = k
        /\ \A g, h \in DOMAIN srv.table[k] : srv.table[k][g] = srv.table[k][h] => g = h
        /\ \A q \in DOMAIN srv.lib.heap : srv.lib.heap[q].kind = k
             => \E h \in DOMAIN srv.table[k] : srv.table[k][h] = q
    BY DEF ServerInv, ObjectsInv, Leads
  <2> QED BY <2>1 DEF IsInjective
<1> QED BY <1>1, ServerAlwaysRight, PTL

(* The data the server keeps for its clients is good whatever they do and  *)
(* however they go: lists match registries, IDs are fresh, no credential   *)
(* is owned twice, and every cache has a principal.                        *)
THEOREM ServerDataRight == Spec => []DataRight(srv.lib.data)
<1>1. ServerInv => DataRight(srv.lib.data)
  BY DEF ServerInv, ObjectsInv, LibRight
<1> QED BY <1>1, ServerAlwaysRight, PTL

(* Running down the handles of a client that went destroys no cache and no *)
(* credential: rundown.cxx closes, and never destroys.                     *)
THEOREM RundownHarmless == Spec => RundownKeepsData
<1> DEFINE Harmless == \A c \in Client : Rundown(c) =>
                         /\ srv'.lib.data.cache = srv.lib.data.cache
                         /\ srv'.lib.data.cred = srv.lib.data.cred
<1>1. ServerInv /\ [Next]_vars => [Harmless]_vars
  <2> SUFFICES ASSUME ServerInv, NEW c \in Client, Rundown(c)
               PROVE  /\ srv'.lib.data.cache = srv.lib.data.cache
                      /\ srv'.lib.data.cred = srv.lib.data.cred
    OBVIOUS
  <2>0. Shaped(Now) /\ LibRight(L) /\ L.data = Quiet(srv.lib.data) /\ WellFormed(srv.lib.data)
    BY NowIsRight DEF ServerInv, ObjectsInv, LibRight, DataRight, Good
  <2>1. PICK kind \in Kind : \E h \in Held(c, kind) :
          srv' = Closes(Now, kind, h, RundownCall(kind, Object(kind, h))).srv
    BY DEF Rundown
  <2>2. PICK h \in Held(c, kind) :
          srv' = Closes(Now, kind, h, RundownCall(kind, Object(kind, h))).srv
    BY <2>1
  <2> DEFINE q == Object(kind, h)
             p == Now.table[kind][h]
             l == Free(L, q)
             m == IF p \in DOMAIN l.heap THEN Lose(l, p) ELSE l
  <2>3. RundownCall(kind, q) = Result(l, "CC_NOERROR")
    BY DEF RundownCall, CcShutdown, CcClose, CcNCsEnd, CcCredsEnd, Kind
  <2>4. srv' = Leave([Now EXCEPT !.lib = m], kind, h)
    BY <2>2, <2>3 DEF Closes, Answer, Result
  <2>5. m.data = L.data
    <3>1. Freed(L, l, q)
      BY <2>0, FreeFrees DEF LibRight
    <3> HIDE DEF l
    <3>2. Freed(l, Free(l, p), p)
      BY <3>1, FreeFrees DEF Freed
    <3>3. Lose(l, p).data = Free(l, p).data
      BY <3>2 DEF Lose, Freed, LibFormed, LibFields
    <3> QED BY <3>1, <3>2, <3>3 DEF Freed
  <2> HIDE DEF m
  <2>6. srv'.lib = m
    BY <2>0, <2>4 DEF Leave, Shaped
  <2>7. /\ Quiet(srv.lib.data).cache = srv.lib.data.cache
        /\ Quiet(srv.lib.data).cred = srv.lib.data.cred
    BY <2>0, StampsDo
  <2> QED BY <2>0, <2>5, <2>6, <2>7
<1>2. []ServerInv /\ [][Next]_vars => [][Harmless]_vars
  BY <1>1, PTL
<1> QED BY <1>2, ServerAlwaysRight, PTL DEF RundownKeepsData, Spec

(***************************************************************************)
(* The handlers and the data layer.                                        *)
(***************************************************************************)
(* A library record, whatever objects it has.                              *)
Fields(l) == DOMAIN l = LibFields

(* Objects come, change and go apart from the data.                        *)
LEMMA ObjectsApart ==
  ASSUME NEW l, Fields(l), NEW h, NEW b
  PROVE  /\ Fields([l EXCEPT !.heap = h]) /\ [l EXCEPT !.heap = h].data = l.data
         /\ Fields([l EXCEPT !.leaked = b]) /\ [l EXCEPT !.leaked = b].data = l.data
BY DEF Fields, LibFields

(* So they do in the library's calls that make, free and lose them.        *)
LEMMA MadeApart ==
  ASSUME NEW l, Fields(l), NEW obj, NEW q
  PROVE  /\ Fields(Make(l, obj)) /\ Make(l, obj).data = l.data
         /\ Fields(Free(l, q)) /\ Free(l, q).data = l.data
         /\ Fields(Lose(l, q)) /\ Lose(l, q).data = l.data
<1>1. Fields(Make(l, obj)) /\ Make(l, obj).data = l.data
  BY ObjectsApart DEF Make
<1>2. Fields(Free(l, q)) /\ Free(l, q).data = l.data
  BY ObjectsApart DEF Free
<1>3. Fields(Lose(l, q)) /\ Lose(l, q).data = l.data
  <2> DEFINE m == Free(l, q)
  <2>1. Lose(l, q) = [m EXCEPT !.leaked = TRUE]
    BY DEF Lose
  <2> HIDE DEF m
  <2>2. Fields(m) /\ m.data = l.data
    BY <1>2 DEF m
  <2> QED BY <2>1, <2>2, ObjectsApart
<1> QED BY <1>1, <1>2, <1>3

(* What a call does to the data: one method, or nothing.                   *)
Moves(l, r) == Fields(r.lib) /\ Method(l.data, r.lib.data)

(* The results of calls that move the data to that of m.                   *)
LEMMA ResultsMove ==
  ASSUME NEW l, NEW m, Fields(m), Method(l.data, m.data), NEW err, NEW obj, NEW q
  PROVE  /\ Moves(l, Result(m, err)) /\ Moves(l, Given(m, obj))
         /\ Moves(l, [Given(m, obj) EXCEPT !.err = err])
         /\ Moves(l, Result(Free(m, q), err))
  BY MadeApart DEF Moves, Result, Given

(* A library that stays, and one whose data moves by a method.             *)
LEMMA LibrariesMove ==
  ASSUME NEW l, LibRight(l), NEW d, Method(l.data, d)
  PROVE  /\ Fields(l) /\ Method(l.data, l.data)
         /\ Fields(OnData(l, d)) /\ OnData(l, d).data = d
<1>1. Fields(l)
  BY DEF LibRight, LibFormed, Fields
<1>2. Fields(OnData(l, d)) /\ OnData(l, d).data = d
  BY <1>1 DEF Fields, OnData, LibFields
<1> QED BY <1>1, <1>2 DEF Method

(* The calls that only read the data, and those that free their object.    *)
LEMMA ReadingsMove ==
  ASSUME NEW l, LibRight(l), NEW q
  PROVE  /\ Moves(l, CcInitialize(l)) /\ Moves(l, CcShutdown(l, q))
         /\ Moves(l, CcGetChangeTime(l)) /\ Moves(l, CcGetName(l, q))
         /\ Moves(l, CcGetPrincipal(l, q)) /\ Moves(l, CcGetCredVersion(l, q))
         /\ Moves(l, CcClose(l, q)) /\ Moves(l, CcNCsBegin(l)) /\ Moves(l, CcNCsEnd(l, q))
         /\ Moves(l, CcCredsBegin(l, q)) /\ Moves(l, CcCredsEnd(l, q))
         /\ \A n \in Name, v \in Version : Moves(l, CcOpen(l, n, v))
<1>0. Fields(l) /\ Method(l.data, l.data)
  BY LibrariesMove DEF Method
<1>1. /\ Moves(l, CcInitialize(l)) /\ Moves(l, CcShutdown(l, q))
      /\ Moves(l, CcClose(l, q)) /\ Moves(l, CcNCsBegin(l)) /\ Moves(l, CcNCsEnd(l, q))
      /\ Moves(l, CcCredsEnd(l, q))
  BY <1>0, ResultsMove DEF CcInitialize, CcShutdown, CcClose, CcNCsBegin, CcNCsEnd, CcCredsEnd
<1>2. /\ Moves(l, CcGetChangeTime(l)) /\ Moves(l, CcGetName(l, q))
      /\ Moves(l, CcGetPrincipal(l, q)) /\ Moves(l, CcGetCredVersion(l, q))
  BY <1>0, ResultsMove DEF CcGetChangeTime, CcGetName, CcGetPrincipal, CcGetCredVersion
<1>3. Moves(l, CcCredsBegin(l, q))
  BY <1>0, ResultsMove DEF CcCredsBegin
<1>4. ASSUME NEW n \in Name, NEW v \in Version PROVE Moves(l, CcOpen(l, n, v))
  BY <1>0, ResultsMove DEF CcOpen
<1> QED BY <1>1, <1>2, <1>3, <1>4

(* The next cache of an iteration is found without touching the data.      *)
LEMMA NCsNextMoves ==
  ASSUME NEW l, LibRight(l), NEW q
  PROVE  Moves(l, CcNCsNext(l, q))
<1>0. Fields(l) /\ Method(l.data, l.data)
  BY LibrariesMove DEF Method
<1>1. ASSUME NEW m, Fields(m), m.data = l.data PROVE Moves(l, OpenCurrent(m, q))
  <2> DEFINE h  == [m.heap EXCEPT ![q].repeat = 1]
             l1 == [m EXCEPT !.heap[q].repeat = 1]
             c  == m.heap[q].set[m.heap[q].pos]
             obj == [kind |-> "ccache", id |-> c, version |-> OwnMode(m, c)]
             bad == [kind |-> "ccache", id |-> c, version |-> "both"]
  <2>1. l1 = [m EXCEPT !.heap = h]
    OBVIOUS
  <2> HIDE DEF h, l1
  <2>2. Fields(l1) /\ l1.data = l.data
    BY <1>1, <2>1, ObjectsApart
  <2>3. OpenCurrent(m, q) \in { Given(l1, obj), [Given(l1, bad) EXCEPT !.err = "CC_NO_EXIST"] }
    BY DEF OpenCurrent, l1
  <2> HIDE DEF obj, bad
  <2>4. Method(l.data, l1.data)
    BY <1>0, <2>2
  <2>5. Moves(l, Given(l1, obj)) /\ Moves(l, [Given(l1, bad) EXCEPT !.err = "CC_NO_EXIST"])
    BY <2>2, <2>4, ResultsMove
  <2> QED BY <2>3, <2>5
<1> DEFINE c  == l.heap[q].set[l.heap[q].pos]
           l1 == [l EXCEPT !.heap[q].pos = @ + 1]
           h  == [l.heap EXCEPT ![q].pos = @ + 1]
           obj == [kind |-> "ccache", id |-> c, version |-> "v5"]
<1>2. l1 = [l EXCEPT !.heap = h]
  OBVIOUS
<1>3. CcNCsNext(l, q) \in { Result(l, "CC_END"), OpenCurrent(l, q), Given(l, obj),
                            Result(l1, "CC_END"), OpenCurrent(l1, q) }
  BY DEF CcNCsNext
<1> HIDE DEF l1, h, obj
<1>4. Fields(l1) /\ l1.data = l.data
  BY <1>0, <1>2, ObjectsApart
<1>5. Moves(l, OpenCurrent(l, q)) /\ Moves(l, OpenCurrent(l1, q))
  BY <1>0, <1>1, <1>4
<1>6. Moves(l, Result(l, "CC_END")) /\ Moves(l, Given(l, obj)) /\ Moves(l, Result(l1, "CC_END"))
  BY <1>0, <1>4, ResultsMove
<1> QED BY <1>3, <1>5, <1>6

(* cc_create is one CreateCCache.                                          *)
LEMMA CreateMoves ==
  ASSUME NEW l, LibRight(l), RoomForCache(l.data),
         NEW n \in Name, NEW v \in Version, NEW p \in Principal
  PROVE  Moves(l, CcCreate(l, n, v, p))
<1> DEFINE made == CreateCCache(l.data, n, v, p)
           m == OnData(l, made.d)
           obj == [kind |-> "ccache", id |-> made.id, version |-> v]
<1>1. Method(l.data, made.d)
  BY DEF Method
<1>2. CcCreate(l, n, v, p) = Given(m, obj)
  BY DEF CcCreate
<1> HIDE DEF made, obj
<1>3. Fields(m) /\ m.data = made.d
  BY <1>1, LibrariesMove
<1> HIDE DEF m
<1>4. Method(l.data, m.data)
  BY <1>1, <1>3
<1>5. Moves(l, Given(m, obj))
  BY <1>3, <1>4, ResultsMove
<1> QED BY <1>2, <1>5

(* The calls that change a cache each use one method, or fail before it.   *)
LEMMA WorkMoves ==
  ASSUME NEW l, LibRight(l), NEW q
  PROVE  /\ Moves(l, CcDestroy(l, q))
         /\ \A v \in Version, p \in Principal : Moves(l, CcSetPrincipal(l, q, v, p))
         /\ \A new \in Creds : RoomForCred(l.data) => Moves(l, CcStore(l, q, new))
         /\ \A old \in Creds : Moves(l, CcRemoveCred(l, q, old))
<1> DEFINE c == l.heap[q].id
<1>0. \A err : Moves(l, Result(l, err))
  BY LibrariesMove, ResultsMove DEF Method
<1>1. Moves(l, CcDestroy(l, q))
  <2> DEFINE d == Destroy(l.data, c)
             m == OnData(l, d)
  <2>1. Live(l.data, c) => Method(l.data, d)
    BY DEF Method, Live
  <2>2. CcDestroy(l, q) = IF Live(l.data, c) THEN Result(Free(m, q), "CC_NOERROR")
                          ELSE Result(l, "CC_NO_EXIST")
    BY DEF CcDestroy
  <2> HIDE DEF d
  <2>3. Live(l.data, c) => Fields(m) /\ m.data = d
    BY <2>1, LibrariesMove
  <2> HIDE DEF m
  <2>4. Live(l.data, c) => Moves(l, Result(Free(m, q), "CC_NOERROR"))
    BY <2>1, <2>3, ResultsMove
  <2> QED BY <1>0, <2>2, <2>4
<1>2. ASSUME NEW v \in Version, NEW p \in Principal PROVE Moves(l, CcSetPrincipal(l, q, v, p))
  <2> DEFINE d == CompatSetPrincipal(l.data, c, v, p)
             m == OnData(l, d)
  <2>1. Live(l.data, c) => Method(l.data, d)
    BY DEF Method, Live
  <2>2. CcSetPrincipal(l, q, v, p) = IF Live(l.data, c) THEN Result(m, "CC_NOERROR")
                                     ELSE Result(l, "CC_NO_EXIST")
    BY DEF CcSetPrincipal
  <2> HIDE DEF d
  <2>3. Live(l.data, c) => Fields(m) /\ m.data = d
    BY <2>1, LibrariesMove
  <2> HIDE DEF m
  <2>4. Live(l.data, c) => Moves(l, Result(m, "CC_NOERROR"))
    BY <2>1, <2>3, ResultsMove
  <2> QED BY <1>0, <2>2, <2>4
<1>3. ASSUME NEW new \in Creds, RoomForCred(l.data) PROVE Moves(l, CcStore(l, q, new))
  <2> DEFINE d == StoreCredentials(l.data, c, new)
             m == OnData(l, d)
  <2>1. Live(l.data, c) => Method(l.data, d)
    BY <1>3 DEF Method, Live
  <2>2. CcStore(l, q, new) = IF Live(l.data, c) THEN Result(m, "CC_NOERROR")
                             ELSE Result(l, "CC_NO_EXIST")
    BY DEF CcStore
  <2> HIDE DEF d
  <2>3. Live(l.data, c) => Fields(m) /\ m.data = d
    BY <2>1, LibrariesMove
  <2> HIDE DEF m
  <2>4. Live(l.data, c) => Moves(l, Result(m, "CC_NOERROR"))
    BY <2>1, <2>3, ResultsMove
  <2> QED BY <1>0, <2>2, <2>4
<1>4. ASSUME NEW old \in Creds PROVE Moves(l, CcRemoveCred(l, q, old))
  <2>1. PICK d, err : /\ Method(l.data, d)
                      /\ CcRemoveCred(l, q, old) \in
                           { Result(l, err), Result([OnData(l, d) EXCEPT !.leaked = TRUE], err) }
    BY RemoveCredIsMethod DEF LibRight
  <2> DEFINE m == OnData(l, d)
             n == [m EXCEPT !.leaked = TRUE]
  <2>2. Fields(m) /\ m.data = d
    BY <2>1, LibrariesMove
  <2> HIDE DEF m
  <2>3. Fields(n) /\ n.data = d
    BY <2>2, ObjectsApart
  <2>4. CcRemoveCred(l, q, old) \in { Result(l, err), Result(n, err) }
    BY <2>1 DEF m
  <2> HIDE DEF n
  <2>5. Method(l.data, n.data)
    BY <2>1, <2>3
  <2>6. Moves(l, Result(n, err))
    BY <2>3, <2>5, ResultsMove
  <2> QED BY <1>0, <2>4, <2>6
<1> QED BY <1>1, <1>2, <1>3, <1>4

(* The next credentials of an iteration: the data is pinned at most.       *)
LEMMA CredsNextMoves ==
  ASSUME NEW l, LibRight(l), NEW q \in DOMAIN l.heap
  PROVE  Moves(l, CcCredsNext(l, q))
<1>1. PICK m, n : /\ m \in { l, OnData(l, Pin(l.data)) }
                  /\ CcCredsNext(l, q).lib = Walked(m, q, n)
  BY CredsNextWalks
<1>2. Method(l.data, l.data) /\ Method(l.data, Pin(l.data))
  BY DEF Method
<1>3. Fields(m) /\ Method(l.data, m.data)
  BY <1>1, <1>2, LibrariesMove
<1> DEFINE h == [m.heap EXCEPT ![q].pos = n]
           w == Walked(m, q, n)
<1>4. w = [m EXCEPT !.heap = h]
  BY DEF Walked
<1>5. CcCredsNext(l, q).lib = w
  BY <1>1
<1> HIDE DEF h, w
<1>6. Fields(w) /\ w.data = m.data
  BY <1>3, <1>4, ObjectsApart
<1>7. Method(l.data, w.data)
  BY <1>3, <1>6
<1> QED BY <1>5, <1>6, <1>7 DEF Moves

(* A handler that gives out a handle: what its call does, or nothing.      *)
LEMMA GivesHandleMoves ==
  ASSUME OwnersInv, ObjectsInv(srv), NEW c, NEW kind, NEW r, GivesHandle(c, kind, r), Moves(L, r)
  PROVE  Method(L.data, srv'.lib.data)
<1>0. Shaped(Now) /\ Now.lib = L
  BY NowIsRight
<1>1. CASE srv' = Now
  BY <1>0, <1>1 DEF Method
<1>2. ASSUME NEW h, srv' = Opens(Now, kind, h, r).srv
      PROVE  srv'.lib.data = r.lib.data
  <2>1. CASE r.err = "CC_NOERROR"
    <3> DEFINE u == [Now EXCEPT !.lib = r.lib]
    <3>1. srv' = Enter(u, kind, h, r.ptr)
      BY <1>2, <2>1 DEF Opens
    <3>2. Shaped(u) /\ u.lib = r.lib
      BY <1>0, LibraryKeepsTables DEF Shaped
    <3> HIDE DEF u
    <3>3. Enter(u, kind, h, r.ptr).lib = u.lib
      BY <3>2 DEF Enter, Shaped
    <3> QED BY <3>1, <3>2, <3>3
  <2>2. CASE r.err # "CC_NOERROR"
    <3> DEFINE m == IF "ptr" \in DOMAIN r THEN Lose(r.lib, r.ptr) ELSE r.lib
    <3>1. srv' = [Now EXCEPT !.lib = m]
      BY <1>2, <2>2 DEF Opens, Answer
    <3>2. m.data = r.lib.data
      BY MadeApart DEF Moves
    <3> HIDE DEF m
    <3>3. [Now EXCEPT !.lib = m].lib = m
      BY <1>0 DEF Shaped
    <3> QED BY <3>1, <3>2, <3>3
  <2> QED BY <2>1, <2>2
<1>3. srv' = Now \/ \E h : srv' = Opens(Now, kind, h, r).srv
  BY DEF GivesHandle
<1> QED BY <1>1, <1>2, <1>3 DEF Moves

(* A handler that takes a handle back, and a rundown.                      *)
LEMMA ClosingMoves ==
  ASSUME OwnersInv, ObjectsInv(srv), NEW kind, NEW h, NEW r, Moves(L, r),
         srv' = Closes(Now, kind, h, r).srv
  PROVE  Method(L.data, srv'.lib.data)
<1>0. Shaped(Now)
  BY NowIsRight
<1> DEFINE q == Now.table[kind][h]
           m == IF q \in DOMAIN r.lib.heap THEN Lose(r.lib, q) ELSE r.lib
           u == [Now EXCEPT !.lib = m]
<1>1. srv' = Leave(u, kind, h)
  BY DEF Closes, Answer
<1>2. m.data = r.lib.data
  BY MadeApart DEF Moves
<1> HIDE DEF m
<1>3. Shaped(u) /\ u.lib = m
  BY <1>0, LibraryKeepsTables DEF Shaped
<1> HIDE DEF u
<1>4. Leave(u, kind, h).lib = u.lib
  BY <1>3 DEF Leave, Shaped
<1> QED BY <1>1, <1>2, <1>3, <1>4 DEF Moves

(* A handler that works on the data.                                       *)
LEMMA ChangesMoves ==
  ASSUME OwnersInv, ObjectsInv(srv), NEW c, NEW r, Changes(c, r), Moves(L, r)
  PROVE  Method(L.data, srv'.lib.data)
<1>0. Shaped(Now)
  BY NowIsRight
<1>1. srv' = [Now EXCEPT !.lib = r.lib]
  BY DEF Changes, Works, Answer
<1> QED BY <1>0, <1>1 DEF Shaped, Moves

(* Every handler and every rundown does one method to the data, or none.   *)
LEMMA NextMoves ==
  ASSUME ServerInv, Next
  PROVE  Method(Quiet(srv.lib.data), srv'.lib.data) \/ srv' = srv
<1> DEFINE Fine == Method(L.data, srv'.lib.data) \/ srv' = srv
<1>0. OwnersInv /\ ObjectsInv(srv) /\ LibRight(L) /\ L.data = Quiet(srv.lib.data) /\ Now.lib = L
  BY NowIsRight DEF ServerInv
<1>r. (RoomForCache(srv.lib.data) => RoomForCache(L.data))
      /\ (RoomForCred(srv.lib.data) => RoomForCred(L.data))
  <2>1. WellFormed(srv.lib.data)
    BY <1>0 DEF ObjectsInv, LibRight, DataRight, Good
  <2>2. /\ Quiet(srv.lib.data).nextCache = srv.lib.data.nextCache
        /\ Quiet(srv.lib.data).nextCred = srv.lib.data.nextCred
    BY <2>1, StampsDo
  <2>3. L.data.nextCache = srv.lib.data.nextCache /\ L.data.nextCred = srv.lib.data.nextCred
    BY <1>0, <2>2
  <2> HIDE DEF L
  <2> QED BY <2>3 DEF RoomForCache, RoomForCred
<1>1. ASSUME NEW c \in Client, rcc_initialize(c) PROVE Fine
  BY <1>0, <1>1, ReadingsMove, GivesHandleMoves DEF rcc_initialize
<1>2. ASSUME NEW c \in Client, rcc_shutdown(c) PROVE Fine
  BY <1>0, <1>2, ReadingsMove, ClosingMoves DEF rcc_shutdown, Takes
<1>3. ASSUME NEW c \in Client, rcc_get_change_time(c) PROVE Fine
  BY <1>0, <1>3, ReadingsMove, ChangesMoves DEF rcc_get_change_time
<1>4. ASSUME NEW c \in Client, rcc_create(c) PROVE Fine
  <2>1. PICK n \in Name, v \in Version, p \in Principal :
          RoomForCache(srv.lib.data) /\ GivesHandle(c, "ccache", CcCreate(L, n, v, p))
    BY <1>4 DEF rcc_create
  <2> QED BY <1>0, <1>r, <2>1, CreateMoves, GivesHandleMoves
<1>5. ASSUME NEW c \in Client, rcc_open(c) PROVE Fine
  <2>1. PICK n \in Name, v \in Version : GivesHandle(c, "ccache", CcOpen(L, n, v))
    BY <1>5 DEF rcc_open
  <2> QED BY <1>0, <2>1, ReadingsMove, GivesHandleMoves
<1>6. ASSUME NEW c \in Client, rcc_close(c) PROVE Fine
  BY <1>0, <1>6, ReadingsMove, ClosingMoves DEF rcc_close, Takes
<1>7. ASSUME NEW c \in Client, rcc_destroy(c) PROVE Fine
  BY <1>0, <1>7, WorkMoves, ClosingMoves DEF rcc_destroy, Takes
<1>8. ASSUME NEW c \in Client, rcc_seq_fetch_NCs_begin(c) PROVE Fine
  BY <1>0, <1>8, ReadingsMove, GivesHandleMoves DEF rcc_seq_fetch_NCs_begin
<1>9. ASSUME NEW c \in Client, rcc_seq_fetch_NCs_next(c) PROVE Fine
  BY <1>0, <1>9, NCsNextMoves, GivesHandleMoves DEF rcc_seq_fetch_NCs_next
<1>10. ASSUME NEW c \in Client, rcc_seq_fetch_NCs_end(c) PROVE Fine
  BY <1>0, <1>10, ReadingsMove, ClosingMoves DEF rcc_seq_fetch_NCs_end, Takes
<1>11. ASSUME NEW c \in Client, rcc_get_NC_info(c) PROVE Fine
  BY <1>0, <1>11 DEF rcc_get_NC_info, Method
<1>12. ASSUME NEW c \in Client, rcc_get(c) PROVE Fine
  BY <1>0, <1>12, ReadingsMove, ChangesMoves DEF rcc_get
<1>13. ASSUME NEW c \in Client, rcc_set_principal(c) PROVE Fine
  BY <1>0, <1>13, WorkMoves, ChangesMoves DEF rcc_set_principal
<1>14. ASSUME NEW c \in Client, rcc_store(c) PROVE Fine
  BY <1>0, <1>r, <1>14, WorkMoves, ChangesMoves DEF rcc_store
<1>15. ASSUME NEW c \in Client, rcc_remove_cred(c) PROVE Fine
  BY <1>0, <1>15, WorkMoves, ChangesMoves DEF rcc_remove_cred
<1>16. ASSUME NEW c \in Client, rcc_seq_fetch_creds_begin(c) PROVE Fine
  BY <1>0, <1>16, ReadingsMove, GivesHandleMoves DEF rcc_seq_fetch_creds_begin
<1>17. ASSUME NEW c \in Client, rcc_seq_fetch_creds_next(c) PROVE Fine
  BY <1>0, <1>17, HeldLeads, CredsNextMoves, ChangesMoves DEF rcc_seq_fetch_creds_next, Kind
<1>18. ASSUME NEW c \in Client, rcc_seq_fetch_creds_end(c) PROVE Fine
  BY <1>0, <1>18, ReadingsMove, ClosingMoves DEF rcc_seq_fetch_creds_end, Takes
<1>19. ASSUME NEW c \in Client, Break(c) \/ Connect(c) PROVE Fine
  BY <1>19 DEF Break, Connect
<1>20. ASSUME NEW c \in Client, Rundown(c) PROVE Fine
  <2>1. PICK kind \in Kind : \E h \in Held(c, kind) :
          srv' = Closes(Now, kind, h, RundownCall(kind, Object(kind, h))).srv
    BY <1>20 DEF Rundown
  <2>2. PICK h \in Held(c, kind) :
          srv' = Closes(Now, kind, h, RundownCall(kind, Object(kind, h))).srv
    BY <2>1
  <2>3. Moves(L, RundownCall(kind, Object(kind, h)))
    BY <1>0, ReadingsMove DEF RundownCall, Kind
  <2> QED BY <1>0, <2>2, <2>3, ClosingMoves
<1> HIDE DEF Fine
<1>21. Fine
  BY <1>1, <1>2, <1>3, <1>4, <1>5, <1>6, <1>7, <1>8, <1>9, <1>10, <1>11, <1>12, <1>13,
     <1>14, <1>15, <1>16, <1>17, <1>18, <1>19, <1>20 DEF Next
<1> QED BY <1>0, <1>21 DEF Fine

(***************************************************************************)
(* The instance of CCacheContext has operators of its own, which are those *)
(* of CCacheData.                                                          *)
(***************************************************************************)
LEMMA SameHelpers ==
  ASSUME NEW s, NEW x, NEW d, NEW c, NEW v, NEW n
  PROVE  /\ Data!ToSet(s) = ToSet(s)
         /\ Data!RemoveFirst(s, x) = RemoveFirst(s, x)
         /\ Data!Without(s, x) = Without(s, x)
         /\ Data!ContextChanged(d) = ContextChanged(d) /\ Data!Changed(d, c) = Changed(d, c)
         /\ Data!DeleteCreds(d, x) = DeleteCreds(d, x)
<1>1. Data!ToSet(s) = ToSet(s)
  BY DEF Data!ToSet, ToSet
<1>2. Data!RemoveFirst(s, x) = RemoveFirst(s, x)
  <2>1. Data!Min({ i \in 1 .. Len(s) : s[i] = x }) = Min({ i \in 1 .. Len(s) : s[i] = x })
    BY DEF Data!Min, Min
  <2>2. \A i : Data!RemoveAt(s, i) = RemoveAt(s, i)
    BY DEF Data!RemoveAt, RemoveAt
  <2> QED BY <2>1, <2>2 DEF Data!RemoveFirst, RemoveFirst, Data!SelectInSeq, SelectInSeq
<1>3. Data!Without(s, x) = Without(s, x)
  BY DEF Data!Without, Without
<1>4. Data!ContextChanged(d) = ContextChanged(d) /\ Data!Changed(d, c) = Changed(d, c)
  BY DEF Data!ContextChanged, ContextChanged, Data!Changed, Changed
<1>5. Data!DeleteCreds(d, x) = DeleteCreds(d, x)
  BY DEF Data!DeleteCreds, DeleteCreds
<1> QED BY <1>1, <1>2, <1>3, <1>4, <1>5

(* The lookups of the data layer's specification are those of the server's *)
LEMMA SameLookups ==
  ASSUME NEW d, NEW c, NEW v, NEW n
  PROVE  /\ Data!OfVersion(d, c, v) = OfVersion(d, c, v)
         /\ Data!Known(d, n) <=> Known(d, n)
         /\ Data!FindCCache(d, n) = FindCCache(d, n)
         /\ Data!RemoveCCache(d, c) = RemoveCCache(d, c)
         /\ Data!Version = Version /\ Data!Creds = Creds /\ Data!CredId = CredId
<1>1. Data!OfVersion(d, c, v) = OfVersion(d, c, v)
  BY SameHelpers DEF Data!OfVersion, OfVersion
<1>2. Data!Known(d, n) <=> Known(d, n)
  BY SameHelpers DEF Data!Known, Known, Data!Named, Named
<1>3. Data!FindCCache(d, n) = FindCCache(d, n)
  BY DEF Data!FindCCache, FindCCache
<1>4. Data!RemoveCCache(d, c) = RemoveCCache(d, c)
  BY SameHelpers DEF Data!RemoveCCache, RemoveCCache
<1>5. Data!Version = Version /\ Data!Creds = Creds /\ Data!CredId = CredId
  BY DEF Data!Version, Version, Data!Creds, Creds, Data!CredId, CredId
<1> QED BY <1>1, <1>2, <1>3, <1>4, <1>5

(* The methods of the data layer's specification are those of the server. *)
LEMMA SameMethods ==
  ASSUME NEW d, NEW c, NEW n, NEW v, NEW p
  PROVE  /\ Data!Quiet(d) = Quiet(d) /\ Data!Pin(d) = Pin(d)
         /\ Data!ContextChanged(Data!NoData) = ContextChanged(NoData)
         /\ Data!RoomForCache(d) <=> RoomForCache(d)
         /\ Data!RoomForCred(d) <=> RoomForCred(d)
         /\ Data!Destroy(d, c) = Destroy(d, c)
         /\ Data!CompatSetPrincipal(d, c, v, p) = CompatSetPrincipal(d, c, v, p)
         /\ Data!StoreCredentials(d, c, v) = StoreCredentials(d, c, v)
         /\ Data!RemoveCredentials(d, c, v) = RemoveCredentials(d, c, v)
         /\ Data!CreateCCache(d, n, v, p) = CreateCCache(d, n, v, p)
<1>1. /\ Data!Quiet(d) = Quiet(d) /\ Data!Pin(d) = Pin(d)
      /\ Data!ContextChanged(Data!NoData) = ContextChanged(NoData)
  BY DEF Data!Quiet, Quiet, Data!Pin, Pin, Data!ContextChanged, ContextChanged, Data!NoData, NoData
<1>2. (Data!RoomForCache(d) <=> RoomForCache(d)) /\ (Data!RoomForCred(d) <=> RoomForCred(d))
  BY DEF Data!RoomForCache, RoomForCache, Data!RoomForCred, RoomForCred
<1>3. Data!Destroy(d, c) = Destroy(d, c)
  BY SameLookups DEF Data!Destroy, Destroy
<1>4. Data!CompatSetPrincipal(d, c, v, p) = CompatSetPrincipal(d, c, v, p)
  BY DEF Data!CompatSetPrincipal, CompatSetPrincipal, Data!Changed, Changed
<1>5. Data!StoreCredentials(d, c, v) = StoreCredentials(d, c, v)
  BY DEF Data!StoreCredentials, StoreCredentials, Data!Changed, Changed
<1>6. Data!RemoveCredentials(d, c, v) = RemoveCredentials(d, c, v)
  BY SameHelpers DEF Data!RemoveCredentials, RemoveCredentials
<1>7. \A a : Data!SetPrincipal(d, a, v, p) = SetPrincipal(d, a, v, p)
  <2> SUFFICES ASSUME NEW a PROVE Data!SetPrincipal(d, a, v, p) = SetPrincipal(d, a, v, p)
    OBVIOUS
  <2> DEFINE lost == OfVersion(d, a, v)
             cut  == [d EXCEPT !.cache[a].principal[v] = p, !.cache[a].creds = Without(@, lost)]
             left == [d EXCEPT !.cache[a].principal[v] = p, !.cache[a].creds = Data!Without(@, lost)]
  <2>1. Data!OfVersion(d, a, v) = lost
    BY SameLookups
  <2> HIDE DEF lost
  <2>2. \A s : Data!Without(s, lost) = Without(s, lost)
    BY SameHelpers
  <2>3. left = cut
    BY <2>2
  <2>4. Data!SetPrincipal(d, a, v, p) = Data!Changed(Data!DeleteCreds(left, lost), a)
    BY <2>1 DEF Data!SetPrincipal
  <2>5. SetPrincipal(d, a, v, p) = Changed(DeleteCreds(cut, lost), a)
    BY DEF SetPrincipal, lost
  <2> HIDE DEF left, cut
  <2> QED BY <2>3, <2>4, <2>5, SameHelpers
<1>8. Data!NewCCache(d, n, v, p) = NewCCache(d, n, v, p)
  BY SameHelpers, SameLookups DEF Data!NewCCache, NewCCache
<1>9. Data!CreateCCache(d, n, v, p) = CreateCCache(d, n, v, p)
  BY <1>7, <1>8, SameHelpers, SameLookups DEF Data!CreateCCache, CreateCCache
<1> QED BY <1>1, <1>2, <1>3, <1>4, <1>5, <1>6, <1>9

(* What a handler does to the data is a method of the data layer's specification. *)
LEMMA MethodsAreContexts ==
  ASSUME NEW d, NEW e, Method(Quiet(d), e), WellFormed(d)
  PROVE  \/ e = Data!Quiet(d) \/ e = Data!Pin(Data!Quiet(d))
         \/ \E c \in DOMAIN d.cache :
              \/ e = Data!Destroy(Data!Quiet(d), c)
              \/ \E v \in Data!Version, p \in Principal :
                   e = Data!CompatSetPrincipal(Data!Quiet(d), c, v, p)
              \/ /\ Data!RoomForCred(d)
                 /\ \E new \in Data!Creds : e = Data!StoreCredentials(Data!Quiet(d), c, new)
              \/ \E k \in Data!CredId \cap DOMAIN d.cred :
                   e = Data!RemoveCredentials(Data!Pin(Data!Quiet(d)), c, k)
         \/ /\ Data!RoomForCache(d)
            /\ \E n \in Name, v \in Data!Version, p \in Principal :
                 e = Data!CreateCCache(Data!Quiet(d), n, v, p).d
<1> DEFINE f == Quiet(d)
<1>1. /\ f.cache = d.cache /\ f.cred = d.cred /\ (RoomForCred(f) <=> RoomForCred(d))
      /\ (RoomForCache(f) <=> RoomForCache(d))
  BY StampsDo DEF RoomForCred, RoomForCache
<1>2. Method(f, e)
  OBVIOUS
<1>3. Data!Quiet(d) = f
  BY SameMethods
<1> HIDE DEF f
<1>4. Data!Version = Version /\ Data!Creds = Creds /\ Data!CredId = CredId
  BY SameLookups
<1>5. CASE e = f \/ e = Pin(f)
  BY <1>3, <1>5, SameMethods
<1>6. ASSUME NEW c \in DOMAIN f.cache, e = Destroy(f, c)
      PROVE  e = Data!Destroy(f, c)
  BY <1>6, SameMethods
<1>7. ASSUME NEW c, NEW v, NEW p, e = CompatSetPrincipal(f, c, v, p)
      PROVE  e = Data!CompatSetPrincipal(f, c, v, p)
  BY <1>7, SameMethods
<1>8. ASSUME NEW c, NEW new, e = StoreCredentials(f, c, new)
      PROVE  e = Data!StoreCredentials(f, c, new)
  BY <1>8, SameMethods
<1>9. ASSUME NEW c, NEW k, e = RemoveCredentials(Pin(f), c, k)
      PROVE  e = Data!RemoveCredentials(Data!Pin(f), c, k)
  BY <1>9, SameMethods
<1>10. ASSUME NEW n, NEW v, NEW p, e = CreateCCache(f, n, v, p).d
       PROVE  e = Data!CreateCCache(f, n, v, p).d
  BY <1>10, SameMethods
<1>11. (Data!RoomForCred(d) <=> RoomForCred(d)) /\ (Data!RoomForCache(d) <=> RoomForCache(d))
  BY SameMethods
<1> QED
  BY <1>1, <1>2, <1>3, <1>4, <1>5, <1>6, <1>7, <1>8, <1>9, <1>10, <1>11 DEF Method
(* Every handler is a step of the data layer's specification.              *)
LEMMA StepIsDataNext == ServerInv /\ Method(Quiet(srv.lib.data), srv'.lib.data) => Data!DataNext
<1> SUFFICES ASSUME ServerInv, Method(Quiet(srv.lib.data), srv'.lib.data) PROVE Data!DataNext
  OBVIOUS
<1> DEFINE d == srv.lib.data
           e == srv'.lib.data
<1>0. WellFormed(d)
  BY DEF ServerInv, ObjectsInv, LibRight, DataRight, Good
<1>1. CASE e = Data!Quiet(d)
  BY <1>1 DEF Data!DataNext, Data!MRead
<1>2. CASE e = Data!Pin(Data!Quiet(d))
  BY <1>2 DEF Data!DataNext, Data!MFetch
<1>3. ASSUME NEW c \in DOMAIN d.cache, e = Data!Destroy(Data!Quiet(d), c) PROVE Data!DataNext
  BY <1>3 DEF Data!DataNext, Data!MDestroy
<1>4. ASSUME NEW c \in DOMAIN d.cache, NEW v \in Data!Version, NEW p \in Principal,
             e = Data!CompatSetPrincipal(Data!Quiet(d), c, v, p)
      PROVE  Data!DataNext
  BY <1>4 DEF Data!DataNext, Data!MSetPrincipal
<1>5. ASSUME NEW c \in DOMAIN d.cache, NEW new \in Data!Creds, Data!RoomForCred(d),
             e = Data!StoreCredentials(Data!Quiet(d), c, new)
      PROVE  Data!DataNext
  BY <1>5 DEF Data!DataNext, Data!MStore
<1>6. ASSUME NEW c \in DOMAIN d.cache, NEW k \in Data!CredId \cap DOMAIN d.cred,
             e = Data!RemoveCredentials(Data!Pin(Data!Quiet(d)), c, k)
      PROVE  Data!DataNext
  BY <1>6 DEF Data!DataNext, Data!MRemove
<1>7. ASSUME NEW n \in Name, NEW v \in Data!Version, NEW p \in Principal, Data!RoomForCache(d),
             e = Data!CreateCCache(Data!Quiet(d), n, v, p).d
      PROVE  Data!DataNext
  BY <1>7 DEF Data!DataNext, Data!MCreate
<1> QED BY <1>0, <1>1, <1>2, <1>3, <1>4, <1>5, <1>6, <1>7, MethodsAreContexts
(* To the data, everything that clients do at once, and all that rundown   *)
(* does for those that went, is a sequence of whole method calls: no call  *)
(* sees half of another's work, and one that fails has done a method or    *)
(* nothing.  So what is proved of CCacheContext holds in the server.       *)
THEOREM ServerKeepsContext == Spec => ServerImplementsContext
<1>1. Init => Data!DataInit
  BY SameMethods DEF Init, NoServer, NoLib, Data!DataInit
<1>2. ServerInv /\ [Next]_vars => [Data!DataNext]_(srv.lib.data)
  <2>1. ServerInv /\ Next => Data!DataNext \/ UNCHANGED srv.lib.data
    BY NextMoves, StepIsDataNext
  <2>2. UNCHANGED vars => UNCHANGED srv.lib.data
    BY DEF vars
  <2> QED BY <2>1, <2>2
<1> QED BY <1>1, <1>2, ServerAlwaysRight, PTL DEF Spec, ServerImplementsContext, Data!DataSpec
=============================================================================
