----------------------------- MODULE HandleMap -----------------------------
(***************************************************************************)
(* The handle table of the credential cache server,                        *)
(* krbcc/src/exe/handlemap.hxx: a growable array of slots with a cursor    *)
(* `last' and a count `used', that hands out slot numbers plus one.        *)
(* The map is a record, so that a module with several maps (one per        *)
(* handle type in procs.cxx) can keep several; each operation is a         *)
(* function from a map to the map and error it leaves.  Every operation    *)
(* runs under the map's own lock, so it is one step.                       *)
(***************************************************************************)
EXTENDS Integers, FiniteSets

CONSTANTS
  SizeT,        \* number of values of size_t
  HeapLimit,    \* most slots `new Data[]' can ever provide
  BaseSize,     \* constructor argument s (1000 in the server)
  GrowSize,     \* constructor argument g (100 in the server)
  Value,        \* the contents T: pointers to server objects
  Garbage       \* what an uninitialised T holds

(* A slot takes more than one byte, so the heap gives out at least a       *)
(* growth step before size_t does.                                         *)
ASSUME SizeAssumption ==
  /\ BaseSize \in Nat \ {0}
  /\ GrowSize \in Nat \ {0}
  /\ HeapLimit \in Nat
  /\ SizeT \in Nat
  /\ HeapLimit + BaseSize + GrowSize + 3 < SizeT
  /\ Garbage \notin Value

MinHandle == 1
MaxSize   == SizeT - 3        \* MAX_HANDLE - MIN_HANDLE

Content == Value \cup {Garbage}
Slot    == [used : BOOLEAN, data : Content]
Handle  == 0 .. SizeT - 1     \* any size_t a caller may pass

NewSlot == [used |-> FALSE, data |-> Garbage]

EmptyMap ==
  [init |-> FALSE, handles |-> [i \in {} |-> NewSlot],
   last |-> 0, used |-> 0, size |-> 0]

Done(m) == [hm |-> m, err |-> "HE_NOERROR"]

(* ok: whether operator new found the memory this time.                    *)
Grow(m, els, ok) ==
  CASE els + m.size > MaxSize ->
         [hm |-> m, err |-> "HE_MAX_SIZE"]
    [] els + m.size <= MaxSize /\ (~ok \/ els + m.size > HeapLimit) ->
         [hm |-> m, err |-> "HE_NO_MEM"]
    [] OTHER ->
         Done([m EXCEPT
           !.handles = [i \in 0 .. m.size + els - 1 |->
                          IF i < m.size THEN m.handles[i] ELSE NewSlot],
           !.last = IF m.size = 0 THEN 0 ELSE m.last,
           !.size = m.size + els])

(* Mutant: initialize() sets init before it grows.                         *)
ReadyEarlyInit(m, ok) ==
  IF m.init THEN Done(m)
  ELSE LET g == Grow(m, BaseSize, ok) IN [g EXCEPT !.hm.init = TRUE]

(* `if (!init) initialize();' at the head of every operation: a failed     *)
(* allocation leaves init unset and the next operation tries again.        *)
Ready(m, ok) ==
  IF m.init THEN Done(m)
  ELSE LET g == Grow(m, BaseSize, ok)
       IN  IF g.err = "HE_NOERROR" THEN Done([g.hm EXCEPT !.init = TRUE]) ELSE g

(* Mutant: the scan is dropped, the slot under the cursor is taken.        *)
NextFreeNoScan(m) == m.last

FreeSlots(m) == { i \in DOMAIN m.handles : ~m.handles[i].used }

(* while (handles[last % size].used) last++; last %= size;                 *)
Distance(m, i) == IF i >= m.last THEN i - m.last ELSE i + m.size - m.last
NextFree(m) ==
  CHOOSE i \in FreeSlots(m) :
    \A j \in FreeSlots(m) : Distance(m, i) <= Distance(m, j)

Take(m) ==
  LET i == NextFree(m)
  IN  [m EXCEPT !.last = i, !.handles[i].used = TRUE, !.used = @ + 1]

WithRoom(m, ok) ==
  LET r == Ready(m, ok)
  IN  IF r.err = "HE_NOERROR" /\ r.hm.used >= r.hm.size
      THEN Grow(r.hm, GrowSize, ok) ELSE r

Create(m, ok) ==
  LET g == WithRoom(m, ok)
  IN  IF g.err # "HE_NOERROR" THEN [hm |-> g.hm, err |-> g.err, handle |-> 0]
      ELSE [hm |-> Take(g.hm), err |-> "HE_NOERROR",
            handle |-> NextFree(g.hm) + MinHandle]

(* (size_t)(handle) - MIN_HANDLE wraps for the null handle.                *)
Index(h) == (h - MinHandle) % SizeT
Found(m, h) == Index(h) < m.size /\ m.handles[Index(h)].used

(* Mutant: close forgets `used--'.                                         *)
ReleaseKeepsCount(m, i) == [m EXCEPT !.handles[i].used = FALSE]

Release(m, i) == [m EXCEPT !.handles[i].used = FALSE, !.used = @ - 1]

Close(m, h, ok) ==
  LET r == Ready(m, ok)
  IN  CASE r.err # "HE_NOERROR" -> r
        [] r.err = "HE_NOERROR" /\ ~Found(r.hm, h) ->
             [hm |-> r.hm, err |-> "HE_NOT_FOUND"]
        [] OTHER -> Done(Release(r.hm, Index(h)))

(* operator[], as a left-hand side (assignment of v) and as a value.       *)
Assign(m, h, v, ok) ==
  LET r == Ready(m, ok)
  IN  CASE r.err # "HE_NOERROR" -> r
        [] r.err = "HE_NOERROR" /\ ~Found(r.hm, h) ->
             [hm |-> r.hm, err |-> "HE_NOT_FOUND"]
        [] OTHER -> Done([r.hm EXCEPT !.handles[Index(h)].data = v])

Peek(m, h, ok) ==
  LET r == Ready(m, ok)
  IN  IF r.err = "HE_NOERROR" /\ ~Found(r.hm, h)
      THEN [hm |-> r.hm, err |-> "HE_NOT_FOUND"] ELSE r
----------------------------------------------------------------------------
VARIABLES
  hm,           \* the map
  reply         \* outcome of the last call, for the abstract specification

vars == <<hm, reply>>

NoReply == [op |-> "none", err |-> "HE_NOERROR"]

Init ==
  /\ hm = EmptyMap
  /\ reply = NoReply

DoCreate ==
  \E ok \in BOOLEAN :
    LET c == Create(hm, ok)
    IN  /\ hm' = c.hm
        /\ reply' = IF c.err = "HE_NOERROR"
                    THEN [op |-> "create", err |-> c.err, handle |-> c.handle]
                    ELSE [op |-> "create", err |-> c.err]

Answer(op, h, err) ==
  IF err = "HE_NOERROR" THEN [op |-> op, err |-> err, handle |-> h]
                        ELSE [op |-> op, err |-> err]

DoClose(h) ==
  \E ok \in BOOLEAN :
    LET c == Close(hm, h, ok)
    IN  hm' = c.hm /\ reply' = Answer("close", h, c.err)

DoStore(h, v) ==
  \E ok \in BOOLEAN :
    LET c == Assign(hm, h, v, ok)
    IN  hm' = c.hm /\ reply' = Answer("store", h, c.err)

DoLookup(h) ==
  \E ok \in BOOLEAN :
    LET c == Peek(hm, h, ok)
    IN  /\ hm' = c.hm
        /\ reply' = IF c.err = "HE_NOERROR"
                    THEN [op |-> "lookup", err |-> c.err, handle |-> h,
                          value |-> c.hm.handles[Index(h)].data]
                    ELSE [op |-> "lookup", err |-> c.err]

Next ==
  \/ DoCreate
  \/ \E h \in Handle : DoClose(h) \/ DoLookup(h)
  \/ \E h \in Handle, v \in Value : DoStore(h, v)

Spec == Init /\ [][Next]_vars
----------------------------------------------------------------------------
UsedSlots(m) == { i \in DOMAIN m.handles : m.handles[i].used }

(* The array has exactly `size' slots, and there is an array exactly when  *)
(* the map says it is initialised.                                         *)
Shaped(m) ==
  m \in [init : BOOLEAN, handles : [0 .. m.size - 1 -> Slot],
         last : Nat, used : Nat, size : 0 .. HeapLimit]
WellFormed(m) == Shaped(m) /\ (m.init <=> m.size > 0)

(* `used' is the number of occupied slots and the cursor is inside the     *)
(* array.                                                                  *)
Counted(m) ==
  /\ m.used = Cardinality(UsedSlots(m))
  /\ m.used <= m.size
  /\ m.size > 0 => m.last < m.size

(* Type invariant of the map: the slots, counters and flags of             *)
(* handlemap.hxx:38-44 describe one array.                                 *)
TypeOK == WellFormed(hm)

(* The counters agree with the slots, through every close, reuse and       *)
(* growth.  This is what makes the scan of create (handlemap.hxx:89) stop: *)
(* when `used < size' some slot is free, so the while loop cannot spin.    *)
CountsAgree == Counted(hm)

(* The map behaves as the table of live handles the server relies on:      *)
(* create never returns a handle that is open, close removes exactly one,  *)
(* a lookup returns what was last stored under that handle, growth moves   *)
(* nothing, and a failed call changes nothing.                             *)
LiveTable(m) ==
  [h \in { i + MinHandle : i \in UsedSlots(m) } |-> m.handles[h - MinHandle].data]

Table == INSTANCE HandleTable WITH live <- LiveTable(hm)

ImplementsTable == Table!Spec
============================================================================
