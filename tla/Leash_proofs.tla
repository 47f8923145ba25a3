---- MODULE Leash_proofs ----
(***************************************************************************)
(* Proofs about Leash.  For any threads, principals and commands, each      *)
(* mutex is held exactly where the code is to hold it, and the variables of *)
(* LeashView have their types.  For any life of tickets and any refresh of  *)
(* the display, the variables of LeashTimer have theirs, and the user is    *)
(* not warned twice of the same.                                           *)
(***************************************************************************)
EXTENDS LeashView, LeashTimer, TLAPS

(* What the proof of MutexesHeldInPlace needs of the types.                 *)
Places ==
  /\ pc \in [Thread -> Place] /\ job \in [Thread -> Job]
  /\ tgs \in Thread \cup {Nobody} /\ lockObj \in Thread \cup {Nobody} /\ dlg \in Thread \cup {Nobody}

Held == Places /\ MutexesHeldInPlace

(* At the start no mutex is held.                                          *)
LEMMA InitHeld == Init => Held
  BY ViewAssumption DEF Init, Held, Places, MutexesHeldInPlace, Running, Thread, Place, Job, TgsPlace,
    LockPlace, DialogPlace, UserPlace, FreePlace

(* Every step of InitTicket and InitWorker keeps the mutexes at their places. *)
LEMMA InitStepHeld ==
  ASSUME Held, NEW t \in Thread, InitStep(t) PROVE Held'
  <1>. USE ViewAssumption DEF Held, Places, MutexesHeldInPlace, Running, At, Goto, Done, Drops, Takes, Locks, Free,
             Becomes, Starts, locks, Thread, Place, Job, TgsPlace, LockPlace, DialogPlace, UserPlace, FreePlace
  <1>1. CASE InitTicket(t) BY <1>1 DEF InitTicket
  <1>2. CASE InitReads(t) BY <1>2 DEF InitReads
  <1>3. CASE InitShown(t) BY <1>3 DEF InitShown
  <1>4. CASE InitSets(t) BY <1>4 DEF InitSets
  <1>5. CASE InitWorker(t) BY <1>5 DEF InitWorker
  <1>. QED BY <1>1, <1>2, <1>3, <1>4, <1>5 DEF InitStep

(* Every step around the dialog keeps the mutexes at their places. *)
LEMMA DialogStepHeld ==
  ASSUME Held, NEW t \in Thread, DialogStep(t) PROVE Held'
  <1>. USE ViewAssumption DEF Held, Places, MutexesHeldInPlace, Running, At, Goto, Done, Drops, Takes, Locks, Free,
             Becomes, Starts, locks, Thread, Place, Job, TgsPlace, LockPlace, DialogPlace, UserPlace, FreePlace
  <1>1. CASE DialogOpens(t) BY <1>1 DEF DialogOpens, Exists
  <1>2. CASE DialogIsAnothers(t) BY <1>2 DEF DialogIsAnothers
  <1>3. CASE DialogPretends(t) BY <1>3 DEF DialogPretends, AfterDialog
  <1>4. CASE KinitInitializes(t) BY <1>4 DEF KinitInitializes
  <1>5. CASE KinitStores(t) BY <1>5 DEF KinitStores
  <1>6. CASE KinitEnds(t) BY <1>6 DEF KinitEnds, AfterDialog
  <1>. QED BY <1>1, <1>2, <1>3, <1>4, <1>5, <1>6 DEF DialogStep

(* Every step of an import keeps the mutexes at their places. *)
LEMMA ImportStepHeld ==
  ASSUME Held, NEW t \in Thread, ImportStep(t) PROVE Held'
  <1>. USE ViewAssumption DEF Held, Places, MutexesHeldInPlace, Running, At, Goto, Done, Drops, Takes, Locks, Free,
             Becomes, Starts, locks, Thread, Place, Job, TgsPlace, LockPlace, DialogPlace, UserPlace, FreePlace
  <1>1. CASE ImportTicket(t) BY <1>1 DEF ImportTicket
  <1>2. CASE ImportFindsNone(t) BY <1>2 DEF ImportFindsNone
  <1>3. CASE ImportReads(t) BY <1>3 DEF ImportReads
  <1>4. CASE ImportJudges(t) BY <1>4 DEF ImportJudges
  <1>5. CASE ImportRefused(t) BY <1>5 DEF ImportRefused
  <1>6. CASE ImportAgreed(t) BY <1>6 DEF ImportAgreed
  <1>7. CASE ImportInitializes(t) BY <1>7 DEF ImportInitializes, ImportFails
  <1>8. CASE ImportStores(t) BY <1>8 DEF ImportStores, ImportFails
  <1>9. CASE ImportSets(t) BY <1>9 DEF ImportSets
  <1>10. CASE ImportChecks(t) BY <1>10 DEF ImportChecks
  <1>11. CASE ImportLooks(t) BY <1>11 DEF ImportLooks
  <1>12. CASE ImportFlags(t) BY <1>12 DEF ImportFlags
  <1>. QED BY <1>1, <1>2, <1>3, <1>4, <1>5, <1>6, <1>7, <1>8, <1>9, <1>10, <1>11, <1>12 DEF ImportStep

(* Every step of a renewal keeps the mutexes at their places. *)
LEMMA RenewStepHeld ==
  ASSUME Held, NEW t \in Thread, RenewStep(t) PROVE Held'
  <1>. USE ViewAssumption DEF Held, Places, MutexesHeldInPlace, Running, At, Goto, Done, Drops, Takes, Locks, Free,
             Becomes, Starts, locks, Thread, Place, Job, TgsPlace, LockPlace, DialogPlace, UserPlace, FreePlace
  <1>1. CASE RenewTicket(t) BY <1>1 DEF RenewTicket
  <1>2. CASE RenewGets(t) BY <1>2 DEF RenewGets, NotRenewed
  <1>3. CASE RenewInitializes(t) BY <1>3 DEF RenewInitializes, NotRenewed
  <1>4. CASE RenewStores(t) BY <1>4 DEF RenewStores, Renewed, NotRenewed
  <1>5. CASE RenewReads(t) BY <1>5 DEF RenewReads
  <1>6. CASE RenewSucceeds(t) BY <1>6 DEF RenewSucceeds, DropsBoth
  <1>7. CASE RenewFails(t) BY <1>7 DEF RenewFails, DropsBoth
  <1>. QED BY <1>1, <1>2, <1>3, <1>4, <1>5, <1>6, <1>7 DEF RenewStep

(* Every step of ObtainTicketsViaUserIfNeeded keeps the mutexes at their places. *)
LEMMA ObtainStepHeld ==
  ASSUME Held, NEW t \in Thread, ObtainStep(t) PROVE Held'
  <1>. USE ViewAssumption DEF Held, Places, MutexesHeldInPlace, Running, At, Goto, Done, Drops, Takes, Locks, Free,
             Becomes, Starts, locks, Thread, Place, Job, TgsPlace, LockPlace, DialogPlace, UserPlace, FreePlace
  <1>1. CASE ObtainLocks(t) BY <1>1 DEF ObtainLocks
  <1>2. CASE ObtainReads(t) BY <1>2 DEF ObtainReads
  <1>3. CASE ObtainNone(t) BY <1>3 DEF ObtainNone
  <1>4. CASE ObtainSome(t) BY <1>4 DEF ObtainSome
  <1>5. CASE ObtainChooses(t) BY <1>5 DEF ObtainChooses
  <1>. QED BY <1>1, <1>2, <1>3, <1>4, <1>5 DEF ObtainStep

(* Every answer of the user keeps the mutexes at their places. *)
LEMMA AnswersHeld ==
  ASSUME Held, NEW t \in Thread, Answers(t) PROVE Held'
  <1>. USE ViewAssumption DEF Held, Places, MutexesHeldInPlace, Running, At, Goto, Done, Drops, Takes, Locks, Free,
             Becomes, Starts, locks, Thread, Place, Job, TgsPlace, LockPlace, DialogPlace, UserPlace, FreePlace
  <1>1. CASE DialogCancelled(t) BY <1>1 DEF DialogCancelled
  <1>2. CASE ImportAnswered(t) BY <1>2 DEF ImportAnswered
  <1>3. ASSUME NEW p \in Principal, GetsPassword(t, p) PROVE Held' BY <1>3 DEF GetsPassword
  <1>. QED BY <1>1, <1>2, <1>3 DEF Answers

(* Refreshing the display, or failing to.                                   *)
LEMMA UpdateHeld ==
  ASSUME Held, NEW t \in Thread, OnUpdateDisplay(t) \/ UpdateThrows(t) PROVE Held'
  <1>. USE ViewAssumption DEF Held, Places, MutexesHeldInPlace, Running, At, Goto, Done, Drops, Takes, Locks, Free,
             Becomes, Starts, locks, Thread, Place, Job, TgsPlace, LockPlace, DialogPlace, UserPlace, FreePlace
  <1>1. CASE OnUpdateDisplay(t) BY <1>1 DEF OnUpdateDisplay, Sends, AfterSend
  <1>2. CASE UpdateThrows(t) BY <1>2 DEF UpdateThrows, Sends, AfterSend
  <1>. QED BY <1>1, <1>2

(* A command that starts a request keeps the mutexes at their places.      *)
LEMMA RequestsHeld ==
  ASSUME Held, NEW t \in Thread, Requests(t) PROVE Held'
  BY InitStepHeld, DialogStepHeld, ImportStepHeld, RenewStepHeld, ObtainStepHeld, UpdateHeld DEF Requests

(* The steps of the user interface thread alone.                            *)
LEMMA UiStepHeld == ASSUME Held, UiStep PROVE Held'
  <1>. USE ViewAssumption DEF Held, Places, MutexesHeldInPlace, Running, At, Goto, Done, Drops, Takes, Locks, Free,
             Becomes, Starts, locks, Thread, Place, Job, TgsPlace, LockPlace, DialogPlace, UserPlace, FreePlace
  <1>1. CASE InitInstance BY <1>1 DEF InitInstance
  <1>2. CASE Requests(ui) BY <1>2, RequestsHeld
  <1>3. CASE OnTrayIcon BY <1>3 DEF OnTrayIcon
  <1>4. CASE OnDestroyTicket BY <1>4 DEF OnDestroyTicket
  <1>5. CASE Forgets BY <1>5 DEF Forgets
  <1>6. CASE OnDestroy BY <1>6 DEF OnDestroy
  <1>7. CASE Ends BY <1>7 DEF Ends
  <1>8. CASE OnChangePassword BY <1>8 DEF OnChangePassword
  <1>. QED BY <1>1, <1>2, <1>3, <1>4, <1>5, <1>6, <1>7, <1>8 DEF UiStep

(* The timer, the user and the network.                                     *)
LEMMA OutsideHeld == ASSUME Held, TimerRefreshes \/ Outside PROVE Held'
  <1>. USE ViewAssumption DEF Held, Places, MutexesHeldInPlace, Running, At, Goto, Done, Drops, Takes, Locks, Free,
             Becomes, Starts, locks, Thread, Place, Job, TgsPlace, LockPlace, DialogPlace, UserPlace, FreePlace
  <1>1. CASE TimerRefreshes BY <1>1 DEF TimerRefreshes
  <1>2. CASE TimerRenews BY <1>2 DEF TimerRenews
  <1>3. CASE TimerWarns BY <1>3 DEF TimerWarns
  <1>4. CASE BoxCloses BY <1>4 DEF BoxCloses
  <1>5. CASE DestroyConfirmed BY <1>5 DEF DestroyConfirmed
  <1>6. ASSUME NEW j \in Command, UserCommand(j) PROVE Held' BY <1>6 DEF UserCommand
  <1>7. ASSUME NEW t \in Worker, AddressChanges(t) PROVE Held' BY <1>7 DEF AddressChanges
  <1>8. CASE OnObtainTGTWithParam BY <1>8 DEF OnObtainTGTWithParam
  <1>9. CASE ObtainTGTUnderDialog BY <1>9 DEF ObtainTGTUnderDialog
  <1>. QED BY <1>1, <1>2, <1>3, <1>4, <1>5, <1>6, <1>7, <1>8, <1>9 DEF Outside

\* MutexesHeldInPlace: whatever threads request, fail and race, m_tgsReqMutex,
\* ticketinfo.lockObj and the mutex of the dialog are held exactly at the places
\* under them, so no way out of a request leaves one behind.
THEOREM MutexesCorrect == Spec => []MutexesHeldInPlace
  <1>1. Init => Held BY InitHeld
  <1>2. Held /\ [Next]_vars => Held'
    <2>. SUFFICES ASSUME Held, [Next]_vars PROVE Held' OBVIOUS
    <2>1. CASE UiStep BY <2>1, UiStepHeld
    <2>2. CASE TimerRefreshes \/ Outside BY <2>2, OutsideHeld
    <2>3. ASSUME NEW t \in Worker, Requests(t) PROVE Held' BY <2>3, RequestsHeld DEF Thread
    <2>4. ASSUME NEW t \in Thread, Answers(t) PROVE Held' BY <2>4, AnswersHeld
    <2>5. CASE UNCHANGED vars
      BY <2>5 DEF vars, locks, Held, Places, MutexesHeldInPlace, Running
    <2>. QED BY <2>1, <2>2, <2>3, <2>4, <2>5 DEF Next
  <1>3. Held => MutexesHeldInPlace BY DEF Held
  <1>. QED BY <1>1, <1>2, <1>3, PTL DEF Spec

(***************************************************************************)
(* The types.                                                               *)
(***************************************************************************)
InfoType == [b: {"none", "expired", "good"}, left: 0..MaxLife, princ: Principal \cup {NoOne}]
(* A cache with a ticket has a principal. *)
Cached ==
  /\ v5 \in [princ: Principal \cup {NoOne}, tgt: BOOLEAN, left: 0..MaxLife]
  /\ v5.tgt => v5.princ # NoOne
  /\ v4 = NoV4
Who ==
  /\ who \in [Thread -> Principal \cup {NoOne}]
  /\ \A t \in Thread : (who[t] # NoOne) = (pc[t] \in {"kinit", "renewInit"})
Shows == info \in InfoType /\ attempted \in BOOLEAN /\ imported \in BOOLEAN
Typed == Places /\ Cached /\ Who /\ Shows

(* What reading the Kerberos 5 cache finds can be displayed.               *)
LEMMA Found5Type == ASSUME Cached, info \in InfoType PROVE Found5(v5, info) \in InfoType
  BY DEF Cached, Found5, InfoType
(* What may happen to the cache leaves it a cache. *)
LEMMA CacheKept == ASSUME Cached, UNCHANGED caches PROVE Cached'
  BY DEF Cached, caches
(* An initialised cache is one of the types.                               *)
LEMMA CacheInitialized == ASSUME Cached, NEW p \in Principal, Initialize5(p) PROVE Cached'
  BY TicketAssumption DEF Cached, Initialize5
(* A cache with a ticket stored is one of the types.                       *)
LEMMA CacheStored == ASSUME Cached, Store5 PROVE Cached'
  <1>1. v5' = [princ |-> v5.princ, tgt |-> TRUE, left |-> MaxLife] /\ v5.princ # NoOne /\ v4' = NoV4
    BY DEF Cached, Store5, CanStore5
  <1>2. v5.princ \in Principal \cup {NoOne} /\ MaxLife \in 0..MaxLife BY TicketAssumption DEF Cached
  <1>. QED BY <1>1, <1>2, Zenon DEF Cached
(* Destroying the caches leaves them of the types.                         *)
LEMMA CacheDestroyed == ASSUME Cached, Destroy PROVE Cached'
  <1>1. v4' = NoV4 BY DEF Destroy
  <1>2. CASE v5' = v5 BY <1>1, <1>2 DEF Cached
  <1>3. CASE v5' = NoV5
    <2>1. 0 \in 0..MaxLife BY TicketAssumption
    <2>. QED BY <1>1, <1>3, <2>1, Zenon DEF Cached, NoV5
  <1>. QED BY <1>2, <1>3 DEF Destroy

(* At the start everything is of its type.                                 *)
LEMMA InitTyped == Init => Typed
  <1>. SUFFICES ASSUME Init PROVE Typed OBVIOUS
  <1>. USE ViewAssumption, TicketAssumption DEF Init
  <1>1. Places BY DEF Places, Thread, Place, Job, TgsPlace, LockPlace, DialogPlace, UserPlace, FreePlace
  <1>2. Cached
    <2>1. 0 \in 0..MaxLife /\ MaxLife \in 0..MaxLife OBVIOUS
    <2>2. CASE v5 = NoV5 BY <2>1, <2>2, Zenon DEF Cached, NoV5
    <2>3. CASE v5 \in [princ: Principal, tgt: {TRUE}, left: {MaxLife}]
      <3>1. v5.princ \in Principal /\ v5.tgt = TRUE /\ v5.left = MaxLife
            /\ v5 = [princ |-> v5.princ, tgt |-> v5.tgt, left |-> v5.left] BY <2>3
      <3>2. v5.princ # NoOne BY <3>1
      <3>. QED BY <2>1, <3>1, <3>2, Zenon DEF Cached
    <2>. QED BY <2>2, <2>3
  <1>3. Who BY DEF Who, Thread
  <1>4. Shows
    <2>1. 0 \in 0..MaxLife OBVIOUS
    <2>. QED BY <2>1, Zenon DEF Shows, InfoType
  <1>. QED BY <1>1, <1>2, <1>3, <1>4 DEF Typed

(* The types, in the steps of InitTicket and InitWorker. *)
LEMMA InitStepTyped ==
  ASSUME Typed, NEW t \in Thread, InitStep(t) PROVE Typed'
  <1>. USE ViewAssumption, TicketAssumption, CacheKept DEF Typed, Places, Who, Shows, Running, At, Goto, Done, Quiet,
             flags, Becomes, Starts, locks, Takes, Drops, Locks, Free, Thread, Place, Job, TgsPlace, LockPlace,
             DialogPlace, UserPlace, FreePlace, Pumping
  <1>1. CASE InitTicket(t)
    <2>1. Shows' BY <1>1, Zenon DEF InitTicket
    <2>2. (Places /\ Cached /\ Who)' BY <1>1 DEF InitTicket
    <2>. QED BY <2>1, <2>2
  <1>2. CASE InitReads(t) BY <1>2 DEF InitReads
  <1>3. CASE InitShown(t) BY <1>3 DEF InitShown
  <1>4. CASE InitSets(t)
    <2>1. Shows' BY <1>4, Zenon DEF InitSets
    <2>2. (Places /\ Cached /\ Who)' BY <1>4 DEF InitSets
    <2>. QED BY <2>1, <2>2
  <1>5. CASE InitWorker(t) BY <1>5 DEF InitWorker
  <1>. QED BY <1>1, <1>2, <1>3, <1>4, <1>5 DEF InitStep

(* The types, in the steps of the dialog. *)
LEMMA DialogStepTyped ==
  ASSUME Typed, NEW t \in Thread, DialogStep(t) PROVE Typed'
  <1>. USE ViewAssumption, TicketAssumption, CacheKept DEF Typed, Places, Who, Shows, Running, At, Goto, Done, Quiet,
             flags, Becomes, Starts, locks, Takes, Drops, Locks, Free, Thread, Place, Job, TgsPlace, LockPlace,
             DialogPlace, UserPlace, FreePlace, Pumping
  <1>1. CASE DialogOpens(t) BY <1>1 DEF DialogOpens
  <1>2. CASE DialogIsAnothers(t) BY <1>2 DEF DialogIsAnothers
  <1>3. CASE DialogPretends(t) BY <1>3 DEF DialogPretends, AfterDialog
  <1>4. CASE KinitInitializes(t) BY <1>4, CacheInitialized DEF KinitInitializes
  <1>5. CASE KinitStores(t) BY <1>5, CacheStored DEF KinitStores
  <1>6. CASE KinitEnds(t) BY <1>6 DEF KinitEnds, AfterDialog
  <1>. QED BY <1>1, <1>2, <1>3, <1>4, <1>5, <1>6 DEF DialogStep

(* The types, in the steps of an import. *)
LEMMA ImportStepTyped ==
  ASSUME Typed, NEW t \in Thread, ImportStep(t) PROVE Typed'
  <1>. USE ViewAssumption, TicketAssumption, CacheKept DEF Typed, Places, Who, Shows, Running, At, Goto, Done, Quiet,
             flags, Becomes, Starts, locks, Takes, Drops, Locks, Free, Thread, Place, Job, TgsPlace, LockPlace,
             DialogPlace, UserPlace, FreePlace, Pumping
  <1>1. CASE ImportTicket(t) BY <1>1 DEF ImportTicket
  <1>2. CASE ImportFindsNone(t) BY <1>2 DEF ImportFindsNone
  <1>3. CASE ImportReads(t) BY <1>3 DEF ImportReads
  <1>4. CASE ImportJudges(t) BY <1>4, Found5Type DEF ImportJudges
  <1>5. CASE ImportRefused(t) BY <1>5 DEF ImportRefused
  <1>6. CASE ImportAgreed(t) BY <1>6, CacheDestroyed DEF ImportAgreed
  <1>7. CASE ImportInitializes(t) BY <1>7, CacheInitialized DEF ImportInitializes, ImportFails
  <1>8. CASE ImportStores(t)
    <2>1. Shows' BY <1>8, CacheStored, Zenon DEF ImportStores, ImportFails
    <2>2. (Places /\ Cached /\ Who)' BY <1>8, CacheStored DEF ImportStores, ImportFails
    <2>. QED BY <2>1, <2>2
  <1>9. CASE ImportSets(t) BY <1>9 DEF ImportSets, InfoType
  <1>10. CASE ImportChecks(t) BY <1>10 DEF ImportChecks
  <1>11. CASE ImportLooks(t) BY <1>11 DEF ImportLooks
  <1>12. CASE ImportFlags(t)
    <2>1. Shows' BY <1>12, Zenon DEF ImportFlags
    <2>2. (Places /\ Cached /\ Who)' BY <1>12 DEF ImportFlags
    <2>. QED BY <2>1, <2>2
  <1>. QED BY <1>1, <1>2, <1>3, <1>4, <1>5, <1>6, <1>7, <1>8, <1>9, <1>10, <1>11, <1>12 DEF ImportStep

(* The types, in the steps of a renewal. *)
LEMMA RenewStepTyped ==
  ASSUME Typed, NEW t \in Thread, RenewStep(t) PROVE Typed'
  <1>. USE ViewAssumption, TicketAssumption, CacheKept DEF Typed, Places, Who, Shows, Running, At, Goto, Done, Quiet,
             flags, Becomes, Starts, locks, Takes, Drops, Locks, Free, Thread, Place, Job, TgsPlace, LockPlace,
             DialogPlace, UserPlace, FreePlace, Pumping
  <1>1. CASE RenewTicket(t) BY <1>1 DEF RenewTicket
  <1>2. CASE RenewGets(t) BY <1>2 DEF RenewGets, NotRenewed, HasV5, Cached
  <1>3. CASE RenewInitializes(t) BY <1>3, CacheInitialized DEF RenewInitializes, NotRenewed
  <1>4. CASE RenewStores(t) BY <1>4, CacheStored DEF RenewStores, Renewed, NotRenewed
  <1>5. CASE RenewReads(t) BY <1>5 DEF RenewReads
  <1>6. CASE RenewSucceeds(t)
    <2>1. Shows' BY <1>6, Found5Type, Zenon DEF RenewSucceeds, DropsBoth
    <2>2. (Places /\ Cached /\ Who)' BY <1>6, Found5Type DEF RenewSucceeds, DropsBoth
    <2>. QED BY <2>1, <2>2
  <1>7. CASE RenewFails(t)
    <2>1. Shows' BY <1>7, Found5Type, Zenon DEF RenewFails, DropsBoth
    <2>2. (Places /\ Cached /\ Who)' BY <1>7, Found5Type DEF RenewFails, DropsBoth
    <2>. QED BY <2>1, <2>2
  <1>. QED BY <1>1, <1>2, <1>3, <1>4, <1>5, <1>6, <1>7 DEF RenewStep

(* The types, in the steps of ObtainTicketsViaUserIfNeeded. *)
LEMMA ObtainStepTyped ==
  ASSUME Typed, NEW t \in Thread, ObtainStep(t) PROVE Typed'
  <1>. USE ViewAssumption, TicketAssumption, CacheKept DEF Typed, Places, Who, Shows, Running, At, Goto, Done, Quiet,
             flags, Becomes, Starts, locks, Takes, Drops, Locks, Free, Thread, Place, Job, TgsPlace, LockPlace,
             DialogPlace, UserPlace, FreePlace, Pumping
  <1>1. CASE ObtainLocks(t) BY <1>1 DEF ObtainLocks
  <1>2. CASE ObtainReads(t) BY <1>2, Found5Type DEF ObtainReads
  <1>3. CASE ObtainNone(t) BY <1>3 DEF ObtainNone
  <1>4. CASE ObtainSome(t) BY <1>4 DEF ObtainSome
  <1>5. CASE ObtainChooses(t) BY <1>5 DEF ObtainChooses
  <1>. QED BY <1>1, <1>2, <1>3, <1>4, <1>5 DEF ObtainStep

(* The types, in the steps of answers of the user. *)
LEMMA AnswersTyped ==
  ASSUME Typed, NEW t \in Thread, Answers(t) PROVE Typed'
  <1>. USE ViewAssumption, TicketAssumption, CacheKept DEF Typed, Places, Who, Shows, Running, At, Goto, Done, Quiet,
             flags, Becomes, Starts, locks, Takes, Drops, Locks, Free, Thread, Place, Job, TgsPlace, LockPlace,
             DialogPlace, UserPlace, FreePlace, Pumping
  <1>1. CASE DialogCancelled(t) BY <1>1 DEF DialogCancelled
  <1>2. CASE ImportAnswered(t) BY <1>2 DEF ImportAnswered
  <1>3. ASSUME NEW p \in Principal, GetsPassword(t, p) PROVE Typed' BY <1>3 DEF GetsPassword
  <1>. QED BY <1>1, <1>2, <1>3 DEF Answers

(* The types, in the steps of refreshing the display. *)
LEMMA UpdateTyped ==
  ASSUME Typed, NEW t \in Thread, OnUpdateDisplay(t) \/ UpdateThrows(t) PROVE Typed'
  <1>. USE ViewAssumption, TicketAssumption, CacheKept DEF Typed, Places, Who, Shows, Running, At, Goto, Done, Quiet,
             flags, Becomes, Starts, locks, Takes, Drops, Locks, Free, Thread, Place, Job, TgsPlace, LockPlace,
             DialogPlace, UserPlace, FreePlace, Pumping
  <1>1. CASE OnUpdateDisplay(t) BY <1>1, Found5Type DEF OnUpdateDisplay, Sends, AfterSend
  <1>2. CASE UpdateThrows(t) BY <1>2 DEF UpdateThrows, Sends, AfterSend
  <1>. QED BY <1>1, <1>2

(* A command that starts a request keeps the types.                        *)
LEMMA RequestsTyped ==
  ASSUME Typed, NEW t \in Thread, Requests(t) PROVE Typed'
  BY InitStepTyped, DialogStepTyped, ImportStepTyped, RenewStepTyped, ObtainStepTyped, UpdateTyped DEF Requests

(* The types, in the steps of the user interface thread. *)
LEMMA UiStepTyped ==
  ASSUME Typed, UiStep PROVE Typed'
  <1>. USE ViewAssumption, TicketAssumption, CacheKept DEF Typed, Places, Who, Shows, Running, At, Goto, Done, Quiet,
             flags, Becomes, Starts, locks, Takes, Drops, Locks, Free, Thread, Place, Job, TgsPlace, LockPlace,
             DialogPlace, UserPlace, FreePlace, Pumping
  <1>1. CASE InitInstance
    <2>1. Shows' BY <1>1, Found5Type, Zenon DEF InitInstance
    <2>2. (Places /\ Who)' BY <1>1 DEF InitInstance
    <2>3. Cached'
      <3>1. CASE UNCHANGED caches BY <3>1
      <3>2. CASE v5' = [princ |-> Lsa, tgt |-> TRUE, left |-> MaxLife] /\ UNCHANGED v4
        <4>1. MaxLife \in 0..MaxLife /\ Lsa \in Principal /\ Lsa # NoOne OBVIOUS
        <4>. QED BY <3>2, <4>1, Zenon DEF Cached
      <3>. QED BY <1>1, <3>1, <3>2 DEF InitInstance
    <2>. QED BY <2>1, <2>2, <2>3
  <1>2. CASE Requests(ui) BY <1>2, RequestsTyped
  <1>3. CASE OnTrayIcon BY <1>3 DEF OnTrayIcon
  <1>4. CASE OnDestroyTicket BY <1>4 DEF OnDestroyTicket
  <1>5. CASE Forgets
    <2>1. Shows' BY <1>5, Zenon DEF Forgets
    <2>2. (Places /\ Cached /\ Who)' BY <1>5 DEF Forgets
    <2>. QED BY <2>1, <2>2
  <1>6. CASE OnDestroy BY <1>6, CacheDestroyed DEF OnDestroy
  <1>7. CASE Ends BY <1>7 DEF Ends
  <1>8. CASE OnChangePassword BY <1>8 DEF OnChangePassword
  <1>. QED BY <1>1, <1>2, <1>3, <1>4, <1>5, <1>6, <1>7, <1>8 DEF UiStep

(* The types, in the steps of the timer, the user and the network. *)
LEMMA OutsideTyped ==
  ASSUME Typed, TimerRefreshes \/ Outside PROVE Typed'
  <1>. USE ViewAssumption, TicketAssumption, CacheKept DEF Typed, Places, Who, Shows, Running, At, Goto, Done, Quiet,
             flags, Becomes, Starts, locks, Takes, Drops, Locks, Free, Thread, Place, Job, TgsPlace, LockPlace,
             DialogPlace, UserPlace, FreePlace, Pumping
  <1>1. CASE TimerRefreshes BY <1>1 DEF TimerRefreshes
  <1>2. CASE TimerRenews BY <1>2 DEF TimerRenews
  <1>3. CASE TimerWarns BY <1>3 DEF TimerWarns
  <1>4. CASE BoxCloses BY <1>4 DEF BoxCloses
  <1>5. CASE DestroyConfirmed BY <1>5, CacheDestroyed DEF DestroyConfirmed
  <1>6. ASSUME NEW j \in Command, UserCommand(j) PROVE Typed' BY <1>6 DEF UserCommand
  <1>7. ASSUME NEW t \in Worker, AddressChanges(t) PROVE Typed' BY <1>7 DEF AddressChanges
  <1>8. CASE OnObtainTGTWithParam BY <1>8 DEF OnObtainTGTWithParam
  <1>9. CASE ObtainTGTUnderDialog BY <1>9, Found5Type DEF ObtainTGTUnderDialog
  <1>. QED BY <1>1, <1>2, <1>3, <1>4, <1>5, <1>6, <1>7, <1>8, <1>9 DEF Outside

\* LeashTypeOK: threads stay at places of their jobs, the display shows what a
\* cache could hold, and no thread keeps a KDC's ticket in hand past the step
\* that empties the cache for it.
THEOREM LeashTypeCorrect == Spec => []LeashTypeOK
  <1>1. Init => Typed BY InitTyped
  <1>2. Typed /\ [Next]_vars => Typed'
    <2>. SUFFICES ASSUME Typed, [Next]_vars PROVE Typed' OBVIOUS
    <2>1. CASE UiStep BY <2>1, UiStepTyped
    <2>2. CASE TimerRefreshes \/ Outside BY <2>2, OutsideTyped
    <2>3. ASSUME NEW t \in Worker, Requests(t) PROVE Typed' BY <2>3, RequestsTyped DEF Thread
    <2>4. ASSUME NEW t \in Thread, Answers(t) PROVE Typed' BY <2>4, AnswersTyped
    <2>5. CASE UNCHANGED vars
      BY <2>5, CacheKept DEF vars, locks, flags, Typed, Places, Who, Shows
    <2>. QED BY <2>1, <2>2, <2>3, <2>4, <2>5 DEF Next
  <1>3. Typed => LeashTypeOK BY DEF Typed, Places, Cached, Who, Shows, InfoType, LeashTypeOK
  <1>. QED BY <1>1, <1>2, <1>3, PTL DEF Spec

(***************************************************************************)
(* The timer (LeashTimer).                                                 *)
(***************************************************************************)
(* The types of a time left and of what is displayed of one kind.          *)
Left == 0..MaxLife
InfoOK(i) == i \in [b : {"none", "expired", "low", "good"}, left : Left, princ : Principal \cup {NoOne}]

(* What is displayed of one kind, i, with its status s.                     *)
Agrees(k, i, s, tgt) ==
  /\ i.b = "expired" => i.left = 0
  /\ i.b = "none" /\ s # NO_TICKETS => k = "krb5" /\ ~tgt

(* The cases x of which the user was warned.                                *)
Quieted(k, i, w, l, x, tgt) ==
  /\ \A c \in x : c \in NO_TICKETS..FIFTEEN_MINUTES_LEFT /\ (c = NO_TICKETS \/ i.left < c)
  /\ NO_TICKETS \in x => k = "krb5" /\ w /\ i.b = "none" /\ ~tgt
  /\ i.left + 1 \in x =>
       /\ w
       /\ i.left \in {0, 2} => l # NO_TICKETS
       /\ i.left = 1 => l # TEN_MINUTES_LEFT

(* The data of the timer about one kind of ticket.                          *)
KindRight(k, i, s, w, l, x, tgt) ==
  /\ InfoOK(i) /\ s \in NO_TICKETS..PLENTY_OF_TIME /\ w \in BOOLEAN /\ l \in NO_TICKETS..TEN_MINUTES_LEFT
  /\ Agrees(k, i, s, tgt)
  /\ Quieted(k, i, w, l, x, tgt)

(* The invariant.                                                          *)
TimerInv ==
  /\ TicketsTypeOK
  /\ place \in {"idle", "timer", "box", "update"} /\ request \in {"none", "renew", "ask"} /\ sent \in BOOLEAN
  /\ ticketinfo = [k \in Kind |-> ticketinfo[k]] /\ status = [k \in Kind |-> status[k]]
  /\ warned = [k \in Kind |-> warned[k]] /\ locked = [k \in Kind |-> locked[k]]
  /\ boxed = [k \in Kind |-> boxed[k]]
  /\ ~UseKrb4 => v4 = NoV4 /\ status["krb4"] = NO_TICKETS
  /\ \A k \in Kind : KindRight(k, ticketinfo[k], status[k], warned[k], locked[k], boxed[k], v5.tgt)

(* The statuses are the numbers from 0 to 6.                                *)
LEMMA Numbers ==
  /\ NO_TICKETS = 0 /\ ZERO_MINUTES_LEFT = 1 /\ FIVE_MINUTES_LEFT = 2 /\ TEN_MINUTES_LEFT = 3
  /\ FIFTEEN_MINUTES_LEFT = 4 /\ TWENTY_MINUTES_LEFT = 5 /\ PLENTY_OF_TIME = 6
  BY DEF NO_TICKETS, ZERO_MINUTES_LEFT, FIVE_MINUTES_LEFT, TEN_MINUTES_LEFT, FIFTEEN_MINUTES_LEFT,
         TWENTY_MINUTES_LEFT, PLENTY_OF_TIME

(* UpdateTicketTime changes btickets alone, and then only to expired.       *)
LEMMA TimeDoes ==
  ASSUME NEW i, InfoOK(i)
  PROVE  LET u == UpdateTicketTime(i)
         IN  /\ InfoOK(u) /\ u.left = i.left
             /\ u.b = IF i.b # "none" /\ i.left = 0 THEN "expired" ELSE i.b
  BY DEF InfoOK, UpdateTicketTime

(* The step of a time left.                                                 *)
LEMMA StatusDoes ==
  ASSUME NEW i, InfoOK(i)
  PROVE  LET s == GetLowTicketStatus(i)
         IN  /\ s \in 0..6
             /\ i.b = "none" <=> s = 0
             /\ i.b # "none" /\ s <= 5 => s = i.left + 1
  BY Numbers, TicketAssumption DEF InfoOK, GetLowTicketStatus, Left

(* A record of a section, but for two of its fields.                        *)
LEMMA FieldsChange ==
  ASSUME NEW r, DOMAIN r = {"i", "s", "w", "l"}, NEW v, NEW m
  PROVE  LET e == [r EXCEPT !.w = v, !.l = m]
         IN  /\ DOMAIN e = {"i", "s", "w", "l"}
             /\ e.i = r.i /\ e.s = r.s /\ e.w = v /\ e.l = m
  BY SMT

(* Such a record when a warning is taken back unless b.                     *)
LEMMA TakenBack ==
  ASSUME NEW r, DOMAIN r = {"i", "s", "w", "l"}, r.w \in BOOLEAN, NEW b \in BOOLEAN, NEW m
  PROVE  LET e == [r EXCEPT !.w = @ /\ b, !.l = m]
         IN  /\ DOMAIN e = {"i", "s", "w", "l"}
             /\ e.i = r.i /\ e.s = r.s /\ e.w \in BOOLEAN /\ (e.w <=> r.w /\ b) /\ e.l = m
<1> DEFINE v == r.w /\ b  e == [r EXCEPT !.w = v, !.l = m]
<1>1. v \in BOOLEAN /\ (v <=> r.w /\ b)
  BY Zenon
<1> HIDE DEF v
<1>2. DOMAIN e = {"i", "s", "w", "l"} /\ e.i = r.i /\ e.s = r.s /\ e.w = v /\ e.l = m
  BY FieldsChange
<1> HIDE DEF e
<1>3. e.w \in BOOLEAN /\ (e.w <=> r.w /\ b)
  BY <1>1, <1>2, Zenon
<1> QED BY <1>2, <1>3 DEF e, v

(* The record of a kind without warnings taken back, as it is and with      *)
(* tickets that run low.                                                   *)
LEMMA SameAndLow ==
  ASSUME NEW u, InfoOK(u), NEW t, NEW w \in BOOLEAN, NEW l, NEW s
  PROVE  LET same == [i |-> u, s |-> t, w |-> w, l |-> l]
             low == [same EXCEPT !.i.b = "low", !.s = s]
             other == [same EXCEPT !.s = s]
         IN  /\ DOMAIN same = {"i", "s", "w", "l"} /\ DOMAIN low = {"i", "s", "w", "l"}
             /\ DOMAIN other = {"i", "s", "w", "l"}
             /\ same.i = u /\ same.s = t /\ same.w = w /\ same.l = l
             /\ other.i = u /\ other.s = s /\ other.w = w /\ other.l = l
             /\ InfoOK(low.i) /\ low.i.b = "low" /\ low.i.left = u.left
             /\ low.s = s /\ low.w = w /\ low.l = l
<1> DEFINE same == [i |-> u, s |-> t, w |-> w, l |-> l]
           low == [same EXCEPT !.i.b = "low", !.s = s]
           other == [same EXCEPT !.s = s]
           x == [u EXCEPT !.b = "low"]
<1>1. /\ DOMAIN same = {"i", "s", "w", "l"} /\ same.i = u /\ same.s = t /\ same.w = w /\ same.l = l
  BY SMT
<1>2. /\ DOMAIN low = {"i", "s", "w", "l"} /\ low.i = x /\ low.s = s /\ low.w = w /\ low.l = l
  BY SMT
<1>3. /\ DOMAIN other = {"i", "s", "w", "l"} /\ other.i = u /\ other.s = s /\ other.w = w /\ other.l = l
  BY SMT
<1>4. InfoOK(x) /\ x.b = "low" /\ x.left = u.left
  BY DEF InfoOK
<1> HIDE DEF x
<1> QED BY <1>1, <1>2, <1>3, <1>4, Zenon

(* What a section of the timer makes of one kind.                           *)
SectionRight(k, i, r) ==
  /\ DOMAIN r = {"i", "s", "w", "l"}
  /\ InfoOK(r.i) /\ r.s \in 0..6 /\ r.w \in BOOLEAN /\ r.l \in 0..3
  /\ r.i.left = i.left /\ (r.i.b = "none" <=> i.b = "none")
  /\ r.i.b = "expired" => i.left = 0 /\ r.l # 0
  /\ r.i.b = "none" => r.s = status[k]
  /\ ~UseKrb4 /\ k = "krb4" => r.s = status[k]
  /\ Quieted(k, r.i, r.w, r.l, boxed[k], v5.tgt)
  /\ r.i.b \notin {"none", "expired"} /\ r.s \in 1..4 /\ ~(~UseKrb4 /\ k = "krb4") =>
       /\ r.s = i.left + 1 /\ r.s # 1
       /\ r.s = 3 => r.l # 0
       /\ r.s = 2 => r.l # 3

(* A section keeps what was warned of as it was, and a case that was warned *)
(* of keeps its warning while the time left stays.                         *)
LEMMA SectionDoes ==
  ASSUME TimerInv, NEW k \in Kind
  PROVE  SectionRight(k, ticketinfo[k], Section(k, ticketinfo[k]))
<1> DEFINE i == ticketinfo[k]  u == UpdateTicketTime(i)  s == GetLowTicketStatus(u)  r == Section(k, i)
           b == locked[k] # NO_TICKETS
           b3 == locked[k] # TEN_MINUTES_LEFT
           same == [i |-> u, s |-> status[k], w |-> warned[k], l |-> locked[k]]
           low == [same EXCEPT !.i.b = "low", !.s = s]
           gone == [same EXCEPT !.w = @ /\ b, !.l = ZERO_MINUTES_LEFT]
           ten == [low EXCEPT !.w = @ /\ b, !.l = s]
           five == [low EXCEPT !.w = @ /\ b3, !.l = s]
           twenty == [same EXCEPT !.s = s]
           plenty == [same EXCEPT !.s = NO_TICKETS]
<1>1. /\ InfoOK(i) /\ status[k] \in 0..6 /\ warned[k] \in BOOLEAN /\ locked[k] \in 0..3
      /\ Agrees(k, i, status[k], v5.tgt) /\ Quieted(k, i, warned[k], locked[k], boxed[k], v5.tgt)
  BY Numbers DEF TimerInv, KindRight
<1>2. /\ InfoOK(u) /\ u.left = i.left
      /\ u.b = IF i.b # "none" /\ i.left = 0 THEN "expired" ELSE i.b
  BY <1>1, TimeDoes
<1>3. /\ s \in 0..6 /\ (u.b = "none" <=> s = 0)
      /\ u.b # "none" /\ s <= 5 => s = u.left + 1
  BY <1>2, StatusDoes
<1>4. i.left \in Nat
  BY <1>1, TicketAssumption DEF InfoOK, Left
<1>5. r = CASE u.b = "none" -> same
            [] u.b = "expired" -> gone
            [] u.b # "expired" /\ k = "krb4" /\ ~UseKrb4 -> same
            [] OTHER ->
                 CASE s = FIFTEEN_MINUTES_LEFT -> low
                   [] s = TEN_MINUTES_LEFT -> ten
                   [] s = FIVE_MINUTES_LEFT -> five
                   [] s = TWENTY_MINUTES_LEFT /\ k = "krb5" -> twenty
                   [] OTHER -> plenty
  BY DEF Section
<1> HIDE DEF u, s
<1>6. /\ DOMAIN same = {"i", "s", "w", "l"} /\ DOMAIN low = {"i", "s", "w", "l"}
      /\ DOMAIN twenty = {"i", "s", "w", "l"}
      /\ same.i = u /\ same.s = status[k] /\ same.w = warned[k] /\ same.l = locked[k]
      /\ twenty.i = u /\ twenty.s = s /\ twenty.w = warned[k] /\ twenty.l = locked[k]
      /\ InfoOK(low.i) /\ low.i.b = "low" /\ low.i.left = u.left
      /\ low.s = s /\ low.w = warned[k] /\ low.l = locked[k]
  <2> HIDE DEF s
  <2> QED BY <1>1, <1>2, SameAndLow
<1>7. /\ DOMAIN plenty = {"i", "s", "w", "l"}
      /\ plenty.i = u /\ plenty.s = NO_TICKETS /\ plenty.w = warned[k] /\ plenty.l = locked[k]
  BY <1>1, <1>2, SameAndLow, Zenon
<1> HIDE DEF same, low, twenty, plenty
<1>8. b \in BOOLEAN /\ b3 \in BOOLEAN /\ (b <=> locked[k] # 0) /\ (b3 <=> locked[k] # 3)
  BY Numbers
<1> HIDE DEF b, b3
<1>9. /\ DOMAIN gone = {"i", "s", "w", "l"}
      /\ gone.i = same.i /\ gone.s = same.s /\ gone.w \in BOOLEAN /\ (gone.w <=> same.w /\ b)
      /\ gone.l = ZERO_MINUTES_LEFT
  BY <1>1, <1>6, <1>8, TakenBack, Zenon
<1>10. /\ DOMAIN ten = {"i", "s", "w", "l"}
       /\ ten.i = low.i /\ ten.s = low.s /\ ten.w \in BOOLEAN /\ (ten.w <=> low.w /\ b) /\ ten.l = s
  BY <1>1, <1>6, <1>8, TakenBack, Zenon
<1>11. /\ DOMAIN five = {"i", "s", "w", "l"}
       /\ five.i = low.i /\ five.s = low.s /\ five.w \in BOOLEAN /\ (five.w <=> low.w /\ b3) /\ five.l = s
  BY <1>1, <1>6, <1>8, TakenBack, Zenon
<1> HIDE DEF gone, ten, five, r, i
<1>12. CASE u.b = "none"
  <2>1. r = same
    BY <1>5, <1>12
  <2> QED BY <1>1, <1>2, <1>4, <1>6, <2>1, <1>12, Numbers DEF Quieted, SectionRight, i, r
<1>13. CASE u.b = "expired"
  <2>1. r = gone
    BY <1>5, <1>13
  <2>2. i.left = 0 /\ i.b # "none"
    BY <1>1, <1>2, <1>13 DEF Agrees
  <2>3. Quieted(k, r.i, r.w, r.l, boxed[k], v5.tgt)
    BY <1>1, <1>2, <1>4, <1>6, <1>8, <1>9, <2>1, <2>2, Numbers DEF Quieted
  <2> QED BY <1>1, <1>2, <1>6, <1>9, <2>1, <2>2, <2>3, <1>13, Numbers DEF SectionRight, i, r
<1>14. CASE u.b \notin {"none", "expired"} /\ k = "krb4" /\ ~UseKrb4
  <2>1. r = same
    BY <1>5, <1>14
  <2> QED BY <1>1, <1>2, <1>4, <1>6, <2>1, <1>14, Numbers DEF Quieted, SectionRight, i, r
<1>15. CASE u.b \notin {"none", "expired"} /\ ~(k = "krb4" /\ ~UseKrb4)
  <2>1. CASE s = 4
    <3>1. r = low /\ i.left = 3
      BY <1>2, <1>3, <1>4, <1>5, <1>15, <2>1, Numbers
    <3>2. Quieted(k, r.i, r.w, r.l, boxed[k], v5.tgt)
      BY <1>1, <1>2, <1>4, <1>6, <1>15, <3>1, Numbers DEF Quieted
    <3> QED BY <1>1, <1>2, <1>6, <2>1, <3>1, <3>2, <1>15 DEF SectionRight, i, r
  <2>2. CASE s = 3
    <3>1. r = ten /\ i.left = 2
      BY <1>2, <1>3, <1>4, <1>5, <1>15, <2>2, Numbers
    <3>2. Quieted(k, r.i, r.w, r.l, boxed[k], v5.tgt)
      BY <1>1, <1>2, <1>4, <1>6, <1>8, <1>10, <1>15, <2>2, <3>1, Numbers DEF Quieted
    <3> QED BY <1>1, <1>2, <1>6, <1>10, <2>2, <3>1, <3>2, <1>15 DEF SectionRight, i, r
  <2>3. CASE s = 2
    <3>1. r = five /\ i.left = 1
      BY <1>2, <1>3, <1>4, <1>5, <1>15, <2>3, Numbers
    <3>2. Quieted(k, r.i, r.w, r.l, boxed[k], v5.tgt)
      BY <1>1, <1>2, <1>4, <1>6, <1>8, <1>11, <1>15, <2>3, <3>1, Numbers DEF Quieted
    <3> QED BY <1>1, <1>2, <1>6, <1>11, <2>3, <3>1, <3>2, <1>15 DEF SectionRight, i, r
  <2>4. CASE s \notin {2, 3, 4}
    <3>1. r = plenty \/ (r = twenty /\ s = 5)
      BY <1>5, <1>15, <2>4, Numbers
    <3>2. /\ DOMAIN r = {"i", "s", "w", "l"} /\ r.i = u /\ r.s \in {0, 5}
          /\ r.w = warned[k] /\ r.l = locked[k]
      BY <1>6, <1>7, <3>1, Numbers
    <3>3. Quieted(k, r.i, r.w, r.l, boxed[k], v5.tgt)
      BY <1>1, <1>2, <1>4, <1>15, <3>2, Numbers DEF Quieted
    <3> QED BY <1>1, <1>2, <3>2, <3>3, <1>15 DEF SectionRight, i, r
  <2> QED BY <2>1, <2>2, <2>3, <2>4
<1> QED BY <1>12, <1>13, <1>14, <1>15 DEF i, r

(* A section, and the warning that follows it: what was warned of before is *)
(* not warned of again.                                                    *)
LEMMA WarningDoes ==
  ASSUME TimerInv, NEW k \in Kind, NEW r, SectionRight(k, ticketinfo[k], r),
         NEW now, now <=> r.s > NO_TICKETS /\ r.s < TWENTY_MINUTES_LEFT /\ ~r.w
  PROVE  /\ KindRight(k, r.i, r.s, r.w, r.l, boxed[k], v5.tgt)
         /\ now => /\ Case(r.i, r.s) \notin boxed[k]
                   /\ KindRight(k, r.i, r.s, TRUE, r.l, boxed[k] \cup {Case(r.i, r.s)}, v5.tgt)
<1> DEFINE i == ticketinfo[k]  x == boxed[k]  c == Case(r.i, r.s)
<1>1. /\ InfoOK(i) /\ status[k] \in 0..6
      /\ Agrees(k, i, status[k], v5.tgt) /\ Quieted(k, i, warned[k], locked[k], x, v5.tgt)
      /\ ~UseKrb4 => status["krb4"] = 0
  BY Numbers DEF TimerInv, KindRight
<1>2. i.left \in Nat
  BY <1>1, TicketAssumption DEF InfoOK, Left
<1>3. Agrees(k, r.i, r.s, v5.tgt)
  BY <1>1, Numbers DEF Agrees, SectionRight
<1>4. Quieted(k, r.i, r.w, r.l, x, v5.tgt) /\ InfoOK(r.i) /\ r.s \in 0..6 /\ r.w \in BOOLEAN /\ r.l \in 0..3
  BY DEF SectionRight
<1>5. KindRight(k, r.i, r.s, r.w, r.l, x, v5.tgt)
  BY <1>3, <1>4, Numbers DEF KindRight
<1>6. ASSUME now
      PROVE  c \notin x /\ KindRight(k, r.i, r.s, TRUE, r.l, x \cup {c}, v5.tgt)
  <2>1. r.s \in 1..4 /\ ~r.w
    BY <1>4, <1>6, Numbers
  <2>2. CASE r.i.b = "none"
    <3>1. c = 0
      BY <2>2, Numbers DEF Case
    <3>2. 0 \notin x
      BY <1>4, <2>1, Numbers DEF Quieted
    <3>3. k = "krb5" /\ ~v5.tgt
      BY <1>3, <2>1, <2>2, Numbers DEF Agrees
    <3>4. r.i.left + 1 # 0 /\ r.i.left + 1 \notin x
      BY <1>2, <1>4, <2>1 DEF Quieted, SectionRight
    <3>5. Quieted(k, r.i, TRUE, r.l, x \cup {c}, v5.tgt)
      BY <1>4, <2>2, <3>1, <3>3, <3>4, Numbers DEF Quieted
    <3> QED BY <1>3, <1>4, <3>1, <3>2, <3>5, Numbers DEF KindRight
  <2>3. CASE r.i.b # "none"
    <3>1. c = r.i.left + 1 /\ c \in 1..4 /\ r.i.left \in Nat
      <4>1. CASE r.i.b = "expired"
        BY <1>2, <4>1, Numbers DEF Case, SectionRight
      <4>2. CASE r.i.b # "expired"
        <5>1. c = r.s
          BY <2>3, <4>2 DEF Case
        <5>2. ~(~UseKrb4 /\ k = "krb4")
          BY <1>1, <2>1 DEF SectionRight
        <5> QED BY <1>2, <2>1, <2>3, <4>2, <5>1, <5>2 DEF SectionRight
      <4> QED BY <4>1, <4>2
    <3>2. c \notin x
      BY <1>4, <2>1, <3>1 DEF Quieted
    <3>3. r.i.left \in {0, 2} => r.l # 0
      <4>1. CASE r.i.b = "expired"
        BY <4>1 DEF SectionRight
      <4>2. CASE r.i.b # "expired"
        <5>1. ~(~UseKrb4 /\ k = "krb4")
          BY <1>1, <2>1 DEF SectionRight
        <5> QED BY <1>2, <2>1, <2>3, <4>2, <5>1 DEF SectionRight
      <4> QED BY <4>1, <4>2
    <3>4. r.i.left = 1 => r.l # 3
      <4>1. ASSUME r.i.left = 1 PROVE r.i.b # "expired"
        BY <4>1, <1>2 DEF SectionRight
      <4>2. ~(~UseKrb4 /\ k = "krb4")
        BY <1>1, <2>1 DEF SectionRight
      <4> QED BY <1>2, <2>1, <2>3, <4>1, <4>2 DEF SectionRight
    <3>5. 0 \notin x
      BY <1>4, <2>1, Numbers DEF Quieted
    <3>6. Quieted(k, r.i, TRUE, r.l, x \cup {c}, v5.tgt)
      BY <1>4, <3>1, <3>3, <3>4, <3>5, Numbers DEF Quieted
    <3> QED BY <1>3, <1>4, <3>2, <3>6, Numbers DEF KindRight
  <2> QED BY <2>2, <2>3
<1> QED BY <1>5, <1>6

(* The display, read again, of one kind.                                    *)
LEMMA ReadingKeeps ==
  ASSUME NEW k \in Kind, NEW i, NEW s, NEW w, NEW l, NEW x, NEW tgt \in BOOLEAN, KindRight(k, i, s, w, l, x, tgt),
         NEW j, InfoOK(j), NEW t \in NO_TICKETS..PLENTY_OF_TIME, NEW have \in BOOLEAN, have => tgt,
         Agrees(k, j, t, have), k = "krb5" /\ ~have => j.b = "none"
  PROVE  KindRight(k, j, t, w, l, IF j.left > i.left THEN {} ELSE x, have)
<1>1. i.left \in Nat /\ j.left \in Nat
  BY TicketAssumption DEF KindRight, InfoOK, Left
<1>2. Quieted(k, i, w, l, x, tgt)
  BY DEF KindRight
<1>3. CASE j.left > i.left
  BY <1>3, Numbers DEF KindRight, Quieted
<1>4. CASE j.left = i.left
  <2>1. Quieted(k, j, w, l, x, have)
    BY <1>1, <1>2, <1>4, Numbers DEF Quieted
  <2> QED BY <1>1, <1>4, <2>1 DEF KindRight
<1>5. CASE j.left < i.left
  <2>1. j.left + 1 \notin x
    <3>1. ASSUME j.left + 1 \in x PROVE FALSE
      <4>1. j.left + 1 = NO_TICKETS \/ i.left < j.left + 1
        BY <1>2, <3>1 DEF Quieted
      <4> QED BY <1>1, <1>5, <4>1, Numbers
    <3> QED BY <3>1
  <2>2. \A c \in x : c \in NO_TICKETS..FIFTEEN_MINUTES_LEFT /\ (c = NO_TICKETS \/ j.left < c)
    BY <1>1, <1>2, <1>5, Numbers DEF Quieted
  <2>3. NO_TICKETS \in x => k = "krb5" /\ w /\ j.b = "none" /\ ~have
    BY <1>2 DEF Quieted
  <2>4. Quieted(k, j, w, l, x, have)
    BY <2>1, <2>2, <2>3 DEF Quieted
  <2> QED BY <1>1, <1>5, <2>4 DEF KindRight
<1> QED BY <1>1, <1>3, <1>4, <1>5

(* New tickets of one kind.                                                 *)
LEMMA ClearedRight ==
  ASSUME NEW k, NEW i, InfoOK(i), i.b = "expired" => i.left = 0, NEW l \in NO_TICKETS..TEN_MINUTES_LEFT, NEW tgt
  PROVE  KindRight(k, i, NO_TICKETS, FALSE, l, {}, tgt)
  BY Numbers DEF KindRight, Agrees, Quieted

(* What is read of the caches.                                              *)
LEMMA ReadsV5 ==
  ASSUME NEW c, c \in [princ : Principal \cup {NoOne}, tgt : BOOLEAN, left : Left], NEW old, InfoOK(old)
  PROVE  LET j == Found5(c, old)
         IN  InfoOK(j) /\ (j.b = "none" <=> ~c.tgt) /\ (j.b = "expired" => j.left = 0)
  BY DEF InfoOK, Found5
(* The Kerberos 4 ticket.                                                   *)
LEMMA ReadsV4 ==
  ASSUME NEW c \in 0..NoV4, NEW old, InfoOK(old)
  PROVE  LET j == Found4(c, old)
         IN  InfoOK(j) /\ (c = NoV4 => j.b = "none") /\ (j.b = "expired" => j.left = 0)
<1>1. c # NoV4 => c \in Left
  BY TicketAssumption DEF NoV4, Left
<1> QED BY <1>1 DEF InfoOK, Found4

(* The time left of what is read, and its step.                             *)
LEMMA DisplayDoes ==
  ASSUME NEW j, InfoOK(j), j.b = "expired" => j.left = 0
  PROVE  LET u == UpdateTicketTime(j)
             s == GetLowTicketStatus(u)
         IN  /\ InfoOK(u) /\ u.left = j.left /\ (u.b = "none" <=> j.b = "none")
             /\ u.b = "expired" => u.left = 0
             /\ s \in NO_TICKETS..PLENTY_OF_TIME /\ (u.b = "none" <=> s = NO_TICKETS)
<1> DEFINE u == UpdateTicketTime(j)  s == GetLowTicketStatus(u)
<1>1. InfoOK(u) /\ u.left = j.left /\ u.b = IF j.b # "none" /\ j.left = 0 THEN "expired" ELSE j.b
  BY TimeDoes
<1>2. s \in 0..6 /\ (u.b = "none" <=> s = 0)
  BY <1>1, StatusDoes
<1> HIDE DEF u, s
<1> QED BY <1>1, <1>2, Numbers DEF u, s

(* The parts of the invariant that are not of one kind alone.               *)
Apart ==
  /\ TicketsTypeOK
  /\ place \in {"idle", "timer", "box", "update"} /\ request \in {"none", "renew", "ask"} /\ sent \in BOOLEAN
  /\ ~UseKrb4 => v4 = NoV4
Shaped(f) == f = [k \in Kind |-> f[k]]
Right(k) == KindRight(k, ticketinfo[k], status[k], warned[k], locked[k], boxed[k], v5.tgt)

(* The invariant in parts: of the caches and places, of the shapes of the   *)
(* functions, and of each kind.                                            *)
LEMMA InvParts ==
  TimerInv <=>
    /\ Apart /\ Shaped(ticketinfo) /\ Shaped(status) /\ Shaped(warned) /\ Shaped(locked) /\ Shaped(boxed)
    /\ ~UseKrb4 => status["krb4"] = NO_TICKETS
    /\ \A k \in Kind : Right(k)
  BY DEF TimerInv, Apart, Shaped, Right

(* Reading the caches for the display.                                      *)
LEMMA UpdateKeeps ==
  ASSUME TimerInv, Apart', v5'.tgt => v5.tgt, DisplayReads, ForgetsCases, UNCHANGED <<warned, locked>>
  PROVE  TimerInv'
<1> DEFINE j5 == Found5(v5', ticketinfo["krb5"])  j4 == Found4(v4', ticketinfo["krb4"])
           new == [krb5 |-> UpdateTicketTime(j5), krb4 |-> UpdateTicketTime(j4)]
<1>1. /\ v5' \in [princ : Principal \cup {NoOne}, tgt : BOOLEAN, left : Left] /\ v4' \in 0..NoV4
      /\ ~UseKrb4 => v4' = NoV4
  BY DEF Apart, TicketsTypeOK, Left
<1>2. \A k \in Kind : Right(k) /\ InfoOK(ticketinfo[k])
  BY InvParts DEF Right, KindRight
<1>3. v5.tgt \in BOOLEAN /\ v5'.tgt \in BOOLEAN
  BY <1>1 DEF TimerInv, TicketsTypeOK
<1>4. InfoOK(j5) /\ (j5.b = "none" <=> ~v5'.tgt) /\ (j5.b = "expired" => j5.left = 0)
  BY <1>1, <1>2, ReadsV5 DEF Kind
<1>5. InfoOK(j4) /\ (v4' = NoV4 => j4.b = "none") /\ (j4.b = "expired" => j4.left = 0)
  BY <1>1, <1>2, ReadsV4 DEF Kind
<1>6. /\ ticketinfo' = [k \in Kind |-> new[k]] /\ status' = [k \in Kind |-> GetLowTicketStatus(new[k])]
      /\ boxed' = [k \in Kind |-> IF ticketinfo'[k].left > ticketinfo[k].left THEN {} ELSE boxed[k]]
  BY DEF DisplayReads, ForgetsCases
<1> HIDE DEF j5, j4
<1>7. /\ ticketinfo'["krb5"] = UpdateTicketTime(j5) /\ ticketinfo'["krb4"] = UpdateTicketTime(j4)
      /\ \A k \in Kind : status'[k] = GetLowTicketStatus(ticketinfo'[k])
  BY <1>6 DEF Kind
<1>8. ASSUME NEW k \in Kind PROVE Right(k)'
  <2>1. \E j : /\ InfoOK(j) /\ (j.b = "expired" => j.left = 0) /\ ticketinfo'[k] = UpdateTicketTime(j)
               /\ k = "krb5" /\ ~v5'.tgt => j.b = "none"
    BY <1>4, <1>5, <1>7 DEF Kind
  <2>2. /\ InfoOK(ticketinfo'[k]) /\ (ticketinfo'[k].b = "expired" => ticketinfo'[k].left = 0)
        /\ k = "krb5" /\ ~v5'.tgt => ticketinfo'[k].b = "none"
        /\ status'[k] \in NO_TICKETS..PLENTY_OF_TIME /\ (ticketinfo'[k].b = "none" <=> status'[k] = NO_TICKETS)
    BY <1>7, <2>1, DisplayDoes
  <2>3. Agrees(k, ticketinfo'[k], status'[k], v5'.tgt)
    BY <2>2 DEF Agrees
  <2>4. boxed'[k] = IF ticketinfo'[k].left > ticketinfo[k].left THEN {} ELSE boxed[k]
    BY <1>6
  <2>5. KindRight(k, ticketinfo'[k], status'[k], warned[k], locked[k], boxed'[k], v5'.tgt)
    BY <1>2, <1>3, <2>2, <2>3, <2>4, ReadingKeeps DEF Right
  <2> QED BY <2>5 DEF Right
<1>9. (~UseKrb4 => status["krb4"] = NO_TICKETS)'
  BY <1>1, <1>5, <1>7, DisplayDoes DEF Kind
<1>10. Shaped(ticketinfo)' /\ Shaped(status)' /\ Shaped(boxed)' /\ Shaped(warned)' /\ Shaped(locked)'
  BY <1>6, InvParts DEF Shaped
<1> QED BY <1>8, <1>9, <1>10 DEF TimerInv, Apart, Right, Shaped

(* The display is refreshed.                                               *)
LEMMA UpdatesKeep ==
  ASSUME TimerInv, Updates PROVE TimerInv'
<1>1. Apart' /\ v5' = v5
  BY InvParts DEF Updates, caches, Apart, TicketsTypeOK
<1> QED BY <1>1, UpdateKeeps DEF Updates, timerFlags

(* The user destroys the tickets.                                          *)
LEMMA DestroyKeeps ==
  ASSUME TimerInv, DestroysTickets PROVE TimerInv'
<1>1. NoV5 \in [princ : Principal \cup {NoOne}, tgt : BOOLEAN, left : 0..MaxLife] /\ ~NoV5.tgt
      /\ NoV4 \in 0..NoV4
  BY TicketAssumption DEF NoV5, NoV4
<1>2. Apart' /\ (v5'.tgt => v5.tgt)
  BY <1>1, InvParts DEF DestroysTickets, Destroy, Apart, TicketsTypeOK
<1> QED BY <1>2, UpdateKeeps DEF DestroysTickets

(* New tickets.                                                             *)
LEMMA NewRight ==
  ASSUME Apart, NEW results4, results4 \subseteq 0..NoV4, NewTickets(results4)
  PROVE  TicketsTypeOK' /\ (~UseKrb4 => v4' = NoV4)
<1>1. v5' \in [princ : Principal \cup {NoOne}, tgt : BOOLEAN, left : 0..MaxLife]
  BY TicketAssumption DEF NewTickets
<1> QED BY <1>1, TicketAssumption DEF Apart, NewTickets, TicketsTypeOK, NoV4

(* The results of a conversion.                                             *)
LEMMA ConvertedRight ==
  ASSUME Apart, v5' = [princ |-> Lsa, tgt |-> TRUE, left |-> MaxLife]
  PROVE  Converted(v5', v4) \subseteq 0..NoV4 /\ WithPassword4(v4) \subseteq 0..NoV4
  BY TicketAssumption DEF Apart, TicketsTypeOK, Converted, WithPassword4, NoV4

(* New tickets clear the warnings, whatever is read of them.                *)
LEMMA ClearKeeps ==
  ASSUME TimerInv, Apart', ClearWarnings, Shaped(ticketinfo)',
         \A k \in Kind : InfoOK(ticketinfo'[k]) /\ (ticketinfo'[k].b = "expired" => ticketinfo'[k].left = 0)
  PROVE  TimerInv'
<1>1. /\ warned' = [k \in Kind |-> FALSE] /\ status' = [k \in Kind |-> NO_TICKETS]
      /\ boxed' = [k \in Kind |-> {}] /\ locked' = locked
  BY DEF ClearWarnings
<1>2. \A k \in Kind : locked[k] \in NO_TICKETS..TEN_MINUTES_LEFT
  BY DEF TimerInv, KindRight
<1>3. ASSUME NEW k \in Kind PROVE Right(k)'
  <2>1. KindRight(k, ticketinfo'[k], NO_TICKETS, FALSE, locked[k], {}, v5'.tgt)
    BY <1>2, ClearedRight
  <2> QED BY <1>1, <2>1 DEF Right
<1>4. Shaped(status)' /\ Shaped(boxed)' /\ Shaped(warned)' /\ Shaped(locked)'
  BY <1>1, InvParts DEF Shaped
<1>5. (~UseKrb4 => status["krb4"] = NO_TICKETS)'
  BY <1>1 DEF Kind
<1> QED BY <1>3, <1>4, <1>5 DEF TimerInv, Apart, Right, Shaped

(* btickets of Kerberos 4 becomes good, whatever was known of it.           *)
LEMMA GoodRight ==
  ASSUME TimerInv, NEW f, Shaped(f), \A k \in Kind : InfoOK(f[k]) /\ (f[k].b = "expired" => f[k].left = 0)
  PROVE  LET g == [f EXCEPT !["krb4"].b = "good"]
         IN  Shaped(g) /\ \A k \in Kind : InfoOK(g[k]) /\ (g[k].b = "expired" => g[k].left = 0)
<1> DEFINE x == [f["krb4"] EXCEPT !.b = "good"]  g == [f EXCEPT !["krb4"] = x]
<1>1. InfoOK(x) /\ x.b = "good"
  BY DEF InfoOK, Kind
<1> HIDE DEF x
<1>2. DOMAIN f = Kind
  BY DEF Shaped
<1>3. Shaped(g) /\ g["krb4"] = x /\ g["krb5"] = f["krb5"]
  BY <1>2 DEF Shaped, Kind
<1>4. [f EXCEPT !["krb4"].b = "good"] = g
  BY DEF x
<1> QED BY <1>1, <1>3, <1>4 DEF Kind

(* A renewal succeeds.                                                     *)
LEMMA RenewSucceedsKeeps ==
  ASSUME TimerInv, RenewalSucceeds PROVE TimerInv'
<1> DEFINE j == Found5(v5', ticketinfo["krb5"])  f == [ticketinfo EXCEPT !["krb5"] = j]
<1>1. /\ v5' = [princ |-> Lsa, tgt |-> TRUE, left |-> MaxLife] /\ NewTickets(Converted(v5', v4))
      /\ Apart /\ Shaped(ticketinfo)
  BY InvParts DEF RenewalSucceeds, NewTickets
<1>2. TicketsTypeOK' /\ (~UseKrb4 => v4' = NoV4)
  BY <1>1, ConvertedRight, NewRight
<1>3. Apart'
  BY <1>1, <1>2 DEF RenewalSucceeds, Apart
<1>4. \A k \in Kind : InfoOK(ticketinfo[k]) /\ (ticketinfo[k].b = "expired" => ticketinfo[k].left = 0)
  BY DEF TimerInv, KindRight, Agrees
<1>5. InfoOK(j) /\ (j.b = "expired" => j.left = 0)
  BY <1>2, <1>4, ReadsV5 DEF Kind, TicketsTypeOK, Left
<1> HIDE DEF j
<1>6. Shaped(f) /\ f["krb5"] = j /\ f["krb4"] = ticketinfo["krb4"]
  BY <1>1 DEF Shaped, Kind
<1>7. \A k \in Kind : InfoOK(f[k]) /\ (f[k].b = "expired" => f[k].left = 0)
  BY <1>4, <1>5, <1>6 DEF Kind
<1>8. ticketinfo' = [ticketinfo EXCEPT !["krb5"] = j, !["krb4"].b = "good"]
  BY DEF RenewalSucceeds, j
<1>9. ticketinfo' = [f EXCEPT !["krb4"].b = "good"]
  BY <1>8
<1> HIDE DEF f
<1>10. Shaped(ticketinfo') /\ \A k \in Kind : InfoOK(ticketinfo'[k]) /\ (ticketinfo'[k].b = "expired" => ticketinfo'[k].left = 0)
  BY <1>6, <1>7, <1>9, GoodRight
<1> QED BY <1>3, <1>10, ClearKeeps DEF RenewalSucceeds, Shaped

(* A request with a password succeeds.                                     *)
LEMMA InitSetsKeeps ==
  ASSUME TimerInv, InitSucceeds PROVE TimerInv'
<1>1. /\ v5' = [princ |-> Lsa, tgt |-> TRUE, left |-> MaxLife]
      /\ NewTickets(Converted(v5', v4) \cup WithPassword4(v4))
      /\ Apart /\ Shaped(ticketinfo)
  BY InvParts DEF InitSucceeds, NewTickets
<1>2. TicketsTypeOK' /\ (~UseKrb4 => v4' = NoV4)
  <2>1. Converted(v5', v4) \cup WithPassword4(v4) \subseteq 0..NoV4
    BY <1>1, ConvertedRight
  <2> QED BY <1>1, <2>1, NewRight
<1>3. Apart'
  BY <1>1, <1>2 DEF InitSucceeds, Apart
<1>4. \A k \in Kind : InfoOK(ticketinfo[k]) /\ (ticketinfo[k].b = "expired" => ticketinfo[k].left = 0)
  BY DEF TimerInv, KindRight, Agrees
<1>5. ticketinfo' = [ticketinfo EXCEPT !["krb4"].b = "good"]
  BY DEF InitSucceeds
<1>6. Shaped(ticketinfo') /\ \A k \in Kind : InfoOK(ticketinfo'[k]) /\ (ticketinfo'[k].b = "expired" => ticketinfo'[k].left = 0)
  BY <1>1, <1>4, <1>5, GoodRight
<1> QED BY <1>3, <1>6, ClearKeeps DEF InitSucceeds, Shaped

(* A renewal fails, and the user is asked.                                 *)
LEMMA RenewFailsKeeps ==
  ASSUME TimerInv, RenewalFails PROVE TimerInv'
<1> DEFINE j == Found5(v5', ticketinfo["krb5"])
<1>1. Apart /\ Shaped(ticketinfo) /\ Shaped(status) /\ Shaped(warned) /\ Shaped(locked) /\ Shaped(boxed)
      /\ (~UseKrb4 => status["krb4"] = NO_TICKETS) /\ \A k \in Kind : Right(k)
  BY InvParts
<1>2. TicketsTypeOK' /\ (v5'.tgt => v5.tgt)
  <2> DEFINE e == [v5 EXCEPT !.tgt = FALSE, !.left = 0]
  <2>1. v5 \in [princ : Principal \cup {NoOne}, tgt : BOOLEAN, left : 0..MaxLife] /\ v4 \in 0..NoV4
    BY <1>1 DEF Apart, TicketsTypeOK
  <2>2. 0 \in 0..MaxLife
    BY TicketAssumption
  <2>3. e \in [princ : Principal \cup {NoOne}, tgt : BOOLEAN, left : 0..MaxLife] /\ ~e.tgt
    BY <2>1, <2>2
  <2>4. v5' \in {v5, e} /\ v4' = v4
    BY DEF RenewalFails
  <2> HIDE DEF e
  <2> QED BY <2>1, <2>3, <2>4 DEF TicketsTypeOK
<1>3. Apart'
  BY <1>1, <1>2 DEF RenewalFails, Apart
<1>4. \A k \in Kind : InfoOK(ticketinfo[k]) /\ status[k] \in NO_TICKETS..PLENTY_OF_TIME
        /\ Agrees(k, ticketinfo[k], status[k], v5.tgt)
  BY DEF TimerInv, KindRight
<1>5. InfoOK(j) /\ (j.b = "expired" => j.left = 0) /\ (j.b = "none" <=> ~v5'.tgt)
  BY <1>2, <1>4, ReadsV5 DEF Kind, TicketsTypeOK, Left
<1>6. /\ ticketinfo' = [ticketinfo EXCEPT !["krb5"] = j] /\ status' = status /\ warned' = warned /\ locked' = locked
      /\ boxed' = [k \in Kind |-> IF ticketinfo'[k].left > ticketinfo[k].left THEN {} ELSE boxed[k]]
  BY DEF RenewalFails, timerFlags, ForgetsCases
<1> HIDE DEF j
<1>7. Shaped(ticketinfo') /\ ticketinfo'["krb5"] = j /\ ticketinfo'["krb4"] = ticketinfo["krb4"]
  BY <1>1, <1>6 DEF Shaped, Kind
<1>8. v5.tgt \in BOOLEAN /\ v5'.tgt \in BOOLEAN
  BY <1>1, <1>2 DEF Apart, TicketsTypeOK
<1>9. ASSUME NEW k \in Kind PROVE Right(k)'
  <2>1. InfoOK(ticketinfo'[k]) /\ (k = "krb5" /\ ~v5'.tgt => ticketinfo'[k].b = "none")
    BY <1>4, <1>5, <1>7 DEF Kind
  <2>2. Agrees(k, ticketinfo'[k], status[k], v5'.tgt)
    BY <1>2, <1>4, <1>5, <1>7 DEF Agrees, Kind
  <2>3. boxed'[k] = IF ticketinfo'[k].left > ticketinfo[k].left THEN {} ELSE boxed[k]
    BY <1>6
  <2>4. KindRight(k, ticketinfo'[k], status[k], warned[k], locked[k], boxed'[k], v5'.tgt)
    BY <1>1, <1>2, <1>4, <1>8, <2>1, <2>2, <2>3, ReadingKeeps DEF Right
  <2> QED BY <1>6, <2>4 DEF Right
<1>10. Shaped(boxed')
  BY <1>6 DEF Shaped
<1> QED BY <1>1, <1>3, <1>6, <1>7, <1>9, <1>10 DEF TimerInv, Apart, Right, Shaped

(* Five minutes pass.                                                      *)
LEMMA TickKeeps ==
  ASSUME TimerInv, Tick PROVE TimerInv'
<1>1. Apart /\ Shaped(ticketinfo) /\ Shaped(status) /\ Shaped(warned) /\ Shaped(locked) /\ Shaped(boxed)
      /\ (~UseKrb4 => status["krb4"] = NO_TICKETS) /\ \A k \in Kind : Right(k)
  BY InvParts
<1>2. TicketsTypeOK' /\ v5'.tgt = v5.tgt /\ (~UseKrb4 => v4' = NoV4)
  BY <1>1, TicketAssumption DEF Tick, Ages, Apart, TicketsTypeOK, NoV4
<1>3. Apart'
  BY <1>1, <1>2 DEF Tick, Apart
<1>4. /\ ticketinfo' = [k \in Kind |-> [ticketinfo[k] EXCEPT !.left = IF @ > 0 THEN @ - 1 ELSE 0]]
      /\ status' = status /\ warned' = warned /\ locked' = locked /\ boxed' = boxed
  BY DEF Tick, timerFlags
<1>5. ASSUME NEW k \in Kind PROVE Right(k)'
  <2>1. InfoOK(ticketinfo[k]) /\ status[k] \in NO_TICKETS..PLENTY_OF_TIME /\ Agrees(k, ticketinfo[k], status[k], v5.tgt)
        /\ Quieted(k, ticketinfo[k], warned[k], locked[k], boxed[k], v5.tgt)
    BY <1>1 DEF Right, KindRight
  <2>2. ticketinfo[k].left \in 0..MaxLife /\ ticketinfo'[k] = [ticketinfo[k] EXCEPT !.left = IF @ > 0 THEN @ - 1 ELSE 0]
    BY <1>4, <2>1 DEF InfoOK, Left
  <2>3. ticketinfo'[k].left = (IF ticketinfo[k].left > 0 THEN ticketinfo[k].left - 1 ELSE 0) /\ ticketinfo'[k].b = ticketinfo[k].b /\ InfoOK(ticketinfo'[k])
    BY <2>1, <2>2, TicketAssumption DEF InfoOK, Left
  <2>4. Agrees(k, ticketinfo'[k], status[k], v5.tgt)
    BY <2>1, <2>2, <2>3 DEF Agrees
  <2>5. Quieted(k, ticketinfo'[k], warned[k], locked[k], boxed[k], v5.tgt)
    <3>1. CASE ticketinfo[k].left = 0
      BY <2>1, <2>3, <3>1 DEF Quieted
    <3>2. CASE ticketinfo[k].left > 0
      <4>1. ticketinfo'[k].left + 1 = ticketinfo[k].left /\ ticketinfo[k].left \in Nat \ {0} /\ ticketinfo'[k].left < ticketinfo[k].left
        BY <2>2, <2>3, <3>2, TicketAssumption
      <4>2. ticketinfo'[k].left + 1 \notin boxed[k]
        BY <2>1, <4>1, Numbers DEF Quieted
      <4>3. \A c \in boxed[k] : c \in NO_TICKETS..FIFTEEN_MINUTES_LEFT /\ (c = NO_TICKETS \/ ticketinfo'[k].left < c)
        BY <2>1, <2>2, <4>1, Numbers, TicketAssumption DEF Quieted
      <4> QED BY <2>1, <2>3, <4>2, <4>3 DEF Quieted
    <3> QED BY <2>2, <3>1, <3>2, TicketAssumption
  <2>6. KindRight(k, ticketinfo'[k], status[k], warned[k], locked[k], boxed[k], v5.tgt)
    BY <1>1, <2>3, <2>4, <2>5 DEF Right, KindRight
  <2> QED BY <1>2, <1>4, <2>6 DEF Right
<1>6. Shaped(ticketinfo')
  BY <1>4 DEF Shaped
<1> QED BY <1>1, <1>3, <1>4, <1>5, <1>6 DEF TimerInv, Apart, Right, Shaped

(* The sections change nothing of one kind, but the time of it.             *)
LEMMA OnlyTimeRight ==
  ASSUME TimerInv, NEW k \in Kind
  PROVE  LET r == OnlyTime(k)
         IN  KindRight(k, r.i, r.s, r.w, r.l, boxed[k], v5.tgt) /\ r.s = status[k]
<1> DEFINE u == UpdateTicketTime(ticketinfo[k])
<1>1. InfoOK(ticketinfo[k]) /\ status[k] \in NO_TICKETS..PLENTY_OF_TIME /\ Agrees(k, ticketinfo[k], status[k], v5.tgt)
      /\ Quieted(k, ticketinfo[k], warned[k], locked[k], boxed[k], v5.tgt)
      /\ warned[k] \in BOOLEAN /\ locked[k] \in NO_TICKETS..TEN_MINUTES_LEFT
  BY DEF TimerInv, KindRight
<1>2. InfoOK(u) /\ u.left = ticketinfo[k].left
      /\ u.b = IF ticketinfo[k].b # "none" /\ ticketinfo[k].left = 0 THEN "expired" ELSE ticketinfo[k].b
  BY <1>1, TimeDoes
<1> HIDE DEF u
<1>3. Agrees(k, u, status[k], v5.tgt) /\ Quieted(k, u, warned[k], locked[k], boxed[k], v5.tgt)
  BY <1>1, <1>2 DEF Agrees, Quieted
<1> QED BY <1>1, <1>2, <1>3 DEF KindRight, OnlyTime, u

(* The timer starts a renewal, and warns of nothing.                       *)
LEMMA RenewsKeep ==
  ASSUME TimerInv, StartsRenewal PROVE TimerInv'
<1>1. Apart /\ Shaped(ticketinfo) /\ Shaped(status) /\ Shaped(warned) /\ Shaped(locked) /\ Shaped(boxed)
      /\ (~UseKrb4 => status["krb4"] = NO_TICKETS) /\ \A k \in Kind : Right(k)
  BY InvParts
<1>2. Apart' /\ boxed' = boxed /\ v5' = v5
  BY <1>1 DEF StartsRenewal, Apart, caches, TicketsTypeOK
<1>3. \A k \in Kind : SectionRight(k, ticketinfo[k], Sections[k])
  BY SectionDoes DEF Sections
<1>4. ASSUME NEW k \in Kind
      PROVE  LET r == Sections[k]
             IN  KindRight(k, r.i, r.s, r.w, r.l, boxed[k], v5.tgt) /\ (~UseKrb4 /\ k = "krb4" => r.s = status[k])
  <2> DEFINE r == Sections[k]  now == r.s > NO_TICKETS /\ r.s < TWENTY_MINUTES_LEFT /\ ~r.w
  <2>1. SectionRight(k, ticketinfo[k], r)
    BY <1>3
  <2>2. ~UseKrb4 /\ k = "krb4" => r.s = status[k]
    BY <2>1 DEF SectionRight
  <2> HIDE DEF r
  <2>3. KindRight(k, r.i, r.s, r.w, r.l, boxed[k], v5.tgt)
    BY <2>1, WarningDoes
  <2> QED BY <2>2, <2>3 DEF r
<1>5. \E f : /\ Write(f)
             /\ \A k \in Kind : LET r == f[k]
                               IN  /\ KindRight(k, r.i, r.s, r.w, r.l, boxed[k], v5.tgt)
                                   /\ ~UseKrb4 /\ k = "krb4" => r.s = status[k]
  <2>1. CASE Write(Sections)
    BY <1>4, <2>1
  <2>2. CASE Write([Sections EXCEPT !["krb4"] = OnlyTime("krb4")])
    <3> DEFINE f == [Sections EXCEPT !["krb4"] = OnlyTime("krb4")]
    <3>1. f["krb4"] = OnlyTime("krb4") /\ f["krb5"] = Sections["krb5"]
      BY DEF Sections, Kind
    <3> HIDE DEF f
    <3>2. LET r == f["krb4"]
          IN  KindRight("krb4", r.i, r.s, r.w, r.l, boxed["krb4"], v5.tgt) /\ r.s = status["krb4"]
      BY <3>1, OnlyTimeRight DEF Kind
    <3>3. \A k \in Kind : LET r == f[k]
                          IN  /\ KindRight(k, r.i, r.s, r.w, r.l, boxed[k], v5.tgt)
                              /\ ~UseKrb4 /\ k = "krb4" => r.s = status[k]
      BY <1>4, <3>1, <3>2 DEF Kind
    <3> QED BY <2>2, <3>3 DEF f
  <2> QED BY <2>1, <2>2 DEF StartsRenewal
<1>6. PICK f : /\ Write(f)
               /\ \A k \in Kind : LET r == f[k]
                                 IN  /\ KindRight(k, r.i, r.s, r.w, r.l, boxed[k], v5.tgt)
                                     /\ ~UseKrb4 /\ k = "krb4" => r.s = status[k]
  BY <1>5
<1>7. /\ ticketinfo' = [k \in Kind |-> f[k].i] /\ status' = [k \in Kind |-> f[k].s]
      /\ warned' = [k \in Kind |-> f[k].w] /\ locked' = [k \in Kind |-> f[k].l]
  BY <1>6 DEF Write
<1>8. ASSUME NEW k \in Kind PROVE Right(k)'
  BY <1>2, <1>6, <1>7 DEF Right
<1>9. Shaped(ticketinfo') /\ Shaped(status') /\ Shaped(warned') /\ Shaped(locked')
  BY <1>7 DEF Shaped
<1>10. ~UseKrb4 => status'["krb4"] = NO_TICKETS
  BY <1>1, <1>6, <1>7 DEF Kind
<1> QED BY <1>1, <1>2, <1>8, <1>9, <1>10 DEF TimerInv, Apart, Right, Shaped

(* The timer warns of nothing it has warned of.                             *)
LEMMA WarnsKeep ==
  ASSUME TimerInv, WarnsUser
  PROVE  /\ TimerInv'
         /\ \A k \in Kind : Warns(Sections, k) => Case(Sections[k].i, Sections[k].s) \notin boxed[k]
<1> DEFINE r(k) == Sections[k]
           now == {k \in Kind : Warns(Sections, k)}
           said(k) == Case(r(k).i, r(k).s)
           f == [k \in Kind |-> [Sections[k] EXCEPT !.w = @ \/ k \in now]]
<1>1. Apart /\ Shaped(ticketinfo) /\ Shaped(status) /\ Shaped(warned) /\ Shaped(locked) /\ Shaped(boxed)
      /\ (~UseKrb4 => status["krb4"] = NO_TICKETS) /\ \A k \in Kind : Right(k)
  BY InvParts
<1>2. /\ Write(f)
      /\ boxed' = [k \in Kind |-> IF k \in now THEN boxed[k] \cup {said(k)} ELSE boxed[k]]
  BY DEF WarnsUser
<1>3. Apart' /\ v5' = v5
  BY <1>1 DEF WarnsUser, TimerEnds, Apart, caches, TicketsTypeOK
<1>4. \A k \in Kind : SectionRight(k, ticketinfo[k], r(k))
  BY SectionDoes DEF Sections
<1>5. \A k \in Kind : k \in now <=> r(k).s > NO_TICKETS /\ r(k).s < TWENTY_MINUTES_LEFT /\ ~r(k).w
  BY DEF Warns
<1>6. \A k \in Kind : f[k] = [r(k) EXCEPT !.w = @ \/ k \in now]
  BY Zenon
<1> HIDE DEF r, now
<1>7. ASSUME NEW k \in Kind
      PROVE  /\ KindRight(k, r(k).i, r(k).s, r(k).w, r(k).l, boxed[k], v5.tgt)
             /\ k \in now => /\ said(k) \notin boxed[k]
                             /\ KindRight(k, r(k).i, r(k).s, TRUE, r(k).l, boxed[k] \cup {said(k)}, v5.tgt)
  <2>1. SectionRight(k, ticketinfo[k], r(k)) /\ (k \in now <=> r(k).s > NO_TICKETS /\ r(k).s < TWENTY_MINUTES_LEFT /\ ~r(k).w)
    BY <1>4, <1>5
  <2> DEFINE n == k \in now  q == r(k)
  <2>2. SectionRight(k, ticketinfo[k], q) /\ (n <=> q.s > NO_TICKETS /\ q.s < TWENTY_MINUTES_LEFT /\ ~q.w)
    BY <2>1
  <2> HIDE DEF n, q
  <2>3. /\ KindRight(k, q.i, q.s, q.w, q.l, boxed[k], v5.tgt)
        /\ n => /\ Case(q.i, q.s) \notin boxed[k]
                /\ KindRight(k, q.i, q.s, TRUE, q.l, boxed[k] \cup {Case(q.i, q.s)}, v5.tgt)
    BY <2>2, WarningDoes
  <2> QED BY <2>3 DEF n, q
<1> HIDE DEF said
<1>8. ASSUME NEW k \in Kind
      PROVE  /\ f[k].i = r(k).i /\ f[k].s = r(k).s /\ f[k].l = r(k).l
             /\ k \in now => f[k].w = TRUE
             /\ k \notin now => f[k].w = r(k).w
  <2> DEFINE v == r(k).w \/ k \in now
  <2>1. DOMAIN r(k) = {"i", "s", "w", "l"} /\ r(k).w \in BOOLEAN
    BY <1>4 DEF SectionRight
  <2>2. (k \in now => v = TRUE) /\ (k \notin now => v = r(k).w)
    BY <2>1, Zenon
  <2>3. f[k] = [r(k) EXCEPT !.w = v]
    BY <1>6
  <2> HIDE DEF v, f
  <2>4. f[k].i = r(k).i /\ f[k].s = r(k).s /\ f[k].l = r(k).l /\ f[k].w = v
    BY <2>1, <2>3
  <2> QED BY <2>2, <2>4, Zenon
<1> HIDE DEF f
<1>9. /\ ticketinfo' = [k \in Kind |-> f[k].i] /\ status' = [k \in Kind |-> f[k].s]
      /\ warned' = [k \in Kind |-> f[k].w] /\ locked' = [k \in Kind |-> f[k].l]
  BY <1>2 DEF Write
<1>10. ASSUME NEW k \in Kind PROVE Right(k)'
  <2>1. ticketinfo'[k] = r(k).i /\ status'[k] = r(k).s /\ warned'[k] = f[k].w /\ locked'[k] = r(k).l
    BY <1>8, <1>9
  <2>2. CASE k \in now
    <3>1. warned'[k] = TRUE /\ boxed'[k] = boxed[k] \cup {said(k)}
      BY <1>2, <1>8, <2>1, <2>2
    <3>2. KindRight(k, r(k).i, r(k).s, TRUE, r(k).l, boxed[k] \cup {said(k)}, v5.tgt)
      BY <1>7, <2>2
    <3> QED BY <1>3, <2>1, <3>1, <3>2, Zenon DEF Right
  <2>3. CASE k \notin now
    <3>1. warned'[k] = r(k).w /\ boxed'[k] = boxed[k]
      BY <1>2, <1>8, <2>1, <2>3
    <3> QED BY <1>3, <1>7, <2>1, <3>1, Zenon DEF Right
  <2> QED BY <2>2, <2>3
<1>11. Shaped(ticketinfo') /\ Shaped(status') /\ Shaped(warned') /\ Shaped(locked') /\ Shaped(boxed')
  BY <1>2, <1>9 DEF Shaped
<1>12. ~UseKrb4 => status'["krb4"] = NO_TICKETS
  <2>1. ~UseKrb4 => r("krb4").s = status["krb4"]
    BY <1>4 DEF SectionRight, Kind
  <2> QED BY <1>1, <1>8, <1>9, <2>1 DEF Kind
<1>13. TimerInv'
  BY <1>3, <1>10, <1>11, <1>12 DEF TimerInv, Apart, Right, Shaped
<1>14. \A k \in Kind : Warns(Sections, k) => Case(Sections[k].i, Sections[k].s) \notin boxed[k]
  BY <1>7 DEF r, now, said
<1> QED BY <1>13, <1>14

(* At the start nothing is displayed and nothing was warned of.            *)
LEMMA InitTimer == TimerInit => TimerInv
<1> SUFFICES ASSUME TimerInit PROVE TimerInv
  OBVIOUS
<1>1. Apart
  <2>1. NoV5 \in [princ : Principal \cup {NoOne}, tgt : BOOLEAN, left : 0..MaxLife] /\ NoV4 \in 0..NoV4
    BY TicketAssumption DEF NoV5, NoV4
  <2> QED BY <2>1 DEF TimerInit, TicketsInit, Apart, TicketsTypeOK
<1>2. InfoOK([b |-> "none", left |-> 0, princ |-> NoOne])
  BY TicketAssumption DEF InfoOK, Left
<1>3. ASSUME NEW k \in Kind PROVE Right(k)
  <2> DEFINE i == [b |-> "none", left |-> 0, princ |-> NoOne]
  <2>1. InfoOK(i) /\ (i.b = "expired" => i.left = 0)
    BY <1>2
  <2>2. ticketinfo[k] = i /\ status[k] = NO_TICKETS /\ ~warned[k] /\ warned[k] = FALSE /\ locked[k] = NO_TICKETS /\ boxed[k] = {}
    BY DEF TimerInit
  <2>3. NO_TICKETS \in NO_TICKETS..TEN_MINUTES_LEFT
    BY Numbers
  <2> HIDE DEF i
  <2>4. KindRight(k, i, NO_TICKETS, FALSE, NO_TICKETS, {}, v5.tgt)
    BY <2>1, <2>3, ClearedRight
  <2> QED BY <2>2, <2>4 DEF Right
<1>4. Shaped(ticketinfo) /\ Shaped(status) /\ Shaped(warned) /\ Shaped(locked) /\ Shaped(boxed)
      /\ status["krb4"] = NO_TICKETS
  BY DEF TimerInit, Shaped, Kind
<1> QED BY <1>1, <1>3, <1>4, InvParts

(* A step of anything else leaves all of it.                                *)
LEMMA OthersKeepTimer ==
  ASSUME TimerInv, \/ WarningCloses \/ InitBegins \/ InitCancelled \/ OnAutoRenew \/ UNCHANGED timerVars
  PROVE  TimerInv'
<1>1. CASE OnAutoRenew
  <2>1. UNCHANGED <<caches, place, request, sent, shown, warned, locked, boxed>>
    BY <1>1 DEF OnAutoRenew
  <2> QED BY <2>1 DEF TimerInv, caches, shown, TicketsTypeOK
<1>2. CASE WarningCloses
  <2>1. UNCHANGED <<caches, request, sent, shown, timerFlags, boxed>> /\ place' \in {"idle", "update"}
    BY <1>2 DEF WarningCloses, TimerEnds
  <2> QED BY <2>1 DEF TimerInv, caches, shown, timerFlags, TicketsTypeOK
<1>3. CASE InitBegins \/ InitCancelled
  <2>1. UNCHANGED <<caches, place, sent, shown, timerFlags, boxed>> /\ request' \in {"none", "ask"}
    BY <1>3 DEF InitBegins, InitCancelled
  <2> QED BY <2>1 DEF TimerInv, caches, shown, timerFlags, TicketsTypeOK
<1>4. CASE UNCHANGED timerVars
  BY <1>4 DEF timerVars, TimerInv, caches, shown, timerFlags, TicketsTypeOK
<1> QED BY <1>1, <1>2, <1>3, <1>4

(* Every step keeps the invariant.                                         *)
LEMMA TimerStep == TimerInv /\ [TimerNext]_timerVars => TimerInv'
  BY RenewsKeep, WarnsKeep, UpdatesKeep, RenewSucceedsKeeps, RenewFailsKeeps, InitSetsKeeps, DestroyKeeps,
     TickKeeps, OthersKeepTimer DEF TimerNext

\* TimerTypeOK: what is displayed and what was warned of keep to the steps of
\* GetLowTicketStatus, whatever requests do to the data of the timer.
THEOREM TimerTypeCorrect == TimerSpec => []TimerTypeOK
<1>1. TimerInv => TimerTypeOK
  BY DEF TimerInv, TimerTypeOK, KindRight, InfoOK, Left
<1> QED BY <1>1, InitTimer, TimerStep, PTL DEF TimerSpec

\* WarnsOnce: the user is not warned twice of the same thing while the same
\* tickets last, although the locks outlive the tickets they were set for and
\* each warning may take back the flag of the one before.
THEOREM WarnsOnceOnly == TimerSpec => WarnsOnce
<1>1. TimerInv /\ [TimerNext]_timerVars =>
        [WarnsUser => \A k \in Kind :
           Warns(Sections, k) => Case(Sections[k].i, Sections[k].s) \notin boxed[k]]_timerVars
  BY WarnsKeep
<1> QED BY <1>1, InitTimer, TimerStep, PTL DEF TimerSpec, WarnsOnce
====
