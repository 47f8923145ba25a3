---- MODULE LeashView ----
(***************************************************************************)
(* The threads of the Leash ticket manager (leash32/LeashView.cpp and       *)
(* Leash.cpp): the user interface thread with its commands and its timer,   *)
(* the worker threads that get, import and renew tickets, the two mutexes   *)
(* (m_tgsReqMutex around ticket requests, ticketinfo.lockObj around what is *)
(* displayed), and the mutex of the password dialog.                        *)
(*                                                                          *)
(* `job[t]' is the function thread t runs, `pc[t]' where it is.  A stretch   *)
(* of code under lockObj that calls no library is one step; a library call  *)
(* is a step with the mutexes held that the code holds around it.  A thread *)
(* that AfxBeginThread starts as the last act of another takes its place.   *)
(* Of the tickets only the Kerberos 5 ones are followed, and not their age: *)
(* LeashTimer has both.                                                     *)
(***************************************************************************)
EXTENDS LeashTickets

CONSTANTS
  ui, Worker,   \* the user interface thread; threads for AfxBeginThread (a bound)
  Nobody,       \* the owner of a free mutex
  Command       \* the commands the user gives (a bound)

ASSUME ViewAssumption ==
  /\ ui \notin Worker /\ Nobody \notin Worker \cup {ui}
  /\ Command \subseteq {"init", "import", "renew", "changepwd", "destroy", "menu", "exit"}

VARIABLES
  job, pc,
  who,         \* whose ticket the KDC gave to the thread
  tgs, lockObj, dlg,    \* m_tgsReqMutex, ticketinfo.lockObj, Leash_Dialog_Mutex
  info,        \* ticketinfo.Krb5: btickets and principal
  attempted, imported   \* m_autoRenewalAttempted, m_importedTickets

locks == <<tgs, lockObj, dlg>>
flags == <<attempted, imported>>
vars == <<caches, job, pc, who, locks, info, flags>>

Thread == Worker \cup {ui}
Job == {"init", "import", "renew", "worker", "obtain", "tgt", "changepwd", "destroy", "menu", "exit", "timer"}

(* Where a thread holds m_tgsReqMutex, lockObj, and the mutex of the dialog. *)
TgsPlace == {"read", "held", "ms2mit", "ms2mitStore", "get", "renewInit", "renewStore",
             "renewed", "notRenewed", "renewedHeld", "notRenewedHeld", "set", "look", "choose"}
LockPlace == {"held", "renewedHeld", "notRenewedHeld", "obtainHeld"}
DialogPlace == {"dialog", "kinit", "kinitStore", "kinitDone"}
(* Where a thread waits for the user; the user interface thread then runs a *)
(* message loop, as it does when idle.                                      *)
UserPlace == {"dialog", "ask", "confirm", "box"}
(* Where a thread does the rest of what it does with no mutex.              *)
FreePlace == {"idle", "start", "begin", "dialogWait", "dialogOther", "pretended", "shown", "yes", "no",
              "send", "refresh", "check", "flags", "obtainNone", "obtainSome", "forget", "exiting", "gone"}
Place == TgsPlace \cup LockPlace \cup DialogPlace \cup UserPlace \cup FreePlace

Running == pc[ui] # "gone"
Pumping == pc[ui] \in UserPlace \cup {"idle"}
At(t, p) == Running /\ pc[t] = p
Goto(t, p) == pc' = [pc EXCEPT ![t] = p] /\ UNCHANGED job
Done(t) == Goto(t, "idle")

Init ==
  /\ v5 \in {NoV5} \cup [princ: Principal, tgt: {TRUE}, left: {MaxLife}] /\ v4 = NoV4
  /\ job = [t \in Thread |-> "timer"] /\ pc = [t \in Thread |-> IF t = ui THEN "start" ELSE "idle"]
  /\ who = [t \in Thread |-> NoOne]
  /\ tgs = Nobody /\ lockObj = Nobody /\ dlg = Nobody
  /\ info = [b |-> "none", left |-> 0, princ |-> NoOne]
  /\ attempted = FALSE /\ imported = FALSE

Takes(t) == tgs = Nobody /\ tgs' = t /\ UNCHANGED <<lockObj, dlg>>
Drops == tgs' = Nobody /\ UNCHANGED <<lockObj, dlg>>
Locks(t) == lockObj = Nobody /\ lockObj' = t /\ UNCHANGED <<tgs, dlg>>
Free == lockObj = Nobody
Quiet == UNCHANGED <<info, flags>>

(* AfxBeginThread: a worker that is free runs j.                            *)
Starts(w, j, uiPlace) ==
  /\ w \in Worker /\ pc[w] = "idle"
  /\ pc' = [pc EXCEPT ![ui] = uiPlace, ![w] = "begin"] /\ job' = [job EXCEPT ![w] = j]
(* AfxBeginThread as the last act of thread t.  Nobody looks whether the     *)
(* thread could be created.                                                 *)
Becomes(t, j) ==
  \/ t \in Worker /\ pc' = [pc EXCEPT ![t] = "begin"] /\ job' = [job EXCEPT ![t] = j]
  \/ t = ui /\ \E w \in Worker : Starts(w, j, "idle")
  \/ t = ui /\ (\A w \in Worker : pc[w] # "idle") /\ Done(t)

(* CLeashApp::InitInstance.  Tickets are imported before there are other     *)
(* threads; without any, InitWorker is started.                             *)
InitInstance ==
  /\ At(ui, "start")
  /\ info' = Found5(v5, info)
  /\ \/ /\ v5.tgt /\ Done(ui) /\ UNCHANGED <<caches, imported>>
     \/ /\ ~v5.tgt /\ imported' = TRUE
        /\ v5' = [princ |-> Lsa, tgt |-> TRUE, left |-> MaxLife] /\ UNCHANGED v4
        /\ Goto(ui, "refresh")
     \/ /\ ~v5.tgt /\ UNCHANGED <<caches, imported>>
        /\ \E w \in Worker : Starts(w, "worker", "idle")
  /\ UNCHANGED <<who, locks, attempted>>

(***************************************************************************)
(* Refreshing the display, from the thread itself or by SendMessage from a  *)
(* worker.  Without lockObj for 100 ms OnUpdateDisplay throws: the commands *)
(* that request tickets catch it, nothing else does.                        *)
(***************************************************************************)
Sends(t) ==
  /\ Running /\ pc[t] \in {"send", "refresh"}
  /\ t = ui \/ Pumping
AfterSend(t) ==
  CASE job[t] = "import" -> "check" [] job[t] = "destroy" -> "forget" [] OTHER -> "idle"
(* Mutant: the cache is not read again.                                     *)
OnUpdateDisplayStale(t) ==
  /\ Sends(t) /\ Free
  /\ Goto(t, AfterSend(t))
  /\ UNCHANGED <<caches, who, locks, info, flags>>

OnUpdateDisplay(t) ==
  /\ Sends(t) /\ Free
  /\ info' = Found5(v5, info)
  /\ Goto(t, AfterSend(t))
  /\ UNCHANGED <<caches, who, locks, flags>>
(* A command of the user interface thread that requests tickets is over; a   *)
(* message handled in the message loop has nobody to catch the exception.   *)
UpdateThrows(t) ==
  /\ Sends(t) /\ lockObj \notin {Nobody, t}
  /\ IF t = ui /\ job[ui] \in {"init", "import", "renew"}
     THEN Done(ui)
     ELSE pc' = [pc EXCEPT ![ui] = "gone", ![t] = AfterSend(t)] /\ UNCHANGED job
  /\ UNCHANGED <<caches, who, locks>> /\ Quiet

(***************************************************************************)
(* The password dialog (Leash_kinit_dlg_ex).                                *)
(***************************************************************************)
(* The mutex exists as long as a thread has it open.  Another thread's       *)
(* dialog is waited for, after which this one is taken to have been shown   *)
(* and to have succeeded.  Dialogs belong to the window of Leash, and go    *)
(* with it.                                                                 *)
Exists == dlg # Nobody \/ \E t \in Thread : pc[t] = "dialogOther"
DialogOpens(t) ==
  /\ At(t, "dialogWait") /\ ~Exists /\ pc[ui] # "exiting"
  /\ dlg' = t /\ Goto(t, "dialog")
  /\ UNCHANGED <<caches, who, tgs, lockObj>> /\ Quiet
DialogIsAnothers(t) ==
  /\ At(t, "dialogWait") /\ Exists
  /\ Goto(t, "dialogOther")
  /\ UNCHANGED <<caches, who, locks>> /\ Quiet
AfterDialog(t) ==
  CASE job[t] \in {"worker", "tgt"} -> "send" [] job[t] \in {"obtain", "changepwd"} -> "idle" [] OTHER -> "shown"
DialogPretends(t) ==
  /\ At(t, "dialogOther") /\ dlg = Nobody
  /\ Goto(t, AfterDialog(t))
  /\ UNCHANGED <<caches, who, locks>> /\ Quiet
(* The user gives up, or changes the password, which touches no cache.      *)
(* InitWorker and OnObtainTGTWithParam refresh the display in any case.     *)
DialogCancelled(t) ==
  /\ At(t, "dialog") /\ dlg' = Nobody
  /\ Goto(t, IF job[t] \in {"worker", "tgt"} THEN "send" ELSE "idle")
  /\ UNCHANGED <<caches, who, tgs, lockObj>> /\ Quiet
(* A password gets a ticket for p, which Leash_krb5_kinit stores with no     *)
(* mutex but the dialog's.  Without a ticket the dialog stays.              *)
GetsPassword(t, p) ==
  /\ At(t, "dialog") /\ job[t] # "changepwd" /\ pc[ui] # "exiting"
  /\ who' = [who EXCEPT ![t] = p] /\ Goto(t, "kinit")
  /\ UNCHANGED <<caches, locks>> /\ Quiet
(* Mutant: what the KDC gave is kept when the cache cannot be emptied.      *)
KinitInitializesKeeps(t) ==
  /\ At(t, "kinit")
  /\ \/ Initialize5(who[t]) /\ Goto(t, "kinitStore") /\ who' = [who EXCEPT ![t] = NoOne]
     \/ UNCHANGED <<caches, who>> /\ Goto(t, "dialog")
  /\ UNCHANGED locks /\ Quiet

KinitInitializes(t) ==
  /\ At(t, "kinit")
  /\ \/ Initialize5(who[t]) /\ Goto(t, "kinitStore")
     \/ UNCHANGED caches /\ Goto(t, "dialog")
  /\ who' = [who EXCEPT ![t] = NoOne] /\ UNCHANGED locks /\ Quiet
KinitStores(t) ==
  /\ At(t, "kinitStore")
  /\ \/ Store5 /\ Goto(t, "kinitDone")
     \/ UNCHANGED caches /\ Goto(t, "dialog")
  /\ UNCHANGED <<who, locks>> /\ Quiet
KinitEnds(t) ==
  /\ At(t, "kinitDone")
  /\ dlg' = Nobody /\ Goto(t, AfterDialog(t))
  /\ UNCHANGED <<caches, who, tgs, lockObj>> /\ Quiet

(***************************************************************************)
(* InitTicket.                                                              *)
(***************************************************************************)
InitTicket(t) ==
  /\ At(t, "begin") /\ job[t] = "init" /\ Takes(t)
  /\ imported' = FALSE
  /\ Goto(t, "read")
  /\ UNCHANGED <<caches, who, info, attempted>>
(* The principal is read, and both mutexes are let go before the dialog.    *)
InitReads(t) ==
  /\ At(t, "read") /\ job[t] = "init" /\ Free
  /\ Drops /\ Goto(t, "dialogWait")
  /\ UNCHANGED <<caches, who>> /\ Quiet
InitShown(t) ==
  /\ At(t, "shown") /\ Takes(t)
  /\ Goto(t, "set")
  /\ UNCHANGED <<caches, who>> /\ Quiet
InitSets(t) ==
  /\ At(t, "set") /\ job[t] = "init" /\ Free
  /\ attempted' = FALSE
  /\ Drops /\ Goto(t, "send")
  /\ UNCHANGED <<caches, who, info, imported>>

(***************************************************************************)
(* Importing the Windows tickets (Leash_import, Leash_ms2mit): the default  *)
(* cache is emptied and the tickets copied to it.                           *)
(***************************************************************************)
(* Leash_import answers 0 if that fails, which is not the -1 that           *)
(* ImportTicket tests for, and which ObtainTicketsViaUserIfNeeded heeds.     *)
ImportFails(t) == IF job[t] = "import" THEN Goto(t, "set") /\ UNCHANGED locks ELSE Done(t) /\ Drops
ImportInitializes(t) ==
  /\ At(t, "ms2mit")
  /\ \/ Initialize5(Lsa) /\ Goto(t, "ms2mitStore") /\ UNCHANGED locks
     \/ UNCHANGED caches /\ ImportFails(t)
  /\ UNCHANGED who /\ Quiet
ImportStores(t) ==
  /\ At(t, "ms2mitStore")
  /\ \/ /\ Store5
        /\ IF job[t] = "import" THEN Goto(t, "set") /\ UNCHANGED <<locks, imported>>
           ELSE Done(t) /\ Drops /\ imported' = TRUE
     \/ UNCHANGED <<caches, imported>> /\ ImportFails(t)
  /\ UNCHANGED <<who, info, attempted>>

ImportTicket(t) ==
  /\ At(t, "begin") /\ job[t] = "import" /\ Takes(t)
  /\ Goto(t, "read")
  /\ UNCHANGED <<caches, who>> /\ Quiet
(* Mutant: this way out forgets m_tgsReqMutex.                              *)
ImportFindsNoneLocked(t) ==
  /\ At(t, "read") /\ job[t] = "import" /\ Done(t)
  /\ UNCHANGED <<caches, who, locks>> /\ Quiet

(* There is no Windows ticket.                                              *)
ImportFindsNone(t) ==
  /\ At(t, "read") /\ job[t] = "import" /\ Drops /\ Done(t)
  /\ UNCHANGED <<caches, who>> /\ Quiet
ImportReads(t) ==
  /\ At(t, "read") /\ job[t] = "import" /\ Locks(t)
  /\ Goto(t, "held")
  /\ UNCHANGED <<caches, who>> /\ Quiet
(* Tickets of somebody else are replaced only if the user agrees.           *)
ImportJudges(t) ==
  /\ At(t, "held")
  /\ info' = Found5(v5, info)
  /\ lockObj' = Nobody /\ UNCHANGED dlg
  /\ IF info'.princ # Lsa /\ info'.b # "none"
     THEN tgs' = Nobody /\ Goto(t, "ask")
     ELSE UNCHANGED tgs /\ Goto(t, "ms2mit")
  /\ UNCHANGED <<caches, who, flags>>
ImportAnswered(t) ==
  /\ At(t, "ask")
  /\ Goto(t, "yes") \/ Goto(t, "no")
  /\ UNCHANGED <<caches, who, locks>> /\ Quiet
ImportRefused(t) ==
  /\ At(t, "no") /\ tgs = Nobody /\ Done(t)
  /\ UNCHANGED <<caches, who, locks>> /\ Quiet
ImportAgreed(t) ==
  /\ At(t, "yes") /\ Takes(t) /\ Destroy
  /\ Goto(t, "ms2mit")
  /\ UNCHANGED who /\ Quiet
(* Mutant: the display is refreshed before m_tgsReqMutex is let go.         *)
ImportSetsLocked(t) ==
  /\ At(t, "set") /\ job[t] = "import" /\ Free
  /\ info' = [info EXCEPT !.b = "good"]
  /\ Goto(t, "send")
  /\ UNCHANGED <<caches, who, locks, flags>>

ImportSets(t) ==
  /\ At(t, "set") /\ job[t] = "import" /\ Free
  /\ info' = [info EXCEPT !.b = "good"]
  /\ Drops /\ Goto(t, "send")
  /\ UNCHANGED <<caches, who, flags>>
(* Once the display was refreshed, the thread looks whether there are        *)
(* tickets, and asks for a password if not.                                 *)
ImportChecks(t) ==
  /\ At(t, "check") /\ Takes(t)
  /\ Goto(t, "look")
  /\ UNCHANGED <<caches, who>> /\ Quiet
ImportLooks(t) ==
  /\ At(t, "look") /\ Free /\ Drops
  /\ IF info.b = "good" THEN Goto(t, "flags") ELSE Becomes(t, "init")
  /\ UNCHANGED <<caches, who>> /\ Quiet
ImportFlags(t) ==
  /\ At(t, "flags") /\ Done(t)
  /\ imported' = TRUE /\ attempted' = FALSE
  /\ UNCHANGED <<caches, who, locks, info>>

(***************************************************************************)
(* Renewing (LeashKRB5_renew): the KDC renews what the cache holds; then    *)
(* the cache is emptied and the new ticket stored.                          *)
(***************************************************************************)
(* ObtainTicketsViaUserIfNeeded ends, or shows the dialog; RenewTicket goes  *)
(* on to see what the cache holds.                                          *)
Renewed(t) == IF job[t] = "renew" THEN Goto(t, "renewed") /\ UNCHANGED locks ELSE Done(t) /\ Drops
NotRenewed(t) ==
  IF job[t] = "renew" THEN Goto(t, "notRenewed") /\ UNCHANGED locks ELSE Goto(t, "dialogWait") /\ Drops
RenewTicket(t) ==
  /\ At(t, "begin") /\ job[t] = "renew" /\ Takes(t)
  /\ Goto(t, "get")
  /\ UNCHANGED <<caches, who>> /\ Quiet
RenewGets(t) ==
  /\ At(t, "get")
  /\ \/ HasV5 /\ who' = [who EXCEPT ![t] = v5.princ] /\ Goto(t, "renewInit") /\ UNCHANGED locks
     \/ UNCHANGED who /\ NotRenewed(t)
  /\ UNCHANGED caches /\ Quiet
RenewInitializes(t) ==
  /\ At(t, "renewInit")
  /\ \/ Initialize5(who[t]) /\ Goto(t, "renewStore") /\ UNCHANGED locks
     \/ UNCHANGED caches /\ NotRenewed(t)
  /\ who' = [who EXCEPT ![t] = NoOne] /\ Quiet
RenewStores(t) ==
  /\ At(t, "renewStore")
  /\ \/ Store5 /\ Renewed(t)
     \/ UNCHANGED caches /\ NotRenewed(t)
  /\ UNCHANGED who /\ Quiet
RenewReads(t) ==
  /\ Running /\ pc[t] \in {"renewed", "notRenewed"} /\ Locks(t)
  /\ Goto(t, IF pc[t] = "renewed" THEN "renewedHeld" ELSE "notRenewedHeld")
  /\ UNCHANGED <<caches, who>> /\ Quiet
DropsBoth == tgs' = Nobody /\ lockObj' = Nobody /\ UNCHANGED dlg
(* Mutant: the display is refreshed before m_tgsReqMutex is let go.         *)
RenewSucceedsLocked(t) ==
  /\ At(t, "renewedHeld") /\ HasV5
  /\ info' = Found5(v5, info)
  /\ attempted' = FALSE
  /\ lockObj' = Nobody /\ UNCHANGED <<tgs, dlg>> /\ Goto(t, "send")
  /\ UNCHANGED <<caches, who, imported>>

RenewSucceeds(t) ==
  /\ At(t, "renewedHeld") /\ HasV5
  /\ info' = Found5(v5, info)
  /\ attempted' = FALSE
  /\ DropsBoth /\ Goto(t, "send")
  /\ UNCHANGED <<caches, who, imported>>
(* Otherwise a ticket of the Windows principal is imported again, and for    *)
(* any other a password is asked for.                                       *)
RenewFails(t) ==
  /\ At(t, "notRenewedHeld") \/ (At(t, "renewedHeld") /\ ~HasV5)
  /\ info' = Found5(v5, info)
  /\ imported' \in {imported, imported \/ info'.princ = Lsa}
  /\ DropsBoth
  /\ Becomes(t, IF imported' THEN "import" ELSE "init")
  /\ UNCHANGED <<caches, who, attempted>>

(***************************************************************************)
(* InitWorker, and ObtainTicketsViaUserIfNeeded after a change of address.  *)
(***************************************************************************)
(* ProbeKDC may find no KDC.                                                *)
InitWorker(t) ==
  /\ At(t, "begin") /\ job[t] = "worker" /\ tgs = Nobody
  /\ Goto(t, "dialogWait") \/ Done(t)
  /\ UNCHANGED <<caches, who, locks>> /\ Quiet
AddressChanges(t) ==
  /\ t \in Worker /\ At(ui, "idle") /\ Starts(t, "obtain", "idle")
  /\ UNCHANGED <<caches, who, locks>> /\ Quiet
ObtainLocks(t) ==
  /\ At(t, "begin") /\ job[t] = "obtain" /\ Locks(t)
  /\ Goto(t, "obtainHeld")
  /\ UNCHANGED <<caches, who>> /\ Quiet
ObtainReads(t) ==
  /\ At(t, "obtainHeld")
  /\ info' = Found5(v5, info)
  /\ lockObj' = Nobody /\ UNCHANGED <<tgs, dlg>>
  /\ Goto(t, IF info'.b = "none" THEN "obtainNone" ELSE "obtainSome")
  /\ UNCHANGED <<caches, who, flags>>
(* Windows tickets are imported if there are none, or were imported before; *)
(* else, if a KDC answers, tickets are renewed or a password asked for.      *)
ObtainNone(t) ==
  /\ At(t, "obtainNone") /\ tgs = Nobody
  /\ \/ Goto(t, "ms2mit") /\ tgs' = t
     \/ (Goto(t, "dialogWait") \/ Done(t)) /\ UNCHANGED tgs
  /\ UNCHANGED <<caches, who, lockObj, dlg>> /\ Quiet
ObtainSome(t) ==
  /\ At(t, "obtainSome") /\ Takes(t)
  /\ Goto(t, "choose")
  /\ UNCHANGED <<caches, who>> /\ Quiet
ObtainChooses(t) ==
  /\ At(t, "choose")
  /\ \/ imported /\ Goto(t, "ms2mit") /\ UNCHANGED locks
     \/ Goto(t, "get") /\ UNCHANGED locks
     \/ Done(t) /\ Drops
  /\ UNCHANGED <<caches, who>> /\ Quiet

(***************************************************************************)
(* The timer, once a second (PreTranslateMessage).  When tickets are near   *)
(* their end it starts a renewal or shows a warning, and now and then       *)
(* refreshes the display.  Without lockObj for 100 ms it gives up.          *)
(***************************************************************************)
TimerRenews ==
  /\ At(ui, "idle") /\ Free /\ info.b # "none" /\ ~attempted
  /\ attempted' = TRUE
  /\ \E w \in Worker : Starts(w, "renew", "idle")
  /\ UNCHANGED <<caches, who, locks, info, imported>>
TimerWarns ==
  /\ At(ui, "idle") /\ Free /\ info.b # "none"
  /\ Goto(ui, "box")
  /\ UNCHANGED <<caches, who, locks>> /\ Quiet
BoxCloses ==
  /\ At(ui, "box") /\ Done(ui)
  /\ UNCHANGED <<caches, who, locks>> /\ Quiet
TimerRefreshes ==
  /\ At(ui, "idle") /\ Free
  /\ pc' = [pc EXCEPT ![ui] = "refresh"] /\ job' = [job EXCEPT ![ui] = "timer"]
  /\ UNCHANGED <<caches, who, locks>> /\ Quiet

(***************************************************************************)
(* Commands of the user.                                                    *)
(***************************************************************************)
UserCommand(j) ==
  /\ At(ui, "idle")
  /\ pc' = [pc EXCEPT ![ui] = "begin"] /\ job' = [job EXCEPT ![ui] = j]
  /\ UNCHANGED <<caches, who, locks>> /\ Quiet
(* The menu of the tray icon takes both mutexes, and OnUpdateImportTicket.   *)
OnTrayIcon ==
  /\ At(ui, "begin") /\ job[ui] = "menu" /\ tgs = Nobody /\ Free
  /\ Done(ui)
  /\ UNCHANGED <<caches, who, locks>> /\ Quiet
(* The principal is read, and lockObj let go before the dialog.             *)
OnChangePassword ==
  /\ At(ui, "begin") /\ job[ui] = "changepwd" /\ Free
  /\ Goto(ui, "dialogWait")
  /\ UNCHANGED <<caches, who, locks>> /\ Quiet
OnDestroyTicket ==
  /\ At(ui, "begin") /\ job[ui] = "destroy" /\ Free
  /\ Goto(ui, IF info.b # "none" THEN "confirm" ELSE "forget")
  /\ UNCHANGED <<caches, who, locks>> /\ Quiet
DestroyConfirmed ==
  /\ At(ui, "confirm")
  /\ \/ Destroy /\ Goto(ui, "send")
     \/ UNCHANGED caches /\ Goto(ui, "forget")
  /\ UNCHANGED <<who, locks>> /\ Quiet
Forgets ==
  /\ At(ui, "forget") /\ Done(ui)
  /\ imported' = FALSE /\ attempted' = FALSE
  /\ UNCHANGED <<caches, who, locks, info>>
(* OnDestroy with m_destroyTicketsOnExit, then the end of the process.       *)
OnDestroy ==
  /\ At(ui, "begin") /\ job[ui] = "exit" /\ Free
  /\ IF info.b # "none" THEN Destroy ELSE UNCHANGED caches
  /\ Goto(ui, "exiting")
  /\ UNCHANGED <<who, locks>> /\ Quiet
Ends ==
  /\ At(ui, "exiting") /\ Goto(ui, "gone")
  /\ UNCHANGED <<caches, who, locks>> /\ Quiet

(***************************************************************************)
(* OnObtainTGTWithParam: another program asks for tickets by a message.     *)
(***************************************************************************)
OnObtainTGTWithParam ==
  /\ At(ui, "idle")
  /\ pc' = [pc EXCEPT ![ui] = "dialogWait"] /\ job' = [job EXCEPT ![ui] = "tgt"]
  /\ UNCHANGED <<caches, who, locks>> /\ Quiet
(* Under the thread's own dialog, whose mutex the thread has, the message    *)
(* finds the mutex open, gets it again, and only refreshes the display.      *)
ObtainTGTUnderDialog ==
  /\ At(ui, "dialog")
  /\ \/ Free /\ info' = Found5(v5, info) /\ UNCHANGED pc
     \/ ~Free /\ pc' = [pc EXCEPT ![ui] = "gone"] /\ UNCHANGED info
  /\ UNCHANGED <<caches, job, who, locks, flags>>

(***************************************************************************)
(* The next-state relation.                                                 *)
(***************************************************************************)
InitStep(t) == InitTicket(t) \/ InitReads(t) \/ InitShown(t) \/ InitSets(t) \/ InitWorker(t)
DialogStep(t) ==
  \/ DialogOpens(t) \/ DialogIsAnothers(t) \/ DialogPretends(t)
  \/ KinitInitializes(t) \/ KinitStores(t) \/ KinitEnds(t)
ImportStep(t) ==
  \/ ImportTicket(t) \/ ImportFindsNone(t) \/ ImportReads(t) \/ ImportJudges(t) \/ ImportRefused(t)
  \/ ImportAgreed(t) \/ ImportInitializes(t) \/ ImportStores(t) \/ ImportSets(t)
  \/ ImportChecks(t) \/ ImportLooks(t) \/ ImportFlags(t)
RenewStep(t) ==
  \/ RenewTicket(t) \/ RenewGets(t) \/ RenewInitializes(t) \/ RenewStores(t)
  \/ RenewReads(t) \/ RenewSucceeds(t) \/ RenewFails(t)
ObtainStep(t) == ObtainLocks(t) \/ ObtainReads(t) \/ ObtainNone(t) \/ ObtainSome(t) \/ ObtainChooses(t)
Requests(t) ==
  \/ InitStep(t) \/ DialogStep(t) \/ ImportStep(t) \/ RenewStep(t) \/ ObtainStep(t)
  \/ OnUpdateDisplay(t) \/ UpdateThrows(t)
Answers(t) == DialogCancelled(t) \/ (\E p \in Principal : GetsPassword(t, p)) \/ ImportAnswered(t)
UiStep == InitInstance \/ Requests(ui) \/ OnTrayIcon \/ OnChangePassword \/ OnDestroyTicket \/ Forgets \/ OnDestroy \/ Ends
Outside ==
  \/ TimerRenews \/ TimerWarns \/ BoxCloses \/ DestroyConfirmed
  \/ OnObtainTGTWithParam \/ ObtainTGTUnderDialog
  \/ \E j \in Command : UserCommand(j)
  \/ \E t \in Worker : AddressChanges(t)

Next ==
  \/ UiStep \/ TimerRefreshes \/ Outside
  \/ \E t \in Worker : Requests(t)
  \/ \E t \in Thread : Answers(t)

Spec == Init /\ [][Next]_vars
(* Threads that may go on do, mutexes and the message loop serve who waits   *)
(* long enough, and the timer ticks.  The user need not do anything.        *)
Fairness ==
  /\ SF_vars(UiStep) /\ SF_vars(TimerRefreshes)
  /\ \A t \in Worker : SF_vars(Requests(t))
FairSpec == Spec /\ Fairness

(***************************************************************************)
(* Properties.                                                              *)
(***************************************************************************)
\* Type invariant: threads are at places of their jobs, the mutexes belong to
\* threads, and a thread has a KDC's ticket in hand exactly between getting it
\* and emptying the cache for it (krb5routines.c:774, 949).
LeashTypeOK ==
  /\ v5 \in [princ: Principal \cup {NoOne}, tgt: BOOLEAN, left: 0..MaxLife] /\ v4 = NoV4
  /\ job \in [Thread -> Job] /\ pc \in [Thread -> Place] /\ who \in [Thread -> Principal \cup {NoOne}]
  /\ {tgs, lockObj, dlg} \subseteq Thread \cup {Nobody}
  /\ info \in [b: {"none", "expired", "good"}, left: 0..MaxLife, princ: Principal \cup {NoOne}]
  /\ attempted \in BOOLEAN /\ imported \in BOOLEAN
  /\ \A t \in Thread : (who[t] # NoOne) = (pc[t] \in {"kinit", "renewInit"})

\* Each mutex is held exactly while its owner is at a place that is to be
\* under it: every way out of a request, the failing ones included, lets it go,
\* and no thread sends a message, asks the user or ends with a mutex.
MutexesHeldInPlace ==
  Running => \A t \in Thread :
    /\ (tgs = t) = (pc[t] \in TgsPlace)
    /\ (lockObj = t) = (pc[t] \in LockPlace)
    /\ (dlg = t) = (pc[t] \in DialogPlace)

\* The user interface always comes back to its message loop, unless it waits
\* for the dialog of another thread: no request of a worker keeps it waiting for
\* a mutex for ever, and no worker waits for it while it waits for the worker.
UiComesBack == []<>(~Running \/ Pumping \/ pc[ui] = "dialogOther")

\* What a worker started comes to its end or to the user.
RequestsEnd ==
  \A t \in Worker :
    pc[t] = "begin" ~> (~Running \/ pc[t] \in UserPlace \cup {"idle", "dialogOther"} \/ pc[ui] = "dialogOther")

\* Once nobody requests anything, what is displayed is what the cache holds.
Still == (\A t \in Worker : pc[t] = "idle") /\ job[ui] = "timer" /\ pc[ui] \in {"idle", "refresh"}
Shown == (info.b # "none") = HasV5 /\ (HasV5 => info.princ = v5.princ)
DisplayCatchesUp == <>[]Still => <>[]Shown
====
