---- MODULE LeashTimer ----
(***************************************************************************)
(* The timer of the Leash ticket manager (CLeashView::PreTranslateMessage): *)
(* once a second it looks at the time left of each kind of ticket, starts   *)
(* the automatic renewal, and warns the user when tickets run out.          *)
(*                                                                          *)
(* The timer runs on the user interface thread.  Of the other threads only  *)
(* what they do to the data of the timer is modelled here, each stretch     *)
(* under ticketinfo.lockObj as one step; LeashView models the threads, and *)
(* its actions have the names of the functions, and these have others, so   *)
(* that a module can extend both.                                          *)
(***************************************************************************)
EXTENDS LeashTickets

CONSTANT UpdateDisplayTime   \* UPDATE_DISPLAY_TIME: timer ticks between two refreshes

ASSUME TimerAssumption == UpdateDisplayTime \in Nat \ {0}

VARIABLES
  place,       \* of the user interface thread: idle, timer, box, update
  request,     \* of the thread that requests tickets: none, renew, ask
  sent,        \* a request is over, and its SendMessage not yet handled
  ticketinfo,  \* btickets, time left and principal of each kind
  status,      \* m_ticketStatusKrb5, m_ticketStatusKrb4
  warned,      \* m_warningOfTicketTimeLeftKrb5, ...Krb4
  locked,      \* m_warningOfTicketTimeLeftLockKrb5, ...Krb4
  renewalAttempted, autoRenew,   \* m_autoRenewalAttempted, the menu's choice
  count,       \* m_updateDisplayCount
  boxed        \* history: the cases each kind was warned of since its tickets came

shown == <<ticketinfo, status>>
timerFlags == <<warned, locked, renewalAttempted, autoRenew>>
timerVars == <<caches, place, request, sent, shown, timerFlags, count, boxed>>

Kind == {"krb5", "krb4"}

NO_TICKETS == 0
ZERO_MINUTES_LEFT == 1
FIVE_MINUTES_LEFT == 2
TEN_MINUTES_LEFT == 3
FIFTEEN_MINUTES_LEFT == 4
TWENTY_MINUTES_LEFT == 5
PLENTY_OF_TIME == 6


TimerInit ==
  /\ TicketsInit
  /\ place = "idle" /\ request = "none" /\ sent = FALSE
  /\ ticketinfo = [k \in Kind |-> [b |-> "none", left |-> 0, princ |-> NoOne]]
  /\ status = [k \in Kind |-> NO_TICKETS]
  /\ warned = [k \in Kind |-> FALSE] /\ locked = [k \in Kind |-> NO_TICKETS]
  /\ renewalAttempted = FALSE /\ autoRenew = TRUE
  /\ count = 0 /\ boxed = [k \in Kind |-> {}]

(* UpdateTicketTime, and GetLowTicketStatus right after it.                 *)
UpdateTicketTime(ti) == IF ti.b # "none" /\ ti.left = 0 THEN [ti EXCEPT !.b = "expired"] ELSE ti
(* Mutant: the steps are one too late, and there is no last one.            *)
GetLowTicketStatusLate(ti) == IF ti.b = "none" THEN NO_TICKETS ELSE ti.left + 2

GetLowTicketStatus(ti) ==
  IF ti.b = "none" THEN NO_TICKETS
  ELSE IF ti.left <= 4 THEN ti.left + 1 ELSE PLENTY_OF_TIME

(* OnUpdateDisplay, once it has lockObj: both caches are read again.        *)
DisplayReads ==
  LET new == [krb5 |-> UpdateTicketTime(Found5(v5', ticketinfo["krb5"])),
              krb4 |-> UpdateTicketTime(Found4(v4', ticketinfo["krb4"]))]
  IN  /\ ticketinfo' = [k \in Kind |-> new[k]]
      /\ status' = [k \in Kind |-> GetLowTicketStatus(new[k])]

(* New tickets begin a new history.                                         *)
ForgetsCases == boxed' = [k \in Kind |-> IF ticketinfo'[k].left > ticketinfo[k].left THEN {} ELSE boxed[k]]

(* Mutant: five minutes left clears the flag whatever the lock says.        *)
SectionForgets(k, ti) ==
  LET s == GetLowTicketStatus(ti)
      same == [i |-> ti, s |-> status[k], w |-> warned[k], l |-> locked[k]]
  IN  IF ti.b # "none" /\ s = FIVE_MINUTES_LEFT
      THEN [same EXCEPT !.i.b = "low", !.s = s, !.w = FALSE, !.l = s] ELSE same

(* The sections of the timer for one kind of ticket, on a record of the     *)
(* ticket's info, status, warned and locked.                                *)
Section(k, ti) ==
  LET u == UpdateTicketTime(ti)
      s == GetLowTicketStatus(u)
      same == [i |-> u, s |-> status[k], w |-> warned[k], l |-> locked[k]]
      low == [same EXCEPT !.i.b = "low", !.s = s]
  IN  CASE u.b = "none" -> same
        [] u.b = "expired" -> [same EXCEPT !.w = @ /\ locked[k] # NO_TICKETS, !.l = ZERO_MINUTES_LEFT]
        [] u.b # "expired" /\ k = "krb4" /\ ~UseKrb4 -> same
        [] OTHER ->
             CASE s = FIFTEEN_MINUTES_LEFT -> low
               [] s = TEN_MINUTES_LEFT -> [low EXCEPT !.w = @ /\ locked[k] # NO_TICKETS, !.l = s]
               [] s = FIVE_MINUTES_LEFT -> [low EXCEPT !.w = @ /\ locked[k] # TEN_MINUTES_LEFT, !.l = s]
               [] s = TWENTY_MINUTES_LEFT /\ k = "krb5" -> [same EXCEPT !.s = s]
               [] OTHER -> [same EXCEPT !.s = NO_TICKETS]

(* The case of a section that wrote the text of the warning.                *)
Case(ti, s) ==
  IF ti.b = "expired" THEN ZERO_MINUTES_LEFT
  ELSE IF ti.b = "none" THEN NO_TICKETS ELSE s

(***************************************************************************)
(* The timer (PreTranslateMessage).                                         *)
(***************************************************************************)
Sections == [k \in Kind |-> Section(k, ticketinfo[k])]
Write(r) ==
  /\ ticketinfo' = [k \in Kind |-> r[k].i] /\ status' = [k \in Kind |-> r[k].s]
  /\ warned' = [k \in Kind |-> r[k].w] /\ locked' = [k \in Kind |-> r[k].l]

(* Expired Kerberos 4 tickets beside good Kerberos 5 ones.  The section of  *)
(* Kerberos 4 is left before it writes anything but btickets.               *)
Renews4(r) ==
  r["krb4"].i.b = "expired" /\ r["krb5"].i.b \notin {"none", "expired"}
    /\ autoRenew /\ ~renewalAttempted /\ UseKrb4
Renews5(r) == r["krb5"].s = TWENTY_MINUTES_LEFT /\ autoRenew /\ ~renewalAttempted
OnlyTime(k) == [i |-> UpdateTicketTime(ticketinfo[k]), s |-> status[k], w |-> warned[k], l |-> locked[k]]

(* The renewal is started, and the timer begins again.  (A bound: one       *)
(* request at a time.  The code starts a second one, which waits.)          *)
StartsRenewal ==
  /\ place \in {"idle", "timer"}
  /\ \/ Renews4(Sections) /\ Write([Sections EXCEPT !["krb4"] = OnlyTime("krb4")])
     \/ ~Renews4(Sections) /\ Renews5(Sections) /\ Write(Sections)
  /\ renewalAttempted' = TRUE
  /\ request = "none" /\ request' = "renew" /\ place' = "timer"
  /\ UNCHANGED <<caches, sent, autoRenew, count, boxed>>

Warns(r, k) == r[k].s > NO_TICKETS /\ r[k].s < TWENTY_MINUTES_LEFT /\ ~r[k].w

(* The count goes up at the end, and a full count refreshes the display.    *)
TimerEnds ==
  IF count + 1 = UpdateDisplayTime THEN count' = 0 /\ place' = "update"
  ELSE count' = count + 1 /\ place' = "idle"

WarnsUser ==
  /\ place \in {"idle", "timer"}
  /\ ~Renews4(Sections) /\ ~Renews5(Sections)
  /\ LET now == {k \in Kind : Warns(Sections, k)}
     IN  /\ Write([k \in Kind |-> [Sections[k] EXCEPT !.w = @ \/ k \in now]])
         /\ boxed' = [k \in Kind |-> IF k \in now THEN boxed[k] \cup {Case(Sections[k].i, Sections[k].s)} ELSE boxed[k]]
         /\ IF now = {} THEN TimerEnds ELSE place' = "box" /\ UNCHANGED count
  /\ UNCHANGED <<caches, request, sent, renewalAttempted, autoRenew>>

(* The warning box is closed, and lockObj is taken again for the title.     *)
WarningCloses ==
  /\ place = "box"
  /\ TimerEnds
  /\ UNCHANGED <<caches, request, sent, shown, timerFlags, boxed>>


(***************************************************************************)
(* Refreshing the display, for the timer itself and for a request.          *)
(***************************************************************************)
Updates ==
  /\ \/ place = "update" /\ place' = "idle" /\ UNCHANGED sent
     \/ place \in {"idle", "box"} /\ sent /\ sent' = FALSE /\ UNCHANGED place
  /\ UNCHANGED caches
  /\ DisplayReads /\ ForgetsCases
  /\ UNCHANGED <<request, timerFlags, count>>

(***************************************************************************)
(* What requests do to the data of the timer.                               *)
(***************************************************************************)
(* New tickets clear the warnings, but not the locks.                       *)
ClearWarnings ==
  /\ warned' = [k \in Kind |-> FALSE] /\ status' = [k \in Kind |-> NO_TICKETS]
  /\ boxed' = [k \in Kind |-> {}]
  /\ renewalAttempted' = FALSE
  /\ UNCHANGED <<locked, autoRenew>>

NewTickets(results4) ==
  /\ v5' = [princ |-> Lsa, tgt |-> TRUE, left |-> MaxLife]
  /\ v4' \in IF UseKrb4 THEN results4 ELSE {v4}

(* RenewTicket: the tickets are renewed, or the user is asked for a password *)
(* with what a failed renewal left in the cache.                            *)
RenewalSucceeds ==
  /\ request = "renew" /\ request' = "none" /\ sent' = TRUE
  /\ NewTickets(Converted(v5', v4))
  /\ ticketinfo' = [ticketinfo EXCEPT !["krb5"] = Found5(v5', @), !["krb4"].b = "good"]
  /\ ClearWarnings
  /\ UNCHANGED <<place, count>>
RenewalFails ==
  /\ request = "renew" /\ request' = "ask"
  /\ v5' \in {v5, [v5 EXCEPT !.tgt = FALSE, !.left = 0]} /\ UNCHANGED v4
  /\ ticketinfo' = [ticketinfo EXCEPT !["krb5"] = Found5(v5', @)] /\ ForgetsCases
  /\ UNCHANGED <<place, sent, status, timerFlags, count>>

(* InitTicket, by the user or after a failed renewal.                       *)
InitBegins ==
  /\ request = "none" /\ place = "idle" /\ request' = "ask"
  /\ UNCHANGED <<caches, place, sent, shown, timerFlags, count, boxed>>
InitSucceeds ==
  /\ request = "ask" /\ request' = "none" /\ sent' = TRUE
  /\ NewTickets(Converted(v5', v4) \cup WithPassword4(v4))
  /\ ticketinfo' = [ticketinfo EXCEPT !["krb4"].b = "good"]
  /\ ClearWarnings
  /\ UNCHANGED <<place, count>>
InitCancelled ==
  /\ request = "ask" /\ request' = "none"
  /\ UNCHANGED <<caches, place, sent, shown, timerFlags, count, boxed>>

(* OnDestroyTicket, when the user agrees.  The display is refreshed by a    *)
(* message the same thread handles before it goes on.                       *)
DestroysTickets ==
  /\ place = "idle" /\ \E k \in Kind : ticketinfo[k].b # "none"
  /\ Destroy
  /\ DisplayReads /\ ForgetsCases
  /\ renewalAttempted' = FALSE
  /\ UNCHANGED <<place, request, sent, warned, locked, autoRenew, count>>

OnAutoRenew ==
  /\ place = "idle"
  /\ autoRenew' = ~autoRenew /\ renewalAttempted' = FALSE
  /\ UNCHANGED <<caches, place, request, sent, shown, warned, locked, count, boxed>>

(* Five minutes pass: not while a thread is in the middle of a request (a    *)
(* bound: requests take seconds).                                           *)
Tick ==
  /\ ~sent /\ request # "renew" /\ place \in {"idle", "box"}
  /\ Ages
  /\ ticketinfo' = [k \in Kind |-> [ticketinfo[k] EXCEPT !.left = IF @ > 0 THEN @ - 1 ELSE 0]]
  /\ UNCHANGED <<place, request, sent, status, timerFlags, count, boxed>>

TimerNext ==
  \/ StartsRenewal \/ WarnsUser \/ WarningCloses \/ Updates
  \/ RenewalSucceeds \/ RenewalFails \/ InitBegins \/ InitSucceeds \/ InitCancelled
  \/ DestroysTickets \/ OnAutoRenew \/ Tick

TimerSpec == TimerInit /\ [][TimerNext]_timerVars

(***************************************************************************)
(* Properties.                                                              *)
(***************************************************************************)
\* Type invariant: what is displayed and what was warned of keep to the steps of
\* GetLowTicketStatus (LeashView.cpp:252), of which the locks reach only those
\* of the warnings.
TimerTypeOK ==
  /\ TicketsTypeOK
  /\ place \in {"idle", "timer", "box", "update"} /\ request \in {"none", "renew", "ask"} /\ sent \in BOOLEAN
  /\ \A k \in Kind : ticketinfo[k].b \in {"none", "expired", "low", "good"} /\ ticketinfo[k].left \in 0..MaxLife
  /\ \A k \in Kind : status[k] \in NO_TICKETS..PLENTY_OF_TIME /\ locked[k] \in NO_TICKETS..TEN_MINUTES_LEFT

\* The user is not warned twice of the same thing while the same tickets last
\* (LeashView.cpp:110, "Prevents warning box from coming up repeatively").
WarnsOnce ==
  [][WarnsUser => \A k \in Kind :
       Warns(Sections, k) => Case(Sections[k].i, Sections[k].s) \notin boxed[k]]_timerVars
====
