------------------------- MODULE CCacheClient_proofs -------------------------
(***************************************************************************)
(* For any processes, threads and number of servers: the locks of the      *)
(* client DLL are held where the code holds them, a process connects once  *)
(* at a time, and the startup event wakes a client only when a server got  *)
(* to listen.                                                              *)
(***************************************************************************)
EXTENDS CCacheClient, TLAPS

(* An event that is set was set by a server that got to listen.            *)
SetByServer ==
  event.signalled => \E i \in Server : server[i] \in { "up", "stopped", "ended", "crashed" }

(* ClientTypeOK is inductive; OneConnects follows from it, and             *)
(* WakesToServer from SetByServer, which needs the type of the event.      *)
ClientInv == ClientTypeOK /\ SetByServer

(* The ways out of Connect keep the types: the failed attempt              *)
LEMMA FailsKeepsValues ==
  ASSUME ClientValues, NEW t \in Thread, Fails(t), UNCHANGED <<ctx, server>>,
         event' \in [signalled : BOOLEAN, holders : SUBSET (Thread \cup Server)]
  PROVE  ClientValues'
BY ClientAssumption
   DEF Fails, Goto, Unlock, Forget, Unmap, ClientValues, Place, Connecting, Detaching, P, Challenge, Other

(* and the one that succeeds.                                              *)
LEMMA SucceedsKeepsValues ==
  ASSUME ClientValues, NEW t \in Thread, Succeeds(t), UNCHANGED <<ctx, server, event>>
  PROVE  ClientValues'
<1> USE ClientAssumption DEF ClientValues, Place, Detaching, After, P
<1>1. CASE via[t] = "reconnect"
  BY <1>1 DEF Succeeds, Goto, Unlock, Forget, Unmap, Challenge, Other
<1>2. CASE via[t] # "reconnect"
  BY <1>2 DEF Succeeds, Goto, Unlock, Forget, Unmap, Challenge, Other
<1> QED BY <1>1, <1>2

(* A handle that is let go leaves an event.                                *)
LEMMA LetGoKeepsEvent ==
  ASSUME ClientValues, NEW who \in SUBSET (Thread \cup Server), LetGo(who)
  PROVE  event' \in [signalled : BOOLEAN, holders : SUBSET (Thread \cup Server)]
BY DEF LetGo, ClientValues

(* Every step keeps the types.                                             *)
LEMMA KeepsValues ==
  ASSUME ClientValues, WordIsMapped, [Next]_vars
  PROVE  ClientValues'
<1> USE ClientAssumption
    DEF ClientValues, WordIsMapped, Place, Phase, Connecting, Mapping, Detaching, After, P, Challenge, Other,
        NoServer
<1>1. ASSUME NEW t \in Thread, CallInitialize(t) PROVE ClientValues'
  BY <1>1 DEF CallInitialize, Goto
<1>2. ASSUME NEW t \in Thread, CallUse(t) PROVE ClientValues'
  BY <1>2 DEF CallUse, Goto
<1>3. ASSUME NEW t \in Thread, Initialize(t) PROVE ClientValues'
  <2>1. CASE inited[P(t)] \/ bound[P(t)]
    <3>1. /\ inited' = [inited EXCEPT ![P(t)] = TRUE]
          /\ pc' = [pc EXCEPT ![t] = After(op[t])]
          /\ UNCHANGED <<lock, bound, via, op, response, mutex, ctx, server, event, counter>>
      BY <1>3, <2>1, Zenon DEF Initialize, Goto
    <3> QED BY <3>1
  <2>2. CASE ~(inited[P(t)] \/ bound[P(t)])
    <3>1. /\ lock' = [lock EXCEPT ![P(t)] = t]
          /\ bound' = [bound EXCEPT ![P(t)] = TRUE]
          /\ via' = [via EXCEPT ![t] = "init"]
          /\ pc' = [pc EXCEPT ![t] = "find"]
          /\ UNCHANGED <<inited, op, response, mutex, ctx, server, event, counter>>
      BY <1>3, <2>2, Zenon DEF Initialize, Goto
    <3> QED BY <3>1
  <2> QED BY <2>1, <2>2
<1>4. ASSUME NEW t \in Thread, FindServer(t) PROVE ClientValues'
  BY <1>4 DEF FindServer, Proceeds, Goto, Keeps
<1>5. ASSUME NEW t \in Thread, Launch(t) PROVE ClientValues'
  BY <1>5 DEF Launch, Proceeds, Goto, Keeps
<1>6. ASSUME NEW t \in Thread, LaunchFails(t) PROVE ClientValues'
  BY <1>6 DEF LaunchFails, Fails, Unlock, Goto, Forget, Unmap
<1>7. ASSUME NEW t \in Thread, WakeUp(t) PROVE ClientValues'
  BY <1>7 DEF WakeUp, Proceeds, Goto, Keeps
<1>8. ASSUME NEW t \in Thread, TimedOut(t) PROVE ClientValues'
  BY <1>8 DEF TimedOut, Proceeds, Goto, Keeps
<1>9. ASSUME NEW t \in Thread, Recheck(t) PROVE ClientValues'
  <2>1. event' \in [signalled : BOOLEAN, holders : SUBSET (Thread \cup Server)]
    BY <1>9, LetGoKeepsEvent DEF Recheck
  <2>2. CASE Listening
    BY <1>9, <2>1, <2>2 DEF Recheck, Proceeds, Goto, Keeps
  <2>3. CASE ~Listening
    <3>1. Fails(t) /\ UNCHANGED <<ctx, server>>
      BY <1>9, <2>3, Zenon DEF Recheck
    <3> QED BY <2>1, <3>1, FailsKeepsValues
  <2> QED BY <2>2, <2>3
<1>10. ASSUME NEW t \in Thread, WriteChallenge(t) PROVE ClientValues'
  BY <1>10 DEF WriteChallenge, Proceeds, Goto
<1>11. ASSUME NEW t \in Thread, Ask(t) PROVE ClientValues'
  <2>1. CASE Listening
    BY <1>11, <2>1 DEF Ask, Proceeds, Goto
  <2>2. CASE ~Listening
    <3>1. Fails(t) /\ UNCHANGED <<ctx, server, event>>
      BY <1>11, <2>2, Zenon DEF Ask
    <3> QED BY <3>1, FailsKeepsValues
  <2> QED BY <2>1, <2>2
<1>12. ASSUME NEW t \in Thread, Add(t) PROVE ClientValues'
  <2>1. CASE Listening
    <3>1. response[t] \in 17 .. 19
      BY <1>12 DEF Add
    <3>2. PlusOne(response[t]) \in 17 .. 19
      BY <3>1 DEF PlusOne
    <3> QED BY <1>12, <2>1, <3>2 DEF Add, Proceeds, Goto
  <2>2. CASE ~Listening
    <3>1. Fails(t) /\ UNCHANGED <<ctx, server, event>>
      BY <1>12, <2>2, Zenon DEF Add
    <3> QED BY <3>1, FailsKeepsValues
  <2> QED BY <2>1, <2>2
<1>13. ASSUME NEW t \in Thread, Verify(t) PROVE ClientValues'
  <2>1. CASE Genuine(t)
    <3>1. Succeeds(t) /\ UNCHANGED <<ctx, server, event>>
      BY <1>13, <2>1, Zenon DEF Verify
    <3> QED BY <3>1, SucceedsKeepsValues
  <2>2. CASE ~Genuine(t)
    <3>1. Fails(t) /\ UNCHANGED <<ctx, server, event>>
      BY <1>13, <2>2, Zenon DEF Verify
    <3> QED BY <3>1, FailsKeepsValues
  <2> QED BY <2>1, <2>2
<1>14. ASSUME NEW t \in Thread, TakeMutex(t) PROVE ClientValues'
  BY <1>14 DEF TakeMutex, Goto
<1>15. ASSUME NEW t \in Thread, TakeLock(t) PROVE ClientValues'
  BY <1>15 DEF TakeLock, Goto
<1>16. ASSUME NEW t \in Thread, Answered(t) PROVE ClientValues'
  <2>1. ctx' \in [Process -> Server \cup {NoServer}]
    BY <1>16 DEF Answered, Up
  <2> QED BY <1>16, <2>1 DEF Answered, Returns, Goto, Unlock, Forget
<1>17. ASSUME NEW t \in Thread, OtherException(t) PROVE ClientValues'
  BY <1>17 DEF OtherException, Returns, Goto, Unlock, Forget
<1>18. ASSUME NEW t \in Thread, Reconnect(t) PROVE ClientValues'
  BY <1>18 DEF Reconnect, Goto
<1>19. ASSUME NEW p \in Process, Kill(p) PROVE ClientValues'
  BY <1>19 DEF Kill, Unlock, LetGo, Unmap
<1>20. ASSUME NEW i \in Server, ServerOpensEvent(i) PROVE ClientValues'
  BY <1>20 DEF ServerOpensEvent, Reaches, ClientsUnchanged
<1>21. ASSUME NEW i \in Server, ServerTakesEndpoint(i) PROVE ClientValues'
  <2>1. event' \in [signalled : BOOLEAN, holders : SUBSET (Thread \cup Server)]
    <3>1. event' = event \/ LetGo({i})
      BY <1>21, Zenon DEF ServerTakesEndpoint
    <3> QED BY <3>1, LetGoKeepsEvent
  <2>2. server' \in [Server -> Phase]
    BY <1>21 DEF ServerTakesEndpoint, Reaches
  <2> QED BY <1>21, <2>1, <2>2 DEF ServerTakesEndpoint, ClientsUnchanged
<1>22. ASSUME NEW i \in Server, ServerListens(i) PROVE ClientValues'
  BY <1>22 DEF ServerListens, Reaches, ClientsUnchanged
<1>23. ASSUME NEW i \in Server, ServerSignals(i) PROVE ClientValues'
  BY <1>23 DEF ServerSignals, Reaches, ClientsUnchanged
<1>24. ASSUME NEW i \in Server, Crash(i) PROVE ClientValues'
  BY <1>24 DEF Crash, Reaches, LetGo, ClientsUnchanged
<1>25. ASSUME NEW t \in Thread, TakeStopLock(t) PROVE ClientValues'
  BY <1>25 DEF TakeStopLock, Goto
<1>26. ASSUME NEW t \in Thread, Stop(t) PROVE ClientValues'
  BY <1>26 DEF Stop, Goto, Unlock, Forget, Up
<1>27. ASSUME NEW t \in Thread, FreeLibrary(t) PROVE ClientValues'
  BY <1>27 DEF FreeLibrary, Goto
<1>28. ASSUME NEW t \in Thread, ExitProcess(t) PROVE ClientValues'
  BY <1>28 DEF ExitProcess, Unlock, Unmap
<1>29. ASSUME NEW t \in Thread, TakeDetachMutex(t) PROVE ClientValues'
  BY <1>29 DEF TakeDetachMutex, Goto
<1>30. ASSUME NEW t \in Thread, Cleanup(t) PROVE ClientValues'
  <2>1. event' \in [signalled : BOOLEAN, holders : SUBSET (Thread \cup Server)]
    <3>1. event' = event \/ LetGo({ s \in Thread : P(s) = P(t) })
      BY <1>30, Zenon DEF Cleanup
    <3>2. { s \in Thread : P(s) = P(t) } \in SUBSET (Thread \cup Server)
      OBVIOUS
    <3> QED BY <3>1, <3>2, LetGoKeepsEvent
  <2>2. pc' \in [Thread -> Place]
    BY <1>30 DEF Cleanup, Goto
  <2> QED BY <1>30, <2>1, <2>2 DEF Cleanup, Forget
<1>31. ASSUME NEW i \in Server, ServerEnds(i) PROVE ClientValues'
  BY <1>31 DEF ServerEnds, Reaches, LetGo, ClientsUnchanged
<1>32. CASE UNCHANGED vars
  BY <1>32 DEF vars
<1> QED
  BY <1>1, <1>2, <1>3, <1>4, <1>5, <1>6, <1>7, <1>8, <1>9, <1>10, <1>11, <1>12, <1>13,
     <1>14, <1>15, <1>16, <1>17, <1>18, <1>19, <1>20, <1>21, <1>22, <1>23, <1>24, <1>25,
     <1>26, <1>27, <1>28, <1>29, <1>30, <1>31, <1>32
     DEF Next, Connect, Rpc, Waits, ServerStep

(* Every step moves a thread and the locks it holds together.              *)
LEMMA KeepsHolders ==
  ASSUME ClientValues, HoldersInPlace, [Next]_vars
  PROVE  HoldersInPlace'
<1> USE ClientAssumption
    DEF ClientValues, HoldersInPlace, Connecting, Mapping, Detaching, After, P, Place
<1>1. ASSUME NEW t \in Thread, CallInitialize(t) PROVE HoldersInPlace'
  BY <1>1 DEF CallInitialize, Goto
<1>2. ASSUME NEW t \in Thread, CallUse(t) PROVE HoldersInPlace'
  BY <1>2 DEF CallUse, Goto
<1>3. ASSUME NEW t \in Thread, Initialize(t) PROVE HoldersInPlace'
  BY <1>3 DEF Initialize, Goto
<1>4. ASSUME NEW t \in Thread, FindServer(t) PROVE HoldersInPlace'
  BY <1>4 DEF FindServer, Proceeds, Goto, Keeps
<1>5. ASSUME NEW t \in Thread, Launch(t) PROVE HoldersInPlace'
  BY <1>5 DEF Launch, Proceeds, Goto, Keeps
<1>6. ASSUME NEW t \in Thread, LaunchFails(t) PROVE HoldersInPlace'
  BY <1>6 DEF LaunchFails, Fails, Unlock, Goto, Forget, Unmap
<1>7. ASSUME NEW t \in Thread, WakeUp(t) PROVE HoldersInPlace'
  BY <1>7 DEF WakeUp, Proceeds, Goto, Keeps
<1>8. ASSUME NEW t \in Thread, TimedOut(t) PROVE HoldersInPlace'
  BY <1>8 DEF TimedOut, Proceeds, Goto, Keeps
<1>9. ASSUME NEW t \in Thread, Recheck(t) PROVE HoldersInPlace'
  BY <1>9 DEF Recheck, Proceeds, Goto, Keeps, Fails, Unlock, Forget, Unmap, LetGo
<1>10. ASSUME NEW t \in Thread, WriteChallenge(t) PROVE HoldersInPlace'
  BY <1>10 DEF WriteChallenge, Proceeds, Goto
<1>11. ASSUME NEW t \in Thread, Ask(t) PROVE HoldersInPlace'
  BY <1>11 DEF Ask, Proceeds, Goto, Fails, Unlock, Forget, Unmap
<1>12. ASSUME NEW t \in Thread, Add(t) PROVE HoldersInPlace'
  BY <1>12 DEF Add, Proceeds, Goto, Fails, Unlock, Forget, Unmap, PlusOne
<1>13. ASSUME NEW t \in Thread, Verify(t) PROVE HoldersInPlace'
  BY <1>13 DEF Verify, Fails, Succeeds, Unlock, Goto, Forget, Unmap
<1>14. ASSUME NEW t \in Thread, TakeMutex(t) PROVE HoldersInPlace'
  BY <1>14 DEF TakeMutex, Goto
<1>15. ASSUME NEW t \in Thread, TakeLock(t) PROVE HoldersInPlace'
  BY <1>15 DEF TakeLock, Goto
<1>16. ASSUME NEW t \in Thread, Answered(t) PROVE HoldersInPlace'
  BY <1>16 DEF Answered, Returns, Goto, Unlock, Forget
<1>17. ASSUME NEW t \in Thread, OtherException(t) PROVE HoldersInPlace'
  BY <1>17 DEF OtherException, Returns, Goto, Unlock, Forget
<1>18. ASSUME NEW t \in Thread, Reconnect(t) PROVE HoldersInPlace'
  BY <1>18 DEF Reconnect, Goto
<1>19. ASSUME NEW p \in Process, Kill(p) PROVE HoldersInPlace'
  BY <1>19 DEF Kill, Unlock, LetGo, Unmap
<1>20. ASSUME NEW i \in Server, ServerOpensEvent(i) PROVE HoldersInPlace'
  BY <1>20 DEF ServerOpensEvent, Reaches, ClientsUnchanged
<1>21. ASSUME NEW i \in Server, ServerTakesEndpoint(i) PROVE HoldersInPlace'
  BY <1>21 DEF ServerTakesEndpoint, Reaches, LetGo, ClientsUnchanged
<1>22. ASSUME NEW i \in Server, ServerListens(i) PROVE HoldersInPlace'
  BY <1>22 DEF ServerListens, Reaches, ClientsUnchanged
<1>23. ASSUME NEW i \in Server, ServerSignals(i) PROVE HoldersInPlace'
  BY <1>23 DEF ServerSignals, Reaches, ClientsUnchanged
<1>24. ASSUME NEW i \in Server, Crash(i) PROVE HoldersInPlace'
  BY <1>24 DEF Crash, Reaches, LetGo, ClientsUnchanged
<1>25. ASSUME NEW t \in Thread, TakeStopLock(t) PROVE HoldersInPlace'
  BY <1>25 DEF TakeStopLock, Goto
<1>26. ASSUME NEW t \in Thread, Stop(t) PROVE HoldersInPlace'
  BY <1>26 DEF Stop, Goto, Unlock, Forget, Up
<1>27. ASSUME NEW t \in Thread, FreeLibrary(t) PROVE HoldersInPlace'
  BY <1>27 DEF FreeLibrary, Goto
<1>28. ASSUME NEW t \in Thread, ExitProcess(t) PROVE HoldersInPlace'
  BY <1>28 DEF ExitProcess, Unlock, Unmap
<1>29. ASSUME NEW t \in Thread, TakeDetachMutex(t) PROVE HoldersInPlace'
  BY <1>29 DEF TakeDetachMutex, Goto
<1>30. ASSUME NEW t \in Thread, Cleanup(t) PROVE HoldersInPlace'
  BY <1>30 DEF Cleanup, Goto, Forget, LetGo
<1>31. ASSUME NEW i \in Server, ServerEnds(i) PROVE HoldersInPlace'
  BY <1>31 DEF ServerEnds, Reaches, LetGo, ClientsUnchanged
<1>32. CASE UNCHANGED vars
  BY <1>32 DEF vars
<1> QED
  BY <1>1, <1>2, <1>3, <1>4, <1>5, <1>6, <1>7, <1>8, <1>9, <1>10, <1>11, <1>12, <1>13,
     <1>14, <1>15, <1>16, <1>17, <1>18, <1>19, <1>20, <1>21, <1>22, <1>23, <1>24, <1>25,
     <1>26, <1>27, <1>28, <1>29, <1>30, <1>31, <1>32
     DEF Next, Connect, Rpc, Waits, ServerStep

(* Every step keeps the word of a client that is being asked for it.       *)
LEMMA KeepsWord ==
  ASSUME ClientValues, WordIsMapped, [Next]_vars
  PROVE  WordIsMapped'
<1> USE ClientAssumption
    DEF ClientValues, WordIsMapped, Connecting, Mapping, Detaching, After, Challenge, Other
<1>1. ASSUME NEW t \in Thread, CallInitialize(t) PROVE WordIsMapped'
  BY <1>1 DEF CallInitialize, Goto
<1>2. ASSUME NEW t \in Thread, CallUse(t) PROVE WordIsMapped'
  BY <1>2 DEF CallUse, Goto
<1>3. ASSUME NEW t \in Thread, Initialize(t) PROVE WordIsMapped'
  BY <1>3 DEF Initialize, Goto
<1>4. ASSUME NEW t \in Thread, FindServer(t) PROVE WordIsMapped'
  BY <1>4 DEF FindServer, Proceeds, Goto, Keeps
<1>5. ASSUME NEW t \in Thread, Launch(t) PROVE WordIsMapped'
  BY <1>5 DEF Launch, Proceeds, Goto, Keeps
<1>6. ASSUME NEW t \in Thread, LaunchFails(t) PROVE WordIsMapped'
  BY <1>6 DEF LaunchFails, Fails, Unlock, Goto, Forget, Unmap
<1>7. ASSUME NEW t \in Thread, WakeUp(t) PROVE WordIsMapped'
  BY <1>7 DEF WakeUp, Proceeds, Goto, Keeps
<1>8. ASSUME NEW t \in Thread, TimedOut(t) PROVE WordIsMapped'
  BY <1>8 DEF TimedOut, Proceeds, Goto, Keeps
<1>9. ASSUME NEW t \in Thread, Recheck(t) PROVE WordIsMapped'
  BY <1>9 DEF Recheck, Proceeds, Goto, Keeps, Fails, Unlock, Forget, Unmap, LetGo
<1>10. ASSUME NEW t \in Thread, WriteChallenge(t) PROVE WordIsMapped'
  BY <1>10 DEF WriteChallenge, Proceeds, Goto
<1>11. ASSUME NEW t \in Thread, Ask(t) PROVE WordIsMapped'
  BY <1>11 DEF Ask, Proceeds, Goto, Fails, Unlock, Forget, Unmap
<1>12. ASSUME NEW t \in Thread, Add(t) PROVE WordIsMapped'
  BY <1>12 DEF Add, Proceeds, Goto, Fails, Unlock, Forget, Unmap, PlusOne
<1>13. ASSUME NEW t \in Thread, Verify(t) PROVE WordIsMapped'
  BY <1>13 DEF Verify, Fails, Succeeds, Unlock, Goto, Forget, Unmap
<1>14. ASSUME NEW t \in Thread, TakeMutex(t) PROVE WordIsMapped'
  BY <1>14 DEF TakeMutex, Goto
<1>15. ASSUME NEW t \in Thread, TakeLock(t) PROVE WordIsMapped'
  BY <1>15 DEF TakeLock, Goto
<1>16. ASSUME NEW t \in Thread, Answered(t) PROVE WordIsMapped'
  BY <1>16 DEF Answered, Returns, Goto, Unlock, Forget
<1>17. ASSUME NEW t \in Thread, OtherException(t) PROVE WordIsMapped'
  BY <1>17 DEF OtherException, Returns, Goto, Unlock, Forget
<1>18. ASSUME NEW t \in Thread, Reconnect(t) PROVE WordIsMapped'
  BY <1>18 DEF Reconnect, Goto
<1>19. ASSUME NEW p \in Process, Kill(p) PROVE WordIsMapped'
  BY <1>19 DEF Kill, Unlock, LetGo, Unmap
<1>20. ASSUME NEW i \in Server, ServerOpensEvent(i) PROVE WordIsMapped'
  BY <1>20 DEF ServerOpensEvent, Reaches, ClientsUnchanged
<1>21. ASSUME NEW i \in Server, ServerTakesEndpoint(i) PROVE WordIsMapped'
  BY <1>21 DEF ServerTakesEndpoint, Reaches, LetGo, ClientsUnchanged
<1>22. ASSUME NEW i \in Server, ServerListens(i) PROVE WordIsMapped'
  BY <1>22 DEF ServerListens, Reaches, ClientsUnchanged
<1>23. ASSUME NEW i \in Server, ServerSignals(i) PROVE WordIsMapped'
  BY <1>23 DEF ServerSignals, Reaches, ClientsUnchanged
<1>24. ASSUME NEW i \in Server, Crash(i) PROVE WordIsMapped'
  BY <1>24 DEF Crash, Reaches, LetGo, ClientsUnchanged
<1>25. ASSUME NEW t \in Thread, TakeStopLock(t) PROVE WordIsMapped'
  BY <1>25 DEF TakeStopLock, Goto
<1>26. ASSUME NEW t \in Thread, Stop(t) PROVE WordIsMapped'
  BY <1>26 DEF Stop, Goto, Unlock, Forget, Up
<1>27. ASSUME NEW t \in Thread, FreeLibrary(t) PROVE WordIsMapped'
  BY <1>27 DEF FreeLibrary, Goto
<1>28. ASSUME NEW t \in Thread, ExitProcess(t) PROVE WordIsMapped'
  BY <1>28 DEF ExitProcess, Unlock, Unmap
<1>29. ASSUME NEW t \in Thread, TakeDetachMutex(t) PROVE WordIsMapped'
  BY <1>29 DEF TakeDetachMutex, Goto
<1>30. ASSUME NEW t \in Thread, Cleanup(t) PROVE WordIsMapped'
  BY <1>30 DEF Cleanup, Goto, Forget, LetGo
<1>31. ASSUME NEW i \in Server, ServerEnds(i) PROVE WordIsMapped'
  BY <1>31 DEF ServerEnds, Reaches, LetGo, ClientsUnchanged
<1>32. CASE UNCHANGED vars
  BY <1>32 DEF vars
<1> QED
  BY <1>1, <1>2, <1>3, <1>4, <1>5, <1>6, <1>7, <1>8, <1>9, <1>10, <1>11, <1>12, <1>13,
     <1>14, <1>15, <1>16, <1>17, <1>18, <1>19, <1>20, <1>21, <1>22, <1>23, <1>24, <1>25,
     <1>26, <1>27, <1>28, <1>29, <1>30, <1>31, <1>32
     DEF Next, Connect, Rpc, Waits, ServerStep

(* Only a server that listens sets the event, and it stays known as one.   *)
LEMMA KeepsSetter ==
  ASSUME ClientValues, SetByServer, [Next]_vars
  PROVE  SetByServer'
<1> USE ClientAssumption DEF ClientValues, SetByServer, Phase
<1>1. ASSUME NEW t \in Thread, CallInitialize(t) PROVE SetByServer'
  BY <1>1 DEF CallInitialize, Goto
<1>2. ASSUME NEW t \in Thread, CallUse(t) PROVE SetByServer'
  BY <1>2 DEF CallUse, Goto
<1>3. ASSUME NEW t \in Thread, Initialize(t) PROVE SetByServer'
  BY <1>3 DEF Initialize, Goto
<1>4. ASSUME NEW t \in Thread, FindServer(t) PROVE SetByServer'
  BY <1>4 DEF FindServer, Proceeds, Goto, Keeps
<1>5. ASSUME NEW t \in Thread, Launch(t) PROVE SetByServer'
  BY <1>5 DEF Launch, Proceeds, Goto, Keeps
<1>6. ASSUME NEW t \in Thread, LaunchFails(t) PROVE SetByServer'
  BY <1>6 DEF LaunchFails, Fails, Unlock, Goto, Forget, Unmap
<1>7. ASSUME NEW t \in Thread, WakeUp(t) PROVE SetByServer'
  BY <1>7 DEF WakeUp, Proceeds, Goto, Keeps
<1>8. ASSUME NEW t \in Thread, TimedOut(t) PROVE SetByServer'
  BY <1>8 DEF TimedOut, Proceeds, Goto, Keeps
<1>9. ASSUME NEW t \in Thread, Recheck(t) PROVE SetByServer'
  BY <1>9 DEF Recheck, Proceeds, Goto, Keeps, Fails, Unlock, Forget, Unmap, LetGo
<1>10. ASSUME NEW t \in Thread, WriteChallenge(t) PROVE SetByServer'
  BY <1>10 DEF WriteChallenge, Proceeds, Goto
<1>11. ASSUME NEW t \in Thread, Ask(t) PROVE SetByServer'
  BY <1>11 DEF Ask, Proceeds, Goto, Fails, Unlock, Forget, Unmap
<1>12. ASSUME NEW t \in Thread, Add(t) PROVE SetByServer'
  BY <1>12 DEF Add, Proceeds, Goto, Fails, Unlock, Forget, Unmap, PlusOne
<1>13. ASSUME NEW t \in Thread, Verify(t) PROVE SetByServer'
  BY <1>13 DEF Verify, Fails, Succeeds, Unlock, Goto, Forget, Unmap
<1>14. ASSUME NEW t \in Thread, TakeMutex(t) PROVE SetByServer'
  BY <1>14 DEF TakeMutex, Goto
<1>15. ASSUME NEW t \in Thread, TakeLock(t) PROVE SetByServer'
  BY <1>15 DEF TakeLock, Goto
<1>16. ASSUME NEW t \in Thread, Answered(t) PROVE SetByServer'
  BY <1>16 DEF Answered, Returns, Goto, Unlock, Forget
<1>17. ASSUME NEW t \in Thread, OtherException(t) PROVE SetByServer'
  BY <1>17 DEF OtherException, Returns, Goto, Unlock, Forget
<1>18. ASSUME NEW t \in Thread, Reconnect(t) PROVE SetByServer'
  BY <1>18 DEF Reconnect, Goto
<1>19. ASSUME NEW p \in Process, Kill(p) PROVE SetByServer'
  BY <1>19 DEF Kill, Unlock, LetGo, Unmap
<1>20. ASSUME NEW i \in Server, ServerOpensEvent(i) PROVE SetByServer'
  BY <1>20 DEF ServerOpensEvent, Reaches, ClientsUnchanged
<1>21. ASSUME NEW i \in Server, ServerTakesEndpoint(i) PROVE SetByServer'
  BY <1>21 DEF ServerTakesEndpoint, Reaches, LetGo, ClientsUnchanged
<1>22. ASSUME NEW i \in Server, ServerListens(i) PROVE SetByServer'
  BY <1>22 DEF ServerListens, Reaches, ClientsUnchanged
<1>23. ASSUME NEW i \in Server, ServerSignals(i) PROVE SetByServer'
  BY <1>23 DEF ServerSignals, Reaches, ClientsUnchanged
<1>24. ASSUME NEW i \in Server, Crash(i) PROVE SetByServer'
  BY <1>24 DEF Crash, Reaches, LetGo, ClientsUnchanged
<1>25. ASSUME NEW t \in Thread, TakeStopLock(t) PROVE SetByServer'
  BY <1>25 DEF TakeStopLock, Goto
<1>26. ASSUME NEW t \in Thread, Stop(t) PROVE SetByServer'
  BY <1>26 DEF Stop, Goto, Unlock, Forget, Up
<1>27. ASSUME NEW t \in Thread, FreeLibrary(t) PROVE SetByServer'
  BY <1>27 DEF FreeLibrary, Goto
<1>28. ASSUME NEW t \in Thread, ExitProcess(t) PROVE SetByServer'
  BY <1>28 DEF ExitProcess, Unlock, Unmap
<1>29. ASSUME NEW t \in Thread, TakeDetachMutex(t) PROVE SetByServer'
  BY <1>29 DEF TakeDetachMutex, Goto
<1>30. ASSUME NEW t \in Thread, Cleanup(t) PROVE SetByServer'
  BY <1>30 DEF Cleanup, Goto, Forget, LetGo
<1>31. ASSUME NEW i \in Server, ServerEnds(i) PROVE SetByServer'
  BY <1>31 DEF ServerEnds, Reaches, LetGo, ClientsUnchanged
<1>32. CASE UNCHANGED vars
  BY <1>32 DEF vars
<1> QED
  BY <1>1, <1>2, <1>3, <1>4, <1>5, <1>6, <1>7, <1>8, <1>9, <1>10, <1>11, <1>12, <1>13,
     <1>14, <1>15, <1>16, <1>17, <1>18, <1>19, <1>20, <1>21, <1>22, <1>23, <1>24, <1>25,
     <1>26, <1>27, <1>28, <1>29, <1>30, <1>31, <1>32
     DEF Next, Connect, Rpc, Waits, ServerStep

(* At first no one holds or has signalled anything.                        *)
LEMMA InitClient == Init => ClientInv
BY ClientAssumption
   DEF Init, ClientInv, ClientTypeOK, ClientValues, HoldersInPlace, WordIsMapped, SetByServer,
       Place, Phase, Connecting, Mapping, Detaching, P, Challenge, Other, NoServer

(* Every step keeps the invariant.                                         *)
LEMMA NextClient == ClientInv /\ [Next]_vars => ClientInv'
BY KeepsValues, KeepsHolders, KeepsWord, KeepsSetter DEF ClientInv, ClientTypeOK

(* The client DLL's locks, binding and shared word have their types, and   *)
(* every lock is held by a thread at a place where the code holds it:      *)
(* Initialize, the Connect it calls, MAKE_RPC_CALL and Reconnect leave no  *)
(* lock behind on any of their ways out.                                   *)
THEOREM ClientTypeCorrect == Spec => []ClientTypeOK
<1>1. ClientInv => ClientTypeOK
  BY DEF ClientInv
<1> QED BY InitClient, NextClient, <1>1, PTL DEF Spec

(* No connection is attempted twice at once in a process, nor while        *)
(* another of its threads has a call out.                                  *)
THEOREM ConnectsOnce == Spec => []OneConnects
<1>1. ClientInv => OneConnects
  BY DEF ClientInv, ClientTypeOK, HoldersInPlace, OneConnects, P
<1> QED BY InitClient, NextClient, <1>1, PTL DEF Spec

(* The startup event wakes a client only after a server got to listen.     *)
THEOREM WakesRight == Spec => WakesToServer
<1>1. ClientInv /\ [Next]_vars
        => [\A t \in Thread :
              WakeUp(t) => \E i \in Server : server[i] \in { "up", "stopped", "ended", "crashed" }]_vars
  BY DEF ClientInv, SetByServer, WakeUp
<1> QED BY InitClient, NextClient, <1>1, PTL DEF Spec, WakesToServer
=============================================================================
