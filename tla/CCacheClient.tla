---------------------------- MODULE CCacheClient ----------------------------
(***************************************************************************)
(* How the client DLL finds, starts and authenticates the credential cache *)
(* server, stops it, and lets go of it: krbcc/src/dll/client.cxx, the      *)
(* MAKE_RPC_CALL of cacheapi.cxx, testapi.cxx, dllmain.cxx, and            *)
(* startup_server of exe/server.cxx.  All processes of one login           *)
(* session share the mutex MIT_CCAPI_V2_MUTEX, the event "startup", the    *)
(* shared memory "auth" and the RPC endpoint, which one server can hold.   *)
(* A thread waits for the lock of its process (Client::sLock) and the      *)
(* mutex one step at a time; what it does under them may be interleaved    *)
(* with the threads of other processes, with servers and with crashes.     *)
(***************************************************************************)
EXTENDS Integers, FiniteSets

CONSTANTS
  Process, Thread,
  ProcessOf,        \* [Thread -> Process]
  Nobody,
  Stopper,          \* threads that may run shutdown_server, the server program's -k
  MaxServers        \* bound: server processes ever started

ASSUME ClientAssumption ==
  /\ ProcessOf \in [Thread -> Process]
  /\ Nobody \notin Thread
  /\ Stopper \subseteq Thread
  /\ MaxServers \in Nat

Server == 1 .. MaxServers
NoServer == 0
Challenge == 17
Other == Challenge + 2   \* bound: stands for every larger value of the shared word

(* A server process: not started yet; started; past OpenEvent; holding the *)
(* endpoint; listening; past SetEvent; ended because another held the      *)
(* endpoint; told to stop before SetEvent; after it; ended then; crashed.  *)
Phase == { "none", "started", "opened", "bound", "listening", "up", "lost",
           "stopping", "stopped", "ended", "crashed" }

Connecting == { "find", "launch", "wait", "recheck", "challenge", "ask", "add", "verify" }
Mapping == { "ask", "add", "verify" }
Detaching == { "detach", "cleanup" }
Place == { "idle", "initLock", "mutex", "lock", "rpc", "stopLock", "stop", "gone" }
           \cup Connecting \cup Detaching

VARIABLES
  pc,           \* where a thread is
  op,           \* its call: "initialize", "use" of a handle, "stop"; or "exit"
  via,          \* who called Connect: "init" or "reconnect"
  response,     \* what the server's Connect read, then answered (0: not asked)
  mutex, lock,  \* holders of the session's mutex and the processes' sLock
  inited,       \* s_init of each process
  bound,        \* ccapi_IfHandle # NULL
  ctx,          \* the server the process has context handles of
  server,       \* phase of each server process
  event,        \* [signalled, holders]: the auto-reset event "startup"
  counter       \* the DWORD in the shared memory "auth"

vars == <<pc, op, via, response, mutex, lock, inited, bound, ctx, server, event, counter>>

Up == { i \in Server : server[i] \in { "listening", "up" } }
Listening == Up # {}
P(t) == ProcessOf[t]

Init ==
  /\ pc = [t \in Thread |-> "idle"]
  /\ op = [t \in Thread |-> "initialize"]
  /\ via = [t \in Thread |-> "init"]
  /\ response = [t \in Thread |-> 0]
  /\ mutex = Nobody
  /\ lock = [p \in Process |-> Nobody]
  /\ inited = [p \in Process |-> FALSE]
  /\ bound = [p \in Process |-> FALSE]
  /\ ctx = [p \in Process |-> NoServer]
  /\ server = [i \in Server |-> "none"]
  /\ event = [signalled |-> FALSE, holders |-> {}]
  /\ counter = 0

Goto(t, place) == pc' = [pc EXCEPT ![t] = place]
Unlock(p)      == lock' = [lock EXCEPT ![p] = Nobody]

(* What a call left in its locals is forgotten when it is over.            *)
Forget(t) ==
  /\ op' = [op EXCEPT ![t] = "initialize"]
  /\ via' = [via EXCEPT ![t] = "init"]
  /\ response' = [response EXCEPT ![t] = 0]

(* The shared memory goes with its last mapping, the event with its last   *)
(* handle.                                                                 *)
Unmap(who) ==
  counter' = IF \E s \in Thread \ who : pc[s] \in Mapping THEN counter ELSE 0
LetGo(who) ==
  LET left == event.holders \ who
  IN  event' = [signalled |-> event.signalled /\ left # {}, holders |-> left]
----------------------------------------------------------------------------
(* No call is made of the DLL while it detaches.                           *)
Attached(p) == \A t \in Thread : P(t) = p => pc[t] \notin Detaching

(* Calls: cc_initialize and CCTEST check s_init without the lock, then make *)
(* their call, which for CCTEST is without the mutex.                      *)
After(call) == IF call = "stop" THEN "stopLock" ELSE "mutex"
CallInitialize(t) ==
  /\ pc[t] = "idle" /\ Attached(P(t))
  /\ \E call \in { "initialize" } \cup (IF t \in Stopper THEN { "stop" } ELSE {}) :
       /\ op' = [op EXCEPT ![t] = call]
       /\ Goto(t, IF inited[P(t)] THEN After(call) ELSE "initLock")
  /\ UNCHANGED <<via, response, mutex, lock, inited, bound, ctx, server, event, counter>>

CallUse(t) ==
  /\ pc[t] = "idle" /\ Attached(P(t))
  /\ ctx[P(t)] # NoServer
  /\ op' = [op EXCEPT ![t] = "use"]
  /\ Goto(t, "mutex")
  /\ UNCHANGED <<via, response, mutex, lock, inited, bound, ctx, server, event, counter>>

(* Mutant: Initialize does not take sLock.                                 *)
InitializeUnlocked(t) ==
  /\ pc[t] = "initLock"
  /\ via' = [via EXCEPT ![t] = "init"]
  /\ bound' = [bound EXCEPT ![P(t)] = TRUE]
  /\ Goto(t, "find")
  /\ UNCHANGED <<op, response, mutex, lock, inited, ctx, server, event, counter>>

(* Client::Initialize: under sLock; s_init is looked at again, and Connect *)
(* does nothing when there is a binding.                                   *)
Initialize(t) ==
  /\ pc[t] = "initLock"
  /\ lock[P(t)] = Nobody
  /\ IF inited[P(t)] \/ bound[P(t)]
     THEN /\ inited' = [inited EXCEPT ![P(t)] = TRUE]
          /\ Goto(t, After(op[t]))
          /\ UNCHANGED <<lock, bound, via>>
     ELSE /\ lock' = [lock EXCEPT ![P(t)] = t]
          /\ bound' = [bound EXCEPT ![P(t)] = TRUE]
          /\ via' = [via EXCEPT ![t] = "init"]
          /\ Goto(t, "find")
          /\ UNCHANGED inited
  /\ UNCHANGED <<op, response, mutex, ctx, server, event, counter>>
----------------------------------------------------------------------------
(* Client::Connect, from find_server to authenticate_server                *)

(* Mutant: a failed attempt leaves with the lock.                          *)
FailsLocked(t) ==
  /\ bound' = [bound EXCEPT ![P(t)] = FALSE]
  /\ mutex' = IF via[t] = "reconnect" THEN Nobody ELSE mutex
  /\ Goto(t, "idle")
  /\ Forget(t) /\ Unmap({t})
  /\ UNCHANGED <<inited, lock>>

(* Failure: Disconnect, and out with CC_IO.                                *)
Fails(t) ==
  /\ bound' = [bound EXCEPT ![P(t)] = FALSE]
  /\ Unlock(P(t))
  /\ mutex' = IF via[t] = "reconnect" THEN Nobody ELSE mutex
  /\ Goto(t, "idle")
  /\ Forget(t) /\ Unmap({t})
  /\ UNCHANGED inited

(* Success: on to the call, or out of the failed call with CC_IO.          *)
Succeeds(t) ==
  /\ Unlock(P(t))
  /\ IF via[t] = "reconnect"
     THEN mutex' = Nobody /\ Goto(t, "idle") /\ UNCHANGED inited
     ELSE /\ inited' = [inited EXCEPT ![P(t)] = TRUE]
          /\ Goto(t, After(op[t]))
          /\ UNCHANGED mutex
  /\ Forget(t) /\ Unmap({t})
  /\ UNCHANGED bound

Proceeds(t, place) == Goto(t, place) /\ UNCHANGED <<mutex, lock, inited, bound, op, via>>
Keeps == UNCHANGED <<response, counter>>

FindServer(t) ==
  /\ pc[t] = "find"
  /\ Proceeds(t, IF Listening THEN "challenge" ELSE "launch") /\ Keeps
  /\ UNCHANGED <<ctx, server, event>>

(* CreateEvent, which finds the event when it exists, and CreateProcess.   *)
Launch(t) ==
  /\ pc[t] = "launch"
  /\ \E i \in Server :
       /\ server[i] = "none"
       /\ \A j \in 1 .. i - 1 : server[j] # "none"
       /\ server' = [server EXCEPT ![i] = "started"]
  /\ event' = [event EXCEPT !.holders = @ \cup {t}]
  /\ Proceeds(t, "wait") /\ Keeps
  /\ UNCHANGED ctx

(* Any step of find_server that fails, CreateProcess above all.            *)
LaunchFails(t) ==
  /\ pc[t] = "launch"
  /\ Fails(t)
  /\ UNCHANGED <<ctx, server, event>>

WakeUp(t) ==
  /\ pc[t] = "wait"
  /\ event.signalled
  /\ event' = [event EXCEPT !.signalled = FALSE]
  /\ Proceeds(t, "recheck") /\ Keeps
  /\ UNCHANGED <<ctx, server>>

TimedOut(t) ==
  /\ pc[t] = "wait"
  /\ ~event.signalled
  /\ Proceeds(t, "recheck") /\ Keeps
  /\ UNCHANGED <<ctx, server, event>>

Recheck(t) ==
  /\ pc[t] = "recheck"
  /\ IF Listening THEN Proceeds(t, "challenge") /\ Keeps ELSE Fails(t)
  /\ LetGo({t})
  /\ UNCHANGED <<ctx, server>>

WriteChallenge(t) ==
  /\ pc[t] = "challenge"
  /\ counter' = Challenge
  /\ Proceeds(t, "ask")
  /\ UNCHANGED <<response, ctx, server, event>>

(* The server's Connect adds one to the shared word, in steps of its own   *)
(* thread and without a lock; or there is no server any more.              *)
Ask(t) ==
  /\ pc[t] = "ask"
  /\ IF Listening
     THEN /\ response' = [response EXCEPT ![t] = counter]
          /\ Proceeds(t, "add")
          /\ UNCHANGED counter
     ELSE Fails(t)
  /\ UNCHANGED <<ctx, server, event>>

PlusOne(n) == IF n = Other THEN Other ELSE n + 1

Add(t) ==
  /\ pc[t] = "add"
  /\ IF Listening
     THEN /\ counter' = PlusOne(response[t])
          /\ response' = [response EXCEPT ![t] = PlusOne(@)]
          /\ Proceeds(t, "verify")
     ELSE Fails(t)
  /\ UNCHANGED <<ctx, server, event>>

Genuine(t) == response[t] = Challenge + 1 \/ counter = Challenge + 1

Verify(t) ==
  /\ pc[t] = "verify"
  /\ IF Genuine(t) THEN Succeeds(t) ELSE Fails(t)
  /\ UNCHANGED <<ctx, server, event>>
----------------------------------------------------------------------------
(* MAKE_RPC_CALL                                                           *)

TakeMutex(t) ==
  /\ pc[t] = "mutex"
  /\ mutex = Nobody
  /\ mutex' = t
  /\ Goto(t, "lock")
  /\ UNCHANGED <<op, via, response, lock, inited, bound, ctx, server, event, counter>>

TakeLock(t) ==
  /\ pc[t] = "lock"
  /\ lock[P(t)] = Nobody
  /\ lock' = [lock EXCEPT ![P(t)] = t]
  /\ Goto(t, "rpc")
  /\ UNCHANGED <<op, via, response, mutex, inited, bound, ctx, server, event, counter>>

Reachable(t) == IF op[t] = "initialize" THEN bound[P(t)] /\ Listening ELSE ctx[P(t)] \in Up

Returns(t) ==
  /\ mutex' = Nobody
  /\ Forget(t)
  /\ Unlock(P(t))
  /\ Goto(t, "idle")
  /\ UNCHANGED <<inited, bound>>

Answered(t) ==
  /\ pc[t] = "rpc"
  /\ Reachable(t)
  /\ \E i \in Up : ctx' = IF op[t] = "initialize" THEN [ctx EXCEPT ![P(t)] = i] ELSE ctx
  /\ Returns(t)
  /\ UNCHANGED <<server, event, counter>>

(* An exception other than RPC_S_SERVER_UNAVAILABLE, which is what a null  *)
(* binding gives, and a broken handle may.                                 *)
OtherException(t) ==
  /\ pc[t] = "rpc"
  /\ ~Reachable(t)
  /\ Returns(t)
  /\ UNCHANGED <<ctx, server, event, counter>>

(* RPC_S_SERVER_UNAVAILABLE: Client::Reconnect, with mutex and lock held.  *)
Reconnect(t) ==
  /\ pc[t] = "rpc"
  /\ ~Reachable(t)
  /\ op[t] = "initialize" => bound[P(t)]
  /\ via' = [via EXCEPT ![t] = "reconnect"]
  /\ bound' = [bound EXCEPT ![P(t)] = TRUE]
  /\ Goto(t, "find")
  /\ UNCHANGED <<op, response, mutex, lock, inited, ctx, server, event, counter>>

(* CCTEST_shutdown: the call that stops the server, under sLock alone.  The *)
(* server ends when startup_server is past SetEvent and the wait.          *)
TakeStopLock(t) ==
  /\ pc[t] = "stopLock"
  /\ lock[P(t)] = Nobody
  /\ lock' = [lock EXCEPT ![P(t)] = t]
  /\ Goto(t, "stop")
  /\ UNCHANGED <<op, via, response, mutex, inited, bound, ctx, server, event, counter>>

Stop(t) ==
  /\ pc[t] = "stop"
  /\ IF bound[P(t)] /\ Listening
     THEN \E i \in Up : server' = [server EXCEPT ![i] = IF @ = "up" THEN "stopped" ELSE "stopping"]
     ELSE UNCHANGED server
  /\ Unlock(P(t)) /\ Forget(t)
  /\ Goto(t, "idle")
  /\ UNCHANGED <<mutex, inited, bound, ctx, event, counter>>
----------------------------------------------------------------------------
(* DllMain, DLL_PROCESS_DETACH: the last FreeLibrary, which no thread calls *)
(* while another uses the DLL,                                             *)
FreeLibrary(t) ==
  /\ pc[t] = "idle"
  /\ \A s \in Thread \ {t} : P(s) = P(t) => pc[s] \in { "idle", "gone" }
  /\ Goto(t, "detach")
  /\ UNCHANGED <<op, via, response, mutex, lock, inited, bound, ctx, server, event, counter>>

(* or the end of the process, which ends its other threads wherever they    *)
(* are: the session's mutex is abandoned to the next who waits, and a lock  *)
(* of the process is no obstacle to the one thread that is left.  Handles   *)
(* stay open until the process is gone.                                    *)
ExitProcess(t) ==
  LET dead == { s \in Thread \ {t} : P(s) = P(t) }
  IN  /\ pc[t] = "idle" /\ Attached(P(t))
      /\ pc' = [s \in Thread |-> IF s = t THEN "detach" ELSE IF s \in dead THEN "gone" ELSE pc[s]]
      /\ op' = [s \in Thread |-> IF s = t THEN "exit" ELSE IF s \in dead THEN "initialize" ELSE op[s]]
      /\ via' = [s \in Thread |-> IF s \in dead THEN "init" ELSE via[s]]
      /\ response' = [s \in Thread |-> IF s \in dead THEN 0 ELSE response[s]]
      /\ mutex' = IF mutex \in dead THEN Nobody ELSE mutex
      /\ Unlock(P(t)) /\ Unmap(dead)
      /\ UNCHANGED <<inited, bound, ctx, server, event>>

TakeDetachMutex(t) ==
  /\ pc[t] = "detach"
  /\ mutex = Nobody
  /\ mutex' = t
  /\ Goto(t, "cleanup")
  /\ UNCHANGED <<op, via, response, lock, inited, bound, ctx, server, event, counter>>

(* Mutant: the detach does not release the session's mutex.                 *)
CleanupKeepsMutex(t) ==
  /\ pc[t] = "cleanup"
  /\ lock[P(t)] = Nobody
  /\ inited' = [inited EXCEPT ![P(t)] = FALSE]
  /\ bound' = [bound EXCEPT ![P(t)] = FALSE]
  /\ ctx' = [ctx EXCEPT ![P(t)] = NoServer]
  /\ Forget(t)
  /\ IF op[t] = "exit"
     THEN Goto(t, "gone") /\ LetGo({ s \in Thread : P(s) = P(t) })
     ELSE Goto(t, "idle") /\ UNCHANGED event
  /\ UNCHANGED <<mutex, lock, server, counter>>

(* Client::Cleanup, under both locks; what the DLL had is gone with it.     *)
Cleanup(t) ==
  /\ pc[t] = "cleanup"
  /\ lock[P(t)] = Nobody
  /\ inited' = [inited EXCEPT ![P(t)] = FALSE]
  /\ bound' = [bound EXCEPT ![P(t)] = FALSE]
  /\ ctx' = [ctx EXCEPT ![P(t)] = NoServer]
  /\ mutex' = Nobody
  /\ Forget(t)
  /\ IF op[t] = "exit"
     THEN Goto(t, "gone") /\ LetGo({ s \in Thread : P(s) = P(t) })
     ELSE Goto(t, "idle") /\ UNCHANGED event
  /\ UNCHANGED <<lock, server, counter>>
----------------------------------------------------------------------------
(* A process is killed: Windows gives its mutex to the next who waits and  *)
(* closes its handles.                                                     *)
Kill(p) ==
  LET dead == { t \in Thread : P(t) = p }
  IN  /\ \E t \in dead : pc[t] # "gone"
      /\ pc' = [t \in Thread |-> IF t \in dead THEN "gone" ELSE pc[t]]
      /\ mutex' = IF mutex \in dead THEN Nobody ELSE mutex
      /\ op' = [t \in Thread |-> IF t \in dead THEN "initialize" ELSE op[t]]
      /\ via' = [t \in Thread |-> IF t \in dead THEN "init" ELSE via[t]]
      /\ response' = [t \in Thread |-> IF t \in dead THEN 0 ELSE response[t]]
      /\ Unlock(p)
      /\ inited' = [inited EXCEPT ![p] = FALSE]
      /\ bound' = [bound EXCEPT ![p] = FALSE]
      /\ ctx' = [ctx EXCEPT ![p] = NoServer]
      /\ LetGo(dead) /\ Unmap(dead)
      /\ UNCHANGED server
----------------------------------------------------------------------------
(* startup_server                                                          *)

Reaches(i, phase) == server' = [server EXCEPT ![i] = phase]
ClientsUnchanged == UNCHANGED <<pc, op, via, response, mutex, lock, inited, bound, ctx, counter>>

(* OpenEvent finds the event if some handle to it is open.                 *)
ServerOpensEvent(i) ==
  /\ server[i] = "started"
  /\ Reaches(i, "opened")
  /\ event' = IF event.holders = {} THEN event ELSE [event EXCEPT !.holders = @ \cup {i}]
  /\ ClientsUnchanged

(* RpcServerUseProtseqEp fails when another server holds the endpoint.     *)
ServerTakesEndpoint(i) ==
  /\ server[i] = "opened"
  /\ IF \E j \in Server : server[j] \in { "bound", "listening", "up", "stopping", "stopped" }
     THEN Reaches(i, "lost") /\ LetGo({i})
     ELSE Reaches(i, "bound") /\ UNCHANGED event
  /\ ClientsUnchanged

(* Mutant: the event is set before RpcServerListen.                        *)
ServerListensLate(i) ==
  /\ server[i] = "bound"
  /\ ~event.signalled
  /\ event' = [event EXCEPT !.signalled = i \in event.holders]
  /\ i \notin event.holders => Reaches(i, "listening")
  /\ i \in event.holders => UNCHANGED server
  /\ ClientsUnchanged

ServerListens(i) ==
  /\ server[i] = "bound"
  /\ Reaches(i, "listening")
  /\ UNCHANGED event
  /\ ClientsUnchanged

ServerSignals(i) ==
  /\ server[i] \in { "listening", "stopping" }
  /\ Reaches(i, IF server[i] = "listening" THEN "up" ELSE "stopped")
  /\ event' = IF i \in event.holders THEN [event EXCEPT !.signalled = TRUE] ELSE event
  /\ ClientsUnchanged

ServerEnds(i) ==
  /\ server[i] = "stopped"
  /\ Reaches(i, "ended")
  /\ LetGo({i})
  /\ ClientsUnchanged

Crash(i) ==
  /\ server[i] \notin { "none", "lost", "ended", "crashed" }
  /\ Reaches(i, "crashed")
  /\ LetGo({i})
  /\ ClientsUnchanged

ServerStep(i) ==
  \/ ServerOpensEvent(i) \/ ServerTakesEndpoint(i) \/ ServerListens(i) \/ ServerSignals(i)
  \/ ServerEnds(i)

Connect(t) ==
  \/ FindServer(t) \/ Launch(t) \/ LaunchFails(t) \/ WakeUp(t) \/ TimedOut(t) \/ Recheck(t)
  \/ WriteChallenge(t) \/ Ask(t) \/ Add(t) \/ Verify(t)

(* What a thread does once it gets a lock.                                 *)
Waits(t) ==
  Initialize(t) \/ TakeMutex(t) \/ TakeLock(t) \/ TakeStopLock(t) \/ TakeDetachMutex(t) \/ Cleanup(t)

Rpc(t) == Answered(t) \/ OtherException(t) \/ Reconnect(t)

Next ==
  \/ \E t \in Thread :
       \/ CallInitialize(t) \/ CallUse(t) \/ FreeLibrary(t) \/ ExitProcess(t)
       \/ Waits(t) \/ Connect(t) \/ Rpc(t) \/ Stop(t)
  \/ \E p \in Process : Kill(p)
  \/ \E i \in Server : ServerStep(i) \/ Crash(i)

Spec == Init /\ [][Next]_vars

(* A thread that can run does; a wait for a lock that keeps coming free    *)
(* ends (Windows serves the waiters of a mutex in turn).  A thread waits    *)
(* for one lock at a time, so one condition says it of all of them.         *)
Fairness ==
  /\ \A t \in Thread : WF_vars(Connect(t) \/ Rpc(t) \/ Stop(t)) /\ SF_vars(Waits(t))
  /\ \A i \in Server : WF_vars(ServerStep(i))

FairSpec == Spec /\ Fairness
----------------------------------------------------------------------------
ClientValues ==
  /\ pc \in [Thread -> Place]
  /\ op \in [Thread -> { "initialize", "use", "stop", "exit" }]
  /\ via \in [Thread -> { "init", "reconnect" }]
  /\ mutex \in Thread \cup {Nobody}
  /\ lock \in [Process -> Thread \cup {Nobody}]
  /\ inited \in [Process -> BOOLEAN] /\ bound \in [Process -> BOOLEAN]
  /\ ctx \in [Process -> Server \cup {NoServer}]
  /\ server \in [Server -> Phase]
  /\ event \in [signalled : BOOLEAN, holders : SUBSET (Thread \cup Server)]
  /\ counter \in {0} \cup Challenge .. Other
  /\ response \in [Thread -> {0} \cup Challenge .. Other]

(* The locks are held by threads that are where the code holds them.       *)
HoldersInPlace ==
  \A t \in Thread :
    /\ lock[P(t)] = t <=> pc[t] \in Connecting \cup { "rpc", "stop" }
    /\ mutex = t <=> \/ pc[t] \in { "lock", "rpc", "cleanup" }
                     \/ pc[t] \in Connecting /\ via[t] = "reconnect"

(* The word is there, with a challenge in it, while a client maps it, and  *)
(* what the server read of it belongs to the attempt in progress.          *)
WordIsMapped ==
  \A t \in Thread :
    /\ pc[t] \in Mapping => counter # 0
    /\ response[t] # 0 <=> pc[t] \in { "add", "verify" }

(* Type invariant of the clients, the servers and what they share, with    *)
(* the places at which a thread holds each of them.                        *)
ClientTypeOK == ClientValues /\ HoldersInPlace /\ WordIsMapped

(* No connection is attempted twice at once in a process, nor while a call *)
(* of another of its threads is out: attempts would start two servers and  *)
(* free the binding the other uses (client.cxx:296).                       *)
OneConnects ==
  \A s, t \in Thread :
    s # t /\ P(s) = P(t) => ~(pc[s] \in Connecting /\ pc[t] \in Connecting \cup { "rpc", "stop" })

(* A client that the event wakes finds that a server got to listen, now or *)
(* until it crashed: the signal of a server that is not ready would send   *)
(* it away with an error (client.cxx:197).                                 *)
WakesToServer ==
  [][\A t \in Thread : WakeUp(t) =>
       \E i \in Server : server[i] \in { "up", "stopped", "ended", "crashed" }]_vars

(* Every call returns, and so does the unloading of the DLL and the end of *)
(* a process, whatever servers and other clients do: locks, the wait for a *)
(* server and a reconnect inside a call never hold them for good.          *)
CallsReturn == \A t \in Thread : pc[t] # "idle" ~> pc[t] \in { "idle", "gone" }

(* What the documents say.                                                 *)

(* A client that has lost its connection tries to resume it with the       *)
(* sequence of its startup (doc/architecture.txt:59), whatever became of   *)
(* earlier attempts: a cc_initialize that finds no binding tries again.    *)
ResumesLost ==
  [][\A t \in Thread :
       pc[t] = "rpc" /\ op[t] = "initialize" /\ ~bound[P(t)]
         => pc'[t] \in { "rpc", "gone" } \cup Connecting]_vars
=============================================================================
