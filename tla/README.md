# A verification project for pismere's credential cache and its clients

pismere is MIT's Kerberos for Windows.  Its core, and the part where several
processes share state, is `athena/auth/krbcc`: the credential cache that every
Kerberos program of a login session uses.  A client DLL calls, over local RPC,
a server process that it starts when there is none; the server runs MIT's
`CCacheLib` (written for the Macintosh) behind tables of handles.  On top of it
are the Kerberos 4 library, whose "ticket file" is a cache of that server, and
Leash, the ticket manager that users see.  This project models that stack from
the handle tables up to the threads of Leash, checks it with TLC, and proves
its handle tables, the credentials cache library and its v2 interface, the
server's handles and what they lead to, the clients' locking, the searches and
cursors of the ticket file, and the mutexes and warnings of Leash with TLAPS.

Paths below are relative to `src/src/athena/auth/krbcc/`, as `src/exe` for
`src/src/athena/auth/krbcc/src/exe`, unless they start with `athena/`; in the
parts on Kerberos 4 and Leash, files are named by their last part.

## Inventory

| Component | State | Operations | Hard part | Modelled |
|---|---|---|---|---|
| Handle maps, `src/exe/handlemap.hxx` | array of slots, cursor, counters | create, close, operator[], growth | reuse after closes, growth, exhaustion, `size_t` edges | `HandleMap`, abstract `HandleTable` |
| Library data, `CCIContextData.cp`, `CCICCacheData.cp`, `CCIUniqueGlobally.h` | list of caches, caches, credentials, registries of IDs | create, destroy, move, set default, set principal, store, remove | one object reached by many lists; IDs that outlive objects | `CCacheData`, `CCacheContext` |
| v2 interface, `CCache2Compat.cp` | references and iterators | the `cc_*` calls | iterators over data that changes under them; v4 and v5 views of one cache | `CCache2Compat`, `CCacheCalls` |
| RPC server, `src/exe/procs.cxx`, `rundown.cxx` | four handle maps, `api_lock` | the `rcc_*` handlers, rundown | failed calls, clients that go | `CCacheServer` |
| Client DLL, `src/dll/client.cxx`, `cacheapi.cxx`, `testapi.cxx`, `dllmain.cxx`; `startup_server`, `shutdown_server` | session mutex, `sLock`, binding, event, shared word | initialize, connect, reconnect, call, stop the server, detach | two processes starting servers, crashes, time-outs, teardown with locks held | `CCacheClient` |
| Kerberos 4 ticket file, `tf_util.c`, `get_cred.c`, `in_tkt.c` ... of `athena/auth/krb4/krbv4/krbdll` | a cursor for each thread | tf_init ... tf_close, krb_get_cred, krb_save_credentials, in_tkt, dest_tkt | cursor left open, file changed under it | `TicketFile` |
| Getting tickets, `mk_req.c`, `getadtkt.c`, `k_gettkt.c`, and the KDC exchange, `send_kdc.c`, of the same | call stack, socket, rounds | krb_mk_req, get_ad_tkt, krb_get_in_tkt, send_to_kdc | mutual recursion over a file others change; late, lost, stray answers | `Krb4Client` |
| Leash, `LeashView.cpp`, `Leash.cpp` of `athena/auth/leash/leash32`; the calls it makes of `athena/auth/leash/leashdll` | two mutexes, the dialog's mutex, flags, what is displayed | get, import, renew, destroy, update, the timer and its warnings | worker threads that send messages to the user interface thread; caches that no lock protects | `LeashTickets`, `LeashTimer`, `LeashView` |
| `src/lib/init.cxx`, `secure.cxx` | reference counts | Initialize, Cleanup | pairing of the calls | not modelled |
| krb4 messages and configuration, DES, kclient, kview, dialogs and AFS of Leash, command line tools, utilities, wshelper, scripts | | | | not modelled |

The last row is parsing, cryptographic arithmetic, user interface, sequences of
calls into libraries that are not in the repository, Windows plumbing, or code
of third-party origin; `PROJECT.json` gives the reason for each.  The build
modelled is the release build: an assertion that fails does nothing.  The
Kerberos 4 library is built on the credentials cache (`MM_CACHE`), and Leash
with `m_tgsReqMutex` (without `KRB5_TC_NOTICKET`).

How the parts interact: a call of a program takes the session's mutex and then
its process's lock (`MAKE_RPC_CALL`) and goes to the server; a handler takes
`api_lock`, turns the handle into a pointer with a handle map, runs one library
call, and the library call is one or more methods of the data layer, which
stamp times.  When a client dies the RPC runtime calls the rundown routine of
each handle it held.  When the server dies the next call finds it out and
reconnects, which may start a new server.  The Kerberos 4 library is a client
that makes several such calls for one operation on the file, without a lock
around them.  Leash runs requests for tickets in threads that empty and fill the
caches, then send a message to the user interface thread, which reads them
again.

What must be true of each part, in short: handles lead to the object they were
given for and to no other; the library's lists and registries agree, nothing is
deleted twice, every change is visible to pollers, iterators lose nothing that
stays; a client's going costs the others nothing; one connection attempt at a
time per process, and every call returns; no way out of an operation on the
ticket file leaves the server an object, a search or a listing misses nothing
that is there all along, and a request ends whatever the network does; the threads of Leash
let go of every mutex, never wait for each other for ever, and the display
catches up.  The list of hazards with their lines is in `PROJECT.json`.

## Modules

```
HandleTable  <|--  HandleMap            the abstract table, and the array
                     ^ HandleMap_proofs
CCacheData                               functions on the library's data
  ^ CCacheContext                        the data as a state machine
      ^ CCacheContext_proofs
  ^ CCache2Compat                        the v2 calls, as functions
      ^ CCache2Compat_proofs             lemmas about the data and the calls, for the
                                         proofs about the three machines that use them
      ^ CCacheCalls                      callers of the v2 interface; implements CCacheContext
          ^ CCacheCalls_proofs
      ^ CCacheServer                     clients, handle maps, handlers, rundown;
                                         implements CCacheContext
          ^ CCacheServer_proofs
CCacheClient                             threads, processes, servers, mutex, event
  ^ CCacheClient_proofs
CCache2Compat
  ^ TicketFile                           threads with cursors in a cache of the server
      ^ Krb4Client                       requests to KDCs through the file
          ^ Krb4Client_proofs
LeashTickets                             the caches behind Leash
  ^ LeashTimer                           ages, warnings, automatic renewal
  ^ LeashView                            threads, mutexes, messages, dialogs
Leash_proofs                             of LeashView and LeashTimer
```

The data layer and the v2 calls are functions from a state to a state and a
result, because two state machines run them: `CCacheCalls`, where callers hold
pointers, and `CCacheServer`, where they hold handles.

**HandleMap**.  `hm` is the object: `init`, `handles`, `last`, `used`, `size`
as in the code.  `DoCreate`, `DoClose`, `DoStore` and `DoLookup` are the
operations, each under the map's own lock and so one step; `Grow` fails when
memory does or at `MAX_SIZE`.  Handles are `size_t` and wrap (`Index`).
`HandleTable` says what the handlers rely on: a partial function from live
handles to contents.

**CCacheData, CCacheContext**.  `data` is one record: `order` is
`mCCaches`, `cache` and `cred` the registries of live objects (so a dangling
pointer is an ID outside their domain), `nextCache` and `nextCred` the next ID,
`pinned` whether the static proxy of the credentials' registry has been used,
without which the registry is deleted with its last object and IDs restart.
The next ID of caches cannot restart: destroying a cache resolves it, which
uses the static proxy.  Times are abstracted to what they tell: `stamped` and
`touched` name the objects the current call has stamped.  The library's locks
are empty classes in this port.

**CCache2Compat, CCacheCalls**.  `lib.heap` holds the objects that callers
have pointers to: a reference with its version, an iterator over caches
with its copied list, position and repeat count, and one over credentials.
`leaked` records that an object was lost.  `owed` in `CCacheCalls` is a history
variable: the items an iterator has still to return.  Credentials are a version
and a service, for one client and issue time, which is all that
`cci_compat_credentials_equal` compares that can differ.

**CCacheServer**.  `srv.table` is the four handle maps, used through what
`HandleTable` promises; `owns` is what the RPC runtime records of each client,
which it also uses to reject handles that are not the caller's.  Every handler
is one step, since `api_lock` is held throughout.  `Opens` and `Closes` are the
two shapes of handlers: create, call, store or close; and call, close.
`stuck` is the state in which `cc_get_NC_info` loops with `api_lock`.

**CCacheClient**.  `pc` is the place of each thread in `Client::Initialize`,
`Connect`, `find_server`, `authenticate_server` or `MAKE_RPC_CALL`; waiting for
the lock and the mutex are steps of their own, and so is every access to what
processes share: the listening test, the event, the word in shared memory and
the two halves of the server's increment.  A server process runs
`startup_server` in four steps and may crash at any of them; `Kill` ends a
client, and Windows then abandons its mutex and closes its handles.  `Stop` is
the call of `shutdown_server`, which takes the lock and not the mutex; the
server ends when it is past `SetEvent`.  `FreeLibrary` and `ExitProcess` lead to
`DLL_PROCESS_DETACH` (`TakeDetachMutex`, `Cleanup`).  At `ExitProcess` the other
threads are gone wherever they were; the model takes it that the one thread left
is let through a critical section a dead thread held, as Windows NT does, and
that a mutex of the session is abandoned like at a kill.

**TicketFile**.  `stack[t]` is the call stack of a thread, a frame for each
procedure with the place in it; `cursor[t]` is its `THREAD_DATA`; `lib` is the
server, on which every call is one step through `CCache2Compat`, so that other
threads and programs come between any two calls.  A ticket carries the client
the KDC issued it to and the client and realm it is filed under, which
`tf_save_cred` takes from the file.  `there` is a history variable: what a
search or a listing must find.

**Krb4Client**.  `krb_mk_req`, `get_ad_tkt`, `krb_get_in_tkt` and `send_to_kdc`
as places of frames, with every return tested (or, as at `getadtkt.c:109`, not
tested) as the code does.  `inbox[t]` is what waits at the thread's socket;
`Arrives` puts there what KDCs and others send: answers to a round that is
over, second answers, refusals, strays.  A message is what it does: granted,
refused or stray.  An answer is decrypted with the key of the ticket the
request was made with.  Steps that look at nothing shared (returns between
procedures of the library) are taken without interleaving (`Apart`, `Turn`):
they commute with every step of other threads.  `klist` is the listing of tickets
in the Leash library (`not_an_API_LeashKRB4GetTickets`), which opens the file
three times: to see that it is there, for its realm, and for the tickets.

**LeashTickets, LeashTimer, LeashView**.  `LeashTickets` says what the Leash
library does to the default Kerberos 5 cache (`v5`) and the Kerberos 4 ticket
(`v4`).  `LeashTimer` has the time: the sections of the timer for each kind of
ticket, the flags and locks against repeated warnings, automatic renewal, and
the refresh every so many ticks; requests are what they do to that data
(`RenewalSucceeds`, `InitSucceeds` ...), and `DisplayReads` is what `OnUpdateDisplay`
does to it.
`LeashView` has the threads: `job[t]` is the function a thread runs and `pc[t]`
the place in it, with both mutexes and the dialog's.  A library call is a step
with the mutexes held that the code holds around it, and the two calls
`krb5_cc_initialize` and `krb5_cc_store_cred` are separate steps.  A message
sent by a worker is handled when the user interface thread is in a message
loop (`Pumping`).  `OnUpdateDisplay` that does not get `lockObj` in 100 ms
throws (`UpdateThrows`); where nothing catches it, the process ends.  Commands are
the menu's (get, import, renew, destroy, change the password); `OnObtainTGTWithParam`
is the message by which another program asks for tickets, handled when the
thread is idle or shows its password dialog.

## Runs

| Run | What is bounded | What it shows |
|---|---|---|
| `handle_map` | base 2, growth 1, a heap of 3 slots, handles of 10 values | the map grows, runs out of memory and goes on; counters, shape and refinement hold |
| `cache_data` | 3 caches, 2 credentials, 3 names | the list and the registries agree, credentials are owned once, IDs are fresh, changes are stamped, the default stays |
| `calls` | 2 caches, 2 credentials, 2 objects | iterators over caches and over credentials lose none, references keep their version, stale stays stale; the calls implement the data layer |
| `server` | 2 clients, 2 handles of each kind, 2 objects, 1 cache, 1 credential | handles have owners and lead to objects of their own; rundown keeps data, each handler is a step of the data layer or none, and a lost client's handles are given back |
| `client` | 2 processes, 3 threads (two of them alike: symmetry), 2 servers, one program that may stop servers | locks, one connection at a time, the event |
| `client_live` | the same with 1 server | every call returns, and so do detach and exit |
| `leash_timer` | 1 principal, tickets of 5 units of five minutes, Kerberos 4 in use, a refresh every 2 ticks | no warning comes twice while the same tickets last |
| `leash_view` | 1 worker beside the user interface thread, 2 principals, all commands | mutexes are let go, the user interface comes back, requests end, the display catches up |
| `krb4` | 2 programs (one asks for a service's ticket, one logs in and destroys tickets), 1 KDC, 2 rounds, 1 packet waiting, 2 calls, 2 principals, 2 realms | nothing is left open, requests are made with tickets and the file has tickets only, searches find, calls nest to the depth these procedures give and end |

Why the bounds are enough.  The hazards of the list of caches need a cache
between two others, and a move that leaves a third.  Those of credentials need
a version that goes while the other stays, and a registry that empties and
fills again.  Those of iterators need an item ahead of the position, at it and
behind it; with two caches or two credentials every one of them is at, before
or after the other.  Server hazards need one client that goes and one that
stays.  Client hazards need two threads of a process and a thread of another;
the second server is the one that finds the endpoint taken, or the replacement
of a crashed one.  The steps of the warnings are 5, 10, 15 and 20 minutes left:
`MaxLife` 5 is the shortest life that starts above all of them, and a renewal
can come at any of them.  Hazards between threads of Leash are of two threads,
and a worker is free again for the next request when one is over; the dialog's
third thread would only wait.  Krb4 hazards need one program that searches and
one that changes what it searches; two realms make the chain of
`krb_mk_req` and `get_ad_tkt` as long as it gets, since `lrealm` is the home
realm in every call but the first; a second round makes late answers.

Counters of IDs, of objects and of servers are cut off by `MaxCaches`,
`MaxCreds`, `MaxObjects`, `Handle` and `MaxServers`; `Other` stands for all
values of the shared word beyond the expected answer.  `leaked` is one bit.
In `TicketFile` and `Krb4Client` a call that needs an object of the server waits
until one of the `MaxObjects` is free (`Room`).  No run waits there: a thread has
at most two objects, those of its cursor or one in its frame, and the runs have
eight for one or two threads.
`MaxCalls`, `MaxInbox` and `MaxDepth` bound `Krb4Client`.  `CallsNestSoFar` says that
`MaxDepth` cuts nothing off; that is so with the calls of this run, and not with
any number of them, since `krb_mk_req` goes one deeper each time the file loses
its ticket-granting tickets under it.  `Does` gives each program of the run its
procedures.  In `LeashTimer` time stands still during a renewal, which takes
seconds, and one request runs at a time; `LeashView` has what two requests do
to each other, and no age of tickets.

`CHECK_DEADLOCK FALSE` is set where the system may really stop: in the server
run, when all clients are gone and a call is stuck; in the client runs, when
every process was killed; in `leash_view`, when Leash has ended; in the Kerberos
4 runs, when all calls have been made.

**Fairness**.  `server` assumes that the RPC runtime gets round to every
handle of a broken connection, which is what a rundown routine is for.
`client_live` assumes that a thread or server that can take a step does
(preemptive threads), and that a thread waiting for a mutex or critical section
that comes free again and again gets it (strong fairness: Windows serves the
waiters in turn; a thread waits for one lock at a time, so `Waits` puts all its
waits under one condition).  The ten-second wait needs no clock: it ends by the event or
by `TimedOut`, which may happen at any time.  `leash_view` assumes the same of
the threads of Leash and its two mutexes, and that the timer ticks; of the user,
who need never answer, it assumes nothing.  `krb4` assumes that each program
goes on, calls to the server return and a wait for a packet that does not come
ends by its time-out; of the user and of the network it assumes nothing.
Nothing is assumed of calls, crashes or kills.

### Where the code and its documents disagree

Each of these runs checks one statement of a document, comment or assertion,
and TLC finds a behaviour of the code that breaks it.

| Run | What happens |
|---|---|
| `reused_ids` | IDs of credentials restart, and an iterator returns another cache's |
| `resume` | after one failed reconnection the process never connects again |
| `cross_realm` | `tf_save_cred` files a ticket for a service of another realm in the user's own realm (`tf_util.c:604`), and `krb_mk_req` does not find the ticket it has just got |

Other differences are plain from the code, and the models follow the code in
them; they have no run of their own:

- `cc_create` on an existing name deletes the credentials of the given version
  alone (`CCICCacheData.cp:164`; `doc/ccache-api-v2.html:811` says all);
- `cc_store` does not compare versions (`CCache2Compat.cp:718`;
  `ccache-api-v2.html:1014`);
- `cc_seq_fetch_creds_next` may answer `CC_NOTFOUND`, which its assertion does
  not list (`CCache2Compat.cp:836`);
- `cc_get_NC_info` ends its walk with the wrong `_end` call and never succeeds
  (`CCache2Compat.cp:124`); with a cache of both versions it never returns;
- `cc_remove_cred` does not look at the service of v4 credentials
  (`CCache2Compat.cp:955`);
- the closing handlers hide the library's result in a shadowed variable
  (`procs.cxx:153`, `299`, `325`, `394`, `758`), so `rcc_destroy` never answers
  `CC_NO_EXIST`, and it closes the handle of a reference it did not free;
- `cc_seq_fetch_NCs_next` may return an error and a cache from one call, against
  the assertion at `procs.cxx:435`, and the cache object leaks.

- the iterator over caches returns a cache with both versions for ever, in v5
  mode (`CCache2Compat.cp:553`; the comment at line 8 says each is returned
  twice);
- two processes that authenticate the server at once share one word and may turn
  a genuine server away (`client.cxx:263`; `implementation.txt:88`);
- two threads that are the first to call both pass the test of `INIT_INIT_EX`
  (`init.hxx:71`) and are both counted, so that the one `Init::Cleanup` of detach
  leaves behind what the first took; detach calls it also when no call was made,
  and the count wraps;
- `CCTEST_shutdown` takes no session mutex, and `-k` starts a server to stop it
  when there is none (`server.cxx:423`);
- `tf_init` locks nothing, whatever access is asked for (`tf_util.c:106`,
  `130`); two logins at once may file a ticket of one principal under the other
  (`tf_util.c:573`), and threads share the static buffers of `krb_mk_req` and
  `get_ad_tkt`;
- `get_ad_tkt` goes on with an unset realm when its second look at the file fails
  (`getadtkt.c:109`);
- a stray packet ends the wait for the host that was asked (`send_kdc.c:375`);
- `Leash_import` answers 0 for a failure and `ImportTicket` tests for -1, so that a
  failed import is taken for a success until the display is read again
  (`LeashView.cpp:566`);
- the locks against repeated warnings are never reset, so that the warnings of
  later tickets may not come (`LeashView.cpp:2029`);
- `OnUpdateDisplay` throws to the message loop, where nothing catches it
  (`LeashView.cpp:849`);
- a renewal under way may store its ticket after `OnDestroy` destroyed the
  tickets on exit (`LeashView.cpp:1636`);
- `ObtainTicketsViaUserIfNeeded` shows the dialog without `m_tgsReqMutex`; the
  comment at `Leash.cpp:1556` has it that the call should be protected.

The documents' own list of deviations (`doc/implementation.txt`, automatic
re-acquisition of handles and termination of the idle server) was taken as
known.  `implementation.txt` says that the DLL waits two seconds for a server
and the code waits ten; the models have no clock.

## Proofs

`HandleMap_proofs` proves, for every base size, growth step, heap limit, width
of `size_t` and set of contents that satisfy `SizeAssumption`:

- `TypeCorrect`: the map's fields describe one array (`TypeOK`);
- `CountsCorrect`: `used` is the number of used slots and `last` is inside the
  array (`CountsAgree`);
- `Refinement`: the map implements `HandleTable` (`ImplementsTable`).

`SizeAssumption` says that the heap runs out a growth step before `size_t`
does, because a slot is larger than a byte.

The argument.  `CountsAgree` is not enough by itself: closing a handle must
find the slot inside the array, and a created handle must be fresh, so the
invariant `IInv` joins the shape of the array (`WellFormed`) to the counts
(`Counted`).  `ScanStops` is the heart of it: with `used < size` some slot is
free, the free slot at the least cyclic distance from the cursor exists, and
the scan of `create`, which has no other exit, ends there.  `GrowKeeps`,
`ReadyKeeps`, `TakeKeeps`, `ReleaseKeeps` and `StoreKeeps` say what each piece
does to the table of live handles; the four step lemmas put them together for
each operation, and give the invariant and the refinement at once, because each
needs the other's case split.

`CCacheServer_proofs` proves six theorems, for any sets of clients and handles,
any names and any bounds:

- `OneOwnerEach` (`HandlesHaveOwners`), whatever the library does.  The
  invariant `Owned` says it handle by handle: a handle is in its map if and only
  if some client owns it.  What makes it inductive is that a handler decides by
  one bit, whether the call succeeded, both if the handle stays in the map and
  if the client gets it (`OpensOrNot`), and that a handler that closes does so
  whatever the library answered (`ClosesAlways`); `BothGain` and `BothLose` then
  change map and owner together, and rundown is the same closing as a call's.
  This part uses nothing of the library but that a handler touches the tables
  only through these shapes.
- `HandlesCorrect` (`HandlesLeadToObjects`).  That a handle leads to an object is
  not inductive: closing one handle could free the object of another, and a new
  object could take the place of one that an old handle still names.
  `Leads` makes the handles of a kind and the objects of that kind correspond one
  to one, so an object is freed with its only handle and a new one is at a
  pointer that no handle has.  Each library call is summed up by what it does to
  the heap: it keeps the objects (`Keeps`), gives one (`Gains`) or frees one
  (`Drops`), and a handler puts that together with its handle map.
- `ServerTypes` (`ServerTypeOK`), `ServerDataRight` (the data of the server stays
  right, `DataRight`, whatever clients call and however they go) and
  `RundownHarmless` (`RundownKeepsData`).
- `ServerKeepsContext` (`ServerImplementsContext`): to the data, what the clients do
  at once, what fails and what rundown does for those that went is a sequence of
  whole methods of `CCacheContext`, so what is proved of that module (changes are
  stamped, the default cache stays, credentials are owned once) holds in the server.
  Each call is summed up a second time, by what it does to the data (`Moves`): one
  method, or nothing, while objects come and go apart from the data (`MadeApart`).
  A handler that fails for want of a handle has called nothing, and one whose call
  failed loses the object and no data (`GivesHandleMoves`); the methods of the
  instance are then shown to be those of `CCacheData`, as for the calls.

`ServerInv` joins `OwnersInv`, `ObjectsInv` and the types.

`CCacheClient_proofs` proves, from `ClientAssumption` alone (each thread has a
process, `Nobody` is no thread):

- `ClientTypeCorrect` (`ClientTypeOK`): the variables have their types, locks
  are held exactly by the threads at places where the code holds them
  (`HoldersInPlace`), and the shared word is there while a client maps it
  (`WordIsMapped`, without which the increment of a word that went away would
  leave its range);
- `ConnectsOnce` (`OneConnects`), which follows from `HoldersInPlace`: both
  places mean holding the process's lock;
- `WakesRight` (`WakesToServer`), from `SetByServer`: an event that is set was
  set by a server that listened, and such a server is never forgotten, only
  known as stopped, ended or crashed.

`ClientInv` is their conjunction; there is one lemma for each part, with a case
for each action.

`Leash_proofs` proves, for any worker threads, principals, life of tickets
and set of commands, `MutexesCorrect` (`MutexesHeldInPlace`) and
`LeashTypeCorrect` (`LeashTypeOK`).  The invariant of the first, `Held`, joins
to it that every thread is at a place of the model (`Places`), whose `TgsPlace`,
`LockPlace` and `DialogPlace` are told from the rest: a step that takes or drops
a mutex goes from a place outside to one inside or back.  That of the second,
`Typed`, joins `Places` to the types of the cache (`Cached`), of the principal
a thread gets a ticket for (`Who`), and of what is displayed (`Shows`).  There is one
lemma for each group of steps (dialog, import, renewal and so on), each with a
case for each action.

`Leash_proofs` also proves, for any life of tickets and refresh of the display,
with and without Kerberos 4, `WarnsOnceOnly` (`WarnsOnce`) and `TimerTypeCorrect`
(`TimerTypeOK`) of the timer.  A flag (`warned`) keeps a warning from coming again, but
the sections take it back when a lower step is reached, by locks that outlive the
tickets.  The invariant `TimerInv` says of each kind why that is harmless
(`Quieted`): every case that was warned of is at a time not below what is left;
if it is the case of what is left now, the flag is set and the lock is one with
which this section does not take it back; and a warning about tickets that are
gone comes for Kerberos 5 only, and with the flag set while they are gone.
`Agrees` joins to it when the status may still be that of tickets that are gone.
`SectionDoes` and `WarningDoes` are the heart, one case for each branch of a
section; `ReadingKeeps` covers what requests and other programs do to the caches.

`CCache2Compat_proofs` holds the lemmas on the data layer and on the v2 calls.
The data is right (`DataRight`) when the record has its shape, the list holds
each registered cache once and no two of a name (`Listed`), registered IDs are
below the next ones (`Below`), each cache's credentials are its own and
registered (`OwnsOnce`), names and versions have their types (`Typed`), and
a cache has a principal for some version (`Used`).  Each method
has a lemma that it keeps that, and one that it tells of its changes (`Told`):
what it changed is stamped, and every other cache is as it was.  `Onward` says
what holds between an earlier and a later state whatever happened between: IDs
that are gone do not come back, and no principal goes.  Two facts about sequences
carry the rest: what `RemoveFirst` leaves of a list without repetitions, and what
`SelectSeq` keeps.  The library's induction theorems take an operator, which the
provers cannot instantiate, so the inductions are over sets of naturals (`LeastNat`,
`NatSetInduction`), on recursive functions and least counterexamples.

`CCacheContext_proofs` proves six theorems of the data layer, from
`DataAssumption` and `NamesAssumption`, for any names, principals, services and
bounds: `ListCorrect` (`ListMatchesRegistry`), `IdsCorrect` (`NextIdsFresh`),
`OwnershipCorrect` (`CredsOwnedOnce`), `TypesCorrect` (`DataTypeOK`),
`StampsCorrect` (`ChangesAreStamped`) and `DefaultCorrect` (`DefaultStays`).
The invariants are parts of `DataRight`; the two action properties follow
by a case for each method (`MethodsTell`).

`CCacheCalls_proofs` proves, for callers that interleave their calls in any way,
also from `ObjectsAssumption`:

- `HeldCorrect` (`CallsTypeOK`): every pointer leads to an object of its shape;
- `RefsCorrect` (`RefsAreOpenedRight`): a reference stands for a version its
  cache has;
- `AllCachesReturned`, `AllCredsReturned` (`CachesAllReturned`,
  `CredsAllReturned`): an iterator that ends has returned all that stayed;
- `StaleCorrect` (`StaleStaysStale`): an object that is gone stays gone for the
  pointers to it;
- `CallsImplementContext` (`ImplementsContext`): every call does to the data
  what `CCacheContext` allows, or nothing.

The invariant `CallsInv` (`Right(lib, owed)`) says of each object what it needs
to go on: what an iterator still owes is at its position or behind it in its
list, and at the position only the v5 version of a cache when the v4 version
has been returned; so what is owed at the end is nothing.  It survives the other
callers because an object looks at the data only through caches and
credentials that are still there, and `Onward` says that these keep their
versions.

`Krb4Client_proofs` proves, from `DataAssumption`, `ObjectsAssumption`,
`FileAssumption` and `ClientAssumption`, for any number of threads and any
realms, hosts, KDCs, rounds and bounds:

- `NothingIsLeftOpen` (`NothingLeftOpen`): the server has no object but those
  that a cursor or a frame still names, whichever way a procedure left;
- `SearchAlwaysFinds` (`SearchFinds`): a search that ends without a ticket
  missed none that was in the file all the time;
- `ListingAlwaysWhole` (`ListingIsWhole`): the same of a listing;
- `ClientTypeCorrect` (`Krb4TypeOK`): a request is made with a ticket, what is
  saved is for a service and under a principal, and the file has tickets only.

All follow from `ClientAlwaysRight`: `KInv` is invariant.  It says that the data
is right and all of version 4 (`FileRight`); that every thread is right
(`ThreadRight`: only the innermost frame has an object, cursor and frame have what
the place in that frame needs, and the objects are of their kinds); and that each
object of the server is one of exactly one thread (`Own`), which is more than
`NothingLeftOpen` and what makes it inductive: a thread closes only objects of
its own.  For the searches it says how what is sought comes to be found
(`Found`): before there is an iterator, it is in the cache that the cursor
names; then each ticket sought is noted already or ahead of the iterator, and
the cache still holds all tickets of the iterator (`Ahead`); or there is nothing
left to find.  Other threads come between any two calls, and what keeps `Found`
then is `Flows`: whatever call is made, tickets do not move into another cache,
and a cache that stays keeps all of its tickets or none, since the library of
Kerberos 4 removes no single ticket (the one call of `cc_remove_cred`, in
`tf_save_cred`, is not compiled).  `FoundFlows` and `OthersKeep` put that
together; the rest is one lemma for each procedure, which says what its steps do
to its own thread.

`ClientTypeCorrect` needs a second invariant, `TInv`, since nothing in the code
looks at what a callee leaves: the callers go by its code.  `TInv` says that at the
places where a caller is going to take a realm or a ticket (`WantsRealm`,
`WantsTicket`) the frame above it is one of a procedure that leaves such a thing
(`Above`, `Leaves`), which holds all the way down the stack (`StackTyped`); that a
search which stopped with success has a ticket in its result, and `get_ad_tkt` one
in `cr` once it asks a KDC (`XTyped`, `AtTyped`); and that the data of the server has
principals and tickets (`Ours`).  The last closes the circle: what a search finds is
a ticket because what `tf_save_cred` filed was one.  Where `get_ad_tkt` does not test
what the second look for the realm said (`getadtkt.c:109`) it goes on with a name or
the unset buffer (`NoRealm`), of whose realm the file has no ticket; whatever comes
of that, a KDC is asked with a ticket and what is saved is one.

Only model-checked:

- `CallsNestSoFar`, since that calls nest less deep than `MaxDepth` is true of the
  calls of the run and not of any number of them;
- the liveness properties, which TLAPS does not do.

## Not modelled, and why

- **The status a listing leaves** (`TICKETINFO`): it goes by the ticket of the
  realm, or by what an earlier listing left when there is none.
- **The reference counts** (`init.cxx`, `secure.cxx`).  Each count has one lock,
  and it guards only the loading of a DLL and a handle to a token.
- **AFS, the registry's defaults and the dialogs' contents** of Leash.  They touch
  none of the state that the threads share.
- **The bytes of tickets and messages**: byte order, parsing, DES.
- **Windows**: whether the RPC security and the security descriptors keep other
  users out; the loading of DLLs on demand.
- **kclient, kview, the command line tools, wshelper**: sequential programs over
  the libraries above, and a port of the BIND resolver.

What would come next: the server composed with `HandleMap` in place of `HandleTable`.
