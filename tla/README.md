# OutgameServer in TLA+

OutgameServer is the lobby server of a game: clients connect over TCP, log in to an account of a
SQL database, look friends up, open and join game rooms, and are told when a friend comes or goes.
It is a Windows program on an I/O completion port. This directory holds TLA+ models of it,
TLC configurations that check them on small instances, and theorems proved with TLAPS.

## The system

| Part | State | Operations | Talks to |
|---|---|---|---|
| I/O core: `ServerCore.cpp`, `CompletionKey.h` | `m_sessionMap` under `m_sessionMapLock`; the one `ListenContext` with its accept buffer; per `Session` a socket, a state, a receive and a send buffer | `ProcessThread` on 2 x CPUs threads: accept, receive, zero bytes, write completion; `RegisterSession`, `UnregisterSession`, `Close`; `PostSend`, `PostReceive` | the kernel (completions, in any order over the threads); `PacketHandler::ReceivePacket` (callback) |
| Threads and queues: `OutgameServer.cpp` | `m_sendQueue`, `m_bRun` | `Start`, `SendThread`, `QuitThread`, `TriggerShutdown`, `Stop` | core (`Unicast`), handlers (`InsertSendTask`) |
| `PacketHandler.cpp` | `m_recvQueue`, callback table | `ReceivePacket` (on a worker), `Run` (own thread) | `UserManager`, `GameRoomManager` |
| Accounts: `UserManager.cpp`, `User.cpp` | `s_activeUserMap`, `s_activeUsername`, `m_userMapLock`, each user's friend list; column `State` of `[dbo].[User]` | login, logout, join, find (handler's thread); `UpdateActiveUserMap` (cleaner's thread); `UpdateState` (either) | database; sessions (`SetState`, `IsValid`, `delete`); send queue; rooms |
| Rooms: `GameRoomManager.cpp`, `GameRoom.cpp` | `s_activeGameRooms`, players of a room, each user's room | create, join, quit; the cleaner's removal | accounts |
| Connections: `DBConnectionPool.cpp`, `DBConnection.cpp`, `DBBind.h` | `m_bUsable` of each of 5 connections | `GetConnection` (spins), `ReturnConnection` | every query |
| Codec: `PacketLibrary` | none | header and protobuf payload | everyone |
| Clients: `TestClient` | one socket | connect with a first request, wait, go on, leave | core |
| Not part of the program's logic | | | `UtilityLibrary` (log), `PacketDataFactory`, `IOCPNetworkLibrary`, `IOCPServerLibrary/Session.h` (unused), `ImportLibrary`, `Protoc`, `DatabaseExport` (vendored, generated, data) |

What is hard about it:

* **Who may log in** is decided from the database column, acted on in two in-memory maps later, and
  undone by a second thread in the opposite order. No lock spans the three.
* **A session's state is a mailbox.** A handler sets `REGISTER`, `CLOSE` or `UNREGISTER`, queues the
  answer, and the worker that handles the completion of *some* send acts on the state it finds.
  Completions of one session are handled by several workers at once.
* **Lifetimes.** The cleaner deletes `Session` objects by the state `INVALID`; queues and completions
  keep plain pointers to them.
* **Shared buffers.** One accept buffer for the server and one send buffer per session, each reused
  while earlier contents may still be needed.
* **Crashes.** `ASSERT_CRASH` and a failed map lookup end the process; the column survives it.

What makes each part correct:

| Part | Properties |
|---|---|
| I/O core | a table entry has an open socket; a closed session is recognisable; no table leads to freed memory; the accept chain does not break; each answer is sent before the session is closed |
| Accounts | one connection per account; the index is the inverse of the map; the column tells the truth, after a restart too; who was told it is logged in is logged in; a dead user is reaped |
| Rooms | at most `MAX_PLAYER_NUM` players; a room code names one room; a user is in the room it refers to |
| Connections | used by one thread at a time; given back; a thread that waits gets one |
| Lifecycle | after the trigger every thread ends and every session is closed |

## The modules

* **`ServerCore`** - the I/O core. A connection is served by one `Session` object, so both carry one
  identifier. `job[t]` is the rest of the handler worker `t` is in: the code between two critical
  sections is a step, so two workers interleave between reading a session's state, changing
  the table and closing the socket. The kernel is modelled by what the code relies on:
  a receive completes with data or, when the peer is gone, with zero bytes; `SO_SNDBUF` is 0
  (`CreateSocket`), so a send completes once the client has the bytes, and *what* it gets is what the
  buffer holds by then; `closesocket` completes everything outstanding with zero bytes.
  `acceptBuf` is `ListenContext::acceptBuffer`: a packet of a first request only points into it.
* **`UserManager`** - `PacketHandler::Run` with the four handlers of accounts (one thread, `hnd` is its
  position inside a login) and the cleaner (`cln`). `m_userMapLock` is held by the cleaner exactly while
  `cln.pc = "erase"`; every other critical section is one step. A login is four steps: the decision
  (`AcceptLogin`), the maps under the lock, the column and the friends, notification and answer.
* **`OutgameServer`** - the composition: clients, core, handler, cleaner, send thread, restart; the
  properties.
* **`AccountDirectory`** - the abstract specification: who holds which account. A connection enters a
  free account, and loses it only after its client left or asked to, or was sent away, or when the service goes down.
  Any number of clients depart in one step, since the server sends all of them away at once.
  `OutgameServer!Directory` instantiates it with `holds <- name` and the clients that left or asked to; `ServerShutdown!Service`
  adds, from `Finalize` on, every client that had connected.
* **`ConnectionPool`** - the pool with the two threads that use it while the server runs. It is a model of its
  own, beside the composition: where `UserManager` makes a query as part of a step, here a request is the sequence of
  functions that get a connection (`Plan`), and the loop of `GetConnection` looks at one connection a step. A query
  that fails ends the use in one of the ways the code has: the connection is given back and the request refused
  (`ReturnConnection`), the function returns without giving it back (`ReturnEarly`), or `ASSERT_CRASH` (`Crash`).
  Start and the constructors and destructors of the managers, which use a connection before the threads run or after
  they ended, are left out.
* **`ConnectionHolders`** - the abstract specification of the pool: a connection is free, has one holder, or is lost.
  `ConnectionPool!Holders` instantiates it: a connection whose flag is set is free, one a thread has is held by it, and a
  connection that is neither is lost. The looking about of `GetConnection` is not visible; the exchange is `Get`, and every way a
  query may end is `LetGo`, with the connection back in the pool or not.
* **`GameRooms`** - `GameRoomManager.cpp` and `GameRoom.cpp` with the two threads that reach them: the packet handler
  (`CreateGameRoom`, `JoinGameRoom`, `QuitGameRoom`, each cut where the other thread can come in between) and the rooms'
  part of the cleaner (`Snapshot` to `Erase`). Users and rooms are `shared_ptr`s that refer to each other by `weak_ptr`s, and an
  object dies when the last table, copy or local lets go of it: `hnd` and `cln` name what each thread's locals hold, and
  `Settle`, the end of every step that lets go of something, destroys rooms and then users (`~GameRoom` resets the references of
  its players; a `weak_ptr` to a destroyed user reads `Gone`). It is a model of its own: logins and logouts here only make and
  remove users, and a request comes from a user that is in the map.
* **`ServerShutdown`** - extends `OutgameServer` with the end of the server: the key, `TriggerShutdown` with its null
  completions, what each worker and each loop still does once `m_bEndServer` or `m_bRun` has changed, `ServerCore::Finalize` with
  its loop over `m_sessionMap`, the join of the threads, `Stop`, and a new start. What the threads do at work is not written again:
  a step of the server is one of `OutgameServer`'s with a condition on who may still begin it and on what its
  pointers lead to.
* **`MCOutgameServer`**, **`MCConnectionPool`**, **`MCGameRooms`**, **`MCServerShutdown`** - constants for TLC.
  **`OutgameServerProofs`**, **`DirectoryProofs`**, **`AccountProofs`**, **`ColumnProofs`**, **`SessionProofs`**, **`ConnectionPoolProofs`**,
  **`GameRoomsProofs`**, **`ServerShutdownProofs`** - theorems and proofs.

An assertion that fails or undefined behaviour sets `fault`, and every action but `Restart` (in `ServerShutdown`,
`StartAgain`) needs `fault = "none"`. The faults are `assert` (`ASSERT_CRASH`), `end_iterator` (a lookup that failed is
dereferenced), `dangling` (a freed object is used), `race` (two threads in one container without a lock,
a lookup during `unsafe_erase` for instance) and, in `GameRooms`, `null_pointer` (a quit by a user that is in no room; `~GameRoom`
with a player that is gone). A race that the process survives is one order of the two steps or the other.
The safety properties say what the server does up to the moment the process is lost, and again after the
restart; they do not say that it is never lost. It can be: the model reaches every one of these faults.

Definitions with a suffix (`AuthenticateUser_exists`, `StartAccept_skipped`, ...) are
faulty variants of the definition that follows them. Nothing uses them; each names a plausible mistake
that one of the properties detects.

### Abstractions

Messages carry a kind and the account; passwords only decide that any login may be refused; a query may
fail where the code handles its failure. Reference counts are never read and are left out, as is
`Broadcast`, which no handler asks for. Clients behave as those under `TestClient`: one login or join per
connection, one request at a time, so a receive buffer is never overwritten before it is parsed, and a
session sends a second login only over a new connection. A failing `UPDATE` under `ASSERT_CRASH` is a
killed process (`Kills`). A worker takes a completion and reads the session's state in one step. The failure
to create a socket or to bind it to the port is left out. TCP is taken to deliver a request in one piece, as the receive
buffer is parsed after each completion.

In `GameRooms` a room code is a value: that a second attempt appends four digits to the first code is not
visible. A request of a user the cleaner has just erased belongs to `OutgameServer`.

In `ServerShutdown` `m_bRun` and `m_bEndServer` change in one step: a loop that sees `m_bRun` a moment earlier is one that
does nothing for a while. A worker that takes a completion after `m_bEndServer` is set returns without handling it, except for
a failed receive or send, which it unregisters first, as in the code.

## The runs

The two pool runs check `MCConnectionPool`, `Rooms` checks `MCGameRooms`, `Answers` `MCServerShutdown`, the others
`MCOutgameServer`; deadlock is checked in each.

| Run | Instance | Shows |
|---|---|---|
| `Login` | 2 connections, 2 workers, 2 accounts of which 1 exists; login, logout, join; clients may leave in any phase | the safety properties and the refinement, about 1.2 million states |
| `Friends` | 2 connections, 1 worker, 2 accounts that are mutual friends; login, logout; kill at any time | the account properties and `FreedUserIsErased` with notifications, failures and restarts, about 0.5 million states |
| `Liveness` | 2 connections, 2 workers, 1 account; login only; clients leave when logged in; kill at any time | `RequestAnswered`, `DeadUserReaped` |
| `Answers` | 1 connection, its session has number 1, 2 workers; login, find, logout; the client may leave while it waits or is logged in; the key pressed while the client is logged in, or while its login waits for the handler or is being handled | `AnsweredWhileRunning` over a longer exchange; `IntactUnlessTwice`, whose premise fails in a part of the behaviours; the shutdown: `LoopEmptiesMap`, `OfflineWhenStopped`, `ImplementsService`, `ShutdownCompletes`; about 0.15 million states |
| `Rooms` | 3 users, 2 rooms, 2 codes, a limit of 2; one client asks for everything and may disappear, one creates rooms, one joins | the room properties, about 0.33 million states |
| `LogoutReply`, `GoneUser`, `JoinedAccount`, `StaleFriend`, `OtherAccount` | the smallest instance that shows it | one expectation of a comment or test each, that the code does not meet |
| `Pool` | handler, cleaner, 4 connections, any number of requests | `Exclusive`, `ImplementsHolders`, `Served`, `LockReleased` |
| `PoolLeak` | the same with 3 connections | `EveryCallReturns`, which the early returns break |

Bounds. Two connections are enough for each conflict the code can have over an account: the old holder and
the new one (the third party, the cleaner, is a thread of its own). Two workers are
enough for completions of one session to cross. `MaxWritten` (2) bounds the write completions of one session
waiting in the port; two are needed for an answer to be overtaken. Each connection is used once, so
a history has at most as many logins as connections, and any number of restarts. In `Friends` one worker
suffices: the interesting interleavings there are those of the handler with the cleaner and the send thread.
The code opens 5 connections; what matters is how many
are left compared with the 2 threads, and with 4 every case occurs: enough for both, one for both, none. The number
of lost connections needs no other bound. `Presses` names the moments at which the key may be pressed: between requests,
and at each step of a login, where the handler, the cleaner and the destructor's `UPDATE` compete for the column; two workers
so that one can end and leave a null completion to the other. The session's number is 1 and not 0, so that the loop of `Finalize`
passes a number that is not in the map, which grows it, before it comes to one that is; the theorem covers every numbering.
In `Rooms` the limit is 2 (4 in the code) so that a host, a guest and one more fill a room; two codes, so that a code can come
back while the room that had it still exists. Room and user identities are used again once the object is
destroyed, so histories have no bound. Symmetry is used only in runs without liveness, over connections, workers and (when they play
the same part) accounts. A lookup does not distinguish accounts, so `find` names none.

Fairness. Threads are scheduled: weak fairness of what each thread can do on its own. The completion port is a
FIFO queue served by every worker, so a completion that is there again and again is taken: strong fairness
per session, and for accepting. The kernel completes what it can. A client that has connected sends its first
request: `AcceptEx` waits for it, and one silent client keeps every other out, so without this nothing can be
said. No client has to connect, to go on, or to leave. In
`GameRooms` the handler finishes the request it is in (weak fairness of `Continue`) and the cleaner is scheduled and gets a
lock that is free again and again (strong fairness of `Cleaner`); no client has to ask for anything. In `ServerShutdown` the
fairness is that of `OutgameServer` while the server is at work; nobody has to press the key, and once it is pressed the
threads, `TriggerShutdown`, `Finalize` and `Stop` are scheduled. A worker blocked on the port has to be woken: that it sees the flag by
itself (`WorkerSees`) is possible when it was between two completions, and never assumed. In
`ConnectionPool` each thread is scheduled (weak fairness of `Continue`); no thread has to begin a request, and no query
has to fail or to succeed.

### Properties

* `SingleLogin`, `NamesIndex`, `StateColumnTruthful`: accounts. `StateColumnTruthful` is about accounts that
  have a row when the server starts; what a join does to the column is a finding.
* `RegisteredIsOpen`, `ClosedUserIsInvalid`, `NoFreedSessionInMaps`: sessions. They are claimed for logins,
  logouts and joins (`Login`). A session that gets a second answer or a notification while the
  completion of its first answer is waiting can be registered twice, by two workers, and the second
  registration can cross with the close of the session: it re-enters the table with a closed socket and
  with state `MAINTAIN`. With `find` or friends the three do not hold, and they are not checked there.
* `IntactUnlessTwice`: what holds for every workload. Of each session by itself: if two workers never are in `RegisterSession` for it
  at once, it is in the table only while its socket is open, is `INVALID` once the socket of its user was closed, and is out of the
  table when it is freed. So the double registration is the one way to lose a session: that a completion acts on a state
  which a later answer has set, or that another worker closes the session meanwhile, does no harm by itself. The double
  registration does happen in the model (with lookups or notifications); whether it does is not claimed either way.
* `FreedUserIsErased`: the part of `NoFreedSessionInMaps` that holds for every workload: no user keeps a `Session` the
  cleaner has deleted, apart from the one it erases before it releases the lock. So it is checked in `Friends`.
* `GrantedMeansLoggedIn`: relates what a client was told to the maps and the socket.
* `ImplementsDirectory`: the server implements `AccountDirectory`.
* `ImplementsService`: so does a server that is shut down, and started again. Before `Finalize` begins the key may take no
  account from a client that stays, although completions are thrown away, workers return one by one, and the
  handler and the cleaner go on meanwhile.
* `RequestAnswered`: exempt are clients whose request was overwritten in the accept buffer (`Overwritten`) before
  it was parsed.
* `DeadUserReaped`: exempt are sessions that were not registered when the client left: see `GoneUserIsCleaned`. The run has
  logins only, where no session is registered twice; a session that is would lose its `INVALID` and its user would stay.

* `Exclusive`: a connection has at most one user, and one that has a user cannot be taken.
* `ImplementsHolders`: the pool implements `ConnectionHolders`: with the flags of the loop and the exchange apart, a thread still gets
  only a free connection, and lets go of none but its own.
* `Served`, `LockReleased`: while at least as many connections are left as there are threads, `GetConnection` returns
  although it looks at one connection after the other while the other thread takes and returns them, and
  `m_userMapLock`, which a logout and the cleaner hold across it, is released. With one connection left for two threads
  a thread can look at it each time the other has it, so no weaker condition will do.
* `WithinLimit`: a room lists at most `MAX_PLAYER_NUM` players. The check and the insert of a host are made without the lock,
  of a guest with it, and a name that comes back finds its earlier entry.
* `ListedInOwnRoom`: the room a user refers to exists and lists its name, although requests and cleaner both
  take players out, and a user may enter a second room without leaving the first.
* `ClosingIsRemoved`: a room whose host has left is either out of the table or has a thread that will take it out.
* `EndsAfterHost`: no room disappears from the table before its host has left it. Exempt is a room that was given the code of an
  earlier room which a thread is still to remove: the removal goes by the code.
* `AbandonedRoomEnds`: a room whose host has quit, or is gone while in the room, disappears. Not covered are hosts
  that leave a room behind: one that logs out, that creates or joins another room, or that the cleaner finds before it has entered its
  new room. Such rooms stay for ever; nothing in the code or its comments says otherwise.
* `LoopEmptiesMap`: the bound of `Finalize`'s loop is the size of a map that grows with each number it passes and shrinks with
  each session it closes; still it leaves no session open.
* `OfflineWhenStopped`: after a shutdown no account is in use.
* `AnsweredWhileRunning`: `RequestAnswered` up to the moment the key is pressed.
* `ShutdownCompletes`: after the key the process ends. Exempt are the faults on the way: the send thread and the handler may
  use the core, a session or the accept buffer after `Finalize` has deleted them (`SenderLost`, `HandlerLost`), and
  `TriggerShutdown` itself the core (`TriggerLost`), when the workers have all ended before it has posted every completion.

### What the code does not do

* `LogoutAnswered` (`MemoryPoolTestClient.cpp:340`): after a logout set `UNREGISTER`, the completion of an *earlier*
  answer closes the session; the logout response is not delivered.
* `GoneUserIsCleaned` (`UserManager.h:24`): a client that leaves before its session is registered leaves a
  user for ever; its account is locked until the server is restarted.
* `RefusedMeansLoggedIn` (`UserManager.cpp:401`): a joined account has `State` 0, which means online, and cannot
  log in until the server is restarted.
* `FriendLookupIsValid` (`User.h:44`): a friend that logged out since is looked up and dereferenced.
* `LoginIsOwn` (`UserManager.h:38`): two first requests in quick succession; the second overwrites the buffer the first
  is parsed from, and the first client is logged in to the account of the second.
* `EveryCallReturns` (`DBConnectionPool.cpp:46`): `FindUser` and `CreateActiveUser` return without `ReturnConnection` when
  a `SELECT` fails; once every connection is lost, `GetConnection` spins for ever, possibly with `m_userMapLock` held.

## The proofs

`OutgameServerProofs` proves, for any connections, workers, accounts, friendships, requests and client
behaviour, from the assumptions the modules state about their constants (in particular that the set of accounts
is finite and nobody is its own friend):

* `Typing`: `Spec => []TypeOK`. One lemma per thread; the notifications need that a finite set written as a
  sequence is a sequence of its elements (`SetToSeqTyped`).
* `LoginInvariant`: `Spec => []LoginInv`.
* `IndexMatches`: `Spec => []NamesIndex`, and `OneUserPerAccount`: `Spec => []SingleLogin`.

Why the invariant is what it is. `SingleLogin` follows from `NamesIndex`: an index maps an account to one
session. `NamesIndex` is not inductive: `insert()` keeps an existing entry, so a login needs to know that neither
map has one. That is `FreeToCreate`: an account that was let in is held by nobody *but the user the cleaner is about to
erase*, and since the cleaner holds the lock until it has erased it, by nobody at the moment of the insert. The
decision itself reads the column, which is why `RowKnown` is needed: every user's row says it is in use, except
while the cleaner is between its two writes and while a login has not written it yet. Finally a second login on
the same connection would find the session's own entry: `OneLogin` says that a connection has at most one
login between the client and the maps. Note what the argument does not need: that a login is of the account its
client named. The account is the one in the accept buffer, whoever's it is.

Four modules build on it, for the same constants:

* `DirectoryProofs` proves `Refinement`: `Spec => ImplementsDirectory`, by a step simulation. Most steps are invisible, a
  `CreateActiveUser` is an `Enter` because of `FreeToCreate`, and a restart is a `Collapse`. The hard steps are those that remove a
  user, `HandleLogout` and `Erase`: the abstract `Release` allows them only after the client left or asked to. So it is first shown
  (`PartingIsExcused`) that a session that is on its way out is `Excused`. `Ending` collects the ways a session can be on its way
  out: closed, reset, a completion with zero bytes waiting, a state that asks for its end, a thread that is about to close it, a
  request that ends its exchange, the cleaner. `Excused` says why that is in order: the client left or asked to leave, or
  the one login of the connection is behind it and it has no user (`Barred`: it was refused, or its request was a join).
  `LoginInv` is what excludes a later login.
* `AccountProofs` proves `ToldTheTruth`: `Spec => []GrantedMeansLoggedIn`. A `granted` or `found` that is queued, in a send buffer or read goes to
  a session with a user, or whose client left or asked to (`Told`), a user's socket was opened (`Opened`), and it is not closed while the client stays, by
  `PartingIsExcused`. That the user stays is read off the abstract directory: none of its steps takes an account from a
  client that stays.
* `ColumnProofs` proves `ColumnTellsTheTruth`: `Spec => []StateColumnTruthful`. The column is written after the maps by a login and before
  the maps by the cleaner, so the two must never be about one session. `Untouched` says why they are not: from before its request
  to its answer, the session of a login is in state `MAINTAIN`, is not registered, no thread is about to register or close it, and
  so the cleaner never finds it dead; for this a connection must not also have a join on its way (`FirstOnce`).

* `SessionProofs` proves what becomes of a session. `FreedUsersErased` (`Spec => []FreedUserIsErased`) holds for every workload:
  a login is of a session that is not dead, since the cleaner takes only users, and a user is erased in the same critical section
  in which its session is deleted (`NeverFreed`). `SessionsIntact` (`Spec => IntactUnlessTwice`) has no hypothesis on the workload:
  any requests, lookups included, any friendships. Its argument follows one session (`Sane`): before its first request is answered it is
  `Blank`, in no table and with nobody about to register or close it; while its state is `REGISTER`, or a worker is registering it, its
  socket is open, it is in no table and nobody is closing it; what is in the table is open and nobody is closing it; once its state is
  `CLOSE` it is in no table and nobody is registering it; and what is closed while it has a user is `INVALID`. The state that a completion
  finds need not be that of the answer it completes; it is enough that a close comes only from the table or from `CLOSE`, and that
  a registration begins only from `REGISTER`. The premise `OneRegistration` is used at one place, the end of a registration
  (`RegisterSane`): a second worker that is still to register the session would do so after it can leave the table again. Beside it stands
  `Orderly`, an invariant without any premise: a connection has one join (`JoinOnce`), waits once to be accepted
  (`Backlogged`), and a session without a socket sends nothing (`Unopened`). `SessionsIntactTogether` draws the conclusion for all
  sessions at once, in terms of `RegisteredIsOpen`, `ClosedUserIsInvalid` and `NoFreedSessionInMaps`. The theorems are about
  `Spec`, the server while it runs; through a shutdown the property is checked (`Answers`), and not proved.

`ConnectionPoolProofs` proves `PoolTyped`: `Spec => []PoolTypeOK`, and `ExclusiveUse`: `Spec => []Exclusive`, for any number
of connections. `Exclusive` says both that a connection has one user and that its flag is cleared; the second half is what makes
it inductive: a thread takes a connection only when the flag is set, so nobody has it. The leaks do not disturb it: a lost
connection stays flagged. `PoolImplements`: `Spec => ImplementsHolders` is a step simulation on top of it. That a connection
has one user makes the mapping a function of the state (`HoldersKnown`, `HolderKept`); an exchange changes the holder of one connection
(`OneChanges`), from free to the thread, and the end of a query from the thread to free or lost.

`GameRoomsProofs` proves the four invariants and `EndsAfterHost` (`RoomsTyped`, `RoomsWithinLimit`, `UsersListed`,
`ClosingRoomsRemoved`, `RoomsEndAfterHost`) for any users, names, rooms and codes and any limit of at least 2. One inductive
invariant, `Inv`, gives all five. Most of it says that what is held exists (`HeldExist`, `ReferredExist`, `UsersHeld`): a room is
not destroyed while a thread or the table holds it, and `~GameRoom` resets the references to it. `OwnNew` says that nobody but its
host is in a room that is being created, which is why the host finds it not full; `CodesMatch` that a room is in the table under its own
code, and that the cleaner forgets only rooms that are closing. The argument about destruction is made once
(`SettleGood`): if the parts hold of the rooms, references and tables a step leaves, they hold after the objects nobody holds are gone.

`ServerShutdownProofs` proves `ShutdownTyped`, `FinalizeEmptiesMap` and `StoppedMeansOffline`, for any number of connections
and workers and any numbers of the sessions. `LoopEmptiesMap` needs a count (`MapCounted`): the null entries are exactly the
numbers below the index, so there are `index` of them, and the index reaches the size of the map only when nothing else is in it.
`OfflineWhenStopped` needs `Settled`: once the loops are joined, no login is half done and nobody is being reaped,
so nothing is left that could write the column after the destructor.

The same module carries the server's own invariants through the end (`TypesToTheEnd`, `OneUserToTheEnd`,
`ColumnTruthfulToTheEnd`, `FreedUsersErasedToTheEnd`). `StepCases` says that a step is one of `OutgameServer`'s, the loss of a thread, a
step of the end, or `Stop`; the first kind is covered by the lemmas of the modules before, and the steps of the
end leave users, column and the positions of the two threads alone (`EndsFrame`). `LoginInv` itself does not hold after `Stop`, which
writes the column and leaves the index of names as it is; `Attended` says what holds instead, that no user
is left, and this is enough because no loop is left that could make one.

`DirectoryToTheEnd`: `ShutdownSpec => ImplementsService` is the refinement for a server that may be shut down. While
the core is up the argument is that of `DirectoryProofs`: `Parting` is kept, since neither a completion that is thrown away nor a
worker that returns closes a session (`StepParted`). From `Finalize` on every session is closed, and `Parting`, which
says that only those whose clients want to leave are, is false; it is not needed any more, because in the mapping
(`given`) every client that had connected has been sent away. What is needed is that nobody connects from then on, and
that those who have not connected are not counted (`Unmet`).

Assumptions: those the modules state about their constants, which TLC evaluates in the runs.

Every safety property of the passing runs is a theorem: without further conditions, except that `RegisteredIsOpen`,
`ClosedUserIsInvalid` and `NoFreedSessionInMaps` are theorems of behaviours in which no session is registered twice at once, which
`IntactUnlessTwice` says of each session by itself. That the three hold without that premise for logins, logouts and joins
is model-checked only (`Login`). Only model-checked: the liveness properties (`RequestAnswered`, `DeadUserReaped`, `AnsweredWhileRunning`,
`ShutdownCompletes`, `Served`, `LockReleased`, `AbandonedRoomEnds`), which are out of the prover's reach. The six
expectations the code does not meet are shown by TLC's counterexamples.

## Not modelled

* The codec and packet lengths, logging, the text of queries, ODBC's errors other than a failed query, passwords beyond
  "refused or not": nothing any property is about depends on them.
* `Broadcast` and reference counts, the lists of pending friends: code no request reaches, or data nothing reads.
* The failures of `Start` and `Run` before a thread runs (no database, port or listening socket), and of a socket later.
* `~GameRoomManager`: nothing deletes the manager.
* The console and the statistics of `TestClient`.
* `UtilityLibrary`, `PacketDataFactory`, `IOCPNetworkLibrary`, `IOCPServerLibrary/Session.h`: not part of the server's behaviour.
* `ImportLibrary` (protobuf and its tests), the generated messages, `DatabaseExport`. These are nearly all of the
  repository's lines; the server itself has about three thousand.

## How the project grew

1. `ServerCore`, `UserManager`, `OutgameServer`, `AccountDirectory`, then `ConnectionPool`; typing, single login and exclusive use proved.
2. `GameRooms` and `ServerShutdown` with their runs and proofs; typing of the pool; the refinement of `AccountDirectory`, the truth of what
   clients are told and of column `State` proved for all constants.

3. The life of a session proved (`SessionProofs`); `ConnectionHolders` and the refinement of the pool; the invariants of the
   server and the refinement of `AccountDirectory` carried through the shutdown.
4. What breaks a session, and that nothing else does, proved for every workload (`IntactUnlessTwice`).

Next steps would be an abstract specification of the rooms (who is in which room, and that it ends with its host) with a
refinement from `GameRooms`, and `IntactUnlessTwice` proved through the shutdown.
