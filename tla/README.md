# dynet-server in TLA+

TLA+ models of dynet-server, a framework of game server processes over
boost::asio, with their TLC configurations and TLAPS proofs. Source paths below
are relative to `src/Server/`.

## 1. The system

Five kinds of process, each with one main loop (`SSleep(1)`, then `Update` of
its servers and connections, e.g. `NetWs/ws_main.cpp:60`) and a few io threads:

| process | role |
|---|---|
| NetWs, world server | knows all the others; places each client on a login server and a data server |
| NetFep, front end | the clients' door; passes their messages on |
| NetLs, login server | handles a placed client's login |
| NetSs, scene server | handles a client in the game (unfinished) |
| NetDp, data server | the database (`DyNetMysql`) |

Clients connect to a front end. All servers connect to the world server, log in
there with their IDs, and are told of each other; login and scene servers then
connect to every front end and data server.

### Components, their state and operations

| component | state | operations | interacts through |
|---|---|---|---|
| `NetIOBuffer` | array, `m_nBegin`, `m_nLen`, mutex | Write, ReadRemove, RemoveBuffer, ClearBuffer | called by both threads of a socket |
| `NetSocket`, sending | `m_cOBuffer`, `m_arrSendBuffer`, `m_bSending` | ParkMsg, SendMsg, completion SendMsg | main loop calls, io thread completes |
| `NetSocket`, receiving | `m_cIBuffer`, `m_eRecvStage`, `m_nBodyLen`, `m_bExit`, timer | ReadHead, ReadBody, RecvMsg, ReadMsg, RemoveMsg, HandleWait | io thread fills, main loop takes |
| `NetServer` | `m_vecAcceptSocket`, `m_vecUsedSocket`, the acceptor | HandleAccept, Update, Disconnect, Clear, SetAccept | io threads push, main loop moves, visits and hands back; callbacks |
| `NetClient`, `ServerConnectMgr` | one socket and io thread per connection, the list of connections, the list of those to delete | ConnectToServer, HandleConnect, Update, RemoveServer, Disconnect | callbacks on both threads |
| `ServerSessionMgr` | sessions by socket and by server ID | CreateSession, InitSession, RemoveSession, LoginToWs, LoginToS | messages between servers, the macros of `BaseMsgHandler.h` |
| `ServerInfoMgr` | the servers logged in, with their loads | OnServerLogin, OnServerExit, OnLoadAddOne, GetLoadLestSession, the broadcast | the world server's handlers |
| `ClientSessionMgr` and the handlers of Fep, Ws, Ls, Dp | a session per client in each process, its status and servers | enter, key, placement, notices, exit | messages between servers |
| `ClientPlayer`, `ClientSession`, `XorCode` | a key on either side of a client's connection | ask, answer and change, encode and decode | messages between client and front end |
| `DbSession` | request and result queues, worker thread, two mutexes | ExecuteRsyncSQL, ExecuteAsyncSQL, GetAsyncResult | main loop queues, worker executes |
| `DbRecordSet`, `DbRecord`, `DbField` | a vector of records with a cursor, flags of what changed | move, edit, make, insert, delete, release | callbacks of `DbSession` |
| `ObjPool` | slices, a stack of blocks, a mark per block | CreateObj, DestroyObj | sessions and sockets live in it |
| `MemoryPool` | sixteen chains of free blocks | malloc, free | - |
| `Encrypt` (MD5), `ResourceBuffer` | a block and its count; a row of columns and a position | MD5, Digest; ReadFlagsRow, NextDataRow, getters | - |

### What is hard here

* Two threads share a socket with almost no locking: `m_bSending`, `m_bExit`,
  `m_nLen` and `m_eRecvStage` are plain fields. What keeps the send array from
  having two writers, and a parsed message from moving under its reader, is an
  order of steps and nothing else.
* Completion handlers run late: after `Disconnect` and `Clear` the aborted
  operations of the old connection, its timers and a handler half way through
  still run on a slot that is being given to the next connection, or on a
  `NetClient` that has been deleted.
* Errors are ignored in a stream protocol: a `Write` that does not fit returns
  false, nobody looks, and the framing is lost.
* A client can leave at any moment of a placement that four processes carry out
  with one-way messages, and its session ID is used again. A server can go down
  and come back with the same ID before its old connection was seen to end.
* The key of a client's connection changes on both sides while messages are on
  their way in both directions.
* Objects outlive what points to them: sessions in a pool that hands out first
  what it took back last, records that take themselves out of a vector, rows
  of a connection two threads use.
* Failed assumptions are `ASSERT`s (`DyNetSocket/NetConfig.h:86`): in the Linux
  and debug builds they end the process, in the Windows release build they do
  nothing.

Every hazard, with its source line and the properties that watch it, is in
`PROJECT.json` under `hazards`.

## 2. Modules

| module | models | correspondence |
|---|---|---|
| `NetIOBuffer` | `NetIOBuffer.cpp` | operators on a record `[max, begin, data]`; one operator is one critical section of `m_cMutex`. Cells of four bytes, the size of the length header. |
| `NetSocketSend` | `NetSocket.cpp`, `ParkMsg` to the end of the completion handler | `mainPc` and `ioPc` are the two threads inside `SendMsg`; each unlocked read or write is a step. `LenLoads` is how often the compiled `if(!m_nLen) return m_nLen` loads the field. |
| `NetSocketRecv` | `NetSocket.cpp`, `ReadHead` to `RemoveMsg`, timers | the io thread's handlers, the timer, and the main loop (`mainPc`) in `OnUpdateRecived`. The peer's frames arrive in any pieces. |
| `MessageChannel` | what a connection promises | abstract: in order, at most once, intact, until `faulty`. |
| `NetChannel` | two sockets and the stream between them | `S == INSTANCE NetSocketSend`, `R == INSTANCE NetSocketRecv` share `stream`; `Promise == INSTANCE MessageChannel` is the refinement mapping (`sent <- parked`, `faulty <- Faulty`). |
| `NetServer` | `NetServer.cpp`, and `Disconnect`, `HandleClose`, `Clear` | slots, the acceptor's queue, the two vectors, what is pending on each descriptor (`reading`, timers) and which handlers are ready to run (`ready`). `RecvMsg` is two steps, its test and its effect, for the main loop runs between them. `platform` is chosen at the start. |
| `NetClient` | `NetClient.cpp`, `ServerConnectMgr.cpp`, the client-side macros of `BaseMsgHandler.h` | `pc` is the main loop inside `Update`, `io[p]` each connection's thread from `HandleConnect` through the connected callback to the end of `run()`; `released` is the memory of the session just given back, which the next session may take; `m_mapServerIdSession` is the set of the IDs that lead to a session. |
| `ServerLogin` | `ServerSession.cpp`, `ServerInfoMgr.cpp`, the handshake macros and the handlers of entry, login, exit and placement in every server | one step per handler; a link is one TCP connection with its host's session and two queues; `byID` and `serverInfo` are the two tables that must agree. Servers go down and come back, links fall silent and time out. A `NetClient` whose io thread is faster than `ConnectToServer` is the step `ConnEnterEarly`. |
| `ClientDirectory` | what the world server promises the servers behind it | abstract: a directory of placed clients, the share of it that each server has seen last, and the shares it is going to see, in order. |
| `ClientRoute` | handlers of Fep, Ws, Ls and Dp about a client | one step per handler, one FIFO per link, a set of session records per process. `aborted` names the `ASSERT` that ended a process. `f2w`, `w2l`, `w2d` and the others are the links. `Directory == INSTANCE ClientDirectory` is the refinement mapping (`directory <- wsClients`, `coming` the versions a server goes through as it takes the messages of its link). |
| `ClientCipher`, `XorCode` | the key of a client's connection, from both sides; `XorCode` byte for byte | every message carries the number of the key it was encoded with; the client's two threads, the front end's handlers. `clientAborted` names the `ASSERT` that ended the client. `XorCode` goes by words, then bytes, as the code does; a byte is the set of its bits. |
| `StatementService` | what a database session promises those who queue statements | abstract: callbacks in the order of the statements, each at most once; nothing that is owed its rows is given up or gets those of another, until `faulty`. |
| `DbSession` | `DbSession.cpp`, `DbResult.cpp` | both queues, `worker` and `main` as the two threads inside a call, the rows that wait on the connection. `mysql_query` and `mysql_store_result` are modelled from what the code needs of them. `Service == INSTANCE StatementService` is the refinement mapping (`queued` the results, the worker's statement and the requests; `faulty <- crossed`). |
| `DbRecordSet` | `DbRecordSet.cpp`, `DbRecord.cpp`, `DbField.cpp` | one action per operation of a set or a record; `record` the objects ever made, the vector with its cursor, the flags; `table` the rows of the database. |
| `ObjPool`, `MemoryPool`, `Md5Digest`, `ResourceBuffer` | the headers and sources of those names | one action per operation; chains are pointers, blocks of the digest have four cells. |
| `NetSocketSendProofs`, `NetSocketRecvProofs`, `ConnectionProofs`, `NetServerProofs`, `ServerLoginProofs`, `SessionProofs`, `DatabaseProofs`, `UtilitiesProofs` | - | proofs, see 4. |

`MC*` modules hold the constants TLC needs; `MCUtilities` checks the four tools
in one run, each by itself, for they share no state. A definition named
`...Mutant`, or named under `mutants` in `PROJECT.json`, is its neighbour with a plausible mistake; the
properties are checked to fail with it.

How they fit together. `NetIOBuffer` is used by the two halves of a socket, and
`NetChannel` joins the halves and shows that they keep the promise of
`MessageChannel`. `NetServer` and `NetClient` are the two users of a socket; they
count messages and leave what these contain to the halves. The protocols above
(`ServerLogin`, `ClientRoute`, `ClientCipher`) take a link for that channel while
it is not faulty, which is why their handlers can be single steps and their
links queues. `ServerLogin` splits no callback, because all of them run in one
main loop, except the connected callback of a connection a server makes, which
`NetClient` splits. `ClientRoute` starts where `ServerLogin` ends: all servers
are up and know each other, and shows that the login and data servers follow
the world server's `ClientDirectory`. `DbSession` shows that its queues keep the
promise of `StatementService`. `DbRecordSet` is what a callback of `DbSession` does
with its rows.

## 3. What TLC checks

| run | states | question | answer |
|---|---|---|---|
| `net_socket_send` | 300,719 | Is the send array owned by one thread, is every accepted cell sent once and in order? | yes; `StreamIntegrity` under the condition that no cell was reported unread, which a build that loads `m_nLen` twice can break |
| `lost_wakeup` | violation | Does the completion handler go on when there is new data (`NetSocket.h:177`)? | no: it can see an empty buffer, lose the race for `m_bSending`, and leave a message behind |
| `net_socket_recv` | 121,323 | Do messages reach the callback in order, whole, at a stable place; is a silent peer dropped? | yes, until a store is refused or a body cut |
| `net_channel` | 87,202 | Do two sockets implement `MessageChannel`, and is the lost wake-up the only silent loss? | yes |
| `net_server` | 155,639 | Are slots conserved, never closed late, never deaf, visited once a pass, and returned? | yes, on both platforms |
| `net_client` | 152,289 | Does a message always find its session, an exit its session and its ID, do ended connections leave the list? | yes, until this side closes a socket under an operation, or reads a session it has released |
| `server_login` | 119,453 | Do the indexes agree through crashes and returns, what `ASSERT` can fail while all start up, is every connector told of every acceptor whoever logs in first (`NoneMissed`), do all end up connected, are the dead forgotten? | yes; a reconnection may be refused for good, and a connector can go down while it starts up (`GetNetClient`, below) |
| `client_route` | 88,976 | Do the login and data servers go through every version of the world server's clients, in order (`ClientDirectory`); is every client placed and every exit carried through? | yes, until one of two `ASSERT`s fails (below) |
| `client_cipher` | 13,151 | Can the client decode all it reads, and the front end all that a patient client sends; does `XorCode` undo itself? | yes; a hasty client is misread |
| `db_session` | 21,637 | Do the queues and the worker implement `StatementService`: callbacks in order, no valid select lost, rows to their own statement? | yes, until the two threads are inside the MySQL library at once, which `m_cDBMutex` does not prevent (below) |
| `record_set` | 425,814 | Is a record used after its release or released twice, does the cursor stay on its record while others come and go, does the destructor's loop end? | yes, unless a record is inserted twice; the cursor until a record at or before it goes |
| `utilities` | 67,464 | Are objects kept apart and blocks conserved whatever pointer is destroyed, is no small block lost or given out twice, is a digest that of all that was given, are columns read in order? | yes, except for what follows a digest |

**What the models show about the code.** Where the code has a weakness the
property names it as its exception, so that the rest is still checked:

* a completion handler's two loads of `m_nLen` around a `Write` send old cells
  again (`StreamIntegrity`, `Faulty` of `NetChannel`);
* the largest body the length check admits does not fit its array, and a full
  cache takes a header without its body (`DeliveredPrefix`);
* an aborted read sets `m_bExit` after `Clear`: a waiting slot of `NetServer` is
  visited for an exit again, and a `NetClient` tells a second exit, whose
  session is gone (`ExitOnce`);
* the session of a `NetClient` that was deleted by mistake keeps its ID: when
  that server is connected again `InitSession` fails, the new session has ID 0,
  and its exit fails the `ASSERT` of `RemoveSession` (`EnterRepeated`, the other
  exception of `ExitOnce`);
* `ConnectToServer` starts the io thread before it pushes the entry
  (`ServerConnectMgr.cpp:27`, `33`): a connected callback in between finds none
  and fails `ASSERT(pInfo)` (`BaseMsgHandler.h:165`; `EnterCreates` of
  `NetClient`, `ConnEnterEarly` of `ServerLogin`). It can bring a connector down
  while all are starting up, and `QuietStart` names it;
* a `NetClient` is deleted while its thread is in `run()` (`IoUsesDeleted`, an
  allowed end of `EndedIsRemoved`), and `RemoveServer` is given an ID read from
  a released session, which may have become another's (`mistaken`);
* `ConnectToServer` refuses a server whose old entry has not been removed yet,
  and nobody asks again (`refused`, an allowed end of `Interconnected`). A server
  whose own link to the world server fails stays away, for a NetClient that was
  connected once does not connect again;
* a peer that goes before it has logged in, or comes back before its old
  connection was seen to end, fails an `ASSERT` of its host (`aborted`;
  `QuietStart` says that neither happens while no server goes down and no link
  falls silent);
* a notice can reach the front end after its client has left, and then fails an
  `ASSERT` there (`RouteGranted` promises nothing after it);
* a client that sends between asking for its key and having it is misread
  (`MisreadNeedsHaste`);
* a record inserted twice is released twice, and the cursor of a set is not
  adjusted when a record at or before it goes (`CursorStays`);
* a `DELETE` names the row with key 0 because the key field is never read, its
  record stays in the set because no rows count as failure
  (`DbRecordSet.cpp:380`), and `INSERT` and `UPDATE` have no values: the actions
  are so, and no property is about it;
* a pointer to a session that is kept after `DestroyObj` destroys the next
  object of its block (`ObjectsApart` allows it). The mark that is there to tell
  them apart cannot be looked up: `GetMark` and `CheckMark` add `sizeof(T)` to a
  `T*` (`ObjPool.h:137`, `151`), which is `sizeof(T)` objects on, while `Create`
  and `Destroy` write `sizeof(T)` bytes on. Nothing calls the two;
* `Final` does not give the block back as it was, and restores half of the
  state where `ulong` has eight bytes (`spoilt`); a heap block whose front word
  looks like a length is never given back by `MemoryPool` (`FreeHeap`).

**Bounds.** Messages of one and two cells against a send array of two split and
join frames; four of them against a cache of five fill it with and without dead
space in front of the data. On the receiving side the five bodies are one cell
too short, plain, the largest that fits, the largest admitted and one cell too
long, and three of them overflow a cache of seven. Two slots and three
connections use a slot again while the other is in use; one timeout and one
message are enough for every pair of a late handler and a `Clear`. Two peers and
three connections make one of them again while the other's thread takes the
memory of its session; one message suffices to arrive before, in and after each
callback. One server of each kind, one fault and two sockets per pair let any of
them come back under its old ID while the old connection still has its session.
Two session IDs and three clients use an ID again in every stage of its last
exit, with two login servers to choose from. Four messages and three runs of the
client cover a key asked for, a hasty message, a client that starts again and
a notice for a session whose ID is used again.
Three statements let one rob another while a third is queued. Three records and
two rows, one of them with key 0, let a vector hold a record twice beside
another. The blocks of the memory pool are the smallest and the largest of two
neighbouring pools and one for the heap; pieces up to one and a half blocks
begin and end a block in every place.

`MaxStmts`, `MaxParks`, `MaxSends`, `MaxConns`, `MaxMsgs`, `MaxTimeouts`,
`MaxEnters`, `MaxConnects`, `MaxMessages`, `MaxFaults`, `MaxPlaces`, `MaxSent`,
`MaxRuns`, `MaxRecords`, `MaxLen`, `MaxSlices`, `MaxMark`, `MaxChunks`,
`MaxHeap` and `MaxGiven` bound only the model: they are tests in the guards of
what peers, clients and users of the code may do, never of what the code itself
does. `CHECK_DEADLOCK FALSE` is set because once they have done all that the
bounds allow, the system rightly has nothing left to do; `db_session`, whose
worker always can sleep, is checked for deadlock.

**Fairness.** Weak fairness of the main loop, which never leaves its `while`
(`ws_main.cpp:61`); of completion handlers, which io_service runs when ready;
of timers that are waiting. A call of `SendMsg` that has begun runs to its end,
but nothing obliges anyone to send another message, which is exactly why the
lost wake-up matters. In `NetClient` the main loop is fair, and so is each io
thread. `ServerLogin` asks less: as long as any process has something to take,
some process goes on. `DbRecordSet` asks that a destructor that has begun
continues. Peers, clients, the network and the servers' starts and ends owe
nothing: properties about them are conditional on what has arrived.
`ClientCipher` and the utilities have safety properties only.
`DbSession` assumes a statement of the library returns. Its worker needs no
more than weak fairness for `m_cDBMutex`, since the synchronous statements end.

**Where the threads cross in `db_session`.** For a statement with a callback
the worker gives up `m_cDBMutex` after `mysql_query` and fetches the rows
without it (`DbSession.cpp:182`). A synchronous statement can come in between.
If rows wait for the worker it is refused, and returns NULL although it is
valid. If the worker's statement has no rows, its `mysql_store_result` can take
those of the synchronous one: the callback of an update is called with the rows
of a select, which returns NULL. If the worker is reading, two threads use the
connection at once and what they get is undefined (`crossed`; `hasCrossed` in
`DbRecordSet`).
`RowsReachOneReader` says that nothing else goes astray before that.
The order of the callbacks survives it: `StatementService` keeps it even when
`faulty`.

**Assertions that end `client_route`.** Two `ASSERT`s can fail with one front
end: the front end's on a notice for a client that has left
(`NetFep/ForWorldMsgHandler.cpp:75`), and the world server's on the exit of a
client that left before it asked for a key (`NetWs/ForServerMsgHandler.cpp:196`:
the front end reports every exit). In the liveness properties a failed assertion
is an allowed end. With two front ends both number their sockets from one
(`NetSocket.cpp:8`), the session IDs collide at the world server, and its
`ASSERT` on `AddSession` fails. The run has one front end for that reason.

**Type invariants.** Each module defines one (`SendTypeOK`, `RecvTypeOK`,
`ServerTypeOK`, `RouteTypeOK`, `DbTypeOK`, `LoginTypeOK`, `ClientTypeOK`,
`RecordSetTypeOK`, `CipherTypeOK`). A run lists only `SendTypeOK`, which bounds
an array. `SendTypeOK`, `RecvTypeOK`, `ServerTypeOK`, `RouteTypeOK` and
`ClientTypeOK` are theorems; the types of the other modules, as far as the proofs
need them, are conjuncts of their proved invariants.

## 4. What is proved

All theorems are about the specification without fairness, for every value of
the constants that the module's named assumption allows, the bounds of the model
included: they hold for any number of messages, servers, faults or objects.
Every safety property that a passing run checks is a theorem.

| module | about | properties proved |
|---|---|---|
| `NetSocketSendProofs` | `NetIOBuffer`, `NetSocketSend` | `SendTypeOK`, `SingleWriter`, `StreamIntegrity` |
| `NetSocketRecvProofs` | `NetSocketRecv` | `MessageStable`, `DeliveredPrefix` |
| `ConnectionProofs` | `NetChannel`, `NetClient` | `KeepsPromise`; `SessionBeforeMessage`, `ExitOnce` |
| `NetServerProofs` | `NetServer` | `SlotsConserved`, `NoLateClose`, `NeverDeaf`, `EachVisitedOnce` |
| `ServerLoginProofs` | `ServerLogin` | `IndexesAgree`, `LoginedIsListed`, `QuietStart`, `NoneMissed` |
| `SessionProofs` | `ClientCipher`, `XorCode`, `ClientRoute` | `ClientReads`, `MisreadNeedsHaste`, `CodeRestores`; `FollowsDirectory` |
| `DatabaseProofs` | `DbSession`, `DbRecordSet` | `KeepsService`, `RowsReachOneReader`; `MembersAreLive`, `ReleasedOnce`, `CursorStays` |
| `UtilitiesProofs` | `ObjPool`, `MemoryPool`, `ResourceBuffer`, `Md5Digest` | `ObjectsApart`, `BlocksAccounted`, `ColumnsInOrder`, `DigestOfAll` |

A module that proves things about two modules extends both; they share no state.

**The container and the sending half** (`SendAssumption`). For every buffer,
`InitBuffer`, `Write` and `ReadRemove` keep the type and the bounds; what a
`ReadRemove` copies followed by what it leaves is what was there.
`SendInvariant`; `SendTypeCorrect`, `OneWriter` and `NoCellLost`, which are the
three properties of `net_socket_send`; `OptimisedNeverResends`: with
`LenLoads = 1` the condition of `StreamIntegrity` always holds. `SendInv` is the
three properties and two facts they need. That `nSend <= Len(arrSendBuffer)`
makes the cells of a pending write real cells, so that `Sent` has a type; that
`mainPc = "body"` implies a parked message lets `ParkBody` look at the last one.
`SingleWriter` must relate both threads and `bExit` to be inductive: a handler
that runs has the flag, so the main loop cannot be between its test and its
write, so the flag it saw clear stays clear until it sets it. `StreamIntegrity`
then follows step by step: a copy moves cells from the buffer to `Owed`, a
completion from `Owed` to `stream`, a `Write` appends to the buffer and to
`accepted` alike.

**The receiving half** (`RecvAssumption`): `RecvInvariant`, `RecvTypeCorrect`,
`MessageStaysPut`, `DeliveredInOrder`. That messages come out in order says
nothing about the cells on their way, so `RecvInv` says that there are positions
at which the frames of the messages sent start in the stream (`Framed`: a header
with the length, then the body, then the next header), and that, while nothing
was refused or cut (`Undamaged`), everything is at one of them (`Follows`): what
was delivered is the front of what was sent; the cache holds the cells from the
frame after that on; a pending read is at a header when the stage is `HEAD`, and
behind the header whose length is in `m_nBodyLen` when it is `BODY`. The
positions are quantified in the invariant, not computed, because the functions
that would compute them recurse over the messages.

**Two connected sockets** (`ChannelAssumption`): `ChannelInvariant`, and
`PromiseKept`: `NetChannel` implements `MessageChannel`. `ChannelInv` is the
invariants of the halves, through `INSTANCE`, and one fact that ties them. The
receiving half assumes a peer that sends whole frames. The sending half parks a
header and a body in two steps, so the frames are those of `Whole`, the cells
accepted and the body still owed, as long as no `Write` was refused; the stream is
the front of them by `StreamIntegrity`. Of the steps, a take of the main loop
delivers the next message because `Follows` holds of `Whole`; when the
connection is faulty the channel allows any; all others stutter.

**The connections a server makes** (`ClientAssumption`): `ClientInvariant`,
`ClientTypeCorrect`, `MessageHasSession` and `ExitToldOnce`, the invariants of
`net_client`. Both say that the main loop finds what another thread has made, so
`ClientInv` follows each connection through the two threads: before its first
handler a socket has nothing to tell (`Fresh`); a stored message, or a read on a
thread that takes completions, means that there is a session or that the main
loop is about to clear the socket (`Listening`); `m_bExit` stays set from the
exit callback to `Clear` (`Exiting`); and a socket never closed under an
operation has its session, is being closed, or has nothing more to come
(`Served`), which is what makes a second exit impossible. An exit finds its ID in
the map for two reasons: the callback put it there, or one before it did and it
is there still (`Known`); and until `RemoveServer` was given another's ID, an ID
in the map is that of the session of its socket, because a client leaves the
list only after its session (`Tidy`), so that `InitSession` does not fail.

**The life of a slot** (`ServerAssumption`): `ServerInvariant`,
`ServerTypeCorrect`, `NoSlotIsLost`, `CloseIsNeverLate`, `NoSlotGoesDeaf`,
`PassVisitsAll`, on both platforms. That a slot is in one place is a count of its
occurrences in the acceptor's queue, the ready handlers, the two vectors and the
main loop's hand: a step moves one occurrence. `NoLateClose` is not inductive:
that no `HandleClose` finds a slot in its next use follows from where its
descriptor is. `ShutIsClosing` says that a descriptor is shut down exactly while
one `HandleClose`, or the timer before it, is to come, and `DescriptorOfPlace`
that a slot in use has its descriptor open. `NeverDeaf` needs that a slot in use
is in a receiving stage (`UsedIsReceiving`), which is what `RecvMsg` tests before
it starts a read. `PassOrder` says that the slots visited, followed by those the
index has not reached, are the vector the pass began with; the erase at the index
is what keeps it.

**Login and the list of servers** (`LoginAssumption`): `LoginInvariant` and
`IndexesAlwaysAgree`, the property `IndexesAgree` of `server_login`. That an ID
leads to a session that bears it does not carry itself: the exit of one session
removes an index entry by ID, and would remove another's if two sessions bore
the same. `LoginInv` adds that a session bears the ID of the server at the other
end of its link or none (`OwnID`), and that every session that bears an ID is
the one its ID leads to (`Bearing`). Both are kept because a host binds an ID
only if it is free, and a session that was refused has none: its exit fails the
`ASSERT` instead of taking the entry of the session that kept the ID.

On top of it `ListInvariant` and `LoginedAlwaysListed`, the property
`LoginedIsListed`. The property speaks of what a server was told and of what the
world server knows now, so `ListInv` follows the answer between them: an answer
is in a link's queue only if the session at the world server's end bears the
server's ID (`AnswersTrue`), the link of a server's session with the world server
is its own and open at its end (`Sessions`), so that nothing but the host's exit
can take the ID from it, and the session still bears the ID when the answer is
taken and afterwards (`LoginedBears`). `Bearing` and `Listed` of `LoginInv` then
lead from the ID to the list. `Tells` and `Lasts` say what a step may do to one
link, and `ListKept` that this is enough; each action has one lemma.

Last `QuietStartUp`, the property `QuietStart`: while no server goes down and no
link falls silent, no `ASSERT` of a login or an exit fails; what can is one of a
placement, and the `ASSERT(pInfo)` of a `NetClient` that is connected too early.
`QuietInv` says that then, and until one of these ends a process, it is calm: a
login is the first message of its link and the only one (`LoginFirst`), no end of
a link closes (`QuietLink`), and each open link is the one its client knows for
that host (`Known`), so that a host is asked for an ID once.

`NobodyMissed`, the property `NoneMissed`: a connector that is listed has an entry
for each acceptor that is listed, or a list that names it is on its way, and loses
that only by removing its own entry (`toRemove`). The list that a connector sends
to `ConnectToServer` is thrown away unless its session is `LOGINED`, so the proof
rests on what comes first on a link: `NoticeInv` says that the world server's
answer is the first message of each link and comes only after the login
(`Greeted`), that a server that is down has no link (`DownAreAway`), and the type
of the entries. A step that lists nobody and leaves every queue as it is, but for
what is appended or taken from its front, misses nobody new (`OnwardNotices`). Of
`WsReqLogin` there are two cases: a connector that is listed last is sent the whole
list behind its answer, an acceptor that is listed last is appended to the queue
of every connector that is there. `NobodyMissedAtStart`: until something goes down
nothing is removed (`NothingRemoved`, from `QuietInv`), and so nobody is missed at
all.

**The key of a client's connection** (`CipherAssumption`): `CipherInvariant`,
`ClientAlwaysReads` and `OnlyHastyMisread`, the properties `ClientReads` and
`MisreadNeedsHaste`. `CipherInv` lists, for every status of the session, the
messages that can be on their way to the client and their keys (`DownInOrder`:
notices under the key that both have, or the new key in front of them);
it says how far the client's two threads are (`ClientPhase`), and that a client
that waits for its key has one message under way at most, under the front end's
key (`UpInOrder`).

`XorCodeRestores` says of `XorCode` itself that, for a message of any length and
any key, a second pass gives the message back. A byte is the set of its bits, so
the exclusive or of two bytes is their symmetric difference, and twice the same
mask is none (`XorTwice`). What is left is that both passes use the same mask at
each place, words and rest alike, and that `KeyIndex` never leads outside the
key: `KeyReadInside` divides a position by the word and by the length of the key,
which is a whole number of words. `KeyRestores` is the property `CodeRestores` of
the run, for every state.

**The route of a client** (`RouteAssumption`): `DownstreamFollows`, that
`DownstreamMirrorsWs` always holds, and with it `RouteTypeCorrect`, `DownstreamNeverAborts` and
`OneFrontEndAsksOnce`. It is about a fold over a link, so a step at
either end of the link must be shown to change the fold as it changes the world
server's table. That holds only if the messages on a link alternate for each
session ID: a session held or placed, its exit, the next placement
(`Alternates`). `RouteInv` keeps this of the links to the login and data servers
(`LsMirrors`, `DpMirrors`) because the world server announces an exit only for a
session it holds and a placement only for one it does not. It follows that no
`ASSERT` of those servers fails (`NeverDown`). With one front end the requests
for a place alternate as well (`AsksOnce`), and the world server is never asked
for a place twice; its `ASSERT` on an exit can fail all the same. Folds over
sequences are reasoned about by lemmas on what one message more at the end, or
one less at the front, does to them.

`RouteFollowsDirectory`: `ClientRoute` implements `ClientDirectory`, the property
`FollowsDirectory`. A server's share is not compared with the world server's
table only at the end of the link, as `DownstreamMirrorsWs` does, but after each
of its messages: the fronts of a link give the shares that are coming. A placement
or an exit changes the directory and puts one message on two links, which adds
one share to each (`LsVersionsPut`, `PlacesInDirectory`, `LeavesDirectory`); a
server that takes a message sees the first of its shares (`LsLearns`, `DpLearns`),
also when a session ID is used again on the way; all else stutters. The abstract
server adds a share only when it has changed, and the world server's messages
must be shown to be exactly those changes (`DirectoryChanges`): it announces a
placement only for a client it does not hold, an exit only for one it does.
`DownstreamMirrorsWs` is what `FollowsDirectory` says of the last share; it is
the invariant the refinement rests on and no run lists it.

**Statements** (`DbAssumption`): `AnswersKeepOrder`, `SelectsAreKept` and
`RowsHaveOneReader` (`AnswersInOrder`, `SelectKept`, `RowsReachOneReader`). `DbInv` takes
what is on its way, requests, the worker's statement and results, as one sequence
(`Pipeline`) whose IDs increase; that it increases survives the crossing of the
threads. What is said of rows holds until then: rows wait on the connection only
for the thread that is about to store them, and a select of the worker has the
connection to itself (`ConnectionHeld`); rows that were fetched wait no more, so
that no second reader can be given them (`RowsFresh`, `SyncsFresh`). `ModesKept`
keeps the two kinds of call apart.

`ServiceKept`: `DbSession` implements `StatementService`, the property
`KeepsService`. What the abstract service has queued is the front part of
`Pipeline` that has not been told: results, the statement in the worker's hand,
requests. Moving a statement from one to the next leaves it as it is
(`QueuedPop`, `QueuedRead`), `Update` takes its head (`QueuedUpdate`), and a refused
statement disappears from the middle of it (`QueuedDrop`); that it was not owed
its rows then, unless the threads have crossed, is `DropsKeepSelects`: a select
of the worker has the connection to itself. `AnswersInOrder` and `SelectKept` are
implied by `KeepsService`, and no run lists them.

**Records** (`RecordSetAssumption`): `RecordSetInvariant`, `MembersStayLive`,
`RecordsReleasedOnce`, `CursorKept`, the safety properties of `record_set`. That
a release takes its record out of the vector makes the vector name live records
only if the record stood there once: `Apart` says that two places of the vector
hold the same record only if it was inserted twice. `RowsHeld` says that until
its end the set holds all that is left of the records it was made of, which
`ReleasedOnce` needs of the end. For `CursorKept`, a record that goes leaves all
that stand in front of its first place where they were (`WithoutBehind`); a
record that is not at or before the cursor has no place there, also when
`DeleteRecord` takes it out twice.

**Pools and tools.** `PoolInvariant` and `KeptApart` (`PoolAssumption`):
`PoolInv` says that the blocks on the stack are those of the slices that nobody
has, each once, that the mark of a block is that of its last object, and that
one object at most lives in it.

`MemInvariant` and `BlocksAlwaysAccounted` (`MemoryAssumption`): the property
follows `_next` from the head with a recursive function. `MemInv` says instead
that there is a chain, a function from `1 .. n` to the free blocks of the pool
which takes each once, such that `_next` leads from one to the next and at last
to `NULL`; and that what callers hold is held once (`HeldOnce`). That the recursive
walk visits the chain is shown by a least counterexample, which well-founded
induction gives without an operator as parameter; so is that the free blocks
are finitely many.

`ColumnsStayInOrder` (`ResourceAssumption`): the columns that the values were read
from are a strictly increasing function into the flagged columns, which takes
all up to where the reader is.

`Md5Invariant` and `DigestsAreOfAll` (`Md5Assumption`), for blocks of any size:
a context holds of a message the whole blocks and, in the front of the buffer,
the rest (`IsContext`). `UpdateKeeps` shows that a piece of any length leads from
the context of a message to that of the longer one, which is a fact about
division: a number of cells is a number of blocks and a rest in one way only
(`DivUnique`). `Final` is two updates, so its answer is that of the padded
message; `FinalSpares` shows that padding that fits into the last block writes
behind what the block held, so the context is as before.

**Only model-checked.** All liveness (`AllDelivered`, `SilenceEnds`,
`DeliveredOrStranded`, `SlotReturns`, `Interconnected`, `DeadForgotten`,
`EndedIsRemoved`, `RouteGranted`, `ExitPropagates`, `SelectAnswered`,
`DestructionEnds`), which is out of the prover's reach. The bytes and keys that `client_cipher`
uses are samples; the theorem is about all of them.

## 5. Not modelled

* `Geometry2D`, `typedef.h`, the `def_` headers: pure functions on floats, and
  declarations nothing uses.
* `DeallineAsync`: no server makes an object of it.
* `LogManager`, the configuration of the servers, the commands of the test
  client: input and output. The set of servers is a constant of `ServerLogin`.
* The Proc handlers of the world server and the scene server's part in the
  game: their bodies are commented out or empty, and no client gets the status
  `IN_SCENE`. The scene server's login and connections are those of a login
  server (the constant `Ss`).
* Of `NetIOBuffer` `MoveBuffer`, `Read` and `ReleaseBuffer`, which the sockets do
  not use; of `DbSession` the destructor, which nothing calls; of `ServerInfoMgr`
  `OnLoadSubOne`, which nothing calls, so that loads only grow.
* `Transform` of MD5 is abstract, with `Decode`, which extends the sign of bytes
  from 128 up; and `toString` is left out. `ResourceBuffer` takes the parsing of
  text to numbers for granted: a flag is one digit, of which the code tests the
  character, and no line consists of blanks only.
* Contents of fields in `DbRecordSet`: assignments keep that a field has changed.
  Nor are the bytes of a row there (`DbRecord::SetBuff`), whose size nothing tests.
* `GetMark` and `CheckMark` of `ObjPool`, which nothing calls (above).
* `Clear` of `NetServer` and `NetClient` without the sending half: that it sets
  `m_bSending` and `m_cOBuffer` back, and that the completion of a write of the
  old connection may come after it, is in no model. `NetSocketSend` is about one
  connection.
* The length of the fixed array of the servers' list
  (`ServerInfoMgr.cpp:178`), which every model takes to suffice.
* Message contents after placement: no handler keeps state of them.

## 6. Plan

Done, in this order: `NetIOBuffer`, `NetSocketSend` and its proofs,
`NetSocketRecv`, `MessageChannel` and `NetChannel`, `NetServer`, `ClientRoute`,
`DbSession`; then `ServerLogin`, `NetClient`, `ClientCipher` with `XorCode`,
`DbRecordSet`, the four tools, and the proofs of `NetClient`, `ServerLogin`,
`ClientCipher` and `ObjPool`; then the proofs of every other safety property, with
the refinements of `MessageChannel`, `ClientDirectory` and `StatementService`.

What is left:

1. `ClientRoute` with servers that go down, on `ServerLogin`'s view of them.
2. An abstract membership that `ServerLogin` implements: who is listed, who has
   been told, and what each is going to be told. `NoneMissed` is what it would
   promise.
3. A sending half that is used again: `Clear` between a write and its late
   completion.
