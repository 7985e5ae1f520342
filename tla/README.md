# Verification of the game server

TLA+ models of the server in `src/服务器组件`, TLC configurations that check
them on small instances, and TLAPS proofs for every instance. Line numbers are
those of the source files; `PROJECT.json` maps every definition to its lines.

## 1. The system

One game server process (`游戏服务器`) hosts one room. It is built from the engines
of the kernel library (`内核引擎`), each with threads of its own, around one
"attemper" sink that holds the application state. Several game servers register
with a coordinating server (`协调服务器`).

| part | state | operations | interacts with | what makes it correct |
|---|---|---|---|---|
| TCP network engine (`TCPNetworkEngine.cpp`) | pool of socket items, free and active list, per item: handle, pending receive and sends, round counter | accept, receive, send, batch send, close, shut, detect, start, conclude | clients; its event queue calls the attemper sink; called by every thread that runs the sink | the lists partition the pool; no buffer of a released item is in use; a packet reaches only its addressee; events of a slot are Accept, Read\*, Shut |
| ring buffer (`YSDataQueue.cpp`) | positions, sizes, memory | insert, distill, grow, remove | under every queue | first in, first out; nothing is overwritten |
| queue service (`QueueService.cpp`, `YSThread.cpp`) | ring buffer, completion port, thread | add, handle, start, conclude | every engine's sink | in order, once; a stop waits for what was posted |
| timer engine (`TimerEngine.cpp`) | active items | set, kill, scan, start, conclude | its queue calls the attemper sink | not early, not too often, no drift, fires |
| request coordinator (`DBCorrespondManager.cpp`) | list of requests, users with a request under way | post, complete, timer, conclude | kernel database engine | per user one at a time and in order; a cached request is not lost |
| database engine and sink (`DataBase.cpp`, `DataBaseEngineSink.cpp`) | queue, connection | one handler per request | reports to the coordinator, calls the attemper sink | each request executed or reported |
| attemper engine and sink (`AttemperEngine.cpp`, `AttemperEngineSink.cpp`) | bind parameters, users, tables | one handler per event | everything | a session belongs to the connection that logged on; every entry into the room is closed once |
| user manager (`ServerUserManager.cpp`) | user items, status, table score, rest, frozen fee, variation | create, delete, status, scores | sink, tables, database | no gold is created or lost in the room; record and cache get every change once |
| table frame (`TableFrame.cpp`) | seats, lookers-on, game status | sit, stand, look on, ready, start, conclude, dismiss, offline | sink, game plug-in | seats and users agree; only a game has players, two or more; no start is missed |
| game plug-in, here 牛牛 (`TableFrameSink.cpp`) | phase, banker, bets, cards | start, call, bet, open, leave, join, timer | table frame | never waits for nobody, bets are covered, wins and losses add up, ends |
| private rooms, matches (`私人场服务`, `比赛服务`) | rooms, groups, stages | create, join, vote, rank | table frame | a room is dissolved once, a card is paid once |
| robots (`AndroidUserManager.cpp`), TCP socket service, asynchronism engine | | | | |

Calls and threads. The network engine posts events to a queue of its own, the
timer engine and the socket service likewise, and the database engine calls
`OnEventDataBaseResult` directly: the attemper sink runs on all these threads
without a lock of its own. Everything between the engines goes through
`CQueueService`, and that through `CYSDataQueue`.

What is hard here: completions, closes and slot reuse race each other; the
detect loop works on stale copies; a stop joins threads that take locks and
still post; packets wrap and grow the ring buffer; a failed database request is
repeated while later ones wait; counters and ticks wrap. `PROJECT.json` lists
these hazards at their lines, with the properties that would catch them.

## 2. Modules

| module | code | role |
|---|---|---|
| `NetworkEvents` | what `CAttemperEngineSink` relies on | abstract specification of the events of the network engine |
| `TCPNetworkEngine`, `TCPNetworkEngineProofs` | `TCPNetworkEngine.cpp`, `.h` | the network engine; implements `NetworkEvents` (property `EventOrder`) |
| `FifoQueue` | | abstract first-in first-out queue |
| `DataQueue`, `DataQueueProofs` | `YSDataQueue.cpp` | the ring buffer; implements `FifoQueue` for packets of one size (property `FifoOrder`) |
| `QueueService`, `QueueServiceProofs` | `QueueService.cpp`, `YSThread.cpp` | the queue service over an abstract queue |
| `TimerEngine`, `TimerEngineProofs` | `TimerEngine.cpp`, `QueueServiceEvent.h` | the timers |
| `DBCorrespondManager`, `DBCorrespondManagerProofs` | `DBCorrespondManager.cpp`, `DataBase.cpp` (engine part), `DataBaseEngineSink.cpp` (dispatch) | the coordinator with the database engine |
| `Sessions`, `SessionsProofs` | `AttemperEngineSink.cpp`, `ServerUserManager.cpp`, `DataBaseEngineSink.cpp` | connections, users, logons and their late answers |
| `UserScore`, `GoldProofs` | `ServerUserManager.cpp`, `TableFrame.cpp`, `AttemperEngineSink.cpp`, `DataBaseEngineSink.cpp` | the gold of a user from the database to the table and back |
| `TableFrame`, `TableFrameProofs`, `MCTable` | `TableFrame.cpp`, `AttemperEngineSink.cpp` | the tables of a room; `MCTable` names the games the runs use |
| `OxGame`, `GoldProofs` | `游戏组件/牛牛/游戏服务器/TableFrameSink.cpp`, `GameLogic.cpp` | one game, from its start to the settlement |

How they fit together: `DataQueue` is what `QueueService` takes as a queue;
`QueueService` is what the network, timer and database modules take as an ordered
queue that loses nothing while it runs; `NetworkEvents` is the environment of
`Sessions`; `DBCorrespondManager` (requests of one user in order, one at a time, once)
is the request queue of `Sessions` and of `UserScore`; `OxGame` is the plug-in that
`TableFrame` has as `Ends` and `GameEnds` (that every game that is played ends is
the property `GameEnds` of `OxGame`, so a player who is offline is released in the end, as
`GamePlayed` says that only a running game has players).

The definitions called "Faulty variant" are plausible bugs; each one makes TLC
refute the property it is listed with in `PROJECT.json` (`mutants`), which shows
that the property says something about that piece of code.

### TCPNetworkEngine

Variables are the members of `CServerSocketItem` (one entry or element per
slot) and of `CTCPNetworkEngine`, the progress of the threads, and the
operations the operating system owns (`inflight`). A handler that runs under the
item's lock is one action, except where other threads see its middle: a close
(`CloseSocket`, `OnCloseCompleted`) gives the item back to the pool before it
resets it, receive and accept post their events one by one, and the detect loop
reads the tick before it takes the lock. `hold[i]` names the thread inside.
Packet contents, encryption and the WebSocket codec are abstracted: a packet is
its addressee. `Env` selects what the environment does in a run.

`NetworkEvents` is the promise to the sink, which indexes its sessions by
`LOWORD(dwSocketID)` alone on a Shut (`AttemperEngineSink.cpp:1280`): per slot
Accept, Read\*, Shut and never the same socket ID twice. The refinement maps the
announced connection of a slot to "service runs and the item is not notified".

### DataQueue and QueueService

`DataQueue` keeps positions and sizes and the set of packets that are readable
in memory; a write destroys what it overlaps. `RectifyBuffer` and `InsertData`
are one action each for the case with room and the case that grows.
`QueueService` uses an abstract queue, models the completion port as a
sequence, the queue thread in its steps (take a completion, take the packet, call
the sink) and `ConcludeService` in eight: the count of the packets, with the lock
given back (`QueueService.cpp:165`), and the end of `m_bService` (177) are two of
them, and `RemoveData` (197) clears whatever came in between. Failing `CreateIoCompletionPort` and
`_beginthreadex` calls are left out.

### TimerEngine

The list of active items in its order, the scan of the whole list under the
lock, the sleep between scans, the queue to the sink, and the phases of
`ConcludeService`. `GetTickCount` is the real time modulo `Width`. The pool of
free items is only an allocator and left out. `ConcludeService` moves the items
without the lock; a concurrent `SetTimer` is ordered before or after that move.

### DBCorrespondManager

The request list, the set of users under way, the queue of the database engine,
and the request being executed. Request contents are their user, order and
cache flag. Any request may fail; `failed` is history, the requests whose statement
was not carried out. Assumed: a statement that fails leaves nothing behind in the
database (a stored procedure rolls back). `CDataBaseEngine` runs one sink
(`SetDataBaseEngineSink` sets the count to 1), so requests execute in sequence.
The handlers of cached requests (scores and leave records) ignore the result of
`ExecuteProcess` and report success (`Reported`), so a cached request is in fact
never repeated (`MCDBLost`). `OnTimerNotify` never finds work (`NothingWaits`), so it is always
a stutter.

### Sessions

A `tagBindParameter` per slot and a `CServerUserItem` per user that point at each
other, the store of free items (the last one is taken first, so a pointer that is
left over soon means somebody else), the requests of each user, and the answer the
database thread works on. `OnDBLogonSuccess` is split where it tests, inserts and
binds, and the other threads run in between, as nothing in the code keeps them from
it. `records[u]` counts the entries of a user that the database has opened (logon) and
not closed (leave record). `asked` is a history variable for `OwnSession`; `raced` is
one that says whether another thread has changed the slot or the item of an answer
between its tests and its writes, the one case in which the sessions break. Sockets are closed by
Shut events only, since `ShutDownSocket` does nothing (section 4). A table is
reduced to the status of its users.

### UserScore

One user, followed through logons, games and logouts. The purse has the members of
`CServerUserItem` that hold gold; `held` is the fee noted for the chair. A request
carries its change, and the database adds it to the record and to the Redis copy.
A logon may be posted at any time, also while the user is in the room. SQL procedures
are external: they add the change, or fail, which the handlers do not notice; each
command to Redis may fail too, which leaves the copy unread, unfilled or without the
change. The exchange ratio is applied where the code applies it, to what
`InsertUserItem` brings to the table (`ServerUserManager.cpp:1378`), and nowhere else.

`earned`, `posted`, `entry` (what the logon of the present item has read), `unwritten`
and `uncached` (what a failed request has kept from the record and from the copy) are
history. Left out: the insurance, to and from which `ModifyUserInsure`
(`ServerUserManager.cpp:707`) moves gold; the cast of amounts to `int` for Redis
(`DataBaseEngineSink.cpp:3007`; amounts are unbounded here); and a lost Redis connection
whose reply is no object at all, which the `hgetall` of the logon (443) meets outside
of the `try` block.

### TableFrame and OxGame

Both objects call themselves in the middle of their work: a stand-up makes the
plug-in end the game, ending the game stands offline users up, and each stand-up
may start the next game. Their operations are therefore operators from a state (a
record) to the set of the states they may lead to, composed the way the calls are
nested, and an action makes the state become one of them. `config` is the game of
the room: start mode, chairs and whether one may join a running game. Matches,
private rooms, robots, passwords and the rules that close a room are left out.

`ConcludeGame` is its two loops over the chairs. The first makes everyone sit and
stands up who is offline, and such a stand-up may start the next game; the second,
which makes lookers-on of some, is entered when no game runs then
(`TableFrame.cpp:322`) and asks that once. In a game that may be joined late, a game
without players can come out of this (`MCTableEmpty`); the plug-in was reset under it
(318), so nothing is assumed to end it.

`OxGame` abstracts the five cards of a player to their type and to whether the
highest card beats the banker's. The object is reset between two games, except
for the banker and the first caller, as in `RepositionSink`. Amounts are those
before the tax. `timer` is the timer that answers for players: every answer that is not
refused sets it anew (`TableFrameSink.cpp:806`), also one that changes nothing, and an
event that is already in the queue when that happens still comes.

## 3. Runs

| run | expected | checks |
|---|---|---|
| `network` | pass | one slot under everything but early clients: `PoolPartition`, `KernelOwnership`, `ReleaseFindsActive`, `CleanOnAttach`, `UnicastStaysPrivate`, `EventOrder` |
| `network_live` | pass | two slots and two completion threads, sends, closes, a stop, failing completions and accepts: `ClosedIsReleased`, `ConcludeReturns` |
| `ring` | pass | one packet size, wrap and growth: `PartsAddUp`, `FifoOrder` |
| `ring_mixed` | violation | several sizes: `RectifyAsserts` |
| `queue` | pass | posts, stops, restarts: `DataPresent`, `InOrder`, `DueHandled`, `ConcludeReturns`, `PacketsHandled` |
| `db` | pass | two users and the server, failures of every kind, a restart: `OneUnderWay`, `UserOrder`, `NothingWaits`, `CachedKept`, `CachedExecuted` |
| `timer` | pass | two timers, late scans, a restart: `NoDrift`, `RepeatBound`, `TimerFires` |
| `session` | pass | two users on two slots, late, refused and doubled logons, moves between slots: `SourceBound`, `OwnSession`, `EntriesBalanced`, `EntriesClosed` |
| `session_race` | violation | a Shut in the middle of an answer: `SessionsOwned` |
| `purse` | pass | one user, games, fees, bring-ins, logons at any time, a failing request, a ratio of 2: `Backed`, `LogonReads`, `Settled`, `CacheAgrees`, `FeeReleased` |
| `table` | pass | four users, every start mode, games that may be joined late: `SeatsAgree`, `GamePlayed`, `NoMissedStart`, `StartPlayed` |
| `ox` | pass | two or three players: `WaitsForPlayer`, `BetsCovered`, `Conserved`, `GameEnds` |

Beside the runs there are configurations for the other cases in which the code breaks
a property or what it says of itself (section 4). Each has one property, which TLC
finds violated within seconds, for example `tlc -config MCDBLost.cfg DBCorrespondManager`:

| configuration | module | what it shows | violated |
|---|---|---|---|
| `MCNetworkDropped` | `TCPNetworkEngine` | the last completion of a closed item fails | `CloseIsAnnounced` |
| `MCNetworkWrap` | `TCPNetworkEngine` | the round wraps | `UnicastStaysPrivate` |
| `MCQueueStop` | `QueueService` | a post in the middle of a stop | `ServicePacketsHandled` |
| `MCQueueLate` | `QueueService` | a post to the stopped service | `ConcludeReturns` |
| `MCDBLost` | `DBCorrespondManager` | the statement of a cached request fails | `CachedRepeated` |
| `MCDBUnhandled` | `DBCorrespondManager` | a request kind without a case | `CachedExecuted` |
| `MCTimerWrap` | `TimerEngine` | a due time beyond the wrap | `NotEarly` |
| `MCUserRelogon` | `UserScore` | a logon executed before the leave record | `Whole` |
| `MCUserFaults` | `UserScore` | a statement fails | `CopyIsRecord` |
| `MCUserRatio` | `UserScore` | a ratio of 2 | `Whole` |
| `MCTableEmpty` | `MCTable` | the end of a game starts the next in its loop | `GamesHavePlayers` |
| `MCTableMoves` | `MCTable` | a seat asked for at another table | `SeatsAgree` |
| `MCOxSmall` | `OxGame` | a limit below 8 | `GameEnds` |
| `MCOxLate` | `OxGame` | players who leave after the deal | `LeaversPay` |
| `MCOxJoiner` | `OxGame` | a user joins on the chair of one who left | `JoinerUntouched` |

Each property has its statement as a comment in its module.

### Bounds

- Network: `MaxRound = 2` lets a slot be reused once, which is what stale socket
  IDs, stale copies and the window between release and reset need; `RoundMod`
  is large enough that the round does not wrap (section 4). One waiting request
  and one pending send per item suffice to race a close; `MaxTick = 2` with break
  times 0 lets the detect loop break live and stale items. Two slots are needed
  for threads that are busy with one slot while another waits (`network_live`), two
  completion threads for one that ends at a failed completion while the other goes on.
  The callers of `network_live` do not post requests that have no effect ("shut",
  detect) without end, which would keep the send queue from running empty.
- Ring: 14 packets of size 3 in a buffer of at most 60 wrap, grow in one part and
  in two parts, and are read in between.
- Queue: 6 posts and 3 starts: posts in every phase of a stop, and a service that
  starts after one that was stopped. `Late = TRUE` adds posts to a stopped
  service (`MCQueueLate`); the safety properties are proved for both values.
- Database: 4 requests of 2 users and the server, 2 failures of any kind, one
  stop: cached requests wait behind a failing one, others are interleaved.
- Timers: 2 timers, 2 calls of `SetTimer`, time to 6 with granularity and lead 2:
  a rounded interval, the lead, a last event after a first one, scans that catch
  up over several periods.
- Sessions: 2 users, 2 slots, 2 connections and one waiting logon in all: a slot that is
  reused while an answer is on its way, or a second connection of the same user while
  the first one is online, playing or offline, or connections of both users, who take
  pooled items from one another. `RoomLimit = 0` makes the room full with one user in it.
- Purse: gold 5, results of 4, bring-ins of 1 and 6 around a default of 3 and a limit
  of 2, a fee of 2, a ratio of 2: splits that leave a rest and splits that do not, fees
  that cannot be paid, negative balances; 2 changes, 3 waiting requests, so that a
  logon waits before and behind a leave record, and one request that meets a fault.
- Tables: 4 users at a table of 3 chairs (4 for the paired mode and the game that may be
  joined late): a game of three loses one player and goes on, and of two and ends; two
  play while two join. Users are interchangeable, and no property is a liveness
  property, so they are declared symmetric.
- 牛牛: 3 chairs, so that a player leaves and two go on; card types 0 and 105, the lowest
  and the highest factor; a score of 80, of which the limits (80 / 2 / 5 = 8 and more)
  let the timer bet 1. The theorems are about all scores.

Deadlock is checked, except where every action is bounded or the system may rest.

### Fairness

- Network: a thread inside a lock goes on; what was given to `WSARecv` and
  `WSASend` completes once the socket is closed; strong fairness for actions
  that compete for the completion port (a FIFO) or for an item lock that is
  free for a network round trip between two uses. Nothing is assumed of clients,
  callers or completions on open sockets.
- Queue: the queue thread and the thread in `ConcludeService` are scheduled, and
  a sink returns. Posts are bounded; an endless producer could keep
  `ConcludeService` draining, which the code does not exclude either.
- Database: the database thread runs.
- Timers: time passes, and the scanning and the queue thread are scheduled.
- Sessions: the database thread finishes an answer it has begun (weak), and its
  queue is first in, first out, so no user's leave record is passed over for ever
  (strong: while the answer to one user is worked on, the others' requests are disabled).
- Tables: none, their properties are about safety.
- 牛牛: time passes, and the timer fires when its time has run out. Every answer that
  is not refused sets it anew, so `GameEnds` is stated under the premise that the
  messages cease.

## 4. What the checks show

All passing properties hold on their instances, those of section 5 on every
instance. The two runs that expect a violation (`PROJECT.json`, `findings`, quotes the
lines) and the configurations beside the runs are disagreements between the code and
what it says of itself:

- `MCNetworkDropped`: a completion that fails with anything but `ERROR_NETNAME_DELETED`
  ends its thread before the item is looked at (`TCPNetworkEngine.cpp:666`). If it was
  the last one of a closed item the close is never announced. `ClosedIsReleased` says
  what remains true: every other close is, as long as a completion thread is left.
- `MCNetworkWrap`: socket ID 0 means everyone to the send queue, and after 65536 rounds
  it is that of slot 0.
- `ring_mixed`: after a wrap, part two can grow until the insert
  position equals the terminal position; the code then takes the data for one
  part. A small packet is written behind it and read before older ones, and the
  assertion of `RectifyBuffer` fails at the next growth. `FifoOrder` fails in the same
  configuration. With one packet size this cannot happen, which is proved.
- `MCQueueStop`: a packet posted between the last count of `ConcludeService` and the end
  of `m_bService` is thrown away. `PacketsHandled` is about packets that were in the queue
  when the stop was called.
- `MCQueueLate`: a packet posted while the port is closed (`QueueService.cpp:126`) stays in
  the queue without a completion; the next service lags one packet behind and its
  `ConcludeService` waits for ever.
- `MCDBLost`: a score whose statement fails is reported as written
  (`DataBaseEngineSink.cpp:691`) and forgotten. `CachedKept` says what remains true: a
  cached request leaves the list only for its own statement, executed or failed.
- `MCDBUnhandled`: four request kinds
  that the attemper sink posts (`AttemperEngineSink.cpp:4961`, 5172, 5233, 5263) have no
  case in `OnDataBaseEngineRequest`; completion is reported for user 0, the user
  stays marked under way and no later request of the user, a score say, is posted.
- `MCTimerWrap`: a due time beyond the wrap of `GetTickCount` is small, so the timer fires
  at the next scan.
- `session_race`: the test "废弃判断" (`AttemperEngineSink.cpp:1850`) and the assignment
  "设置用户" (2116) run on the database thread; a Shut on the network thread between the
  two clears the slot first, and then the slot has a user without a connection. The
  next connection of the slot is refused by "重复判断" (3544) and can act as that user.
  `OwnSession` and `SourceBound` say that only such a meeting (`raced`) breaks the
  sessions; the entries of the database survive even that (`EntriesBalanced`).
- `MCUserRelogon`: a logon that waits while the user is still in the room is executed
  before the leave record; the user comes back with the old amount. The record itself
  stays right (`Settled`), and the amount is exactly that of the posts before the logon
  (`LogonReads`).
- `MCUserFaults`: a failed statement is not noticed and the copy is updated all the same,
  so copy and record differ from then on, by exactly that change (`CacheAgrees`).
- `MCUserRatio`: the ratio multiplies what is brought to the table, and no later split or
  leave undoes it. `Backed` accounts for it.
- `MCTableEmpty`: `ConcludeGame` stands up the last offline user (`TableFrame.cpp:282`), that
  stand-up finds the others ready and starts a game, and the loop of the old
  game sets its players back to `US_SIT`. 牛牛 is such a game (`GameServerManager.cpp:24`
  and `TableFrameSink.cpp:67`). `GamePlayed` and `StartPlayed` say that a game without
  players comes about in no other way, and that no game ever has one player.
- `MCTableMoves`: `OnTCPNetworkSubUserSitDown` asks the table of the
  request, not the table of the user, to stand the user up
  (`AttemperEngineSink.cpp:3915`), and `UserImmediately` asks nobody; the assertions at
  `TableFrame.cpp:2512` and 2416 state what is then broken.
- `MCOxSmall`: the timer bets an eighth of the limit (`TableFrameSink.cpp:702`), which is 0
  for a limit below 8, and 0 is refused.
- `MCOxLate`: for a player who leaves
  after the deal the factor of the banker's cards is applied twice (line 479), who
  has opened the cards already pays nothing (line 555), and for a user who is
  offline the score is written after the game has removed the user (line 559).
- `MCOxJoiner`: the chair of a player who left keeps the bet; at the end
  of the game the result of that chair is minus the bet, and it is written to
  whoever sits there now.

Two more behaviours of the code that the models have, and that no run is about:

- `m_bService` of the database engine is cleared before its queue is drained
  (`DataBase.cpp:635`), so a stop throws the queued requests away (`DropRequest`);
  `CachedExecuted` is about services that go on.
- `CServerSocketItem::ShutDownSocket` returns at its first line
  (`TCPNetworkEngine.cpp:339`), so callers that "disconnect the user" ("断开用户",
  `AttemperEngineSink.cpp:2103`) leave the connection open until the client or the
  detect thread closes it. `Sessions` has this behaviour.

## 5. Proofs

All proved for every value of the constants allowed by the named assumptions. Some
theorems have a hypothesis on the constants besides, which excludes a case where the
property fails (section 4) or would not be expected:

| theorem | hypothesis | what it excludes |
|---|---|---|
| `UnicastTheorem`, `EventTheorem` | `RoundsFit`: the rounds of a slot do not reach the modulus | socket ID 0 after 65536 rounds |
| `EventTheorem` | `"early"` not in `Env` | clients that connect before `m_bService` is set (`TCPNetworkEngine.cpp:995`) |
| `PartsStayExact`, `FifoTheorem` | all packets have one size | `ring_mixed` |
| `DriftTheorem`, `EarlyTheorem` | `NoWrap`: `GetTickCount` does not reach its width | a due time beyond the wrap |
| the theorems about tables | `Moves = FALSE` | a seat asked for without standing up |
| `GamePlayedTheorem`, `NoMissedStartTheorem` | `Regular`: two chairs or more | games for one, where a game of one player is in order |

- `TCPNetworkEngineProofs`: `Invariance` (the inductive invariant `IInv`), and from
  it `TypeCorrect`, `PoolSafe`, `OwnershipSafe`, `AttachSafe`, `ReleaseSafe`, for
  every pool size, counter width, number of threads and environment, early
  clients and failures included. None of the properties is inductive alone:
  that a reused item is clean depends on who holds its lock and on the order of
  announcement and reset. `IInv` describes the life cycle of one slot
  (`SlotOK`: idle, being reset, in use, closed with operations pending) and
  the pool (`PoolOK`); the proof has one step per action and a lemma for the
  calls that several actions share (`CloseInv`, `SendInv`).
  `UnicastTheorem` and `EventTheorem` (the refinement of `NetworkEvents`) rest on a
  bound of the rounds, `RInv`: the round of a slot and the increments still owed to
  it, by the detect requests in the queue, the detect loop at work and a thread that
  is closing, stay below a limit (`RoundLimit`). So a slot that is ready for its next
  connection has a round no connection had (`Fresh`), and no ID is 0 (`Positive`). For
  the refinement every slot is notified until the service runs (`Before`).
- `DataQueueProofs`: `PartsStayExact`: for one packet size `PartsAddUp` holds
  whatever the size, buffer and number of packets. The invariant is that the data
  is in one part, or in two parts with no room for another packet behind the
  first, and that no packet in memory straddles the end of a part. `FifoTheorem`, the
  refinement of `FifoQueue`: the packets of the two parts are two lists that cover
  the parts without a gap (`Tiles`, `Layout`), and the abstract queue is one list after the
  other; that the mapped queue lists exactly these identities is a counting
  lemma (`IdsListed`).
- `QueueServiceProofs`: `TypeCorrect`, `QueueSafe` (the number of completions and
  the thread's claim never exceed the packets in the queue), `QueueOrdered` (the
  queue is an interval of post numbers above everything handled) and
  `ConcludeWaits`, with posts to a stopped service included.
- `TimerEngineProofs`: `RepeatTheorem`, `DriftTheorem`, `EarlyTheorem`. The events an
  item has had and those left add up to what was asked (`Counting`), and the due time is
  a function of the time it was set and of the events so far (`Timely`). `ScanLemma`
  carries such facts through the loop of the scan to the items kept and the events
  posted.
- `DBCorrespondManagerProofs`: `OneUnderWayTheorem`, `UserOrderTheorem`,
  `NothingWaitsTheorem`, and the action property `CachedKeptTheorem`, with failures of
  every kind of request. Completion is by
  the name of the user; that it takes the right request off the list needs that a
  user has at most one request under way (`Unique`), that this one is marked
  (`Marked`) and the oldest of the user (`Oldest`), that the list is in the order of the
  posts (`Sorted`) and newer than everything executed (`Older`). A restart keeps them.
- `SessionsProofs`: `EntriesTheorem` holds for every interleaving of the threads. A user
  has at most one item (`Alone`) and the store holds exactly the items without a
  user, each once (`Pool`), so by counting there is an item for whoever arrives
  (`StoreLemma`). `SourceTheorem` and `OwnTheorem` hold for every interleaving as well, up
  to the first in which another thread meets an answer (`raced`). They need in addition that a logon request
  that still matches its slot was sent by the connection the slot has now
  (`Waiting`), and what `OnDBLogonSuccess` has found before it writes (`Checked`,
  `Inserted`).
- `TableFrameProofs`: `SeatsTheorem`, `GamePlayedTheorem`, `NoMissedStartTheorem`, for
  any number of users, tables and chairs. Operations are operators on rooms, so the
  invariants are sets of rooms: `Good` (chairs, lookers-on and users agree) and
  `Games` (nobody plays without a game; a game that is not on a clock has two players, or
  none if it may be joined late; and no game waits to be started). A set that is `Closed` under the
  operations is never left (`NextStays`), and both are (`GoodClosed`, `GamesClosed`).
  An operation on one table leaves the others alone (`Local`). The loops of
  `ConcludeGame` have a rule (`ConcludeLoop`): sets `G[n]` of rooms after `n` chairs into
  which each round of the first loop leads, and a set `K` that the second does not
  leave (`ThroughChairs`). With it (`Over`): after `n` chairs those who sit on them neither
  play nor are ready, so that a game that a stand-up has started in the first loop, for
  those who joined late, is at the end of it a game without players, and no stand-up in
  the second loop starts one.
- `GoldProofs`, part 1: `SettledTheorem`, `CacheTheorem`, `FeeTheorem`, `BackedTheorem` and
  `LogonTheorem` for all amounts, limits, fees and ratios, both write rules, logons at any
  time and any faults. The properties speak of moments at which the books are closed;
  the invariant says what holds in between: what was earned is what was posted and what
  the variation still holds (`LedgerInv`); each waiting request carries the sum of all
  changes posted up to it, in order, so that the record with what it has missed is the
  initial gold and the total of the last request executed (`ChainInv`); the copy with
  what it has missed is the same sum (`CacheInv`); the frozen amount is the fee noted for
  the chair or nothing (`FeeInv`). So a logon reads the total of its own request, less
  what its store has missed (`EntryInv`), and what is held since then changes by the
  results only (`RoomInv`). The lemmas about `Split`, `Adjust`, freezing and unfreezing say
  that each keeps `Holding` and the variation.
- `GoldProofs`, part 2: `WaitsTheorem`, `CoveredTheorem`, `ConservedTheorem` about the
  game, for any number of chairs from two on, any scores and any cards. As for the
  tables, the invariant is a set of states, `Games`, and each operation is shown to
  stay in it, also when it is called from another one (a bet for a player who left,
  a turn passed on, the timer's loop: `AnswerLoop`). The properties are not inductive.
  For `WaitsForPlayer`: counted around the table from the one whose turn it is, the
  players not yet asked come before those who were (`TurnsTo`), so that the next one
  has not been asked unless all have (`NextTurn`, with the remainders written out in
  `Around`); the leave of a caller takes a chair out of this circle and nothing else.
  For `BetsCovered`: each bet keeps to the limit that was computed for the number of
  players then, and there are no more of them now (`Limits`); from that the bound of
  the sum (`CoveredLemma`: at most n bets of at most `b / n / 5`). For `Conserved`: until
  a player leaves after the deal, what was written is the negative of `m_lExitScore`;
  by the cover the rule for a banker who cannot pay does not apply, so that the results
  of those who stay add up to `m_lExitScore` (`EndLemma`, `BankerLemma`), and the write
  of the last leaver does too (`IdlerLemma`). TLC has checked its parts for three and four
  chairs.
  Sums are folds that take the elements of a set in an order nobody knows. Shown
  first is that the recursion has a solution (`SolutionExists`), that solutions over
  different sets agree (`SolutionsAgree`) and that any element may be taken first
  (`SumAdd`); comparisons of sums follow by growing the set (`Grown`).

Loops and sums are proved by their least counterexample (a set of naturals that is
not empty has a least member), as the provers cannot use the library's induction rules.

Every invariant and action property of a passing run but one, and both refinements,
are thus stated by a theorem; `NotEarly` is proved and in no run. Only model-checked: the action property `StartPlayed`, and
all liveness (`ClosedIsReleased`, both `ConcludeReturns`, `PacketsHandled`,
`CachedExecuted`, `TimerFires`, `EntriesClosed`, `GameEnds`), which is
outside the prover's reach. The runs and configurations that expect a violation are counterexamples.

## 6. Not modelled, and the plan

The repository has 280 941 lines, most of them the sources of Redis, the rules and
robots of seven games with their clients, and dialogs. The models cover the server's
own engines and the room; the rest is left out for these reasons:

- other games: sequential plug-ins behind the same interface (`牛牛` is the
  representative), robots' playing strength, card and tile arithmetic;
- dialogs and configuration (`模块管理`), encryption, JSON, Redis client and registry
  helpers, the ADO wrapper and stored procedures, the web gateway: I/O and conversion;
- effects of clocks that wrap beyond those above: the detect loop skips silent
  connections for one interval after 49.7 days (`TCPNetworkEngine.cpp:1230`);
- queued timer events that arrive after `KillTimer` (`TimerEngine.cpp:316`), and timers
  set while `ConcludeService` drains (`TimerEngine.cpp:249`): both are behaviours of the
  model, but nothing is stated about them.

Next, in this order:

1. The TCP socket service with its reconnects, and start and stop of all engines in
   the order of `CServiceUnits`.
2. Private rooms (creation, payment, dissolution by vote), robots, matches.
3. With these modules, their proofs; of what is modelled, only liveness is not proved.
