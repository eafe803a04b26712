# A TLA+ verification of ZoeCore

ZoeCore is a server for World of Warcraft 3.3.5a clients, a fork of AzerothCore:
an authentication server, a world server and the tools around them. This
directory holds TLA+ modules that model parts of the world server, the TLC
configurations that check them on small instances, and proofs checked by TLAPS.

`src/...` paths are relative to the root of the repository; most of the code
named below is in `src/server/game`, `src/server/shared`, `src/server/database`
and `src/common`.

## 1. The system and its parts

The world server is a handful of threads around one *world thread*.

| part | state it keeps | operations | talks to |
|---|---|---|---|
| Network threads (`Socket.h`, `NetworkThread.h`, `WorldSocket.cpp`) | sockets with an atomic state Open/Closing/Closed, write queue, authentication progress, a raw pointer to the session under `_worldSessionLock` | accept, read, authenticate, send, close | creates sessions (`AddSession`), fills each session's receive queue, asynchronous queries on the login database |
| Session manager (`WorldSessionMgr.cpp`) | `_addSessQueue`, `_sessions`, `_offlineSessions`, `_queuedPlayer`, `_disconnects` | `AddSession`, `UpdateSessions`, `KickSession`, `RemoveQueuedPlayer`, `KickAll` | called by the network threads and the world thread |
| Session (`WorldSession.cpp`, `CharacterHandler.cpp`) | socket, player, loading flag, logout timer, callbacks that wait for the database | packet handlers, login, logout, kick | character database; maps |
| Map manager and map updater (`MapMgr.cpp`, `MapUpdater.cpp`, `MapInstanced.cpp`) | maps, worker threads, the number of updates still to finish | schedule, wait, activate, deactivate | worker threads through a `ProducerConsumerQueue` |
| Work queue (`PCQueue.h`) | a queue under a mutex, a condition variable, two stop flags | `Push`, `WaitAndPop`, `Cancel`, `Shutdown` | used by the map updater, the databases, the auction searcher and the mmaps generator |
| Databases (`DatabaseWorkerPool.cpp`, `MySQLConnection.cpp`, `Transaction.cpp`) | one queue, asynchronous connections with a worker thread each, synchronous connections with a mutex each | statements, queries with callbacks, transactions with retries, reconnection, close | MySQL; futures read by the threads that asked |
| Game rules (groups, battleground queue, dungeon finder, auction house, mail, trade, instances, pools, events, spells, ...) | maps and lists owned by the world thread or by one map | handlers of packets and timers | each other, by direct calls |
| Modules (`modules/mod-*`) | small tables | script hooks | called by the core |
| Authentication server | one state machine per connection | challenge, proof, realm list | login database |

`PROJECT.json` lists every part, with what is modelled of it. The parts with
concurrency, asynchronous answers or failures come first in this project,
because tests reach them least: the session manager, the work queue, the map
updater, and the database layer. Most of the game rules run in one thread.

What makes these parts hard, and what would make each correct:

* **Sessions.** The socket closes whenever it likes while the world thread reads
  it more than once per update; a second login, a login in progress, an abandoned
  character and a shutdown can meet in one update. Correct: each session object
  has one owner, a character is held once, the player limit and the queue keep
  their order, an abandoned character stays its minute, nothing stays half way.
* **Work queue.** Wake-ups are sent after the lock is released, or without it.
  Correct: nobody sleeps while there is work, each item is taken once and in
  order, a stop reaches every consumer.
* **Map updater.** Tasks schedule further tasks while another thread waits for all
  of them. Correct: `wait` returns only when every scheduled map was updated, and
  it does return.
* **Databases.** Workers, retries, deadlocks and lost connections. Correct: a
  transaction is applied completely or not at all, its promise tells which, writes
  are applied in the order they were asked for, the close executes what is queued.
* **Network.** Two threads use a socket while a third thing closes it. Correct: no
  packet after the session is gone, a delayed close does close.
* **Game rules with protocols** (trade, auctions, queues, loot rolls): nothing is
  duplicated or lost on any sequence of legal calls.

## 2. Modules and plan

| module | is about | uses |
|---|---|---|
| `WorldSessionMgr` | sessions and the queue of the player limit | |
| `AdmissionQueue` | abstract: who enters, who waits, in which order | implemented by `WorldSessionMgr` |
| `PCQueue` | the work queue with its lock and condition variable | |
| `MapUpdater` | the workers, `wait` and `deactivate`, and what `MapMgr` and `MapInstanced` schedule | composes `PCQueue` |
| `UpdateRound` | abstract: an update ends when all it asked for is done | implemented by `MapUpdater` |
| `DatabaseTransactions` | transactions on the connections of a pool | |
| `TransactionStore` | abstract: whole transactions and true promises | implemented by `DatabaseTransactions` |
| `Trade` | both sides of a trade, its exchange, what the players do meanwhile, and what is saved | |
| `Mail` | mails with items, money and cash on delivery; logins, map changes and crashes | |
| `AuctionHouse` | auctions, whose proceeds travel by mail | extends `Mail` |
| `DatabaseWorkerPool` | opening, use and end of a pool; queries and their callbacks | takes `PCQueue` for what it was shown to be |
| `*_proofs` | theorems | the module they are named after |
| `CollectionLemmas` | lemmas on sequences, minima and sums over finite sets | |
| `MC*` | constants for TLC | the module they are named after |

Definitions in a module whose comment begins with "Mutant" are changed forms of
the definition below them. No action uses them; each stands for a plausible bug
and has been checked to break the property `PROJECT.json` names for it.

The types of the variables (`TypeOK` of each module) are proved; `Auctions_mail` checks
those of `AuctionHouse` and `Mail` too, because a purse that overflows shows there. `WorldAlone`,
`AllOrNothing`, `AgreedOffers` and `LimitsKept` are theorems too, and not in a run: the
refinements that are checked imply the first two, and the action properties of `Trade` rest
on the others.

What is left, in this order:

1. Network: `Socket`, `NetworkThread` and `WorldSocket`, composed with the session
   manager's network actions; an abstract connection (open, draining, closed).
2. The authentication server's state machine.
3. Further protocols of the game rules: the battleground queue, loot rolls, proposals of
   the dungeon finder, instance saves, threat references, spawn pools, and the pure
   composer of solo 3v3 against a reference definition.
4. `EventProcessor` with events added and killed while events run.

Every safety property and every refinement that a run checks is also a theorem. What is
left to prove comes with the modules that are left to write.
## 3. Sessions

### 3.1 `WorldSessionMgr.tla`

Three parties share the state. The world thread runs `UpdateSessions`; its `pc`
has a value wherever it reads something another party writes:

| pc | code |
|---|---|
| `idle` | between two calls; the shutdown handler's call is the last one (`final`) |
| `add` | first loop: `AddSession_` for each session of `_addSessQueue` |
| `check` | loop over `_sessions` (`todo`): `HandleSocketClosed` decides whether the character stays in the world |
| `packets` | `WorldSession::Update` of `cur`: any number of packet handlers |
| `callbacks` | the same call: `ProcessQueryCallbacks`, the logout timer, the second look at the socket |
| `halted` | `main` has returned from the shutdown handler |

| variable | code |
|---|---|
| `ses` | the `WorldSession` objects: socket, player, `m_playerLoading`, `m_inQueue`, `_kicked`, logout and offline times |
| `addQueue` | `_addSessQueue` |
| `sessions`, `offline` | `_sessions`, `_offlineSessions` |
| `queue` | `_queuedPlayer` |
| `recent` | `_disconnects` |
| `stopped` | `World::IsStopped()` |

The network thread acts at any time (`NewSession`, `SocketClose`), and so do the
database answers (the callbacks fire or not in `callbacks`). Packets are the
actions `CharEnum`, `LoginKicked`, `Reclaim`, `LoginRequested`, `InstantLogout`
and `SetLogoutStartTime`. Time is counted in units: `age`, `logout` and `recent`
grow with each update by an amount TLC chooses.

`AdmissionQueue.tla` is the promise of the player limit in terms of accounts:
an account enters at once only when nobody waits and there is room, or when it
is exempt; the others wait in order; a free place goes to the first of them.
`AdmissionSpec` is the refinement: `inside` are the listed sessions not in the
queue, `waiting` the accounts of the queue, `exempt` those that disconnected
within the tolerance.

### 3.2 Runs

| run | instance | question |
|---|---|---|
| `Sessions_places` | 3 accounts, one with 2 characters, 3 sessions, limit 1, no tolerance | ownership, no session let in stays flagged as queued, refinement of `AdmissionQueue`; reconnection, second login, one character in the world, the minute, kicks, shutdown |
| `Sessions_live` | 2 accounts, one with a character, one skips the queue, 2 sessions, fair | nothing stays half way |

Three sessions are enough to have one in `_sessions`, one in `_offlineSessions`
and one in `_addSessQueue`, or one inside and two in the queue; limit 1 makes
every removal one that lets somebody in. The delays are one unit each, so that
"before" and "after" both occur. In `Sessions_places` nobody is exempt from the queue, so
that two wait while the third is inside; an account that is exempt competes in
`Sessions_live`, and the refinement with exempt accounts, by right or within the tolerance,
is what `ImplementsAdmission` proves. Symmetry is used in the run of safety only.

**Fairness** (`FairSpec`): the world thread goes on (it is a loop that sleeps a
bounded time), each of its steps is taken when it can be, time passes, and an
answer of the database is there in the end, because a worker executes its queue
in order. Nothing is assumed of clients. The liveness properties have the premise
`NetworkLull`: the first loop of `UpdateSessions` takes sessions until there is
none left, so a network that adds sessions for ever without a pause could keep
the thread there.

### 3.3 What the properties leave out

* `AbandonedStays` speaks of the characters of `_offlineSessions`. A character whose socket
  closes after `HandleSocketClosed` and before the end of `Update` leaves at once, although
  `worldserver.conf.dist:1089` promises a minute.
* `OneCharacterPerAccount` speaks of the time between two updates. A login only kicks the
  offline session of another character; when its answer arrives in the same update, both
  are in the world until the offline session is deleted at the end of that update, and
  `LogoutPlayer` (`WorldSession.cpp:785`) takes for granted that there is one.
* That nobody overtakes in the queue and that no place stays empty while somebody waits are
  not stated one by one: `AdmissionQueue` allows no other order, and `AdmissionSpec` says
  that the code implements it.

### 3.4 Proofs (`WorldSessionMgr_proofs.tla`, `CollectionLemmas.tla`)

Proved for all constants that satisfy `ConstantsAssumption`, every safety property of
the runs:

| theorem | property |
|---|---|
| `TypeCorrect` | `TypeOK` |
| `SessionsOwnedOnce` | `OwnedOnce` |
| `CharacterHeldOnce` | `OneHolder` |
| `OneOnlineCharacter` | `OneCharacterPerAccount` |
| `NobodyLeftAtShutdown` | `ShutdownSavesAll` |
| `AbandonedStayInWorld` | `AbandonedStays` |
| `ImplementsAdmission` | `AdmissionSpec`, the refinement of `AdmissionQueue` |
| `NoneStuckInQueue` | `NoStuckInQueue` |

TypeOK alone is not inductive: the world thread updates `cur`, and that this
session exists, with an account the maps are indexed by, follows only from
where it is listed. `Inv` adds:

* `NewOwned`: the sessions of `_addSessQueue` are distinct, allocated and have
  neither a character nor a query under way;
* `MapsOwned`: an account's entry in either map is a session of that account, and
  the two entries and the add queue are disjoint;
* `ThreadOwned`: `cur` is the listed session of its account while it is updated;
* `SessionOwned(s)` for each s: an allocated session is in one of the three places.

Most actions change one session and leave the ownership fields alone: `QuietStep`
says so, `QuietInv` proves Inv for all of them at once, and each remaining action
has a lemma. OneHolder follows from the maps: the characters of a session belong
to its account, an account has at most two sessions that may hold one, and
`Reclaim`, `LoginRequested` and `LoginFromDB` look at the other.

The other properties rest on Inv and one strengthening each.

* `LeftBehind`: while a listed session holds or loads a character, an offline session of
  the account that still has one was kicked, so the end of this `UpdateSessions` deletes
  it. Hence one character between two updates.
* `LastUpdate`: in the update of the shutdown handler a listed session that holds or
  loads a character was kicked, has no open socket and is still to be visited or in hand;
  one that does not has no list of characters to log in from, unless it was visited
  already. Hence nobody is left behind the loop.
* `QueueInv`: `_queuedPlayer` holds different listed sessions, and nobody waits while
  there is room. The first half lets the counts of the code, which are of sessions, be
  read as counts of accounts (`Count`); the second is what makes the two tests of the
  limit agree: `AddSession_` compares it with all listed sessions, waiting ones included,
  `RemoveQueuedPlayer` with the active ones before the removal. `Departure` and `Arrival`
  show that each does what `AdmissionQueue` says, `NextAdmits` that every step does.
* `NoStuckInQueue` is inductive with QueueInv: what leaves the queue without leaving the
  maps is exactly what `InitializeSession` was started for (`StillQueued`).

Model-checked only: the liveness properties.

## 4. The work queue

`PCQueue.tla` models `ProducerConsumerQueue` with one atomic step between two
points at which threads can meet: what is done under `_queueLock` is one step, a
notification sent after the unlock is another, and a consumer in `WaitAndPop`
takes the lock (`Enter`), evaluates the predicate with the lock held, decides to
sleep (`Decide`), and releases the lock and sleeps in one step (`Sleep`), as
`condition_variable::wait` does. `Return` is the way out, with an item or, after a
stop, without. Wake-ups without a notification (`SpuriousWake`) are possible.

A consumer calls `WaitAndPop` or `Pop` again and again, whatever it was given, and the
queue is stopped in either way or in both: the queue is checked among users freer than
those in `src/`. A user of its own (the map updater) composes the module instead.

| run | instance | question |
|---|---|---|
| `Queue_threads` | 2 producers, 3 consumers, fair | no consumer sleeps beside an item nobody is coming for; every item is popped; `Cancel` and `Shutdown` stop the consumers |

**Fairness**: the threads are scheduled (weak fairness of each thread's steps); consumers
are loops around `WaitAndPop`.
Three consumers are enough for one asleep, one woken and one that comes first; two
producers for two notifications under way.

**A lost wake-up.** `Shutdown` stores its flag without taking `_queueLock`. A consumer that
has tested the predicate and not yet gone to sleep misses the notification, and nothing
wakes it again: `ShutdownReaches` promises the end to every consumer but that one. `Cancel`
takes the lock, and `CancelReachesAll` has no exception.

**Proofs** (`PCQueue_proofs.tla`), for any threads and any items: `QueueTypeCorrect`
and `NobodySleepsOnWork` (NoSleepOnWork). The second counts: the items are never more
than the notifications under way plus the consumers that are not asleep, unless
nobody sleeps. The induction follows the two places where this could fail, the push
with its later notification and the consumer that decides to sleep with the lock held.

## 5. The map updater

`MapUpdater.tla` follows one world thread and the workers of `MapUpdater`. The world
thread preloads the maps that `World::SetInitialWorldSettings` asks for, then schedules
one round after another: the dungeon finder, each base map, `wait()`. A worker executes a
request; the update of a map with instances (`MapInstanced::Update`) schedules the
update of each instance and may delete one. `pending` is `pending_requests`. `UnloadAll`
with `deactivate()` ends it.

* A request is counted, pushed and notified in three steps (`Count`, `PushAsked`,
  `NotifyWorker`), and the same three are taken by a worker that schedules for an instance.
* `wait()` is modelled as the queue's wait is: test, decide with the lock held, sleep.
* The queue is `PCQueue` itself (`Q == INSTANCE PCQueue`), its producers all threads, its
  consumers the workers, so that the notification races of section 4 meet those of `wait()`.
* A map that is unloaded by its timer and has players is left alone in this round
  (`DestroyInstance`); the timers themselves are a choice.
* Base maps are created where the world thread is alone, and by the preloading.

| run | instance | question |
|---|---|---|
| `Maps_rounds` | 2 workers, a plain map, one with two instances, the preloading, any number of rounds, fair | the counter, no update of a deleted map, refinement of `UpdateRound` (the world thread is alone between rounds), `wait()` returns, `deactivate()` joins |

Two instances and the plain map are more than the workers, so that requests wait in the
queue while others run. Nothing counts the
rounds, so that what one round leaves behind would meet the next.

**Fairness** (`FairSpec`): strong fairness of the world thread's steps and of each
worker's. Strong, because a mutex is free again and again while others wake up for no
reason; that one thread is denied it for ever is not what the code has to work with. What
the world thread does while it is alone (another round, a new map, the shutdown) is its
own choice and not fair.

**Proofs** (`MapUpdater_proofs.tla`), for any workers and maps: `UpdaterTypeCorrect`,
`PendingIsExact` (PendingCounts) and `WorldIsAlone` (WorldAlone). The inductive invariant
says that the requests being handed over, queued, fetched and executed are different
ones, so that the counter is the size of their union; each step moves one request from one
place to the next or ends it, and only then the counter goes down. `WorldAlone` follows:
`wait()` returns only when the counter is zero.

The second half adds `OnlyLiveMapsUpdated` (UpdatesLiveMaps) and
`ImplementsRound` (RoundSpec). Both need that no request is asked for twice, which is what
`RoundInv` says: `Distinct`, the requests at all places differ; `ToSchedule`, the world
thread has not yet asked for what is left of its round; `Fresh`, the update of an instance
is asked for only by the update of its base map, once, when it is visited; and
`KidsOfUpdate`, an instance that a worker has still to visit exists. An instance is deleted
only when its base map's update visits it instead of scheduling it, so no request for it is
anywhere.
## 6. Database transactions

`DatabaseTransactions.tla` models one `DatabaseWorkerPool`. A transaction is queued for a
worker thread (`Enqueue`, `Take`) or committed by the calling thread on a synchronous
connection (`DirectCommit`). Either runs `ExecuteTransaction`, of which every round trip
is a step, because at every one the server can answer, refuse or be lost:

| variable | code |
|---|---|
| `task`, `stage`, `next` | the transaction a connection executes, the call in hand, and the statement |
| `code`, `retry` | what `ExecuteTransaction` will return, and how often it was called again |
| `link`, `attempts` | `m_Mysql` and the recursion of `_HandleMySQLErrno` |
| `deadlockLock` | `TransactionTask::_deadlockLock` |
| `told` | `m_result` |
| `open`, `pending`, `db` | the MySQL server, external: each session's transaction and what is durable |
| `spoiled` | history: the transactions that met a failure the code hides from them |

The server is modelled by what the code relies on: START TRANSACTION, COMMIT and
ROLLBACK; autocommit outside a transaction; a closed connection rolls back; a deadlock
rolls the whole transaction back; a COMMIT it refuses is rolled back. A statement may
deadlock or fail at any time. That START TRANSACTION ends one left open is not modelled:
`NothingLeftOpen` shows there never is one. Nor is a START TRANSACTION or ROLLBACK that the
server refuses without losing the connection.

Two failures are hidden from a transaction. `CommitTransaction` does not look at what
`Execute("COMMIT")` returns, so that a refused COMMIT (`CommitRefused`) ends in "yes" with
nothing applied. And a connection that is lost inside a transaction is reopened and the call
repeated. Either puts the transaction into `spoiled`, for its promise may now be false.
After a failed reopening `mysql_errno` is called without a connection; what it returns is
the library's last error of that kind, so zero and an error are both possible. When the
code calls `ABORT()` the model stops (`aborted`).

The minute of retries is a choice between `RetryAgain` and `GiveUp`, as is
which error `Open()` has. `TransactionTask` has no promise: `told` then stands for its end.
In a debug build `CommitTransaction` drops an empty transaction; the model is of a release
build, where it is queued and `ExecuteTransaction` returns -1.

`TransactionStore.tla` is the promise: a transaction is applied all at once, before
its end is told, and "yes" or "no" is the truth. A direct commit tells nobody ("void").
Of a spoiled transaction it promises less: it leaves the others alone, and nothing of it
changes after its end was told.

| run | instance | question |
|---|---|---|
| `Database_lost` | 2 workers and 1 synchronous connection, transactions of 2 and 1, COMMITs refused at any time, lost at most once, fair | refinement of `TransactionStore`; no session left in a transaction; every transaction ends |
| `Database_partial` | 1 and 1, lost once | expected violation: half a transaction |

Two statements are the fewest with an inside; two workers the fewest that compete for
the deadlock lock. Transactions without statements are left to the theorems. `MaxLost` bounds the losses, `Attempts` (2 for the code's 5) and
`LoopBreaker` (2 for 5) are enough for a first, a repeated and a last one.

**Fairness**: threads are scheduled and the server answers (weak fairness); a worker that
asks for the deadlock lock while others hold it gets it, and the minute passes (strong
fairness of `LockAndRetry` and `GiveUp`: the loop tests the clock after each failure).
Errors are not fair: a transaction may fail or deadlock for ever.

**Finding** (`WholeWhenDone`). After a loss in the middle, `Execute` repeats the statement
on the new connection, which is in no transaction. The statements before it are gone, it
and the following ones are applied one by one, and the result is "ok".

The properties of `Database_lost` hold on a connection whose reopening failed, too. That
the program stops when the server is unreachable, as a comment of `_HandleMySQLErrno`
says, is not among them: with an error code the function does not know it returns at once,
the connection stays null and drops all that follows.

**Proofs** (`DatabaseTransactions_proofs.tla`), for any connections, any transactions, also empty
ones, and however often the server is lost and refuses a COMMIT:

* `TransactionsTypeCorrect` and `SessionsLeftClosed` (NothingLeftOpen). The invariant says that a session is in a transaction only while its
  connection works on one and is linked.
* `WholeTransactions` (AllOrNothing) and `ImplementsStore` (StoreSpec): of every transaction
  that is not spoiled, however many others were. The finding above shows that those that are
  have to be left out. The invariant `Truthful` says that a
  transaction is in one place (`Placed`), that the session has executed exactly the
  statements sent since START TRANSACTION (`InStep`), that what waits or is executed is not
  answered (`Unanswered`), and what the store has of each (`Kept`). COMMIT is the one step
  that applies, End the one that tells; `CommitWhole` and `EndTruth` are their lemmas.

## 7. Trade

A trade is two `TradeData`, each pointing at the other. All its handlers are
`PROCESS_THREADUNSAFE`, so each is one atomic action of the world thread; what makes a
trade hard is everything that happens between two of them. `Trade.tla` has an action for
each handler (`HandleInitiateTrade` (the begin handler only sends packets), `HandleSetTradeGold`,
`HandleSetTradeItem`, `HandleClearTradeItem`, `HandleUnacceptTrade`, `TradeCancel`) and for
each way `HandleAcceptTradeOpcode` can end, in the order of its early returns; `Blocked`,
`CanStoreItems`, `moveItems` and `Paid` are its steps when all goes well. Meanwhile players
drop, find and bind items, spend money, log out and in (`OutsideTrade`), and a `Crash`
restores what the last transactions saved.

| variable | code |
|---|---|
| `trade` | `m_trade` and the `TradeData` it points to |
| `holder`, `bind`, `enchanted` | whose inventory an item is in, its binding, whether the spell of a trade was cast on it |
| `money`, `spent` | coins; what was spent outside of trades |
| `saved` | the characters database |
| `agreed` | auxiliary: the table at the moment a player pressed accept |

Abstractions. An item is one inventory slot; stacks are
neither merged nor split, and equipped and banked items are left out. `Limited` are the kinds
of which a player may have `MaxCount`: an item's MaxCount or its limit category. An item
that fits neither where it should go nor back is in no inventory (`Lost`), while its row in
the database may stay: it is then loaded at the next login, or overwritten by what is saved
in its place (`Exchange`, `LoadInventory`). The distance of the players and the outcome of a cast are free. A transaction is
committed at the end of the handler that begins it: one worker executes transactions in
order, so that a crash finds the database of an earlier state.

| run | instance | question |
|---|---|---|
| `Trade_exchange` | 2 players with a coin each, 3 items, two of one unique kind, one of them tradable in the raid, one enchantable; 2 slots, 2 places in a bag, 2 events outside the trade | both sides live and die together, money is conserved in memory and after a crash, no item is lost, doubled, bound and given away, and nothing changes hands that the partner did not accept |
| `Trade_limits` | 2 players, one with two and one with one of a kind of which a player may have two | expected violation: half of the table changes sides |

Two slots are the fewest in which an order of moves exists, and with a third player a trade
could only begin where nobody trades. `MaxElsewhere` bounds the events outside; two of them
are an item used up and another that takes its place, or a coin spent and an item gone.
No fairness: a trade may stay open for ever.

**Finding** (`ExchangedWhole`). `CanStoreItems` asks of each incoming item of a limited kind
whether there is room for it beside what the player has, not beside what comes in with it.
Two that are together too many pass; the items leave both inventories, `moveItems` stores
the first, finds no room for the second and gives it back, and all the rest of the trade is
carried out. `NothingLost` says that nothing else makes a trade go half way: every item of the
table is the partner's, unless a side gives two or more of a kind that are together too many
(`Together`). `Trade_exchange` has a kind limited to one, of which that is never the case; the
theorem is for every limit.

**Proofs** (`Trade_proofs.tla`), for any finite sets of players and items, any slots, purses
and bounds: every property of the run, and the types.

| theorem | property |
|---|---|
| `TradeTypeCorrect` | `TypeOK` |
| `TradersPaired` | `Paired` |
| `AcceptancesStand` | `AgreedOffers`: an acceptance is for what is on the table |
| `ExchangesSurviveCrashes` | `HandedOver` |
| `ItemsAsAgreed`, `SpellsAsAgreed` | `OnlyAgreedItems`, `OnlyAgreedSpells` |
| `TradesConserveMoney` | `MoneyConserved` |
| `LimitsAreKept` | `LimitsKept`: nobody who is online has more of a limited kind, or more in all, than he may |
| `NothingIsLost` | `NothingLost` |

The inductive invariant has three layers. `IInv` is `TypeOK`, `Paired`, `AgreedOffers` and
`HandedOver`: an acceptance stands for the table only because both sides are reached by
every change, and the crash is harmless because both are saved with the exchange.
`MoneyInv` adds that the purses and what was spent add up to what there was, in memory and
in the tables (`Settled`); a trade changes two summands at once (`SumTwoChanged` of
`CollectionLemmas`), and that neither purse overflows follows from the test before.
`ItemsInv` adds that no item lies in two slots of a side and that nobody has more of a
limited kind than he may, whichever branches of `moveItems` were taken and whatever a login
loads.

The loop of `moveItems` is a recursive function. `LoopInduction` states what a proof
by induction over its rounds would give: a property of the holders that every round
preserves holds at the end. It is shown for the least round that would break it
(`LeastNatural`, from the library's well-founded induction), because the induction theorems
of the library are out of reach. With it, `MovesBetween` shows that an item the loop moves
ends with one of the two or with nobody, and `AllMoved` that it ends with the right one: `CanStoreItems`
was asked about the inventories before the loop, and `StillFits` says its answer is still
true in each round: of a limited kind either one item comes in, for which the answer was
given, or all that come in are together few enough.

The assumptions are those of the code: the initial inventories obey `CanStoreItem`, so that
nobody begins with more than he may have, and players and items are finitely many.


## 8. Mail and auctions

`Mail.tla` models the tables `mail` and `mail_items`, the mailboxes (`m_mail`) of players
in memory, the handlers that move something (send, delete, return, take item, take money)
and `ReturnOrDeleteOldMails`. A player is offline, loading (between the queries of a login
and `LoginFromDB`), in the world, or between two maps: `FindPlayer` finds him only in the
world, `FindConnectedPlayer` also between maps, and the code uses now the one and now the
other. `AuctionHouse.tla` extends it with the auctions in memory and in the database:
`HandleAuctionSellItem`, `PlaceBid` and `Buyout` (the two halves of
`HandleAuctionPlaceBid`), `HandleAuctionRemoveItem` and the expiry in `Update`. Each sends
its mails in the transaction that changes the purse and the auction.

| variable | code |
|---|---|
| `where` | where a player is, see above |
| `purse`, `bag`, `dbPurse`, `dbBag` | money and items, in memory and in the database |
| `box`, `deleted` | mailboxes, and the mails marked `MAIL_STATE_DELETED` in them |
| `mail`, `seen` | the rows of the database when all that is queued is executed, and as they are now |
| `crossed` | auxiliary: an old mail was changed behind the back of a player |
| `auction`, `dbAuction` | `_auctionsMap` and table `auctionhouse` |
| `sunk`, `wasted` | auxiliary: postage, deposits and cuts, and what was in mails that were deleted |

Mails without money or items are left out, and so are reading marks, letters made into
items, the delay of deliveries and mails of the server manager. An auction is of one whole
item; the deposit is a constant and the cut a percentage. The packet's amount of money is
32 bits wide in the code and `Word` here: `Sums` holds one that overflows with the postage.

`ReturnOrDeleteOldMails` reads with queries that do not wait for what is queued, so it sees
`seen`; it leaves out the mails of players it finds in the world, and writes rows by what it
read. Each of its statements is a transaction of its own. A `MailCrash` may therefore leave
any of the old mails processed, and of one more mail, which is to be deleted, some of the
items gone while the mail is still there (`Stripped`). A mail that is returned is whole after
its first statement: the query of a login finds its items by the receiver of the mail.

| run | instance | question |
|---|---|---|
| `Auctions_mail` | 3 players, one item, 3 mails and 1 auction at a time, purses up to 2, one player who leaves, returns and travels; up to the first mail that is changed behind the back of a player | money is conserved and the item is in one place, in memory and after a crash; a mailbox in memory is what the database has; nobody loses money or goods by what others do without being paid |
| `Mail_between` | the same | expected violation: an old mail is changed under the mailbox of a player between two maps |

Three players are a seller, a bidder and one who outbids him; three mails are what a
purchase sends at most. A purse of two coins and prices of one and two are the fewest with
a second bid, and the cut of half a coin rounds.

**Finding** (`LoggedInUnmodified`). "don't modify mails of a logged in player", says a comment
of `ReturnOrDeleteOldMails`, which looks for players in the world only. A player on his way to
another map keeps in his mailbox what is returned or deleted in the database, and can take it
when he arrives. The same may come of rows that are out of date, because a save is still
queued when they are read. `crossed` is set when either happens. From then on the item can be
in two places and money can be made or lost, so that all properties but the types speak of the
time before; the run does not go on after such a step (`Uncrossed`). They also say that there
is no other way: as long as `crossed` is not set, the mailboxes in memory are true.

The step properties say what others may do to a player. `Wealth` is his coins, the bids he
has standing and the money in the mails to him. `OnlyOwnLoss` lets it fall, when he does
nothing, by his bids on what he wins at that moment and by what was in expired mails to him;
`PaidFor` lets him lose an item only if it is paid for in the same step or was in an expired
mail to him. Both were once
stated without the bids on what he wins (`Spent`), and the attempt to prove them showed that
they were then false: one `Update` can end an auction he sells at and another he wins.
A run with one auction at a time does not show that; one with two players, two items and two
auctions does, and it passes for the properties as they stand (856,738 states; it is too long
to be repeated with the rest).

**Proofs** (`AuctionHouse_proofs.tla`), for any finite sets of players, items, mails and
auctions, any purses, prices, cuts and postage: every property of the run.

| theorem | property |
|---|---|
| `TypeCorrect` | `TypeOK` |
| `MoneyIsConserved` | `MoneyConserved` |
| `ItemsInOnePlace` | `OnePlace` |
| `MailboxesAreTrue` | `MailboxTrue` |
| `NobodyElsesLoss` | `OnlyOwnLoss` |
| `SellersArePaid` | `PaidFor` |

They rest on one inductive invariant, `IInv`, whose parts need each other:

* `MailInv`: the types, `DeletedOpen` (what is marked as deleted is in the mailbox of a
  connected player and asks for no money), that the rows are `Signed` (only the auction house
  has no sender, it asks for no money, and only a mail a player sent for the first time has
  cash on delivery), and
  that purses and inventories in the database are those in memory.
* `AuctionInv`: the auctions in memory and in the table agree, and `BidsInRange`: no bid
  without a bidder, none that reaches the buyout, and none by the seller. Otherwise `Due`
  could be negative, and the seller would be paid less at a buyout than the bid that stood.
* `Matched`: a connected player's mails are his and are those of the table (`BoxesMatch`), and
  no row is empty. Between the queries of a login and their results it is weaker: an old mail
  may be gone from the table, which is why `Loaded` leaves old mails out. Without `Matched`,
  `_SaveMail` would write the money of one mail into the row of another version of it.
* `EachPlaced`: each item is held by one player, or is in one auction, one mail or the waste.
  `HandleMailTakeItem` deletes the item from `mail_items` whatever mail it is in, so that the
  row it was taken from is the only one that changes only because of this part.
* `Total`: the sum of purses, bids, deposits, mails and what was spent is what there was.

The sums are over sets that change. `CollectionLemmas` proves what is needed of
`SumFunctionOnSet` from its definition as a fold: one value or two change, some become zero,
no value falls, the terms are renamed (`SumReindex`, for the numbers that drafts get). The
mails of a step are a family of drafts, numbered by an injection (`NewMails`), and what they
bring follows from the drafts alone: their money (`NewSum`), their items (`NewMailed`), and
what they bring to one player (`DraftsPay`, `DraftArrives`). `MoneyConserved` also needs that
`reqmoney` wraps only if the test of `Affords` fails (`WrapFree`).

The two step properties follow from `IInv` in both states of a step. `Unharmed(p)` is what is
shown for each action of each other player, and for `Update`; `ProcessedHarmless` shows that
expired mails cost their receiver at most what was in them. The cash on delivery is exact
(`PaidOnDelivery`), because a mail to its sender is the only one of that step.

The invariant of the specification is `TypesInv /\ (~crossed => IInv)`. A step that does not
set `crossed` processes rows that are as they were read (`TrueOld`), of players without a
mailbox; `CrashStep` shows the same of a crash. `TypesInv` (`MailInv`, `AuctionInv`, `SeenInv`,
and `BoxesAgree`: where a mailbox has a mail of a player, the table has none of the auction
house under that number) is inductive without the rest of `IInv`, and is what `TypeCorrect`
needs, which holds at any time.
`BoxesAgree` is needed because `_SaveMail` writes the cash on delivery of the mailbox into the
row: a mail without a sender that asks for money would have nobody to pay. The other
assumptions are those of the modules: the items are at the beginning in one inventory each,
no purse holds more than `MAX_MONEY_AMOUNT`, a price is positive, a cut is a percentage, and
the postage of `MAX_MAIL_ITEMS` items fits into 32 bits. No fairness is assumed.

## 9. Database pools and query callbacks

`DatabaseWorkerPool.tla` follows one pool from `DatabaseLoader` to its end. Three parties
share it: the loader and the closing code (`loader`), the workers, each started by the
constructor of its connection before that is opened (`Fresh`, `Take`, `Finish`, `Leave`),
and the world thread, which enqueues operations and runs `ProcessReadyCallbacks`.

| variable | code |
|---|---|
| `server` | what MySQL answers to a connection, external |
| `loader`, `error`, `tries`, `created` | the place in `DatabaseLoader::OpenDatabases`, the error, the attempts, whether the database was created |
| `threads`, `opened` | `_async_threads`, and the connections opened in this attempt |
| `worker`, `operation`, `connected`, `dying` | the worker of each connection, what it executes, whether its connection is open, or being destroyed and waiting for it |
| `queue`, `cancelled`, `shutdown` | `_queue` and its flags, as module `PCQueue` shows the queue to behave |
| `callbacks`, `turn`, `updateCallbacks`, `kept` | `_callbacks` of each `AsyncCallbackProcessor`, and the lists while one is processed |
| `asked`, `delivered`, `dropped` | auxiliary: queries, those whose callback ran, those whose owner was destroyed first |

What an operation does is `DatabaseTransactions`; here it has a number. A callback ends,
gives its chain up, sets the next query of the chain, or asks a query of its own from the
processor that is running it. Synchronous queries, prepared statements and several pools
at once are not modelled.

| run | instance | question |
|---|---|---|
| `Pool_queries` | 1 or 2 workers, 1 repeated attempt, 1 owner, 3 operations, chains of 2, fair | operations are executed on open connections, in order with one worker, all of them before the pool is closed; no callback is lost or run twice; every query is answered; opening ends |
| `Pool_retry` | the same, safety only | expected violation: a pool opened at the second attempt has no worker |

Three operations are a query, the next of its chain and one asked meanwhile. One repeated
attempt and the creation of the database make three openings. Deadlock is not checked:
the pool is closed at the end, the program may be gone, and with a server that is
too old it hangs (see the hazards; `OpeningEnds` excludes that server by name).

**Fairness** (`FairSpec`): threads run, so the loader, each worker and a round of callbacks
go on (weak fairness); an owner is processed in every round of the world loop, which other
owners, queries and operations take turns with (strong fairness of `Process`). Nothing is
assumed of the server or of the moment of the close.

**Finding** (`OpenedWorks`). A failed opening cancels the queue, and nothing ever resets the
flag. When a later attempt succeeds, `Open()` returns 0 and the workers leave at once: the
asynchronous half of the pool is dead, silently.

**Proofs** (`DatabaseWorkerPool_proofs.tla`), for any number of workers, attempts,
operations, owners and chains: `PoolTypeCorrect`, `ConnectedWhenBusy` (WorkersConnected),
`ExecutedInOrder` (OneByOne), `DrainedAtClose` (ClosedDrained) and `NoResultForgotten`
(NoneForgotten). `Inv` adds to them

* `PhaseSound`: what an attempt that failed has cancelled, and that nothing is in the pool
  before it is used;
* `Counted`: the workers started are the first k, k is at most what the attempts so far
  make, and exactly `threads` in a pool that opened at the first attempt;
* `WorkersSound`: before a cancellation a worker that may take an operation has an open
  connection, and one that has left found the queue shut down and empty;
* `InOrder` and `Accounted`: the queue holds the last numbers in order, and all those before
  are executed or being executed;
* `Results`: what waits, was delivered or dropped is what was asked, and no two callbacks
  wait for one query.

The proof goes by party: `PoolStep` leaves the callbacks alone and `WorldStep` the
workers, so each conjunct needs the actions of one of them. Liveness is model-checked.

## 10. Limits

* Model-checked only: the liveness properties (`ClosedSessionsLeave`, `LoadingEnds`,
  `OfflineSessionsEnd`, `WorkTaken`, `CancelReachesAll`, `ShutdownReaches`, `WaitEnds`,
  `DeactivateEnds`, `TransactionsEnd`, `Answered`, `OpeningEnds`). Fairness and what is
  enabled are out of the prover's reach.
* Each component is checked in the company its section names. The composition of all of
  them is not: the modules rest on each other's properties instead (`DatabaseWorkerPool` on
  those of `PCQueue`, `Trade`, `Mail` and `AuctionHouse` on transactions that are executed
  whole and in order).
* All modules are sequentially consistent; what a weaker memory order could show is noted as
  a hazard where the code asks for less than a lock gives.
* Time is a choice, or counted in units as small as the distinctions the code makes.

**Not modelled.** `components` in `PROJECT.json` gives each part with its reason. They are
of three kinds: parts with a protocol of their own that the plan lists (network, the
authentication server, battleground queue, loot rolls, dungeon finder, instance saves,
threat references, spawn pools, events, solo 3v3); parts whose substance is data and
arithmetic rather than control (spells, auras, units, AI, terrain, data stores, formulae);
and parts outside the running server (extractors, updater, vendored code). The core of the
game, in `Unit.cpp`, `Player.cpp`, `Spell.cpp` and the handlers, is by far the largest part
of the repository, and of it only what sessions, trades, mails and auctions touch is here.
