---------------------------- MODULE DatabaseWorkerPool ----------------------------
(****************************************************************************)
(* A database pool from its opening by DatabaseLoader to its end: the       *)
(* connections and their worker threads, the queue of operations, and the   *)
(* callbacks that the world thread runs with the results of queries.        *)
(*                                                                          *)
(* The queue is what module PCQueue shows it to be: a sequence whose        *)
(* consumers take the front, and leave once it is cancelled, or shut down   *)
(* and empty.  What an operation does is in DatabaseTransactions.          *)
(****************************************************************************)
EXTENDS Integers, FiniteSets, FiniteSetsExt, SequencesExt

CONSTANTS
  Owners,      \* sessions and the world, each with an AsyncCallbackProcessor
  MaxThreads,  \* Database.WorkerThreads is at most this
  Attempts,    \* Database.Reconnect.Attempts
  MaxOps,      \* bound: operations that are enqueued
  MaxChain,    \* bound: callbacks of a query
  Nobody

\* A worker for every asynchronous connection the loader ever makes.
Workers == 1..(MaxThreads * (Attempts + 2))
Ops == 1..MaxOps

ASSUME PoolAssumption ==
  /\ MaxThreads \in Nat \ {0} /\ Attempts \in Nat /\ MaxOps \in Nat /\ MaxChain \in Nat \ {0}
  /\ Nobody \notin Owners

\* What the server answers to a connection: CR_CONNECTION_ERROR, ER_BAD_DB_ERROR, a version
\* that is not supported, or that all is well.
Servers == {"down", "nodb", "old", "up"}

\* Where the loader is: in OpenConnections, back from Open with an error, done, or ending.
Phases == {"async", "synch", "error", "ready", "closing", "closed", "failed", "gone"}

\* A QueryCallback: the query whose result it waits for, and the callbacks left.
Callbacks == [op : Ops, left : 1..MaxChain]

VARIABLES
  server,      \* what the server answers
  loader, error, tries, created,
  threads,     \* _async_threads
  opened,      \* connections the current OpenConnections has opened
  worker,      \* "none", "idle" (in WaitAndPop), "busy" or "left"
  operation,   \* what each busy worker executes
  connected,   \* asynchronous connections that are open
  dying,       \* connections the loader is destroying: it waits for their workers
  queue, cancelled, shutdown,
  made,        \* operations enqueued so far
  executed,    \* operations executed
  callbacks,   \* _callbacks of each owner
  turn, updateCallbacks, kept,  \* ProcessReadyCallbacks of the owner `turn'
  asked, delivered, dropped     \* auxiliary: queries, those whose callback ran or is given up

opening == <<server, loader, error, tries, created, threads, opened>>
pool == <<worker, operation, connected, dying, queue, cancelled, shutdown>>
results == <<callbacks, turn, updateCallbacks, kept, asked, delivered, dropped>>
vars == <<opening, pool, made, executed, results>>

Init ==
  /\ server \in Servers
  /\ loader = "async" /\ error = "none" /\ tries = 0 /\ created = FALSE
  /\ threads \in 1..MaxThreads /\ opened = 0
  /\ worker = [w \in Workers |-> "none"] /\ operation = [w \in Workers |-> 0]
  /\ connected = {} /\ dying = {}
  /\ queue = << >> /\ cancelled = FALSE /\ shutdown = FALSE
  /\ made = 0 /\ executed = {}
  /\ callbacks = [o \in Owners |-> << >>]
  /\ turn = Nobody /\ updateCallbacks = << >> /\ kept = << >>
  /\ asked = {} /\ delivered = {} /\ dropped = {}

-----------------------------------------------------------------------------
(****************************************************************************)
(* Opening.  Every asynchronous connection starts its worker when it is     *)
(* made, before it is opened.                                               *)
(****************************************************************************)

Fresh == Min({w \in Workers : worker[w] = "none"})
Started == [worker EXCEPT ![Fresh] = "idle"]

\* Mutant: one connection too few.
FewerByOne == opened + 1 < threads
\* The condition of the loop in OpenConnections.
Fewer == opened < threads

\* The loader proceeds when the connections it destroys are gone.
Free == dying = {}

ConnectAsync ==
  /\ loader = "async" /\ Free /\ Fewer /\ server = "up"
  /\ worker' = Started /\ connected' = connected \cup {Fresh}
  /\ opened' = opened + 1
  /\ UNCHANGED <<server, loader, error, tries, created, threads, operation, dying, queue, cancelled,
                 shutdown, made, executed, results>>

AsyncDone ==
  /\ loader = "async" /\ Free /\ ~Fewer
  /\ loader' = "synch" /\ opened' = 0
  /\ UNCHANGED <<server, error, tries, created, threads, pool, made, executed, results>>

\* Mutant: the queue is not cancelled when a connection cannot be opened.
CancelForgotten == cancelled' = cancelled
\* ProducerConsumerQueue::Cancel
Cancel == cancelled' = TRUE

\* The connection that failed is destroyed, and all of its kind.
AsyncFails ==
  /\ loader = "async" /\ Free /\ Fewer /\ server \in {"down", "nodb"}
  /\ worker' = Started /\ dying' = connected \cup {Fresh}
  /\ Cancel /\ queue' = << >>
  /\ loader' = "error" /\ error' = server
  /\ UNCHANGED <<server, tries, created, threads, opened, operation, connected, shutdown, made,
                 executed, results>>

\* An unsupported version: only the connection at hand is destroyed.
AsyncIncompatible ==
  /\ loader = "async" /\ Free /\ Fewer /\ server = "old"
  /\ worker' = Started /\ dying' = {Fresh}
  /\ loader' = "error" /\ error' = "old"
  /\ UNCHANGED <<server, tries, created, threads, opened, operation, connected, queue, cancelled,
                 shutdown, made, executed, results>>

SynchOpens ==
  /\ loader = "synch" /\ server = "up"
  /\ loader' = "ready" /\ tries' = 0 /\ created' = FALSE
  /\ UNCHANGED <<server, error, threads, opened, pool, made, executed, results>>

\* The asynchronous connections stay.
SynchFails ==
  /\ loader = "synch" /\ server # "up"
  /\ cancelled' = (cancelled \/ server # "old")
  /\ loader' = "error" /\ error' = server
  /\ UNCHANGED <<server, tries, created, threads, opened, worker, operation, connected,
                 dying, queue, shutdown, made, executed, results>>

Reopen == loader' = "async" /\ opened' = 0 /\ error' = "none"

\* DatabaseLoader: the attempts after the first, not after the database was created.
Retry ==
  /\ loader = "error" /\ Free /\ error = "down" /\ tries < Attempts /\ ~created
  /\ Reopen /\ tries' = tries + 1
  /\ UNCHANGED <<server, created, threads, pool, made, executed, results>>

CreateDatabase ==
  /\ loader = "error" /\ Free /\ error = "nodb" /\ ~created
  /\ Reopen /\ created' = TRUE /\ server' = IF server = "nodb" THEN "up" ELSE server
  /\ UNCHANGED <<tries, threads, pool, made, executed, results>>

\* Databases are not created if Updates.AutoSetup is off.
GiveUp ==
  /\ loader = "error" /\ Free
  /\ \/ error \in {"old", "nodb"} \/ created
     \/ error = "down" /\ tries = Attempts
  /\ loader' = "failed"
  /\ UNCHANGED <<server, error, tries, created, threads, opened, pool, made, executed, results>>

\* The program ends: the destructor of the pool.
Destructor ==
  /\ loader = "failed" /\ Free
  /\ Cancel /\ queue' = << >> /\ dying' = connected /\ loader' = "gone"
  /\ UNCHANGED <<server, error, tries, created, threads, opened, worker, operation, connected,
                 shutdown, made, executed, results>>

\* The server is started, or stops, while the loader is at work.
ServerChanges ==
  /\ loader \in {"async", "synch", "error"}
  /\ server # "old" /\ server' \in Servers \ {"old", server}
  /\ created => server' # "nodb"
  /\ UNCHANGED <<loader, error, tries, created, threads, opened, pool, made, executed, results>>

-----------------------------------------------------------------------------
(****************************************************************************)
(* Workers, and the end of the pool.                                        *)
(****************************************************************************)

\* DatabaseWorker::WorkerThread: WaitAndPop, and an operation.
Take(w) ==
  /\ worker[w] = "idle" /\ ~cancelled /\ queue # << >>
  /\ worker' = [worker EXCEPT ![w] = "busy"]
  /\ operation' = [operation EXCEPT ![w] = Head(queue)] /\ queue' = Tail(queue)
  /\ UNCHANGED <<opening, connected, dying, cancelled, shutdown, made, executed, results>>

Finish(w) ==
  /\ worker[w] = "busy"
  /\ executed' = executed \cup {operation[w]}
  /\ worker' = [worker EXCEPT ![w] = "idle"]
  /\ operation' = [operation EXCEPT ![w] = 0]
  /\ UNCHANGED <<opening, connected, dying, queue, cancelled, shutdown, made, results>>

\* Mutant: a queue that is shut down is not emptied first.
NoMoreAtOnce == cancelled \/ shutdown
NoMore == cancelled \/ (shutdown /\ queue = << >>)

Leave(w) ==
  /\ worker[w] = "idle" /\ NoMore
  /\ worker' = [worker EXCEPT ![w] = "left"]
  /\ UNCHANGED <<opening, operation, connected, dying, queue, cancelled, shutdown, made,
                 executed, results>>

\* Mutant: a connection is closed without waiting for its worker.
JoinedAlways(w) == TRUE
Joined(w) == worker[w] = "left"

\* MySQLConnection::Close, in its destructor
CloseConnection(w) ==
  /\ w \in dying /\ Joined(w)
  /\ dying' = dying \ {w} /\ connected' = connected \ {w}
  /\ UNCHANGED <<opening, worker, operation, queue, cancelled, shutdown, made, executed, results>>

\* DatabaseWorkerPool::Close, at the end of the program or because another pool could not
\* be opened; no other thread uses the pool then.
Close ==
  /\ loader = "ready" /\ turn = Nobody
  /\ loader' = "closing" /\ shutdown' = TRUE /\ dying' = connected
  /\ UNCHANGED <<server, error, tries, created, threads, opened, worker, operation, connected,
                 queue, cancelled, made, executed, results>>

Closed ==
  /\ loader = "closing" /\ Free /\ loader' = "closed"
  /\ UNCHANGED <<server, error, tries, created, threads, opened, pool, made, executed, results>>

-----------------------------------------------------------------------------
(****************************************************************************)
(* The world thread: operations without a result, queries, and callbacks.   *)
(****************************************************************************)

Next1 == made + 1

\* Mutant: the newest operation comes first.
EnqueueFirst == made < MaxOps /\ made' = Next1 /\ queue' = <<Next1>> \o queue
Enqueue == made < MaxOps /\ made' = Next1 /\ queue' = Append(queue, Next1)

New(n) == [op |-> Next1, left |-> n]

\* Execute, CommitTransaction, or a PingOperation of KeepAlive
Execute ==
  /\ loader = "ready" /\ Enqueue
  /\ UNCHANGED <<opening, worker, operation, connected, dying, cancelled, shutdown, executed,
                 results>>

\* AsyncQuery, with a chain of n callbacks, and AddCallback
AsyncQuery(o, n) ==
  /\ loader = "ready" /\ turn = Nobody /\ Enqueue
  /\ callbacks' = [callbacks EXCEPT ![o] = Append(@, New(n))]
  /\ asked' = asked \cup {Next1}
  /\ UNCHANGED <<opening, worker, operation, connected, dying, cancelled, shutdown, executed, turn,
                 updateCallbacks, kept, delivered, dropped>>

\* AsyncCallbackProcessor::ProcessReadyCallbacks: the callbacks are moved away,
Process(o) ==
  /\ loader = "ready" /\ turn = Nobody /\ callbacks[o] # << >>
  /\ turn' = o /\ updateCallbacks' = callbacks[o]
  /\ callbacks' = [callbacks EXCEPT ![o] = << >>]
  /\ UNCHANGED <<opening, pool, made, executed, kept, asked, delivered, dropped>>

\* those whose result is not there are kept,
NotReady ==
  /\ updateCallbacks # << >> /\ Head(updateCallbacks).op \notin executed
  /\ kept' = Append(kept, Head(updateCallbacks)) /\ updateCallbacks' = Tail(updateCallbacks)
  /\ UNCHANGED <<opening, pool, made, executed, callbacks, turn, asked, delivered, dropped>>

Ready ==
  /\ updateCallbacks # << >> /\ Head(updateCallbacks).op \in executed
  /\ updateCallbacks' = Tail(updateCallbacks)
  /\ delivered' = delivered \cup {Head(updateCallbacks).op}

\* a callback may be the last of its chain, or gives it up,
InvokeLast ==
  /\ Ready
  /\ UNCHANGED <<opening, pool, made, executed, callbacks, turn, kept, asked, dropped>>

\* or sets the next query,
InvokeNext ==
  /\ Ready /\ Enqueue /\ Head(updateCallbacks).left > 1
  /\ kept' = Append(kept, New(Head(updateCallbacks).left - 1)) /\ asked' = asked \cup {Next1}
  /\ UNCHANGED <<opening, worker, operation, connected, dying, cancelled, shutdown, executed,
                 callbacks, turn, dropped>>

\* or adds a query of its own to the processor that runs it,
InvokeAsks(n) ==
  /\ Ready /\ Enqueue
  /\ callbacks' = [callbacks EXCEPT ![turn] = Append(@, New(n))] /\ asked' = asked \cup {Next1}
  /\ UNCHANGED <<opening, worker, operation, connected, dying, cancelled, shutdown, executed,
                 turn, kept, dropped>>

\* Mutant: what callbacks added meanwhile is overwritten.
BackOnly(o) == kept
\* and in the end those that were kept follow those that were added.
Back(o) == callbacks[o] \o kept

Processed ==
  /\ turn # Nobody /\ updateCallbacks = << >>
  /\ callbacks' = [callbacks EXCEPT ![turn] = Back(turn)]
  /\ turn' = Nobody /\ kept' = << >>
  /\ UNCHANGED <<opening, pool, made, executed, updateCallbacks, asked, delivered, dropped>>

OpsOf(cs) == {cs[k].op : k \in 1..Len(cs)}

\* The owner is destroyed, and its processor with it.
Forget(o) ==
  /\ turn = Nobody /\ callbacks[o] # << >>
  /\ dropped' = dropped \cup OpsOf(callbacks[o])
  /\ callbacks' = [callbacks EXCEPT ![o] = << >>]
  /\ UNCHANGED <<opening, pool, made, executed, turn, updateCallbacks, kept, asked, delivered>>

-----------------------------------------------------------------------------

Opens == ConnectAsync \/ AsyncDone \/ AsyncFails \/ AsyncIncompatible \/ SynchOpens \/ SynchFails
Recovers == Retry \/ CreateDatabase \/ GiveUp \/ Destructor \/ Closed
Destroys == \E w \in Workers : CloseConnection(w)
Works(w) == Take(w) \/ Finish(w) \/ Leave(w)
Runs == NotReady \/ InvokeLast \/ InvokeNext \/ (\E n \in 1..MaxChain : InvokeAsks(n)) \/ Processed

Next ==
  \/ Opens \/ Recovers \/ Destroys \/ ServerChanges \/ Close
  \/ \E w \in Workers : Works(w)
  \/ Execute \/ Runs
  \/ \E o \in Owners : Process(o) \/ Forget(o) \/ \E n \in 1..MaxChain : AsyncQuery(o, n)

Spec == Init /\ [][Next]_vars

\* Threads run; every session and the world are updated in every round of the world loop.
Fairness ==
  /\ WF_vars(Opens) /\ WF_vars(Recovers) /\ WF_vars(Destroys) /\ WF_vars(Runs)
  /\ \A w \in Workers : WF_vars(Works(w))
  /\ \A o \in Owners : SF_vars(Process(o))

FairSpec == Spec /\ Fairness

-----------------------------------------------------------------------------
(****************************************************************************)
(* Properties.                                                              *)
(****************************************************************************)

\* Type invariant of the pool, its workers and the callbacks.
TypeOK ==
  /\ server \in Servers /\ loader \in Phases /\ error \in Servers \cup {"none"}
  /\ tries \in 0..Attempts /\ created \in BOOLEAN
  /\ threads \in 1..MaxThreads /\ opened \in 0..threads
  /\ worker \in [Workers -> {"none", "idle", "busy", "left"}]
  /\ operation \in [Workers -> Ops \cup {0}]
  /\ connected \subseteq Workers /\ dying \subseteq Workers
  /\ queue \in Seq(Ops) /\ cancelled \in BOOLEAN /\ shutdown \in BOOLEAN
  /\ made \in 0..MaxOps /\ executed \subseteq Ops
  /\ callbacks \in [Owners -> Seq(Callbacks)]
  /\ turn \in Owners \cup {Nobody}
  /\ updateCallbacks \in Seq(Callbacks) /\ kept \in Seq(Callbacks)
  /\ asked \subseteq Ops /\ delivered \subseteq Ops /\ dropped \subseteq Ops

\* An operation is executed on a connection that is open: workers start before their
\* connections do, and must be gone before they are closed.
WorkersConnected == \A w \in Workers : worker[w] = "busy" => w \in connected

\* With one worker thread, the default, an operation is executed when all that was enqueued
\* before it has been: what is loaded at a login is what the last logout saved.
OneByOne ==
  threads = 1 => \A w \in Workers, x \in Ops :
                   worker[w] = "busy" /\ x < operation[w] => x \in executed

\* A pool that opened at the first attempt executes all that was enqueued before it is
\* closed.
ClosedDrained == loader = "closed" /\ ~cancelled => executed = 1..made

\* The queries that some processor holds a callback for.
Waiting ==
  (UNION {OpsOf(callbacks[o]) : o \in Owners}) \cup OpsOf(updateCallbacks) \cup OpsOf(kept)

\* No result is forgotten or given twice: a query has a callback waiting until the callback
\* is run or its owner is destroyed, whatever is added while callbacks run.
NoneForgotten ==
  /\ asked = Waiting \cup delivered \cup dropped
  /\ Waiting \cap delivered = {}

\* In a pool that opened at the first attempt, the callback of every query is run, unless
\* its owner is destroyed or the pool is closed.
Answered ==
  \A x \in Ops : x \in asked ~> (x \in delivered \cup dropped \/ cancelled \/ loader # "ready")

\* The loader ends its attempts, with the pool open or the program at its end, unless the
\* version of the server is not supported.
OpeningEnds == loader = "async" ~> (loader \in {"ready", "gone"} /\ Free) \/ server = "old"

\* A pool that is open executes operations: one of its workers is there.
OpenedWorks == loader = "ready" => \E w \in Workers : worker[w] \notin {"none", "left"}
=============================================================================
