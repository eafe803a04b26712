------------------------- MODULE DatabaseTransactions -------------------------
(***************************************************************************)
(* Transactions of one DatabaseWorkerPool: queued for the worker threads   *)
(* of the asynchronous connections, or committed directly by a game thread *)
(* on a synchronous one.  MySQLConnection::ExecuteTransaction sends START  *)
(* TRANSACTION, the statements and COMMIT, each in one round trip that may *)
(* lose the connection; TransactionWithResultTask and DirectCommit-        *)
(* Transaction repeat what deadlocked.                                     *)
(*                                                                         *)
(* The MySQL server is external: one session per connection, which applies *)
(* a statement at once outside a transaction (autocommit), rolls back what *)
(* is open when the connection is lost, and rolls back a whole transaction *)
(* when it reports a deadlock.                                             *)
(***************************************************************************)
EXTENDS Integers, FiniteSets, SequencesExt

CONSTANTS
  Async,     \* connections with a worker thread
  Sync,      \* connections used by the game threads
  Trans,     \* SQLTransaction objects, each committed once
  Size,      \* Size[t]: the number of statements of t
  MaxLost,   \* bound: how often the server is lost
  Attempts,  \* attempts of _HandleMySQLErrno (5 in the code)
  LoopBreaker, \* retries of DirectCommitTransaction (5 in the code)
  Null

Conns == Async \cup Sync

ASSUME TransactionsAssumption ==
  /\ Async \cap Sync = {}
  /\ Size \in [Trans -> Nat]
  /\ MaxLost \in Nat /\ Attempts \in Nat \ {0} /\ LoopBreaker \in Nat
  /\ Null \notin Conns \cup Trans

VARIABLES
  asked,    \* transactions handed to the pool
  queue,    \* tasks waiting for a worker
  task,     \* the transaction each connection executes, or Null
  stage,    \* how far it is
  next,     \* the next statement of it
  code,     \* what ExecuteTransaction will return: 0 is "ok", -1 is "empty"
  retry,    \* 0 in the first execution, then the number of the repetition
  link,     \* m_Mysql: "up", "reopen" (in _HandleMySQLErrno) or "null"
  attempts, \* attempts left in _HandleMySQLErrno
  deadlockLock,  \* the owner of TransactionTask::_deadlockLock
  open,     \* server: the session is in a transaction
  pending,  \* server: how many statements that transaction has executed
  db,       \* server: how often each statement is applied for good
  told,     \* what the promise of each transaction was set to
  lost,     \* how often the server was lost
  aborted,  \* ABORT()
  spoiled   \* history: transactions that met a failure the code hides from them

clientVars == <<asked, queue, task, stage, next, code, retry, deadlockLock, told>>
linkVars == <<link, attempts, lost, aborted>>
serverVars == <<open, pending, db>>
vars == <<clientVars, linkVars, serverVars, spoiled>>

Stages == {"idle", "begin", "work", "commit", "rollback", "return", "lock"}
Sending == {"begin", "work", "commit", "rollback"}

Init ==
  /\ asked = {} /\ queue = <<>>
  /\ task = [c \in Conns |-> Null] /\ stage = [c \in Conns |-> "idle"]
  /\ next = [c \in Conns |-> 1] /\ code = [c \in Conns |-> "ok"]
  /\ retry = [c \in Conns |-> 0]
  /\ link = [c \in Conns |-> "up"] /\ attempts = [c \in Conns |-> 0]
  /\ deadlockLock = Null
  /\ open = [c \in Conns |-> FALSE] /\ pending = [c \in Conns |-> 0]
  /\ db = [t \in Trans |-> [i \in 1..Size[t] |-> 0]]
  /\ told = [t \in Trans |-> "none"]
  /\ lost = 0 /\ aborted = FALSE
  /\ spoiled = {}

-----------------------------------------------------------------------------
(***************************************************************************)
(* ExecuteTransaction, call by call.                                       *)
(***************************************************************************)

\* Mutant: a repetition goes on where the last execution failed.
StartThere(c, t) ==
  /\ task' = [task EXCEPT ![c] = t]
  /\ stage' = [stage EXCEPT ![c] = IF Size[t] = 0 THEN "return" ELSE "begin"]
  /\ code' = [code EXCEPT ![c] = IF Size[t] = 0 THEN "empty" ELSE "ok"]
  /\ next' = [next EXCEPT ![c] = IF task[c] = t THEN @ ELSE 1]

\* The call of ExecuteTransaction: an empty transaction returns -1 at once.
Start(c, t) ==
  /\ task' = [task EXCEPT ![c] = t]
  /\ stage' = [stage EXCEPT ![c] = IF Size[t] = 0 THEN "return" ELSE "begin"]
  /\ code' = [code EXCEPT ![c] = IF Size[t] = 0 THEN "empty" ELSE "ok"]
  /\ next' = [next EXCEPT ![c] = 1]

\* The effect of the statements `from'..`upto' of a transaction, for good.
Applied(t, from, upto) ==
  [db EXCEPT ![t] = [i \in 1..Size[t] |-> IF i \in from..upto THEN db[t][i] + 1 ELSE db[t][i]]]

\* The transaction of the server's session is over: nothing is pending in it.
SessionEnds(c) ==
  /\ open' = [open EXCEPT ![c] = FALSE]
  /\ pending' = [pending EXCEPT ![c] = 0]

\* The call in hand has succeeded, or its failure is ignored.
GoOn(c) ==
  /\ stage' = [stage EXCEPT ![c] =
       CASE stage[c] = "begin" -> "work"
         [] stage[c] = "work" -> IF next[c] = Size[task[c]] THEN "commit" ELSE "work"
         [] OTHER -> "return"]
  /\ next' = [next EXCEPT ![c] = IF stage[c] = "work" THEN @ + 1 ELSE @]

\* A round trip for the call in hand, without an error.
Call(c, here) ==
  /\ ~aborted /\ stage[c] = here /\ link[c] = "up"
  /\ GoOn(c)
  /\ UNCHANGED <<linkVars, asked, queue, task, code, retry, deadlockLock, told>>

BeginTransaction(c) ==
  /\ Call(c, "begin")
  /\ open' = [open EXCEPT ![c] = TRUE]
  /\ UNCHANGED <<pending, db, spoiled>>

\* A statement in the transaction of the session, or without one (autocommit=1).
ExecuteInside(c) ==
  /\ Call(c, "work") /\ open[c]
  /\ pending' = [pending EXCEPT ![c] = @ + 1]
  /\ UNCHANGED <<open, db, spoiled>>

ExecuteAlone(c) ==
  /\ Call(c, "work") /\ ~open[c]
  /\ db' = Applied(task[c], next[c], next[c])
  /\ UNCHANGED <<open, pending, spoiled>>

CommitTransaction(c) ==
  /\ Call(c, "commit")
  /\ db' = Applied(task[c], 1, pending[c])
  /\ SessionEnds(c)
  /\ UNCHANGED spoiled

\* The transaction of c has met a failure in one of the calls `where'.
Spoil(c, where) ==
  spoiled' = IF stage[c] \in where THEN spoiled \cup {task[c]} ELSE spoiled

\* The server refuses the COMMIT and rolls back; nobody looks at the result of it.
CommitRefused(c) ==
  /\ Call(c, "commit") /\ open[c]
  /\ SessionEnds(c)
  /\ Spoil(c, {"commit"})
  /\ UNCHANGED db

RollbackTransaction(c) ==
  /\ Call(c, "rollback")
  /\ SessionEnds(c)
  /\ UNCHANGED <<db, spoiled>>

\* Mutant: no ROLLBACK is sent.
StatementFailsNoRollback(c, e) ==
  /\ ~aborted /\ stage[c] = "work" /\ link[c] = "up"
  /\ code' = [code EXCEPT ![c] = e]
  /\ stage' = [stage EXCEPT ![c] = "return"]
  /\ IF e = "deadlock"
     THEN SessionEnds(c) ELSE UNCHANGED <<open, pending>>
  /\ UNCHANGED <<linkVars, asked, queue, task, next, retry, deadlockLock, told, db, spoiled>>

\* The server refuses a statement; a deadlock has ended its transaction.
StatementFails(c, e) ==
  /\ ~aborted /\ stage[c] = "work" /\ link[c] = "up"
  /\ code' = [code EXCEPT ![c] = e]
  /\ stage' = [stage EXCEPT ![c] = "rollback"]
  /\ IF e = "deadlock"
     THEN SessionEnds(c) ELSE UNCHANGED <<open, pending>>
  /\ UNCHANGED <<linkVars, asked, queue, task, next, retry, deadlockLock, told, db, spoiled>>

\* The connection is lost before the server executed the call, or before its answer.
Lose(c) ==
  /\ ~aborted /\ stage[c] \in Sending /\ link[c] = "up" /\ lost < MaxLost
  /\ lost' = lost + 1
  /\ \/ db' = db
     \/ stage[c] = "work" /\ ~open[c] /\ db' = Applied(task[c], next[c], next[c])
     \/ stage[c] = "commit" /\ open[c] /\ db' = Applied(task[c], 1, pending[c])
  /\ SessionEnds(c)
  /\ link' = [link EXCEPT ![c] = "reopen"]
  /\ attempts' = [attempts EXCEPT ![c] = Attempts]
  /\ Spoil(c, {"work", "commit"})
  /\ UNCHANGED <<clientVars, aborted>>

\* _HandleMySQLErrno: a new connection is there, and the same call is sent again.
Reopen(c) ==
  /\ ~aborted /\ link[c] = "reopen"
  /\ link' = [link EXCEPT ![c] = "up"]
  /\ UNCHANGED <<clientVars, serverVars, attempts, lost, aborted, spoiled>>

\* The host cannot be reached: once more, and in the end ABORT().
HostError(c) ==
  /\ ~aborted /\ link[c] = "reopen"
  /\ attempts' = [attempts EXCEPT ![c] = @ - 1]
  /\ aborted' = (attempts[c] = 1)
  /\ UNCHANGED <<clientVars, serverVars, link, lost, spoiled>>

\* Any other error of Open(): _HandleMySQLErrno calls itself with a code it does
\* not know, and m_Mysql remains nullptr.
OtherError(c) ==
  /\ ~aborted /\ link[c] = "reopen" /\ attempts[c] > 1
  /\ link' = [link EXCEPT ![c] = "null"]
  /\ UNCHANGED <<clientVars, serverVars, attempts, lost, aborted, spoiled>>

\* ABORT(): the statements cannot be prepared again, or a statement does not fit
\* the database.
Terminate(c) ==
  /\ ~aborted
  /\ link[c] = "reopen" \/ (stage[c] = "work" /\ link[c] = "up")
  /\ aborted' = TRUE
  /\ UNCHANGED <<clientVars, serverVars, link, attempts, lost, spoiled>>

\* Without m_Mysql nothing is sent.  A statement fails with mysql_errno(nullptr),
\* which is the library's last error of no connection, if any.
SendNothing(c) ==
  /\ ~aborted /\ stage[c] \in Sending /\ link[c] = "null"
  /\ IF stage[c] = "work"
     THEN /\ stage' = [stage EXCEPT ![c] = "rollback"]
          /\ \E e \in {"ok", "other"} : code' = [code EXCEPT ![c] = e]
          /\ UNCHANGED next
     ELSE GoOn(c) /\ code' = code
  /\ Spoil(c, {"begin", "work", "commit"})
  /\ UNCHANGED <<linkVars, serverVars, asked, queue, task, retry, deadlockLock, told>>

-----------------------------------------------------------------------------
(***************************************************************************)
(* CommitTransaction and AsyncCommitTransaction, and the worker threads.   *)
(***************************************************************************)

Enqueue(t) ==
  /\ ~aborted /\ t \notin asked
  /\ asked' = asked \cup {t}
  /\ queue' = Append(queue, t)
  /\ UNCHANGED <<linkVars, serverVars, spoiled, task, stage, next, code, retry, deadlockLock, told>>

Take(c) ==
  /\ ~aborted /\ task[c] = Null /\ queue # <<>>
  /\ Start(c, Head(queue))
  /\ queue' = Tail(queue)
  /\ retry' = [retry EXCEPT ![c] = 0]
  /\ UNCHANGED <<linkVars, serverVars, spoiled, asked, deadlockLock, told>>

\* The connection is done with its transaction.
End(c, answer) ==
  /\ told' = [told EXCEPT ![task[c]] = answer]
  /\ task' = [task EXCEPT ![c] = Null]
  /\ stage' = [stage EXCEPT ![c] = "idle"]
  /\ UNCHANGED <<next, code, retry>>

\* The first execution has returned.
Executed(c) ==
  /\ ~aborted /\ stage[c] = "return" /\ retry[c] = 0
  /\ IF code[c] = "deadlock"
     THEN /\ stage' = [stage EXCEPT ![c] = "lock"]
          /\ UNCHANGED <<task, next, code, retry, told>>
     ELSE End(c, IF code[c] = "ok" THEN "yes" ELSE "no")
  /\ UNCHANGED <<linkVars, serverVars, spoiled, asked, queue, deadlockLock>>

\* A deadlocked transaction is repeated by one worker at a time ...
LockAndRetry(c) ==
  /\ ~aborted /\ stage[c] = "lock" /\ deadlockLock = Null
  /\ deadlockLock' = c
  /\ retry' = [retry EXCEPT ![c] = 1]
  /\ Start(c, task[c])
  /\ UNCHANGED <<linkVars, serverVars, spoiled, asked, queue, told>>

\* ... until it succeeds ...
RetrySucceeds(c) ==
  /\ ~aborted /\ stage[c] = "return" /\ retry[c] > 0 /\ code[c] = "ok"
  /\ deadlockLock' = Null
  /\ End(c, "yes")
  /\ UNCHANGED <<linkVars, serverVars, spoiled, asked, queue>>

\* ... whatever it fails with ...
RetryAgain(c) ==
  /\ ~aborted /\ stage[c] = "return" /\ retry[c] > 0 /\ code[c] # "ok"
  /\ Start(c, task[c])
  /\ UNCHANGED <<linkVars, serverVars, spoiled, asked, queue, retry, deadlockLock, told>>

\* Mutant: the promise is not set when the minute has passed.
GiveUpSilently(c) ==
  /\ ~aborted /\ stage[c] = "return" /\ retry[c] > 0 /\ code[c] # "ok"
  /\ deadlockLock' = Null
  /\ task' = [task EXCEPT ![c] = Null]
  /\ stage' = [stage EXCEPT ![c] = "idle"]
  /\ UNCHANGED <<linkVars, serverVars, spoiled, asked, queue, next, code, retry, told>>

\* ... or a minute has passed.
GiveUp(c) ==
  /\ ~aborted /\ stage[c] = "return" /\ retry[c] > 0 /\ code[c] # "ok"
  /\ deadlockLock' = Null
  /\ End(c, "no")
  /\ UNCHANGED <<linkVars, serverVars, spoiled, asked, queue>>

-----------------------------------------------------------------------------
(***************************************************************************)
(* DirectCommitTransaction: the connection stays locked, and a deadlock is *)
(* repeated a few times.  Nobody is told the result.                       *)
(***************************************************************************)

DirectCommit(c, t) ==
  /\ ~aborted /\ task[c] = Null /\ t \notin asked
  /\ asked' = asked \cup {t}
  /\ Start(c, t)
  /\ retry' = [retry EXCEPT ![c] = 0]
  /\ UNCHANGED <<linkVars, serverVars, spoiled, queue, deadlockLock, told>>

DirectExecuted(c) ==
  /\ ~aborted /\ stage[c] = "return"
  /\ IF /\ code[c] # "ok" /\ retry[c] < LoopBreaker
        /\ code[c] = "deadlock" \/ retry[c] > 0
     THEN /\ Start(c, task[c])
          /\ retry' = [retry EXCEPT ![c] = @ + 1]
          /\ UNCHANGED told
     ELSE End(c, "void")
  /\ UNCHANGED <<linkVars, serverVars, spoiled, asked, queue, deadlockLock>>

-----------------------------------------------------------------------------

\* The steps of a connection that no further error disturbs.
Progress(c) ==
  \/ BeginTransaction(c) \/ ExecuteInside(c) \/ ExecuteAlone(c)
  \/ CommitTransaction(c) \/ RollbackTransaction(c)
  \/ Reopen(c) \/ SendNothing(c)
  \/ c \in Async /\ (Take(c) \/ Executed(c) \/ LockAndRetry(c) \/ RetrySucceeds(c) \/ GiveUp(c))
  \/ c \in Sync /\ DirectExecuted(c)

Trouble(c) ==
  \/ \E e \in {"deadlock", "other"} : StatementFails(c, e)
  \/ CommitRefused(c) \/ Lose(c) \/ HostError(c) \/ OtherError(c) \/ Terminate(c)
  \/ c \in Async /\ RetryAgain(c)

\* The process is dead, or the pool has nothing to do.
Finished ==
  /\ aborted \/ (asked = Trans /\ queue = <<>> /\ \A c \in Conns : task[c] = Null)
  /\ UNCHANGED vars

Next ==
  \/ \E t \in Trans : Enqueue(t) \/ \E c \in Sync : DirectCommit(c, t)
  \/ \E c \in Conns : Progress(c) \/ Trouble(c)
  \/ Finished

Spec == Init /\ [][Next]_vars

\* Threads are scheduled and the server answers; a worker that asks for the
\* deadlock lock again and again gets it; the minute of the repetitions passes.
FairSpec == Spec /\ \A c \in Conns : /\ WF_vars(Progress(c) \/ HostError(c) \/ OtherError(c))
                                     /\ SF_vars(c \in Async /\ (GiveUp(c) \/ LockAndRetry(c)))

-----------------------------------------------------------------------------

\* Shape of the state.
TypeOK ==
  /\ asked \in SUBSET Trans /\ queue \in Seq(Trans)
  /\ task \in [Conns -> Trans \cup {Null}] /\ stage \in [Conns -> Stages]
  /\ next \in [Conns -> Nat \ {0}]
  /\ code \in [Conns -> {"ok", "deadlock", "other", "empty"}]
  /\ retry \in [Conns -> Nat]
  /\ link \in [Conns -> {"up", "reopen", "null"}] /\ attempts \in [Conns -> Nat]
  /\ deadlockLock \in Async \cup {Null}
  /\ open \in [Conns -> BOOLEAN] /\ pending \in [Conns -> Nat]
  /\ DOMAIN db = Trans /\ \A t \in Trans : db[t] \in [1..Size[t] -> Nat]
  /\ told \in [Trans -> {"none", "yes", "no", "void"}]
  /\ lost \in Nat /\ aborted \in BOOLEAN /\ spoiled \in SUBSET Trans

Nothing(t) == \A i \in 1..Size[t] : db[t][i] = 0
Everything(t) == \A i \in 1..Size[t] : db[t][i] = 1

\* A transaction that met no failure the code hides is applied completely and once, or
\* not at all.
AllOrNothing == \A t \in Trans \ spoiled : Nothing(t) \/ Everything(t)

\* Every transaction that has ended is applied completely and once, or not at all:
\* "Begins an automanaged transaction pointer that will automatically rollback if not
\* commited. (Autocommit=0)" (DatabaseWorkerPool.h).
WholeWhenDone == \A t \in Trans : told[t] # "none" => Nothing(t) \/ Everything(t)

\* What follows a transaction on a connection is not swallowed by one left open,
\* whatever the transaction met.
NothingLeftOpen == \A c \in Conns : task[c] = Null => ~open[c]

\* The promise tells the truth, and the store has all or nothing, of every transaction but
\* those that lost the server at a statement or at the COMMIT, had their COMMIT refused or
\* ran without a connection; and what these do to the store, they do to themselves and
\* before their end.
Store == INSTANCE TransactionStore
StoreSpec == Store!Spec

\* Every transaction ends, deadlocked or not, with the server lost or not; nobody
\* waits for the deadlock lock for ever.
TransactionsEnd ==
  \A t \in Trans : t \in asked ~> told[t] # "none" \/ aborted
=============================================================================
