------------------------------- MODULE PCQueue -------------------------------
(***************************************************************************)
(* ProducerConsumerQueue: a queue under a mutex whose consumers sleep on a *)
(* condition variable.  What the threads do under the lock is one step;    *)
(* what they do without it is a step of its own: notify_one comes after    *)
(* Push has released the lock, Shutdown never takes it, and a consumer     *)
(* that found nothing to do still holds the lock until it sleeps.          *)
(*                                                                         *)
(* The databases, the map updater and the auction searcher use the queue   *)
(* for pointers to request objects: Items are such objects, and one is in  *)
(* the queue at most once.                                                 *)
(***************************************************************************)
EXTENDS Integers, FiniteSets, SequencesExt

CONSTANTS
  Producers,  \* threads that push
  Consumers,  \* threads that pop
  Items,      \* request objects
  Null        \* nullptr, and nobody

ASSUME PCQueueAssumption ==
  /\ IsFiniteSet(Producers) /\ IsFiniteSet(Consumers)
  /\ Null \notin Items \cup Consumers

VARIABLES
  queue,      \* _queue
  lock,       \* the consumer that keeps _queueLock between two steps, or Null
  at,         \* where each consumer is in WaitAndPop
  value,      \* what the last call gave to each consumer
  pushing,    \* producers between the unlock and notify_one
  cancelled,  \* _cancel
  shutdown    \* Shutdown(): "no", "set" (_shutdown is true), "done" (notified)

queueVars == <<queue, lock, at, value, pushing, cancelled, shutdown>>

InitQueue ==
  /\ queue = <<>> /\ lock = Null
  /\ at = [c \in Consumers |-> "idle"]
  /\ value = [c \in Consumers |-> Null]
  /\ pushing = {}
  /\ cancelled = FALSE /\ shutdown = "no"

Sleepers == {c \in Consumers : at[c] = "wait"}
Seekers == {c \in Consumers : at[c] = "seek"}

\* The condition variable wakes threads; each will test its predicate again.
Woken(cs) == [c \in Consumers |-> IF c \in cs /\ at[c] = "wait" THEN "seek" ELSE at[c]]

\* Mutant: only a push into an empty queue is worth a notification.
PushWakesFromEmpty(p, x) ==
  /\ lock = Null
  /\ p \notin pushing /\ x \notin ToSet(queue)
  /\ queue' = Append(queue, x)
  /\ pushing' = IF queue = <<>> THEN pushing \cup {p} ELSE pushing
  /\ UNCHANGED <<lock, at, value, cancelled, shutdown>>

Push(p, x) ==
  /\ lock = Null
  /\ p \notin pushing /\ x \notin ToSet(queue)
  /\ queue' = Append(queue, x)
  /\ pushing' = pushing \cup {p}
  /\ UNCHANGED <<lock, at, value, cancelled, shutdown>>

NotifyOne(p) ==
  /\ p \in pushing
  /\ pushing' = pushing \ {p}
  /\ IF Sleepers = {} THEN at' = at
     ELSE \E c \in Sleepers : at' = Woken({c})
  /\ UNCHANGED <<queue, lock, value, cancelled, shutdown>>

\* A consumer calls WaitAndPop; the caller's variable is nullptr.
Enter(c) ==
  /\ at[c] = "idle"
  /\ at' = [at EXCEPT ![c] = "seek"]
  /\ value' = [value EXCEPT ![c] = Null]
  /\ UNCHANGED <<queue, lock, pushing, cancelled, shutdown>>

\* The predicate of WaitAndPop.
MayReturn == queue # <<>> \/ cancelled \/ shutdown # "no"

\* With the predicate true, it takes the front unless there is none or Cancel came.
Return(c) ==
  /\ at[c] = "seek" /\ lock = Null
  /\ MayReturn
  /\ at' = [at EXCEPT ![c] = "back"]
  /\ IF queue = <<>> \/ cancelled
     THEN UNCHANGED <<queue, value>>
     ELSE /\ value' = [value EXCEPT ![c] = Head(queue)]
          /\ queue' = Tail(queue)
  /\ UNCHANGED <<lock, pushing, cancelled, shutdown>>

\* Pop: the same without waiting.
Pop(c) ==
  /\ at[c] = "idle" /\ lock = Null
  /\ at' = [at EXCEPT ![c] = "back"]
  /\ IF queue = <<>> \/ cancelled
     THEN queue' = queue /\ value' = [value EXCEPT ![c] = Null]
     ELSE /\ value' = [value EXCEPT ![c] = Head(queue)]
          /\ queue' = Tail(queue)
  /\ UNCHANGED <<lock, pushing, cancelled, shutdown>>

\* Mutant: the lock is not kept until the consumer sleeps.
DecideUnlocked(c) ==
  /\ at[c] = "seek" /\ lock = Null
  /\ ~MayReturn
  /\ at' = [at EXCEPT ![c] = "block"]
  /\ UNCHANGED <<queue, lock, value, pushing, cancelled, shutdown>>

\* The predicate is false: the consumer has the lock and is going to sleep.
Decide(c) ==
  /\ at[c] = "seek" /\ lock = Null
  /\ ~MayReturn
  /\ lock' = c
  /\ at' = [at EXCEPT ![c] = "block"]
  /\ UNCHANGED <<queue, value, pushing, cancelled, shutdown>>

\* condition_variable::wait releases the lock and sleeps, in one step for those
\* that notify under the lock.
Sleep(c) ==
  /\ at[c] = "block"
  /\ lock' = Null
  /\ at' = [at EXCEPT ![c] = "wait"]
  /\ UNCHANGED <<queue, value, pushing, cancelled, shutdown>>

\* A condition variable may wake a thread for no reason.
SpuriousWake(c) ==
  /\ at[c] = "wait"
  /\ at' = Woken({c})
  /\ UNCHANGED <<queue, lock, value, pushing, cancelled, shutdown>>

\* Mutant: the sleeping consumers are not notified.
CancelSilently ==
  /\ lock = Null
  /\ queue' = <<>> /\ cancelled' = TRUE
  /\ UNCHANGED <<lock, at, value, pushing, shutdown>>

Cancel ==
  /\ lock = Null
  /\ queue' = <<>> /\ cancelled' = TRUE
  /\ at' = Woken(Consumers)
  /\ UNCHANGED <<lock, value, pushing, shutdown>>

Shutdown ==
  /\ shutdown = "no"
  /\ shutdown' = "set"
  /\ UNCHANGED <<queue, lock, at, value, pushing, cancelled>>

\* Mutant: notify_one instead of notify_all.
ShutdownNotifyFirst ==
  /\ shutdown = "set"
  /\ shutdown' = "done"
  /\ IF Sleepers = {} THEN at' = at
     ELSE \E c \in Sleepers : at' = Woken({c})
  /\ UNCHANGED <<queue, lock, value, pushing, cancelled>>

ShutdownNotify ==
  /\ shutdown = "set"
  /\ shutdown' = "done"
  /\ at' = Woken(Consumers)
  /\ UNCHANGED <<queue, lock, value, pushing, cancelled>>

-----------------------------------------------------------------------------
(***************************************************************************)
(* The queue among arbitrary users: consumers come back for more whatever  *)
(* they were given, and the queue is stopped in either way, or in both.    *)
(***************************************************************************)

\* A consumer is done with what it was given.
Use(c) ==
  /\ at[c] = "back"
  /\ at' = [at EXCEPT ![c] = "idle"]
  /\ UNCHANGED <<queue, lock, value, pushing, cancelled, shutdown>>

Consume(c) == Return(c) \/ Decide(c) \/ Sleep(c) \/ Use(c)

Next == \/ \E p \in Producers : NotifyOne(p) \/ \E x \in Items : Push(p, x)
        \/ \E c \in Consumers :
             Consume(c) \/ Enter(c) \/ Pop(c) \/ SpuriousWake(c)
        \/ Cancel \/ Shutdown \/ ShutdownNotify

Spec == InitQueue /\ [][Next]_queueVars

\* Threads are scheduled; consumers are loops around WaitAndPop.
FairSpec == /\ Spec
            /\ \A p \in Producers : WF_queueVars(NotifyOne(p))
            /\ \A c \in Consumers : WF_queueVars(Consume(c)) /\ WF_queueVars(Enter(c))
            /\ WF_queueVars(ShutdownNotify)

-----------------------------------------------------------------------------

\* Shape of the queue and of its users.
TypeOK ==
  /\ queue \in Seq(Items)
  /\ lock \in Consumers \cup {Null}
  /\ at \in [Consumers -> {"idle", "seek", "block", "wait", "back"}]
  /\ value \in [Consumers -> Items \cup {Null}]
  /\ pushing \in SUBSET Producers
  /\ cancelled \in BOOLEAN /\ shutdown \in {"no", "set", "done"}

\* While a consumer sleeps, every item of the queue has somebody coming for it:
\* a producer about to notify, or a consumer about to test the predicate.  So
\* Push may notify after it has released the lock, and one thread at a time.
NoSleepOnWork ==
  Sleepers # {} => Len(queue) =< Cardinality(pushing) + Cardinality(Seekers)

\* Whatever is pushed is popped, unless Cancel comes (which drops the queue, but
\* not what is pushed later: nobody pops or deletes that).
WorkTaken ==
  \A x \in Items : x \in ToSet(queue) ~> x \notin ToSet(queue) \/ cancelled

\* "Clears the queue and immediately stops any consumers": after Cancel no
\* consumer stays in WaitAndPop.
CancelReachesAll ==
  \A c \in Consumers :
    cancelled /\ at[c] \in {"seek", "block", "wait"} ~> at[c] = "back"

\* "Graceful stop: waits for the queue to become empty before stopping
\* consumers": a consumer that sleeps, or has still to test the predicate, when
\* the flag is set leaves WaitAndPop.  One that is going to sleep, with the lock
\* that Shutdown does not take, may miss the notification and sleep for ever.
ShutdownReaches ==
  \A c \in Consumers : shutdown = "set" /\ at[c] \in {"seek", "wait"} ~> at[c] = "back"
=============================================================================
