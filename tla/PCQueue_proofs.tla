---------------------------- MODULE PCQueue_proofs ----------------------------
(***************************************************************************)
(* No consumer of a ProducerConsumerQueue sleeps on work, for any threads. *)
(*                                                                         *)
(* NoSleepOnWork is not inductive alone: that a consumer may fall asleep   *)
(* needs that the queue is still empty, which holds because it kept the    *)
(* lock; and a consumer that returns without an item needs that Cancel has *)
(* left no sleeper behind.                                                 *)
(***************************************************************************)
EXTENDS PCQueue, FiniteSetTheorems, TLAPS

\* The lock is kept only by the consumer that is going to sleep, on an empty queue.
LockKept ==
  /\ \A c \in Consumers : at[c] = "block" => lock = c
  /\ lock # Null => queue = <<>>

\* After Cancel nobody sleeps or is going to.
CancelWoke == cancelled => lock = Null /\ Sleepers = {}

Inv == TypeOK /\ LockKept /\ CancelWoke /\ NoSleepOnWork

-----------------------------------------------------------------------------

\* Tail of a queue that is not empty.
LEMMA TailOfQueue ==
  ASSUME NEW S, NEW s \in Seq(S), s # <<>>
  PROVE  Tail(s) \in Seq(S) /\ Len(Tail(s)) = Len(s) - 1 /\ Head(s) \in S
OBVIOUS

\* The consumers in one state form a finite set.
LEMMA ConsumersFinite ==
  ASSUME NEW S, S \subseteq Consumers
  PROVE  IsFiniteSet(S) /\ Cardinality(S) \in Nat
BY PCQueueAssumption, FS_Subset, FS_CardinalityType

\* Adding one consumer to those that seek, removing one.
LEMMA SeekersUp ==
  ASSUME NEW S, S \subseteq Consumers, NEW c \in Consumers, c \notin S
  PROVE  Cardinality(S \cup {c}) = Cardinality(S) + 1
BY ConsumersFinite, FS_AddElement

LEMMA SeekersDown ==
  ASSUME NEW S, S \subseteq Consumers, NEW c \in S
  PROVE  Cardinality(S \ {c}) = Cardinality(S) - 1
BY ConsumersFinite, FS_RemoveElement

LEMMA PushingCount ==
  ASSUME pushing \in SUBSET Producers
  PROVE  /\ IsFiniteSet(pushing) /\ Cardinality(pushing) \in Nat
         /\ \A p \in pushing : Cardinality(pushing \ {p}) = Cardinality(pushing) - 1
         /\ \A p \in Producers \ pushing : Cardinality(pushing \cup {p}) = Cardinality(pushing) + 1
<1>1. IsFiniteSet(pushing)
  BY PCQueueAssumption, FS_Subset
<1>2. Cardinality(pushing) \in Nat
  BY <1>1, FS_CardinalityType
<1>3. ASSUME NEW p \in pushing PROVE Cardinality(pushing \ {p}) = Cardinality(pushing) - 1
  BY <1>1, FS_RemoveElement
<1>4. ASSUME NEW p \in Producers \ pushing
      PROVE  Cardinality(pushing \cup {p}) = Cardinality(pushing) + 1
  BY <1>1, FS_AddElement
<1>5. QED BY <1>1, <1>2, <1>3, <1>4

-----------------------------------------------------------------------------

LEMMA InitInv == InitQueue => Inv
<1> SUFFICES ASSUME InitQueue PROVE Inv
  OBVIOUS
<1>1. TypeOK
  <2>1. queue \in Seq(Items) /\ lock \in Consumers \cup {Null} /\ pushing \in SUBSET Producers
    BY DEF InitQueue
  <2>2. at \in [Consumers -> {"idle", "seek", "block", "wait", "back"}]
    BY DEF InitQueue
  <2>3. value \in [Consumers -> Items \cup {Null}]
    BY DEF InitQueue
  <2>4. QED BY <2>1, <2>2, <2>3 DEF InitQueue, TypeOK
<1>2. LockKept /\ Sleepers = {}
  BY DEF InitQueue, LockKept, Sleepers
<1>3. QED
  BY <1>1, <1>2 DEF InitQueue, Inv, CancelWoke, NoSleepOnWork

LEMMA PushInv ==
  ASSUME Inv, NEW p \in Producers, NEW x \in Items, Push(p, x)
  PROVE  Inv'
<1>1. TypeOK'
  BY DEF Inv, TypeOK, Push
<1>2. LockKept' /\ CancelWoke'
  BY DEF Inv, LockKept, CancelWoke, Sleepers, Push
<1>3. NoSleepOnWork'
  <2>1. /\ Len(queue') = Len(queue) + 1 /\ Len(queue) \in Nat
    BY DEF Inv, TypeOK, Push
  <2>2. Cardinality(pushing') = Cardinality(pushing) + 1 /\ Cardinality(pushing) \in Nat
    BY PushingCount DEF Inv, TypeOK, Push
  <2>3. Sleepers' = Sleepers /\ Seekers' = Seekers
    BY DEF Sleepers, Seekers, Push
  <2>4. Cardinality(Seekers) \in Nat
    BY ConsumersFinite DEF Seekers
  <2>5. QED BY <2>1, <2>2, <2>3, <2>4 DEF Inv, NoSleepOnWork
<1>4. QED BY <1>1, <1>2, <1>3 DEF Inv

\* Waking one consumer.
LEMMA WokenOne ==
  ASSUME TypeOK, NEW c \in Sleepers, at' = Woken({c})
  PROVE  /\ at' \in [Consumers -> {"idle", "seek", "block", "wait", "back"}]
         /\ \A d \in Consumers : at'[d] = "block" <=> at[d] = "block"
         /\ Sleepers' = Sleepers \ {c}
         /\ Cardinality(Seekers') = Cardinality(Seekers) + 1
<1>1. /\ at' \in [Consumers -> {"idle", "seek", "block", "wait", "back"}]
      /\ \A d \in Consumers : at'[d] = IF d = c THEN "seek" ELSE at[d]
  BY DEF TypeOK, Woken, Sleepers
<1>2. /\ Sleepers' = Sleepers \ {c}
      /\ Seekers' = Seekers \cup {c}
      /\ c \notin Seekers /\ c \in Consumers /\ Seekers \subseteq Consumers
  BY <1>1 DEF Sleepers, Seekers
<1>3. QED BY <1>1, <1>2, SeekersUp DEF Sleepers

LEMMA NotifyOneInv ==
  ASSUME Inv, NEW p \in Producers, NotifyOne(p)
  PROVE  Inv'
<1>1. /\ Cardinality(pushing') = Cardinality(pushing) - 1 /\ Cardinality(pushing) \in Nat
      /\ pushing' \in SUBSET Producers
  BY PushingCount DEF Inv, TypeOK, NotifyOne
<1>2. Cardinality(Seekers) \in Nat /\ Len(queue) \in Nat
  BY ConsumersFinite DEF Seekers, Inv, TypeOK
<1>3. CASE Sleepers = {}
  <2>1. UNCHANGED <<at, queue, lock, value, cancelled, shutdown>>
    BY <1>3 DEF NotifyOne
  <2>2. Sleepers' = {}
    BY <1>3, <2>1 DEF Sleepers
  <2>3. QED BY <1>1, <2>1, <2>2 DEF Inv, TypeOK, LockKept, CancelWoke, NoSleepOnWork
<1>4. CASE Sleepers # {}
  <2>1. PICK c \in Sleepers : at' = Woken({c})
    BY <1>4 DEF NotifyOne
  <2>2. UNCHANGED <<queue, lock, value, cancelled, shutdown>>
    BY DEF NotifyOne
  <2>3. TypeOK' /\ LockKept' /\ CancelWoke'
    BY <1>1, <2>1, <2>2, WokenOne DEF Inv, TypeOK, LockKept, CancelWoke
  <2>4. NoSleepOnWork'
    BY <1>1, <1>2, <1>4, <2>1, <2>2, WokenOne DEF Inv, NoSleepOnWork
  <2>5. QED BY <2>3, <2>4 DEF Inv
<1>5. QED BY <1>3, <1>4

LEMMA SpuriousWakeInv ==
  ASSUME Inv, NEW c \in Consumers, SpuriousWake(c)
  PROVE  Inv'
<1>1. /\ c \in Sleepers /\ at' = Woken({c})
      /\ UNCHANGED <<queue, lock, value, pushing, cancelled, shutdown>>
  BY DEF SpuriousWake, Sleepers
<1>2. Cardinality(Seekers) \in Nat /\ Cardinality(pushing) \in Nat /\ Len(queue) \in Nat
  BY ConsumersFinite, PushingCount DEF Seekers, Inv, TypeOK
<1>3. TypeOK' /\ LockKept' /\ CancelWoke'
  BY <1>1, WokenOne DEF Inv, TypeOK, LockKept, CancelWoke
<1>4. NoSleepOnWork'
  BY <1>1, <1>2, WokenOne DEF Inv, NoSleepOnWork
<1>5. QED BY <1>3, <1>4 DEF Inv

\* A consumer that begins to seek adds itself to those that will look.
LEMMA EnterInv ==
  ASSUME Inv, NEW c \in Consumers, Enter(c)
  PROVE  Inv'
<1>1. TypeOK' /\ LockKept'
  BY DEF Inv, TypeOK, LockKept, Enter
<1>2. /\ Sleepers' = Sleepers /\ Seekers' = Seekers \cup {c} /\ c \notin Seekers
      /\ Seekers \subseteq Consumers
  BY DEF Inv, TypeOK, Sleepers, Seekers, Enter
<1>3. /\ Cardinality(Seekers') = Cardinality(Seekers) + 1
      /\ Cardinality(Seekers) \in Nat /\ Cardinality(pushing) \in Nat /\ Len(queue) \in Nat
  BY <1>2, SeekersUp, ConsumersFinite, PushingCount DEF Inv, TypeOK
<1>4. CancelWoke' /\ NoSleepOnWork'
  BY <1>2, <1>3 DEF Inv, CancelWoke, NoSleepOnWork, Enter
<1>5. QED BY <1>1, <1>4 DEF Inv

\* A consumer that returns from WaitAndPop takes an item along, unless there is
\* none or nobody sleeps.
LEMMA ReturnInv ==
  ASSUME Inv, NEW c \in Consumers, Return(c)
  PROVE  Inv'
<1>1. /\ Sleepers' = Sleepers /\ Seekers' = Seekers \ {c} /\ c \in Seekers
      /\ Seekers \subseteq Consumers
  BY DEF Inv, TypeOK, Sleepers, Seekers, Return
<1>2. /\ Cardinality(Seekers') = Cardinality(Seekers) - 1
      /\ Cardinality(Seekers) \in Nat /\ Cardinality(pushing) \in Nat /\ Len(queue) \in Nat
  BY <1>1, SeekersDown, ConsumersFinite, PushingCount DEF Inv, TypeOK
<1>3. Cardinality(Seekers') \in Nat
  BY <1>1, ConsumersFinite
<1>4. CASE queue = <<>> \/ cancelled
  <2>1. TypeOK' /\ LockKept' /\ CancelWoke'
    BY <1>1, <1>4 DEF Inv, TypeOK, LockKept, CancelWoke, Return
  <2>2. UNCHANGED <<queue, pushing>>
    BY <1>4 DEF Return
  <2>3. NoSleepOnWork'
    BY <1>1, <1>2, <1>3, <1>4, <2>2 DEF Inv, CancelWoke, NoSleepOnWork
  <2>4. QED BY <2>1, <2>3 DEF Inv
<1>5. CASE queue # <<>> /\ ~cancelled
  <2>1. queue' = Tail(queue) /\ UNCHANGED <<lock, pushing, cancelled, shutdown>>
    BY <1>5 DEF Return
  <2>2. queue' \in Seq(Items) /\ Len(queue') = Len(queue) - 1 /\ Head(queue) \in Items
    BY <1>5, <2>1, TailOfQueue DEF Inv, TypeOK
  <2>3. TypeOK'
    BY <1>5, <2>1, <2>2 DEF Inv, TypeOK, Return
  <2>4. LockKept' /\ CancelWoke'
    BY <1>1, <1>5, <2>1 DEF Inv, TypeOK, LockKept, CancelWoke, Return
  <2>5. NoSleepOnWork'
    BY <1>1, <1>2, <2>1, <2>2 DEF Inv, NoSleepOnWork
  <2>6. QED BY <2>3, <2>4, <2>5 DEF Inv
<1>6. QED BY <1>4, <1>5

LEMMA PopInv ==
  ASSUME Inv, NEW c \in Consumers, Pop(c)
  PROVE  Inv'
<1>1. /\ Sleepers' = Sleepers /\ Seekers' = Seekers
  BY DEF Inv, TypeOK, Sleepers, Seekers, Pop
<1>2. Cardinality(Seekers) \in Nat /\ Cardinality(pushing) \in Nat /\ Len(queue) \in Nat
  BY ConsumersFinite, PushingCount DEF Seekers, Inv, TypeOK
<1>3. CASE queue = <<>> \/ cancelled
  <2>1. UNCHANGED <<queue, lock, pushing, cancelled, shutdown>>
    BY <1>3 DEF Pop
  <2>2. TypeOK' /\ LockKept'
    BY <1>3, <2>1 DEF Inv, TypeOK, LockKept, Pop
  <2>3. QED BY <1>1, <2>1, <2>2 DEF Inv, CancelWoke, NoSleepOnWork
<1>4. CASE queue # <<>> /\ ~cancelled
  <2>1. queue' = Tail(queue) /\ UNCHANGED <<lock, pushing, cancelled, shutdown>>
    BY <1>4 DEF Pop
  <2>2. queue' \in Seq(Items) /\ Len(queue') = Len(queue) - 1 /\ Head(queue) \in Items
    BY <1>4, <2>1, TailOfQueue DEF Inv, TypeOK
  <2>3. TypeOK' /\ LockKept'
    BY <1>4, <2>1, <2>2 DEF Inv, TypeOK, LockKept, Pop
  <2>4. NoSleepOnWork'
    BY <1>1, <1>2, <2>1, <2>2 DEF Inv, NoSleepOnWork
  <2>5. QED BY <1>1, <2>1, <2>3, <2>4 DEF Inv, CancelWoke
<1>5. QED BY <1>3, <1>4

\* A consumer falls asleep on an empty queue only.
LEMMA DecideSleepInv ==
  ASSUME Inv, NEW c \in Consumers, Decide(c) \/ Sleep(c)
  PROVE  Inv'
<1>1. queue = <<>> /\ queue' = queue /\ ~cancelled /\ cancelled' = cancelled
  BY PCQueueAssumption DEF Inv, LockKept, CancelWoke, Decide, Sleep, MayReturn
<1>2. TypeOK'
  BY DEF Inv, TypeOK, Decide, Sleep
<1>3. LockKept'
  BY <1>1, PCQueueAssumption DEF Inv, TypeOK, LockKept, Decide, Sleep
<1>4. CancelWoke'
  BY <1>1 DEF CancelWoke
<1>5. Cardinality(Seekers') \in Nat /\ Cardinality(pushing') \in Nat
  <2>1. pushing' = pushing /\ Cardinality(pushing) \in Nat
    BY PushingCount DEF Inv, TypeOK, Decide, Sleep
  <2>2. Seekers' \subseteq Consumers
    BY DEF Seekers
  <2>3. QED BY <2>1, <2>2, ConsumersFinite
<1>6. NoSleepOnWork'
  BY <1>1, <1>5 DEF NoSleepOnWork
<1>7. QED BY <1>2, <1>3, <1>4, <1>6 DEF Inv

LEMMA UseInv ==
  ASSUME Inv, NEW c \in Consumers, Use(c)
  PROVE  Inv'
<1>1. Sleepers' = Sleepers /\ Seekers' = Seekers
  BY DEF Inv, TypeOK, Sleepers, Seekers, Use
<1>2. TypeOK' /\ LockKept'
  BY DEF Inv, TypeOK, LockKept, Use
<1>3. QED BY <1>1, <1>2 DEF Inv, CancelWoke, NoSleepOnWork, Use

\* Waking all consumers leaves no sleeper.
LEMMA WokenAll ==
  ASSUME TypeOK, at' = Woken(Consumers)
  PROVE  /\ at' \in [Consumers -> {"idle", "seek", "block", "wait", "back"}]
         /\ \A d \in Consumers : at'[d] = "block" <=> at[d] = "block"
         /\ Sleepers' = {}
<1>1. \A d \in Consumers : at'[d] = IF at[d] = "wait" THEN "seek" ELSE at[d]
  BY DEF Woken
<1>2. at' \in [Consumers -> {"idle", "seek", "block", "wait", "back"}]
  BY DEF TypeOK, Woken
<1>3. QED BY <1>1, <1>2 DEF Sleepers

LEMMA StopInv ==
  ASSUME Inv, Cancel \/ Shutdown \/ ShutdownNotify
  PROVE  Inv'
<1>1. CASE Cancel
  BY <1>1, WokenAll DEF Inv, TypeOK, LockKept, CancelWoke, NoSleepOnWork, Cancel
<1>2. CASE Shutdown
  <2>1. Sleepers' = Sleepers /\ Seekers' = Seekers
    BY <1>2 DEF Sleepers, Seekers, Shutdown
  <2>2. QED
    BY <1>2, <2>1 DEF Inv, TypeOK, LockKept, CancelWoke, NoSleepOnWork, Shutdown
<1>3. CASE ShutdownNotify
  BY <1>3, WokenAll
     DEF Inv, TypeOK, LockKept, CancelWoke, NoSleepOnWork, ShutdownNotify
<1>4. QED BY <1>1, <1>2, <1>3

LEMMA StutterInv == Inv /\ UNCHANGED queueVars => Inv'
BY DEF Inv, TypeOK, LockKept, CancelWoke, NoSleepOnWork, Sleepers, Seekers, queueVars

LEMMA NextInv == Inv /\ [Next]_queueVars => Inv'
<1> SUFFICES ASSUME Inv, [Next]_queueVars PROVE Inv'
  OBVIOUS
<1>1. ASSUME NEW p \in Producers, NotifyOne(p) PROVE Inv'
  BY <1>1, NotifyOneInv
<1>2. ASSUME NEW p \in Producers, NEW x \in Items, Push(p, x) PROVE Inv'
  BY <1>2, PushInv
<1>3. ASSUME NEW c \in Consumers,
             Consume(c) \/ Enter(c) \/ Pop(c) \/ SpuriousWake(c)
      PROVE  Inv'
  BY <1>3, ReturnInv, DecideSleepInv, UseInv, EnterInv, PopInv, SpuriousWakeInv
     DEF Consume
<1>4. ASSUME Cancel \/ Shutdown \/ ShutdownNotify PROVE Inv'
  BY <1>4, StopInv
<1>5. QED BY <1>1, <1>2, <1>3, <1>4, StutterInv DEF Next

LEMMA Invariance == Spec => []Inv
<1>1. InitQueue => Inv
  BY InitInv
<1>2. Inv /\ [Next]_queueVars => Inv'
  BY NextInv
<1>3. QED BY <1>1, <1>2, PTL DEF Spec

-----------------------------------------------------------------------------

\* The state of the queue keeps its shape.
THEOREM QueueTypeCorrect == Spec => []TypeOK
<1>1. Inv => TypeOK
  BY DEF Inv
<1>2. QED BY <1>1, Invariance, PTL

\* No consumer sleeps while an item has nobody coming for it.
THEOREM NobodySleepsOnWork == Spec => []NoSleepOnWork
<1>1. Inv => NoSleepOnWork
  BY DEF Inv
<1>2. QED BY <1>1, Invariance, PTL
=============================================================================
