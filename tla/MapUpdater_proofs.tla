--------------------------- MODULE MapUpdater_proofs ---------------------------
(***************************************************************************)
(* The pending counter of the map updater counts the requests wherever     *)
(* they are, so the world thread is alone when it believes it is: for any  *)
(* number of workers and maps.                                             *)
(*                                                                         *)
(* The counter alone is not inductive.  A worker that comes back from the  *)
(* queue drops its request when the token is set, so the token must imply  *)
(* that there is none; and a worker must be at one place at a time.        *)
(***************************************************************************)
EXTENDS MapUpdater, FiniteSetTheorems, TLAPS

\* A worker is inside WaitAndPop exactly while its loop asks for work; it brings
\* nothing until the queue gives it a request, and executes only what it was given.
WorkerPlaces ==
  \A w \in Workers :
    /\ worker[w] = "pop" <=> at[w] # "idle"
    /\ at[w] \in {"seek", "block", "wait"} => value[w] = Null
    /\ Executing(w) => value[w] \in Requests

\* Who has still to notify has handed a request.
PushersAsked == \A t \in pushing : asked[t] # Null

\* Nothing is pending while the world thread is alone, nor after the token is set.
QuietWorld ==
  /\ token => pending = 0 /\ world \notin {"preload", "alone", "maps"}
  /\ world \in {"alone", "cancel", "join", "done"} => pending = 0

Inv == TypeOK /\ WorkerPlaces /\ PushersAsked /\ QuietWorld /\ PendingCounts

-----------------------------------------------------------------------------

\* One more and one fewer element of a finite set.
LEMMA OneMore ==
  ASSUME NEW T, IsFiniteSet(T), NEW S, S \subseteq T, NEW e, e \notin S
  PROVE  Cardinality(S \cup {e}) = Cardinality(S) + 1
BY FS_Subset, FS_AddElement

LEMMA OneFewer ==
  ASSUME NEW T, IsFiniteSet(T), NEW S, S \subseteq T, NEW e \in S
  PROVE  Cardinality(S \ {e}) = Cardinality(S) - 1
BY FS_Subset, FS_RemoveElement

LEMMA NatCardinality ==
  ASSUME NEW T, IsFiniteSet(T), NEW S, S \subseteq T
  PROVE  Cardinality(S) \in Nat /\ (Cardinality(S) = 0 => S = {})
BY FS_Subset, FS_CardinalityType, FS_EmptySet

LEMMA ThreadsFinite == IsFiniteSet(Threads) /\ IsFiniteSet(Workers)
BY MapUpdaterAssumption, FS_AddElement DEF Threads

\* The four numbers that make up the counter are naturals.
LEMMA CountsNat ==
  ASSUME TypeOK
  PROVE  /\ Cardinality(Handing) \in Nat /\ (Cardinality(Handing) = 0 => Handing = {})
         /\ Cardinality(Fetching) \in Nat /\ (Cardinality(Fetching) = 0 => Fetching = {})
         /\ Cardinality(Executors) \in Nat /\ (Cardinality(Executors) = 0 => Executors = {})
         /\ Len(queue) \in Nat /\ (Len(queue) = 0 => queue = <<>>)
<1>1. Handing \subseteq Threads /\ Fetching \subseteq Workers /\ Executors \subseteq Workers
  BY DEF Handing, Fetching, Executors
<1>2. Len(queue) \in Nat /\ (Len(queue) = 0 => queue = <<>>)
  BY DEF TypeOK, Q!TypeOK
<1>3. QED BY <1>1, <1>2, NatCardinality, ThreadsFinite

-----------------------------------------------------------------------------
(***************************************************************************)
(* How the places change.                                                  *)
(***************************************************************************)

\* A step that moves no request.
LEMMA NothingMoves ==
  ASSUME PendingCounts, PushersAsked, UNCHANGED <<queueVars, pending, asked>>,
         Executors' = Executors
  PROVE  PendingCounts' /\ PushersAsked'
<1>1. Handing' = Handing /\ Fetching' = Fetching /\ queue' = queue
  BY DEF Handing, Fetching, queueVars
<1>2. QED BY <1>1 DEF PendingCounts, PushersAsked, queueVars

\* schedule_task counts a request in the step in which it begins to hand it over.
LEMMA CountMoves ==
  ASSUME TypeOK, PendingCounts, PushersAsked, NEW t \in Threads, NEW r \in Requests,
         Count(t, r), UNCHANGED queueVars, Executors' = Executors
  PROVE  /\ PendingCounts' /\ PushersAsked'
         /\ pending' \in Nat /\ asked' \in [Threads -> Requests \cup {Null}]
<1>1. /\ asked' \in [Threads -> Requests \cup {Null}]
      /\ \A u \in Threads : asked'[u] = IF u = t THEN r ELSE asked[u]
      /\ r # Null /\ asked[t] = Null
  BY MapUpdaterAssumption DEF TypeOK, Count
<1>2. UNCHANGED <<queue, pushing, at, value>> /\ pushing \subseteq Threads
  BY DEF queueVars, TypeOK, Q!TypeOK
<1>3. PushersAsked'
  BY <1>1, <1>2 DEF PushersAsked
<1>4. Handing' = Handing \cup {t} /\ t \notin Handing /\ Handing \subseteq Threads
  BY <1>1, <1>2 DEF Handing, PushersAsked
<1>5. Cardinality(Handing') = Cardinality(Handing) + 1
  BY <1>4, OneMore, ThreadsFinite
<1>6. Fetching' = Fetching
  BY <1>2 DEF Fetching
<1>7. pending' = pending + 1 /\ pending \in Nat
  BY DEF Count, TypeOK
<1>8. PendingCounts'
  BY <1>2, <1>5, <1>6, <1>7, CountsNat DEF PendingCounts
<1>9. QED BY <1>1, <1>3, <1>7, <1>8

\* From the hands of a thread into the queue.
LEMMA PushMoves ==
  ASSUME TypeOK, PendingCounts, PushersAsked, NEW t \in Threads, PushAsked(t)
  PROVE  PendingCounts' /\ PushersAsked' /\ Q!TypeOK'
<1>1. /\ asked[t] \in Requests /\ asked[t] # Null
      /\ t \notin pushing /\ pushing' = pushing \cup {t}
      /\ queue' = Append(queue, asked[t])
      /\ UNCHANGED <<asked, pending, worker, lock, at, value, cancelled, shutdown>>
  BY DEF PushAsked, Q!Push, TypeOK, workVars
<1>2. Q!TypeOK'
  BY <1>1 DEF TypeOK, Q!TypeOK
<1>3. PushersAsked'
  BY <1>1 DEF PushersAsked
<1>4. Handing' = Handing \ {t} /\ t \in Handing /\ Handing \subseteq Threads
  BY <1>1 DEF Handing
<1>5. Cardinality(Handing') = Cardinality(Handing) - 1
  BY <1>4, OneFewer, ThreadsFinite
<1>6. Len(queue') = Len(queue) + 1
  BY <1>1 DEF TypeOK, Q!TypeOK
<1>7. Fetching' = Fetching /\ Executors' = Executors
  BY <1>1 DEF Fetching, Executors, Executing
<1>8. QED
  BY <1>1, <1>2, <1>3, <1>5, <1>6, <1>7, CountsNat DEF PendingCounts

\* The notification moves nothing: it wakes at most one worker.
LEMMA NotifyMoves ==
  ASSUME TypeOK, PendingCounts, PushersAsked, WorkerPlaces, NEW t \in Threads, NotifyWorker(t)
  PROVE  /\ PendingCounts' /\ PushersAsked' /\ WorkerPlaces' /\ Q!TypeOK'
         /\ asked' \in [Threads -> Requests \cup {Null}]
<1>1. /\ t \in pushing /\ pushing' = pushing \ {t} /\ pushing \subseteq Threads
      /\ UNCHANGED <<queue, lock, value, cancelled, shutdown, pending, worker>>
  BY DEF NotifyWorker, Q!NotifyOne, workVars, TypeOK, Q!TypeOK
<1>2. /\ asked' \in [Threads -> Requests \cup {Null}]
      /\ \A u \in Threads : asked'[u] = IF u = t THEN Null ELSE asked[u]
  BY DEF NotifyWorker, TypeOK
<1>3. /\ at' \in [Workers -> {"idle", "seek", "block", "wait", "back"}]
      /\ \A w \in Workers : at'[w] = at[w] \/ (at[w] = "wait" /\ at'[w] = "seek")
  <2>0. at \in [Workers -> {"idle", "seek", "block", "wait", "back"}]
    BY DEF TypeOK, Q!TypeOK
  <2>1. CASE Q!Sleepers = {}
    <3>1. at' = at
      BY <2>1 DEF NotifyWorker, Q!NotifyOne
    <3>2. QED BY <2>0, <3>1
  <2>2. CASE Q!Sleepers # {}
    <3>1. PICK c \in Q!Sleepers : at' = Q!Woken({c})
      BY <2>2 DEF NotifyWorker, Q!NotifyOne
    <3>2. at' = [v \in Workers |-> IF v \in {c} /\ at[v] = "wait" THEN "seek" ELSE at[v]]
      BY <3>1 DEF Q!Woken
    <3>3. QED BY <2>0, <3>2
  <2>3. QED BY <2>1, <2>2
<1>4. Q!TypeOK'
  BY <1>1, <1>3 DEF TypeOK, Q!TypeOK
<1>5. PushersAsked'
  BY <1>1, <1>2 DEF PushersAsked
<1>6. WorkerPlaces'
  BY <1>1, <1>3 DEF WorkerPlaces, Executing
<1>7. Handing' = Handing
  BY <1>1, <1>2 DEF Handing, PushersAsked
<1>8. Fetching' = Fetching /\ Executors' = Executors
  BY <1>1, <1>3 DEF Fetching, Executors, Executing
<1>9. QED
  BY <1>1, <1>2, <1>4, <1>5, <1>6, <1>7, <1>8 DEF PendingCounts

\* A worker returns from the queue, with its front or with nothing.
LEMMA ReturnMoves ==
  ASSUME TypeOK, PendingCounts, PushersAsked, WorkerPlaces, NEW w \in Workers, Q!Return(w),
         UNCHANGED <<pending, asked, workVars>>
  PROVE  PendingCounts' /\ PushersAsked' /\ WorkerPlaces' /\ Q!TypeOK'
<1>1. /\ at[w] = "seek" /\ at' = [at EXCEPT ![w] = "back"] /\ value[w] = Null
      /\ UNCHANGED <<lock, pushing, cancelled, shutdown, pending, asked, worker>>
  BY DEF Q!Return, workVars, WorkerPlaces
<1>2. /\ at' \in [Workers -> {"idle", "seek", "block", "wait", "back"}]
      /\ \A v \in Workers : at'[v] = IF v = w THEN "back" ELSE at[v]
  BY <1>1 DEF TypeOK, Q!TypeOK
<1>3. Handing' = Handing /\ Executors' = Executors /\ PushersAsked'
  BY <1>1 DEF Handing, Executors, Executing, PushersAsked
<1>4. w \notin Fetching /\ Fetching \subseteq Workers
  BY <1>1 DEF Fetching
<1>5. CASE queue' = queue /\ value' = value
  <2>1. Fetching' = Fetching
    BY <1>1, <1>2, <1>5 DEF Fetching
  <2>2. Q!TypeOK' /\ WorkerPlaces'
    BY <1>1, <1>2, <1>5 DEF TypeOK, Q!TypeOK, WorkerPlaces, Executing
  <2>3. QED BY <1>1, <1>3, <1>5, <2>1, <2>2 DEF PendingCounts
<1>6. CASE queue # <<>> /\ value' = [value EXCEPT ![w] = Head(queue)] /\ queue' = Tail(queue)
  <2>1. /\ Head(queue) \in Requests /\ queue' \in Seq(Requests)
        /\ Len(queue') = Len(queue) - 1
    BY <1>6 DEF TypeOK, Q!TypeOK
  <2>2. /\ value' \in [Workers -> Requests \cup {Null}]
        /\ \A v \in Workers : value'[v] = IF v = w THEN Head(queue) ELSE value[v]
    BY <1>6, <2>1 DEF TypeOK, Q!TypeOK
  <2>3. Q!TypeOK'
    BY <1>1, <1>2, <2>1, <2>2 DEF TypeOK, Q!TypeOK
  <2>4. WorkerPlaces'
    BY <1>1, <1>2, <2>1, <2>2 DEF WorkerPlaces, Executing
  <2>5. Fetching' = Fetching \cup {w}
    BY <1>1, <1>2, <2>1, <2>2, MapUpdaterAssumption DEF Fetching
  <2>6. Cardinality(Fetching') = Cardinality(Fetching) + 1
    BY <1>4, <2>5, OneMore, ThreadsFinite
  <2>7. PendingCounts'
    BY <1>1, <1>3, <2>1, <2>6, CountsNat DEF PendingCounts
  <2>8. QED BY <1>3, <2>3, <2>4, <2>7
<1>7. QED BY <1>5, <1>6 DEF Q!Return

-----------------------------------------------------------------------------
(***************************************************************************)
(* Each action preserves the invariant.                                    *)
(***************************************************************************)

\* What a count in a scheduling thread needs of the invariant.
LEMMA CountInv ==
  ASSUME Inv, NEW t \in Threads, NEW r \in Requests, Count(t, r), UNCHANGED queueVars,
         token' = token, Executors' = Executors,
         world' = world \/ (world = "alone" /\ world' = "maps"),
         t = World => (world \in {"preload", "maps"} \/ (world = "alone" /\ world' = "maps")),
         t # World => Executors # {},
         t = World => ~token
  PROVE  /\ PendingCounts' /\ PushersAsked' /\ QuietWorld'
         /\ pending' \in Nat /\ asked' \in [Threads -> Requests \cup {Null}]
<1>1. /\ PendingCounts' /\ PushersAsked'
      /\ pending' \in Nat /\ asked' \in [Threads -> Requests \cup {Null}]
  BY CountMoves DEF Inv
<1>2. ASSUME t = World PROVE QuietWorld'
  BY <1>2 DEF Inv, QuietWorld
<1>3. ASSUME t # World PROVE QuietWorld'
  <2>1. pending # 0
    BY <1>3, CountsNat DEF Inv, PendingCounts
  <2>2. QED BY <1>3, <2>1 DEF Inv, QuietWorld
<1>4. QED BY <1>1, <1>2, <1>3

\* What a step in which the world thread schedules leaves alone.
WorldSchedules ==
  /\ UNCHANGED <<queueVars, token, waitLock, workVars, alive>>
  /\ \E r \in Requests : Count(World, r)
  /\ todo' \in SUBSET Base
  /\ \/ world \in {"preload", "maps"} /\ world' = world
     \/ world = "alone" /\ world' = "maps"

LEMMA ScheduleInv ==
  ASSUME Inv,
         \/ \E b \in Base : SchedulePreload(b) \/ ScheduleMap(b)
         \/ ScheduleLfg
  PROVE  Inv'
<1>0. WorldSchedules
  <2>1. ASSUME NEW b \in Base, SchedulePreload(b) PROVE WorldSchedules
    BY <2>1 DEF SchedulePreload, Inv, TypeOK, Requests, WorldSchedules
  <2>2. ASSUME NEW b \in Base, ScheduleMap(b) PROVE WorldSchedules
    BY <2>2 DEF ScheduleMap, Inv, TypeOK, Requests, Maps, WorldSchedules
  <2>3. CASE ScheduleLfg
    BY <2>3 DEF ScheduleLfg, Requests, WorldSchedules
  <2>4. QED BY <2>1, <2>2, <2>3
<1>1. /\ UNCHANGED <<queueVars, token, waitLock, workVars, alive>>
      /\ \E r \in Requests : Count(World, r)
      /\ todo' \in SUBSET Base
      /\ \/ world \in {"preload", "maps"} /\ world' = world
         \/ world = "alone" /\ world' = "maps"
  BY <1>0 DEF WorldSchedules
<1>2. Executors' = Executors /\ WorkerPlaces' /\ Q!TypeOK'
  BY <1>1 DEF Inv, TypeOK, Q!TypeOK, WorkerPlaces, Executors, Executing, queueVars, workVars
<1>3. ~token
  BY <1>1 DEF Inv, QuietWorld
<1>4. /\ PendingCounts' /\ PushersAsked' /\ QuietWorld'
      /\ pending' \in Nat /\ asked' \in [Threads -> Requests \cup {Null}]
  BY <1>1, <1>2, <1>3, CountInv DEF Threads
<1>5. TypeOK'
  BY <1>1, <1>2, <1>4 DEF Inv, TypeOK, workVars
<1>6. QED BY <1>2, <1>4, <1>5 DEF Inv

\* The other steps of the world thread outside the queue.
WorldMoves ==
  /\ UNCHANGED <<queueVars, pending, asked, todo, workVars>>
  /\ waitLock' \in {World, Null}
  /\ alive' \in SUBSET Maps
  /\ world' \in {"preload", "alone", "maps", "test", "block", "wait", "cancel", "join", "done"}
  /\ token' \in BOOLEAN
  /\ QuietWorld'

LEMMA WorldInv ==
  ASSUME Inv,
         \/ AllScheduled \/ WaitReturns \/ WaitDecides \/ WaitSleeps \/ SpuriousWake
         \/ UnloadAll \/ JoinWorkers \/ \E m \in Maps : CreateMap(m)
  PROVE  Inv'
<1>0. WorldMoves
  <2>1. CASE AllScheduled
    BY <2>1 DEF AllScheduled, Inv, TypeOK, QuietWorld, WorldMoves
  <2>2. CASE WaitReturns
    BY <2>2 DEF WaitReturns, Inv, TypeOK, QuietWorld, WorldMoves
  <2>3. CASE WaitDecides \/ WaitSleeps \/ SpuriousWake
    BY <2>3 DEF WaitDecides, WaitSleeps, SpuriousWake, Inv, TypeOK, QuietWorld, WorldMoves
  <2>4. CASE UnloadAll
    BY <2>4 DEF UnloadAll, Inv, TypeOK, QuietWorld, WorldMoves
  <2>5. CASE JoinWorkers
    BY <2>5 DEF JoinWorkers, Inv, TypeOK, QuietWorld, WorldMoves
  <2>6. ASSUME NEW m \in Maps, CreateMap(m) PROVE WorldMoves
    BY <2>6 DEF CreateMap, Inv, TypeOK, QuietWorld, worldVars, WorldMoves
  <2>7. QED BY <2>1, <2>2, <2>3, <2>4, <2>5, <2>6
<1>1. /\ UNCHANGED <<queueVars, pending, asked, todo, workVars>>
      /\ waitLock' \in {World, Null}
      /\ alive' \in SUBSET Maps
      /\ world' \in {"preload", "alone", "maps", "test", "block", "wait", "cancel", "join", "done"}
      /\ token' \in BOOLEAN
      /\ QuietWorld'
  BY <1>0 DEF WorldMoves
<1>2. Executors' = Executors /\ WorkerPlaces' /\ Q!TypeOK'
  BY <1>1 DEF Inv, TypeOK, Q!TypeOK, WorkerPlaces, Executors, Executing, queueVars, workVars
<1>3. PendingCounts' /\ PushersAsked'
  BY <1>1, <1>2, NothingMoves DEF Inv
<1>4. TypeOK'
  BY <1>1, <1>2 DEF Inv, TypeOK, workVars
<1>5. QED BY <1>1, <1>2, <1>3, <1>4 DEF Inv

\* Cancel finds an empty queue.
LEMMA CancelInv ==
  ASSUME Inv, CancelQueue
  PROVE  Inv'
<1>1. /\ UNCHANGED <<pending, token, waitLock, asked, todo, worker, kids, alive, value, pushing>>
      /\ world = "cancel" /\ world' = "join" /\ queue' = <<>> /\ cancelled' = TRUE
      /\ UNCHANGED <<lock, shutdown>>
  BY DEF CancelQueue, Q!Cancel, workVars
<1>2. pending = 0
  BY <1>1 DEF Inv, QuietWorld
<1>3. queue = <<>>
  BY <1>2, CountsNat DEF Inv, PendingCounts
<1>4. /\ at' \in [Workers -> {"idle", "seek", "block", "wait", "back"}]
      /\ \A w \in Workers : at'[w] = at[w] \/ (at[w] = "wait" /\ at'[w] = "seek")
  <2>1. at' = [v \in Workers |-> IF v \in Workers /\ at[v] = "wait" THEN "seek" ELSE at[v]]
    BY DEF CancelQueue, Q!Cancel, Q!Woken
  <2>2. QED BY <2>1 DEF Inv, TypeOK, Q!TypeOK
<1>5. Handing' = Handing /\ Fetching' = Fetching /\ Executors' = Executors /\ queue' = queue
  BY <1>1, <1>3, <1>4 DEF Handing, Fetching, Executors, Executing
<1>6. PendingCounts' /\ PushersAsked'
  BY <1>1, <1>5 DEF Inv, PendingCounts, PushersAsked
<1>7. WorkerPlaces'
  BY <1>1, <1>4 DEF Inv, WorkerPlaces, Executing
<1>8. QuietWorld'
  BY <1>1, <1>2 DEF Inv, QuietWorld
<1>9. TypeOK'
  BY <1>1, <1>4 DEF Inv, TypeOK, Q!TypeOK
<1>10. QED BY <1>6, <1>7, <1>8, <1>9 DEF Inv

\* Handing a request to the queue, by any thread.
LEMMA HandInv ==
  ASSUME Inv, NEW t \in Threads, PushAsked(t) \/ NotifyWorker(t)
  PROVE  Inv'
<1>1. CASE PushAsked(t)
  <2>1. PendingCounts' /\ PushersAsked' /\ Q!TypeOK'
    BY <1>1, PushMoves DEF Inv
  <2>2. UNCHANGED <<pending, token, waitLock, asked, worldVars, workVars, alive, at, value>>
    BY <1>1 DEF PushAsked, Q!Push
  <2>3. TypeOK' /\ WorkerPlaces' /\ QuietWorld'
    BY <2>1, <2>2 DEF Inv, TypeOK, WorkerPlaces, Executing, QuietWorld, worldVars, workVars
  <2>4. QED BY <2>1, <2>3 DEF Inv
<1>2. CASE NotifyWorker(t)
  <2>1. /\ PendingCounts' /\ PushersAsked' /\ WorkerPlaces' /\ Q!TypeOK'
        /\ asked' \in [Threads -> Requests \cup {Null}]
    BY <1>2, NotifyMoves DEF Inv
  <2>2. UNCHANGED <<pending, token, waitLock, worldVars, workVars, alive>>
    BY <1>2 DEF NotifyWorker
  <2>3. TypeOK' /\ QuietWorld'
    BY <2>1, <2>2 DEF Inv, TypeOK, QuietWorld, worldVars, workVars
  <2>4. QED BY <2>1, <2>3 DEF Inv
<1>3. QED BY <1>1, <1>2

\* A worker inside WaitAndPop.
LEMMA InQueueInv ==
  ASSUME Inv, NEW w \in Workers, InQueue(w) \/ SpuriousWorkerWake(w)
  PROVE  Inv'
<1>1. UNCHANGED <<pending, token, waitLock, asked, worldVars, workVars, alive>>
  BY DEF InQueue, SpuriousWorkerWake
<1>2. CASE Q!Return(w)
  <2>1. PendingCounts' /\ PushersAsked' /\ WorkerPlaces' /\ Q!TypeOK'
    BY <1>1, <1>2, ReturnMoves DEF Inv
  <2>2. TypeOK' /\ QuietWorld'
    BY <1>1, <2>1 DEF Inv, TypeOK, QuietWorld, worldVars, workVars
  <2>3. QED BY <2>1, <2>2 DEF Inv
<1>3. CASE Q!Decide(w) \/ Q!Sleep(w) \/ Q!SpuriousWake(w)
  <2>1. /\ UNCHANGED <<queue, value, pushing, cancelled, shutdown>>
        /\ lock' \in Workers \cup {Null}
        /\ at[w] \in {"seek", "block", "wait"}
        /\ at' \in [Workers -> {"idle", "seek", "block", "wait", "back"}]
        /\ \A v \in Workers : v # w => at'[v] = at[v]
        /\ at'[w] \in {"seek", "block", "wait"}
    <3>1. CASE Q!Decide(w) \/ Q!Sleep(w)
      BY <3>1 DEF Q!Decide, Q!Sleep, Inv, TypeOK, Q!TypeOK
    <3>2. CASE Q!SpuriousWake(w)
      <4>1. at' = [v \in Workers |-> IF v \in {w} /\ at[v] = "wait" THEN "seek" ELSE at[v]]
        BY <3>2 DEF Q!SpuriousWake, Q!Woken
      <4>2. QED BY <3>2, <4>1 DEF Q!SpuriousWake, Inv, TypeOK, Q!TypeOK
    <3>3. QED BY <1>3, <3>1, <3>2
  <2>2. Handing' = Handing /\ Fetching' = Fetching /\ Executors' = Executors
    BY <1>1, <2>1 DEF Handing, Fetching, Executors, Executing, workVars
  <2>3. PendingCounts' /\ PushersAsked'
    BY <1>1, <2>1, <2>2 DEF Inv, PendingCounts, PushersAsked
  <2>4. WorkerPlaces'
    BY <1>1, <2>1 DEF Inv, WorkerPlaces, Executing, workVars
  <2>5. TypeOK' /\ QuietWorld'
    BY <1>1, <2>1 DEF Inv, TypeOK, Q!TypeOK, QuietWorld, worldVars, workVars
  <2>6. QED BY <2>3, <2>4, <2>5 DEF Inv
<1>4. QED BY <1>2, <1>3 DEF InQueue, SpuriousWorkerWake

\* The worker's loop asks, or ends.
LEMMA LoopInv ==
  ASSUME Inv, NEW w \in Workers, Ask(w) \/ Exit(w)
  PROVE  Inv'
<1>1. /\ UNCHANGED <<queue, lock, pushing, cancelled, shutdown>>
      /\ UNCHANGED <<pending, token, waitLock, asked, worldVars, kids, alive>>
      /\ worker[w] = "loop" /\ at[w] = "idle"
  BY DEF Ask, Exit, Q!Enter, queueVars, Inv, WorkerPlaces
<1>2. /\ worker' \in [Workers -> {"loop", "pop", "run", "instances", "finish", "notify", "gone"}]
      /\ \A v \in Workers : v # w => worker'[v] = worker[v]
      /\ at' \in [Workers -> {"idle", "seek", "block", "wait", "back"}]
      /\ \A v \in Workers : v # w => at'[v] = at[v]
      /\ value' \in [Workers -> Requests \cup {Null}]
      /\ \A v \in Workers : v # w => value'[v] = value[v]
      /\ \/ worker'[w] = "pop" /\ at'[w] = "seek" /\ value'[w] = Null
         \/ worker'[w] = "gone" /\ at'[w] = "idle"
  <2>1. CASE Ask(w)
    BY <2>1 DEF Ask, Q!Enter, Inv, TypeOK, Q!TypeOK
  <2>2. CASE Exit(w)
    BY <1>1, <2>2 DEF Exit, queueVars, Inv, TypeOK, Q!TypeOK
  <2>3. QED BY <2>1, <2>2
<1>3. Handing' = Handing /\ Fetching' = Fetching /\ Executors' = Executors
  BY <1>1, <1>2 DEF Handing, Fetching, Executors, Executing
<1>4. PendingCounts' /\ PushersAsked'
  BY <1>1, <1>3 DEF Inv, PendingCounts, PushersAsked
<1>5. WorkerPlaces'
  BY <1>1, <1>2 DEF Inv, WorkerPlaces, Executing
<1>6. TypeOK' /\ QuietWorld'
  BY <1>1, <1>2 DEF Inv, TypeOK, Q!TypeOK, QuietWorld, worldVars
<1>7. QED BY <1>4, <1>5, <1>6 DEF Inv

\* A request taken from the queue is executed: none was there if the token is set.
LEMMA PoppedInv ==
  ASSUME Inv, NEW w \in Workers, Popped(w)
  PROVE  Inv'
<1>1. /\ UNCHANGED <<queue, lock, value, pushing, cancelled, shutdown>>
      /\ UNCHANGED <<pending, token, waitLock, asked, worldVars, kids, alive>>
      /\ at[w] = "back" /\ worker[w] = "pop"
  BY DEF Popped, Q!Use, Inv, WorkerPlaces
<1>2. /\ at' \in [Workers -> {"idle", "seek", "block", "wait", "back"}]
      /\ \A v \in Workers : at'[v] = IF v = w THEN "idle" ELSE at[v]
  BY DEF Popped, Q!Use, Inv, TypeOK, Q!TypeOK
<1>3. /\ worker' \in [Workers -> {"loop", "pop", "run", "instances", "finish", "notify", "gone"}]
      /\ \A v \in Workers : worker'[v] =
           IF v = w THEN (IF ~token /\ value[w] # Null THEN "run" ELSE "loop") ELSE worker[v]
  BY DEF Popped, Inv, TypeOK
<1>4. value[w] \in Requests \cup {Null}
  BY DEF Inv, TypeOK, Q!TypeOK
<1>5. WorkerPlaces'
  BY <1>1, <1>2, <1>3, <1>4 DEF Inv, WorkerPlaces, Executing
<1>6. TypeOK' /\ QuietWorld' /\ PushersAsked'
  BY <1>1, <1>2, <1>3 DEF Inv, TypeOK, Q!TypeOK, QuietWorld, PushersAsked, worldVars
<1>7. Handing' = Handing
  BY <1>1 DEF Handing
<1>8. CASE value[w] = Null
  <2>1. Fetching' = Fetching /\ Executors' = Executors
    BY <1>1, <1>2, <1>3, <1>8 DEF Fetching, Executors, Executing
  <2>2. QED BY <1>1, <1>5, <1>6, <1>7, <2>1 DEF Inv, PendingCounts
<1>9. CASE value[w] # Null
  <2>1. w \in Fetching /\ w \notin Executors /\ Fetching \subseteq Workers /\ Executors \subseteq Workers
    BY <1>1, <1>9 DEF Fetching, Executors, Executing
  <2>2. pending # 0
    <3>1. Cardinality(Fetching) # 0
      BY <2>1, CountsNat DEF Inv
    <3>2. QED BY <3>1, CountsNat DEF Inv, PendingCounts
  <2>3. ~token
    BY <2>2 DEF Inv, QuietWorld
  <2>4. Fetching' = Fetching \ {w} /\ Executors' = Executors \cup {w}
    BY <1>1, <1>2, <1>3, <1>9, <2>3 DEF Fetching, Executors, Executing
  <2>5. Cardinality(Fetching') = Cardinality(Fetching) - 1
    BY <2>1, <2>4, OneFewer, ThreadsFinite
  <2>6. Cardinality(Executors') = Cardinality(Executors) + 1
    BY <2>1, <2>4, OneMore, ThreadsFinite
  <2>7. PendingCounts'
    BY <1>1, <1>7, <2>5, <2>6, CountsNat DEF Inv, PendingCounts
  <2>8. QED BY <1>5, <1>6, <2>7 DEF Inv
<1>10. QED BY <1>8, <1>9

\* A worker goes on with its request, or tells the world thread.
WorkerMoves(w) ==
  /\ UNCHANGED <<queueVars, pending, token, waitLock, asked, todo>>
  /\ world' = world \/ (world = "wait" /\ world' = "test")
  /\ worker' \in [Workers -> {"loop", "pop", "run", "instances", "finish", "notify", "gone"}]
  /\ \A v \in Workers : v # w => worker'[v] = worker[v]
  /\ Executing(w) <=> worker'[w] \in {"run", "instances", "finish"}
  /\ worker[w] # "pop" /\ worker'[w] # "pop"
  /\ kids' \in [Workers -> SUBSET Instances]
  /\ alive' \in SUBSET Maps

LEMMA RequestParts ==
  ASSUME NEW r \in Requests
  PROVE  /\ r[1] = "preload" => r[2] \in Base
         /\ r[1] = "update" => r[2] \in Maps
BY DEF Requests

LEMMA ExecuteMoves ==
  ASSUME Inv, NEW w \in Workers,
         \/ LoadMap(w) \/ UpdateLfg(w) \/ UpdateMap(w) \/ Updated(w) \/ NotifyWorld(w)
         \/ \E m \in Instances : DestroyInstance(w, m)
  PROVE  WorkerMoves(w)
<1>1. /\ worker \in [Workers -> {"loop", "pop", "run", "instances", "finish", "notify", "gone"}]
      /\ kids \in [Workers -> SUBSET Instances] /\ alive \in SUBSET Maps
      /\ Executing(w) => value[w] \in Requests
  BY DEF Inv, TypeOK, WorkerPlaces
<1>2. CASE LoadMap(w)
  <2>1. value[w][2] \in Base
    BY <1>1, <1>2, RequestParts DEF LoadMap, Executing
  <2>2. QED BY <1>1, <1>2, <2>1 DEF LoadMap, WorkerMoves, Executing, worldVars, Maps
<1>3. CASE UpdateLfg(w)
  BY <1>1, <1>3 DEF UpdateLfg, WorkerMoves, Executing, worldVars
<1>4. CASE UpdateMap(w)
  <2>1. kids' \in [Workers -> SUBSET Instances]
    BY <1>1, <1>4, MapUpdaterAssumption DEF UpdateMap
  <2>2. QED BY <1>1, <1>4, <2>1 DEF UpdateMap, WorkerMoves, Executing, worldVars
<1>5. CASE Updated(w)
  BY <1>1, <1>5 DEF Updated, WorkerMoves, Executing, worldVars
<1>6. CASE NotifyWorld(w)
  BY <1>1, <1>6 DEF NotifyWorld, WorkerMoves, Executing
<1>7. ASSUME NEW m \in Instances, DestroyInstance(w, m) PROVE WorkerMoves(w)
  BY <1>1, <1>7 DEF DestroyInstance, WorkerMoves, Executing, worldVars
<1>8. QED BY <1>2, <1>3, <1>4, <1>5, <1>6, <1>7

LEMMA ExecuteInv ==
  ASSUME Inv, NEW w \in Workers, WorkerMoves(w)
  PROVE  Inv'
<1>1. Executors' = Executors
  BY DEF Executors, Executing, WorkerMoves
<1>2. PendingCounts' /\ PushersAsked'
  BY <1>1, NothingMoves DEF Inv, WorkerMoves
<1>3. WorkerPlaces'
  BY DEF Inv, WorkerPlaces, Executing, WorkerMoves, queueVars
<1>4. QuietWorld'
  BY DEF Inv, QuietWorld, WorkerMoves
<1>5. Q!TypeOK'
  BY DEF Inv, TypeOK, Q!TypeOK, WorkerMoves, queueVars
<1>6. TypeOK'
  BY <1>5 DEF Inv, TypeOK, WorkerMoves
<1>7. QED BY <1>2, <1>3, <1>4, <1>6 DEF Inv

\* The update of a map with instances schedules one of them.
LEMMA ScheduleInstanceInv ==
  ASSUME Inv, NEW w \in Workers, NEW m \in Instances, ScheduleInstance(w, m)
  PROVE  Inv'
<1>1. /\ UNCHANGED <<queueVars, token, waitLock, worldVars, worker, alive>>
      /\ worker[w] = "instances" /\ Count(w, <<"update", m>>)
      /\ kids' \in [Workers -> SUBSET Instances]
  BY DEF ScheduleInstance, Inv, TypeOK
<1>2. <<"update", m>> \in Requests
  BY DEF Requests, Maps
<1>3. Executors' = Executors /\ w \in Executors
  BY <1>1 DEF Executors, Executing
<1>4. w \in Threads /\ w # World
  BY MapUpdaterAssumption DEF Threads
<1>5. world' = world /\ token' = token /\ Executors # {}
  BY <1>1, <1>3 DEF worldVars
<1>6. /\ PendingCounts' /\ PushersAsked' /\ QuietWorld'
      /\ pending' \in Nat /\ asked' \in [Threads -> Requests \cup {Null}]
  BY <1>1, <1>2, <1>3, <1>4, <1>5, CountInv
<1>7. WorkerPlaces' /\ Q!TypeOK'
  BY <1>1 DEF Inv, TypeOK, Q!TypeOK, WorkerPlaces, Executing, queueVars
<1>8. TypeOK'
  BY <1>1, <1>6, <1>7 DEF Inv, TypeOK, worldVars
<1>9. QED BY <1>6, <1>7, <1>8 DEF Inv

\* A finished request leaves the count with its worker.
LEMMA UpdateFinishedInv ==
  ASSUME Inv, NEW w \in Workers, UpdateFinished(w)
  PROVE  Inv'
<1>1. /\ UNCHANGED <<queueVars, token, waitLock, asked, worldVars, kids, alive>>
      /\ worker[w] = "finish" /\ pending' = pending - 1
  BY DEF UpdateFinished
<1>2. /\ worker' \in [Workers -> {"loop", "pop", "run", "instances", "finish", "notify", "gone"}]
      /\ \A v \in Workers : v # w => worker'[v] = worker[v]
      /\ worker'[w] \in {"loop", "notify"}
  BY DEF UpdateFinished, Inv, TypeOK
<1>3. w \in Executors /\ Executors \subseteq Workers /\ Executors' = Executors \ {w}
  BY <1>1, <1>2 DEF Executors, Executing
<1>4. Cardinality(Executors') = Cardinality(Executors) - 1 /\ Cardinality(Executors) # 0
  BY <1>3, OneFewer, ThreadsFinite, CountsNat DEF Inv
<1>5. Handing' = Handing /\ Fetching' = Fetching /\ queue' = queue
  BY <1>1 DEF Handing, Fetching, queueVars
<1>6. PendingCounts' /\ pending \in Nat /\ pending # 0
  BY <1>1, <1>4, <1>5, CountsNat DEF Inv, PendingCounts, TypeOK
<1>7. pending' \in Nat
  BY <1>1, <1>6
<1>8. QuietWorld'
  BY <1>1, <1>6 DEF Inv, QuietWorld, worldVars
<1>9. PushersAsked' /\ WorkerPlaces' /\ Q!TypeOK'
  BY <1>1, <1>2 DEF Inv, TypeOK, Q!TypeOK, PushersAsked, WorkerPlaces, Executing, queueVars
<1>10. TypeOK'
  BY <1>1, <1>2, <1>7, <1>9 DEF Inv, TypeOK, worldVars
<1>11. QED BY <1>6, <1>8, <1>9, <1>10 DEF Inv

-----------------------------------------------------------------------------

LEMMA InitInv == Init => Inv
<1> SUFFICES ASSUME Init PROVE Inv
  OBVIOUS
<1>1. /\ queue = <<>> /\ lock = Null /\ pushing = {} /\ cancelled = FALSE /\ shutdown = "no"
      /\ at = [w \in Workers |-> "idle"] /\ value = [w \in Workers |-> Null]
  BY DEF Init, Q!InitQueue
<1>2. Q!TypeOK
  <2>1. /\ queue \in Seq(Requests) /\ pushing \in SUBSET Threads
        /\ lock \in Workers \cup {Null}
    BY <1>1
  <2>2. at \in [Workers -> {"idle", "seek", "block", "wait", "back"}]
    BY <1>1
  <2>3. value \in [Workers -> Requests \cup {Null}]
    BY <1>1
  <2>4. QED BY <1>1, <2>1, <2>2, <2>3 DEF Q!TypeOK
<1>3. TypeOK
  <2>1. asked \in [Threads -> Requests \cup {Null}] /\ todo \in SUBSET Base
    BY DEF Init, Plain
  <2>2. /\ worker \in [Workers -> {"loop", "pop", "run", "instances", "finish", "notify", "gone"}]
        /\ kids \in [Workers -> SUBSET Instances]
    BY DEF Init
  <2>3. QED BY <1>2, <2>1, <2>2 DEF Init, TypeOK
<1>4. WorkerPlaces /\ PushersAsked /\ QuietWorld
  BY <1>1 DEF Init, WorkerPlaces, Executing, PushersAsked, QuietWorld
<1>5. Handing = {} /\ Fetching = {} /\ Executors = {} /\ Len(queue) = 0
  BY <1>1 DEF Init, Handing, Fetching, Executors, Executing
<1>6. PendingCounts
  BY <1>5, FS_EmptySet DEF Init, PendingCounts
<1>7. QED BY <1>3, <1>4, <1>6 DEF Inv

LEMMA NextInv == Inv /\ [Next]_vars => Inv'
<1> SUFFICES ASSUME Inv, [Next]_vars PROVE Inv'
  OBVIOUS
<1>1. CASE WorldStep
  <2>1. World \in Threads
    BY DEF Threads
  <2>2. QED BY <1>1, <2>1, HandInv, ScheduleInv, WorldInv, CancelInv DEF WorldStep
<1>2. CASE ScheduleLfg
  BY <1>2, ScheduleInv
<1>3. CASE UnloadAll \/ SpuriousWake \/ \E m \in Maps : CreateMap(m)
  BY <1>3, WorldInv
<1>4. ASSUME NEW w \in Workers, WorkerStep(w) \/ SpuriousWorkerWake(w) PROVE Inv'
  <2>1. w \in Threads
    BY DEF Threads
  <2>2. CASE PushAsked(w) \/ NotifyWorker(w)
    BY <2>1, <2>2, HandInv
  <2>3. CASE Ask(w) \/ Exit(w)
    BY <2>3, LoopInv
  <2>4. CASE InQueue(w) \/ SpuriousWorkerWake(w)
    BY <2>4, InQueueInv
  <2>5. CASE Popped(w)
    BY <2>5, PoppedInv
  <2>6. CASE \/ LoadMap(w) \/ UpdateLfg(w) \/ UpdateMap(w) \/ Updated(w) \/ NotifyWorld(w)
             \/ \E m \in Instances : DestroyInstance(w, m)
    BY <2>6, ExecuteMoves, ExecuteInv
  <2>7. CASE \E m \in Instances : ScheduleInstance(w, m)
    BY <2>7, ScheduleInstanceInv
  <2>8. CASE UpdateFinished(w)
    BY <2>8, UpdateFinishedInv
  <2>9. QED BY <1>4, <2>2, <2>3, <2>4, <2>5, <2>6, <2>7, <2>8 DEF WorkerStep
<1>5. CASE UNCHANGED vars
  <2>1. UNCHANGED <<queueVars, pending, token, waitLock, asked, world, todo, worker, kids, alive>>
    BY <1>5 DEF vars, worldVars, workVars
  <2>2. Executors' = Executors /\ WorkerPlaces' /\ QuietWorld' /\ Q!TypeOK'
    BY <2>1 DEF Inv, TypeOK, Q!TypeOK, WorkerPlaces, Executors, Executing, QuietWorld, queueVars
  <2>3. PendingCounts' /\ PushersAsked'
    BY <2>1, <2>2, NothingMoves DEF Inv
  <2>4. TypeOK'
    BY <2>1, <2>2 DEF Inv, TypeOK
  <2>5. QED BY <2>2, <2>3, <2>4 DEF Inv
<1>6. QED BY <1>1, <1>2, <1>3, <1>4, <1>5 DEF Next, Halted

LEMMA InvHolds == Spec => []Inv
BY InitInv, NextInv, PTL DEF Spec

\* Every reachable state of the map updater is well typed; that a request executed
\* is one that was scheduled comes from the same invariant.
THEOREM UpdaterTypeCorrect == Spec => []TypeOK
<1>1. Inv => TypeOK
  BY DEF Inv
<1>2. QED BY <1>1, InvHolds, PTL

\* pending_requests is exact in every reachable state: the workers that schedule,
\* pop and finish requests at once lose none and count none twice.
THEOREM PendingIsExact == Spec => []PendingCounts
<1>1. Inv => PendingCounts
  BY DEF Inv
<1>2. QED BY <1>1, InvHolds, PTL

\* When wait() has returned, no request is on its way, queued or under way, so the
\* world thread may use the maps without any lock.
THEOREM WorldIsAlone == Spec => []WorldAlone
<1>1. ASSUME Inv PROVE WorldAlone
  <2> SUFFICES ASSUME world \in {"alone", "cancel", "join", "done"}
               PROVE  Waiting = {} /\ Running = {}
    BY DEF WorldAlone
  <2>1. pending = 0
    BY <1>1 DEF Inv, QuietWorld
  <2>2. Handing = {} /\ queue = <<>> /\ Fetching = {} /\ Executors = {}
    <3>1. /\ Cardinality(Handing) = 0 /\ Len(queue) = 0
          /\ Cardinality(Fetching) = 0 /\ Cardinality(Executors) = 0
      BY <1>1, <2>1, CountsNat DEF Inv, PendingCounts
    <3>2. QED BY <1>1, <3>1, CountsNat DEF Inv
  <2>3. ToSet(queue) = {}
    BY <2>2 DEF ToSet
  <2>4. QED BY <2>2, <2>3 DEF Waiting, Running
<1>2. QED BY <1>1, InvHolds, PTL
-----------------------------------------------------------------------------
(***************************************************************************)
(* Every request is executed once and every map whose update is asked for  *)
(* exists until it has been updated, for any number of workers and maps:   *)
(* the map updater implements UpdateRound.                                 *)
(*                                                                         *)
(* What is missing from the invariant of the counter is that no request is *)
(* asked for twice.  The world thread asks for the update of a base map    *)
(* once a round; the instances of a base map are asked for only by its own *)
(* update, each when it is visited.                                        *)
(***************************************************************************)

\* Workers that have a request.
Given == Fetching \cup Executors

\* All requests that were asked for and are not finished.
Present == Waiting \cup Running

\* No request is in two hands, or at two places of the queue, or in both.
Distinct ==
  /\ \A t, u \in Handing : asked[t] = asked[u] => t = u
  /\ \A i, j \in 1..Len(queue) : queue[i] = queue[j] => i = j
  /\ \A v, w \in Given : value[v] = value[w] => v = w
  /\ \A t \in Handing : asked[t] \notin ToSet(queue) /\ \A w \in Given : asked[t] # value[w]
  /\ \A w \in Given : value[w] \notin ToSet(queue)

\* The instances a worker has still to visit exist, and belong to the map it updates.
KidsOfUpdate ==
  \A w \in Workers : \A m \in kids[w] :
    /\ worker[w] = "instances" /\ m \in alive
    /\ \E b \in Base : value[w] = <<"update", b>> /\ m \in InstancesOf[b]

\* The update of an instance is asked for by that of its base map, in this round.
Fresh ==
  \A b \in Base : \A m \in InstancesOf[b] : <<"update", m>> \in Present =>
    /\ ~ (world = "maps" /\ b \in todo)
    /\ <<"update", b>> \notin Waiting
    /\ \A w \in Executors : value[w] = <<"update", b>> => worker[w] # "run" /\ m \notin kids[w]

\* What the world thread has still to ask for exists and was not asked for.
ToSchedule ==
  /\ world = "preload" => \A b \in todo : <<"preload", b>> \notin Present
  /\ world = "maps" => \A b \in todo : <<"update", b>> \notin Present /\ b \in alive

RoundInv == Distinct /\ KidsOfUpdate /\ Fresh /\ ToSchedule /\ UpdatesLiveMaps

-----------------------------------------------------------------------------

\* What the queue holds after a push and after a pop.
LEMMA AppendedSet ==
  ASSUME NEW S, NEW s \in Seq(S), NEW e \in S
  PROVE  ToSet(Append(s, e)) = ToSet(s) \cup {e}
<1>1. /\ Append(s, e) \in Seq(S) /\ Len(Append(s, e)) = Len(s) + 1 /\ Len(s) \in Nat
      /\ \A i \in 1..(Len(s) + 1) : Append(s, e)[i] = IF i = Len(s) + 1 THEN e ELSE s[i]
  OBVIOUS
<1>2. DOMAIN s = 1..Len(s) /\ DOMAIN Append(s, e) = 1..(Len(s) + 1)
  OBVIOUS
<1>3. 1..(Len(s) + 1) = 1..Len(s) \cup {Len(s) + 1} /\ Len(s) + 1 \notin 1..Len(s)
  BY <1>1
<1>4. QED BY <1>1, <1>2, <1>3 DEF ToSet

LEMMA PoppedSet ==
  ASSUME NEW S, NEW s \in Seq(S), s # <<>>,
         \A i, j \in 1..Len(s) : s[i] = s[j] => i = j
  PROVE  /\ Head(s) \in ToSet(s) /\ ToSet(Tail(s)) = ToSet(s) \ {Head(s)}
         /\ \A i, j \in 1..Len(Tail(s)) : Tail(s)[i] = Tail(s)[j] => i = j
<1>1. /\ Len(s) \in Nat \ {0} /\ Head(s) = s[1] /\ Tail(s) \in Seq(S)
      /\ Len(Tail(s)) = Len(s) - 1
      /\ \A i \in 1..(Len(s) - 1) : Tail(s)[i] = s[i + 1]
  OBVIOUS
<1>2. DOMAIN s = 1..Len(s) /\ DOMAIN Tail(s) = 1..(Len(s) - 1)
  BY <1>1
<1>3. \A i, j \in 1..Len(Tail(s)) : Tail(s)[i] = Tail(s)[j] => i = j
  <2>1. \A i \in 1..(Len(s) - 1) : i + 1 \in 1..Len(s)
    BY <1>1
  <2>2. QED BY <1>1, <2>1
<1>4. Head(s) \in ToSet(s)
  BY <1>1, <1>2 DEF ToSet
<1>5. ASSUME NEW x \in ToSet(Tail(s)) PROVE x \in ToSet(s) /\ x # Head(s)
  <2>1. PICK i \in 1..(Len(s) - 1) : x = Tail(s)[i]
    BY <1>2 DEF ToSet
  <2>2. i + 1 \in 1..Len(s) /\ 1 \in 1..Len(s) /\ i + 1 # 1
    BY <1>1
  <2>3. x = s[i + 1]
    BY <1>1, <2>1
  <2>4. QED BY <1>1, <1>2, <2>2, <2>3 DEF ToSet
<1>6. ASSUME NEW x \in ToSet(s), x # Head(s) PROVE x \in ToSet(Tail(s))
  <2>1. PICK i \in 1..Len(s) : x = s[i]
    BY <1>2 DEF ToSet
  <2>2. i - 1 \in 1..(Len(s) - 1) /\ (i - 1) + 1 = i
    BY <1>1, <1>6, <2>1
  <2>3. x = Tail(s)[i - 1]
    BY <1>1, <2>1, <2>2
  <2>4. QED BY <1>2, <2>2, <2>3 DEF ToSet
<1>7. QED BY <1>3, <1>4, <1>5, <1>6

-----------------------------------------------------------------------------
(***************************************************************************)
(* How requests move.                                                      *)
(***************************************************************************)

\* Requests stay where they are.
LEMMA StaySame ==
  ASSUME Distinct, UNCHANGED <<queue, asked, pushing>>, Fetching' = Fetching,
         Executors' = Executors, \A w \in Given : value'[w] = value[w]
  PROVE  Distinct' /\ Waiting' = Waiting /\ Running' = Running
<1>1. Handing' = Handing /\ Given' = Given /\ ToSet(queue') = ToSet(queue)
  BY DEF Handing, Given
<1>2. Waiting' = Waiting /\ Running' = Running
  BY <1>1 DEF Waiting, Running, Given
<1>3. Distinct'
  BY <1>1 DEF Distinct
<1>4. QED BY <1>2, <1>3

\* The requests in one's hands are requests.
LEMMA GivenRequests ==
  ASSUME Inv, NEW w \in Given
  PROVE  w \in Workers /\ value[w] \in Requests
BY DEF Inv, TypeOK, Q!TypeOK, WorkerPlaces, Given, Fetching, Executors

\* A new request.
LEMMA CountSame ==
  ASSUME Inv, Distinct, NEW t \in Threads, NEW r \in Requests, r \notin Present,
         Count(t, r), UNCHANGED <<queueVars, worker>>
  PROVE  Distinct' /\ Waiting' = Waiting \cup {r} /\ Running' = Running
<1>1. /\ \A u \in Threads : asked'[u] = IF u = t THEN r ELSE asked[u]
      /\ r # Null /\ asked[t] = Null /\ t \notin pushing
  BY MapUpdaterAssumption DEF Inv, TypeOK, PushersAsked, Count
<1>2. UNCHANGED <<queue, pushing, at, value>>
  BY DEF queueVars
<1>3. Handing' = Handing \cup {t} /\ t \notin Handing /\ Handing \subseteq Threads
  BY <1>1, <1>2 DEF Handing
<1>4. Fetching' = Fetching /\ Executors' = Executors /\ Given' = Given /\ ToSet(queue') = ToSet(queue)
  BY <1>2 DEF Fetching, Executors, Executing, Given
<1>5. \A u \in Handing' : \/ u = t /\ asked'[u] = r
                          \/ u \in Handing /\ u # t /\ asked'[u] = asked[u]
  BY <1>1, <1>3
<1>6. /\ \A u \in Handing : asked[u] # r
      /\ r \notin ToSet(queue)
      /\ \A w \in Given : value[w] # r
  BY DEF Present, Waiting, Running, Given
<1>7. {asked'[u] : u \in Handing'} = {asked[u] : u \in Handing} \cup {r}
  BY <1>1, <1>3, <1>5
<1>8. Waiting' = Waiting \cup {r} /\ Running' = Running
  BY <1>2, <1>4, <1>7 DEF Waiting, Running
<1>9. Distinct'
  BY <1>2, <1>4, <1>5, <1>6 DEF Distinct
<1>10. QED BY <1>8, <1>9

\* From the hands of a thread into the queue.
LEMMA PushSame ==
  ASSUME Inv, Distinct, NEW t \in Threads, PushAsked(t)
  PROVE  Distinct' /\ Waiting' = Waiting /\ Running' = Running
<1>1. /\ asked[t] \in Requests /\ asked[t] # Null
      /\ t \notin pushing /\ pushing' = pushing \cup {t}
      /\ queue' = Append(queue, asked[t]) /\ queue \in Seq(Requests)
      /\ UNCHANGED <<asked, worker, at, value>>
  BY DEF PushAsked, Q!Push, Inv, TypeOK, Q!TypeOK, workVars
<1>2. Handing' = Handing \ {t} /\ t \in Handing
  BY <1>1 DEF Handing
<1>3. Fetching' = Fetching /\ Executors' = Executors /\ Given' = Given
  BY <1>1 DEF Fetching, Executors, Executing, Given
<1>4. ToSet(queue') = ToSet(queue) \cup {asked[t]}
  BY <1>1, AppendedSet
<1>5. \A i, j \in 1..Len(queue') : queue'[i] = queue'[j] => i = j
  <2>1. /\ Len(queue') = Len(queue) + 1 /\ Len(queue) \in Nat
        /\ \A i \in 1..(Len(queue) + 1) :
             queue'[i] = IF i = Len(queue) + 1 THEN asked[t] ELSE queue[i]
    BY <1>1
  <2>2. \A i \in 1..Len(queue) : queue[i] # asked[t]
    <3>1. DOMAIN queue = 1..Len(queue)
      BY <1>1
    <3>2. QED BY <1>2, <3>1 DEF Distinct, ToSet
  <2>3. \A i \in 1..Len(queue') : i = Len(queue) + 1 \/ i \in 1..Len(queue)
    BY <2>1
  <2>4. QED BY <2>1, <2>2, <2>3 DEF Distinct
<1>6. {asked'[u] : u \in Handing'} \cup {asked[t]} = {asked[u] : u \in Handing}
  BY <1>1, <1>2
<1>7. Waiting' = Waiting /\ Running' = Running
  BY <1>1, <1>3, <1>4, <1>6 DEF Waiting, Running
<1>8. Distinct'
  BY <1>1, <1>2, <1>3, <1>4, <1>5 DEF Distinct
<1>9. QED BY <1>7, <1>8

LEMMA NotifySame ==
  ASSUME Inv, Distinct, NEW t \in Threads, NotifyWorker(t)
  PROVE  Distinct' /\ Waiting' = Waiting /\ Running' = Running
<1>1. /\ t \in pushing /\ pushing' = pushing \ {t}
      /\ UNCHANGED <<queue, value, worker>>
  BY DEF NotifyWorker, Q!NotifyOne, workVars
<1>2. \A u \in Threads : asked'[u] = IF u = t THEN Null ELSE asked[u]
  BY DEF NotifyWorker, Inv, TypeOK
<1>3. \A w \in Workers : at'[w] = "back" <=> at[w] = "back"
  <2>1. CASE Q!Sleepers = {}
    BY <2>1 DEF NotifyWorker, Q!NotifyOne
  <2>2. CASE Q!Sleepers # {}
    <3>1. PICK c \in Q!Sleepers : at' = Q!Woken({c})
      BY <2>2 DEF NotifyWorker, Q!NotifyOne
    <3>2. QED BY <3>1 DEF Q!Woken
  <2>3. QED BY <2>1, <2>2
<1>4. Handing' = Handing /\ \A u \in Handing : asked'[u] = asked[u]
  BY <1>1, <1>2 DEF Handing, Inv, PushersAsked
<1>5. Fetching' = Fetching /\ Executors' = Executors /\ Given' = Given /\ ToSet(queue') = ToSet(queue)
  BY <1>1, <1>3 DEF Fetching, Executors, Executing, Given
<1>6. Waiting' = Waiting /\ Running' = Running
  BY <1>1, <1>4, <1>5 DEF Waiting, Running
<1>7. Distinct'
  BY <1>1, <1>4, <1>5 DEF Distinct
<1>8. QED BY <1>6, <1>7

\* From the queue to a worker.
LEMMA ReturnSame ==
  ASSUME Inv, Distinct, NEW w \in Workers, Q!Return(w), UNCHANGED <<asked, worker>>
  PROVE  Distinct' /\ Waiting' = Waiting /\ Running' = Running
<1>1. /\ at[w] = "seek" /\ value[w] = Null /\ pushing' = pushing
      /\ worker[w] = "pop"
      /\ \A v \in Workers : at'[v] = IF v = w THEN "back" ELSE at[v]
  BY DEF Q!Return, Inv, TypeOK, Q!TypeOK, WorkerPlaces
<1>2. w \notin Given /\ Given \subseteq Workers /\ Executors' = Executors /\ Handing' = Handing
  BY <1>1 DEF Given, Fetching, Executors, Executing, Handing
<1>3. CASE queue' = queue /\ value' = value
  <2>1. Fetching' = Fetching
    BY <1>1, <1>3 DEF Fetching
  <2>2. QED BY <1>1, <1>2, <1>3, <2>1, StaySame
<1>4. CASE queue # <<>> /\ value' = [value EXCEPT ![w] = Head(queue)] /\ queue' = Tail(queue)
  <2>1. /\ Head(queue) \in ToSet(queue) /\ ToSet(queue') = ToSet(queue) \ {Head(queue)}
        /\ \A i, j \in 1..Len(queue') : queue'[i] = queue'[j] => i = j
    <3>1. queue \in Seq(Requests)
      BY DEF Inv, TypeOK, Q!TypeOK
    <3>2. QED BY <1>4, <3>1, PoppedSet DEF Distinct
  <2>2. \A v \in Workers : value'[v] = IF v = w THEN Head(queue) ELSE value[v]
    BY <1>4 DEF Inv, TypeOK, Q!TypeOK
  <2>3. Head(queue) # Null
    BY <1>4, MapUpdaterAssumption DEF Inv, TypeOK, Q!TypeOK
  <2>4. Fetching' = Fetching \cup {w} /\ Given' = Given \cup {w}
    BY <1>1, <1>2, <2>2, <2>3 DEF Fetching, Given
  <2>5. \A v \in Given' : \/ v = w /\ value'[v] = Head(queue)
                          \/ v \in Given /\ v # w /\ value'[v] = value[v]
    BY <1>2, <2>2, <2>4
  <2>6. {value'[v] : v \in Fetching'} = {value[v] : v \in Fetching} \cup {Head(queue)}
    BY <1>2, <2>2, <2>4 DEF Fetching, Given
  <2>7. {value'[v] : v \in Executors} = {value[v] : v \in Executors}
    BY <1>2, <2>2 DEF Given
  <2>8. Waiting' = Waiting /\ Running' = Running
    <3>1. {asked'[t] : t \in Handing'} = {asked[t] : t \in Handing}
      BY <1>2
    <3>2. ToSet(queue') \cup {value'[v] : v \in Fetching'}
            = ToSet(queue) \cup {value[v] : v \in Fetching}
      BY <2>1, <2>6
    <3>3. Waiting' = Waiting
      BY <3>1, <3>2 DEF Waiting
    <3>4. QED BY <1>2, <2>7, <3>3 DEF Running
  <2>9. Distinct'
    BY <1>2, <2>1, <2>5 DEF Distinct
  <2>10. QED BY <2>8, <2>9
<1>5. QED BY <1>3, <1>4 DEF Q!Return

\* From waiting to under way.
LEMMA PoppedSame ==
  ASSUME Inv, Distinct, NEW w \in Workers, Popped(w), value[w] # Null
  PROVE  /\ Distinct' /\ value[w] \in Waiting
         /\ Waiting' = Waiting \ {value[w]} /\ Running' = Running \cup {value[w]}
         /\ Executors' = Executors \cup {w}
         /\ \A v \in Workers : worker'[v] = IF v = w THEN "run" ELSE worker[v]
<1>1. /\ UNCHANGED <<queue, value, pushing, asked, token>>
      /\ at[w] = "back" /\ worker[w] = "pop"
      /\ \A v \in Workers : at'[v] = IF v = w THEN "idle" ELSE at[v]
  BY DEF Popped, Q!Use, Inv, TypeOK, Q!TypeOK, WorkerPlaces
<1>2. w \in Fetching /\ w \notin Executors
  BY <1>1 DEF Fetching, Executors, Executing
<1>3. ~ token
  <2>1. Cardinality(Fetching) # 0
    BY <1>2, CountsNat DEF Inv
  <2>2. pending # 0
    BY <2>1, CountsNat DEF Inv, PendingCounts
  <2>3. QED BY <2>2 DEF Inv, QuietWorld
<1>4. \A v \in Workers : worker'[v] = IF v = w THEN "run" ELSE worker[v]
  BY <1>3 DEF Popped, Inv, TypeOK
<1>5. Fetching' = Fetching \ {w} /\ Executors' = Executors \cup {w}
  BY <1>1, <1>4 DEF Fetching, Executors, Executing
<1>6. Given' = Given /\ Handing' = Handing /\ ToSet(queue') = ToSet(queue) /\ w \in Given
  BY <1>1, <1>2, <1>5 DEF Given, Handing
<1>7. Distinct'
  BY <1>1, <1>6 DEF Distinct
<1>8. Running' = Running \cup {value[w]} /\ value[w] \in Waiting
  BY <1>1, <1>2, <1>5 DEF Running, Waiting
<1>9. {value'[v] : v \in Fetching'} = {value[v] : v \in Fetching} \ {value[w]}
  BY <1>1, <1>2, <1>5 DEF Distinct, Given
<1>10. {asked'[t] : t \in Handing'} = {asked[t] : t \in Handing} \ {value[w]}
  BY <1>1, <1>6 DEF Distinct
<1>11. ToSet(queue') = ToSet(queue) \ {value[w]}
  BY <1>6 DEF Distinct
<1>12. Waiting' = Waiting \ {value[w]}
  BY <1>9, <1>10, <1>11 DEF Waiting
<1>13. QED BY <1>4, <1>5, <1>7, <1>8, <1>12

\* A request is done.
LEMMA FinishSame ==
  ASSUME Inv, Distinct, NEW w \in Workers, UpdateFinished(w)
  PROVE  /\ Distinct' /\ Waiting' = Waiting /\ Running' = Running \ {value[w]}
         /\ w \in Executors /\ Executors' = Executors \ {w}
<1>1. /\ UNCHANGED <<queueVars, asked>> /\ worker[w] = "finish"
      /\ \A v \in Workers : v # w => worker'[v] = worker[v]
      /\ worker'[w] \in {"loop", "notify"}
  BY DEF UpdateFinished, Inv, TypeOK
<1>2. UNCHANGED <<queue, pushing, at, value>>
  BY <1>1 DEF queueVars
<1>3. w \in Executors /\ Executors' = Executors \ {w} /\ Fetching' = Fetching /\ Handing' = Handing
  BY <1>1, <1>2 DEF Executors, Executing, Fetching, Handing
<1>4. Given' \subseteq Given /\ w \in Given /\ ToSet(queue') = ToSet(queue)
  BY <1>2, <1>3 DEF Given
<1>5. Distinct'
  BY <1>1, <1>2, <1>3, <1>4 DEF Distinct
<1>6. Waiting' = Waiting
  BY <1>1, <1>2, <1>3, <1>4 DEF Waiting
<1>7. Running' = Running \ {value[w]}
  BY <1>2, <1>3 DEF Running, Distinct, Given
<1>8. QED BY <1>3, <1>5, <1>6, <1>7

\* No request is waiting and under way.
LEMMA WaitingNotRunning ==
  ASSUME Inv, Distinct, NEW w \in Executors
  PROVE  value[w] \in Running /\ value[w] \notin Waiting
<1>1. w \in Given /\ value[w] \in Running
  BY DEF Given, Running
<1>2. \A v \in Fetching : v \in Given /\ v # w
  BY DEF Given, Fetching, Executors, Executing, Inv, WorkerPlaces
<1>3. QED BY <1>1, <1>2 DEF Distinct, Waiting

\* Nothing is asked for when nothing is pending, so while the world thread is alone.
LEMMA PendingEmpty ==
  ASSUME Inv, pending = 0
  PROVE  /\ Waiting = {} /\ Running = {} /\ Executors = {}
         /\ Handing = {} /\ queue = <<>> /\ Fetching = {}
<1>1. /\ Cardinality(Handing) = 0 /\ Len(queue) = 0
      /\ Cardinality(Fetching) = 0 /\ Cardinality(Executors) = 0
  BY CountsNat DEF Inv, PendingCounts
<1>2. Handing = {} /\ queue = <<>> /\ Fetching = {} /\ Executors = {}
  BY <1>1, CountsNat DEF Inv
<1>3. ToSet(queue) = {}
  BY <1>2 DEF ToSet
<1>4. QED BY <1>2, <1>3 DEF Waiting, Running

LEMMA AloneEmpty ==
  ASSUME Inv, world \in {"alone", "cancel", "join", "done"}
  PROVE  /\ Waiting = {} /\ Running = {} /\ Executors = {}
         /\ Handing = {} /\ queue = <<>> /\ Fetching = {}
BY PendingEmpty DEF Inv, QuietWorld

-----------------------------------------------------------------------------
(***************************************************************************)
(* Steps that ask for nothing.                                             *)
(***************************************************************************)

\* What the invariant of the round needs of them.
Harmless ==
  /\ Waiting' = Waiting /\ Running' \subseteq Running /\ Executors' \subseteq Executors
  /\ kids' = kids /\ todo' = todo /\ alive \subseteq alive'
  /\ world' \in {"preload", "maps"} => world' = world
  /\ \A v \in Workers : kids[v] # {} => worker'[v] = worker[v] /\ value'[v] = value[v]
  /\ \A v \in Executors' : value'[v] = value[v] /\ (worker'[v] = "run" => worker[v] = "run")

LEMMA HarmlessInv ==
  ASSUME RoundInv, Distinct', Harmless
  PROVE  RoundInv'
<1>1. Present' \subseteq Present
  BY DEF Present, Harmless
<1>2. KidsOfUpdate'
  BY DEF RoundInv, KidsOfUpdate, Harmless
<1>3. Fresh'
  BY <1>1 DEF RoundInv, Fresh, Harmless
<1>4. ToSchedule'
  BY <1>1 DEF RoundInv, ToSchedule, Harmless
<1>5. UpdatesLiveMaps'
  BY DEF RoundInv, UpdatesLiveMaps, Harmless
<1>6. QED BY <1>2, <1>3, <1>4, <1>5 DEF RoundInv

\* Steps that move no request.
Idle ==
  /\ UNCHANGED <<queue, asked, pushing, kids, todo>>
  /\ alive \subseteq alive'
  /\ world' \in {"preload", "maps"} => world' = world
  /\ Fetching' = Fetching /\ Executors' = Executors
  /\ \A v \in Workers : kids[v] # {} => worker'[v] = worker[v]
  /\ \A v \in Given : value'[v] = value[v]
  /\ \A v \in Executors : worker'[v] = "run" => worker[v] = "run"

LEMMA IdleInv ==
  ASSUME Inv, RoundInv, Idle
  PROVE  RoundInv' /\ Waiting' = Waiting /\ Running' = Running
<1>1. Distinct' /\ Waiting' = Waiting /\ Running' = Running
  BY StaySame DEF RoundInv, Idle
<1>2. \A v \in Workers : kids[v] # {} => v \in Given
  BY DEF RoundInv, KidsOfUpdate, Given, Executors, Executing
<1>3. Harmless
  BY <1>1, <1>2 DEF Idle, Harmless, Given
<1>4. QED BY <1>1, <1>3, HarmlessInv

\* The world thread waits, ends, or opens a map.
WorldOnly ==
  \/ AllScheduled \/ WaitReturns \/ WaitDecides \/ WaitSleeps \/ SpuriousWake
  \/ CancelQueue \/ JoinWorkers
  \/ \E m \in Maps : CreateMap(m)

LEMMA WorldIdle ==
  ASSUME Inv, WorldOnly
  PROVE  Idle
<1>1. CASE CancelQueue
  <2>1. queue = <<>>
    BY <1>1, AloneEmpty DEF CancelQueue
  <2>2. \A w \in Workers : at'[w] = "back" <=> at[w] = "back"
    BY <1>1 DEF CancelQueue, Q!Cancel, Q!Woken
  <2>3. Fetching' = Fetching /\ Executors' = Executors
    BY <1>1, <2>2 DEF CancelQueue, Q!Cancel, Fetching, Executors, Executing, workVars
  <2>4. QED BY <1>1, <2>1, <2>3 DEF CancelQueue, Q!Cancel, Idle, workVars
<1>2. CASE \E m \in Maps : CreateMap(m)
  <2>1. /\ UNCHANGED <<queueVars, asked, worldVars, workVars>> /\ alive \subseteq alive'
    BY <1>2 DEF CreateMap
  <2>2. QED BY <2>1 DEF Idle, queueVars, worldVars, workVars, Fetching, Executors, Executing
<1>3. CASE AllScheduled \/ WaitReturns \/ WaitDecides \/ WaitSleeps \/ SpuriousWake \/ JoinWorkers
  <2>1. /\ UNCHANGED <<queueVars, asked, todo, workVars, alive>>
        /\ world' \notin {"preload", "maps"}
    BY <1>3 DEF AllScheduled, WaitReturns, WaitDecides, WaitSleeps, SpuriousWake, JoinWorkers
  <2>2. QED BY <2>1 DEF Idle, queueVars, workVars, Fetching, Executors, Executing
<1>4. QED BY <1>1, <1>2, <1>3 DEF WorldOnly

\* A worker waits, begins to wait or ends.
WorkerWaits(w) ==
  \/ Ask(w) \/ Exit(w) \/ SpuriousWorkerWake(w)
  \/ InQueue(w) /\ ~ Q!Return(w)
  \/ Popped(w) /\ value[w] = Null

LEMMA WorkerWaitsIdle ==
  ASSUME Inv, NEW w \in Workers, RoundInv, WorkerWaits(w)
  PROVE  Idle
<1>1. /\ UNCHANGED <<queue, asked, pushing, kids, todo, alive, world>>
      /\ \A v \in Workers : v # w => at'[v] = at[v] /\ value'[v] = value[v] /\ worker'[v] = worker[v]
      /\ w \notin Given
      /\ value'[w] = Null \/ at'[w] # "back"
      /\ worker'[w] \in {"loop", "pop", "gone"} /\ worker[w] \in {"loop", "pop"}
  <2>0. /\ at \in [Workers -> {"idle", "seek", "block", "wait", "back"}]
        /\ worker \in [Workers -> {"loop", "pop", "run", "instances", "finish", "notify", "gone"}]
        /\ value \in [Workers -> Requests \cup {Null}]
        /\ worker[w] = "pop" <=> at[w] # "idle"
    BY DEF Inv, TypeOK, Q!TypeOK, WorkerPlaces
  <2>1. CASE Ask(w)
    BY <2>0, <2>1 DEF Ask, Q!Enter, Given, Fetching, Executors, Executing, worldVars
  <2>2. CASE Exit(w)
    BY <2>0, <2>2 DEF Exit, queueVars, Given, Fetching, Executors, Executing, worldVars
  <2>3. CASE SpuriousWorkerWake(w)
    <3>1. \A v \in Workers : at'[v] = IF v = w THEN "seek" ELSE at[v]
      BY <2>0, <2>3 DEF SpuriousWorkerWake, Q!SpuriousWake, Q!Woken
    <3>2. QED
      BY <2>0, <2>3, <3>1 DEF SpuriousWorkerWake, Q!SpuriousWake, Given, Fetching, Executors,
         Executing, worldVars, workVars
  <2>4. CASE InQueue(w) /\ ~ Q!Return(w)
    <3>1. /\ UNCHANGED <<asked, worldVars, workVars, alive>>
          /\ Q!Decide(w) \/ Q!Sleep(w)
      BY <2>4 DEF InQueue
    <3>2. QED
      BY <2>0, <3>1 DEF Q!Decide, Q!Sleep, Given, Fetching, Executors, Executing, worldVars, workVars
  <2>5. CASE Popped(w) /\ value[w] = Null
    BY <2>0, <2>5 DEF Popped, Q!Use, Given, Fetching, Executors, Executing, worldVars
  <2>6. QED BY <2>1, <2>2, <2>3, <2>4, <2>5 DEF WorkerWaits
<1>2. Fetching' = Fetching /\ Executors' = Executors
  BY <1>1 DEF Given, Fetching, Executors, Executing
<1>3. kids[w] = {}
  BY <1>1 DEF RoundInv, KidsOfUpdate
<1>4. Executors \subseteq Workers /\ Given \subseteq Workers /\ w \notin Executors
  BY <1>1 DEF Given, Fetching, Executors
<1>5. QED BY <1>1, <1>2, <1>3, <1>4 DEF Idle

\* A worker has done its request, or tells the world thread.
LEMMA WorkerDoneIdle ==
  ASSUME Inv, NEW w \in Workers, RoundInv,
         LoadMap(w) \/ UpdateLfg(w) \/ Updated(w) \/ NotifyWorld(w)
  PROVE  Idle
<1>1. /\ UNCHANGED <<queueVars, asked, todo, kids>> /\ alive \subseteq alive'
      /\ world' = world \/ world' = "test"
  BY DEF LoadMap, UpdateLfg, Updated, NotifyWorld, worldVars
<1>2. /\ \A v \in Workers : v # w => worker'[v] = worker[v]
      /\ \/ worker[w] \in {"run", "instances"} /\ worker'[w] = "finish"
         \/ worker[w] = "notify" /\ worker'[w] = "loop"
  BY DEF LoadMap, UpdateLfg, Updated, NotifyWorld, Inv, TypeOK
<1>3. kids[w] = {}
  BY DEF LoadMap, UpdateLfg, Updated, NotifyWorld, RoundInv, KidsOfUpdate
<1>4. Fetching' = Fetching /\ Executors' = Executors
  BY <1>1, <1>2 DEF Fetching, Executors, Executing, queueVars
<1>5. Executors \subseteq Workers
  BY DEF Executors
<1>6. QED BY <1>1, <1>2, <1>3, <1>4, <1>5 DEF Idle, queueVars

-----------------------------------------------------------------------------
(***************************************************************************)
(* The steps that begin, end and ask.                                      *)
(***************************************************************************)

LEMMA HandRound ==
  ASSUME Inv, RoundInv, NEW t \in Threads, PushAsked(t) \/ NotifyWorker(t)
  PROVE  RoundInv' /\ Waiting' = Waiting /\ Running' = Running
<1>1. Distinct' /\ Waiting' = Waiting /\ Running' = Running
  BY PushSame, NotifySame DEF RoundInv
<1>2. UNCHANGED <<value, worker, kids, todo, world, alive>>
  BY DEF PushAsked, NotifyWorker, Q!Push, Q!NotifyOne, worldVars, workVars
<1>3. Harmless
  BY <1>1, <1>2 DEF Harmless, Executors, Executing
<1>4. QED BY <1>1, <1>3, HarmlessInv

LEMMA ReturnRound ==
  ASSUME Inv, RoundInv, NEW w \in Workers, InQueue(w), Q!Return(w)
  PROVE  RoundInv' /\ Waiting' = Waiting /\ Running' = Running
<1>1. UNCHANGED <<asked, worker, kids, todo, world, alive>>
  BY DEF InQueue, worldVars, workVars
<1>2. Distinct' /\ Waiting' = Waiting /\ Running' = Running
  BY <1>1, ReturnSame DEF RoundInv
<1>3. /\ worker[w] = "pop" /\ \A v \in Workers : v # w => value'[v] = value[v]
  BY DEF Q!Return, Inv, TypeOK, Q!TypeOK, WorkerPlaces
<1>4. Executors' = Executors /\ w \notin Executors
  BY <1>1, <1>3 DEF Executors, Executing
<1>5. kids[w] = {}
  BY <1>3 DEF RoundInv, KidsOfUpdate
<1>6. Harmless
  BY <1>1, <1>2, <1>3, <1>4, <1>5 DEF Harmless, Executors
<1>7. QED BY <1>2, <1>6, HarmlessInv

LEMMA FinishRound ==
  ASSUME Inv, RoundInv, NEW w \in Workers, UpdateFinished(w)
  PROVE  RoundInv'
<1>1. /\ Distinct' /\ Waiting' = Waiting /\ Running' = Running \ {value[w]}
      /\ Executors' = Executors \ {w}
  BY FinishSame DEF RoundInv
<1>2. /\ UNCHANGED <<value, kids, todo, world, alive>> /\ worker[w] = "finish"
      /\ \A v \in Workers : v # w => worker'[v] = worker[v]
  BY DEF UpdateFinished, queueVars, worldVars, Inv, TypeOK
<1>3. kids[w] = {}
  BY <1>2 DEF RoundInv, KidsOfUpdate
<1>4. Harmless
  BY <1>1, <1>2, <1>3 DEF Harmless, Executors
<1>5. QED BY <1>1, <1>4, HarmlessInv

LEMMA PoppedRound ==
  ASSUME Inv, RoundInv, NEW w \in Workers, Popped(w), value[w] # Null
  PROVE  RoundInv'
<1>1. /\ Distinct' /\ value[w] \in Waiting
      /\ Waiting' = Waiting \ {value[w]} /\ Running' = Running \cup {value[w]}
      /\ Executors' = Executors \cup {w}
      /\ \A v \in Workers : worker'[v] = IF v = w THEN "run" ELSE worker[v]
  BY PoppedSame DEF RoundInv
<1>2. /\ UNCHANGED <<value, kids, todo, world, alive>> /\ worker[w] = "pop"
  BY DEF Popped, Q!Use, worldVars, Inv, WorkerPlaces
<1>3. Present' = Present /\ kids[w] = {}
  BY <1>1, <1>2 DEF Present, RoundInv, KidsOfUpdate
<1>4. KidsOfUpdate'
  BY <1>1, <1>2, <1>3 DEF RoundInv, KidsOfUpdate
<1>5. Fresh'
  <2> SUFFICES ASSUME NEW b \in Base, NEW m \in InstancesOf[b], <<"update", m>> \in Present
               PROVE  /\ ~ (world = "maps" /\ b \in todo)
                      /\ <<"update", b>> \notin Waiting'
                      /\ \A v \in Executors' :
                           value[v] = <<"update", b>> => worker'[v] # "run" /\ m \notin kids[v]
    BY <1>2, <1>3 DEF Fresh
  <2>1. /\ ~ (world = "maps" /\ b \in todo)
        /\ <<"update", b>> \notin Waiting
        /\ \A v \in Executors : value[v] = <<"update", b>> => worker[v] # "run" /\ m \notin kids[v]
    BY DEF RoundInv, Fresh
  <2>2. value[w] # <<"update", b>>
    BY <1>1, <2>1
  <2>3. QED BY <1>1, <2>1, <2>2 DEF Executors
<1>6. ToSchedule'
  BY <1>2, <1>3 DEF RoundInv, ToSchedule
<1>7. UpdatesLiveMaps'
  BY <1>1, <1>2 DEF RoundInv, UpdatesLiveMaps
<1>8. QED BY <1>1, <1>4, <1>5, <1>6, <1>7 DEF RoundInv

\* The update of a map with instances turns to them.
LEMMA UpdateMapRound ==
  ASSUME Inv, RoundInv, NEW w \in Workers, UpdateMap(w)
  PROVE  RoundInv' /\ Waiting' = Waiting /\ Running' = Running
<1>1. /\ UNCHANGED <<queue, at, value, pushing, asked, todo, world, alive>>
      /\ worker[w] = "run" /\ value[w][1] = "update"
      /\ \A v \in Workers : worker'[v] = IF v = w THEN "instances" ELSE worker[v]
      /\ \A v \in Workers : kids'[v] =
           IF v = w THEN (IF value[w][2] \in Base THEN InstancesOf[value[w][2]] \cap alive ELSE {})
           ELSE kids[v]
  BY DEF UpdateMap, queueVars, worldVars, Inv, TypeOK
<1>2. w \in Executors /\ Executors' = Executors /\ Fetching' = Fetching
  BY <1>1 DEF Executors, Executing, Fetching
<1>3. Distinct' /\ Waiting' = Waiting /\ Running' = Running
  BY <1>1, <1>2, StaySame DEF RoundInv, Given, Fetching, Executors
<1>4. value[w] = <<"update", value[w][2]>>
  <2>1. value[w] \in Requests
    BY <1>2, GivenRequests DEF Given
  <2>2. QED BY <1>1, <2>1 DEF Requests
<1>5. Present' = Present
  BY <1>3 DEF Present
<1>6. KidsOfUpdate'
  BY <1>1, <1>4 DEF RoundInv, KidsOfUpdate
<1>7. Fresh'
  <2> SUFFICES ASSUME NEW b \in Base, NEW m \in InstancesOf[b], <<"update", m>> \in Present
               PROVE  /\ ~ (world = "maps" /\ b \in todo)
                      /\ <<"update", b>> \notin Waiting
                      /\ \A v \in Executors :
                           value[v] = <<"update", b>> => worker'[v] # "run" /\ m \notin kids'[v]
    BY <1>1, <1>2, <1>3, <1>5 DEF Fresh
  <2>1. /\ ~ (world = "maps" /\ b \in todo)
        /\ <<"update", b>> \notin Waiting
        /\ \A v \in Executors : value[v] = <<"update", b>> => worker[v] # "run" /\ m \notin kids[v]
    BY DEF RoundInv, Fresh
  <2>2. value[w] # <<"update", b>>
    BY <1>1, <1>2, <2>1
  <2>3. QED BY <1>1, <2>1, <2>2 DEF Executors
<1>8. ToSchedule' /\ UpdatesLiveMaps'
  BY <1>1, <1>3, <1>5 DEF RoundInv, ToSchedule, UpdatesLiveMaps
<1>9. QED BY <1>3, <1>6, <1>7, <1>8 DEF RoundInv

\* An instance that is visited has no update, and only one worker visits it.
LEMMA VisitedOnce ==
  ASSUME Inv, RoundInv, NEW w \in Workers, NEW m \in kids[w]
  PROVE  /\ <<"update", m>> \notin Present
         /\ \A v \in Workers : m \in kids[v] => v = w
         /\ m \in alive /\ m \in Instances /\ m \notin Base
<1>1. /\ worker[w] = "instances" /\ m \in alive
      /\ w \in Executors
  BY DEF RoundInv, KidsOfUpdate, Executors, Executing
<1>2. PICK b \in Base : value[w] = <<"update", b>> /\ m \in InstancesOf[b]
  BY DEF RoundInv, KidsOfUpdate
<1>3. m \in Instances /\ m \notin Base
  BY <1>2, MapUpdaterAssumption
<1>4. <<"update", m>> \notin Present
  BY <1>1, <1>2 DEF RoundInv, Fresh
<1>5. ASSUME NEW v \in Workers, m \in kids[v] PROVE v = w
  <2>1. v \in Executors
    BY <1>5 DEF RoundInv, KidsOfUpdate, Executors, Executing
  <2>2. PICK c \in Base : value[v] = <<"update", c>> /\ m \in InstancesOf[c]
    BY <1>5 DEF RoundInv, KidsOfUpdate
  <2>3. c = b
    BY <1>2, <2>2, MapUpdaterAssumption
  <2>4. QED BY <1>1, <1>2, <2>1, <2>2, <2>3 DEF RoundInv, Distinct, Given
<1>6. QED BY <1>1, <1>3, <1>4, <1>5

LEMMA DestroyRound ==
  ASSUME Inv, RoundInv, NEW w \in Workers, NEW m \in Instances, DestroyInstance(w, m)
  PROVE  RoundInv' /\ Waiting' = Waiting /\ Running' = Running
<1>1. /\ UNCHANGED <<queue, at, value, pushing, asked, todo, world, worker>>
      /\ m \in kids[w]
      /\ \A v \in Workers : kids'[v] = IF v = w THEN kids[w] \ {m} ELSE kids[v]
      /\ alive' = alive \ {m} \/ alive' = alive
  BY DEF DestroyInstance, queueVars, worldVars, Inv, TypeOK
<1>2. Executors' = Executors /\ Fetching' = Fetching
  BY <1>1 DEF Executors, Executing, Fetching
<1>3. Distinct' /\ Waiting' = Waiting /\ Running' = Running
  BY <1>1, <1>2, StaySame DEF RoundInv
<1>4. Present' = Present
  BY <1>3 DEF Present
<1>5. /\ <<"update", m>> \notin Present /\ m \notin Base
      /\ \A v \in Workers : m \in kids[v] => v = w
  BY <1>1, VisitedOnce
<1>6. KidsOfUpdate'
  BY <1>1, <1>5 DEF RoundInv, KidsOfUpdate
<1>7. Fresh'
  BY <1>1, <1>2, <1>3, <1>4 DEF RoundInv, Fresh, Executors
<1>8. ToSchedule'
  BY <1>1, <1>4, <1>5 DEF RoundInv, ToSchedule, Inv, TypeOK
<1>9. UpdatesLiveMaps'
  <2>1. ASSUME NEW r \in Present, r[1] = "update" PROVE r[2] # m
    <3>1. r \in Requests
      <4>1. \A t \in Handing : asked[t] \in Requests
        BY DEF Handing, Inv, TypeOK
      <4>2. ToSet(queue) \subseteq Requests
        BY DEF Inv, TypeOK, Q!TypeOK, ToSet
      <4>3. QED BY <4>1, <4>2, GivenRequests DEF Present, Waiting, Running, Given
    <3>2. r = <<"update", r[2]>>
      BY <2>1, <3>1 DEF Requests
    <3>3. QED BY <1>5, <3>2
  <2>2. QED BY <1>1, <1>3, <2>1 DEF RoundInv, UpdatesLiveMaps, Present
<1>10. QED BY <1>3, <1>6, <1>7, <1>8, <1>9 DEF RoundInv

\* The world thread asks: for a map to load or to update that it has not asked for.
LEMMA ScheduleRound ==
  ASSUME Inv, RoundInv, NEW b \in Base, NEW r \in Requests,
         \/ SchedulePreload(b) /\ r = <<"preload", b>>
         \/ ScheduleMap(b) /\ r = <<"update", b>>
  PROVE  /\ RoundInv' /\ r \notin Present
         /\ Waiting' = Waiting \cup {r} /\ Running' = Running
<1>1. /\ UNCHANGED <<queueVars, worker, value, kids, world, alive>>
      /\ b \in todo /\ todo' = todo \ {b}
      /\ Count(World, r) /\ World \in Threads
      /\ \/ r = <<"preload", b>> /\ world = "preload"
         \/ r = <<"update", b>> /\ world = "maps"
  <2>1. CASE SchedulePreload(b) /\ r = <<"preload", b>>
    <3>1. /\ UNCHANGED <<queueVars, world, workVars, alive>>
          /\ b \in todo /\ todo' = todo \ {b} /\ world = "preload"
          /\ Count(World, <<"preload", b>>) /\ World \in Threads
      BY <2>1 DEF SchedulePreload, Threads
    <3>2. QED BY <2>1, <3>1 DEF workVars, queueVars
  <2>2. CASE ScheduleMap(b) /\ r = <<"update", b>>
    BY <2>2 DEF ScheduleMap, workVars, queueVars, Threads
  <2>3. QED BY <2>1, <2>2
<1>2. r \notin Present
  BY <1>1 DEF RoundInv, ToSchedule
<1>3. Distinct' /\ Waiting' = Waiting \cup {r} /\ Running' = Running
  BY <1>1, <1>2, CountSame DEF RoundInv
<1>4. Present' = Present \cup {r} /\ Executors' = Executors
  BY <1>1, <1>3 DEF Present, Executors, Executing
<1>5. KidsOfUpdate'
  BY <1>1 DEF RoundInv, KidsOfUpdate
<1>6. Fresh'
  <2> SUFFICES ASSUME NEW c \in Base, NEW m \in InstancesOf[c], <<"update", m>> \in Present'
               PROVE  /\ ~ (world = "maps" /\ c \in todo')
                      /\ <<"update", c>> \notin Waiting'
                      /\ \A v \in Executors :
                           value[v] = <<"update", c>> => worker[v] # "run" /\ m \notin kids[v]
    BY <1>1, <1>4 DEF Fresh
  <2>1. m \notin Base
    BY MapUpdaterAssumption
  <2>2. <<"update", m>> \in Present
    BY <1>1, <1>4, <2>1
  <2>3. /\ ~ (world = "maps" /\ c \in todo)
        /\ <<"update", c>> \notin Waiting
        /\ \A v \in Executors : value[v] = <<"update", c>> => worker[v] # "run" /\ m \notin kids[v]
    BY <2>2 DEF RoundInv, Fresh
  <2>4. r # <<"update", c>>
    BY <1>1, <2>3
  <2>5. QED BY <1>1, <1>3, <2>3, <2>4
<1>7. ToSchedule'
  BY <1>1, <1>4 DEF RoundInv, ToSchedule
<1>8. UpdatesLiveMaps'
  BY <1>1, <1>3 DEF RoundInv, ToSchedule, UpdatesLiveMaps
<1>9. QED BY <1>2, <1>3, <1>5, <1>6, <1>7, <1>8 DEF RoundInv

\* The round begins.
LEMMA LfgRound ==
  ASSUME Inv, RoundInv, ScheduleLfg
  PROVE  /\ RoundInv' /\ <<"lfg", Null>> \notin Present
         /\ Waiting' = Waiting \cup {<<"lfg", Null>>} /\ Running' = Running
<1>1. /\ UNCHANGED <<queueVars, worker, kids, alive>>
      /\ Count(World, <<"lfg", Null>>) /\ World \in Threads
      /\ world = "alone" /\ world' = "maps" /\ todo' = alive \cap Base
      /\ <<"lfg", Null>> \in Requests
  BY DEF ScheduleLfg, workVars, Threads, Requests
<1>2. Waiting = {} /\ Running = {} /\ Executors = {}
  BY <1>1, AloneEmpty
<1>3. Present = {}
  BY <1>2 DEF Present
<1>4. Distinct' /\ Waiting' = {<<"lfg", Null>>} /\ Running' = {}
  BY <1>1, <1>2, <1>3, CountSame DEF RoundInv
<1>5. \A x : <<"update", x>> \notin Present'
  BY <1>4 DEF Present
<1>6. \A w \in Workers : kids[w] = {}
  BY <1>2 DEF RoundInv, KidsOfUpdate, Executors, Executing
<1>7. KidsOfUpdate' /\ Fresh'
  BY <1>1, <1>5, <1>6 DEF KidsOfUpdate, Fresh
<1>8. ToSchedule'
  BY <1>1, <1>5 DEF ToSchedule
<1>9. UpdatesLiveMaps'
  BY <1>4 DEF UpdatesLiveMaps
<1>10. QED BY <1>2, <1>3, <1>4, <1>7, <1>8, <1>9 DEF RoundInv

\* The update of a base map asks for that of an instance.
LEMMA InstanceRound ==
  ASSUME Inv, RoundInv, NEW w \in Workers, NEW m \in Instances, ScheduleInstance(w, m)
  PROVE  /\ RoundInv' /\ <<"update", m>> \in Requests /\ <<"update", m>> \notin Present
         /\ Waiting' = Waiting \cup {<<"update", m>>} /\ Running' = Running
<1>1. /\ UNCHANGED <<queueVars, worker, value, todo, world, alive>>
      /\ m \in kids[w] /\ Count(w, <<"update", m>>) /\ w \in Threads
      /\ \A v \in Workers : kids'[v] = IF v = w THEN kids[w] \ {m} ELSE kids[v]
      /\ <<"update", m>> \in Requests
  BY DEF ScheduleInstance, queueVars, worldVars, Threads, Requests, Maps, Inv, TypeOK
<1>2. /\ <<"update", m>> \notin Present /\ m \notin Base /\ m \in alive
      /\ \A v \in Workers : m \in kids[v] => v = w
  BY <1>1, VisitedOnce
<1>3. PICK b \in Base : value[w] = <<"update", b>> /\ m \in InstancesOf[b]
  BY <1>1 DEF RoundInv, KidsOfUpdate
<1>4. w \in Executors /\ worker[w] = "instances"
  BY <1>1 DEF RoundInv, KidsOfUpdate, Executors, Executing
<1>5. Distinct' /\ Waiting' = Waiting \cup {<<"update", m>>} /\ Running' = Running
  BY <1>1, <1>2, CountSame DEF RoundInv
<1>6. Present' = Present \cup {<<"update", m>>} /\ Executors' = Executors
  BY <1>1, <1>5 DEF Present, Executors, Executing
<1>7. KidsOfUpdate'
  BY <1>1 DEF RoundInv, KidsOfUpdate
<1>8. Fresh'
  <2> SUFFICES ASSUME NEW c \in Base, NEW n \in InstancesOf[c], <<"update", n>> \in Present'
               PROVE  /\ ~ (world = "maps" /\ c \in todo)
                      /\ <<"update", c>> \notin Waiting'
                      /\ \A v \in Executors :
                           value[v] = <<"update", c>> => worker[v] # "run" /\ n \notin kids'[v]
    BY <1>1, <1>6 DEF Fresh
  <2>1. CASE n = m
    <3>1. c = b
      BY <1>3, <2>1, MapUpdaterAssumption
    <3>2. <<"update", b>> \in Running /\ <<"update", b>> \notin Waiting
      BY <1>3, <1>4, WaitingNotRunning DEF RoundInv
    <3>3. ~ (world = "maps" /\ b \in todo)
      BY <3>2 DEF RoundInv, ToSchedule, Present
    <3>4. \A v \in Executors : value[v] = <<"update", b>> => v = w
      BY <1>3, <1>4 DEF RoundInv, Distinct, Given
    <3>5. <<"update", b>> # <<"update", m>>
      BY <1>2
    <3>6. QED BY <1>1, <1>4, <1>5, <2>1, <3>1, <3>2, <3>3, <3>4, <3>5
  <2>2. CASE n # m
    <3>1. <<"update", n>> \in Present
      BY <1>6, <2>2
    <3>2. /\ ~ (world = "maps" /\ c \in todo)
          /\ <<"update", c>> \notin Waiting
          /\ \A v \in Executors : value[v] = <<"update", c>> => worker[v] # "run" /\ n \notin kids[v]
      BY <3>1 DEF RoundInv, Fresh
    <3>3. <<"update", c>> # <<"update", m>>
      BY <1>2
    <3>4. QED BY <1>1, <1>5, <3>2, <3>3 DEF Executors
  <2>3. QED BY <2>1, <2>2
<1>9. ToSchedule'
  BY <1>1, <1>2, <1>6 DEF RoundInv, ToSchedule, Inv, TypeOK
<1>10. UpdatesLiveMaps'
  BY <1>1, <1>2, <1>5 DEF RoundInv, UpdatesLiveMaps
<1>11. QED BY <1>1, <1>2, <1>5, <1>7, <1>8, <1>9, <1>10 DEF RoundInv

\* All maps are deleted while nothing is asked for.
LEMMA UnloadRound ==
  ASSUME Inv, RoundInv, UnloadAll
  PROVE  RoundInv' /\ Waiting' = Waiting /\ Running' = Running
<1>1. /\ UNCHANGED <<queueVars, asked, worker, value, kids>>
      /\ world = "alone" /\ world' = "test"
  BY DEF UnloadAll, queueVars, workVars
<1>2. Waiting = {} /\ Running = {} /\ Executors = {}
  BY <1>1, AloneEmpty
<1>3. Fetching' = Fetching /\ Executors' = Executors
  BY <1>1 DEF Fetching, Executors, Executing, queueVars
<1>4. Distinct' /\ Waiting' = Waiting /\ Running' = Running
  BY <1>1, <1>3, StaySame DEF RoundInv, queueVars
<1>5. \A w \in Workers : kids[w] = {}
  BY <1>2 DEF RoundInv, KidsOfUpdate, Executors, Executing
<1>6. KidsOfUpdate' /\ Fresh' /\ ToSchedule' /\ UpdatesLiveMaps'
  BY <1>1, <1>2, <1>4, <1>5 DEF KidsOfUpdate, Fresh, ToSchedule, UpdatesLiveMaps, Present
<1>7. QED BY <1>4, <1>6 DEF RoundInv

-----------------------------------------------------------------------------

LEMMA RoundInitInv == Init => RoundInv /\ Waiting = {} /\ Running = {}
<1> SUFFICES ASSUME Init PROVE RoundInv /\ Waiting = {} /\ Running = {}
  OBVIOUS
<1>1. Handing = {} /\ Fetching = {} /\ Executors = {} /\ queue = <<>>
  BY DEF Init, Q!InitQueue, Handing, Fetching, Executors, Executing
<1>2. ToSet(queue) = {} /\ Len(queue) = 0
  BY <1>1 DEF ToSet
<1>3. Given = {} /\ Waiting = {} /\ Running = {}
  BY <1>1, <1>2 DEF Given, Waiting, Running
<1>4. Distinct
  BY <1>1, <1>2, <1>3 DEF Distinct
<1>5. KidsOfUpdate /\ world \in {"preload", "alone"}
  BY DEF Init, KidsOfUpdate
<1>6. Fresh /\ ToSchedule /\ UpdatesLiveMaps
  BY <1>3, <1>5 DEF Fresh, ToSchedule, UpdatesLiveMaps, Present
<1>7. QED BY <1>3, <1>4, <1>5, <1>6 DEF RoundInv

\* Each step keeps the invariant and is a step of UpdateRound, or none.
AloneWorld == world \notin {"preload", "maps", "test", "block", "wait"}

RoundStep == RoundInv' /\ [Round!Next]_(Round!vars)

LEMMA QuietStep ==
  ASSUME RoundInv', Waiting' = Waiting, Running' = Running, AloneWorld' = AloneWorld
  PROVE  RoundStep
BY DEF RoundStep, Round!vars, AloneWorld

LEMMA AskStep ==
  ASSUME RoundInv', NEW r \in Requests, r \notin Present,
         Waiting' = Waiting \cup {r}, Running' = Running, ~ AloneWorld'
  PROVE  RoundStep
<1>1. Round!Ask(r)
  BY DEF Round!Ask, AloneWorld, Present
<1>2. QED BY <1>1 DEF RoundStep, Round!Next

LEMMA WorldRound ==
  ASSUME Inv, RoundInv,
         WorldStep \/ ScheduleLfg \/ UnloadAll \/ SpuriousWake \/ \E m \in Maps : CreateMap(m)
  PROVE  RoundStep
<1>0. World \in Threads
  BY DEF Threads
<1>1. CASE PushAsked(World) \/ NotifyWorker(World)
  <2>1. AloneWorld' = AloneWorld
    BY <1>1 DEF PushAsked, NotifyWorker, worldVars, AloneWorld
  <2>2. QED BY <1>0, <1>1, <2>1, HandRound, QuietStep
<1>2. ASSUME NEW b \in Base, SchedulePreload(b) PROVE RoundStep
  <2>1. <<"preload", b>> \in Requests /\ ~ AloneWorld'
    BY <1>2 DEF SchedulePreload, Requests, AloneWorld
  <2>2. QED BY <1>2, <2>1, ScheduleRound, AskStep
<1>3. ASSUME NEW b \in Base, ScheduleMap(b) PROVE RoundStep
  <2>1. <<"update", b>> \in Requests /\ ~ AloneWorld'
    BY <1>3 DEF ScheduleMap, Requests, Maps, AloneWorld
  <2>2. QED BY <1>3, <2>1, ScheduleRound, AskStep
<1>4. CASE ScheduleLfg
  <2>1. <<"lfg", Null>> \in Requests /\ ~ AloneWorld'
    BY <1>4 DEF ScheduleLfg, Requests, AloneWorld
  <2>2. QED BY <1>4, <2>1, LfgRound, AskStep
<1>5. CASE WaitReturns
  <2>1. RoundInv' /\ Waiting' = Waiting /\ Running' = Running
    BY <1>5, WorldIdle, IdleInv DEF WorldOnly
  <2>2. Waiting = {} /\ Running = {}
    BY <1>5, PendingEmpty DEF WaitReturns
  <2>3. AloneWorld'
    BY <1>5 DEF WaitReturns, AloneWorld
  <2>4. Round!End
    BY <2>1, <2>2, <2>3 DEF Round!End, AloneWorld
  <2>5. QED BY <2>1, <2>4 DEF RoundStep, Round!Next
<1>6. CASE \/ AllScheduled \/ WaitDecides \/ WaitSleeps \/ SpuriousWake \/ CancelQueue
           \/ JoinWorkers \/ \E m \in Maps : CreateMap(m)
  <2>1. RoundInv' /\ Waiting' = Waiting /\ Running' = Running
    BY <1>6, WorldIdle, IdleInv DEF WorldOnly
  <2>2. AloneWorld' = AloneWorld
    BY <1>6 DEF AllScheduled, WaitDecides, WaitSleeps, SpuriousWake, CancelQueue, JoinWorkers,
       CreateMap, worldVars, AloneWorld
  <2>3. QED BY <2>1, <2>2, QuietStep
<1>7. CASE UnloadAll
  <2>1. RoundInv' /\ Waiting' = Waiting /\ Running' = Running
    BY <1>7, UnloadRound
  <2>2. AloneWorld /\ ~ AloneWorld'
    BY <1>7 DEF UnloadAll, AloneWorld
  <2>3. Round!Begin
    BY <2>1, <2>2 DEF Round!Begin, AloneWorld
  <2>4. QED BY <2>1, <2>3 DEF RoundStep, Round!Next
<1>8. QED BY <1>1, <1>2, <1>3, <1>4, <1>5, <1>6, <1>7 DEF WorldStep

LEMMA WorkerRound ==
  ASSUME Inv, RoundInv, NEW w \in Workers, WorkerStep(w) \/ SpuriousWorkerWake(w)
  PROVE  RoundStep
<1>0. w \in Threads
  BY DEF Threads
<1>1. CASE PushAsked(w) \/ NotifyWorker(w)
  <2>1. AloneWorld' = AloneWorld
    BY <1>1 DEF PushAsked, NotifyWorker, worldVars, AloneWorld
  <2>2. QED BY <1>0, <1>1, <2>1, HandRound, QuietStep
<1>2. CASE WorkerWaits(w)
  <2>1. RoundInv' /\ Waiting' = Waiting /\ Running' = Running
    BY <1>2, WorkerWaitsIdle, IdleInv
  <2>2. AloneWorld' = AloneWorld
    BY <1>2 DEF WorkerWaits, Ask, Exit, SpuriousWorkerWake, InQueue, Popped, worldVars, AloneWorld
  <2>3. QED BY <2>1, <2>2, QuietStep
<1>3. CASE InQueue(w) /\ Q!Return(w)
  <2>1. RoundInv' /\ Waiting' = Waiting /\ Running' = Running
    BY <1>3, ReturnRound
  <2>2. AloneWorld' = AloneWorld
    BY <1>3 DEF InQueue, worldVars, AloneWorld
  <2>3. QED BY <2>1, <2>2, QuietStep
<1>4. CASE LoadMap(w) \/ UpdateLfg(w) \/ Updated(w) \/ NotifyWorld(w)
  <2>1. RoundInv' /\ Waiting' = Waiting /\ Running' = Running
    BY <1>4, WorkerDoneIdle, IdleInv
  <2>2. AloneWorld' = AloneWorld
    BY <1>4 DEF LoadMap, UpdateLfg, Updated, NotifyWorld, worldVars, AloneWorld
  <2>3. QED BY <2>1, <2>2, QuietStep
<1>5. CASE Popped(w) /\ value[w] # Null
  <2>1. /\ RoundInv' /\ value[w] \in Waiting
        /\ Waiting' = Waiting \ {value[w]} /\ Running' = Running \cup {value[w]}
    BY <1>5, PoppedRound, PoppedSame DEF RoundInv
  <2>2. value[w] \in Requests /\ AloneWorld' = AloneWorld
    BY <1>5 DEF Popped, worldVars, AloneWorld, Inv, TypeOK, Q!TypeOK
  <2>3. Round!Start(value[w])
    BY <2>1, <2>2 DEF Round!Start, AloneWorld
  <2>4. QED BY <2>1, <2>2, <2>3 DEF RoundStep, Round!Next
<1>6. CASE UpdateMap(w)
  <2>1. AloneWorld' = AloneWorld
    BY <1>6 DEF UpdateMap, worldVars, AloneWorld
  <2>2. QED BY <1>6, <2>1, UpdateMapRound, QuietStep
<1>7. ASSUME NEW m \in Instances, DestroyInstance(w, m) PROVE RoundStep
  <2>1. AloneWorld' = AloneWorld
    BY <1>7 DEF DestroyInstance, worldVars, AloneWorld
  <2>2. QED BY <1>7, <2>1, DestroyRound, QuietStep
<1>8. ASSUME NEW m \in Instances, ScheduleInstance(w, m) PROVE RoundStep
  <2>1. w \in Executors
    BY <1>8 DEF ScheduleInstance, Executors, Executing
  <2>2. ~ AloneWorld
    BY <2>1, AloneEmpty DEF Inv, TypeOK, AloneWorld
  <2>3. ~ AloneWorld'
    BY <1>8, <2>2 DEF ScheduleInstance, worldVars, AloneWorld
  <2>4. QED BY <1>8, <2>3, InstanceRound, AskStep
<1>9. CASE UpdateFinished(w)
  <2>1. /\ RoundInv' /\ Waiting' = Waiting /\ Running' = Running \ {value[w]}
        /\ w \in Executors
    BY <1>9, FinishRound, FinishSame DEF RoundInv
  <2>2. value[w] \in Requests /\ value[w] \in Running
    BY <2>1, GivenRequests DEF Running, Given
  <2>3. AloneWorld' = AloneWorld
    BY <1>9 DEF UpdateFinished, worldVars, AloneWorld
  <2>4. Round!Finish(value[w])
    BY <2>1, <2>2, <2>3 DEF Round!Finish, AloneWorld
  <2>5. QED BY <2>1, <2>2, <2>4 DEF RoundStep, Round!Next
<1>10. QED
  BY <1>1, <1>2, <1>3, <1>4, <1>5, <1>6, <1>7, <1>8, <1>9 DEF WorkerStep, WorkerWaits

LEMMA RoundNextInv == Inv /\ RoundInv /\ [Next]_vars => RoundInv' /\ [Round!Next]_(Round!vars)
<1> SUFFICES ASSUME Inv, RoundInv, [Next]_vars PROVE RoundStep
  BY DEF RoundStep
<1>1. CASE UNCHANGED vars
  <2>1. Idle /\ AloneWorld' = AloneWorld
    BY <1>1 DEF vars, queueVars, worldVars, workVars, Idle, Fetching, Executors, Executing, AloneWorld
  <2>2. QED BY <2>1, IdleInv, QuietStep
<1>2. QED BY <1>1, WorldRound, WorkerRound DEF Next, Halted

LEMMA RoundInvHolds == Spec => [](Inv /\ RoundInv)
<1>1. Init => Inv /\ RoundInv
  BY InitInv, RoundInitInv
<1>2. (Inv /\ RoundInv) /\ [Next]_vars => (Inv /\ RoundInv)'
  BY NextInv, RoundNextInv
<1>3. QED BY <1>1, <1>2, PTL DEF Spec

-----------------------------------------------------------------------------

\* The map of every update that is waiting or under way exists: no worker destroys
\* an instance, and the world thread unloads no map, that is still to be updated.
THEOREM OnlyLiveMapsUpdated == Spec => []UpdatesLiveMaps
<1>1. Inv /\ RoundInv => UpdatesLiveMaps
  BY DEF RoundInv
<1>2. QED BY <1>1, RoundInvHolds, PTL

\* The map updater implements UpdateRound: what is scheduled is executed once, and
\* wait() returns only when nothing is left.
THEOREM ImplementsRound == Spec => RoundSpec
<1>1. Init => Round!Init
  BY RoundInitInv DEF Round!Init, Init
<1>2. Inv /\ RoundInv /\ [Next]_vars => [Round!Next]_(Round!vars)
  BY RoundNextInv
<1>3. QED BY <1>1, <1>2, RoundInvHolds, PTL DEF Spec, RoundSpec, Round!Spec
=============================================================================
