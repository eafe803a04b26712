------------------------------ MODULE MapUpdater ------------------------------
(***************************************************************************)
(* MapUpdater and its users: the world thread (World::SetInitialWorld-     *)
(* Settings, MapMgr::Update, MapMgr::UnloadAll) schedules one request per  *)
(* base map and waits until none is pending; worker threads execute the    *)
(* requests, and the update of a MapInstanced schedules one more for each  *)
(* of its instances.  Requests travel through a ProducerConsumerQueue.     *)
(***************************************************************************)
EXTENDS Integers, FiniteSets, SequencesExt

CONSTANTS
  World,        \* the world thread
  Workers,      \* the threads of activate()
  Base,         \* base maps
  Instances,    \* instance maps
  InstancesOf,  \* InstancesOf[b]: the instance maps of base map b
  Null

Maps == Base \cup Instances
Threads == Workers \cup {World}

\* MapPreloadRequest, MapUpdateRequest and LFGUpdateRequest.
Requests == ({"preload"} \X Base) \cup ({"update"} \X Maps) \cup {<<"lfg", Null>>}

ASSUME MapUpdaterAssumption ==
  /\ IsFiniteSet(Workers) /\ IsFiniteSet(Maps)
  /\ World \notin Workers
  /\ Base \cap Instances = {}
  /\ InstancesOf \in [Base -> SUBSET Instances]
  /\ \A b, c \in Base : b # c => InstancesOf[b] \cap InstancesOf[c] = {}
  /\ Null \notin Threads \cup Maps \cup Requests

\* Maps without instances (!Instanceable()).
Plain == {b \in Base : InstancesOf[b] = {}}

VARIABLES
  queue, lock, at, value, pushing, cancelled, shutdown,  \* see PCQueue
  pending,  \* pending_requests
  token,    \* _cancelationToken
  waitLock, \* _lock, when it is kept between two steps
  asked,    \* the request each thread is handing to the queue in schedule_task
  world,    \* where the world thread is
  todo,     \* base maps the world thread has still to schedule
  worker,   \* where each worker is
  kids,     \* instances MapInstanced::Update has still to visit, by worker
  alive     \* maps that exist

queueVars == <<queue, lock, at, value, pushing, cancelled, shutdown>>
worldVars == <<world, todo>>
workVars == <<worker, kids>>
vars == <<queueVars, pending, token, waitLock, asked, worldVars, workVars, alive>>

Q == INSTANCE PCQueue WITH Producers <- Threads, Consumers <- Workers,
                           Items <- Requests

Init ==
  /\ Q!InitQueue
  /\ pending = 0 /\ token = FALSE /\ waitLock = Null
  /\ asked = [t \in Threads |-> Null]
  /\ worker = [w \in Workers |-> "loop"]
  /\ kids = [w \in Workers |-> {}]
  /\ alive = {}
  /\ \/ world = "preload" /\ todo = Plain
     \/ world = "alone" /\ todo = {}

-----------------------------------------------------------------------------
(***************************************************************************)
(* schedule_task, by any thread: count the request, push it, notify.       *)
(***************************************************************************)

Count(t, r) ==
  /\ asked[t] = Null
  /\ asked' = [asked EXCEPT ![t] = r]
  /\ pending' = pending + 1

PushAsked(t) ==
  /\ asked[t] # Null
  /\ Q!Push(t, asked[t])
  /\ UNCHANGED <<pending, token, waitLock, asked, worldVars, workVars, alive>>

NotifyWorker(t) ==
  /\ Q!NotifyOne(t)
  /\ asked' = [asked EXCEPT ![t] = Null]
  /\ UNCHANGED <<pending, token, waitLock, worldVars, workVars, alive>>

-----------------------------------------------------------------------------
(***************************************************************************)
(* The world thread.  "alone": between two updates of the maps, where the  *)
(* world thread uses them without any lock.                                *)
(***************************************************************************)

\* SetInitialWorldSettings schedules the maps to load.
SchedulePreload(b) ==
  /\ world = "preload" /\ b \in todo
  /\ Count(World, <<"preload", b>>)
  /\ todo' = todo \ {b}
  /\ UNCHANGED <<queueVars, token, waitLock, world, workVars, alive>>

\* A session or a battleground needs a map.
CreateMap(m) ==
  /\ world = "alone" /\ ~token
  /\ m \in Base \/ \E b \in Base \cap alive : m \in InstancesOf[b]
  /\ alive' = alive \cup {m}
  /\ UNCHANGED <<queueVars, pending, token, waitLock, asked, worldVars, workVars>>

\* MapMgr::Update.
ScheduleLfg ==
  /\ world = "alone" /\ ~token
  /\ Count(World, <<"lfg", Null>>)
  /\ world' = "maps" /\ todo' = alive \cap Base
  /\ UNCHANGED <<queueVars, token, waitLock, workVars, alive>>

ScheduleMap(b) ==
  /\ world = "maps" /\ b \in todo
  /\ Count(World, <<"update", b>>)
  /\ todo' = todo \ {b}
  /\ UNCHANGED <<queueVars, token, waitLock, world, workVars, alive>>

AllScheduled ==
  /\ world \in {"preload", "maps"} /\ todo = {} /\ asked[World] = Null
  /\ world' = "test"
  /\ UNCHANGED <<queueVars, pending, token, waitLock, asked, todo, workVars, alive>>

\* wait() tests its predicate.
WaitReturns ==
  /\ world = "test" /\ waitLock = Null
  /\ pending = 0
  /\ world' = IF token THEN "cancel" ELSE "alone"
  /\ UNCHANGED <<queueVars, pending, token, waitLock, asked, todo, workVars, alive>>

WaitDecides ==
  /\ world = "test" /\ waitLock = Null
  /\ pending # 0
  /\ world' = "block" /\ waitLock' = World
  /\ UNCHANGED <<queueVars, pending, token, asked, todo, workVars, alive>>

WaitSleeps ==
  /\ world = "block"
  /\ world' = "wait" /\ waitLock' = Null
  /\ UNCHANGED <<queueVars, pending, token, asked, todo, workVars, alive>>

SpuriousWake ==
  /\ world = "wait" /\ world' = "test"
  /\ UNCHANGED <<queueVars, pending, token, waitLock, asked, todo, workVars, alive>>

\* Mutant: the shutdown comes while the maps are updated.
UnloadAllAnyTime ==
  /\ world \in {"alone", "maps"} /\ ~token
  /\ alive' = {} /\ token' = TRUE
  /\ world' = "test" /\ todo' = {}
  /\ UNCHANGED <<queueVars, pending, waitLock, asked, workVars>>

\* MapMgr::UnloadAll deletes the maps, then deactivate() sets the token and waits.
UnloadAll ==
  /\ world = "alone" /\ ~token
  /\ alive' = {} /\ token' = TRUE
  /\ world' = "test"
  /\ UNCHANGED <<queueVars, pending, waitLock, asked, todo, workVars>>

CancelQueue ==
  /\ world = "cancel"
  /\ Q!Cancel
  /\ world' = "join"
  /\ UNCHANGED <<pending, token, waitLock, asked, todo, workVars, alive>>

JoinWorkers ==
  /\ world = "join"
  /\ \A w \in Workers : worker[w] = "gone"
  /\ world' = "done"
  /\ UNCHANGED <<queueVars, pending, token, waitLock, asked, todo, workVars, alive>>

-----------------------------------------------------------------------------
(***************************************************************************)
(* The worker threads.                                                     *)
(***************************************************************************)

Ask(w) ==
  /\ worker[w] = "loop" /\ ~token
  /\ Q!Enter(w)
  /\ worker' = [worker EXCEPT ![w] = "pop"]
  /\ UNCHANGED <<pending, token, waitLock, asked, worldVars, kids, alive>>

Exit(w) ==
  /\ worker[w] = "loop" /\ token
  /\ worker' = [worker EXCEPT ![w] = "gone"]
  /\ UNCHANGED <<queueVars, pending, token, waitLock, asked, worldVars, kids, alive>>

InQueue(w) ==
  /\ Q!Return(w) \/ Q!Decide(w) \/ Q!Sleep(w)
  /\ UNCHANGED <<pending, token, waitLock, asked, worldVars, workVars, alive>>

SpuriousWorkerWake(w) ==
  /\ Q!SpuriousWake(w)
  /\ UNCHANGED <<pending, token, waitLock, asked, worldVars, workVars, alive>>

\* WaitAndPop has returned: the request is executed unless the token is set.
Popped(w) ==
  /\ Q!Use(w)
  /\ worker' = [worker EXCEPT ![w] = IF ~token /\ value[w] # Null THEN "run" ELSE "loop"]
  /\ UNCHANGED <<pending, token, waitLock, asked, worldVars, kids, alive>>

\* Mutant: the LFG request does not call update_finished.
UpdateLfgUnfinished(w) ==
  /\ worker[w] = "run" /\ value[w][1] = "lfg"
  /\ worker' = [worker EXCEPT ![w] = "loop"]
  /\ UNCHANGED <<queueVars, pending, token, waitLock, asked, worldVars, kids, alive>>

\* call() of each kind of request, up to update_finished.
LoadMap(w) ==
  /\ worker[w] = "run" /\ value[w][1] = "preload"
  /\ alive' = alive \cup {value[w][2]}
  /\ worker' = [worker EXCEPT ![w] = "finish"]
  /\ UNCHANGED <<queueVars, pending, token, waitLock, asked, worldVars, kids>>

UpdateLfg(w) ==
  /\ worker[w] = "run" /\ value[w][1] = "lfg"
  /\ worker' = [worker EXCEPT ![w] = "finish"]
  /\ UNCHANGED <<queueVars, pending, token, waitLock, asked, worldVars, kids, alive>>

UpdateMap(w) ==
  /\ worker[w] = "run" /\ value[w][1] = "update"
  /\ worker' = [worker EXCEPT ![w] = "instances"]
  /\ kids' = [kids EXCEPT ![w] = IF value[w][2] \in Base
                                 THEN InstancesOf[value[w][2]] \cap alive ELSE {}]
  /\ UNCHANGED <<queueVars, pending, token, waitLock, asked, worldVars, alive>>

\* Mutant: an instance is scheduled before it is decided whether to unload it.
DestroyScheduled(w, m) ==
  /\ worker[w] = "instances" /\ asked[w] = Null /\ m \in kids[w]
  /\ Count(w, <<"update", m>>)
  /\ alive' = alive \ {m}
  /\ kids' = [kids EXCEPT ![w] = @ \ {m}]
  /\ UNCHANGED <<queueVars, token, waitLock, worldVars, worker>>

\* MapInstanced::Update: an instance that can be unloaded is destroyed, if no
\* player is left in it (or else left alone until the next update) ...
DestroyInstance(w, m) ==
  /\ worker[w] = "instances" /\ asked[w] = Null /\ m \in kids[w]
  /\ alive' \in {alive \ {m}, alive}
  /\ kids' = [kids EXCEPT ![w] = @ \ {m}]
  /\ UNCHANGED <<queueVars, pending, token, waitLock, asked, worldVars, worker>>

\* ... and every other one is scheduled.
ScheduleInstance(w, m) ==
  /\ worker[w] = "instances" /\ m \in kids[w]
  /\ Count(w, <<"update", m>>)
  /\ kids' = [kids EXCEPT ![w] = @ \ {m}]
  /\ UNCHANGED <<queueVars, token, waitLock, worldVars, worker, alive>>

Updated(w) ==
  /\ worker[w] = "instances" /\ asked[w] = Null /\ kids[w] = {}
  /\ worker' = [worker EXCEPT ![w] = "finish"]
  /\ UNCHANGED <<queueVars, pending, token, waitLock, asked, worldVars, kids, alive>>

\* Mutant: the worker that reaches zero does not see it.
FinishUnseen(w) ==
  /\ worker[w] = "finish"
  /\ pending' = pending - 1
  /\ worker' = [worker EXCEPT ![w] = IF pending' = 1 THEN "notify" ELSE "loop"]
  /\ UNCHANGED <<queueVars, token, waitLock, asked, worldVars, kids, alive>>

\* update_finished: fetch_sub, and then ...
UpdateFinished(w) ==
  /\ worker[w] = "finish"
  /\ pending' = pending - 1
  /\ worker' = [worker EXCEPT ![w] = IF pending = 1 THEN "notify" ELSE "loop"]
  /\ UNCHANGED <<queueVars, token, waitLock, asked, worldVars, kids, alive>>

\* ... under the lock, notify_all.
NotifyWorld(w) ==
  /\ worker[w] = "notify" /\ waitLock = Null
  /\ worker' = [worker EXCEPT ![w] = "loop"]
  /\ world' = IF world = "wait" THEN "test" ELSE world
  /\ UNCHANGED <<queueVars, pending, token, waitLock, asked, todo, kids, alive>>

-----------------------------------------------------------------------------

WorldStep ==
  \/ PushAsked(World) \/ NotifyWorker(World)
  \/ \E b \in Base : SchedulePreload(b) \/ ScheduleMap(b)
  \/ AllScheduled \/ WaitReturns \/ WaitDecides \/ WaitSleeps
  \/ CancelQueue \/ JoinWorkers

WorkerStep(w) ==
  \/ PushAsked(w) \/ NotifyWorker(w)
  \/ Ask(w) \/ Exit(w) \/ InQueue(w) \/ Popped(w)
  \/ LoadMap(w) \/ UpdateLfg(w) \/ UpdateMap(w)
  \/ \E m \in Instances : DestroyInstance(w, m) \/ ScheduleInstance(w, m)
  \/ Updated(w) \/ UpdateFinished(w) \/ NotifyWorld(w)

Halted == world = "done" /\ UNCHANGED vars

Next ==
  \/ WorldStep
  \/ ScheduleLfg \/ UnloadAll \/ \E m \in Maps : CreateMap(m)
  \/ SpuriousWake
  \/ \E w \in Workers : WorkerStep(w) \/ SpuriousWorkerWake(w)
  \/ Halted

Spec == Init /\ [][Next]_vars

\* Threads are scheduled, and a mutex that is free again and again is not denied
\* to one of them for ever (spurious wake-ups of the others could do that).  What
\* the world thread does while it is alone is its own choice.
FairSpec == Spec /\ SF_vars(WorldStep) /\ \A w \in Workers : SF_vars(WorkerStep(w))

-----------------------------------------------------------------------------

Executing(w) == worker[w] \in {"run", "instances", "finish"}

\* Threads on their way to the queue with a request, workers that come from it
\* with one, and workers that execute one.
Handing == {t \in Threads : asked[t] # Null /\ t \notin pushing}
Fetching == {w \in Workers : at[w] = "back" /\ value[w] # Null}
Executors == {w \in Workers : Executing(w)}

\* The requests counted and not begun, and those under way.
Waiting == {asked[t] : t \in Handing} \cup ToSet(queue) \cup {value[w] : w \in Fetching}
Running == {value[w] : w \in Executors}

\* Shape of the state.
TypeOK ==
  /\ Q!TypeOK
  /\ pending \in Nat /\ token \in BOOLEAN /\ waitLock \in {World, Null}
  /\ asked \in [Threads -> Requests \cup {Null}]
  /\ world \in {"preload", "alone", "maps", "test", "block", "wait", "cancel", "join", "done"}
  /\ todo \in SUBSET Base
  /\ worker \in [Workers -> {"loop", "pop", "run", "instances", "finish", "notify", "gone"}]
  /\ kids \in [Workers -> SUBSET Instances]
  /\ alive \in SUBSET Maps

\* pending_requests counts the requests wherever they are, although they are
\* counted, pushed, popped and finished in steps of different threads and no lock
\* covers two of those steps.
PendingCounts ==
  pending = Cardinality(Handing) + Len(queue) + Cardinality(Fetching) + Cardinality(Executors)

\* While the world thread is alone no worker touches a map, and none will.
WorldAlone ==
  world \in {"alone", "cancel", "join", "done"} => Waiting = {} /\ Running = {}

\* The maps of all updates waiting or under way exist: a worker may destroy an
\* instance, and the world thread all of them, but none that will be updated.
UpdatesLiveMaps ==
  \A r \in Waiting \cup Running : r[1] = "update" => r[2] \in alive

Round == INSTANCE UpdateRound WITH
  Tasks <- Requests, todo <- Waiting, doing <- Running,
  alone <- world \notin {"preload", "maps", "test", "block", "wait"}

\* Every request is executed once, before the world thread is alone again.
RoundSpec == Round!Spec

\* wait() returns: no notification is lost.
WaitEnds == world \in {"test", "block", "wait"} ~> world \in {"alone", "cancel"}

\* deactivate() joins every worker.
DeactivateEnds == token ~> world = "done"
=============================================================================
