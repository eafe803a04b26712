----------------------- MODULE DatabaseWorkerPool_proofs -----------------------
(****************************************************************************)
(* For any number of workers, attempts and operations: operations are       *)
(* executed on open connections, with one worker in the order in which they *)
(* came, and all of them before the pool is closed; and no callback is lost *)
(* or run twice.                                                            *)
(****************************************************************************)
EXTENDS DatabaseWorkerPool, SequenceTheorems, TLAPS

\* The pool is in use, or was.
Used == loader \in {"ready", "closing", "closed"}

\* What holds before the pool is used, and after its queue was cancelled.
PhaseSound ==
  /\ ~Used => made = 0 /\ executed = {} /\ queue = << >>
  /\ ~Used \/ cancelled => \A w \in Workers : worker[w] # "busy"
  /\ loader = "error" /\ error # "old" => cancelled
  /\ shutdown => loader \in {"closing", "closed"}
  /\ turn # Nobody => loader = "ready"
  /\ turn = Nobody => updateCallbacks = << >> /\ kept = << >>

\* Attempts to open the pool before this one.
Before == tries + (IF created THEN 1 ELSE 0)

\* The first k workers have been started; in a pool that opened at the first attempt there
\* is one for each connection.
StartedTo(k) == \A w \in Workers : worker[w] # "none" <=> w <= k
AsManyAs(k) ==
  /\ loader = "async" => k <= threads * Before + opened
  /\ loader \in {"synch", "error"} => k <= threads * (Before + 1)
  /\ ~cancelled /\ loader = "async" => k = opened
  /\ ~cancelled /\ (loader = "synch" \/ Used) => k = threads
Counted == \E k \in Nat : StartedTo(k) /\ AsManyAs(k)

\* A worker that may take an operation has an open connection, and one that has left found
\* nothing more to do.
WorkerSound(w) ==
  /\ loader \in {"async", "synch"} \/ Used => (worker[w] \in {"idle", "busy"} => w \in connected)
  /\ worker[w] = "left" => shutdown /\ queue = << >>
  /\ loader = "closing" => (worker[w] \in {"idle", "busy"} => w \in dying)
  /\ loader = "closed" => worker[w] \in {"none", "left"}
WorkersSound == ~cancelled => \A w \in Workers : WorkerSound(w)

\* The operations are taken in order.
Taken == made - Len(queue)
InOrder == Len(queue) <= made /\ \A i \in 1..Len(queue) : queue[i] = Taken + i
Executes(w, x) == worker[w] = "busy" /\ operation[w] = x
Accounted ==
  /\ \A x \in Ops : x <= Taken => x \in executed \/ \E w \in Workers : Executes(w, x)
  /\ \A x \in executed : x <= Taken
  /\ \A w \in Workers : worker[w] = "busy" => operation[w] \in Ops /\ operation[w] <= Taken

\* The callbacks that wait are of different queries, which were asked before.
Once(s) == \A i, j \in 1..Len(s) : s[i].op = s[j].op => i = j
Apart ==
  /\ \A o \in Owners : /\ Once(callbacks[o])
                       /\ OpsOf(callbacks[o]) \cap (OpsOf(updateCallbacks) \cup OpsOf(kept)) = {}
  /\ \A o, p \in Owners : o # p => OpsOf(callbacks[o]) \cap OpsOf(callbacks[p]) = {}
  /\ Once(updateCallbacks) /\ Once(kept) /\ OpsOf(updateCallbacks) \cap OpsOf(kept) = {}
Results == asked \subseteq 1..made /\ NoneForgotten /\ Apart

Inv ==
  /\ TypeOK /\ PhaseSound /\ Counted /\ WorkersSound /\ InOrder /\ Accounted /\ OneByOne /\ Results

-----------------------------------------------------------------------------
(****************************************************************************)
(* Workers are enough for all attempts.                                     *)
(****************************************************************************)

LastWorker == MaxThreads * (Attempts + 2)

\* Products of naturals are monotonic.
LEMMA ProductMonotonic ==
  ASSUME NEW a \in Nat, NEW b \in Nat, NEW c \in Nat, NEW d \in Nat, a <= b, c <= d
  PROVE  a * c <= b * d
<1>1. a * d = a * c + a * (d - c) /\ b * d = a * d + (b - a) * d
  OBVIOUS
<1>2. a * (d - c) >= 0 /\ (b - a) * d >= 0
  OBVIOUS
<1>3. a * c \in Int /\ a * d \in Int /\ b * d \in Int /\ a * (d - c) \in Int /\ (b - a) * d \in Int
  OBVIOUS
<1> QED BY <1>1, <1>2, <1>3

\* A connection that is still to be made has a worker that was never started.
LEMMA EnoughWorkers ==
  ASSUME PoolAssumption, TypeOK, NEW k \in Nat, AsManyAs(k), loader = "async", Fewer
  PROVE  k < LastWorker /\ k + 1 <= threads * (Before + 1)
<1>1. /\ threads \in Nat /\ threads <= MaxThreads /\ MaxThreads \in Nat
      /\ Before \in Nat /\ Before + 1 <= Attempts + 2 /\ Attempts \in Nat
  BY DEF TypeOK, PoolAssumption, Before
<1>2. k <= threads * Before + opened /\ opened < threads /\ opened \in Nat
  BY DEF AsManyAs, TypeOK, Fewer
<1> HIDE DEF Before
<1>3. threads * (Before + 1) <= LastWorker
  BY <1>1, ProductMonotonic DEF LastWorker
<1>4. threads * (Before + 1) = threads * Before + threads
  BY <1>1
<1>5. threads * Before \in Nat /\ LastWorker \in Nat
  BY <1>1 DEF LastWorker
<1> QED BY <1>1, <1>2, <1>3, <1>4, <1>5

\* The next worker is the first that was never started.
LEMMA FreshIsNext ==
  ASSUME PoolAssumption, NEW k \in Nat, StartedTo(k), k < LastWorker
  PROVE  Fresh = k + 1 /\ Fresh \in Workers
<1> DEFINE T == {w \in Workers : worker[w] = "none"}
<1>1. LastWorker \in Nat /\ Workers = 1..LastWorker
  BY DEF PoolAssumption, LastWorker, Workers
<1>2. k + 1 \in T /\ \A w \in T : k + 1 <= w
  BY <1>1 DEF StartedTo
<1>3. T \subseteq Int
  BY <1>1
<1> HIDE DEF T
<1>4. Min(T) \in T /\ \A w \in T : Min(T) <= w
  BY <1>2 DEF Min
<1>5. Min(T) = k + 1
  <2>1. Min(T) <= k + 1 /\ k + 1 <= Min(T)
    BY <1>2, <1>4
  <2>2. Min(T) \in Int /\ k + 1 \in Int
    BY <1>2, <1>3, <1>4
  <2> QED BY <2>1, <2>2
<1> QED BY <1>2, <1>5 DEF Fresh, T

\* So it is for every connection the loader makes.
LEMMA FreshExists ==
  ASSUME PoolAssumption, Inv, loader = "async", Fewer
  PROVE  Fresh \in Workers /\ worker[Fresh] = "none"
<1>1. PICK k \in Nat : StartedTo(k) /\ AsManyAs(k)
  BY DEF Inv, Counted
<1>2. k < LastWorker
  BY <1>1, EnoughWorkers DEF Inv
<1>3. Fresh = k + 1 /\ Fresh \in Workers
  BY <1>1, <1>2, FreshIsNext
<1> QED BY <1>1, <1>3 DEF StartedTo

-----------------------------------------------------------------------------
(****************************************************************************)
(* Every conjunct of Inv is kept by every step.                             *)
(****************************************************************************)

\* The loader and the workers leave the callbacks alone, and enqueue nothing.
PoolStep ==
  \/ Opens \/ Recovers \/ Destroys \/ ServerChanges \/ Close
  \/ \E w \in Workers : Works(w)

\* What a step of the pool leaves alone.
LEMMA PoolStepLeaves ==
  ASSUME PoolStep
  PROVE  UNCHANGED <<made, results>>
<1>1. CASE Opens
  BY <1>1 DEF Opens, ConnectAsync, AsyncDone, AsyncFails, AsyncIncompatible, SynchOpens, SynchFails
<1>2. CASE Recovers
  BY <1>2 DEF Recovers, Retry, CreateDatabase, GiveUp, Destructor, Closed
<1>3. CASE Destroys \/ ServerChanges \/ Close
  BY <1>3 DEF Destroys, CloseConnection, ServerChanges, Close
<1>4. CASE \E w \in Workers : Works(w)
  BY <1>4 DEF Works, Take, Finish, Leave
<1> QED BY <1>1, <1>2, <1>3, <1>4 DEF PoolStep

\* The world thread leaves the loader and the workers alone.
WorldStep ==
  \/ Execute \/ Runs
  \/ \E o \in Owners : Process(o) \/ Forget(o) \/ \E n \in 1..MaxChain : AsyncQuery(o, n)

Quiet == UNCHANGED <<made, queue>>

\* What a step of the world thread leaves alone.
LEMMA WorldStepLeaves ==
  ASSUME WorldStep
  PROVE  /\ UNCHANGED <<opening, worker, operation, connected, dying, cancelled, shutdown, executed>>
         /\ Enqueue \/ Quiet
<1>1. CASE Execute
  BY <1>1 DEF Execute
<1>2. CASE Runs
  BY <1>2 DEF Runs, NotReady, InvokeLast, InvokeNext, InvokeAsks, Processed, pool, Quiet
<1>3. ASSUME NEW o \in Owners, Process(o) \/ Forget(o)
      PROVE  UNCHANGED <<opening, pool, made, executed>>
  BY <1>3 DEF Process, Forget
<1>4. ASSUME NEW o \in Owners, NEW n \in 1..MaxChain, AsyncQuery(o, n)
      PROVE  /\ UNCHANGED <<opening, worker, operation, connected, dying, cancelled, shutdown, executed>>
             /\ Enqueue
  BY <1>4 DEF AsyncQuery
<1> QED BY <1>1, <1>2, <1>3, <1>4 DEF WorldStep, pool, Quiet

\* Every step is one of the two.
LEMMA Steps == ASSUME Next PROVE PoolStep \/ WorldStep
BY DEF Next, PoolStep, WorldStep

-----------------------------------------------------------------------------

LoaderType ==
  /\ server \in Servers /\ loader \in Phases /\ error \in Servers \cup {"none"}
  /\ tries \in 0..Attempts /\ created \in BOOLEAN
  /\ threads \in 1..MaxThreads /\ opened \in 0..threads
WorkersType ==
  /\ worker \in [Workers -> {"none", "idle", "busy", "left"}]
  /\ operation \in [Workers -> Ops \cup {0}]
  /\ connected \subseteq Workers /\ dying \subseteq Workers
  /\ executed \subseteq Ops /\ cancelled \in BOOLEAN /\ shutdown \in BOOLEAN
QueueType == queue \in Seq(Ops) /\ made \in 0..MaxOps
ResultsType ==
  /\ callbacks \in [Owners -> Seq(Callbacks)] /\ turn \in Owners \cup {Nobody}
  /\ updateCallbacks \in Seq(Callbacks) /\ kept \in Seq(Callbacks)
  /\ asked \subseteq Ops /\ delivered \subseteq Ops /\ dropped \subseteq Ops

\* The parts of the type invariant.
LEMMA TypeParts == TypeOK <=> LoaderType /\ WorkersType /\ QueueType /\ ResultsType
BY DEF TypeOK, LoaderType, WorkersType, QueueType, ResultsType

\* The numbers that the bounds are made of.
LEMMA Numbers ==
  ASSUME PoolAssumption
  PROVE  MaxThreads \in Nat /\ Attempts \in Nat /\ MaxOps \in Nat /\ MaxChain \in Nat
BY DEF PoolAssumption

\* Opening keeps the types,
LEMMA OpensType ==
  ASSUME PoolAssumption, Inv, Opens
  PROVE  LoaderType' /\ WorkersType' /\ QueueType'
<1> LoaderType /\ WorkersType /\ QueueType /\ ResultsType
  BY TypeParts DEF Inv
<1>1. LoaderType'
  <2>1. CASE ConnectAsync
    BY <2>1 DEF ConnectAsync, LoaderType, Fewer
  <2>2. CASE AsyncDone
    BY <2>2 DEF AsyncDone, LoaderType, Phases
  <2>3. CASE AsyncFails \/ AsyncIncompatible
    BY <2>3 DEF AsyncFails, AsyncIncompatible, LoaderType, Phases, Servers
  <2>4. CASE SynchOpens
    <3>1. 0 \in 0..Attempts
      BY Numbers
    <3> QED BY <2>4, <3>1 DEF SynchOpens, LoaderType, Phases
  <2>5. CASE SynchFails
    BY <2>5 DEF SynchFails, LoaderType, Phases
  <2> QED BY <2>1, <2>2, <2>3, <2>4, <2>5 DEF Opens
<1>2. WorkersType'
  <2>1. CASE ConnectAsync \/ AsyncFails \/ AsyncIncompatible
    <3>1. Fresh \in Workers
      BY <2>1, FreshExists DEF ConnectAsync, AsyncFails, AsyncIncompatible
    <3> QED BY <2>1, <3>1 DEF ConnectAsync, AsyncFails, AsyncIncompatible, Cancel, Started, WorkersType
  <2>2. CASE AsyncDone \/ SynchOpens
    BY <2>2 DEF AsyncDone, SynchOpens, WorkersType, pool
  <2>3. CASE SynchFails
    BY <2>3 DEF SynchFails, WorkersType
  <2> QED BY <2>1, <2>2, <2>3 DEF Opens
<1>3. QueueType'
  <2>1. CASE AsyncFails
    BY <2>1 DEF AsyncFails, QueueType
  <2>2. CASE ConnectAsync \/ AsyncDone \/ AsyncIncompatible \/ SynchOpens \/ SynchFails
    BY <2>2 DEF ConnectAsync, AsyncDone, AsyncIncompatible, SynchOpens, SynchFails, pool, QueueType
  <2> QED BY <2>1, <2>2 DEF Opens
<1> QED BY <1>1, <1>2, <1>3

\* so do the recovery from errors and the end,
LEMMA OtherPoolType ==
  ASSUME PoolAssumption, Inv, Recovers \/ Destroys \/ ServerChanges \/ Close
  PROVE  LoaderType' /\ WorkersType' /\ QueueType'
<1> LoaderType /\ WorkersType /\ QueueType /\ ResultsType
  BY TypeParts DEF Inv
<1>1. LoaderType'
  <2>1. CASE Retry
    BY <2>1, Numbers DEF Retry, Reopen, LoaderType, Phases
  <2>2. CASE CreateDatabase
    BY <2>2 DEF CreateDatabase, Reopen, LoaderType, Phases, Servers
  <2>3. CASE GiveUp \/ Destructor \/ Closed \/ Close
    BY <2>3 DEF GiveUp, Destructor, Closed, Close, LoaderType, Phases
  <2>4. CASE ServerChanges
    BY <2>4 DEF ServerChanges, LoaderType
  <2>5. CASE Destroys
    BY <2>5 DEF Destroys, CloseConnection, opening, LoaderType
  <2> QED BY <2>1, <2>2, <2>3, <2>4, <2>5 DEF Recovers
<1>2. WorkersType' /\ QueueType'
  <2>1. CASE Destructor
    BY <2>1 DEF Destructor, Cancel, WorkersType, QueueType
  <2>2. CASE Destroys
    BY <2>2 DEF Destroys, CloseConnection, WorkersType, QueueType
  <2>3. CASE Close
    BY <2>3 DEF Close, WorkersType, QueueType
  <2>4. CASE Retry \/ CreateDatabase \/ GiveUp \/ Closed \/ ServerChanges
    BY <2>4 DEF Retry, CreateDatabase, GiveUp, Closed, ServerChanges, pool, WorkersType, QueueType
  <2> QED BY <2>1, <2>2, <2>3, <2>4 DEF Recovers
<1> QED BY <1>1, <1>2

\* and the workers.
LEMMA WorksType ==
  ASSUME Inv, NEW w \in Workers, Works(w)
  PROVE  LoaderType' /\ WorkersType' /\ QueueType'
<1> LoaderType /\ WorkersType /\ QueueType /\ ResultsType
  BY TypeParts DEF Inv
<1>1. LoaderType'
  BY DEF Works, Take, Finish, Leave, opening, LoaderType
<1>2. CASE Take(w)
  <2>1. Head(queue) \in Ops /\ Tail(queue) \in Seq(Ops)
    BY <1>2, HeadTailProperties DEF Take, QueueType
  <2> QED BY <1>1, <1>2, <2>1 DEF Take, WorkersType, QueueType
<1>3. CASE Finish(w)
  <2>1. operation[w] \in Ops
    BY <1>3 DEF Finish, Inv, Accounted
  <2> QED BY <1>1, <1>3, <2>1 DEF Finish, WorkersType, QueueType
<1>4. CASE Leave(w)
  BY <1>1, <1>4 DEF Leave, WorkersType, QueueType
<1> QED BY <1>2, <1>3, <1>4 DEF Works

\* Enqueue keeps within the bound.
LEMMA EnqueueType ==
  ASSUME PoolAssumption, QueueType, Enqueue
  PROVE  /\ QueueType' /\ Next1 \in Ops /\ Len(queue') = Len(queue) + 1
         /\ \A i \in 1..Len(queue') : queue'[i] = IF i <= Len(queue) THEN queue[i] ELSE Next1
<1>1. Next1 \in Ops /\ made' \in 0..MaxOps
  BY Numbers DEF Enqueue, QueueType, Ops, Next1
<1>2. queue \in Seq(Ops) /\ queue' = Append(queue, Next1)
  BY DEF Enqueue, QueueType
<1>3. Len(queue) \in Nat
  BY <1>2, LenProperties
<1>4. /\ queue' \in Seq(Ops) /\ Len(queue') = Len(queue) + 1
      /\ \A i \in 1..Len(queue) : queue'[i] = queue[i]
      /\ queue'[Len(queue) + 1] = Next1
  BY <1>1, <1>2, AppendProperties
<1>5. ASSUME NEW i \in 1..Len(queue')
      PROVE  queue'[i] = IF i <= Len(queue) THEN queue[i] ELSE Next1
  <2>1. i \in 1..Len(queue) \/ i = Len(queue) + 1
    BY <1>3, <1>4
  <2> QED BY <1>3, <1>4, <2>1
<1> QED BY <1>1, <1>4, <1>5 DEF QueueType

\* So does everything the world thread does.
LEMMA WorldType ==
  ASSUME PoolAssumption, Inv, WorldStep
  PROVE  LoaderType' /\ WorkersType' /\ QueueType'
<1> LoaderType /\ WorkersType /\ QueueType /\ ResultsType
  BY TypeParts DEF Inv
<1>1. QueueType'
  BY WorldStepLeaves, EnqueueType DEF Quiet, QueueType
<1> QED BY <1>1, WorldStepLeaves DEF LoaderType, WorkersType, opening

-----------------------------------------------------------------------------
(****************************************************************************)
(* Callbacks: what is added, moved and run stays of different queries.      *)
(****************************************************************************)

\* Without callbacks there are no queries.
LEMMA NoOps == OpsOf(<< >>) = {} /\ Once(<< >>)
BY DEF OpsOf, Once

\* What a callback adds to a sequence.
LEMMA OpsOfAppend ==
  ASSUME NEW s \in Seq(Callbacks), NEW c \in Callbacks
  PROVE  /\ Append(s, c) \in Seq(Callbacks) /\ OpsOf(Append(s, c)) = OpsOf(s) \cup {c.op}
         /\ Once(s) /\ c.op \notin OpsOf(s) => Once(Append(s, c))
<1> DEFINE t == Append(s, c)
<1>1. Len(s) \in Nat
  BY LenProperties
<1>2. /\ t \in Seq(Callbacks) /\ Len(t) = Len(s) + 1
      /\ \A i \in 1..Len(s) : t[i] = s[i]
      /\ t[Len(s) + 1] = c
  BY AppendProperties
<1> HIDE DEF t
<1>3. 1..Len(t) = 1..Len(s) \cup {Len(s) + 1} /\ Len(s) + 1 \notin 1..Len(s)
  BY <1>1, <1>2
<1>4. OpsOf(t) = OpsOf(s) \cup {c.op}
  BY <1>2, <1>3 DEF OpsOf
<1>5. ASSUME Once(s), c.op \notin OpsOf(s) PROVE Once(t)
  BY <1>2, <1>3, <1>5 DEF Once, OpsOf
<1> QED BY <1>2, <1>4, <1>5 DEF t

\* What the first callback takes from a sequence.
LEMMA OpsOfTail ==
  ASSUME NEW s \in Seq(Callbacks), s # << >>
  PROVE  /\ Head(s) \in Callbacks /\ Tail(s) \in Seq(Callbacks)
         /\ OpsOf(s) = {Head(s).op} \cup OpsOf(Tail(s))
         /\ Once(s) => Once(Tail(s)) /\ Head(s).op \notin OpsOf(Tail(s))
<1> DEFINE t == Tail(s)
<1>1. /\ Head(s) \in Callbacks /\ Head(s) = s[1] /\ t \in Seq(Callbacks) /\ Len(t) = Len(s) - 1
      /\ \A i \in 1..Len(t) : t[i] = s[i + 1]
  BY HeadTailProperties
<1>2. Len(s) \in Nat /\ Len(s) > 0
  BY LenProperties, EmptySeq
<1> HIDE DEF t
<1>3. \A i \in 1..Len(t) : i + 1 \in 1..Len(s) /\ i + 1 # 1
  BY <1>1, <1>2
<1>4. \A i \in 1..Len(s) : i = 1 \/ (i - 1 \in 1..Len(t) /\ (i - 1) + 1 = i)
  BY <1>1, <1>2
<1>5. 1 \in 1..Len(s)
  BY <1>2
<1>6. OpsOf(s) = {Head(s).op} \cup OpsOf(t)
  <2>1. \A i \in 1..Len(s) : s[i].op \in {Head(s).op} \cup OpsOf(t)
    <3> SUFFICES ASSUME NEW i \in 1..Len(s), i # 1 PROVE s[i].op \in OpsOf(t)
      BY <1>1
    <3>1. i - 1 \in 1..Len(t) /\ t[i - 1] = s[i]
      BY <1>1, <1>4
    <3> QED BY <3>1 DEF OpsOf
  <2>2. \A i \in 1..Len(t) : t[i].op \in OpsOf(s)
    BY <1>1, <1>3 DEF OpsOf
  <2>3. Head(s).op \in OpsOf(s)
    BY <1>1, <1>5 DEF OpsOf
  <2> QED BY <2>1, <2>2, <2>3 DEF OpsOf
<1>7. ASSUME Once(s) PROVE Once(t)
  <2> SUFFICES ASSUME NEW i \in 1..Len(t), NEW j \in 1..Len(t), t[i].op = t[j].op PROVE i = j
    BY DEF Once
  <2>1. i + 1 \in 1..Len(s) /\ j + 1 \in 1..Len(s) /\ s[i + 1].op = s[j + 1].op
    BY <1>1, <1>3
  <2>2. i + 1 = j + 1
    BY <1>7, <2>1 DEF Once
  <2> QED BY <2>2
<1>8. ASSUME Once(s) PROVE Head(s).op \notin OpsOf(t)
  <2> SUFFICES ASSUME NEW i \in 1..Len(t), t[i].op = s[1].op PROVE FALSE
    BY <1>1 DEF OpsOf
  <2>1. i + 1 = 1
    BY <1>1, <1>3, <1>5, <1>8 DEF Once
  <2> QED BY <1>3, <2>1
<1> QED BY <1>1, <1>6, <1>7, <1>8 DEF t

\* The queries of two sequences, joined.
LEMMA OpsOfConcat ==
  ASSUME NEW s \in Seq(Callbacks), NEW u \in Seq(Callbacks)
  PROVE  /\ s \o u \in Seq(Callbacks) /\ OpsOf(s \o u) = OpsOf(s) \cup OpsOf(u)
         /\ Once(s) /\ Once(u) /\ OpsOf(s) \cap OpsOf(u) = {} => Once(s \o u)
<1> DEFINE t == s \o u
<1>1. Len(s) \in Nat /\ Len(u) \in Nat
  BY LenProperties
<1>2. /\ t \in Seq(Callbacks) /\ Len(t) = Len(s) + Len(u)
      /\ \A i \in 1..(Len(s) + Len(u)) : t[i] = IF i <= Len(s) THEN s[i] ELSE u[i - Len(s)]
  BY ConcatProperties
<1> HIDE DEF t
<1>3. \A i \in 1..Len(s) : i \in 1..Len(t) /\ t[i] = s[i]
  BY <1>1, <1>2
<1>4. ASSUME NEW i \in 1..Len(u) PROVE i + Len(s) \in 1..Len(t) /\ t[i + Len(s)] = u[i]
  <2>1. i + Len(s) \in 1..(Len(s) + Len(u)) /\ ~ (i + Len(s) <= Len(s)) /\ (i + Len(s)) - Len(s) = i
    BY <1>1
  <2>2. t[i + Len(s)] = u[(i + Len(s)) - Len(s)]
    BY <1>2, <2>1
  <2> QED BY <1>2, <2>1, <2>2
<1>5. ASSUME NEW i \in 1..Len(t)
      PROVE  \/ i \in 1..Len(s) /\ t[i] = s[i]
             \/ i - Len(s) \in 1..Len(u) /\ t[i] = u[i - Len(s)]
  BY <1>1, <1>2
<1>6. OpsOf(t) = OpsOf(s) \cup OpsOf(u)
  <2>1. OpsOf(t) \subseteq OpsOf(s) \cup OpsOf(u)
    BY <1>5 DEF OpsOf
  <2>2. OpsOf(s) \subseteq OpsOf(t)
    BY <1>3 DEF OpsOf
  <2>3. OpsOf(u) \subseteq OpsOf(t)
    BY <1>4 DEF OpsOf
  <2> QED BY <2>1, <2>2, <2>3
<1>7. ASSUME Once(s), Once(u), OpsOf(s) \cap OpsOf(u) = {} PROVE Once(t)
  <2> SUFFICES ASSUME NEW i \in 1..Len(t), NEW j \in 1..Len(t), t[i].op = t[j].op PROVE i = j
    BY DEF Once
  <2>1. CASE i \in 1..Len(s) /\ t[i] = s[i] /\ j \in 1..Len(s) /\ t[j] = s[j]
    BY <1>7, <2>1 DEF Once
  <2>2. CASE /\ i - Len(s) \in 1..Len(u) /\ t[i] = u[i - Len(s)]
             /\ j - Len(s) \in 1..Len(u) /\ t[j] = u[j - Len(s)]
    <3>1. i - Len(s) = j - Len(s)
      BY <1>7, <2>2 DEF Once
    <3> QED BY <1>1, <3>1
  <2>3. ASSUME NEW k \in 1..Len(s), NEW l \in 1..Len(u), s[k].op = u[l].op PROVE FALSE
    BY <1>7, <2>3 DEF OpsOf
  <2>4. CASE i \in 1..Len(s) /\ t[i] = s[i] /\ j - Len(s) \in 1..Len(u) /\ t[j] = u[j - Len(s)]
    BY <2>3, <2>4
  <2>5. CASE j \in 1..Len(s) /\ t[j] = s[j] /\ i - Len(s) \in 1..Len(u) /\ t[i] = u[i - Len(s)]
    BY <2>3, <2>5
  <2> QED BY <1>5, <2>1, <2>2, <2>4, <2>5
<1> QED BY <1>2, <1>6, <1>7 DEF t

-----------------------------------------------------------------------------

\* What is known of the callbacks, and what is to be shown of them.
Typed == QueueType /\ ResultsType
Sound == Results /\ (turn = Nobody => updateCallbacks = << >> /\ kept = << >>)

\* Where a query may wait.
WaitsIn(x) ==
  \/ \E o \in Owners : x \in OpsOf(callbacks[o])
  \/ x \in OpsOf(updateCallbacks) \/ x \in OpsOf(kept)

\* Membership, spelled out.
LEMMA InUnion ==
  ASSUME NEW cb, NEW A, NEW B, NEW x
  PROVE  x \in (UNION {OpsOf(cb[o]) : o \in Owners}) \cup A \cup B
           <=> (\E o \in Owners : x \in OpsOf(cb[o])) \/ x \in A \/ x \in B
<1>1. x \in UNION {OpsOf(cb[o]) : o \in Owners} <=> \E o \in Owners : x \in OpsOf(cb[o])
  BY Zenon
<1> QED BY <1>1

\* A query waits if it waits in one of these places.
LEMMA WaitingIs ==
  /\ \A x : x \in Waiting <=> WaitsIn(x)
  /\ \A x : x \in Waiting' <=> WaitsIn(x)'
<1>1. ASSUME NEW x PROVE x \in Waiting <=> WaitsIn(x)
  <2>1. x \in (UNION {OpsOf(callbacks[o]) : o \in Owners})
                \cup OpsOf(updateCallbacks) \cup OpsOf(kept) <=> WaitsIn(x)
    BY InUnion DEF WaitsIn
  <2> QED BY <2>1, Zenon DEF Waiting
<1>2. ASSUME NEW x PROVE x \in Waiting' <=> WaitsIn(x)'
  <2>1. x \in (UNION {OpsOf(callbacks'[o]) : o \in Owners})
                \cup OpsOf(updateCallbacks') \cup OpsOf(kept') <=> WaitsIn(x)'
    BY InUnion DEF WaitsIn
  <2> QED BY <2>1, Zenon DEF Waiting
<1> QED BY <1>1, <1>2

\* An operation without a result concerns no callback.
LEMMA ExecuteSound ==
  ASSUME PoolAssumption, Typed, Sound, Execute PROVE ResultsType' /\ Results'
<1>1. UNCHANGED results /\ made' = made + 1
  BY DEF Execute, Enqueue, Next1
<1>2. made \in Nat
  BY Numbers DEF Typed, QueueType
<1>3. asked' \subseteq 1..made'
  BY <1>1, <1>2 DEF results, Sound, Results
<1>4. ResultsType' /\ Apart'
  BY <1>1 DEF results, Typed, Sound, ResultsType, Results, Apart
<1>5. Waiting' = Waiting
  BY <1>1 DEF results, Waiting
<1> QED BY <1>1, <1>3, <1>4, <1>5 DEF results, Sound, Results, NoneForgotten

\* A query is a new one.
LEMMA NextIsNew ==
  ASSUME PoolAssumption, Typed, Sound, Enqueue, NEW n \in 1..MaxChain
  PROVE  /\ New(n) \in Callbacks /\ New(n).op = Next1 /\ Next1 \in Ops
         /\ Next1 \notin asked /\ Next1 \notin Waiting /\ Next1 \notin delivered
         /\ asked \cup {Next1} \subseteq 1..made'
<1>1. Next1 \in Ops
  BY EnqueueType DEF Typed
<1>2. New(n) \in Callbacks /\ New(n).op = Next1
  BY <1>1 DEF New, Callbacks
<1>3. made \in Nat /\ made' = made + 1 /\ Next1 = made + 1 /\ asked \subseteq 1..made
  BY Numbers DEF Typed, QueueType, Enqueue, Next1, Sound, Results
<1>4. Next1 \notin asked /\ asked \cup {Next1} \subseteq 1..made'
  BY <1>3
<1> QED BY <1>1, <1>2, <1>4 DEF Sound, Results, NoneForgotten

\* A query of owner o joins his callbacks.
Joins(o, x) ==
  /\ callbacks' \in [Owners -> Seq(Callbacks)]
  /\ \A p \in Owners : p # o => callbacks'[p] = callbacks[p]
  /\ OpsOf(callbacks'[o]) = OpsOf(callbacks[o]) \cup {x} /\ Once(callbacks'[o])

\* Appending a callback makes its query join.
LEMMA AppendedJoins ==
  ASSUME Typed, Sound, NEW o \in Owners, NEW c \in Callbacks, c.op \notin Waiting,
         callbacks' = [callbacks EXCEPT ![o] = Append(@, c)]
  PROVE  Joins(o, c.op)
<1>1. callbacks[o] \in Seq(Callbacks) /\ callbacks \in [Owners -> Seq(Callbacks)]
  BY DEF Typed, ResultsType
<1>2. Once(callbacks[o]) /\ c.op \notin OpsOf(callbacks[o])
  BY DEF Sound, Results, Apart, Waiting
<1>3. /\ Append(callbacks[o], c) \in Seq(Callbacks)
      /\ OpsOf(Append(callbacks[o], c)) = OpsOf(callbacks[o]) \cup {c.op}
      /\ Once(Append(callbacks[o], c))
  BY <1>1, <1>2, OpsOfAppend
<1>4. callbacks'[o] = Append(callbacks[o], c)
  BY <1>1
<1> QED BY <1>1, <1>3, <1>4 DEF Joins

\* A query that joins leaves the others apart.
LEMMA JoinsApart ==
  ASSUME Apart, NEW o \in Owners, NEW x, Joins(o, x), ~ WaitsIn(x),
         UNCHANGED <<updateCallbacks, kept>>
  PROVE  Apart'
<1>1. \A p \in Owners : OpsOf(callbacks'[p]) \subseteq OpsOf(callbacks[p]) \cup {x} /\ Once(callbacks'[p])
  BY DEF Joins, Apart
<1>2. \A p \in Owners : p # o => OpsOf(callbacks'[p]) = OpsOf(callbacks[p])
  BY DEF Joins
<1>3. \A p \in Owners : OpsOf(callbacks'[p]) \cap (OpsOf(updateCallbacks) \cup OpsOf(kept)) = {}
  BY <1>1 DEF Apart, WaitsIn
<1>4. \A p, q \in Owners : p # q => OpsOf(callbacks'[p]) \cap OpsOf(callbacks'[q]) = {}
  <2> SUFFICES ASSUME NEW p \in Owners, NEW q \in Owners, p # q,
                      NEW y, y \in OpsOf(callbacks'[p]), y \in OpsOf(callbacks'[q])
               PROVE  FALSE
    OBVIOUS
  <2>1. y # x
    BY <1>2 DEF WaitsIn
  <2>2. y \in OpsOf(callbacks[p]) /\ y \in OpsOf(callbacks[q])
    BY <1>1, <2>1
  <2> QED BY <2>2 DEF Apart
<1> QED BY <1>1, <1>3, <1>4 DEF Apart

\* A query is asked.
LEMMA AsyncQuerySound ==
  ASSUME PoolAssumption, Typed, Sound, NEW o \in Owners, NEW n \in 1..MaxChain, AsyncQuery(o, n)
  PROVE  ResultsType' /\ Results'
<1> DEFINE x == Next1
<1>1. /\ Enqueue /\ asked' = asked \cup {x} /\ callbacks' = [callbacks EXCEPT ![o] = Append(@, New(n))]
      /\ UNCHANGED <<turn, updateCallbacks, kept, delivered, dropped>>
  BY DEF AsyncQuery
<1>2. /\ New(n) \in Callbacks /\ New(n).op = x /\ x \in Ops /\ x \notin asked /\ x \notin Waiting
      /\ x \notin delivered /\ asked' \subseteq 1..made'
  BY <1>1, NextIsNew
<1> HIDE DEF x
<1>3. Joins(o, x)
  BY <1>1, <1>2, AppendedJoins
<1>4. ResultsType'
  BY <1>1, <1>2, <1>3 DEF Typed, ResultsType, Joins
<1>5. Waiting' = Waiting \cup {x}
  BY <1>1, <1>3 DEF Waiting, Joins
<1>6. NoneForgotten'
  BY <1>1, <1>2, <1>5 DEF Sound, Results, NoneForgotten
<1>7. ~ WaitsIn(x)
  BY <1>2, WaitingIs
<1>8. Apart'
  BY <1>1, <1>3, <1>7, JoinsApart DEF Sound, Results
<1> QED BY <1>2, <1>4, <1>6, <1>8 DEF Results

\* The callbacks of an owner are moved away.
LEMMA ProcessSound ==
  ASSUME Typed, Sound, NEW o \in Owners, Process(o)
  PROVE  ResultsType' /\ Results'
<1>1. /\ updateCallbacks' = callbacks[o] /\ callbacks' = [callbacks EXCEPT ![o] = << >>] /\ turn' = o
      /\ updateCallbacks = << >> /\ kept = << >>
      /\ UNCHANGED <<made, kept, asked, delivered, dropped>>
  BY DEF Process, Sound
<1>2. /\ callbacks \in [Owners -> Seq(Callbacks)] /\ callbacks'[o] = << >>
      /\ \A p \in Owners : p # o => callbacks'[p] = callbacks[p]
  BY <1>1 DEF Typed, ResultsType
<1>3. ResultsType'
  BY <1>1, <1>2 DEF Typed, ResultsType
<1>4. Waiting' = Waiting
  <2>1. \A x : WaitsIn(x)' => WaitsIn(x)
    BY <1>1, <1>2, NoOps DEF WaitsIn
  <2>2. \A x : WaitsIn(x) => WaitsIn(x)'
    BY <1>1, <1>2, NoOps DEF WaitsIn
  <2> QED BY <2>1, <2>2, WaitingIs
<1>5. Apart'
  BY <1>1, <1>2, NoOps DEF Sound, Results, Apart
<1> QED BY <1>1, <1>3, <1>4, <1>5 DEF Sound, Results, NoneForgotten

\* The first of the callbacks at hand.
LEMMA FirstSound ==
  ASSUME Typed, Sound, updateCallbacks # << >>
  PROVE  LET x == Head(updateCallbacks).op IN
         /\ Head(updateCallbacks) \in Callbacks /\ x \in Ops /\ x \in Waiting
         /\ Tail(updateCallbacks) \in Seq(Callbacks) /\ Once(Tail(updateCallbacks))
         /\ OpsOf(updateCallbacks) = {x} \cup OpsOf(Tail(updateCallbacks))
         /\ x \notin OpsOf(Tail(updateCallbacks)) \cup OpsOf(kept)
         /\ \A o \in Owners : x \notin OpsOf(callbacks[o])
         /\ turn \in Owners
<1>1. /\ Head(updateCallbacks) \in Callbacks /\ Tail(updateCallbacks) \in Seq(Callbacks)
      /\ OpsOf(updateCallbacks) = {Head(updateCallbacks).op} \cup OpsOf(Tail(updateCallbacks))
      /\ Once(Tail(updateCallbacks))
      /\ Head(updateCallbacks).op \notin OpsOf(Tail(updateCallbacks))
  BY OpsOfTail DEF Typed, ResultsType, Sound, Results, Apart
<1>2. Head(updateCallbacks).op \in Ops
  BY <1>1 DEF Callbacks
<1>3. turn \in Owners
  BY DEF Typed, ResultsType, Sound
<1>4. /\ Head(updateCallbacks).op \notin OpsOf(kept)
      /\ \A o \in Owners : Head(updateCallbacks).op \notin OpsOf(callbacks[o])
  BY <1>1 DEF Sound, Results, Apart
<1>5. Head(updateCallbacks).op \in Waiting
  BY <1>1, WaitingIs DEF WaitsIn
<1> QED BY <1>1, <1>2, <1>3, <1>4, <1>5

\* A callback whose result is not there is kept.
LEMMA NotReadySound ==
  ASSUME Typed, Sound, NotReady PROVE ResultsType' /\ Results'
<1> DEFINE c == Head(updateCallbacks)
<1>1. /\ updateCallbacks # << >> /\ kept' = Append(kept, c) /\ updateCallbacks' = Tail(updateCallbacks)
      /\ UNCHANGED <<made, callbacks, turn, asked, delivered, dropped>>
  BY DEF NotReady
<1>2. /\ c \in Callbacks /\ updateCallbacks' \in Seq(Callbacks) /\ Once(updateCallbacks')
      /\ OpsOf(updateCallbacks) = {c.op} \cup OpsOf(updateCallbacks')
      /\ c.op \notin OpsOf(updateCallbacks') \cup OpsOf(kept)
      /\ \A o \in Owners : c.op \notin OpsOf(callbacks[o])
  BY <1>1, FirstSound
<1> HIDE DEF c
<1>3. kept' \in Seq(Callbacks) /\ OpsOf(kept') = OpsOf(kept) \cup {c.op} /\ Once(kept')
  BY <1>1, <1>2, OpsOfAppend DEF Typed, ResultsType, Sound, Results, Apart
<1>4. ResultsType'
  BY <1>1, <1>2, <1>3 DEF Typed, ResultsType
<1>5. Waiting' = Waiting
  BY <1>1, <1>2, <1>3 DEF Waiting
<1>6. Apart'
  BY <1>1, <1>2, <1>3 DEF Sound, Results, Apart
<1> QED BY <1>1, <1>4, <1>5, <1>6 DEF Sound, Results, NoneForgotten

\* A callback is run: it waits no more.
LEMMA ReadySound ==
  ASSUME Typed, Sound, Ready
  PROVE  LET x == Head(updateCallbacks).op IN
         /\ x \in Ops /\ x \in Waiting /\ x \in asked /\ delivered' = delivered \cup {x}
         /\ updateCallbacks' \in Seq(Callbacks) /\ Once(updateCallbacks')
         /\ OpsOf(updateCallbacks) = {x} \cup OpsOf(updateCallbacks')
         /\ x \notin OpsOf(updateCallbacks') \cup OpsOf(kept)
         /\ \A o \in Owners : x \notin OpsOf(callbacks[o])
         /\ turn \in Owners
BY FirstSound DEF Ready, Sound, Results, NoneForgotten

\* The callback that is run is the last of its chain,
LEMMA InvokeLastSound ==
  ASSUME Typed, Sound, InvokeLast PROVE ResultsType' /\ Results'
<1> DEFINE x == Head(updateCallbacks).op
<1>1. Ready /\ UNCHANGED <<made, callbacks, turn, kept, asked, dropped>>
  BY DEF InvokeLast
<1>2. /\ x \in Ops /\ x \in Waiting /\ delivered' = delivered \cup {x}
      /\ updateCallbacks' \in Seq(Callbacks) /\ Once(updateCallbacks')
      /\ OpsOf(updateCallbacks) = {x} \cup OpsOf(updateCallbacks')
      /\ x \notin OpsOf(updateCallbacks') \cup OpsOf(kept)
      /\ \A o \in Owners : x \notin OpsOf(callbacks[o])
  BY <1>1, ReadySound
<1> HIDE DEF x
<1>3. ResultsType'
  BY <1>1, <1>2 DEF Typed, ResultsType
<1>4. \A y : y \in Waiting' <=> y \in Waiting /\ y # x
  <2>1. \A y : WaitsIn(y)' <=> WaitsIn(y) /\ y # x
    BY <1>1, <1>2 DEF WaitsIn
  <2> QED BY <2>1, WaitingIs
<1>5. NoneForgotten'
  BY <1>1, <1>2, <1>4 DEF Sound, Results, NoneForgotten
<1>6. Apart'
  BY <1>1, <1>2 DEF Sound, Results, Apart
<1> QED BY <1>1, <1>3, <1>5, <1>6 DEF Sound, Results

\* or its chain goes on with the next query,
LEMMA InvokeNextSound ==
  ASSUME PoolAssumption, Typed, Sound, InvokeNext PROVE ResultsType' /\ Results'
<1> DEFINE x == Head(updateCallbacks).op
           n == Head(updateCallbacks).left - 1
<1>1. /\ Ready /\ Enqueue /\ kept' = Append(kept, New(n)) /\ asked' = asked \cup {Next1}
      /\ Head(updateCallbacks).left > 1 /\ UNCHANGED <<callbacks, turn, dropped>>
  BY DEF InvokeNext
<1>2. /\ x \in Ops /\ x \in Waiting /\ x \in asked /\ delivered' = delivered \cup {x}
      /\ updateCallbacks' \in Seq(Callbacks) /\ Once(updateCallbacks')
      /\ OpsOf(updateCallbacks) = {x} \cup OpsOf(updateCallbacks')
      /\ x \notin OpsOf(updateCallbacks') \cup OpsOf(kept)
      /\ \A o \in Owners : x \notin OpsOf(callbacks[o])
  BY <1>1, ReadySound
<1>3. n \in 1..MaxChain
  <2>1. Head(updateCallbacks) \in Callbacks
    BY <1>1, FirstSound DEF Ready
  <2>2. Head(updateCallbacks).left \in 1..MaxChain
    BY <2>1 DEF Callbacks
  <2> QED BY <1>1, <2>2, Numbers
<1>4. /\ New(n) \in Callbacks /\ New(n).op = Next1 /\ Next1 \in Ops
      /\ Next1 \notin asked /\ Next1 \notin Waiting /\ Next1 \notin delivered
      /\ asked' \subseteq 1..made'
  BY <1>1, <1>3, NextIsNew
<1> HIDE DEF x, n
<1>5. ~ WaitsIn(Next1)
  BY <1>4, WaitingIs
<1>6. kept' \in Seq(Callbacks) /\ OpsOf(kept') = OpsOf(kept) \cup {Next1} /\ Once(kept')
  <2>1. kept \in Seq(Callbacks) /\ Once(kept) /\ Next1 \notin OpsOf(kept)
    BY <1>5 DEF WaitsIn, Typed, ResultsType, Sound, Results, Apart
  <2> QED BY <1>1, <1>4, <2>1, OpsOfAppend
<1>7. ResultsType'
  BY <1>1, <1>2, <1>4, <1>6 DEF Typed, ResultsType
<1>8. \A y : y \in Waiting' <=> (y \in Waiting /\ y # x) \/ y = Next1
  <2>1. x # Next1
    BY <1>2, <1>4
  <2>2. \A y : WaitsIn(y)' <=> (WaitsIn(y) /\ y # x) \/ y = Next1
    BY <1>1, <1>2, <1>6, <2>1 DEF WaitsIn
  <2> QED BY <2>2, WaitingIs
<1>9. NoneForgotten'
  BY <1>1, <1>2, <1>4, <1>8 DEF Sound, Results, NoneForgotten
<1>10. Apart'
  BY <1>1, <1>2, <1>5, <1>6 DEF Sound, Results, Apart, WaitsIn
<1> QED BY <1>4, <1>7, <1>9, <1>10 DEF Results

\* or it asks a query of its own.
LEMMA InvokeAsksSound ==
  ASSUME PoolAssumption, Typed, Sound, NEW n \in 1..MaxChain, InvokeAsks(n)
  PROVE  ResultsType' /\ Results'
<1> DEFINE x == Head(updateCallbacks).op
<1>1. /\ Ready /\ Enqueue /\ callbacks' = [callbacks EXCEPT ![turn] = Append(@, New(n))]
      /\ asked' = asked \cup {Next1} /\ UNCHANGED <<turn, kept, dropped>>
  BY DEF InvokeAsks
<1>2. /\ x \in Ops /\ x \in Waiting /\ x \in asked /\ delivered' = delivered \cup {x}
      /\ updateCallbacks' \in Seq(Callbacks) /\ Once(updateCallbacks')
      /\ OpsOf(updateCallbacks) = {x} \cup OpsOf(updateCallbacks')
      /\ x \notin OpsOf(updateCallbacks') \cup OpsOf(kept)
      /\ \A o \in Owners : x \notin OpsOf(callbacks[o])
      /\ turn \in Owners
  BY <1>1, ReadySound
<1>3. /\ New(n) \in Callbacks /\ New(n).op = Next1 /\ Next1 \in Ops
      /\ Next1 \notin asked /\ Next1 \notin Waiting /\ Next1 \notin delivered
      /\ asked' \subseteq 1..made'
  BY <1>1, NextIsNew
<1> HIDE DEF x
<1>4. ~ WaitsIn(Next1)
  BY <1>3, WaitingIs
<1>5. Joins(turn, Next1)
  BY <1>1, <1>2, <1>3, AppendedJoins
<1>6. ResultsType'
  BY <1>1, <1>2, <1>3, <1>5 DEF Typed, ResultsType, Joins
<1>7. x # Next1
  BY <1>2, <1>3
<1>8. \A y : y \in Waiting' <=> (y \in Waiting /\ y # x) \/ y = Next1
  <2>1. \A y : (\E o \in Owners : y \in OpsOf(callbacks'[o]))
                  <=> (\E o \in Owners : y \in OpsOf(callbacks[o])) \/ y = Next1
    BY <1>2, <1>5 DEF Joins
  <2>2. \A y : WaitsIn(y)' <=> (WaitsIn(y) /\ y # x) \/ y = Next1
    BY <1>1, <1>2, <1>7, <2>1 DEF WaitsIn
  <2> QED BY <2>2, WaitingIs
<1>9. NoneForgotten'
  BY <1>1, <1>2, <1>3, <1>8 DEF Sound, Results, NoneForgotten
<1>10. Apart'
  <2>1. \A p \in Owners : OpsOf(callbacks'[p]) \subseteq OpsOf(callbacks[p]) \cup {Next1} /\ Once(callbacks'[p])
    BY <1>5 DEF Joins, Sound, Results, Apart
  <2>2. Next1 \notin OpsOf(updateCallbacks) \cup OpsOf(kept)
    BY <1>4 DEF WaitsIn
  <2>3. \A p \in Owners : OpsOf(callbacks'[p]) \cap (OpsOf(updateCallbacks') \cup OpsOf(kept')) = {}
    BY <1>1, <1>2, <2>1, <2>2 DEF Sound, Results, Apart
  <2>4. \A p, q \in Owners : p # q => OpsOf(callbacks'[p]) \cap OpsOf(callbacks'[q]) = {}
    <3> SUFFICES ASSUME NEW p \in Owners, NEW q \in Owners, p # q,
                        NEW y, y \in OpsOf(callbacks'[p]), y \in OpsOf(callbacks'[q])
                 PROVE  FALSE
      OBVIOUS
    <3>1. y # Next1
      BY <1>4, <1>5 DEF Joins, WaitsIn
    <3>2. y \in OpsOf(callbacks[p]) /\ y \in OpsOf(callbacks[q])
      BY <2>1, <3>1
    <3> QED BY <3>2 DEF Sound, Results, Apart
  <2> QED BY <1>1, <1>2, <2>1, <2>3, <2>4 DEF Sound, Results, Apart
<1> QED BY <1>3, <1>6, <1>9, <1>10 DEF Results

\* The callbacks that were kept are put back.
LEMMA ProcessedSound ==
  ASSUME Typed, Sound, Processed PROVE ResultsType' /\ Results'
<1>1. /\ turn \in Owners /\ updateCallbacks = << >> /\ kept' = << >> /\ turn' = Nobody
      /\ callbacks' = [callbacks EXCEPT ![turn] = callbacks[turn] \o kept]
      /\ UNCHANGED <<made, updateCallbacks, asked, delivered, dropped>>
  BY DEF Processed, Back, Typed, ResultsType
<1>2. /\ callbacks \in [Owners -> Seq(Callbacks)] /\ callbacks'[turn] = callbacks[turn] \o kept
      /\ \A p \in Owners : p # turn => callbacks'[p] = callbacks[p]
  BY <1>1 DEF Typed, ResultsType
<1>3. /\ callbacks'[turn] \in Seq(Callbacks)
      /\ OpsOf(callbacks'[turn]) = OpsOf(callbacks[turn]) \cup OpsOf(kept)
      /\ Once(callbacks'[turn])
  <2>1. /\ callbacks[turn] \in Seq(Callbacks) /\ kept \in Seq(Callbacks)
        /\ Once(callbacks[turn]) /\ Once(kept) /\ OpsOf(callbacks[turn]) \cap OpsOf(kept) = {}
    BY <1>1 DEF Typed, ResultsType, Sound, Results, Apart
  <2> QED BY <1>2, <2>1, OpsOfConcat
<1>4. ResultsType'
  BY <1>1, <1>3 DEF Typed, ResultsType
<1>5. Waiting' = Waiting
  <2>1. \A y : WaitsIn(y)' <=> WaitsIn(y)
    BY <1>1, <1>2, <1>3, NoOps DEF WaitsIn
  <2> QED BY <2>1, WaitingIs
<1>6. Apart'
  <2>1. \A p \in Owners : Once(callbacks'[p])
    BY <1>2, <1>3 DEF Sound, Results, Apart
  <2>2. \A p, q \in Owners : p # q => OpsOf(callbacks'[p]) \cap OpsOf(callbacks'[q]) = {}
    BY <1>2, <1>3 DEF Sound, Results, Apart
  <2> QED BY <1>1, <2>1, <2>2, NoOps DEF Apart
<1> QED BY <1>1, <1>4, <1>5, <1>6 DEF Sound, Results, NoneForgotten

\* The callbacks of an owner go with it.
LEMMA ForgetSound ==
  ASSUME Typed, Sound, NEW o \in Owners, Forget(o) PROVE ResultsType' /\ Results'
<1>1. /\ dropped' = dropped \cup OpsOf(callbacks[o]) /\ callbacks' = [callbacks EXCEPT ![o] = << >>]
      /\ UNCHANGED <<made, turn, updateCallbacks, kept, asked, delivered>>
  BY DEF Forget
<1>2. /\ callbacks \in [Owners -> Seq(Callbacks)] /\ callbacks'[o] = << >>
      /\ \A p \in Owners : p # o => callbacks'[p] = callbacks[p]
  BY <1>1 DEF Typed, ResultsType
<1>3. OpsOf(callbacks[o]) \subseteq Ops
  <2>1. callbacks[o] \in Seq(Callbacks)
    BY <1>2
  <2>2. \A k \in 1..Len(callbacks[o]) : callbacks[o][k] \in Callbacks
    BY <2>1, ElementOfSeq
  <2> QED BY <2>2 DEF OpsOf, Callbacks
<1>4. ResultsType'
  BY <1>1, <1>2, <1>3 DEF Typed, ResultsType
<1>5. \A y : WaitsIn(y) <=> WaitsIn(y)' \/ y \in OpsOf(callbacks[o])
  BY <1>1, <1>2, NoOps DEF WaitsIn
<1>6. NoneForgotten'
  BY <1>1, <1>5, WaitingIs DEF Sound, Results, NoneForgotten
<1>7. Apart'
  BY <1>1, <1>2, NoOps DEF Sound, Results, Apart
<1> QED BY <1>1, <1>4, <1>6, <1>7 DEF Sound, Results

\* Every step keeps account of the results.
LEMMA ResultsKept ==
  ASSUME PoolAssumption, Inv, [Next]_vars PROVE ResultsType' /\ Results'
<1> Typed /\ Sound
  BY TypeParts DEF Inv, Typed, Sound, PhaseSound
<1>1. CASE PoolStep \/ UNCHANGED vars
  <2>1. UNCHANGED <<made, results>>
    BY <1>1, PoolStepLeaves DEF vars
  <2>2. ResultsType' /\ Apart' /\ Waiting' = Waiting
    BY <2>1 DEF results, Typed, ResultsType, Sound, Results, Apart, Waiting
  <2> QED BY <2>1, <2>2 DEF results, Sound, Results, NoneForgotten
<1>2. CASE Execute
  BY <1>2, ExecuteSound
<1>3. CASE Runs
  BY <1>3, NotReadySound, InvokeLastSound, InvokeNextSound, InvokeAsksSound, ProcessedSound DEF Runs
<1>4. ASSUME NEW o \in Owners, Process(o) \/ Forget(o) \/ \E n \in 1..MaxChain : AsyncQuery(o, n)
      PROVE  ResultsType' /\ Results'
  BY <1>4, ProcessSound, ForgetSound, AsyncQuerySound
<1> QED BY <1>1, <1>2, <1>3, <1>4, Steps DEF WorldStep

-----------------------------------------------------------------------------
(****************************************************************************)
(* Phases and workers.                                                      *)
(****************************************************************************)

\* All that is left is the opening, the recovery and the end.
LoaderStep == Opens \/ Recovers \/ Destroys \/ ServerChanges \/ Close

\* The loader leaves the operations alone; what it takes from the queue is nothing.
LEMMA LoaderLeaves ==
  ASSUME PoolAssumption, Inv, LoaderStep
  PROVE  /\ UNCHANGED <<made, executed, operation, threads, queue, results>>
         /\ \A w \in Workers : worker'[w] = worker[w] \/ (worker[w] = "none" /\ worker'[w] = "idle")
<1> PhaseSound /\ LoaderType /\ WorkersType
  BY TypeParts DEF Inv
<1>1. CASE ConnectAsync \/ AsyncFails \/ AsyncIncompatible
  <2>1. Fresh \in Workers /\ worker[Fresh] = "none"
    BY <1>1, FreshExists DEF ConnectAsync, AsyncFails, AsyncIncompatible
  <2>2. /\ worker' = Started /\ UNCHANGED <<made, executed, operation, threads, results>>
        /\ queue' = queue
    BY <1>1 DEF ConnectAsync, AsyncFails, AsyncIncompatible, PhaseSound, Used
  <2> QED BY <2>1, <2>2 DEF Started, WorkersType
<1>2. CASE AsyncDone \/ SynchOpens \/ SynchFails
  BY <1>2 DEF AsyncDone, SynchOpens, SynchFails, pool
<1>3. CASE Recovers
  BY <1>3 DEF Recovers, Retry, CreateDatabase, GiveUp, Destructor, Closed, pool, PhaseSound, Used
<1>4. CASE Destroys \/ ServerChanges \/ Close
  BY <1>4 DEF Destroys, CloseConnection, ServerChanges, Close, opening, pool
<1> QED BY <1>1, <1>2, <1>3, <1>4 DEF LoaderStep, Opens

\* Before it is used nothing is in the pool, and an attempt that failed has cancelled the queue.
LEMMA PhaseKept ==
  ASSUME PoolAssumption, Inv, [Next]_vars PROVE PhaseSound'
<1> PhaseSound /\ LoaderType /\ WorkersType /\ QueueType
  BY TypeParts DEF Inv
<1>1. CASE LoaderStep
  <2>1. /\ UNCHANGED <<made, executed, queue, turn, updateCallbacks, kept>>
        /\ \A w \in Workers : worker'[w] = "busy" => worker[w] = "busy"
    BY <1>1, LoaderLeaves DEF results
  <2>2. Used' => Used \/ loader' = "ready"
    BY <1>1 DEF LoaderStep, Opens, ConnectAsync, AsyncDone, AsyncFails, AsyncIncompatible, SynchOpens,
         SynchFails, Recovers, Retry, CreateDatabase, GiveUp, Destructor, Closed, Destroys,
         CloseConnection, ServerChanges, Close, Reopen, Used, opening
  <2>3. Used => Used'
    BY <1>1 DEF LoaderStep, Opens, ConnectAsync, AsyncDone, AsyncFails, AsyncIncompatible, SynchOpens,
         SynchFails, Recovers, Retry, CreateDatabase, GiveUp, Destructor, Closed, Destroys,
         CloseConnection, ServerChanges, Close, Used, opening
  <2>4. cancelled' => cancelled \/ ~ Used
    BY <1>1 DEF LoaderStep, Opens, ConnectAsync, AsyncDone, AsyncFails, AsyncIncompatible, SynchOpens,
         SynchFails, Recovers, Retry, CreateDatabase, GiveUp, Destructor, Closed, Destroys,
         CloseConnection, ServerChanges, Close, Used, pool
  <2>5. loader' = "error" /\ error' # "old" => cancelled'
    <3>1. CASE AsyncFails \/ SynchFails
      BY <3>1 DEF AsyncFails, SynchFails, Cancel
    <3>2. CASE AsyncIncompatible
      BY <3>2 DEF AsyncIncompatible
    <3>3. CASE ConnectAsync \/ AsyncDone \/ SynchOpens \/ Recovers \/ Close
      <4>1. loader' # "error"
        BY <3>3 DEF ConnectAsync, AsyncDone, SynchOpens, Recovers, Retry, CreateDatabase, GiveUp,
             Destructor, Closed, Close, Reopen
      <4> QED BY <4>1
    <3>4. CASE Destroys \/ ServerChanges
      <4>1. UNCHANGED <<loader, error, cancelled>>
        BY <3>4 DEF Destroys, CloseConnection, ServerChanges, opening, pool
      <4> QED BY <4>1 DEF PhaseSound
    <3> QED BY <1>1, <3>1, <3>2, <3>3, <3>4 DEF LoaderStep, Opens
  <2>6. shutdown' => loader' \in {"closing", "closed"}
    BY <1>1 DEF LoaderStep, Opens, ConnectAsync, AsyncDone, AsyncFails, AsyncIncompatible, SynchOpens,
         SynchFails, Recovers, Retry, CreateDatabase, GiveUp, Destructor, Closed, Destroys,
         CloseConnection, ServerChanges, Close, opening, pool, PhaseSound
  <2>7. turn' # Nobody => loader' = "ready"
    BY <1>1, <2>1 DEF LoaderStep, Opens, ConnectAsync, AsyncDone, AsyncFails, AsyncIncompatible, SynchOpens,
         SynchFails, Recovers, Retry, CreateDatabase, GiveUp, Destructor, Closed, Destroys,
         CloseConnection, ServerChanges, Close, opening, PhaseSound
  <2>8. ~ Used' \/ cancelled' => \A w \in Workers : worker'[w] # "busy"
    BY <2>1, <2>3, <2>4 DEF PhaseSound
  <2>9. ~ Used' => made' = 0 /\ executed' = {} /\ queue' = << >>
    BY <2>1, <2>3 DEF PhaseSound
  <2> QED BY <2>1, <2>5, <2>6, <2>7, <2>8, <2>9 DEF PhaseSound
<1>2. ASSUME NEW w \in Workers, Works(w) PROVE PhaseSound'
  <2>1. UNCHANGED <<loader, error, cancelled, shutdown, made, turn, updateCallbacks, kept>>
    BY <1>2 DEF Works, Take, Finish, Leave, opening, results
  <2>2. CASE Take(w)
    <3>1. Used /\ ~ cancelled
      BY <2>2 DEF Take, PhaseSound
    <3> QED BY <2>1, <3>1 DEF PhaseSound, Used
  <2>3. CASE Finish(w)
    <3>1. Used /\ ~ cancelled
      BY <2>3 DEF Finish, PhaseSound
    <3> QED BY <2>1, <3>1 DEF PhaseSound, Used
  <2>4. CASE Leave(w)
    <3>1. UNCHANGED <<executed, queue>> /\ \A v \in Workers : worker'[v] = "busy" => worker[v] = "busy"
      BY <2>4 DEF Leave, WorkersType
    <3> QED BY <2>1, <3>1 DEF PhaseSound, Used
  <2> QED BY <1>2, <2>2, <2>3, <2>4 DEF Works
<1>3. CASE WorldStep
  <2>1. UNCHANGED <<loader, error, worker, cancelled, shutdown, executed>>
    BY <1>3, WorldStepLeaves DEF opening
  <2>2. (Used \/ UNCHANGED <<made, queue>>) /\ (turn' # Nobody => loader = "ready")
    BY <1>3 DEF WorldStep, Execute, Runs, NotReady, InvokeLast, InvokeNext, InvokeAsks, Ready, Processed,
         Process, Forget, AsyncQuery, results, pool, Used, PhaseSound
  <2>3. turn' = Nobody => updateCallbacks' = << >> /\ kept' = << >>
    BY <1>3 DEF WorldStep, Execute, Runs, NotReady, InvokeLast, InvokeNext, InvokeAsks, Ready, Processed,
         Process, Forget, AsyncQuery, results, PhaseSound
  <2> QED BY <2>1, <2>2, <2>3 DEF PhaseSound, Used
<1>4. CASE UNCHANGED vars
  BY <1>4 DEF vars, opening, pool, results, PhaseSound, Used
<1> QED BY <1>1, <1>2, <1>3, <1>4, Steps DEF PoolStep, LoaderStep

\* The numbers that count the attempts.
LEMMA BeforeIs ==
  ASSUME LoaderType, PoolAssumption
  PROVE  Before \in Nat /\ threads \in Nat /\ opened \in Nat /\ opened <= threads
BY DEF LoaderType, PoolAssumption, Before

\* Attempts are counted when they begin.
LEMMA CountedKept ==
  ASSUME PoolAssumption, Inv, [Next]_vars PROVE Counted'
<1> LoaderType /\ WorkersType /\ PhaseSound /\ TypeOK
  BY TypeParts DEF Inv
<1>1. PICK k \in Nat : StartedTo(k) /\ AsManyAs(k)
  BY DEF Inv, Counted
<1>2. Before \in Nat /\ threads \in Nat /\ opened \in Nat /\ opened <= threads
  BY BeforeIs
<1>3. k + 1 \in Nat
  OBVIOUS
<1>4. CASE ConnectAsync \/ AsyncFails \/ AsyncIncompatible
  <2>1. loader = "async" /\ Fewer /\ worker' = Started /\ UNCHANGED <<tries, created, threads>>
    BY <1>4 DEF ConnectAsync, AsyncFails, AsyncIncompatible
  <2>2. k < LastWorker /\ k + 1 <= threads * (Before + 1)
    BY <1>1, <2>1, EnoughWorkers
  <2>3. Fresh = k + 1 /\ Fresh \in Workers
    BY <1>1, <2>2, FreshIsNext
  <2>4. LastWorker \in Nat /\ Workers = 1..LastWorker
    BY DEF PoolAssumption, LastWorker, Workers
  <2>5. StartedTo(k + 1)'
    <3>1. \A w \in Workers : worker'[w] = IF w = k + 1 THEN "idle" ELSE worker[w]
      BY <2>1, <2>3 DEF Started, WorkersType
    <3>2. \A w \in Workers : w <= k + 1 <=> w <= k \/ w = k + 1
      BY <2>4
    <3> QED BY <1>1, <3>1, <3>2 DEF StartedTo
  <2>6. Before' = Before
    BY <2>1 DEF Before
  <2>7. AsManyAs(k + 1)'
    <3>1. CASE ConnectAsync
      <4>1. loader' = "async" /\ opened' = opened + 1 /\ UNCHANGED <<cancelled, threads>>
        BY <3>1 DEF ConnectAsync
      <4>2. k <= threads * Before + opened /\ (~ cancelled => k = opened)
        BY <1>1, <2>1 DEF AsManyAs
      <4>3. threads * Before \in Nat
        BY <1>2
      <4>4. k + 1 <= threads * Before + (opened + 1)
        BY <1>2, <4>2, <4>3
      <4> QED BY <2>6, <4>1, <4>2, <4>4 DEF AsManyAs, Used
    <3>2. CASE AsyncFails \/ AsyncIncompatible
      <4>1. loader' = "error" /\ threads' = threads
        BY <3>2 DEF AsyncFails, AsyncIncompatible
      <4> QED BY <2>2, <2>6, <4>1 DEF AsManyAs, Used
    <3> QED BY <1>4, <3>1, <3>2
  <2> QED BY <1>3, <2>5, <2>7 DEF Counted
<1>5. ASSUME StartedTo(k)', AsManyAs(k)' PROVE Counted'
  BY <1>5 DEF Counted
<1>6. CASE AsyncDone \/ SynchOpens \/ SynchFails \/ Recovers \/ Destroys \/ ServerChanges \/ Close
  <2>1. UNCHANGED <<worker, threads>>
    BY <1>6 DEF AsyncDone, SynchOpens, SynchFails, Recovers, Retry, CreateDatabase, GiveUp, Destructor,
         Closed, Destroys, CloseConnection, ServerChanges, Close, opening, pool
  <2>2. StartedTo(k)'
    BY <1>1, <2>1 DEF StartedTo
  <2>3. CASE AsyncDone
    <3>1. opened = threads /\ loader = "async" /\ loader' = "synch" /\ UNCHANGED <<tries, created, cancelled>>
      BY <1>2, <2>3 DEF AsyncDone, Fewer, pool
    <3>2. k <= threads * Before + threads /\ (~ cancelled => k = threads)
      BY <1>1, <3>1 DEF AsManyAs
    <3>3. threads * (Before + 1) = threads * Before + threads /\ Before' = Before
      BY <1>2, <3>1 DEF Before
    <3>4. k <= threads * (Before + 1)
      BY <3>2, <3>3
    <3>5. AsManyAs(k)'
      BY <2>1, <3>1, <3>2, <3>3, <3>4 DEF AsManyAs, Used
    <3> QED BY <1>5, <2>2, <3>5
  <2>4. CASE SynchOpens
    <3>1. loader = "synch" /\ loader' = "ready" /\ cancelled' = cancelled
      BY <2>4 DEF SynchOpens, pool
    <3>2. AsManyAs(k)'
      BY <1>1, <2>1, <3>1 DEF AsManyAs, Used
    <3> QED BY <1>5, <2>2, <3>2
  <2>5. CASE SynchFails
    <3>1. loader = "synch" /\ loader' = "error" /\ UNCHANGED <<tries, created>>
      BY <2>5 DEF SynchFails
    <3>2. AsManyAs(k)'
      BY <1>1, <2>1, <3>1 DEF AsManyAs, Used, Before
    <3> QED BY <1>5, <2>2, <3>2
  <2>6. CASE Retry \/ CreateDatabase
    <3>1. loader = "error" /\ loader' = "async" /\ opened' = 0 /\ error # "old" /\ cancelled' = cancelled
      BY <2>6 DEF Retry, CreateDatabase, Reopen, pool
    <3>2. cancelled'
      BY <3>1 DEF PhaseSound
    <3>3. Before' = Before + 1
      BY <2>6 DEF Retry, CreateDatabase, Before, LoaderType
    <3>4. k <= threads * (Before + 1)
      BY <1>1, <3>1 DEF AsManyAs
    <3>5. threads * (Before + 1) \in Nat
      BY <1>2
    <3>6. k <= threads * (Before + 1) + 0
      BY <3>4, <3>5
    <3>7. AsManyAs(k)'
      BY <2>1, <3>1, <3>2, <3>3, <3>6 DEF AsManyAs, Used
    <3> QED BY <1>5, <2>2, <3>7
  <2>7. CASE GiveUp \/ Destructor
    <3>1. loader' \in {"failed", "gone"}
      BY <2>7 DEF GiveUp, Destructor
    <3>2. AsManyAs(k)'
      BY <3>1 DEF AsManyAs, Used
    <3> QED BY <1>5, <2>2, <3>2
  <2>8. CASE Close \/ Closed
    <3>1. Used /\ loader' \in {"closing", "closed"} /\ cancelled' = cancelled
      BY <2>8 DEF Close, Closed, Used, pool
    <3>2. AsManyAs(k)'
      BY <1>1, <2>1, <3>1 DEF AsManyAs, Used
    <3> QED BY <1>5, <2>2, <3>2
  <2>9. CASE Destroys \/ ServerChanges
    <3>1. UNCHANGED <<loader, cancelled, tries, created, opened>>
      BY <2>9 DEF Destroys, CloseConnection, ServerChanges, opening, pool
    <3>2. AsManyAs(k)'
      BY <1>1, <2>1, <3>1 DEF AsManyAs, Used, Before
    <3> QED BY <1>5, <2>2, <3>2
  <2> QED BY <1>6, <2>3, <2>4, <2>5, <2>6, <2>7, <2>8, <2>9 DEF Recovers
<1>7. ASSUME UNCHANGED <<loader, cancelled, tries, created, opened, threads>>,
             \A w \in Workers : worker'[w] = "none" <=> worker[w] = "none"
      PROVE  Counted'
  <2>1. AsManyAs(k)'
    BY <1>1, <1>7 DEF AsManyAs, Used, Before
  <2>2. StartedTo(k)'
    BY <1>1, <1>7 DEF StartedTo
  <2> QED BY <1>5, <2>1, <2>2
<1>8. ASSUME NEW w \in Workers, Works(w) PROVE Counted'
  <2>1. UNCHANGED <<loader, cancelled, tries, created, opened, threads>>
    BY <1>8 DEF Works, Take, Finish, Leave, opening
  <2>2. \A v \in Workers : worker'[v] = "none" <=> worker[v] = "none"
    BY <1>8 DEF Works, Take, Finish, Leave, WorkersType
  <2> QED BY <1>7, <2>1, <2>2
<1>9. CASE WorldStep
  BY <1>7, <1>9, WorldStepLeaves DEF opening
<1>10. CASE UNCHANGED vars
  BY <1>7, <1>10 DEF vars, opening, pool
<1> QED BY <1>4, <1>6, <1>8, <1>9, <1>10, Steps DEF PoolStep, Opens

\* What is proved of every worker before the queue is cancelled, its parts by name.
LEMMA WorkersSoundIs ==
  ASSUME Inv, ~ cancelled, NEW w \in Workers
  PROVE  /\ worker[w] \in {"idle", "busy"} /\ (loader \in {"async", "synch"} \/ Used) => w \in connected
         /\ worker[w] = "left" => shutdown /\ queue = << >>
         /\ worker[w] \in {"idle", "busy"} /\ loader = "closing" => w \in dying
         /\ worker[w] \in {"none", "left"} \/ loader # "closed"
BY DEF Inv, WorkersSound, WorkerSound

\* Workers that may take operations have open connections.
LEMMA WorkersKept ==
  ASSUME PoolAssumption, Inv, [Next]_vars PROVE WorkersSound'
<1> LoaderType /\ WorkersType /\ PhaseSound
  BY TypeParts DEF Inv
<1> SUFFICES ASSUME ~ cancelled', NEW w \in Workers PROVE WorkerSound(w)'
  BY DEF WorkersSound
<1>1. CASE ConnectAsync
  <2>1. Fresh \in Workers /\ worker[Fresh] = "none"
    BY <1>1, FreshExists DEF ConnectAsync
  <2>2. /\ loader = "async" /\ loader' = "async" /\ UNCHANGED <<cancelled, shutdown, queue>>
        /\ connected' = connected \cup {Fresh}
        /\ worker'[w] = IF w = Fresh THEN "idle" ELSE worker[w]
    BY <1>1, <2>1 DEF ConnectAsync, Started, WorkersType
  <2> QED BY <2>2, WorkersSoundIs DEF WorkerSound, Used
<1>2. CASE AsyncDone \/ SynchOpens
  BY <1>2, WorkersSoundIs DEF AsyncDone, SynchOpens, pool, WorkerSound, Used
<1>3. CASE AsyncFails \/ Destructor
  BY <1>3 DEF AsyncFails, Destructor, Cancel
<1>4. CASE AsyncIncompatible
  <2>1. Fresh \in Workers /\ worker[Fresh] = "none"
    BY <1>4, FreshExists DEF AsyncIncompatible
  <2>2. /\ loader' = "error" /\ UNCHANGED <<cancelled, shutdown, queue>>
        /\ worker'[w] = IF w = Fresh THEN "idle" ELSE worker[w]
    BY <1>4, <2>1 DEF AsyncIncompatible, Started, WorkersType
  <2> QED BY <2>2, WorkersSoundIs DEF WorkerSound, Used
<1>5. CASE SynchFails
  <2>1. loader' = "error" /\ UNCHANGED <<worker, shutdown, queue>> /\ ~ cancelled
    BY <1>5 DEF SynchFails
  <2> QED BY <2>1, WorkersSoundIs DEF WorkerSound, Used
<1>6. CASE Retry \/ CreateDatabase
  BY <1>6 DEF Retry, CreateDatabase, PhaseSound, pool
<1>7. CASE GiveUp
  <2>1. loader' = "failed" /\ UNCHANGED pool
    BY <1>7 DEF GiveUp
  <2> QED BY <2>1, WorkersSoundIs DEF pool, WorkerSound, Used
<1>8. CASE Closed
  <2>1. loader = "closing" /\ loader' = "closed" /\ dying = {} /\ UNCHANGED pool
    BY <1>8 DEF Closed, Free
  <2>2. worker[w] \in {"none", "left"}
    BY <2>1, WorkersSoundIs DEF pool, WorkersType
  <2> QED BY <2>1, <2>2, WorkersSoundIs DEF pool, WorkerSound
<1>9. ASSUME NEW v \in Workers, CloseConnection(v) PROVE WorkerSound(w)'
  <2>1. /\ worker[v] = "left" /\ dying' = dying \ {v} /\ connected' = connected \ {v}
        /\ UNCHANGED <<loader, worker, queue, cancelled, shutdown>>
    BY <1>9 DEF CloseConnection, Joined, opening
  <2> QED BY <2>1, WorkersSoundIs DEF WorkerSound, Used
<1>10. CASE ServerChanges
  BY <1>10, WorkersSoundIs DEF ServerChanges, pool, WorkerSound, Used
<1>11. CASE Close
  <2>1. /\ loader = "ready" /\ loader' = "closing" /\ shutdown' = TRUE /\ dying' = connected
        /\ UNCHANGED <<worker, queue, cancelled, connected>>
    BY <1>11 DEF Close
  <2> QED BY <2>1, WorkersSoundIs DEF WorkerSound, Used
<1>12. ASSUME NEW v \in Workers, Take(v) PROVE WorkerSound(w)'
  <2>1. /\ queue # << >> /\ worker[v] = "idle"
        /\ UNCHANGED <<loader, connected, dying, cancelled, shutdown>>
        /\ worker'[w] = IF w = v THEN "busy" ELSE worker[w]
    BY <1>12 DEF Take, opening, WorkersType
  <2>2. worker[w] # "left"
    BY <2>1, WorkersSoundIs
  <2> QED BY <2>1, <2>2, WorkersSoundIs DEF WorkerSound, Used
<1>13. ASSUME NEW v \in Workers, Finish(v) PROVE WorkerSound(w)'
  <2>1. /\ worker[v] = "busy" /\ UNCHANGED <<loader, connected, dying, cancelled, shutdown, queue>>
        /\ worker'[w] = IF w = v THEN "idle" ELSE worker[w]
    BY <1>13 DEF Finish, opening, WorkersType
  <2> QED BY <2>1, WorkersSoundIs DEF WorkerSound, Used
<1>14. ASSUME NEW v \in Workers, Leave(v) PROVE WorkerSound(w)'
  <2>1. /\ worker[v] = "idle" /\ NoMore /\ UNCHANGED <<loader, connected, dying, cancelled, shutdown, queue>>
        /\ worker'[w] = IF w = v THEN "left" ELSE worker[w]
    BY <1>14 DEF Leave, opening, WorkersType
  <2>2. shutdown /\ queue = << >>
    BY <2>1 DEF NoMore
  <2> QED BY <2>1, <2>2, WorkersSoundIs DEF WorkerSound, Used
<1>15. CASE WorldStep
  <2>1. UNCHANGED <<loader, worker, connected, dying, cancelled, shutdown>>
    BY <1>15, WorldStepLeaves DEF opening
  <2>2. queue' = queue \/ loader = "ready"
    BY <1>15 DEF WorldStep, Execute, Runs, NotReady, InvokeLast, InvokeNext, InvokeAsks, Ready, Processed,
         Process, Forget, AsyncQuery, pool, PhaseSound
  <2>3. loader = "ready" => ~ shutdown
    BY DEF PhaseSound
  <2> QED BY <2>1, <2>2, <2>3, WorkersSoundIs DEF WorkerSound, Used
<1>16. CASE UNCHANGED vars
  BY <1>16, WorkersSoundIs DEF vars, opening, pool, WorkerSound, Used
<1> QED BY <1>1, <1>2, <1>3, <1>4, <1>5, <1>6, <1>7, <1>8, <1>9, <1>10, <1>11, <1>12, <1>13, <1>14,
           <1>15, <1>16, Steps DEF PoolStep, Opens, Recovers, Destroys, Works

-----------------------------------------------------------------------------
(****************************************************************************)
(* The order of operations.                                                 *)
(****************************************************************************)

Ordered == InOrder /\ Accounted /\ OneByOne

\* With one worker thread there is one worker to take operations.
LEMMA OnlyWorker ==
  ASSUME Inv, threads = 1, ~ cancelled, Used,
         NEW v \in Workers, worker[v] # "none", NEW w \in Workers, worker[w] # "none"
  PROVE  v = w
<1>1. PICK k \in Nat : StartedTo(k) /\ AsManyAs(k)
  BY DEF Inv, Counted
<1>2. k = 1
  BY <1>1 DEF AsManyAs
<1>3. v \in 1..LastWorker /\ w \in 1..LastWorker
  BY DEF Workers, LastWorker
<1>4. v <= 1 /\ w <= 1
  BY <1>1, <1>2 DEF StartedTo
<1> QED BY <1>3, <1>4

\* Nothing is taken from the queue or executed.
LEMMA QuietOrdered ==
  ASSUME Ordered, UNCHANGED <<made, executed, operation, threads, queue>>,
         \A w \in Workers : worker'[w] = "busy" <=> worker[w] = "busy"
  PROVE  Ordered'
<1>1. InOrder' /\ Taken' = Taken
  BY DEF Ordered, InOrder, Taken
<1>2. \A w \in Workers, x \in Ops : Executes(w, x)' <=> Executes(w, x)
  BY DEF Executes
<1>3. Accounted'
  BY <1>1, <1>2 DEF Ordered, Accounted
<1>4. OneByOne'
  BY DEF Ordered, OneByOne
<1> QED BY <1>1, <1>3, <1>4 DEF Ordered

\* An operation is added at the end.
LEMMA EnqueueOrdered ==
  ASSUME PoolAssumption, QueueType, Ordered, Enqueue, UNCHANGED <<worker, operation, executed, threads>>
  PROVE  Ordered'
<1>1. /\ made \in Nat /\ Len(queue) \in Nat /\ made' = made + 1 /\ Next1 = made + 1
  BY Numbers, LenProperties DEF QueueType, Enqueue, Next1
<1>2. /\ Len(queue') = Len(queue) + 1
      /\ \A i \in 1..Len(queue') : queue'[i] = IF i <= Len(queue) THEN queue[i] ELSE Next1
  BY EnqueueType
<1>3. Taken' = Taken
  BY <1>1, <1>2 DEF Taken
<1>4. InOrder'
  <2>1. Len(queue) <= made /\ \A i \in 1..Len(queue) : queue[i] = Taken + i
    BY DEF Ordered, InOrder
  <2>2. ASSUME NEW i \in 1..Len(queue') PROVE queue'[i] = Taken + i
    <3>1. CASE i <= Len(queue)
      BY <1>1, <1>2, <2>1, <3>1
    <3>2. CASE ~ (i <= Len(queue))
      <4>1. i = Len(queue) + 1
        BY <1>1, <1>2, <3>2
      <4>2. Taken + i = made + 1
        BY <1>1, <4>1 DEF Taken
      <4> QED BY <1>1, <1>2, <3>2, <4>2
    <3> QED BY <3>1, <3>2
  <2> QED BY <1>1, <1>2, <1>3, <2>1, <2>2 DEF InOrder
<1>5. Accounted'
  BY <1>3 DEF Ordered, Accounted, Executes
<1>6. OneByOne'
  BY DEF Ordered, OneByOne
<1> QED BY <1>4, <1>5, <1>6 DEF Ordered

\* A worker takes the first of the queue.
LEMMA TakeOrdered ==
  ASSUME PoolAssumption, Inv, NEW w \in Workers, Take(w) PROVE Ordered'
<1> LoaderType /\ WorkersType /\ QueueType /\ PhaseSound /\ Ordered
  BY TypeParts DEF Inv, Ordered
<1>1. /\ worker[w] = "idle" /\ ~ cancelled /\ queue # << >> /\ queue' = Tail(queue)
      /\ UNCHANGED <<made, executed, threads>>
      /\ \A v \in Workers : worker'[v] = IF v = w THEN "busy" ELSE worker[v]
      /\ \A v \in Workers : operation'[v] = IF v = w THEN Head(queue) ELSE operation[v]
  BY DEF Take, opening, WorkersType
<1>2. /\ made \in Nat /\ Len(queue) \in Nat /\ Len(queue) > 0
  BY <1>1, Numbers, LenProperties, EmptySeq DEF QueueType
<1>3. /\ Head(queue) \in Ops /\ Head(queue) = queue[1] /\ Len(queue') = Len(queue) - 1
      /\ \A i \in 1..Len(queue') : queue'[i] = queue[i + 1]
  BY <1>1, HeadTailProperties DEF QueueType
<1>4. Len(queue) <= made /\ \A i \in 1..Len(queue) : queue[i] = Taken + i
  BY DEF Ordered, InOrder
<1>5. Taken \in Nat /\ Taken' = Taken + 1 /\ Head(queue) = Taken + 1
  BY <1>1, <1>2, <1>3, <1>4 DEF Taken
<1>6. InOrder'
  <2>1. ASSUME NEW i \in 1..Len(queue') PROVE queue'[i] = Taken' + i
    <3>1. i + 1 \in 1..Len(queue)
      BY <1>2, <1>3
    <3> QED BY <1>3, <1>4, <1>5, <3>1
  <2> QED BY <1>1, <1>2, <1>3, <1>4, <2>1 DEF InOrder
<1>7. Accounted'
  <2>1. ASSUME NEW x \in Ops, x <= Taken' PROVE x \in executed \/ \E v \in Workers : Executes(v, x)'
    <3>1. CASE x = Taken + 1
      BY <1>1, <1>5, <3>1 DEF Executes
    <3>2. CASE x # Taken + 1
      <4>1. x \in Int
        BY DEF Ops
      <4>2. x <= Taken
        BY <1>5, <2>1, <3>2, <4>1
      <4>3. x \in executed \/ \E v \in Workers : Executes(v, x)
        BY <4>2 DEF Ordered, Accounted
      <4> QED BY <1>1, <4>3 DEF Executes
    <3> QED BY <3>1, <3>2
  <2>2. \A x \in executed : x <= Taken'
    <3>1. \A x \in executed : x \in Int /\ x <= Taken
      BY DEF WorkersType, Ops, Ordered, Accounted
    <3> QED BY <1>5, <3>1
  <2>3. ASSUME NEW v \in Workers, worker'[v] = "busy" PROVE operation'[v] \in Ops /\ operation'[v] <= Taken'
    <3>1. CASE v = w
      BY <1>1, <1>3, <1>5, <3>1
    <3>2. CASE v # w
      <4>1. operation'[v] = operation[v] /\ operation[v] \in Ops /\ operation[v] <= Taken
        BY <1>1, <2>3, <3>2 DEF Ordered, Accounted
      <4>2. operation[v] \in Int
        BY <4>1 DEF Ops
      <4> QED BY <1>5, <4>1, <4>2
    <3> QED BY <3>1, <3>2
  <2> QED BY <1>1, <2>1, <2>2, <2>3 DEF Accounted
<1>8. OneByOne'
  <2> SUFFICES ASSUME threads = 1, NEW v \in Workers, NEW x \in Ops, worker'[v] = "busy", x < operation'[v]
               PROVE  x \in executed
    BY <1>1 DEF OneByOne
  <2>1. Used
    BY <1>1 DEF PhaseSound
  <2>2. \A u \in Workers : worker[u] # "none" => u = w
    BY <1>1, <2>1, OnlyWorker
  <2>3. v = w
    BY <1>1, <2>2
  <2>4. x \in Int /\ x < Taken + 1
    BY <1>1, <1>5, <2>3 DEF Ops
  <2>5. x <= Taken
    BY <1>5, <2>4
  <2>6. x \in executed \/ \E u \in Workers : Executes(u, x)
    BY <2>5 DEF Ordered, Accounted
  <2> QED BY <1>1, <2>2, <2>6 DEF Executes
<1> QED BY <1>6, <1>7, <1>8 DEF Ordered

\* A worker has executed its operation.
LEMMA FinishOrdered ==
  ASSUME Inv, NEW w \in Workers, Finish(w) PROVE Ordered'
<1> WorkersType /\ Ordered
  BY TypeParts DEF Inv, Ordered
<1>1. /\ worker[w] = "busy" /\ executed' = executed \cup {operation[w]}
      /\ UNCHANGED <<made, queue, threads>>
      /\ \A v \in Workers : worker'[v] = IF v = w THEN "idle" ELSE worker[v]
      /\ \A v \in Workers : operation'[v] = IF v = w THEN 0 ELSE operation[v]
  BY DEF Finish, opening, WorkersType
<1>2. InOrder' /\ Taken' = Taken
  BY <1>1 DEF Ordered, InOrder, Taken
<1>3. Accounted'
  <2>1. ASSUME NEW x \in Ops, x <= Taken PROVE x \in executed' \/ \E v \in Workers : Executes(v, x)'
    <3>1. x \in executed \/ \E v \in Workers : Executes(v, x)
      BY <2>1 DEF Ordered, Accounted
    <3> QED BY <1>1, <3>1 DEF Executes
  <2>2. \A x \in executed' : x <= Taken
    BY <1>1 DEF Ordered, Accounted
  <2>3. \A v \in Workers : worker'[v] = "busy" => operation'[v] \in Ops /\ operation'[v] <= Taken
    BY <1>1 DEF Ordered, Accounted
  <2> QED BY <1>2, <2>1, <2>2, <2>3 DEF Accounted
<1>4. OneByOne'
  BY <1>1 DEF Ordered, OneByOne
<1> QED BY <1>2, <1>3, <1>4 DEF Ordered

\* Operations are taken in the order in which they came.
LEMMA OrderKept ==
  ASSUME PoolAssumption, Inv, [Next]_vars PROVE Ordered'
<1> WorkersType /\ QueueType /\ Ordered
  BY TypeParts DEF Inv, Ordered
<1>1. CASE LoaderStep
  BY <1>1, LoaderLeaves, QuietOrdered
<1>2. ASSUME NEW w \in Workers, Works(w) PROVE Ordered'
  <2>1. CASE Leave(w)
    <3>1. UNCHANGED <<made, executed, operation, threads, queue>>
      BY <2>1 DEF Leave, opening
    <3>2. \A v \in Workers : worker'[v] = "busy" <=> worker[v] = "busy"
      BY <2>1 DEF Leave, WorkersType
    <3> QED BY <3>1, <3>2, QuietOrdered
  <2> QED BY <1>2, <2>1, TakeOrdered, FinishOrdered DEF Works
<1>3. CASE WorldStep
  <2>1. UNCHANGED <<worker, operation, executed, threads>> /\ (Enqueue \/ UNCHANGED <<made, queue>>)
    BY <1>3, WorldStepLeaves DEF opening, Quiet
  <2> QED BY <2>1, EnqueueOrdered, QuietOrdered
<1>4. CASE UNCHANGED vars
  BY <1>4, QuietOrdered DEF vars, opening, pool
<1> QED BY <1>1, <1>2, <1>3, <1>4, Steps DEF PoolStep, LoaderStep

-----------------------------------------------------------------------------
(****************************************************************************)
(* The invariant, and what follows from it.                                 *)
(****************************************************************************)

\* The invariant holds when the loader starts,
LEMMA InitInv == ASSUME PoolAssumption, Init PROVE Inv
<1>1. TypeOK
  <2>1. << >> \in Seq(Ops) /\ << >> \in Seq(Callbacks)
    BY EmptySeq
  <2>2. 0 \in 0..Attempts /\ 0 \in 0..MaxOps
    BY Numbers
  <2>3. threads \in 1..MaxThreads /\ 0 \in 0..threads
    BY Numbers DEF Init
  <2> QED BY <2>1, <2>2, <2>3 DEF Init, TypeOK, Servers, Phases
<1>2. PhaseSound
  BY DEF Init, PhaseSound, Used
<1>3. Counted
  <2>1. StartedTo(0)
    BY DEF Init, StartedTo, Workers
  <2>2. Before = 0 /\ threads \in Nat
    BY Numbers DEF Init, Before
  <2>3. threads * Before + opened = 0
    BY <2>2 DEF Init
  <2>4. AsManyAs(0)
    BY <2>3 DEF Init, AsManyAs, Used
  <2> QED BY <2>1, <2>4 DEF Counted
<1>4. WorkersSound
  BY DEF Init, WorkersSound, WorkerSound
<1>5. InOrder
  BY DEF Init, InOrder
<1>6. Accounted /\ OneByOne
  <2>1. Taken = 0
    <3>1. made = 0 /\ queue = << >>
      BY DEF Init
    <3>2. Len(queue) = 0
      BY <1>1, <3>1, EmptySeq DEF TypeOK
    <3>3. made = 0 /\ Len(queue) = 0
      BY <3>1, <3>2
    <3> QED BY <3>3 DEF Taken
  <2> QED BY <2>1 DEF Init, Accounted, OneByOne, Ops
<1>7. Results
  <2>1. Waiting = {}
    <3>1. \A x : ~ WaitsIn(x)
      BY NoOps DEF Init, WaitsIn
    <3> QED BY <3>1, WaitingIs
  <2>2. Apart
    BY NoOps DEF Init, Apart
  <2> QED BY <2>1, <2>2 DEF Init, Results, NoneForgotten
<1> QED BY <1>1, <1>2, <1>3, <1>4, <1>5, <1>6, <1>7 DEF Inv

\* and every step keeps it.
LEMMA Inductive == ASSUME PoolAssumption, Inv, [Next]_vars PROVE Inv'
<1>1. LoaderType' /\ WorkersType' /\ QueueType'
  <2>1. CASE UNCHANGED vars
    BY <2>1, TypeParts DEF Inv, vars, opening, pool, LoaderType, WorkersType, QueueType
  <2>2. CASE PoolStep
    BY <2>2, OpensType, OtherPoolType, WorksType DEF PoolStep
  <2> QED BY <2>1, <2>2, WorldType, Steps
<1>2. TypeOK'
  BY <1>1, ResultsKept DEF TypeOK, LoaderType, WorkersType, QueueType, ResultsType
<1> QED BY <1>2, ResultsKept, PhaseKept, CountedKept, WorkersKept, OrderKept DEF Inv, Ordered

\* Hence it always holds.
LEMMA Invariance == ASSUME PoolAssumption PROVE Spec => []Inv
BY InitInv, Inductive, PTL DEF Spec

\* The variables of the pool keep their types: DatabaseWorkerPool.h:168, QueryCallback.h.
THEOREM PoolTypeCorrect == ASSUME PoolAssumption PROVE Spec => []TypeOK
<1>1. Inv => TypeOK
  BY DEF Inv
<1> QED BY <1>1, Invariance, PTL

\* However opening goes, an operation is executed on a connection that is open: a worker waits
\* from before its connection opens until it is told to leave, and is awaited before it closes.
THEOREM ConnectedWhenBusy == ASSUME PoolAssumption PROVE Spec => []WorkersConnected
<1>1. ASSUME Inv, NEW w \in Workers, worker[w] = "busy" PROVE w \in connected
  <2>1. Used /\ ~ cancelled
    BY <1>1 DEF Inv, PhaseSound
  <2> QED BY <1>1, <2>1, WorkersSoundIs
<1>2. Inv => WorkersConnected
  BY <1>1 DEF WorkersConnected
<1> QED BY <1>2, Invariance, PTL

\* One worker thread executes an operation when all those that came before it are done.
THEOREM ExecutedInOrder == ASSUME PoolAssumption PROVE Spec => []OneByOne
<1>1. Inv => OneByOne
  BY DEF Inv
<1> QED BY <1>1, Invariance, PTL

\* Close waits until every operation is executed, with any number of worker threads.
THEOREM DrainedAtClose == ASSUME PoolAssumption PROVE Spec => []ClosedDrained
<1>1. ASSUME Inv, loader = "closed", ~ cancelled PROVE executed = 1..made
  <2>1. LoaderType /\ WorkersType /\ QueueType /\ Ordered
    BY <1>1, TypeParts DEF Inv, Ordered
  <2>2. PICK k \in Nat : StartedTo(k) /\ AsManyAs(k)
    BY <1>1 DEF Inv, Counted
  <2>3. k >= 1
    BY <1>1, <2>1, <2>2 DEF AsManyAs, Used, LoaderType
  <2>4. 1 \in Workers
    <3>1. LastWorker >= 1 /\ LastWorker \in Nat
      <4>1. MaxThreads \in Nat /\ MaxThreads >= 1 /\ Attempts + 2 \in Nat /\ Attempts + 2 >= 1
        BY DEF PoolAssumption
      <4>2. 1 * 1 <= LastWorker
        BY <4>1, ProductMonotonic DEF LastWorker
      <4> QED BY <4>1, <4>2 DEF LastWorker
    <3> QED BY <3>1 DEF LastWorker, Workers
  <2>5. \A w \in Workers : worker[w] # "busy"
    BY <1>1, WorkersSoundIs
  <2>6. worker[1] = "left"
    BY <1>1, <2>2, <2>3, <2>4, WorkersSoundIs DEF StartedTo
  <2>7. queue = << >>
    BY <1>1, <2>4, <2>6, WorkersSoundIs
  <2>8. Taken = made /\ made \in 0..MaxOps
    BY <2>1, <2>7 DEF Taken, QueueType
  <2>9. \A x \in Ops : x <= made => x \in executed
    BY <2>1, <2>5, <2>8 DEF Ordered, Accounted, Executes
  <2>10. \A x \in executed : x \in Ops /\ x <= made
    BY <2>1, <2>8 DEF Ordered, Accounted, WorkersType
  <2>11. \A x : x \in 1..made <=> x \in Ops /\ x <= made
    BY <2>8, Numbers DEF Ops
  <2> QED BY <2>9, <2>10, <2>11
<1>2. Inv => ClosedDrained
  BY <1>1 DEF ClosedDrained
<1> QED BY <1>2, Invariance, PTL

\* Of every query the callback waits, has run, or went with its owner; none runs twice.
THEOREM NoResultForgotten == ASSUME PoolAssumption PROVE Spec => []NoneForgotten
<1>1. Inv => NoneForgotten
  BY DEF Inv, Results
<1> QED BY <1>1, Invariance, PTL
=============================================================================
