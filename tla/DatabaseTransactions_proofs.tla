---------------------- MODULE DatabaseTransactions_proofs ----------------------
(***************************************************************************)
(* For any connections and transactions, and however often the server is   *)
(* lost: no session is left in a transaction, whatever it met; and a       *)
(* transaction that is not spoiled is applied completely or not at all,    *)
(* the promise tells which, and those that are spoiled do it no harm.      *)
(***************************************************************************)
EXTENDS DatabaseTransactions, TLAPS

\* A session is in a transaction only while its connection executes one and has
\* not lost it; a connection has a task exactly while it is at work; and it never
\* runs out of attempts without an end of the program.
SessionSound(c) ==
  /\ task[c] = Null <=> stage[c] = "idle"
  /\ open[c] => stage[c] \in {"work", "commit", "rollback"} /\ link[c] = "up"
  /\ link[c] = "reopen" /\ ~aborted => attempts[c] > 0

Inv == TypeOK /\ \A c \in Conns : SessionSound(c)

-----------------------------------------------------------------------------

\* What an action does with everything but the session and the store.
LEMMA AppliedType ==
  ASSUME TypeOK, NEW t \in Trans, NEW m, NEW n, db' = Applied(t, m, n)
  PROVE  /\ DOMAIN db' = Trans
         /\ \A u \in Trans : db'[u] \in [1..Size[u] -> Nat]
<1>1. /\ DOMAIN db' = Trans
      /\ \A u \in Trans : u # t => db'[u] = db[u]
      /\ db'[t] = [i \in 1..Size[t] |-> IF i \in m..n THEN db[t][i] + 1 ELSE db[t][i]]
  BY DEF Applied, TypeOK
<1>2. db'[t] \in [1..Size[t] -> Nat]
  <2>1. \A i \in 1..Size[t] : db[t][i] \in Nat
    BY DEF TypeOK
  <2>2. \A i \in 1..Size[t] : (IF i \in m..n THEN db[t][i] + 1 ELSE db[t][i]) \in Nat
    BY <2>1
  <2>3. QED BY <1>1, <2>2
<1>3. ASSUME NEW u \in Trans PROVE db'[u] \in [1..Size[u] -> Nat]
  <2>1. CASE u = t
    BY <1>2, <2>1
  <2>2. CASE u # t
    BY <1>1, <2>2 DEF TypeOK
  <2>3. QED BY <2>1, <2>2
<1>4. QED BY <1>1, <1>3

\* ExecuteTransaction begins.
LEMMA StartSound ==
  ASSUME Inv, NEW c \in Conns, NEW t \in Trans, Start(c, t)
  PROVE  /\ task' \in [Conns -> Trans \cup {Null}] /\ stage' \in [Conns -> Stages]
         /\ next' \in [Conns -> Nat \ {0}]
         /\ code' \in [Conns -> {"ok", "deadlock", "other", "empty"}]
         /\ \A d \in Conns : d # c => task'[d] = task[d] /\ stage'[d] = stage[d]
         /\ task'[c] = t /\ stage'[c] \in {"begin", "return"}
<1>1. task' \in [Conns -> Trans \cup {Null}] /\ task'[c] = t
  BY DEF Inv, TypeOK, Start
<1>2. stage' \in [Conns -> Stages] /\ stage'[c] \in {"begin", "return"}
  BY DEF Inv, TypeOK, Start, Stages
<1>3. next' \in [Conns -> Nat \ {0}]
  BY DEF Inv, TypeOK, Start
<1>4. code' \in [Conns -> {"ok", "deadlock", "other", "empty"}]
  BY DEF Inv, TypeOK, Start
<1>5. \A d \in Conns : d # c => task'[d] = task[d] /\ stage'[d] = stage[d]
  BY DEF Inv, TypeOK, Start
<1>6. QED BY <1>1, <1>2, <1>3, <1>4, <1>5

\* Going on with the next call.
LEMMA GoOnSound ==
  ASSUME Inv, NEW c \in Conns, GoOn(c), stage[c] \in Sending
  PROVE  /\ stage' \in [Conns -> Stages] /\ next' \in [Conns -> Nat \ {0}]
         /\ \A d \in Conns : d # c => stage'[d] = stage[d] /\ next'[d] = next[d]
         /\ stage'[c] = CASE stage[c] = "begin" -> "work"
                          [] stage[c] = "work" -> IF next[c] = Size[task[c]] THEN "commit" ELSE "work"
                          [] OTHER -> "return"
         /\ next'[c] = IF stage[c] = "work" THEN next[c] + 1 ELSE next[c]
<1>1. stage' \in [Conns -> Stages]
  BY DEF Inv, TypeOK, GoOn, Stages
<1>2. next' \in [Conns -> Nat \ {0}]
  BY DEF Inv, TypeOK, GoOn
<1>3. QED BY <1>1, <1>2 DEF Inv, TypeOK, GoOn

LEMMA EndSound ==
  ASSUME Inv, NEW c \in Conns, NEW answer \in {"yes", "no", "void"}, End(c, answer),
         stage[c] = "return"
  PROVE  /\ told' \in [Trans -> {"none", "yes", "no", "void"}]
         /\ task[c] \in Trans
         /\ \A u \in Trans : told'[u] = IF u = task[c] THEN answer ELSE told[u]
         /\ task' \in [Conns -> Trans \cup {Null}] /\ stage' \in [Conns -> Stages]
         /\ \A d \in Conns : d # c => task'[d] = task[d] /\ stage'[d] = stage[d]
         /\ task'[c] = Null /\ stage'[c] = "idle"
         /\ UNCHANGED <<next, code, retry>>
<1>1. task[c] \in Trans
  BY DEF Inv, TypeOK, SessionSound
<1>2. told' \in [Trans -> {"none", "yes", "no", "void"}]
  BY DEF Inv, TypeOK, End
<1>3. task' \in [Conns -> Trans \cup {Null}] /\ stage' \in [Conns -> Stages]
  BY DEF Inv, TypeOK, End, Stages
<1>4. QED BY <1>1, <1>2, <1>3 DEF Inv, TypeOK, End

LEMMA SessionEndsSound ==
  ASSUME Inv, NEW c \in Conns, SessionEnds(c)
  PROVE  /\ open' \in [Conns -> BOOLEAN] /\ pending' \in [Conns -> Nat]
         /\ \A d \in Conns : d # c => open'[d] = open[d] /\ pending'[d] = pending[d]
         /\ ~open'[c] /\ pending'[c] = 0
BY DEF Inv, TypeOK, SessionEnds

-----------------------------------------------------------------------------

LEMMA InitInv == Init => Inv
<1> SUFFICES ASSUME Init PROVE Inv
  OBVIOUS
<1>1. /\ task \in [Conns -> Trans \cup {Null}] /\ stage \in [Conns -> Stages]
      /\ next \in [Conns -> Nat \ {0}]
  BY DEF Init, Stages
<1>2. /\ code \in [Conns -> {"ok", "deadlock", "other", "empty"}] /\ retry \in [Conns -> Nat]
      /\ link \in [Conns -> {"up", "reopen", "null"}] /\ attempts \in [Conns -> Nat]
  BY DEF Init
<1>3. open \in [Conns -> BOOLEAN] /\ pending \in [Conns -> Nat]
  BY DEF Init
<1>4. DOMAIN db = Trans /\ \A t \in Trans : db[t] \in [1..Size[t] -> Nat]
  BY DEF Init
<1>5. told \in [Trans -> {"none", "yes", "no", "void"}] /\ queue \in Seq(Trans)
  BY DEF Init
<1>6. TypeOK
  BY <1>1, <1>2, <1>3, <1>4, <1>5 DEF Init, TypeOK
<1>7. \A c \in Conns : SessionSound(c)
  BY DEF Init, SessionSound
<1>8. QED BY <1>6, <1>7 DEF Inv

\* What spoils a transaction.
LEMMA SpoilSound ==
  ASSUME Inv, NEW c \in Conns, stage[c] \in Sending, NEW there, Spoil(c, there)
  PROVE  /\ task[c] \in Trans
         /\ spoiled' \in SUBSET Trans /\ spoiled \subseteq spoiled'
         /\ spoiled' \subseteq spoiled \cup {task[c]}
         /\ stage[c] \in there => task[c] \in spoiled'
<1>1. task[c] \in Trans
  BY DEF Inv, TypeOK, SessionSound, Sending
<1>2. spoiled \in SUBSET Trans
  BY DEF Inv, TypeOK
<1>3. QED BY <1>1, <1>2 DEF Spoil

\* One round trip of ExecuteTransaction.
LEMMA CallInv ==
  ASSUME Inv, NEW c \in Conns,
         \/ BeginTransaction(c) \/ ExecuteInside(c) \/ ExecuteAlone(c)
         \/ CommitTransaction(c) \/ CommitRefused(c) \/ RollbackTransaction(c)
  PROVE  Inv'
<1>1. /\ UNCHANGED <<link, attempts, lost, aborted, asked, queue, task, code, retry, deadlockLock, told>>
      /\ link[c] = "up" /\ stage[c] \in Sending /\ GoOn(c)
  BY DEF BeginTransaction, ExecuteInside, ExecuteAlone, CommitTransaction, CommitRefused,
         RollbackTransaction, Call, Sending, linkVars
<1>2. /\ stage' \in [Conns -> Stages] /\ next' \in [Conns -> Nat \ {0}]
      /\ \A d \in Conns : d # c => stage'[d] = stage[d]
      /\ stage'[c] \in {"work", "commit", "return"}
      /\ stage[c] \in {"begin", "work"} => stage'[c] \in {"work", "commit"}
  BY <1>1, GoOnSound DEF Sending
<1>3. task[c] \in Trans
  BY <1>1 DEF Inv, TypeOK, SessionSound, Sending
<1>4. /\ open' \in [Conns -> BOOLEAN] /\ pending' \in [Conns -> Nat]
      /\ \A d \in Conns : d # c => open'[d] = open[d]
      /\ open'[c] => stage'[c] \in {"work", "commit"}
      /\ DOMAIN db' = Trans /\ \A t \in Trans : db'[t] \in [1..Size[t] -> Nat]
      /\ spoiled' \in SUBSET Trans
  <2>1. CASE BeginTransaction(c)
    BY <1>2, <2>1 DEF BeginTransaction, Call, Inv, TypeOK
  <2>2. CASE ExecuteInside(c)
    BY <1>2, <2>2 DEF ExecuteInside, Call, Inv, TypeOK
  <2>3. CASE ExecuteAlone(c)
    <3>1. UNCHANGED <<open, pending>> /\ ~open[c] /\ db' = Applied(task[c], next[c], next[c])
      BY <2>3 DEF ExecuteAlone
    <3>2. DOMAIN db' = Trans /\ \A t \in Trans : db'[t] \in [1..Size[t] -> Nat]
      BY <1>3, <3>1, AppliedType DEF Inv
    <3>3. QED BY <2>3, <3>1, <3>2 DEF ExecuteAlone, Inv, TypeOK
  <2>4. CASE CommitTransaction(c)
    <3>1. DOMAIN db' = Trans /\ \A t \in Trans : db'[t] \in [1..Size[t] -> Nat]
      BY <1>3, <2>4, AppliedType DEF Inv, CommitTransaction
    <3>2. QED BY <2>4, <3>1, SessionEndsSound DEF CommitTransaction, Inv, TypeOK
  <2>5. CASE RollbackTransaction(c)
    BY <2>5, SessionEndsSound DEF RollbackTransaction, Inv, TypeOK
  <2>6. CASE CommitRefused(c)
    <3>1. SessionEnds(c) /\ db' = db /\ Spoil(c, {"commit"})
      BY <2>6 DEF CommitRefused
    <3>2. QED BY <1>1, <3>1, SessionEndsSound, SpoilSound DEF Inv, TypeOK
  <2>7. QED BY <2>1, <2>2, <2>3, <2>4, <2>5, <2>6
<1>5. TypeOK'
  BY <1>1, <1>2, <1>4 DEF Inv, TypeOK
<1>6. \A d \in Conns : SessionSound(d)'
  <2> SUFFICES ASSUME NEW d \in Conns PROVE SessionSound(d)'
    OBVIOUS
  <2>1. CASE d = c
    BY <1>1, <1>2, <1>3, <1>4, <2>1, TransactionsAssumption DEF Inv, SessionSound
  <2>2. CASE d # c
    BY <1>1, <1>2, <1>4, <2>2 DEF Inv, SessionSound
  <2>3. QED BY <2>1, <2>2
<1>7. QED BY <1>5, <1>6 DEF Inv

\* A statement fails, or nothing can be sent.
LEMMA FailureInv ==
  ASSUME Inv, NEW c \in Conns,
         SendNothing(c) \/ \E e \in {"deadlock", "other"} : StatementFails(c, e)
  PROVE  Inv'
<1>1. /\ UNCHANGED <<link, attempts, lost, aborted, asked, queue, task, retry, deadlockLock, told, db>>
      /\ stage[c] \in Sending
  BY DEF SendNothing, StatementFails, Sending, linkVars, serverVars
<1>2. spoiled' \in SUBSET Trans
  <2>1. CASE SendNothing(c)
    BY <1>1, <2>1, SpoilSound DEF SendNothing
  <2>2. CASE \E e \in {"deadlock", "other"} : StatementFails(c, e)
    BY <2>2 DEF StatementFails, Inv, TypeOK
  <2>3. QED BY <2>1, <2>2
<1>3. /\ stage' \in [Conns -> Stages] /\ next' \in [Conns -> Nat \ {0}]
      /\ \A d \in Conns : d # c => stage'[d] = stage[d]
      /\ stage'[c] \in {"work", "rollback", "commit", "return"}
      /\ code' \in [Conns -> {"ok", "deadlock", "other", "empty"}]
      /\ open' \in [Conns -> BOOLEAN] /\ pending' \in [Conns -> Nat]
      /\ \A d \in Conns : d # c => open'[d] = open[d]
      /\ open'[c] => open[c] /\ stage'[c] = "rollback"
  <2>1. ASSUME SendNothing(c), stage[c] = "work"
        PROVE  /\ stage' = [stage EXCEPT ![c] = "rollback"] /\ UNCHANGED <<next, open, pending>>
               /\ code' \in [Conns -> {"ok", "deadlock", "other", "empty"}]
    BY <2>1 DEF SendNothing, serverVars, Inv, TypeOK
  <2>2. CASE SendNothing(c) /\ stage[c] = "work"
    BY <2>1, <2>2 DEF Inv, TypeOK, Stages
  <2>3. CASE SendNothing(c) /\ stage[c] # "work"
    <3>1. GoOn(c) /\ code' = code /\ UNCHANGED <<open, pending>> /\ link[c] = "null"
      BY <2>3 DEF SendNothing, serverVars
    <3>2. ~open[c]
      BY <3>1 DEF Inv, SessionSound
    <3>3. stage'[c] \in {"work", "return"}
      BY <1>1, <2>3, <3>1, GoOnSound DEF Sending
    <3>4. QED BY <1>1, <3>1, <3>2, <3>3, GoOnSound DEF Inv, TypeOK
  <2>4. ASSUME NEW e \in {"deadlock", "other"}, StatementFails(c, e)
        PROVE  <<stage', code', next'>> = <<[stage EXCEPT ![c] = "rollback"], [code EXCEPT ![c] = e], next>>
    BY <2>4 DEF StatementFails
  <2>5. ASSUME NEW e \in {"deadlock", "other"}, StatementFails(c, e)
        PROVE  /\ open' \in [Conns -> BOOLEAN] /\ pending' \in [Conns -> Nat]
               /\ \A d \in Conns : d # c => open'[d] = open[d]
               /\ open'[c] => open[c]
    <3>1. CASE e = "deadlock"
      BY <2>5, <3>1, SessionEndsSound DEF StatementFails
    <3>2. CASE e # "deadlock"
      BY <2>5, <3>2 DEF StatementFails, Inv, TypeOK
    <3>3. QED BY <3>1, <3>2
  <2>6. ASSUME NEW e \in {"deadlock", "other"}, StatementFails(c, e)
        PROVE  /\ stage' \in [Conns -> Stages] /\ next' \in [Conns -> Nat \ {0}]
               /\ \A d \in Conns : d # c => stage'[d] = stage[d]
               /\ stage'[c] = "rollback"
               /\ code' \in [Conns -> {"ok", "deadlock", "other", "empty"}]
    BY <2>4, <2>6 DEF Inv, TypeOK, Stages
  <2>7. QED BY <2>2, <2>3, <2>5, <2>6
<1>4. TypeOK'
  BY <1>1, <1>3, <1>2 DEF Inv, TypeOK
<1>5. \A d \in Conns : SessionSound(d)'
  <2> SUFFICES ASSUME NEW d \in Conns PROVE SessionSound(d)'
    OBVIOUS
  <2>1. CASE d = c
    BY <1>1, <1>3, <2>1, TransactionsAssumption DEF Inv, SessionSound, Sending
  <2>2. CASE d # c
    BY <1>1, <1>3, <2>2 DEF Inv, SessionSound
  <2>3. QED BY <2>1, <2>2
<1>6. QED BY <1>4, <1>5 DEF Inv

\* The connection is lost, and opened again or not.
LEMMA LoseInv ==
  ASSUME Inv, NEW c \in Conns, Lose(c)
  PROVE  Inv'
<1>1. /\ UNCHANGED <<asked, queue, task, stage, next, code, retry, deadlockLock, told, aborted>>
      /\ stage[c] \in Sending /\ link[c] = "up" /\ lost' = lost + 1 /\ SessionEnds(c)
      /\ link' = [link EXCEPT ![c] = "reopen"] /\ attempts' = [attempts EXCEPT ![c] = Attempts]
      /\ Spoil(c, {"work", "commit"})
  BY DEF Lose, clientVars
<1>2. task[c] \in Trans
  BY <1>1 DEF Inv, TypeOK, SessionSound, Sending
<1>3. DOMAIN db' = Trans /\ \A t \in Trans : db'[t] \in [1..Size[t] -> Nat]
  <2>1. CASE db' = db
    BY <2>1 DEF Inv, TypeOK
  <2>2. CASE db' = Applied(task[c], next[c], next[c]) \/ db' = Applied(task[c], 1, pending[c])
    BY <1>2, <2>2, AppliedType DEF Inv
  <2>3. QED BY <2>1, <2>2 DEF Lose
<1>4. /\ link' \in [Conns -> {"up", "reopen", "null"}] /\ attempts' \in [Conns -> Nat]
      /\ lost' \in Nat
  BY <1>1, TransactionsAssumption DEF Inv, TypeOK
<1>5. TypeOK'
  BY <1>1, <1>3, <1>4, SessionEndsSound, SpoilSound DEF Inv, TypeOK
<1>6. \A d \in Conns : SessionSound(d)'
  <2> SUFFICES ASSUME NEW d \in Conns PROVE SessionSound(d)'
    OBVIOUS
  <2>1. CASE d = c
    BY <1>1, <2>1, SessionEndsSound, TransactionsAssumption DEF Inv, TypeOK, SessionSound
  <2>2. CASE d # c
    BY <1>1, <2>2, SessionEndsSound DEF Inv, TypeOK, SessionSound
  <2>3. QED BY <2>1, <2>2
<1>7. QED BY <1>5, <1>6 DEF Inv

LEMMA LinkInv ==
  ASSUME Inv, NEW c \in Conns, Reopen(c) \/ HostError(c) \/ OtherError(c)
  PROVE  Inv'
<1>1. /\ UNCHANGED <<clientVars, serverVars, lost, spoiled>>
      /\ link[c] = "reopen" /\ ~aborted
  BY DEF Reopen, HostError, OtherError
<1>2. /\ link' \in [Conns -> {"up", "reopen", "null"}]
      /\ \A d \in Conns : d # c => link'[d] = link[d]
  BY DEF Reopen, HostError, OtherError, Inv, TypeOK
<1>3. ASSUME HostError(c)
      PROVE  /\ attempts' \in [Conns -> Nat] /\ aborted' \in BOOLEAN
             /\ \A d \in Conns : d # c => attempts'[d] = attempts[d]
             /\ ~aborted' => attempts'[c] > 0
  <2>1. attempts[c] \in Nat /\ attempts[c] > 0
    BY <1>1 DEF Inv, TypeOK, SessionSound
  <2>2. attempts' = [attempts EXCEPT ![c] = attempts[c] - 1] /\ aborted' = (attempts[c] = 1)
    BY <1>3 DEF HostError
  <2>3. attempts[c] - 1 \in Nat /\ (attempts[c] # 1 => attempts[c] - 1 > 0)
    BY <2>1
  <2>4. QED BY <2>2, <2>3 DEF Inv, TypeOK
<1>4. /\ attempts' \in [Conns -> Nat] /\ aborted' \in BOOLEAN
      /\ \A d \in Conns : link'[d] = "reopen" /\ ~aborted' => attempts'[d] > 0
  <2>1. CASE HostError(c)
    BY <1>1, <1>2, <1>3, <2>1 DEF HostError, Inv, SessionSound
  <2>2. CASE Reopen(c) \/ OtherError(c)
    BY <1>1, <1>2, <2>2 DEF Reopen, OtherError, Inv, TypeOK, SessionSound
  <2>3. QED BY <2>1, <2>2
<1>5. TypeOK'
  BY <1>1, <1>2, <1>4 DEF Inv, TypeOK, clientVars, serverVars
<1>6. \A d \in Conns : SessionSound(d)'
  BY <1>1, <1>2, <1>4 DEF Inv, SessionSound, clientVars, serverVars
<1>7. QED BY <1>5, <1>6 DEF Inv

\* A connection takes, repeats or ends a transaction: the server sees none of it.
TaskMoves(c) ==
  /\ UNCHANGED <<linkVars, serverVars, spoiled>>
  /\ stage[c] \in {"idle", "return", "lock"}
  /\ task' \in [Conns -> Trans \cup {Null}] /\ stage' \in [Conns -> Stages]
  /\ \A d \in Conns : d # c => task'[d] = task[d] /\ stage'[d] = stage[d]
  /\ task'[c] = Null <=> stage'[c] = "idle"
  /\ next' \in [Conns -> Nat \ {0}] /\ retry' \in [Conns -> Nat]
  /\ code' \in [Conns -> {"ok", "deadlock", "other", "empty"}]
  /\ told' \in [Trans -> {"none", "yes", "no", "void"}]
  /\ asked' \in SUBSET Trans /\ queue' \in Seq(Trans)
  /\ deadlockLock' \in Async \cup {Null}

LEMMA TaskInv ==
  ASSUME Inv, NEW c \in Conns, TaskMoves(c)
  PROVE  Inv'
<1>1. TypeOK'
  BY DEF Inv, TypeOK, TaskMoves, linkVars, serverVars
<1>2. \A d \in Conns : SessionSound(d)'
  <2> SUFFICES ASSUME NEW d \in Conns PROVE SessionSound(d)'
    OBVIOUS
  <2>1. CASE d = c
    BY <2>1 DEF Inv, SessionSound, TaskMoves, linkVars, serverVars
  <2>2. CASE d # c
    BY <2>2 DEF Inv, SessionSound, TaskMoves, linkVars, serverVars
  <2>3. QED BY <2>1, <2>2
<1>3. QED BY <1>1, <1>2 DEF Inv

LEMMA TakeInv ==
  ASSUME Inv, NEW c \in Conns, Take(c) \/ \E t \in Trans : DirectCommit(c, t)
  PROVE  Inv'
<1>1. /\ UNCHANGED <<linkVars, serverVars, spoiled, deadlockLock, told>>
      /\ task[c] = Null /\ retry' = [retry EXCEPT ![c] = 0]
  BY DEF Take, DirectCommit
<1>2. \E t \in Trans : Start(c, t)
  BY DEF Take, DirectCommit, Inv, TypeOK
<1>3. asked' \in SUBSET Trans /\ queue' \in Seq(Trans)
  <2>1. CASE Take(c)
    <3>1. queue # <<>> /\ queue' = Tail(queue) /\ asked' = asked
      BY <2>1 DEF Take
    <3>2. QED BY <3>1 DEF Inv, TypeOK
  <2>2. ASSUME NEW t \in Trans, DirectCommit(c, t) PROVE asked' \in SUBSET Trans /\ queue' \in Seq(Trans)
    BY <2>2 DEF DirectCommit, Inv, TypeOK
  <2>3. QED BY <2>1, <2>2
<1>4. retry' \in [Conns -> Nat] /\ stage[c] = "idle"
  BY <1>1 DEF Inv, TypeOK, SessionSound
<1>5. told' \in [Trans -> {"none", "yes", "no", "void"}] /\ deadlockLock' \in Async \cup {Null}
  BY <1>1 DEF Inv, TypeOK
<1>6. PICK t \in Trans : Start(c, t)
  BY <1>2
<1>7. task'[c] # Null /\ stage'[c] # "idle"
  BY <1>6, StartSound, TransactionsAssumption
<1>8. TaskMoves(c)
  BY <1>1, <1>3, <1>4, <1>5, <1>6, <1>7, StartSound DEF TaskMoves
<1>9. QED BY <1>8, TaskInv

\* A transaction is executed again.
LEMMA AgainInv ==
  ASSUME Inv, NEW c \in Conns,
         \/ c \in Async /\ (LockAndRetry(c) \/ RetryAgain(c))
         \/ DirectExecuted(c) /\ Start(c, task[c]) /\ retry' = [retry EXCEPT ![c] = @ + 1]
            /\ UNCHANGED told
  PROVE  Inv'
<1>1. /\ UNCHANGED <<linkVars, serverVars, spoiled, asked, queue, told>>
      /\ stage[c] \in {"return", "lock"} /\ Start(c, task[c])
  BY DEF LockAndRetry, RetryAgain, DirectExecuted
<1>2. task[c] \in Trans
  BY <1>1 DEF Inv, TypeOK, SessionSound
<1>3. retry' \in [Conns -> Nat]
  <2>1. retry' = [retry EXCEPT ![c] = 1] \/ retry' = retry \/ retry' = [retry EXCEPT ![c] = retry[c] + 1]
    BY DEF LockAndRetry, RetryAgain
  <2>2. retry[c] + 1 \in Nat /\ retry \in [Conns -> Nat]
    BY DEF Inv, TypeOK
  <2>3. QED BY <2>1, <2>2
<1>4. deadlockLock' \in Async \cup {Null}
  BY DEF LockAndRetry, RetryAgain, DirectExecuted, Inv, TypeOK
<1>5. asked' \in SUBSET Trans /\ queue' \in Seq(Trans)
      /\ told' \in [Trans -> {"none", "yes", "no", "void"}]
  BY <1>1 DEF Inv, TypeOK
<1>6. task[c] # Null
  BY <1>2, TransactionsAssumption
<1>7. TaskMoves(c)
  BY <1>1, <1>2, <1>3, <1>4, <1>5, <1>6, StartSound DEF TaskMoves
<1>8. QED BY <1>7, TaskInv

\* A transaction ends.
LEMMA EndInv ==
  ASSUME Inv, NEW c \in Conns, NEW answer \in {"yes", "no", "void"}, End(c, answer),
         stage[c] = "return", UNCHANGED <<linkVars, serverVars, spoiled, asked, queue>>,
         deadlockLock' \in {deadlockLock, Null}
  PROVE  Inv'
<1>1. TaskMoves(c)
  BY SMTT(30), EndSound DEF TaskMoves, Inv, TypeOK
<1>2. QED BY <1>1, TaskInv

LEMMA ExecutedInv ==
  ASSUME Inv, NEW c \in Conns, Executed(c)
  PROVE  Inv'
<1>1. UNCHANGED <<linkVars, serverVars, spoiled, asked, queue, deadlockLock>> /\ stage[c] = "return"
  BY DEF Executed
<1>2. CASE code[c] = "deadlock"
  <2>1. stage' = [stage EXCEPT ![c] = "lock"] /\ UNCHANGED <<task, next, code, retry, told>>
    BY <1>2 DEF Executed
  <2>2. /\ stage' \in [Conns -> Stages] /\ stage'[c] = "lock"
        /\ \A d \in Conns : d # c => stage'[d] = stage[d]
    BY <2>1 DEF Inv, TypeOK, Stages
  <2>3. task[c] # Null
    BY <1>1 DEF Inv, SessionSound
  <2>4. TaskMoves(c)
    BY <1>1, <2>1, <2>2, <2>3 DEF TaskMoves, Inv, TypeOK
  <2>5. QED BY <2>4, TaskInv
<1>3. CASE code[c] # "deadlock"
  <2>1. \E answer \in {"yes", "no", "void"} : End(c, answer)
    BY <1>3 DEF Executed
  <2>2. QED BY <1>1, <2>1, EndInv
<1>4. QED BY <1>2, <1>3

LEMMA TerminateInv ==
  ASSUME Inv, NEW c \in Conns, Terminate(c)
  PROVE  Inv'
<1>1. UNCHANGED <<clientVars, serverVars, link, attempts, lost, spoiled>> /\ aborted' = TRUE
  BY DEF Terminate
<1>2. TypeOK'
  BY <1>1 DEF Inv, TypeOK, clientVars, serverVars
<1>3. \A d \in Conns : SessionSound(d)'
  BY <1>1 DEF Inv, SessionSound, clientVars, serverVars
<1>4. QED BY <1>2, <1>3 DEF Inv

LEMMA EnqueueInv ==
  ASSUME Inv, NEW t \in Trans, Enqueue(t)
  PROVE  Inv'
<1>1. /\ UNCHANGED <<linkVars, serverVars, spoiled, task, stage, next, code, retry, deadlockLock, told>>
      /\ asked' \in SUBSET Trans /\ queue' \in Seq(Trans)
  BY DEF Enqueue, Inv, TypeOK
<1>2. TypeOK'
  BY <1>1 DEF Inv, TypeOK, linkVars, serverVars
<1>3. \A d \in Conns : SessionSound(d)'
  BY <1>1 DEF Inv, SessionSound, linkVars, serverVars
<1>4. QED BY <1>2, <1>3 DEF Inv

LEMMA NextInv == Inv /\ [Next]_vars => Inv'
<1> SUFFICES ASSUME Inv, [Next]_vars PROVE Inv'
  OBVIOUS
<1>1. ASSUME NEW t \in Trans, Enqueue(t) PROVE Inv'
  BY <1>1, EnqueueInv
<1>2. ASSUME NEW t \in Trans, NEW c \in Sync, DirectCommit(c, t) PROVE Inv'
  BY <1>2, TakeInv DEF Conns
<1>3. ASSUME NEW c \in Conns, Progress(c) \/ Trouble(c) PROVE Inv'
  <2>1. CASE \/ BeginTransaction(c) \/ ExecuteInside(c) \/ ExecuteAlone(c)
             \/ CommitTransaction(c) \/ CommitRefused(c) \/ RollbackTransaction(c)
    BY <2>1, CallInv
  <2>2. CASE SendNothing(c) \/ \E e \in {"deadlock", "other"} : StatementFails(c, e)
    BY <2>2, FailureInv
  <2>3. CASE Lose(c)
    BY <2>3, LoseInv
  <2>4. CASE Reopen(c) \/ HostError(c) \/ OtherError(c)
    BY <2>4, LinkInv
  <2>5. CASE Take(c)
    BY <2>5, TakeInv
  <2>6. CASE Executed(c)
    BY <2>6, ExecutedInv
  <2>7. CASE c \in Async /\ (LockAndRetry(c) \/ RetryAgain(c))
    BY <2>7, AgainInv
  <2>8. CASE RetrySucceeds(c) \/ GiveUp(c)
    <3>1. /\ \E answer \in {"yes", "no", "void"} : End(c, answer)
          /\ stage[c] = "return" /\ UNCHANGED <<linkVars, serverVars, spoiled, asked, queue>>
          /\ deadlockLock' = Null
      BY <2>8 DEF RetrySucceeds, GiveUp
    <3>2. QED BY <3>1, EndInv
  <2>9. CASE DirectExecuted(c)
    <3>1. /\ stage[c] = "return" /\ UNCHANGED <<linkVars, serverVars, spoiled, asked, queue, deadlockLock>>
          /\ \/ Start(c, task[c]) /\ retry' = [retry EXCEPT ![c] = @ + 1] /\ UNCHANGED told
             \/ End(c, "void")
      BY <2>9 DEF DirectExecuted
    <3>2. CASE End(c, "void")
      BY <3>1, <3>2, EndInv
    <3>3. CASE Start(c, task[c]) /\ retry' = [retry EXCEPT ![c] = @ + 1] /\ UNCHANGED told
      BY <2>9, <3>3, AgainInv
    <3>4. QED BY <3>1, <3>2, <3>3
  <2>10. QED
    BY <1>3, <2>1, <2>2, <2>3, <2>4, <2>5, <2>6, <2>7, <2>8, <2>9, TerminateInv DEF Progress, Trouble
<1>4. CASE UNCHANGED vars
  <2>1. UNCHANGED <<clientVars, linkVars, serverVars, spoiled>>
    BY <1>4 DEF vars
  <2>2. TypeOK'
    BY <2>1 DEF Inv, TypeOK, clientVars, linkVars, serverVars
  <2>3. \A d \in Conns : SessionSound(d)'
    BY <2>1 DEF Inv, SessionSound, clientVars, linkVars, serverVars
  <2>4. QED BY <2>2, <2>3 DEF Inv
<1>5. QED BY <1>1, <1>2, <1>3, <1>4 DEF Next, Finished

LEMMA InvHolds == Spec => []Inv
BY InitInv, NextInv, PTL DEF Spec

\* Every reachable state of the connections, the queue and the store is well typed.
THEOREM TransactionsTypeCorrect == Spec => []TypeOK
<1>1. Inv => TypeOK
  BY DEF Inv
<1>2. QED BY <1>1, InvHolds, PTL

\* However often statements fail, deadlock or lose the server, a connection that is
\* done with a transaction has left none open in its session.
THEOREM SessionsLeftClosed == Spec => []NothingLeftOpen
<1>1. Inv => NothingLeftOpen
  BY DEF Inv, SessionSound, NothingLeftOpen
<1>2. QED BY <1>1, InvHolds, PTL

-----------------------------------------------------------------------------
(***************************************************************************)
(* A transaction is in one place: in the queue, or executed by one         *)
(* connection, or over.  If it is not spoiled, the store has all of it     *)
(* from the COMMIT on, and nothing before.                                 *)
(***************************************************************************)

Committed(c) == stage[c] = "return" /\ code[c] = "ok"

\* The session has executed exactly the statements that were sent since START TRANSACTION.
Following(c) ==
  /\ stage[c] = "begin" => next[c] = 1 /\ Size[task[c]] > 0
  /\ stage[c] \in {"work", "commit"} => open[c] /\ next[c] = pending[c] + 1
  /\ stage[c] = "work" => next[c] =< Size[task[c]]
  /\ stage[c] = "commit" => pending[c] = Size[task[c]]
  /\ stage[c] \in {"begin", "work", "commit"} => code[c] = "ok"
  /\ stage[c] \in {"rollback", "lock"} => code[c] # "ok"
  /\ Committed(c) => Everything(task[c])

InStep(c) ==
  /\ ~open[c] => pending[c] = 0
  /\ task[c] \notin spoiled => Following(c)

\* Each transaction is in one place.
Placed ==
  /\ \A i, j \in 1..Len(queue) : queue[i] = queue[j] => i = j
  /\ \A c, d \in Conns : task[c] = task[d] /\ task[c] # Null => c = d
  /\ \A c \in Conns : \A i \in 1..Len(queue) : task[c] # queue[i]

\* The transactions in the queue and on connections are asked for and not over.
Unanswered ==
  /\ \A i \in 1..Len(queue) : queue[i] \in asked /\ told[queue[i]] = "none"
  /\ \A c \in Conns : task[c] # Null => task[c] \in asked /\ told[task[c]] = "none"
  /\ \A t \in Trans \ asked : told[t] = "none"

\* What the store has of each transaction.
Kept ==
  \A t \in Trans \ spoiled :
    /\ told[t] = "none" /\ (\A c \in Conns : task[c] = t => ~Committed(c)) => Nothing(t)
    /\ told[t] = "yes" => Everything(t)
    /\ told[t] = "no" => Nothing(t)
    /\ told[t] = "void" => Nothing(t) \/ Everything(t)

Truthful == Inv /\ (\A c \in Conns : InStep(c)) /\ Placed /\ Unanswered /\ Kept

LEMMA InitTruthful == Init => Truthful
<1> SUFFICES ASSUME Init PROVE Truthful
  OBVIOUS
<1>1. Inv
  BY InitInv
<1>2. \A c \in Conns : InStep(c)
  BY DEF Init, InStep, Following, Committed
<1>3. Placed
  BY DEF Init, Placed
<1>4. Unanswered
  BY DEF Init, Unanswered
<1>5. \A t \in Trans : Nothing(t)
  BY DEF Init, Nothing
<1>6. Kept
  BY <1>5 DEF Init, Kept
<1>7. QED BY <1>1, <1>2, <1>3, <1>4, <1>6 DEF Truthful

\* A step that leaves connection d alone.
Same(d) ==
  /\ task'[d] = task[d] /\ stage'[d] = stage[d] /\ next'[d] = next[d] /\ code'[d] = code[d]
  /\ open'[d] = open[d] /\ pending'[d] = pending[d]

LEMMA SameInStep ==
  ASSUME NEW d \in Conns, InStep(d), Same(d), spoiled \subseteq spoiled',
         Committed(d) /\ task[d] \notin spoiled' => db'[task[d]] = db[task[d]]
  PROVE  InStep(d)' /\ (Committed(d)' <=> Committed(d))
<1>1. Committed(d)' <=> Committed(d)
  BY DEF Same, Committed
<1>2. ~open'[d] => pending'[d] = 0
  BY DEF Same, InStep
<1>3. ASSUME task'[d] \notin spoiled' PROVE Following(d)'
  <2>1. task[d] \notin spoiled' /\ Following(d)
    BY <1>3 DEF Same, InStep
  <2>2. Committed(d)' => Everything(task[d])'
    BY <1>1, <2>1 DEF Same, Following, Everything
  <2>3. QED BY <1>1, <2>1, <2>2 DEF Same, Following
<1>4. QED BY <1>1, <1>2, <1>3 DEF InStep

\* What the store has of a transaction is what its row of db says.
LEMMA SameRow ==
  ASSUME NEW t \in Trans, db'[t] = db[t]
  PROVE  (Nothing(t)' <=> Nothing(t)) /\ (Everything(t)' <=> Everything(t))
BY DEF Nothing, Everything

\* ExecuteTransaction begins, for the first time or again.
LEMMA StartTruthful ==
  ASSUME Truthful, Inv', NEW c \in Conns, NEW t \in Trans, Start(c, t), ~Committed(c),
         UNCHANGED <<linkVars, serverVars, spoiled, told>>, ~open[c],
         \A d \in Conns : d # c => task[d] # t,
         \A i \in 1..Len(queue') : queue'[i] # t /\ \E j \in 1..Len(queue) : queue'[i] = queue[j],
         \A i, j \in 1..Len(queue') : queue'[i] = queue'[j] => i = j,
         told[t] = "none", asked' = asked \cup {t}
  PROVE  Truthful'
<1>1. /\ \A d \in Conns : d # c => task'[d] = task[d] /\ stage'[d] = stage[d]
                                   /\ code'[d] = code[d] /\ next'[d] = next[d]
      /\ task'[c] = t /\ next'[c] = 1
      /\ stage'[c] = IF Size[t] = 0 THEN "return" ELSE "begin"
      /\ code'[c] = IF Size[t] = 0 THEN "empty" ELSE "ok"
  BY DEF Truthful, Inv, TypeOK, Start
<1>2. open' = open /\ pending' = pending /\ db' = db /\ told' = told
  BY DEF linkVars, serverVars
<1>3. ~Committed(c)'
  BY <1>1 DEF Committed
<1>4. \A d \in Conns : d # c => InStep(d)' /\ (Committed(d)' <=> Committed(d))
  BY <1>1, <1>2, SameInStep DEF Truthful, Same
<1>5. InStep(c)'
  <2>1. Size[t] \in Nat
    BY TransactionsAssumption
  <2>2. pending[c] = 0
    BY DEF Truthful, InStep
  <2>3. QED BY <1>1, <1>2, <1>3, <2>1, <2>2 DEF InStep, Following
<1>6. Placed'
  <2>1. ASSUME NEW d \in Conns, NEW e \in Conns, task'[d] = task'[e], task'[d] # Null
        PROVE d = e
    BY <1>1, <2>1 DEF Truthful, Placed
  <2>2. ASSUME NEW d \in Conns, NEW i \in 1..Len(queue') PROVE task'[d] # queue'[i]
    BY <1>1, <2>2 DEF Truthful, Placed
  <2>3. QED BY <2>1, <2>2 DEF Placed
<1>7. Unanswered'
  <2>1. ASSUME NEW i \in 1..Len(queue') PROVE queue'[i] \in asked' /\ told'[queue'[i]] = "none"
    BY <1>2, <2>1 DEF Truthful, Unanswered
  <2>2. ASSUME NEW d \in Conns, task'[d] # Null
        PROVE task'[d] \in asked' /\ told'[task'[d]] = "none"
    BY <1>1, <1>2, <2>2 DEF Truthful, Unanswered
  <2>3. \A u \in Trans \ asked' : told'[u] = "none"
    BY <1>2 DEF Truthful, Unanswered
  <2>4. QED BY <2>1, <2>2, <2>3 DEF Unanswered
<1>8. ASSUME NEW u \in Trans
      PROVE  /\ told'[u] = "none" /\ (\A d \in Conns : task'[d] = u => ~Committed(d)')
                => \A d \in Conns : task[d] = u => ~Committed(d)
  BY <1>1, <1>4
<1>9. Kept'
  <2>1. ASSUME NEW u \in Trans PROVE (Nothing(u)' <=> Nothing(u)) /\ (Everything(u)' <=> Everything(u))
    BY <1>2, SameRow
  <2>2. QED BY <1>2, <1>8, <2>1 DEF Truthful, Kept
<1>10. QED BY <1>4, <1>5, <1>6, <1>7, <1>9 DEF Truthful

\* A call of ExecuteTransaction that the store does not see, or sees of a transaction that
\* is spoiled.
LEMMA CallTruthful ==
  ASSUME Truthful, Inv', NEW c \in Conns, InStep(c)', ~Committed(c),
         \A d \in Conns : d # c => Same(d),
         UNCHANGED <<asked, queue, task, told>>,
         spoiled \subseteq spoiled', \A u \in Trans \ spoiled' : db'[u] = db[u]
  PROVE  Truthful'
<1>1. ASSUME NEW d \in Conns, d # c PROVE InStep(d)' /\ (Committed(d)' <=> Committed(d))
  <2>1. Committed(d) => task[d] \in Trans
    BY DEF Committed, Truthful, Inv, TypeOK, SessionSound
  <2>2. QED BY <1>1, <2>1, SameInStep DEF Truthful
<1>2. Placed' /\ Unanswered'
  BY DEF Truthful, Placed, Unanswered
<1>3. Kept'
  <2>1. ASSUME NEW u \in Trans \ spoiled'
        PROVE (Nothing(u)' <=> Nothing(u)) /\ (Everything(u)' <=> Everything(u))
    BY SameRow
  <2>2. ASSUME NEW u \in Trans, \A d \in Conns : task'[d] = u => ~Committed(d)'
        PROVE  \A d \in Conns : task[d] = u => ~Committed(d)
    BY <1>1, <2>2
  <2>3. QED BY <2>1, <2>2 DEF Truthful, Kept
<1>4. QED BY <1>1, <1>2, <1>3 DEF Truthful

\* A call of ExecuteTransaction changes a row of the store only if it is the one executed,
\* and then that transaction is spoiled; a COMMIT that is carried out is treated below.
LEMMA Outside ==
  ASSUME Truthful, NEW c \in Conns,
         \/ ExecuteAlone(c) \/ Lose(c)
         \/ CommitTransaction(c) /\ task[c] \in spoiled
  PROVE  /\ task[c] \in Trans /\ (db' # db => task[c] \in spoiled')
         /\ \A u \in Trans : u # task[c] => db'[u] = db[u]
         /\ spoiled \subseteq spoiled'
<1>1. stage[c] \in Sending /\ task[c] \in Trans
  BY DEF ExecuteAlone, Lose, CommitTransaction, Call, Sending, Truthful, Inv, TypeOK, SessionSound
<1>2. \/ db' = db \/ db' = Applied(task[c], next[c], next[c]) \/ db' = Applied(task[c], 1, pending[c])
  BY DEF ExecuteAlone, Lose, CommitTransaction
<1>3. \A u \in Trans : u # task[c] => db'[u] = db[u]
  BY <1>1, <1>2 DEF Applied, Truthful, Inv, TypeOK
<1>4. spoiled \subseteq spoiled'
  BY <1>1, SpoilSound DEF ExecuteAlone, Lose, CommitTransaction, Truthful
<1>5. db' = db \/ task[c] \in spoiled'
  <2>1. CASE ExecuteAlone(c)
    BY <2>1 DEF ExecuteAlone, Call, Truthful, InStep, Following
  <2>2. CASE Lose(c)
    <3>1. db' = db \/ stage[c] \in {"work", "commit"}
      BY <2>2 DEF Lose
    <3>2. Spoil(c, {"work", "commit"})
      BY <2>2 DEF Lose
    <3>3. QED BY <1>1, <3>1, <3>2, SpoilSound DEF Truthful
  <2>3. CASE CommitTransaction(c) /\ task[c] \in spoiled
    BY <2>3 DEF CommitTransaction
  <2>4. QED BY <2>1, <2>2, <2>3
<1>6. QED BY <1>1, <1>3, <1>4, <1>5

\* COMMIT: the store gets all of a transaction it had nothing of.
LEMMA CommitWhole ==
  ASSUME Truthful, NEW c \in Conns, CommitTransaction(c), task[c] \notin spoiled
  PROVE  /\ task[c] \in Trans /\ told[task[c]] = "none"
         /\ Nothing(task[c]) /\ Everything(task[c])'
         /\ \A i \in 1..Size[task[c]] : db'[task[c]][i] = 1
         /\ db' = [db EXCEPT ![task[c]] = [i \in 1..Size[task[c]] |-> 1]]
<1>1. stage[c] = "commit" /\ db' = Applied(task[c], 1, pending[c]) /\ task' = task
  BY DEF CommitTransaction, Call
<1>2. task[c] \in Trans /\ task[c] # Null
  BY <1>1 DEF Truthful, Inv, TypeOK, SessionSound
<1>3. told[task[c]] = "none"
  BY <1>2 DEF Truthful, Unanswered
<1>4. \A d \in Conns : task[d] = task[c] => ~Committed(d)
  BY <1>1, <1>2 DEF Truthful, Placed, Committed
<1>5. Nothing(task[c])
  BY <1>2, <1>3, <1>4 DEF Truthful, Kept
<1>6. pending[c] = Size[task[c]]
  BY <1>1 DEF Truthful, InStep, Following
<1>7. [i \in 1..Size[task[c]] |-> IF i \in 1..pending[c] THEN db[task[c]][i] + 1 ELSE db[task[c]][i]]
        = [i \in 1..Size[task[c]] |-> 1]
  BY <1>5, <1>6 DEF Nothing
<1>8. db' = [db EXCEPT ![task[c]] = [i \in 1..Size[task[c]] |-> 1]]
  BY <1>1, <1>7 DEF Applied
<1>9. \A i \in 1..Size[task[c]] : db'[task[c]][i] = 1
  BY <1>2, <1>8 DEF Truthful, Inv, TypeOK
<1>10. Everything(task[c])'
  BY <1>1, <1>9 DEF Everything
<1>11. QED BY <1>2, <1>3, <1>5, <1>8, <1>9, <1>10

LEMMA CommitTruthful ==
  ASSUME Truthful, Inv', NEW c \in Conns, CommitTransaction(c), task[c] \notin spoiled
  PROVE  Truthful'
<1>1. /\ stage[c] = "commit" /\ stage'[c] = "return" /\ open'[c] = FALSE /\ pending'[c] = 0
      /\ \A d \in Conns : d # c => /\ stage'[d] = stage[d] /\ next'[d] = next[d]
                                   /\ open'[d] = open[d] /\ pending'[d] = pending[d]
  <2>1. TypeOK /\ stage[c] = "commit" /\ GoOn(c) /\ SessionEnds(c)
    BY DEF CommitTransaction, Call, Truthful, Inv
  <2>2. stage'[c] = "return" /\ \A d \in Conns : d # c => stage'[d] = stage[d]
    BY <2>1 DEF GoOn, TypeOK
  <2>3. \A d \in Conns : d # c => next'[d] = next[d]
    BY <2>1 DEF GoOn, TypeOK
  <2>4. QED BY <2>1, <2>2, <2>3 DEF SessionEnds, TypeOK
<1>2. UNCHANGED <<asked, queue, task, told, code, spoiled>>
  BY SMTT(30) DEF CommitTransaction, Call
<1>3. \A u \in Trans : u # task[c] => db'[u] = db[u]
  BY SMTT(30), CommitWhole DEF Truthful, Inv, TypeOK
<1>4. ASSUME NEW d \in Conns, d # c PROVE InStep(d)' /\ (Committed(d)' <=> Committed(d))
  <2>1. Committed(d) => task[d] \in Trans /\ task[d] # task[c]
    BY SMTT(30), <1>4 DEF Committed, Truthful, Inv, TypeOK, SessionSound, Placed
  <2>2. Same(d)
    BY <1>1, <1>2, <1>4 DEF Same
  <2>3. QED BY <1>2, <1>3, <2>1, <2>2, SameInStep DEF Truthful
<1>5. InStep(c)'
  BY <1>1, <1>2, CommitWhole DEF Truthful, InStep, Following
<1>6. Placed' /\ Unanswered'
  BY <1>2 DEF Truthful, Placed, Unanswered
<1>7. Committed(c)'
  BY <1>1, <1>2 DEF Committed, Truthful, InStep, Following
<1>8. Kept'
  <2> SUFFICES ASSUME NEW u \in Trans \ spoiled'
               PROVE /\ told'[u] = "none" /\ (\A d \in Conns : task'[d] = u => ~Committed(d)')
                          => Nothing(u)'
                     /\ told'[u] = "yes" => Everything(u)'
                     /\ told'[u] = "no" => Nothing(u)'
                     /\ told'[u] = "void" => Nothing(u)' \/ Everything(u)'
    BY DEF Kept
  <2>1. CASE u = task[c]
    BY <1>2, <1>7, <2>1, CommitWhole
  <2>2. CASE u # task[c]
    <3>1. (Nothing(u)' <=> Nothing(u)) /\ (Everything(u)' <=> Everything(u))
      BY <1>3, <2>2, SameRow
    <3>2. (\A d \in Conns : task'[d] = u => ~Committed(d)') => \A d \in Conns : task[d] = u => ~Committed(d)
      BY <1>2, <1>4, <2>2
    <3>3. QED BY <1>2, <3>1, <3>2 DEF Truthful, Kept
  <2>3. QED BY <2>1, <2>2
<1>9. QED BY <1>4, <1>5, <1>6, <1>8 DEF Truthful

\* The answer given at the end is what the store has.
LEMMA EndTruth ==
  ASSUME Truthful, NEW c \in Conns, stage[c] = "return", NEW answer \in {"yes", "no", "void"},
         answer = "yes" => code[c] = "ok", answer = "no" => code[c] # "ok"
  PROVE  /\ task[c] \in Trans /\ told[task[c]] = "none"
         /\ task[c] \notin spoiled =>
              /\ answer = "yes" => Everything(task[c])
              /\ answer = "no" => Nothing(task[c])
              /\ Nothing(task[c]) \/ Everything(task[c])
<1>1. task[c] \in Trans /\ task[c] # Null
  BY DEF Truthful, Inv, TypeOK, SessionSound
<1>2. told[task[c]] = "none"
  BY <1>1 DEF Truthful, Unanswered
<1>3. code[c] = "ok" /\ task[c] \notin spoiled => Everything(task[c])
  BY DEF Truthful, InStep, Following, Committed
<1>4. code[c] # "ok" /\ task[c] \notin spoiled => Nothing(task[c])
  <2>1. code[c] # "ok" => \A d \in Conns : task[d] = task[c] => ~Committed(d)
    BY <1>1 DEF Truthful, Placed, Committed
  <2>2. QED BY <1>1, <1>2, <2>1 DEF Truthful, Kept
<1>5. QED BY <1>1, <1>2, <1>3, <1>4

LEMMA EndTruthful ==
  ASSUME Truthful, Inv', NEW c \in Conns, stage[c] = "return", NEW answer \in {"yes", "no", "void"},
         answer = "yes" => code[c] = "ok", answer = "no" => code[c] # "ok",
         End(c, answer), UNCHANGED <<linkVars, serverVars, spoiled, asked, queue>>
  PROVE  Truthful'
<1>1. /\ task'[c] = Null /\ stage'[c] = "idle"
      /\ \A d \in Conns : d # c => task'[d] = task[d] /\ stage'[d] = stage[d]
      /\ told'[task[c]] = answer
      /\ \A u \in Trans : u # task[c] => told'[u] = told[u]
      /\ next' = next /\ code' = code
  BY EndTruth DEF End, Truthful, Inv, TypeOK
<1>2. open' = open /\ pending' = pending /\ db' = db
  BY DEF linkVars, serverVars
<1>3. ~Committed(c)'
  BY <1>1 DEF Committed
<1>4. \A d \in Conns : d # c => InStep(d)' /\ (Committed(d)' <=> Committed(d))
  BY <1>1, <1>2, SameInStep DEF Truthful, Same
<1>5. InStep(c)'
  BY <1>1, <1>2, <1>3 DEF Truthful, InStep, Following
<1>6. Placed'
  <2>1. ASSUME NEW d \in Conns, NEW e \in Conns, task'[d] = task'[e], task'[d] # Null PROVE d = e
    BY <1>1, <2>1 DEF Truthful, Placed
  <2>2. ASSUME NEW d \in Conns, NEW i \in 1..Len(queue) PROVE task'[d] # queue[i]
    <3>1. queue[i] # Null
      <4>1. queue \in Seq(Trans)
        BY DEF Truthful, Inv, TypeOK
      <4>2. queue[i] \in Trans
        BY <4>1
      <4>3. QED BY <4>2, TransactionsAssumption
    <3>2. queue[i] # task[d]
      BY DEF Truthful, Placed
    <3>3. QED BY <1>1, <3>1, <3>2
  <2>3. QED BY <2>1, <2>2 DEF Truthful, Placed
<1>7. Unanswered'
  <2>1. ASSUME NEW i \in 1..Len(queue) PROVE queue[i] \in asked /\ told'[queue[i]] = "none"
    <3>1. queue[i] # task[c] /\ queue[i] \in asked /\ told[queue[i]] = "none"
      BY DEF Truthful, Placed, Unanswered
    <3>2. asked \subseteq Trans
      BY DEF Truthful, Inv, TypeOK
    <3>3. QED BY <1>1, <3>1, <3>2
  <2>2. ASSUME NEW d \in Conns, task'[d] # Null
        PROVE task'[d] \in asked /\ told'[task'[d]] = "none"
    <3>1. d # c /\ task'[d] = task[d] /\ task[d] # task[c] /\ task[d] \in asked /\ told[task[d]] = "none"
      BY <1>1, <2>2 DEF Truthful, Placed, Unanswered
    <3>2. asked \subseteq Trans
      BY DEF Truthful, Inv, TypeOK
    <3>3. QED BY <1>1, <3>1, <3>2
  <2>3. ASSUME NEW u \in Trans \ asked PROVE told'[u] = "none"
    <3>1. task[c] \in asked
      BY EndTruth DEF Truthful, Unanswered, Inv, TypeOK, SessionSound
    <3>2. QED BY <1>1, <2>3, <3>1 DEF Truthful, Unanswered
  <2>4. QED BY <2>1, <2>2, <2>3 DEF Unanswered
<1>8. Kept'
  <2> SUFFICES ASSUME NEW u \in Trans \ spoiled'
               PROVE /\ told'[u] = "none" /\ (\A d \in Conns : task'[d] = u => ~Committed(d)')
                          => Nothing(u)'
                     /\ told'[u] = "yes" => Everything(u)'
                     /\ told'[u] = "no" => Nothing(u)'
                     /\ told'[u] = "void" => Nothing(u)' \/ Everything(u)'
    BY DEF Kept
  <2>1. (Nothing(u)' <=> Nothing(u)) /\ (Everything(u)' <=> Everything(u))
    BY <1>2, SameRow
  <2>2. CASE u = task[c]
    BY <1>1, <2>1, <2>2, EndTruth
  <2>3. CASE u # task[c]
    <3>1. (\A d \in Conns : task'[d] = u => ~Committed(d)') => \A d \in Conns : task[d] = u => ~Committed(d)
      BY <1>1, <1>4, <2>3
    <3>2. QED BY <1>1, <2>1, <2>3, <3>1 DEF Truthful, Kept
  <2>4. QED BY <2>2, <2>3
<1>9. QED BY <1>4, <1>5, <1>6, <1>7, <1>8 DEF Truthful

\* A transaction handed to the workers.
LEMMA EnqueueTruthful ==
  ASSUME Truthful, Inv', NEW t \in Trans, Enqueue(t)
  PROVE  Truthful'
<1>1. /\ t \notin asked /\ asked' = asked \cup {t} /\ queue' = Append(queue, t)
      /\ UNCHANGED <<task, stage, next, code, told, spoiled>>
      /\ open' = open /\ pending' = pending /\ db' = db
  BY DEF Enqueue, linkVars, serverVars
<1>2. queue \in Seq(Trans)
  BY DEF Truthful, Inv, TypeOK
<1>3. /\ Len(queue') = Len(queue) + 1 /\ Len(queue) \in Nat /\ queue'[Len(queue) + 1] = t
      /\ \A i \in 1..Len(queue) : queue'[i] = queue[i]
  BY <1>1, <1>2
<1>4. \A i \in 1..Len(queue) : queue[i] # t
  BY <1>1 DEF Truthful, Unanswered
<1>5. \A d \in Conns : task[d] # t
  BY <1>1, TransactionsAssumption DEF Truthful, Unanswered
<1>6. told[t] = "none"
  BY <1>1 DEF Truthful, Unanswered
<1>7. \A d \in Conns : InStep(d)' /\ (Committed(d)' <=> Committed(d))
  BY <1>1, SameInStep DEF Truthful, Same
<1>8. Placed'
  <2>1. ASSUME NEW i \in 1..Len(queue'), NEW j \in 1..Len(queue'), queue'[i] = queue'[j]
        PROVE  i = j
    <3>1. CASE i \in 1..Len(queue) /\ j \in 1..Len(queue)
      BY <1>3, <2>1, <3>1 DEF Truthful, Placed
    <3>2. CASE i = Len(queue) + 1 \/ j = Len(queue) + 1
      BY <1>3, <1>4, <2>1, <3>2
    <3>3. QED BY <1>3, <3>1, <3>2
  <2>2. ASSUME NEW d \in Conns, NEW i \in 1..Len(queue') PROVE task'[d] # queue'[i]
    <3>1. CASE i \in 1..Len(queue)
      BY <1>1, <1>3, <3>1 DEF Truthful, Placed
    <3>2. CASE i = Len(queue) + 1
      BY <1>1, <1>3, <1>5, <3>2
    <3>3. QED BY <1>3, <3>1, <3>2
  <2>3. QED BY <1>1, <2>1, <2>2 DEF Truthful, Placed
<1>9. Unanswered'
  <2>1. ASSUME NEW i \in 1..Len(queue') PROVE queue'[i] \in asked' /\ told'[queue'[i]] = "none"
    <3>1. CASE i \in 1..Len(queue)
      BY <1>1, <1>3, <3>1 DEF Truthful, Unanswered
    <3>2. CASE i = Len(queue) + 1
      BY <1>1, <1>3, <1>6, <3>2
    <3>3. QED BY <1>3, <3>1, <3>2
  <2>2. QED BY <1>1, <2>1 DEF Truthful, Unanswered
<1>10. Kept'
  <2>1. ASSUME NEW u \in Trans PROVE (Nothing(u)' <=> Nothing(u)) /\ (Everything(u)' <=> Everything(u))
    BY <1>1, SameRow
  <2>2. QED BY <1>1, <1>7, <2>1 DEF Truthful, Kept
<1>11. QED BY <1>7, <1>8, <1>9, <1>10 DEF Truthful

\* The calls of ExecuteTransaction, but for a COMMIT that is carried out, the loss and the
\* reopening of the connection.
LEMMA CallsTruthful ==
  ASSUME Truthful, Inv', NEW c \in Conns,
         \/ BeginTransaction(c) \/ ExecuteInside(c) \/ RollbackTransaction(c) \/ CommitRefused(c)
         \/ SendNothing(c) \/ \E e \in {"deadlock", "other"} : StatementFails(c, e)
  PROVE  Truthful'
<1>1. UNCHANGED <<asked, queue, task, told, db>>
  BY DEF BeginTransaction, ExecuteInside, RollbackTransaction, CommitRefused, SendNothing,
         StatementFails, Call, serverVars
<1>2. /\ stage[c] \in Sending
      /\ \A d \in Conns : d # c => Same(d)
  <2>1. CASE BeginTransaction(c)
    BY <1>1, <2>1 DEF BeginTransaction, Call, GoOn, Same, Truthful, Inv, TypeOK, Sending
  <2>2. CASE ExecuteInside(c)
    BY <1>1, <2>2 DEF ExecuteInside, Call, GoOn, Same, Truthful, Inv, TypeOK, Sending
  <2>3. CASE RollbackTransaction(c) \/ CommitRefused(c)
    BY <1>1, <2>3 DEF RollbackTransaction, CommitRefused, SessionEnds, Call, GoOn, Same, Truthful,
                      Inv, TypeOK, Sending
  <2>4. CASE \E e \in {"deadlock", "other"} : StatementFails(c, e)
    BY <1>1, <2>4 DEF StatementFails, SessionEnds, Same, Truthful, Inv, TypeOK, Sending
  <2>5. CASE SendNothing(c)
    <3>1. stage[c] \in Sending /\ UNCHANGED <<open, pending>>
      BY <2>5 DEF SendNothing, serverVars
    <3>2. CASE stage[c] = "work"
      BY <1>1, <2>5, <3>1, <3>2 DEF SendNothing, Same, Truthful, Inv, TypeOK
    <3>3. CASE stage[c] # "work"
      BY <1>1, <2>5, <3>1, <3>3 DEF SendNothing, GoOn, Same, Truthful, Inv, TypeOK
    <3>4. QED BY <3>1, <3>2, <3>3
  <2>6. QED BY <2>1, <2>2, <2>3, <2>4, <2>5
<1>3. /\ pending[c] \in Nat /\ next[c] \in Nat /\ Size[task[c]] \in Nat /\ task'[c] = task[c]
  BY <1>1, <1>2, TransactionsAssumption DEF Truthful, Inv, TypeOK, SessionSound, Sending
<1>4. spoiled \subseteq spoiled'
  BY <1>2, SpoilSound DEF BeginTransaction, ExecuteInside, RollbackTransaction, CommitRefused,
                          SendNothing, StatementFails, Truthful
<1>5. ~open'[c] => pending'[c] = 0
  <2>1. ~open[c] => pending[c] = 0
    BY DEF Truthful, InStep
  <2>2. CASE BeginTransaction(c)
    BY <2>2 DEF BeginTransaction, Truthful, Inv, TypeOK
  <2>3. CASE ExecuteInside(c)
    BY <2>3 DEF ExecuteInside
  <2>4. CASE RollbackTransaction(c) \/ CommitRefused(c)
    BY <2>4, SessionEndsSound DEF RollbackTransaction, CommitRefused, Truthful
  <2>5. CASE SendNothing(c)
    BY <2>1, <2>5 DEF SendNothing, serverVars
  <2>6. CASE \E e \in {"deadlock", "other"} : StatementFails(c, e)
    BY <2>1, <2>6, SessionEndsSound DEF StatementFails, Truthful
  <2>7. QED BY <2>2, <2>3, <2>4, <2>5, <2>6
<1>6. ASSUME task[c] \notin spoiled' PROVE Following(c)'
  <2>1. task[c] \notin spoiled /\ Following(c)
    BY <1>4, <1>6 DEF Truthful, InStep
  <2>2. CASE BeginTransaction(c)
    <3>1. /\ stage[c] = "begin" /\ stage'[c] = "work" /\ next'[c] = next[c] /\ code'[c] = code[c]
          /\ open'[c] = TRUE /\ pending'[c] = pending[c]
      BY <2>2 DEF BeginTransaction, Call, GoOn, Truthful, Inv, TypeOK
    <3>2. ~open[c]
      BY <3>1 DEF Truthful, Inv, SessionSound
    <3>3. pending[c] = 0
      BY <3>2 DEF Truthful, InStep
    <3>4. next[c] = 1 /\ Size[task[c]] > 0 /\ code[c] = "ok"
      BY <2>1, <3>1 DEF Following
    <3>5. QED BY <1>3, <3>1, <3>3, <3>4 DEF Following, Committed
  <2>3. CASE ExecuteInside(c)
    <3>1. /\ stage[c] = "work" /\ open'[c] = open[c] /\ pending'[c] = pending[c] + 1
          /\ stage'[c] = IF next[c] = Size[task[c]] THEN "commit" ELSE "work"
          /\ next'[c] = next[c] + 1 /\ code'[c] = code[c]
      BY <2>3 DEF ExecuteInside, Call, GoOn, Truthful, Inv, TypeOK
    <3>2. open[c] /\ next[c] = pending[c] + 1 /\ next[c] =< Size[task[c]] /\ code[c] = "ok"
      BY <2>1, <3>1 DEF Following
    <3>3. QED BY <1>3, <3>1, <3>2 DEF Following, Committed
  <2>4. CASE RollbackTransaction(c) \/ (SendNothing(c) /\ stage[c] = "rollback")
    <3>1. stage[c] = "rollback" /\ GoOn(c) /\ code' = code
      BY <2>4 DEF RollbackTransaction, SendNothing, Call
    <3>2. stage'[c] = "return"
      BY <3>1 DEF GoOn, Truthful, Inv, TypeOK
    <3>3. code'[c] # "ok"
      BY <2>1, <3>1 DEF Following
    <3>4. QED BY <3>2, <3>3 DEF Following, Committed
  <2>5. CASE \E e \in {"deadlock", "other"} : StatementFails(c, e)
    <3>1. stage'[c] = "rollback" /\ code'[c] # "ok"
      BY <2>5 DEF StatementFails, Truthful, Inv, TypeOK
    <3>2. QED BY <3>1 DEF Following, Committed
  <2>6. ~CommitRefused(c)
    BY <1>2, <1>6, SpoilSound DEF CommitRefused, Call, Truthful
  <2>7. SendNothing(c) => stage[c] = "rollback"
    BY <1>2, <1>6, SpoilSound DEF SendNothing, Sending, Truthful
  <2>8. QED BY <2>2, <2>3, <2>4, <2>5, <2>6, <2>7
<1>7. InStep(c)' /\ ~Committed(c)
  BY <1>2, <1>3, <1>5, <1>6 DEF InStep, Committed, Sending
<1>8. QED BY <1>1, <1>2, <1>4, <1>7, CallTruthful

\* The program ends or nothing happens.
LEMMA IdleTruthful ==
  ASSUME Truthful, Inv', \A d \in Conns : Same(d),
         UNCHANGED <<asked, queue, task, told, db, spoiled>>
  PROVE  Truthful'
<1>1. \A d \in Conns : InStep(d)' /\ (Committed(d)' <=> Committed(d))
  BY SameInStep DEF Truthful
<1>2. Placed' /\ Unanswered'
  BY DEF Truthful, Placed, Unanswered
<1>3. Kept'
  <2>1. ASSUME NEW u \in Trans PROVE (Nothing(u)' <=> Nothing(u)) /\ (Everything(u)' <=> Everything(u))
    BY SameRow
  <2>2. QED BY <1>1, <2>1 DEF Truthful, Kept
<1>4. QED BY <1>1, <1>2, <1>3 DEF Truthful

\* The statements outside a transaction, the loss of the connection and its reopening.
LEMMA LossTruthful ==
  ASSUME Truthful, Inv', NEW c \in Conns,
         \/ ExecuteAlone(c) \/ Lose(c) \/ Reopen(c) \/ HostError(c) \/ OtherError(c)
         \/ CommitTransaction(c) /\ task[c] \in spoiled
  PROVE  Truthful'
<1>1. CASE Reopen(c) \/ HostError(c) \/ OtherError(c)
  BY <1>1, IdleTruthful DEF Reopen, HostError, OtherError, clientVars, serverVars, Same
<1>2. CASE \/ ExecuteAlone(c) \/ Lose(c)
           \/ CommitTransaction(c) /\ task[c] \in spoiled
  <2>1. /\ UNCHANGED <<asked, queue, task, told, code>> /\ stage[c] \in Sending
    BY <1>2 DEF ExecuteAlone, Lose, CommitTransaction, Call, clientVars, Sending
  <2>2. \A d \in Conns : d # c => Same(d)
    <3>1. CASE ExecuteAlone(c)
      BY <2>1, <3>1 DEF ExecuteAlone, Call, GoOn, Same, Truthful, Inv, TypeOK
    <3>2. CASE Lose(c)
      BY <2>1, <3>2 DEF Lose, clientVars, SessionEnds, Same, Truthful, Inv, TypeOK
    <3>3. CASE CommitTransaction(c)
      BY <2>1, <3>3 DEF CommitTransaction, Call, GoOn, SessionEnds, Same, Truthful, Inv, TypeOK
    <3>4. QED BY <1>2, <3>1, <3>2, <3>3
  <2>3. ~open'[c] => pending'[c] = 0
    BY <1>2, SessionEndsSound DEF ExecuteAlone, Lose, CommitTransaction, Truthful, InStep
  <2>4. ASSUME task[c] \notin spoiled' PROVE Following(c)'
    <3>1. task[c] \notin spoiled /\ Following(c)
      BY <1>2, <2>4, Outside DEF Truthful, InStep
    <3>2. Lose(c)
      BY <1>2, <3>1 DEF ExecuteAlone, Call, Following
    <3>3. stage[c] \notin {"work", "commit"}
      BY <2>1, <2>4, <3>2, SpoilSound DEF Lose, Truthful
    <3>4. UNCHANGED <<stage, next, code, task>>
      BY <3>2 DEF Lose, clientVars
    <3>5. QED BY <2>1, <3>1, <3>3, <3>4 DEF Following, Committed, Sending
  <2>5. \A u \in Trans \ spoiled' : db'[u] = db[u]
    BY <1>2, Outside
  <2>6. InStep(c)' /\ ~Committed(c)
    BY <2>1, <2>3, <2>4 DEF InStep, Committed, Sending
  <2>7. spoiled \subseteq spoiled'
    BY <1>2, Outside
  <2>8. QED BY <2>1, <2>2, <2>5, <2>6, <2>7, CallTruthful
<1>3. QED BY <1>1, <1>2

\* A worker takes the next transaction of the queue.
LEMMA TakeTruthful ==
  ASSUME Truthful, Inv', NEW c \in Conns, Take(c)
  PROVE  Truthful'
<1>1. /\ task[c] = Null /\ queue # <<>> /\ Start(c, Head(queue)) /\ queue' = Tail(queue)
      /\ asked' = asked /\ UNCHANGED <<linkVars, serverVars, spoiled, told>>
  BY DEF Take
<1>2. queue \in Seq(Trans)
  BY DEF Truthful, Inv, TypeOK
<1>3. /\ Head(queue) = queue[1] /\ queue[1] \in Trans /\ 1 \in 1..Len(queue)
      /\ Len(queue') = Len(queue) - 1 /\ Len(queue) \in Nat
      /\ \A i \in 1..Len(queue') : i + 1 \in 1..Len(queue) /\ queue'[i] = queue[i + 1]
  BY <1>1, <1>2
<1>4. ~Committed(c) /\ ~open[c]
  BY <1>1 DEF Committed, Truthful, Inv, SessionSound
<1>5. \A d \in Conns : task[d] # queue[1]
  BY <1>3 DEF Truthful, Placed
<1>6. ASSUME NEW i \in 1..Len(queue')
      PROVE  queue'[i] # queue[1] /\ \E j \in 1..Len(queue) : queue'[i] = queue[j]
  BY <1>3, <1>6 DEF Truthful, Placed
<1>7. ASSUME NEW i \in 1..Len(queue'), NEW j \in 1..Len(queue'), queue'[i] = queue'[j]
      PROVE  i = j
  <2>1. i + 1 = j + 1
    BY <1>3, <1>7 DEF Truthful, Placed
  <2>2. QED BY <2>1
<1>8. told[queue[1]] = "none" /\ asked' = asked \cup {queue[1]}
  BY <1>1, <1>3 DEF Truthful, Unanswered
<1>9. QED BY <1>1, <1>3, <1>4, <1>5, <1>6, <1>7, <1>8, StartTruthful

\* DirectCommitTransaction begins.
LEMMA DirectTruthful ==
  ASSUME Truthful, Inv', NEW c \in Conns, NEW t \in Trans, DirectCommit(c, t)
  PROVE  Truthful'
<1>1. /\ task[c] = Null /\ t \notin asked /\ asked' = asked \cup {t} /\ Start(c, t)
      /\ queue' = queue /\ UNCHANGED <<linkVars, serverVars, spoiled, told>>
  BY DEF DirectCommit
<1>2. ~Committed(c) /\ ~open[c]
  BY <1>1 DEF Committed, Truthful, Inv, SessionSound
<1>3. \A d \in Conns : task[d] # t
  BY <1>1, TransactionsAssumption DEF Truthful, Unanswered
<1>4. \A i \in 1..Len(queue') : queue'[i] # t /\ \E j \in 1..Len(queue) : queue'[i] = queue[j]
  BY <1>1 DEF Truthful, Unanswered
<1>5. told[t] = "none" /\ \A i, j \in 1..Len(queue') : queue'[i] = queue'[j] => i = j
  BY <1>1 DEF Truthful, Unanswered, Placed
<1>6. QED BY SMTT(30), <1>1, <1>2, <1>3, <1>4, <1>5, StartTruthful

\* What failed is executed again, on the same connection.
LEMMA AgainTruthful ==
  ASSUME Truthful, Inv', NEW c \in Conns, Start(c, task[c]), ~Committed(c),
         stage[c] \in {"return", "lock"}, UNCHANGED <<linkVars, serverVars, spoiled, asked, queue, told>>
  PROVE  Truthful'
<1>1. task[c] \in Trans /\ task[c] # Null /\ ~open[c]
  BY ZenonT(40) DEF Truthful, Inv, TypeOK, SessionSound
<1>2. told[task[c]] = "none" /\ asked' = asked \cup {task[c]}
  BY <1>1 DEF Truthful, Unanswered
<1>3. \A d \in Conns : d # c => task[d] # task[c]
  BY <1>1 DEF Truthful, Placed
<1>4. \A i \in 1..Len(queue') : queue'[i] # task[c] /\ \E j \in 1..Len(queue) : queue'[i] = queue[j]
  BY DEF Truthful, Placed
<1>5. \A i, j \in 1..Len(queue') : queue'[i] = queue'[j] => i = j
  BY DEF Truthful, Placed
<1>6. QED BY <1>1, <1>2, <1>3, <1>4, <1>5, StartTruthful

\* The first execution has deadlocked, and the worker asks for the lock.
LEMMA LockTruthful ==
  ASSUME Truthful, Inv', NEW c \in Conns, code[c] = "deadlock", stage[c] = "return",
         stage' = [stage EXCEPT ![c] = "lock"],
         UNCHANGED <<linkVars, serverVars, spoiled, asked, queue, task, next, code, retry, told>>
  PROVE  Truthful'
<1>1. open' = open /\ pending' = pending /\ db' = db
  BY DEF serverVars
<1>2. stage'[c] = "lock" /\ \A d \in Conns : d # c => Same(d)
  BY <1>1 DEF Truthful, Inv, TypeOK, Same
<1>3. InStep(c)' /\ ~Committed(c)
  BY <1>1, <1>2 DEF Truthful, InStep, Following, Committed
<1>4. QED BY <1>1, <1>2, <1>3, CallTruthful

LEMMA NextTruthful ==
  ASSUME Truthful, [Next]_vars
  PROVE  Truthful'
<1>1. Inv'
  BY NextInv DEF Truthful
<1>2. CASE \E t \in Trans : Enqueue(t) \/ \E c \in Sync : DirectCommit(c, t)
  BY <1>1, <1>2, EnqueueTruthful, DirectTruthful DEF Conns
<1>3. ASSUME NEW c \in Conns, Progress(c) \/ Trouble(c)
      PROVE  Truthful'
  <2>1. CASE \/ BeginTransaction(c) \/ ExecuteInside(c) \/ RollbackTransaction(c) \/ CommitRefused(c)
             \/ SendNothing(c) \/ \E e \in {"deadlock", "other"} : StatementFails(c, e)
    BY <1>1, <2>1, CallsTruthful
  <2>2. CASE CommitTransaction(c)
    BY <1>1, <2>2, CommitTruthful, LossTruthful
  <2>3. CASE Take(c)
    BY <1>1, <2>3, TakeTruthful
  <2>4. CASE Executed(c)
    <3>1. stage[c] = "return" /\ UNCHANGED <<linkVars, serverVars, spoiled, asked, queue>>
      BY <2>4 DEF Executed
    <3>2. \/ /\ code[c] = "deadlock" /\ stage' = [stage EXCEPT ![c] = "lock"]
             /\ UNCHANGED <<task, next, code, retry, told>>
          \/ End(c, IF code[c] = "ok" THEN "yes" ELSE "no")
      BY <2>4 DEF Executed
    <3>3. CASE End(c, IF code[c] = "ok" THEN "yes" ELSE "no")
      <4>1. CASE code[c] = "ok"
        BY <1>1, <3>1, <3>3, <4>1, EndTruthful
      <4>2. CASE code[c] # "ok"
        BY <1>1, <3>1, <3>3, <4>2, EndTruthful
      <4>3. QED BY <4>1, <4>2
    <3>4. QED BY <1>1, <3>1, <3>2, <3>3, LockTruthful
  <2>5. CASE LockAndRetry(c)
    <3>1. Start(c, task[c]) /\ stage[c] = "lock" /\ UNCHANGED <<linkVars, serverVars, spoiled, asked, queue, told>>
      BY <2>5 DEF LockAndRetry
    <3>2. QED BY <1>1, <3>1, AgainTruthful DEF Committed
  <2>6. CASE RetryAgain(c)
    <3>1. /\ Start(c, task[c]) /\ stage[c] = "return" /\ code[c] # "ok"
          /\ UNCHANGED <<linkVars, serverVars, spoiled, asked, queue, told>>
      BY <2>6 DEF RetryAgain
    <3>2. QED BY <1>1, <3>1, AgainTruthful DEF Committed
  <2>7. CASE RetrySucceeds(c)
    <3>1. /\ stage[c] = "return" /\ code[c] = "ok" /\ End(c, "yes")
          /\ UNCHANGED <<linkVars, serverVars, spoiled, asked, queue>>
      BY <2>7 DEF RetrySucceeds
    <3>2. QED BY <1>1, <3>1, EndTruthful
  <2>8. CASE GiveUp(c)
    <3>1. /\ stage[c] = "return" /\ code[c] # "ok" /\ End(c, "no")
          /\ UNCHANGED <<linkVars, serverVars, spoiled, asked, queue>>
      BY <2>8 DEF GiveUp
    <3>2. QED BY <1>1, <3>1, EndTruthful
  <2>9. CASE DirectExecuted(c)
    <3>1. /\ stage[c] = "return" /\ UNCHANGED <<linkVars, serverVars, spoiled, asked, queue>>
          /\ \/ code[c] # "ok" /\ Start(c, task[c]) /\ UNCHANGED told
             \/ End(c, "void")
      BY <2>9 DEF DirectExecuted
    <3>2. CASE End(c, "void")
      BY <1>1, <3>1, <3>2, EndTruthful
    <3>3. CASE code[c] # "ok" /\ Start(c, task[c]) /\ UNCHANGED told
      BY <1>1, <3>1, <3>3, AgainTruthful DEF Committed
    <3>4. QED BY <3>1, <3>2, <3>3
  <2>10. CASE Terminate(c)
    BY <1>1, <2>10, IdleTruthful DEF Terminate, clientVars, serverVars, Same
  <2>11. CASE ExecuteAlone(c) \/ Lose(c) \/ Reopen(c) \/ HostError(c) \/ OtherError(c)
    BY <1>1, <2>11, LossTruthful
  <2>12. QED
    BY <1>3, <2>1, <2>2, <2>3, <2>4, <2>5, <2>6, <2>7, <2>8, <2>9, <2>10, <2>11
    DEF Progress, Trouble
<1>4. CASE UNCHANGED vars
  BY <1>1, <1>4, IdleTruthful DEF vars, clientVars, linkVars, serverVars, Same
<1>5. QED BY <1>2, <1>3, <1>4 DEF Next, Finished

LEMMA TruthfulHolds == Spec => []Truthful
<1>1. Truthful /\ [Next]_vars => Truthful'
  BY NextTruthful
<1>2. QED BY <1>1, InitTruthful, PTL DEF Spec

\* However often the server is lost: a transaction that is not spoiled is applied completely
\* or not at all, however it fails, deadlocks and is repeated.
THEOREM WholeTransactions == Spec => []AllOrNothing
<1>1. Truthful => AllOrNothing
  <2> SUFFICES ASSUME Truthful, NEW t \in Trans \ spoiled PROVE Nothing(t) \/ Everything(t)
    BY DEF AllOrNothing
  <2>1. told[t] \in {"none", "yes", "no", "void"}
    BY DEF Truthful, Inv, TypeOK
  <2>2. (\A c \in Conns : task[c] = t => ~Committed(c)) \/ Everything(t)
    BY DEF Truthful, InStep, Following
  <2>3. QED BY <2>1, <2>2 DEF Truthful, Kept
<1>2. QED BY <1>1, TruthfulHolds, PTL

\* The rows of the store, as functions.
LEMMA Rows ==
  ASSUME TypeOK, NEW t \in Trans
  PROVE  /\ Nothing(t) <=> db[t] = Store!Nothing[t]
         /\ Everything(t) <=> db[t] = Store!Everything[t]
         /\ Store!Nothing[t] = [i \in 1..Size[t] |-> 0]
         /\ Store!Everything[t] = [i \in 1..Size[t] |-> 1]
<1>1. Store!Nothing[t] = [i \in 1..Size[t] |-> 0] /\ Store!Everything[t] = [i \in 1..Size[t] |-> 1]
  BY DEF Store!Nothing, Store!Everything
<1>2. db[t] \in [1..Size[t] -> Nat]
  BY DEF TypeOK
<1>3. Nothing(t) <=> db[t] = [i \in 1..Size[t] |-> 0]
  BY <1>2 DEF Nothing
<1>4. Everything(t) <=> db[t] = [i \in 1..Size[t] |-> 1]
  BY <1>2 DEF Everything
<1>5. QED BY <1>1, <1>3, <1>4

\* The end of a transaction tells what the store has of it.
LEMMA EndTells ==
  ASSUME Truthful, NEW c \in Conns, stage[c] = "return", NEW answer \in {"yes", "no", "void"},
         answer = "yes" => code[c] = "ok", answer = "no" => code[c] # "ok",
         End(c, answer), db' = db, spoiled' = spoiled
  PROVE  Store!Next
<1>1. task[c] \in Trans /\ TypeOK
  BY EndTruth DEF Truthful, Inv
<1>2. Store!Tell(task[c], answer)
  BY <1>1, EndTruth, Rows DEF Store!Tell, End
<1>3. QED BY <1>1, <1>2 DEF Store!Next

\* What is spoiled is not over, and changes only itself.
LEMMA SpoilStores ==
  ASSUME Truthful, NEW c \in Conns, task[c] \in Trans, told' = told,
         spoiled' = spoiled \cup {task[c]},
         \A u \in Trans : u # task[c] => db'[u] = db[u]
  PROVE  Store!Next
<1>1. told[task[c]] = "none"
  BY TransactionsAssumption DEF Truthful, Unanswered
<1>2. Store!Spoil(task[c])
  BY <1>1 DEF Store!Spoil
<1>3. QED BY <1>2 DEF Store!Next

LEMMA StepStores ==
  ASSUME Truthful, [Next]_vars
  PROVE  [Store!Next]_<<db, told, spoiled>>
<1>1. CASE \E t \in Trans : Enqueue(t) \/ \E c \in Sync : DirectCommit(c, t)
  BY <1>1 DEF Enqueue, DirectCommit, serverVars
<1>2. ASSUME NEW c \in Conns, Progress(c) \/ Trouble(c)
      PROVE  [Store!Next]_<<db, told, spoiled>>
  <2>1. CASE \/ BeginTransaction(c) \/ ExecuteInside(c) \/ RollbackTransaction(c)
             \/ \E e \in {"deadlock", "other"} : StatementFails(c, e)
    BY <2>1 DEF BeginTransaction, ExecuteInside, RollbackTransaction, StatementFails, Call
  <2>2. CASE CommitTransaction(c) /\ task[c] \notin spoiled
    <3>1. told' = told /\ task[c] \in Trans /\ told[task[c]] = "none" /\ TypeOK
          /\ spoiled' = spoiled
      BY <2>2, CommitWhole DEF CommitTransaction, Call, Truthful, Inv
    <3>2. db[task[c]] = Store!Nothing[task[c]] /\ db' = [db EXCEPT ![task[c]] = Store!Everything[task[c]]]
      BY <2>2, <3>1, CommitWhole, Rows
    <3>3. Store!Apply(task[c])
      BY <3>1, <3>2 DEF Store!Apply
    <3>4. QED BY <3>1, <3>3 DEF Store!Next
  <2>3. CASE Take(c) \/ LockAndRetry(c) \/ RetryAgain(c)
    BY <2>3 DEF Take, LockAndRetry, RetryAgain, serverVars
  <2>4. CASE Executed(c)
    <3>1. stage[c] = "return" /\ db' = db /\ spoiled' = spoiled
      BY <2>4 DEF Executed, serverVars
    <3>2. told' = told \/ End(c, IF code[c] = "ok" THEN "yes" ELSE "no")
      BY <2>4 DEF Executed
    <3>3. CASE told' = told
      BY <3>1, <3>3
    <3>4. CASE End(c, IF code[c] = "ok" THEN "yes" ELSE "no")
      <4>1. CASE code[c] = "ok"
        BY <3>1, <3>4, <4>1, EndTells
      <4>2. CASE code[c] # "ok"
        BY <3>1, <3>4, <4>2, EndTells
      <4>3. QED BY <4>1, <4>2
    <3>5. QED BY <3>2, <3>3, <3>4
  <2>5. CASE RetrySucceeds(c)
    BY <2>5, EndTells DEF RetrySucceeds, serverVars
  <2>6. CASE GiveUp(c)
    BY <2>6, EndTells DEF GiveUp, serverVars
  <2>7. CASE DirectExecuted(c)
    BY <2>7, EndTells DEF DirectExecuted, serverVars
  <2>8. CASE CommitRefused(c) \/ SendNothing(c)
    <3>1. /\ task[c] \in Trans /\ told' = told /\ db' = db
          /\ spoiled' = spoiled \/ spoiled' = spoiled \cup {task[c]}
      BY <2>8, SpoilSound DEF CommitRefused, SendNothing, Call, Spoil, serverVars, Sending, Truthful
    <3>2. QED BY <3>1, SpoilStores
  <2>9. CASE \/ ExecuteAlone(c) \/ Lose(c)
             \/ CommitTransaction(c) /\ task[c] \in spoiled
    <3>1. /\ told' = told
          /\ spoiled' = spoiled \/ spoiled' = spoiled \cup {task[c]}
      BY <2>9 DEF ExecuteAlone, Lose, CommitTransaction, Call, Spoil, clientVars
    <3>2. db' = db \/ spoiled' = spoiled \cup {task[c]}
      BY <2>9, <3>1, Outside
    <3>3. QED BY <2>9, <3>1, <3>2, Outside, SpoilStores
  <2>10. CASE Reopen(c) \/ HostError(c) \/ OtherError(c) \/ Terminate(c)
    BY <2>10 DEF Reopen, HostError, OtherError, Terminate, clientVars, serverVars
  <2>11. QED
    BY <1>2, <2>1, <2>2, <2>3, <2>4, <2>5, <2>6, <2>7, <2>8, <2>9, <2>10 DEF Progress, Trouble
<1>3. CASE UNCHANGED vars
  BY <1>3 DEF vars, clientVars, serverVars
<1>4. QED BY <1>1, <1>2, <1>3 DEF Next, Finished

\* However often the server is lost, the connections implement the store of whole
\* transactions and true promises.  Of a transaction that is not spoiled, a "yes" is given
\* only when it is applied, a "no" only when nothing of it is or ever will be; and one that
\* is spoiled touches no other, and nothing any more when its end has been told.
THEOREM ImplementsStore == Spec => StoreSpec
<1>1. Init => Store!Init
  <2> SUFFICES ASSUME Init PROVE Store!Init
    OBVIOUS
  <2>1. db = Store!Nothing
    BY DEF Init, Store!Nothing
  <2>2. told = [t \in Trans |-> "none"] /\ spoiled = {}
    BY DEF Init
  <2>3. QED BY <2>1, <2>2 DEF Store!Init
<1>2. Truthful /\ [Next]_vars => [Store!Next]_<<db, told, spoiled>>
  BY StepStores
<1>3. QED BY <1>1, <1>2, TruthfulHolds, PTL DEF Spec, StoreSpec, Store!Spec
=============================================================================
