---------------------------- MODULE AdmissionQueue ----------------------------
(***************************************************************************)
(* What the player limit promises to accounts: an account enters at once   *)
(* only when nobody waits and there is room, or when it is exempt; the     *)
(* others wait in order of arrival, and a place left empty goes to the     *)
(* first of them.  WorldSessionMgr implements it with counts of sessions.  *)
(***************************************************************************)
EXTENDS Integers, FiniteSets, SequencesExt

CONSTANTS Accounts, Limit, Privileged

VARIABLES
  inside,   \* accounts that play or choose a character
  waiting,  \* accounts in the queue, first one first
  exempt    \* accounts that left so recently that they need not wait

vars == <<inside, waiting, exempt>>

Init == inside = {} /\ waiting = <<>> /\ exempt = {}

Room(in) == Limit = 0 \/ Cardinality(in) < Limit

\* The account leaves; the first of those who wait enters if there is room now.
InsideWithout(a) ==
  LET in == inside \ {a}
      w == RemoveFirst(waiting, a)
  IN IF w # <<>> /\ Room(in) THEN in \cup {Head(w)} ELSE in

WaitingWithout(a) ==
  LET w == RemoveFirst(waiting, a)
  IN IF w # <<>> /\ Room(inside \ {a}) THEN Tail(w) ELSE w

ExemptWithout(a) == IF a \in inside THEN {exempt, exempt \cup {a}} ELSE {exempt}

Leave(a) ==
  /\ a \in inside \cup ToSet(waiting)
  /\ inside' = InsideWithout(a)
  /\ waiting' = WaitingWithout(a)
  /\ exempt' \in ExemptWithout(a)

\* Account a joins when `in' are inside, `w' waiting and `ex' exempt.
Join(a, in, w, ex) ==
  /\ IF (w = <<>> /\ Room(in)) \/ Limit = 0 \/ a \in Privileged \cup ex
     THEN inside' = in \cup {a} /\ waiting' = w
     ELSE inside' = in /\ waiting' = Append(w, a)
  /\ exempt' = ex

Arrive(a) == /\ a \notin inside \cup ToSet(waiting)
             /\ Join(a, inside, waiting, exempt)

\* A second login of an account leaves and joins again in one step.
Return(a) ==
  /\ a \in inside \cup ToSet(waiting)
  /\ \E ex \in ExemptWithout(a) :
       Join(a, InsideWithout(a), WaitingWithout(a), ex)

\* Exemptions end with time.
Forget == exempt' \in SUBSET exempt /\ UNCHANGED <<inside, waiting>>

\* The shutdown gives up the queue.
Dissolve == /\ inside' = inside \cup ToSet(waiting)
            /\ waiting' = <<>>
            /\ UNCHANGED exempt

Next == \/ \E a \in Accounts : Leave(a) \/ Arrive(a) \/ Return(a)
        \/ Forget \/ Dissolve

Spec == Init /\ [][Next]_vars
=============================================================================
