--------------------------- MODULE TransactionStore ---------------------------
(***************************************************************************)
(* What the database layer promises for transactions: each is applied      *)
(* completely or not at all, and the result handed back says which.  It    *)
(* promises nothing of those that were spoiled, but that they leave the    *)
(* others alone and are over once there is a result.                       *)
(***************************************************************************)
EXTENDS Naturals

CONSTANTS Trans, Size  \* transactions, and how many statements each has

VARIABLES
  db,      \* db[t][i]: how often statement i of t is applied
  told,    \* the result given to who asked: "none" yet, "yes", "no", or "void"
  spoiled  \* transactions nothing is promised of

Nothing == [t \in Trans |-> [i \in 1..Size[t] |-> 0]]
Everything == [t \in Trans |-> [i \in 1..Size[t] |-> 1]]

Init == db = Nothing /\ told = [t \in Trans |-> "none"] /\ spoiled = {}

Apply(t) == /\ told[t] = "none" /\ db[t] = Nothing[t]
            /\ db' = [db EXCEPT ![t] = Everything[t]]
            /\ UNCHANGED <<told, spoiled>>

Spoil(t) == /\ told[t] = "none"
            /\ spoiled' = spoiled \cup {t}
            /\ \A u \in Trans \ {t} : db'[u] = db[u]
            /\ UNCHANGED told

Tell(t, answer) == /\ told[t] = "none"
                   /\ answer = "yes" => t \in spoiled \/ db[t] = Everything[t]
                   /\ answer = "no" => t \in spoiled \/ db[t] = Nothing[t]
                   /\ told' = [told EXCEPT ![t] = answer]
                   /\ UNCHANGED <<db, spoiled>>

Next == \E t \in Trans : \/ Apply(t) \/ Spoil(t)
                         \/ \E answer \in {"yes", "no", "void"} : Tell(t, answer)

Spec == Init /\ [][Next]_<<db, told, spoiled>>
=============================================================================
