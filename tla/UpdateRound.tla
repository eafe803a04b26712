----------------------------- MODULE UpdateRound -----------------------------
(***************************************************************************)
(* What the map updater promises: tasks asked for are each done once, and  *)
(* the world thread is alone again only when none is left.  Until then     *)
(* more tasks may be asked for, by tasks under way too.                    *)
(***************************************************************************)
CONSTANT Tasks

VARIABLES
  todo,   \* tasks asked for and not begun
  doing,  \* tasks under way
  alone   \* the world thread relies on no task being under way

vars == <<todo, doing, alone>>

Init == todo = {} /\ doing = {} /\ alone \in BOOLEAN

Begin == alone /\ alone' = FALSE /\ UNCHANGED <<todo, doing>>

Ask(t) == /\ t \notin todo \cup doing
          /\ todo' = todo \cup {t}
          /\ alone' = FALSE
          /\ UNCHANGED doing

Start(t) == /\ t \in todo
            /\ todo' = todo \ {t}
            /\ doing' = doing \cup {t}
            /\ UNCHANGED alone

Finish(t) == /\ t \in doing
             /\ doing' = doing \ {t}
             /\ UNCHANGED <<todo, alone>>

End == /\ todo = {} /\ doing = {}
       /\ alone' = TRUE
       /\ UNCHANGED <<todo, doing>>

Next == Begin \/ End \/ \E t \in Tasks : Ask(t) \/ Start(t) \/ Finish(t)

Spec == Init /\ [][Next]_vars
=============================================================================
