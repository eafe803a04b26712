-------------------------- MODULE MCWorldSessionMgr --------------------------
(* Instances of WorldSessionMgr for TLC. *)
EXTENDS WorldSessionMgr

CONSTANTS accA, accB, accD, charA1, charA2

\* One character of account accA; the other account only competes for room.
OwnerOne == charA1 :> accA

\* Two characters of account accA.
OwnerAlts == charA1 :> accA @@ charA2 :> accA

\* Sessions, and the accounts without characters.
Symmetry == Permutations(Sessions) \cup Permutations({accB, accD})
=============================================================================
