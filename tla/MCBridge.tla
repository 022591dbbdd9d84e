------------------------------- MODULE MCBridge -------------------------------
(***************************************************************************)
(* Small instances of Bridge: the entries of one person.                   *)
(***************************************************************************)
EXTENDS Bridge, TLC

SamePerson == [s \in Submissions |-> "person"]
Symmetry == Permutations(Submissions) \cup Permutations(Drains)
=============================================================================
