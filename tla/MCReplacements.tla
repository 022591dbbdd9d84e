--------------------------- MODULE MCReplacements ---------------------------
(***************************************************************************)
(* Small instances of Replacements: an exclusive and a shared order.       *)
(***************************************************************************)
EXTENDS Replacements, TLC

CONSTANTS exclusive, shared

ClientOfEach == [o \in Orders |-> o]
Modes == [o \in Orders |-> IF o = exclusive THEN "EXCLUSIVE" ELSE "SHARED"]
SingleSlots == [o \in Orders |-> 1]
Symmetry == Permutations(Leads) \cup Permutations(Requests) \cup Permutations(Workers)
=============================================================================
