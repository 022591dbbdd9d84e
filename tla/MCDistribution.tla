--------------------------- MODULE MCDistribution ---------------------------
(***************************************************************************)
(* Small instances of Distribution: two leads, an EXCLUSIVE order (4) and  *)
(* SHARED orders, more of them than MaxShared, so that the cap, the        *)
(* ascending locking and the draining of an order all happen.              *)
(***************************************************************************)
EXTENDS Distribution, TLC

OneType == [x \in Leads |-> "SOLAR"]
OneOrderType == [o \in Orders |-> "SOLAR"]
EveryPair == Leads \X Orders
OnlyFourthExclusive == [o \in Orders |-> IF o = 4 THEN "EXCLUSIVE" ELSE "SHARED"]
SamePriority == [o \in Orders |-> 0]
NewestFirst == [o \in Orders |-> 10 - o]
SingleSlots == [o \in Orders |-> 1]
TwoSlotsForFirst == [o \in Orders |-> IF o = 1 THEN 2 ELSE 1]
Symmetry == Permutations(Leads) \cup Permutations(Workers)
=============================================================================
