------------------------------ MODULE MCOrders ------------------------------
(***************************************************************************)
(* Small instances of Orders: every order pays for two leads, so that it   *)
(* can be paused and resumed half served.                                  *)
(***************************************************************************)
EXTENDS Orders, TLC

TwoLeads == [o \in Orders |-> 2]
Symmetry == Permutations(Orders) \cup Permutations(Requests)
=============================================================================
