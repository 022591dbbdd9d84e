--------------------------- MODULE LeadAllocation ---------------------------
(***************************************************************************)
(* What the portal promises about the sale of leads, with no transaction,  *)
(* lock, event or failure in sight: a lead is handed to a set of orders in *)
(* one indivisible step, every hand-over uses up one slot an order has     *)
(* paid for, an exclusive lead goes to one order and a shared lead to at   *)
(* most MaxShared of them, and no sale is ever undone.                     *)
(*                                                                         *)
(* The distribution engine (module Distribution) implements it.            *)
(***************************************************************************)
EXTENDS Naturals, FiniteSets

CONSTANTS Leads,      \* leads rows
          Orders,     \* orders rows
          Exclusive,  \* the orders whose delivery_mode is EXCLUSIVE
          MaxShared,  \* MAX_SHARED
          Paid        \* orders.quantity_paid

\* What an instance of this module must establish of its constants.
AllocationAssumption ==
    /\ IsFiniteSet(Leads)
    /\ IsFiniteSet(Orders)
    /\ Exclusive \subseteq Orders
    /\ MaxShared \in Nat \ {0}
    /\ Paid \in [Orders -> Nat]

VARIABLES assigned,   \* lead_assignments rows, as pairs <<lead, order>>
          remaining   \* orders.quantity_remaining

allocationVars == <<assigned, remaining>>
-----------------------------------------------------------------------------
\* The orders a lead has been sold to.
BuyersIn(rel, l) == {o \in Orders : <<l, o>> \in rel}
Buyers(l) == BuyersIn(assigned, l)

\* The leads an order has received.
ReceivedIn(rel, o) == {l \in Leads : <<l, o>> \in rel}
Received(o) == ReceivedIn(assigned, o)

\* The sets of orders one lead may be sold to: an EXCLUSIVE order alone, or
\* at most MaxShared orders.
Permitted(S) ==
    /\ \A o \in S \cap Exclusive : S = {o}
    /\ Cardinality(S) <= MaxShared

AllocationInit ==
    /\ assigned = {}
    /\ remaining = Paid

Allocate(l, S) ==
    /\ S # {}
    /\ S \cap Buyers(l) = {}
    /\ \A o \in S : remaining[o] > 0
    /\ Permitted(Buyers(l) \cup S)
    /\ assigned' = assigned \cup ({l} \X S)
    /\ remaining' = [o \in Orders |-> IF o \in S THEN remaining[o] - 1
                                                 ELSE remaining[o]]

AllocationNext == \E l \in Leads, S \in SUBSET Orders : Allocate(l, S)

AllocationSpec == AllocationInit /\ [][AllocationNext]_allocationVars
-----------------------------------------------------------------------------
AllocationTypeOK ==
    /\ assigned \subseteq Leads \X Orders
    /\ remaining \in [Orders -> Nat]

\* No order receives more than it paid for and no slot is lost: what an order
\* has left and what it has received always add up to what it paid for.
BalancesReconcile ==
    \A o \in Orders : remaining[o] + Cardinality(Received(o)) = Paid[o]

\* An exclusive lead has one buyer, a shared lead at most MaxShared.
SharingRespected == \A l \in Leads : Permitted(Buyers(l))

\* A sale is never undone.
SalesAreFinal == [][assigned \subseteq assigned']_allocationVars
=============================================================================
