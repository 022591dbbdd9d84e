------------------------ MODULE LeadAllocationProofs ------------------------
(***************************************************************************)
(* Proofs that the allocation promised by LeadAllocation keeps the books   *)
(* balanced and the sharing rules, for any number of leads and orders.     *)
(***************************************************************************)
EXTENDS LeadAllocation, FiniteSetTheorems, TLAPS

AllocationInv == AllocationTypeOK /\ BalancesReconcile /\ SharingRespected

\* The leads an order received are finitely many (rows of the leads table).
LEMMA ReceivedIsFinite ==
    ASSUME AllocationAssumption, NEW o \in Orders
    PROVE  IsFiniteSet(Received(o)) /\ Cardinality(Received(o)) \in Nat
<1>1. Received(o) \subseteq Leads
  BY DEF Received, ReceivedIn
<1>2. IsFiniteSet(Received(o))
  BY <1>1, FS_Subset DEF AllocationAssumption
<1> QED
  BY <1>2, FS_CardinalityType

\* Initially nobody received anything and every balance is what was paid for.
LEMMA AllocationInitInv ==
    ASSUME AllocationAssumption, AllocationInit
    PROVE  AllocationInv
<1>1. AllocationTypeOK
  BY DEF AllocationInit, AllocationTypeOK, AllocationAssumption
<1>2. BalancesReconcile
  <2> SUFFICES ASSUME NEW o \in Orders
               PROVE  remaining[o] + Cardinality(Received(o)) = Paid[o]
    BY DEF BalancesReconcile
  <2>1. Received(o) = {}
    BY DEF Received, ReceivedIn, AllocationInit
  <2> QED
    BY <2>1, FS_EmptySet DEF AllocationInit, AllocationAssumption
<1>3. SharingRespected
  <2> SUFFICES ASSUME NEW l \in Leads PROVE Permitted(Buyers(l))
    BY DEF SharingRespected
  <2>1. Buyers(l) = {}
    BY DEF Buyers, BuyersIn, AllocationInit
  <2> QED
    BY <2>1, FS_EmptySet DEF Permitted, AllocationAssumption
<1> QED
  BY <1>1, <1>2, <1>3 DEF AllocationInv

\* An allocation keeps every balance right: each order of S gives up one slot
\* and receives exactly one lead it did not have, every other order neither.
LEMMA AllocateReconciles ==
    ASSUME AllocationAssumption, NEW l \in Leads, NEW S \in SUBSET Orders,
           AllocationTypeOK, BalancesReconcile, Allocate(l, S)
    PROVE  AllocationTypeOK' /\ BalancesReconcile'
<1>1. AllocationTypeOK'
  BY DEF AllocationTypeOK, Allocate
<1>2. ASSUME NEW o \in Orders
      PROVE  remaining'[o] + Cardinality(Received(o)') = Paid[o]
  <2>0. remaining[o] \in Nat /\ remaining[o] + Cardinality(Received(o)) = Paid[o]
    BY DEF AllocationTypeOK, BalancesReconcile
  <2>1. CASE o \in S
    <3>1. l \notin Received(o)
      BY <2>1 DEF Allocate, Buyers, BuyersIn, Received, ReceivedIn
    <3>2. Received(o)' = Received(o) \cup {l}
      BY <2>1 DEF Allocate, Received, ReceivedIn
    <3>3. Cardinality(Received(o)') = Cardinality(Received(o)) + 1
      BY <3>1, <3>2, ReceivedIsFinite, FS_AddElement
    <3>4. remaining'[o] = remaining[o] - 1
      BY <2>1 DEF Allocate
    <3> QED
      BY <2>0, <3>3, <3>4, ReceivedIsFinite
  <2>2. CASE o \notin S
    <3>1. Received(o)' = Received(o)
      BY <2>2 DEF Allocate, Received, ReceivedIn
    <3>2. remaining'[o] = remaining[o]
      BY <2>2 DEF Allocate
    <3> QED
      BY <2>0, <3>1, <3>2
  <2> QED
    BY <2>1, <2>2
<1> QED
  BY <1>1, <1>2 DEF BalancesReconcile

\* An allocation checks the buyers a lead ends with.
LEMMA AllocateSharing ==
    ASSUME NEW l \in Leads, NEW S \in SUBSET Orders,
           SharingRespected, Allocate(l, S)
    PROVE  SharingRespected'
<1> SUFFICES ASSUME NEW k \in Leads PROVE Permitted(Buyers(k)')
  BY DEF SharingRespected, Permitted
<1>1. CASE k = l
  <2>1. Buyers(k)' = Buyers(l) \cup S
    BY <1>1 DEF Allocate, Buyers, BuyersIn
  <2> QED
    BY <2>1 DEF Allocate
<1>2. CASE k # l
  <2>1. Buyers(k)' = Buyers(k)
    BY <1>2 DEF Allocate, Buyers, BuyersIn
  <2> QED
    BY <2>1 DEF SharingRespected
<1> QED
  BY <1>1, <1>2

\* Whatever is allocated, balances reconcile and the sharing rules hold.
THEOREM AllocationIsSound ==
    ASSUME AllocationAssumption PROVE AllocationSpec => []AllocationInv
<1>1. ASSUME AllocationInv, [AllocationNext]_allocationVars
      PROVE  AllocationInv'
  <2>1. CASE AllocationNext
    <3> PICK l \in Leads, S \in SUBSET Orders : Allocate(l, S)
      BY <2>1 DEF AllocationNext
    <3> QED
      BY <1>1, AllocateReconciles, AllocateSharing DEF AllocationInv
  <2>2. CASE UNCHANGED allocationVars
    BY <1>1, <2>2 DEF AllocationInv, AllocationTypeOK, BalancesReconcile,
       SharingRespected, Received, ReceivedIn, Buyers, BuyersIn, Permitted,
       allocationVars
  <2> QED
    BY <1>1, <2>1, <2>2
<1> QED
  BY <1>1, AllocationInitInv, PTL DEF AllocationSpec

\* No step of an allocation undoes a sale.
THEOREM AllocationIsFinal == AllocationSpec => SalesAreFinal
<1>1. [AllocationNext]_allocationVars => [assigned \subseteq assigned']_allocationVars
  BY DEF AllocationNext, Allocate
<1> QED
  BY <1>1, PTL DEF AllocationSpec, SalesAreFinal
=============================================================================
