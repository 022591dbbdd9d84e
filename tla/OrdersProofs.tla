---------------------------- MODULE OrdersProofs ----------------------------
(***************************************************************************)
(* Proofs about the life of orders, for any number of orders and of        *)
(* overlapping requests.                                                   *)
(*                                                                         *)
(* A request writes what it decided on long ago, so the invariant is about *)
(* the requests as much as about the orders: an accept under way is of an  *)
(* order with a proof, a pause or a resume under way of a paid one, and a  *)
(* number taken for an invoice lies at most one after those in use.        *)
(*                                                                         *)
(* The last part is about behaviours in which requests come in turn, as a  *)
(* lock would make them: the faults the runs find are gone there.          *)
(***************************************************************************)
EXTENDS Orders, FiniteSetTheorems, TLAPS

\* What a request relies on when it writes, although it holds no lock: facts
\* about its order that no other request takes back.
RequestIsSound(q) ==
    /\ q # Idle => q.order \in Orders
    /\ q.step = "write" /\ q.op = "accept" => q.order \in proof
    /\ q.step = "write" /\ q.op # "accept" =>
          /\ q.to = "PROOF_SUBMITTED" => q.op = "proof"
          /\ q.to \in Served => q.order \in proof /\ charges[q.order] > 0
    /\ q.step = "insert" => q.next \in 1 .. Cardinality(invoices) + 1

ProofsAreKept == \A o \in Orders : status[o] = "PROOF_SUBMITTED" => o \in proof

OrdersInv ==
    /\ TypeOK
    /\ IsFiniteSet(invoices)
    /\ InvoicesAreConsecutive
    /\ OnlyPaidOrdersAreServed
    /\ ProofsAreKept
    /\ \A r \in Requests : RequestIsSound(request[r])

USE OrdersAssumption DEF OrdersAssumption
-----------------------------------------------------------------------------
\* Invoices that are added to are numbered on without a gap.
LEMMA NextInvoice ==
    ASSUME TypeOK, IsFiniteSet(invoices), InvoicesAreConsecutive,
           NEW o \in Orders, NEW n \in 1 .. Cardinality(invoices) + 1, n \notin Numbers,
           invoices' = invoices \cup {<<o, n>>}
    PROVE  /\ IsFiniteSet(invoices')
           /\ Cardinality(invoices') = Cardinality(invoices) + 1
           /\ InvoicesAreConsecutive'
<1>1. <<o, n>> \notin invoices
  BY DEF Numbers
<1>2. IsFiniteSet(invoices') /\ Cardinality(invoices') = Cardinality(invoices) + 1
  BY <1>1, FS_AddElement
<1>3. Cardinality(invoices) \in Nat
  BY FS_CardinalityType
<1>4. n = Cardinality(invoices) + 1
  BY <1>3 DEF InvoicesAreConsecutive
<1>5. Numbers' = Numbers \cup {n}
  <2>1. <<o, n>>[2] = n
    OBVIOUS
  <2>2. \A m : m \in Numbers' <=> \E i \in invoices \cup {<<o, n>>} : m = i[2]
    BY DEF Numbers
  <2>3. \A m : m \in Numbers <=> \E i \in invoices : m = i[2]
    BY DEF Numbers
  <2> HIDE DEF Numbers
  <2> QED
    BY <2>1, <2>2, <2>3
<1>6. Numbers = 1 .. Cardinality(invoices)
  BY DEF InvoicesAreConsecutive
<1>7. Numbers' = 1 .. Cardinality(invoices) + 1
  BY <1>3, <1>4, <1>5, <1>6
<1> QED
  BY <1>2, <1>7 DEF InvoicesAreConsecutive

LEMMA InitOrders == Init => OrdersInv
<1> SUFFICES ASSUME Init PROVE OrdersInv
  OBVIOUS
<1>1. TypeOK
  BY DEF Init, TypeOK, Statuses, Request, Operations, Idle
<1>2. IsFiniteSet(invoices) /\ Cardinality(invoices) = 0
  BY FS_EmptySet DEF Init
<1>3. InvoicesAreConsecutive
  BY <1>2 DEF Init, InvoicesAreConsecutive, Numbers
<1>4. OnlyPaidOrdersAreServed /\ ProofsAreKept
  BY DEF Init, OnlyPaidOrdersAreServed, ProofsAreKept, Served, Serviceable
<1>5. ASSUME NEW r \in Requests PROVE RequestIsSound(request[r])
  BY DEF Init, RequestIsSound, Idle
<1> QED
  BY <1>1, <1>2, <1>3, <1>4, <1>5 DEF OrdersInv
-----------------------------------------------------------------------------
\* The facts a request relies on outlive the steps of the others: proofs,
\* charges and invoices are only ever added.
LEMMA RequestsStaySound ==
    ASSUME TypeOK, NEW r \in Requests, RequestIsSound(request[r]), request'[r] = request[r],
           proof \subseteq proof', \A o \in Orders : charges'[o] \in Nat /\ charges'[o] >= charges[o],
           Cardinality(invoices) \in Nat, Cardinality(invoices') \in Nat,
           Cardinality(invoices') >= Cardinality(invoices)
    PROVE  RequestIsSound(request[r])'
<1> DEFINE q == request[r]
<1>1. q # Idle => q.order \in Orders
  BY DEF RequestIsSound
<1>2. q.step = "write" => q.order \in Orders
  BY <1>1 DEF Idle
<1>3. q.step = "insert" => q.next \in 1 .. Cardinality(invoices') + 1
  BY DEF RequestIsSound
<1>4. q.step = "write" /\ q.op # "accept" /\ q.to \in Served =>
         q.order \in proof' /\ charges'[q.order] > 0
  BY <1>2 DEF RequestIsSound, TypeOK
<1> HIDE DEF q
<1>5. q.step = "write" /\ q.op = "accept" => q.order \in proof'
  BY DEF RequestIsSound, q
<1>6. q.step = "write" /\ q.op # "accept" => (q.to = "PROOF_SUBMITTED" => q.op = "proof")
  BY DEF RequestIsSound, q
<1> QED
  BY <1>1, <1>3, <1>4, <1>5, <1>6 DEF RequestIsSound, q

\* A request that has nothing to rely on, after its write or a crash.
LEMMA IdleIsSound == ASSUME NEW r \in Requests, request'[r] = Idle PROVE RequestIsSound(request[r])'
BY DEF RequestIsSound, Idle

\* Nothing but the requests changes.
LEMMA RequestsOnly ==
    ASSUME OrdersInv, TypeOK',
           UNCHANGED <<status, proof, charges, invoices>>,
           \A r \in Requests : RequestIsSound(request'[r])
    PROVE  OrdersInv'
<1>1. \A r \in Requests : RequestIsSound(request[r])'
  BY DEF RequestIsSound
<1> QED
  BY <1>1 DEF OrdersInv, InvoicesAreConsecutive, Numbers, OnlyPaidOrdersAreServed, ProofsAreKept

\* A request that checks the status lays the ground for what it will write.
LEMMA CheckKeepsOrders ==
    ASSUME OrdersInv, NEW r \in Requests, NEW o \in Orders,
           NEW op \in Operations, NEW allowed, NEW to \in Statuses, Check(r, o, op, allowed, to),
           op = "accept" => allowed = {"PROOF_SUBMITTED"},
           op # "accept" => /\ to = "PROOF_SUBMITTED" => op = "proof"
                            /\ to \in Served => allowed \subseteq Served
    PROVE  OrdersInv'
<1> DEFINE q == request'[r]
<1>1. /\ q = Slot("write", op, o, to, 0)
      /\ \A s \in Requests \ {r} : request'[s] = request[s]
      /\ status[o] \in allowed
  BY DEF Check, OrdersInv, TypeOK
<1>2. TypeOK'
  BY DEF OrdersInv, TypeOK, Check, Slot, Request
<1>3. RequestIsSound(q)
  <2>1. op = "accept" => o \in proof
    BY <1>1 DEF OrdersInv, ProofsAreKept
  <2>2. op # "accept" /\ to \in Served => o \in proof /\ charges[o] > 0
    BY <1>1 DEF OrdersInv, OnlyPaidOrdersAreServed
  <2> QED
    BY <1>1, <2>1, <2>2 DEF RequestIsSound, Slot
<1>4. \A s \in Requests : RequestIsSound(request'[s])
  BY <1>1, <1>3 DEF OrdersInv
<1> QED
  BY <1>2, <1>4, RequestsOnly DEF Check

LEMMA ReadKeepsOrders ==
    ASSUME OrdersInv, NEW r \in Requests, NEW o \in Orders, Read(r, o)
    PROVE  OrdersInv'
<1> USE DEF Operations, Statuses, Served, Serviceable
<1>1. CASE UploadPaymentProof(r, o)
  BY <1>1, CheckKeepsOrders DEF UploadPaymentProof
<1>2. CASE Accept(r, o)
  BY <1>2, CheckKeepsOrders DEF Accept
<1>3. CASE Reject(r, o)
  BY <1>3, CheckKeepsOrders DEF Reject
<1>4. CASE Cancel(r, o)
  BY <1>4, CheckKeepsOrders DEF Cancel
<1>5. CASE Pause(r, o)
  BY <1>5, CheckKeepsOrders DEF Pause
<1>6. CASE Resume(r, o)
  BY <1>6, CheckKeepsOrders DEF Resume
<1> QED
  BY <1>1, <1>2, <1>3, <1>4, <1>5, <1>6 DEF Read

LEMMA RequestStepKeepsOrders ==
    ASSUME OrdersInv, NEW r \in Requests, TakeNumber(r) \/ InvoiceFails(r)
    PROVE  OrdersInv'
<1>1. Cardinality(invoices) \in Nat
  BY FS_CardinalityType DEF OrdersInv
<1>2. \A s \in Requests : RequestIsSound(Idle)
  BY DEF RequestIsSound, Idle
<1>3. CASE TakeNumber(r)
  <2>1. request[r].order \in Orders
    BY <1>3 DEF TakeNumber, OrdersInv, RequestIsSound, Idle
  <2>2. request'[r] = Slot("insert", "accept", request[r].order, "ACTIVE", NextNumber)
    BY <1>3 DEF TakeNumber, OrdersInv, TypeOK
  <2>3. RequestIsSound(request'[r])
    BY <1>1, <2>1, <2>2 DEF RequestIsSound, Slot, NextNumber
  <2>4. \A s \in Requests : RequestIsSound(request'[s])
    BY <1>3, <2>3 DEF TakeNumber, OrdersInv, TypeOK
  <2>5. TypeOK'
    BY <1>1, <1>3, <2>1 DEF TakeNumber, OrdersInv, TypeOK, Slot, Request, Operations, Statuses,
       NextNumber
  <2> QED
    BY <1>3, <2>4, <2>5, RequestsOnly DEF TakeNumber
<1>4. CASE InvoiceFails(r)
  <2>1. request[r].order \in Orders
    BY <1>4 DEF InvoiceFails, OrdersInv, RequestIsSound, Idle
  <2>2. \A s \in Requests : RequestIsSound(request'[s])
    BY <1>2, <1>4 DEF InvoiceFails, OrdersInv, TypeOK
  <2>3. TypeOK'
    BY <1>4, <2>1 DEF InvoiceFails, OrdersInv, TypeOK, Idle, Request, Operations, Statuses
  <2> QED
    BY <1>4, <2>2, <2>3, RequestsOnly DEF InvoiceFails
<1> QED
  BY <1>3, <1>4

LEMMA CrashKeepsOrders == ASSUME OrdersInv, Crash PROVE OrdersInv'
<1>1. \A o \in Orders : Cardinality(Pending(o)) \in Nat
  BY FS_Subset, FS_CardinalityType DEF Pending
<1>2. TypeOK'
  BY <1>1 DEF Crash, OrdersInv, TypeOK, Idle, Request, Operations, Statuses
<1>3. \A s \in Requests : RequestIsSound(request'[s])
  BY DEF Crash, RequestIsSound, Idle
<1> QED
  BY <1>2, <1>3, RequestsOnly DEF Crash

LEMMA WriteStatusKeepsOrders ==
    ASSUME OrdersInv, NEW r \in Requests, WriteStatus(r) PROVE OrdersInv'
<1> DEFINE o == request[r].order  to == request[r].to
<1>1. /\ RequestIsSound(request[r])
      /\ request[r].step = "write" /\ request[r].op # "accept"
      /\ o \in Orders /\ to \in Statuses
  BY DEF WriteStatus, OrdersInv, RequestIsSound, Idle, TypeOK, Request
<1>2. /\ status' = [status EXCEPT ![o] = to]
      /\ proof' \in {proof, proof \cup {o}}
      /\ to = "PROOF_SUBMITTED" => o \in proof'
      /\ to \in Served => o \in proof /\ charges[o] > 0
  BY <1>1 DEF WriteStatus, RequestIsSound
<1>3. /\ UNCHANGED <<remaining, charges, received, invoices, uninvoiced>>
      /\ request' = [request EXCEPT ![r] = Idle]
  BY DEF WriteStatus
<1> HIDE DEF o, to
<1>4. TypeOK'
  BY <1>1, <1>2, <1>3 DEF OrdersInv, TypeOK, Idle, Request, Operations, Statuses
<1>5. IsFiniteSet(invoices)' /\ InvoicesAreConsecutive'
  BY <1>3 DEF OrdersInv, InvoicesAreConsecutive, Numbers
<1>6. OnlyPaidOrdersAreServed' /\ ProofsAreKept'
  BY <1>1, <1>2, <1>3 DEF OrdersInv, OnlyPaidOrdersAreServed, ProofsAreKept, TypeOK
<1>7. ASSUME NEW s \in Requests PROVE RequestIsSound(request[s])'
  <2>1. CASE s = r
    BY <1>3, <2>1, IdleIsSound DEF OrdersInv, TypeOK
  <2>2. CASE s # r
    <3>1. /\ request'[s] = request[s] /\ proof \subseteq proof' /\ invoices' = invoices
          /\ \A p \in Orders : charges'[p] \in Nat /\ charges'[p] >= charges[p]
      BY <1>2, <1>3, <2>2 DEF OrdersInv, TypeOK
    <3> QED
      BY <3>1, RequestsStaySound, FS_CardinalityType DEF OrdersInv
  <2> QED
    BY <2>1, <2>2
<1> QED
  BY <1>4, <1>5, <1>6, <1>7 DEF OrdersInv

LEMMA WriteAcceptKeepsOrders ==
    ASSUME OrdersInv, NEW r \in Requests, WriteAccept(r) PROVE OrdersInv'
<1> DEFINE o == request[r].order
<1>1. o \in Orders /\ o \in proof
  BY DEF WriteAccept, OrdersInv, RequestIsSound, Idle
<1>2. /\ charges' = [charges EXCEPT ![o] = @ + 1]
      /\ status' = [status EXCEPT ![o] = "ACTIVE"]
      /\ remaining' = [remaining EXCEPT ![o] = QuantityPaid[o]]
      /\ request' = [request EXCEPT ![r] = Slot("number", "accept", o, "ACTIVE", 0)]
      /\ UNCHANGED <<proof, received, invoices, uninvoiced>>
  BY DEF WriteAccept
<1> HIDE DEF o
<1>3. TypeOK'
  BY <1>1, <1>2 DEF OrdersInv, TypeOK, Slot, Request, Operations, Statuses
<1>4. IsFiniteSet(invoices)' /\ InvoicesAreConsecutive'
  BY <1>2 DEF OrdersInv, InvoicesAreConsecutive, Numbers
<1>5. OnlyPaidOrdersAreServed' /\ ProofsAreKept'
  BY <1>1, <1>2 DEF OrdersInv, OnlyPaidOrdersAreServed, ProofsAreKept, TypeOK
<1>6. ASSUME NEW s \in Requests PROVE RequestIsSound(request[s])'
  <2>1. CASE s = r
    <3>1. request'[s] = Slot("number", "accept", o, "ACTIVE", 0)
      BY <1>2, <2>1 DEF OrdersInv, TypeOK
    <3> QED
      BY <1>1, <3>1 DEF RequestIsSound, Slot
  <2>2. CASE s # r
    <3>1. request'[s] = request[s] /\ \A p \in Orders : charges'[p] \in Nat /\ charges'[p] >= charges[p]
      BY <1>2, <1>3, <2>2 DEF OrdersInv, TypeOK
    <3> QED
      BY <1>2, <3>1, RequestsStaySound, FS_CardinalityType DEF OrdersInv
  <2> QED
    BY <2>1, <2>2
<1> QED
  BY <1>3, <1>4, <1>5, <1>6 DEF OrdersInv

LEMMA InsertInvoiceKeepsOrders ==
    ASSUME OrdersInv, NEW r \in Requests, InsertInvoice(r) PROVE OrdersInv'
<1> DEFINE o == request[r].order
<1>1. o \in Orders /\ request[r].next \in 1 .. Cardinality(invoices) + 1
  BY DEF InsertInvoice, OrdersInv, RequestIsSound, Idle
<1>2. Cardinality(invoices) \in Nat
  BY FS_CardinalityType DEF OrdersInv
<1>3. /\ UNCHANGED <<status, remaining, proof, charges, received>>
      /\ request' = [request EXCEPT ![r] = Idle]
  BY DEF InsertInvoice
<1>4. /\ IsFiniteSet(invoices')
      /\ InvoicesAreConsecutive'
      /\ Cardinality(invoices') \in {Cardinality(invoices), Cardinality(invoices) + 1}
  <2>1. CASE request[r].next \notin Numbers
    BY <1>1, <2>1, NextInvoice DEF InsertInvoice, OrdersInv
  <2>2. CASE request[r].next \in Numbers
    BY <2>2 DEF InsertInvoice, OrdersInv, InvoicesAreConsecutive, Numbers
  <2> QED
    BY <2>1, <2>2
<1>5. invoices' \subseteq Orders \X Nat /\ uninvoiced' \in [Orders -> Nat]
  BY <1>1, <1>2 DEF InsertInvoice, OrdersInv, TypeOK
<1> HIDE DEF o
<1>6. TypeOK'
  BY <1>3, <1>5 DEF OrdersInv, TypeOK, Idle, Request, Operations, Statuses
<1>7. OnlyPaidOrdersAreServed' /\ ProofsAreKept'
  BY <1>3 DEF OrdersInv, OnlyPaidOrdersAreServed, ProofsAreKept
<1>8. ASSUME NEW s \in Requests PROVE RequestIsSound(request[s])'
  <2>1. CASE s = r
    BY <1>3, <2>1, IdleIsSound DEF OrdersInv, TypeOK
  <2>2. CASE s # r
    <3>1. /\ Cardinality(invoices') \in Nat /\ Cardinality(invoices') >= Cardinality(invoices)
          /\ \A p \in Orders : charges'[p] \in Nat /\ charges'[p] >= charges[p]
          /\ request'[s] = request[s]
      BY <1>2, <1>3, <1>4, <2>2 DEF OrdersInv, TypeOK
    <3> QED
      BY <1>2, <1>3, <3>1, RequestsStaySound DEF OrdersInv
  <2> QED
    BY <2>1, <2>2
<1> QED
  BY <1>4, <1>6, <1>7, <1>8 DEF OrdersInv

LEMMA OrderStepKeepsOrders ==
    ASSUME OrdersInv, NEW o \in Orders, Create(o) \/ SellLead(o) PROVE OrdersInv'
<1>1. UNCHANGED <<proof, charges, invoices, request, uninvoiced>>
  BY DEF Create, SellLead
<1>2. TypeOK'
  BY <1>1 DEF Create, SellLead, OrdersInv, TypeOK, Statuses
<1>3. /\ \A p \in Orders \ {o} : status'[p] = status[p]
      /\ status'[o] = "AWAITING_PAYMENT" \/ (status[o] \in Serviceable /\ status'[o] \in Served)
  BY DEF Create, SellLead, OrdersInv, TypeOK, Served, Serviceable
<1>4. OnlyPaidOrdersAreServed' /\ ProofsAreKept'
  BY <1>1, <1>3 DEF OrdersInv, OnlyPaidOrdersAreServed, ProofsAreKept, Served, Serviceable
<1>5. \A r \in Requests : RequestIsSound(request[r])'
  BY <1>1 DEF OrdersInv, RequestIsSound
<1> QED
  BY <1>1, <1>2, <1>4, <1>5 DEF OrdersInv, InvoicesAreConsecutive, Numbers

LEMMA NextOrders == OrdersInv /\ [Next]_vars => OrdersInv'
<1> SUFFICES ASSUME OrdersInv, [Next]_vars PROVE OrdersInv'
  OBVIOUS
<1>1. ASSUME NEW r \in Requests, Write(r) PROVE OrdersInv'
  BY <1>1, WriteStatusKeepsOrders, WriteAcceptKeepsOrders, InsertInvoiceKeepsOrders,
     RequestStepKeepsOrders DEF Write
<1>2. CASE UNCHANGED vars
  BY <1>2 DEF vars, OrdersInv, TypeOK, InvoicesAreConsecutive, Numbers, OnlyPaidOrdersAreServed,
     ProofsAreKept, RequestIsSound
<1> QED
  BY <1>1, <1>2, ReadKeepsOrders, OrderStepKeepsOrders, CrashKeepsOrders DEF Next

\* Types, paid orders and consecutive invoices, with what they rest on.
THEOREM OrdersAreSound == Spec => []OrdersInv
BY InitOrders, NextOrders, PTL DEF Spec

\* Every variable keeps its type: no balance goes below zero.
THEOREM OrderTypes == Spec => []TypeOK
BY OrdersAreSound, PTL DEF OrdersInv

\* However requests overlap, nothing is sold to an order without proof and charge.
THEOREM ServedOrdersArePaid == Spec => []OnlyPaidOrdersAreServed
BY OrdersAreSound, PTL DEF OrdersInv

\* Counting the invoices yields numbers without a gap, whatever fails.
THEOREM InvoiceNumbersHaveNoGap == Spec => []InvoicesAreConsecutive
BY OrdersAreSound, PTL DEF OrdersInv
-----------------------------------------------------------------------------
\* Each charge covers the balance that accept fills up, and a sale moves a lead
\* from what is left to what was received.
LEMMA NextKeepsSalesCovered ==
    ASSUME OrdersInv, OrdersInv', SalesAreCovered, [Next]_vars PROVE SalesAreCovered'
<1> DEFINE Covered(o) == received[o] + remaining[o] <= charges[o] * QuantityPaid[o]
<1> SUFFICES ASSUME NEW o \in Orders PROVE Covered(o)'
  BY DEF SalesAreCovered
<1>1. Covered(o)
  BY DEF SalesAreCovered
<1>2. CASE UNCHANGED <<received, remaining, charges>>
  BY <1>1, <1>2
<1>3. ASSUME NEW p \in Orders, SellLead(p) PROVE Covered(o)'
  <2>1. received'[o] + remaining'[o] = received[o] + remaining[o] /\ charges'[o] = charges[o]
    BY <1>3 DEF SellLead, OrdersInv, TypeOK
  <2> QED
    BY <1>1, <2>1
<1>4. ASSUME NEW r \in Requests, WriteAccept(r) PROVE Covered(o)'
  <2>1. CASE o = request[r].order
    <3>1. /\ received'[o] = received[o] /\ remaining'[o] = QuantityPaid[o]
          /\ charges'[o] = charges[o] + 1
      BY <1>4, <2>1 DEF WriteAccept, OrdersInv, TypeOK
    <3>2. /\ received[o] \in Nat /\ remaining[o] \in Nat /\ charges[o] \in Nat
          /\ QuantityPaid[o] \in Nat
      BY DEF OrdersInv, TypeOK
    <3>3. (charges[o] + 1) * QuantityPaid[o] = charges[o] * QuantityPaid[o] + QuantityPaid[o]
      BY <3>2
    <3>4. charges[o] * QuantityPaid[o] \in Nat
      BY <3>2
    <3> QED
      BY <1>1, <3>1, <3>2, <3>3, <3>4
  <2>2. CASE o # request[r].order
    <3>1. /\ received'[o] = received[o] /\ remaining'[o] = remaining[o]
          /\ charges'[o] = charges[o]
      BY <1>4, <2>2 DEF WriteAccept, OrdersInv, TypeOK
    <3> QED
      BY <1>1, <3>1
  <2> QED
    BY <2>1, <2>2
<1>5. \/ \E p \in Orders : SellLead(p)
      \/ \E r \in Requests : WriteAccept(r)
      \/ UNCHANGED <<received, remaining, charges>>
  BY DEF Next, Read, Write, Create, Check, UploadPaymentProof, Accept, Reject, Cancel, Pause,
     Resume, WriteStatus, TakeNumber, InsertInvoice, InvoiceFails, Crash, vars
<1> QED
  BY <1>2, <1>3, <1>4, <1>5

\* Leads are never given away, even when an order is accepted twice.
THEOREM SalesStayCovered == Spec => []SalesAreCovered
<1>1. Init => SalesAreCovered
  BY DEF Init, SalesAreCovered
<1>2. OrdersInv /\ OrdersInv' /\ SalesAreCovered /\ [Next]_vars => SalesAreCovered'
  BY NextKeepsSalesCovered
<1> QED
  BY <1>1, <1>2, OrdersAreSound, PTL DEF Spec
-----------------------------------------------------------------------------
LEMMA CountsAreFinite ==
    ASSUME OrdersInv, NEW o \in Orders
    PROVE  /\ IsFiniteSet(Issued(o)) /\ IsFiniteSet(Pending(o))
           /\ Cardinality(Issued(o)) \in Nat /\ Cardinality(Pending(o)) \in Nat
           /\ charges[o] \in Nat /\ uninvoiced[o] \in Nat
<1>1. Issued(o) \subseteq invoices /\ Pending(o) \subseteq Requests
  BY DEF Issued, Pending
<1> QED
  BY <1>1, FS_Subset, FS_CardinalityType DEF OrdersInv, TypeOK

\* The accepts of an order that are still to issue an invoice are the same when
\* no request came to that point or left it.
LEMMA SamePending ==
    ASSUME NEW o \in Orders,
           \A r \in Requests : request'[r] = request[r] \/ (r \notin Pending(o) /\ r \notin Pending(o)')
    PROVE  Pending(o)' = Pending(o)
BY DEF Pending

LEMMA NextKeepsInvoicesMatched ==
    ASSUME OrdersInv, OrdersInv', InvoicesMatchCharges, [Next]_vars PROVE InvoicesMatchCharges'
<1> DEFINE Matched(o) ==
      charges[o] = Cardinality(Issued(o)) + Cardinality(Pending(o)) + uninvoiced[o]
<1> SUFFICES ASSUME NEW o \in Orders PROVE Matched(o)'
  BY DEF InvoicesMatchCharges
<1>1. Matched(o)
  BY DEF InvoicesMatchCharges
<1>2. CASE UNCHANGED <<charges, invoices, uninvoiced>> /\ Pending(o)' = Pending(o)
  BY <1>1, <1>2 DEF Issued
<1>3. ASSUME NEW r \in Requests, NEW p \in Orders, Read(r, p) PROVE Matched(o)'
  <2>1. PICK op, to : /\ request[r] = Idle
                      /\ request' = [request EXCEPT ![r] = Slot("write", op, p, to, 0)]
                      /\ UNCHANGED <<charges, invoices, uninvoiced>>
    BY <1>3 DEF Read, Check, UploadPaymentProof, Accept, Reject, Cancel, Pause, Resume
  <2>2. \A s \in Requests \ {r} : request'[s] = request[s]
    BY <2>1 DEF OrdersInv, TypeOK
  <2>3. r \notin Pending(o) /\ r \notin Pending(o)'
    BY <2>1 DEF Pending, Idle, Slot, OrdersInv, TypeOK
  <2> QED
    BY <1>2, <2>1, <2>2, <2>3, SamePending
<1>4. ASSUME NEW r \in Requests, WriteStatus(r) \/ TakeNumber(r) PROVE Matched(o)'
  <2>1. UNCHANGED <<charges, invoices, uninvoiced>>
    BY <1>4 DEF WriteStatus, TakeNumber
  <2>2. \A s \in Requests \ {r} : request'[s] = request[s]
    BY <1>4 DEF WriteStatus, TakeNumber, OrdersInv, TypeOK
  <2>3. r \in Pending(o)' <=> r \in Pending(o)
    BY <1>4 DEF WriteStatus, TakeNumber, Pending, Idle, Slot, OrdersInv, TypeOK
  <2>4. Pending(o)' = Pending(o)
    BY <2>2, <2>3 DEF Pending
  <2> QED
    BY <1>2, <2>1, <2>4
<1>5. ASSUME NEW r \in Requests, WriteAccept(r) PROVE Matched(o)'
  <2>1. /\ \A s \in Requests \ {r} : request'[s] = request[s]
        /\ request'[r] = Slot("number", "accept", request[r].order, "ACTIVE", 0)
        /\ request[r].step = "write"
        /\ UNCHANGED <<invoices, uninvoiced>>
    BY <1>5 DEF WriteAccept, OrdersInv, TypeOK
  <2>2. CASE o = request[r].order
    <3>1. r \notin Pending(o) /\ Pending(o)' = Pending(o) \cup {r}
      BY <2>1, <2>2 DEF Pending, Slot
    <3>2. Cardinality(Pending(o)') = Cardinality(Pending(o)) + 1
      BY <3>1, CountsAreFinite, FS_AddElement
    <3>3. charges'[o] = charges[o] + 1
      BY <1>5, <2>2 DEF WriteAccept, OrdersInv, TypeOK
    <3> QED
      BY <1>1, <2>1, <3>2, <3>3, CountsAreFinite DEF Issued
  <2>3. CASE o # request[r].order
    <3>1. Pending(o)' = Pending(o)
      BY <2>1, <2>3 DEF Pending, Slot
    <3>2. charges'[o] = charges[o]
      BY <1>5, <2>3 DEF WriteAccept, OrdersInv, TypeOK
    <3> QED
      BY <1>1, <2>1, <3>1, <3>2 DEF Issued
  <2> QED
    BY <2>2, <2>3
<1>6. ASSUME NEW r \in Requests, InsertInvoice(r) \/ InvoiceFails(r) PROVE Matched(o)'
  <2>1. /\ \A s \in Requests \ {r} : request'[s] = request[s]
        /\ request'[r] = Idle
        /\ request[r].step \in {"number", "insert"}
        /\ UNCHANGED charges
    BY <1>6 DEF InsertInvoice, InvoiceFails, OrdersInv, TypeOK
  <2>2. CASE o = request[r].order
    <3>1. r \in Pending(o) /\ Pending(o)' = Pending(o) \ {r}
      BY <2>1, <2>2 DEF Pending, Idle
    <3>2. Cardinality(Pending(o)') = Cardinality(Pending(o)) - 1
      BY <3>1, CountsAreFinite, FS_RemoveElement
    <3>3. \/ Issued(o)' = Issued(o) /\ uninvoiced'[o] = uninvoiced[o] + 1
          \/ /\ request[r].next \notin Numbers
             /\ invoices' = invoices \cup {<<o, request[r].next>>}
             /\ uninvoiced'[o] = uninvoiced[o]
      BY <1>6, <2>2 DEF InsertInvoice, InvoiceFails, OrdersInv, TypeOK, Issued
    <3>4. ASSUME request[r].next \notin Numbers,
                 invoices' = invoices \cup {<<o, request[r].next>>}
          PROVE  Cardinality(Issued(o)') = Cardinality(Issued(o)) + 1
      <4>1. <<o, request[r].next>> \notin Issued(o)
        BY <3>4 DEF Issued, Numbers
      <4>2. Issued(o)' = Issued(o) \cup {<<o, request[r].next>>}
        BY <3>4 DEF Issued
      <4> QED
        BY <4>1, <4>2, CountsAreFinite, FS_AddElement
    <3> QED
      BY <1>1, <2>1, <3>2, <3>3, <3>4, CountsAreFinite
  <2>3. CASE o # request[r].order
    <3>1. Pending(o)' = Pending(o)
      BY <2>1, <2>3 DEF Pending, Idle
    <3>2. uninvoiced'[o] = uninvoiced[o]
      BY <1>6, <2>3 DEF InsertInvoice, InvoiceFails, OrdersInv, TypeOK
    <3>3. Issued(o)' = Issued(o)
      BY <1>6, <2>3 DEF InsertInvoice, InvoiceFails, Issued
    <3> QED
      BY <1>1, <2>1, <3>1, <3>2, <3>3
  <2> QED
    BY <2>2, <2>3
<1>7. CASE Crash
  <2>1. Pending(o)' = {}
    BY <1>7 DEF Crash, Pending, Idle
  <2>2. Cardinality(Pending(o)') = 0
    BY <2>1, FS_EmptySet
  <2>3. uninvoiced'[o] = uninvoiced[o] + Cardinality(Pending(o)) /\ UNCHANGED <<charges, invoices>>
    BY <1>7 DEF Crash
  <2>4. Issued(o)' = Issued(o)
    BY <2>3 DEF Issued
  <2>5. /\ Cardinality(Issued(o)) \in Nat /\ Cardinality(Pending(o)) \in Nat
        /\ uninvoiced[o] \in Nat
    BY CountsAreFinite
  <2>6. charges'[o] = Cardinality(Issued(o)') + 0 + uninvoiced'[o]
    BY <1>1, <2>3, <2>4, <2>5
  <2> QED
    BY <2>2, <2>6
<1>8. ASSUME NEW p \in Orders, Create(p) \/ SellLead(p) PROVE Matched(o)'
  <2>1. UNCHANGED <<charges, invoices, uninvoiced, request>>
    BY <1>8 DEF Create, SellLead
  <2> QED
    BY <1>2, <2>1 DEF Pending
<1>9. CASE UNCHANGED vars
  BY <1>2, <1>9 DEF vars, Pending
<1> QED
  BY <1>3, <1>4, <1>5, <1>6, <1>7, <1>8, <1>9 DEF Next, Write

\* Every charge is accounted for: invoiced, about to be, or known to have lost
\* its invoice.
THEOREM InvoicesStayMatched == Spec => []InvoicesMatchCharges
<1>1. Init => InvoicesMatchCharges
  <2> SUFFICES ASSUME Init, NEW o \in Orders
               PROVE  charges[o] = Cardinality(Issued(o)) + Cardinality(Pending(o)) + uninvoiced[o]
    BY DEF InvoicesMatchCharges
  <2>1. Issued(o) = {} /\ Pending(o) = {}
    BY DEF Init, Issued, Pending, Idle
  <2> QED
    BY <2>1, FS_EmptySet DEF Init
<1>2. OrdersInv /\ OrdersInv' /\ InvoicesMatchCharges /\ [Next]_vars => InvoicesMatchCharges'
  BY NextKeepsInvoicesMatched
<1> QED
  BY <1>1, <1>2, OrdersAreSound, PTL DEF Spec
-----------------------------------------------------------------------------
(***************************************************************************)
(* The two runs that refute a claim of the documents need requests that    *)
(* overlap: what follows is how much of the overlap has to go.             *)
(***************************************************************************)

\* From reading the status to writing it a request has its order to itself, as
\* it would if it locked the row.
OrdersAreTakenInTurn ==
    \A r, s \in Requests :
        /\ request[r].step = "write" /\ request[s].step = "write"
        /\ request[r].order = request[s].order
        => r = s

\* What an accept checked still holds when it writes.
AcceptIsFresh ==
    \A r \in Requests :
        request[r].step = "write" /\ request[r].op = "accept"
            => status[request[r].order] = "PROOF_SUBMITTED"

LEMMA NextKeepsAcceptFresh ==
    ASSUME OrdersInv, OrdersAreTakenInTurn, AcceptIsFresh, [Next]_vars
    PROVE  AcceptIsFresh'
<1> SUFFICES ASSUME NEW r \in Requests, request'[r].step = "write", request'[r].op = "accept"
             PROVE  status'[request'[r].order] = "PROOF_SUBMITTED"
  BY DEF AcceptIsFresh
<1>1. ASSUME NEW s \in Requests, NEW o \in Orders, Read(s, o)
      PROVE  status'[request'[r].order] = "PROOF_SUBMITTED"
  <2>1. status' = status
    BY <1>1 DEF Read, Check, UploadPaymentProof, Accept, Reject, Cancel, Pause, Resume
  <2>2. CASE s = r
    <3>1. Accept(s, o)
      BY <1>1, <2>2 DEF Read, Check, UploadPaymentProof, Reject, Cancel, Pause, Resume, Slot,
         OrdersInv, TypeOK
    <3> QED
      BY <2>1, <2>2, <3>1 DEF Accept, Check, Slot, OrdersInv, TypeOK
  <2>3. CASE s # r
    <3>1. request'[r] = request[r]
      BY <1>1, <2>3 DEF Read, Check, UploadPaymentProof, Accept, Reject, Cancel, Pause, Resume,
         OrdersInv, TypeOK
    <3> QED
      BY <2>1, <3>1 DEF AcceptIsFresh
  <2> QED
    BY <2>2, <2>3
<1>2. ASSUME NEW s \in Requests, Write(s)
      PROVE  status'[request'[r].order] = "PROOF_SUBMITTED"
  <2>1. request'[s].step # "write"
    BY <1>2 DEF Write, WriteStatus, WriteAccept, TakeNumber, InsertInvoice, InvoiceFails, Slot,
       Idle, OrdersInv, TypeOK
  <2>2. s # r
    BY <2>1
  <2>3. request'[r] = request[r]
    BY <1>2, <2>2 DEF Write, WriteStatus, WriteAccept, TakeNumber, InsertInvoice, InvoiceFails,
       OrdersInv, TypeOK
  <2>4. status[request[r].order] = "PROOF_SUBMITTED"
    BY <2>3 DEF AcceptIsFresh
  <2>5. CASE request[s].step = "write"
    <3>1. request[s].order # request[r].order
      BY <2>2, <2>3, <2>5 DEF OrdersAreTakenInTurn
    <3>2. status'[request[r].order] = status[request[r].order]
      <4>1. request[r].order \in Orders
        BY <2>3 DEF OrdersInv, RequestIsSound, Idle
      <4> QED
        BY <1>2, <2>5, <3>1, <4>1 DEF Write, WriteStatus, WriteAccept, TakeNumber, InsertInvoice,
           InvoiceFails, OrdersInv, TypeOK
    <3> QED
      BY <2>3, <2>4, <3>2
  <2>6. CASE request[s].step # "write"
    <3>1. status' = status
      BY <1>2, <2>6 DEF Write, WriteStatus, WriteAccept, TakeNumber, InsertInvoice, InvoiceFails
    <3> QED
      BY <2>3, <2>4, <3>1
  <2> QED
    BY <2>5, <2>6
<1>3. ASSUME NEW o \in Orders, Create(o) \/ SellLead(o)
      PROVE  status'[request'[r].order] = "PROOF_SUBMITTED"
  <2>1. request' = request /\ status[request[r].order] = "PROOF_SUBMITTED"
    BY <1>3 DEF Create, SellLead, AcceptIsFresh
  <2>2. status[o] # "PROOF_SUBMITTED"
    BY <1>3 DEF Create, SellLead, Serviceable
  <2>3. \A p \in Orders \ {o} : status'[p] = status[p]
    BY <1>3 DEF Create, SellLead, OrdersInv, TypeOK
  <2>4. request[r].order \in Orders
    BY <2>1 DEF OrdersInv, RequestIsSound, Idle
  <2> QED
    BY <2>1, <2>2, <2>3, <2>4
<1>4. CASE Crash
  BY <1>4 DEF Crash, Idle
<1>5. CASE UNCHANGED vars
  BY <1>5 DEF vars, AcceptIsFresh
<1> QED
  BY <1>1, <1>2, <1>3, <1>4, <1>5 DEF Next

\* A lock from the check of an order to its update is all that "Accept
\* (PROOF_SUBMITTED)" of ORDER_FLOW.md lacks.
THEOREM AcceptsInTurnNeedAProof == Spec /\ []OrdersAreTakenInTurn => OnlyProofsAreAccepted
<1> DEFINE Proven == \A o \in Orders : charges'[o] > charges[o] => status[o] = "PROOF_SUBMITTED"
<1>1. Init => AcceptIsFresh
  BY DEF Init, AcceptIsFresh, Idle
<1>2. ASSUME OrdersInv, AcceptIsFresh, [Next]_vars PROVE Proven
  <2> SUFFICES ASSUME NEW o \in Orders, charges'[o] > charges[o]
               PROVE  status[o] = "PROOF_SUBMITTED"
    OBVIOUS
  <2>1. charges'[o] # charges[o]
    BY <1>2 DEF OrdersInv, TypeOK
  <2>2. PICK r \in Requests : WriteAccept(r)
    BY <1>2, <2>1 DEF Next, Read, Write, Create, SellLead, Check, UploadPaymentProof, Accept,
       Reject, Cancel, Pause, Resume, WriteStatus, TakeNumber, InsertInvoice, InvoiceFails,
       Crash, vars
  <2>3. request[r].order = o
    BY <1>2, <2>1, <2>2 DEF WriteAccept, OrdersInv, TypeOK
  <2> QED
    BY <1>2, <2>2, <2>3 DEF WriteAccept, AcceptIsFresh
<1>3. OrdersInv /\ AcceptIsFresh /\ [Next]_vars => [Proven]_vars
  BY <1>2
<1>4. OrdersInv /\ OrdersAreTakenInTurn /\ AcceptIsFresh /\ [Next]_vars => AcceptIsFresh'
  BY NextKeepsAcceptFresh
<1> QED
  BY <1>1, <1>3, <1>4, OrdersAreSound, PTL DEF Spec, OnlyProofsAreAccepted
-----------------------------------------------------------------------------
\* One accept at a time counts the invoices and inserts its own.
InvoicesAreMadeInTurn ==
    \A r, s \in Requests :
        request[r].step \in {"number", "insert"} /\ request[s].step \in {"number", "insert"}
            => r = s

\* The number an accept took is still the next one.
NumberIsFresh ==
    \A r \in Requests : request[r].step = "insert" => request[r].next = NextNumber

InvoicedInv == NumberIsFresh /\ EveryAcceptIsInvoiced

LEMMA NextKeepsInvoiced ==
    ASSUME Failures = FALSE, OrdersInv, InvoicesAreMadeInTurn, InvoicedInv, [Next]_vars
    PROVE  InvoicedInv'
<1>1. Cardinality(invoices) \in Nat
  BY FS_CardinalityType DEF OrdersInv
<1>2. ASSUME NEW r \in Requests, InsertInvoice(r) PROVE InvoicedInv'
  <2>1. request[r].next = Cardinality(invoices) + 1
    BY <1>2 DEF InsertInvoice, InvoicedInv, NumberIsFresh, NextNumber
  <2>2. request[r].next \notin Numbers
    BY <1>1, <2>1 DEF OrdersInv, InvoicesAreConsecutive
  <2>3. uninvoiced' = uninvoiced
    BY <1>2, <2>2 DEF InsertInvoice
  <2>4. \A s \in Requests : request'[s].step # "insert"
    BY <1>2 DEF InsertInvoice, InvoicesAreMadeInTurn, Idle, OrdersInv, TypeOK
  <2> QED
    BY <2>3, <2>4 DEF InvoicedInv, NumberIsFresh, EveryAcceptIsInvoiced
<1>3. ASSUME NEW r \in Requests, WriteStatus(r) \/ WriteAccept(r) \/ TakeNumber(r)
      PROVE  InvoicedInv'
  <2>1. invoices' = invoices /\ uninvoiced' = uninvoiced
    BY <1>3 DEF WriteStatus, WriteAccept, TakeNumber
  <2>2. request'[r].step = "insert" => request'[r].next = NextNumber
    BY <1>3 DEF WriteStatus, WriteAccept, TakeNumber, Slot, Idle, OrdersInv, TypeOK
  <2>3. \A s \in Requests \ {r} : request'[s] = request[s]
    BY <1>3 DEF WriteStatus, WriteAccept, TakeNumber, OrdersInv, TypeOK
  <2> QED
    BY <2>1, <2>2, <2>3 DEF InvoicedInv, NumberIsFresh, EveryAcceptIsInvoiced, NextNumber
<1>4. ASSUME NEW r \in Requests, NEW o \in Orders, Read(r, o) PROVE InvoicedInv'
  <2>1. /\ invoices' = invoices /\ uninvoiced' = uninvoiced
        /\ request'[r].step = "write"
        /\ \A s \in Requests \ {r} : request'[s] = request[s]
    BY <1>4 DEF Read, Check, UploadPaymentProof, Accept, Reject, Cancel, Pause, Resume, Slot,
       OrdersInv, TypeOK
  <2> QED
    BY <2>1 DEF InvoicedInv, NumberIsFresh, EveryAcceptIsInvoiced, NextNumber
<1>5. CASE UNCHANGED <<invoices, uninvoiced, request>>
  BY <1>5 DEF InvoicedInv, NumberIsFresh, EveryAcceptIsInvoiced, NextNumber
<1> QED
  BY <1>2, <1>3, <1>4, <1>5 DEF Next, Write, InvoiceFails, Crash, Create, SellLead, vars

\* "On the rare race we retry once" (invoices.service.ts:95) would not be
\* missed if invoices were made one at a time: nothing else costs an invoice.
THEOREM InvoicesInTurnAreAllIssued ==
    ASSUME Failures = FALSE
    PROVE  Spec /\ []InvoicesAreMadeInTurn => []EveryAcceptIsInvoiced
<1>1. Init => InvoicedInv
  BY DEF Init, InvoicedInv, NumberIsFresh, EveryAcceptIsInvoiced, Idle
<1>2. OrdersInv /\ InvoicesAreMadeInTurn /\ InvoicedInv /\ [Next]_vars => InvoicedInv'
  BY NextKeepsInvoiced
<1>3. InvoicedInv => EveryAcceptIsInvoiced
  BY DEF InvoicedInv
<1> QED
  BY <1>1, <1>2, <1>3, OrdersAreSound, PTL DEF Spec
=============================================================================
