------------------------------- MODULE Orders -------------------------------
(***************************************************************************)
(* The life of an order (apps/api/src/orders), from the client's request   *)
(* through the off-platform payment to its fulfilment, and the invoices    *)
(* issued for it (apps/api/src/invoices).                                  *)
(*                                                                         *)
(* Every request reads the order, checks its status and later writes it,   *)
(* unlocked: between the two, other requests and the distribution engine   *)
(* may change the row.  The engine itself works on a locked row (module    *)
(* Distribution), so a sale is one step here.  Accepting an order charges  *)
(* it in the transaction that activates it, and then issues an invoice     *)
(* outside of it, which may fail.  Who may call what is not modelled, nor  *)
(* is the year in an invoice number: all of them are of one year.          *)
(***************************************************************************)
EXTENDS Naturals, FiniteSets

CONSTANTS
    Orders,        \* orders rows
    Requests,      \* slots for requests that run concurrently
    NoOrder,       \* the order of a slot without a request
    QuantityPaid,  \* orders.quantity_paid
    Failures       \* whether PDF rendering, storage or the process may fail

ASSUME OrdersAssumption ==
    /\ IsFiniteSet(Orders)
    /\ IsFiniteSet(Requests)
    /\ NoOrder \notin Orders
    /\ QuantityPaid \in [Orders -> Nat \ {0}]
    /\ Failures \in BOOLEAN

VARIABLES
    status,     \* orders.status ("ABSENT": not requested yet)
    remaining,  \* orders.quantity_remaining
    proof,      \* the orders with a payment screenshot
    charges,    \* number of CHARGE rows of an order in transactions
    received,   \* number of lead_assignments rows of an order
    invoices,   \* invoices rows, as pairs <<order, number>>
    request,    \* the request each slot serves
    uninvoiced  \* history: how many accepts of an order ended without an invoice

vars == <<status, remaining, proof, charges, received, invoices, request, uninvoiced>>
-----------------------------------------------------------------------------
Statuses == {"ABSENT", "AWAITING_PAYMENT", "PROOF_SUBMITTED", "ACTIVE", "FULFILLING",
             "COMPLETED", "REJECTED", "PAUSED", "CANCELLED"}
Terminal == {"COMPLETED", "CANCELLED", "REJECTED"}
Serviceable == {"ACTIVE", "FULFILLING"}

\* A request about to write the status "to", or an accept that has written it and
\* takes the next invoice number, or inserts the invoice under that number.
Operations == {"none", "proof", "accept", "reject", "cancel", "pause", "resume"}
Request == [step : {"idle", "write", "number", "insert"}, op : Operations,
            order : Orders \cup {NoOrder}, to : Statuses, next : Nat]
Idle == [step |-> "idle", op |-> "none", order |-> NoOrder, to |-> "ABSENT", next |-> 0]

Slot(step, op, o, to, n) == [step |-> step, op |-> op, order |-> o, to |-> to, next |-> n]

Issued(o) == {i \in invoices : i[1] = o}
Numbers == {i[2] : i \in invoices}
\* The accepts of order o that are still to issue their invoice.
Pending(o) == {r \in Requests : request[r].step \in {"number", "insert"}
                                  /\ request[r].order = o}
-----------------------------------------------------------------------------
\* The client requests an order.
Create(o) ==
    /\ status[o] = "ABSENT"
    /\ status' = [status EXCEPT ![o] = "AWAITING_PAYMENT"]
    /\ UNCHANGED <<remaining, proof, charges, received, invoices, request, uninvoiced>>

\* A request reads the order, finds it in one of the allowed statuses, and
\* settles on the status it will write.
Check(r, o, op, allowed, to) ==
    /\ request[r] = Idle
    /\ status[o] \in allowed
    /\ request' = [request EXCEPT ![r] = Slot("write", op, o, to, 0)]
    /\ UNCHANGED <<status, remaining, proof, charges, received, invoices, uninvoiced>>

UploadPaymentProof(r, o) == Check(r, o, "proof", {"AWAITING_PAYMENT"}, "PROOF_SUBMITTED")

\* Fault: an order may be accepted before any proof was uploaded.
AcceptUnproven(r, o) == Check(r, o, "accept", {"AWAITING_PAYMENT", "PROOF_SUBMITTED"}, "ACTIVE")
Accept(r, o) == Check(r, o, "accept", {"PROOF_SUBMITTED"}, "ACTIVE")

Reject(r, o) == Check(r, o, "reject", {"AWAITING_PAYMENT", "PROOF_SUBMITTED"}, "REJECTED")

\* An admin cancels any order that is not terminal; an agent only those that
\* still await payment, which adds nothing here.
Cancel(r, o) == Check(r, o, "cancel", Statuses \ (Terminal \cup {"ABSENT"}), "CANCELLED")

Pause(r, o) == Check(r, o, "pause", Serviceable, "PAUSED")

Resume(r, o) ==
    Check(r, o, "resume", {"PAUSED"},
          IF remaining[o] < QuantityPaid[o] THEN "FULFILLING" ELSE "ACTIVE")
-----------------------------------------------------------------------------
\* The status is overwritten, whatever it has become.
WriteStatus(r) ==
    LET o == request[r].order IN
    /\ request[r].step = "write" /\ request[r].op # "accept"
    /\ status' = [status EXCEPT ![o] = request[r].to]
    /\ proof' = IF request[r].op = "proof" THEN proof \cup {o} ELSE proof
    /\ request' = [request EXCEPT ![r] = Idle]
    /\ UNCHANGED <<remaining, charges, received, invoices, uninvoiced>>

\* Fault: the charge is recorded outside the transaction that activates.
WriteAcceptUncharged(r) ==
    LET o == request[r].order IN
    /\ request[r].step = "write" /\ request[r].op = "accept"
    /\ status' = [status EXCEPT ![o] = "ACTIVE"]
    /\ remaining' = [remaining EXCEPT ![o] = QuantityPaid[o]]
    /\ request' = [request EXCEPT ![r] = Slot("number", "accept", o, "ACTIVE", 0)]
    /\ UNCHANGED <<proof, charges, received, invoices, uninvoiced>>

\* The transaction of accept: one charge, and the order starts with all its leads.
WriteAccept(r) ==
    LET o == request[r].order IN
    /\ request[r].step = "write" /\ request[r].op = "accept"
    /\ charges' = [charges EXCEPT ![o] = @ + 1]
    /\ status' = [status EXCEPT ![o] = "ACTIVE"]
    /\ remaining' = [remaining EXCEPT ![o] = QuantityPaid[o]]
    /\ request' = [request EXCEPT ![r] = Slot("number", "accept", o, "ACTIVE", 0)]
    /\ UNCHANGED <<proof, received, invoices, uninvoiced>>

\* Fault: numbers are handed out in advance, so that a failed one leaves a gap.
NextNumberAhead == Cardinality(invoices) + Cardinality(UNION {Pending(o) : o \in Orders})
NextNumber == Cardinality(invoices) + 1

\* nextInvoiceNumber counts the invoices there are.
TakeNumber(r) ==
    /\ request[r].step = "number"
    /\ request' = [request EXCEPT ![r] =
                      Slot("insert", "accept", request[r].order, "ACTIVE", NextNumber)]
    /\ UNCHANGED <<status, remaining, proof, charges, received, invoices, uninvoiced>>

\* The invoice is rendered and inserted, unless another one took its number
\* meanwhile: the unique key fails the insert, accept logs it and goes on.
InsertInvoice(r) ==
    LET o == request[r].order IN
    /\ request[r].step = "insert"
    /\ \/ /\ request[r].next \notin Numbers
          /\ invoices' = invoices \cup {<<o, request[r].next>>}
          /\ UNCHANGED uninvoiced
       \/ /\ request[r].next \in Numbers
          /\ uninvoiced' = [uninvoiced EXCEPT ![o] = @ + 1]
          /\ UNCHANGED invoices
    /\ request' = [request EXCEPT ![r] = Idle]
    /\ UNCHANGED <<status, remaining, proof, charges, received>>

\* Rendering or storing the PDF fails: accept logs it and goes on.
InvoiceFails(r) ==
    /\ Failures
    /\ request[r].step \in {"number", "insert"}
    /\ uninvoiced' = [uninvoiced EXCEPT ![request[r].order] = @ + 1]
    /\ request' = [request EXCEPT ![r] = Idle]
    /\ UNCHANGED <<status, remaining, proof, charges, received, invoices>>

\* The process dies with every request it was serving.
Crash ==
    /\ Failures
    /\ uninvoiced' = [o \in Orders |-> uninvoiced[o] + Cardinality(Pending(o))]
    /\ request' = [r \in Requests |-> Idle]
    /\ UNCHANGED <<status, remaining, proof, charges, received, invoices>>


\* The distribution engine sells the order a lead (assignOne, on a locked row).
SellLead(o) ==
    /\ status[o] \in Serviceable
    /\ remaining[o] > 0
    /\ received' = [received EXCEPT ![o] = @ + 1]
    /\ remaining' = [remaining EXCEPT ![o] = @ - 1]
    /\ status' = [status EXCEPT ![o] = IF remaining[o] = 1 THEN "COMPLETED" ELSE "FULFILLING"]
    /\ UNCHANGED <<proof, charges, invoices, request, uninvoiced>>
-----------------------------------------------------------------------------
Init ==
    /\ status = [o \in Orders |-> "ABSENT"]
    /\ remaining = [o \in Orders |-> 0]
    /\ proof = {}
    /\ charges = [o \in Orders |-> 0]
    /\ received = [o \in Orders |-> 0]
    /\ invoices = {}
    /\ request = [r \in Requests |-> Idle]
    /\ uninvoiced = [o \in Orders |-> 0]

Read(r, o) ==
    \/ UploadPaymentProof(r, o) \/ Accept(r, o) \/ Reject(r, o)
    \/ Cancel(r, o) \/ Pause(r, o) \/ Resume(r, o)

Write(r) ==
    \/ WriteStatus(r) \/ WriteAccept(r)
    \/ TakeNumber(r) \/ InsertInvoice(r) \/ InvoiceFails(r)

Next ==
    \/ \E o \in Orders : Create(o) \/ SellLead(o)
    \/ \E r \in Requests, o \in Orders : Read(r, o)
    \/ \E r \in Requests : Write(r)
    \/ Crash

Spec == Init /\ [][Next]_vars
-----------------------------------------------------------------------------
TypeOK ==
    /\ status \in [Orders -> Statuses]
    /\ remaining \in [Orders -> Nat]
    /\ proof \subseteq Orders
    /\ charges \in [Orders -> Nat]
    /\ received \in [Orders -> Nat]
    /\ invoices \subseteq Orders \X Nat
    /\ request \in [Requests -> Request]
    /\ uninvoiced \in [Orders -> Nat]

\* However requests overlap, an order is served (or paused, or completed) only
\* after a payment proof was uploaded and a charge recorded for it.
Served == Serviceable \cup {"PAUSED", "COMPLETED"}
OnlyPaidOrdersAreServed ==
    \A o \in Orders : status[o] \in Served => o \in proof /\ charges[o] > 0

\* Leads are never given away: what an order received and may still receive
\* has been charged, even when it was accepted, paused or resumed twice.
SalesAreCovered ==
    \A o \in Orders : received[o] + remaining[o] <= charges[o] * QuantityPaid[o]

\* Invoice numbers run from one without a gap, whatever races and failures
\* happen between counting the invoices and inserting one; so the next number
\* is always free when no other invoice is being made.
InvoicesAreConsecutive == Numbers = 1 .. Cardinality(invoices)

\* Every charge has its invoice, is about to get one, or is known to have lost
\* it to a failure or to a race for the number.
InvoicesMatchCharges ==
    \A o \in Orders :
        charges[o] = Cardinality(Issued(o)) + Cardinality(Pending(o)) + uninvoiced[o]
-----------------------------------------------------------------------------
\* docs/ORDER_FLOW.md:82, "Accept ... (`PROOF_SUBMITTED`)": an order is charged
\* and activated only from that status, hence once for each proof.  The status
\* was read outside of the transaction: an accept that overlaps another one
\* charges the order twice, one that overlaps a cancel or a reject revives it.
OnlyProofsAreAccepted ==
    [][\A o \in Orders : charges'[o] > charges[o] => status[o] = "PROOF_SUBMITTED"]_vars

\* invoices.service.ts:95, "on the rare race we retry once": when nothing
\* fails, every accept ends with its invoice.  Nothing is retried.
EveryAcceptIsInvoiced == \A o \in Orders : uninvoiced[o] = 0
=============================================================================
