---------------------------- MODULE Replacements ----------------------------
(***************************************************************************)
(* The replacement of delivered leads (apps/api/src/replacements), with    *)
(* what it shares rows with: the distribution engine, manual assignments   *)
(* and the admin's controls of an order.                                   *)
(*                                                                         *)
(* A worker is a request or a handler.  approve, deny and the assignments  *)
(* are transactions: they take row locks one by one, keep them, and what   *)
(* they write shows when they commit.  An update takes the lock of its row *)
(* just as SELECT ... FOR UPDATE does.  The status of a replacement is     *)
(* read before any lock is taken and not looked at again.  A transaction   *)
(* that starts with a lock is here from that lock on, and taking the last  *)
(* lock and committing are one step: in between it can only go on.         *)
(*                                                                         *)
(* The automatic match, modelled in full in Distribution, sells a lead to  *)
(* one order here, and the other operations on an order are single steps.  *)
(* The window and the reasons of the replacement policy are left out: a    *)
(* client may ask or not ask at any time.  Every lead meets the criteria   *)
(* of every order.                                                         *)
(***************************************************************************)
EXTENDS Naturals, FiniteSets

CONSTANTS
    Leads,         \* leads rows
    Orders,        \* orders rows
    Requests,      \* bound: replacements rows
    Workers,       \* slots for requests and handlers that run concurrently
    None,          \* no lead, order or request
    Client,        \* orders.client_id
    DeliveryMode,  \* orders.delivery_mode
    QuantityPaid,  \* orders.quantity_paid
    Controls,      \* bound: the statuses an admin gives to an order
    MaxShared      \* MAX_SHARED

ASSUME ReplacementsAssumption ==
    /\ IsFiniteSet(Leads) /\ IsFiniteSet(Orders) /\ IsFiniteSet(Requests)
    /\ IsFiniteSet(Workers)
    /\ Leads \cap Orders = {} /\ Leads \cap Requests = {} /\ Orders \cap Requests = {}
    /\ None \notin Leads \cup Orders \cup Requests
    /\ DOMAIN Client = Orders
    /\ DeliveryMode \in [Orders -> {"EXCLUSIVE", "SHARED"}]
    /\ QuantityPaid \in [Orders -> Nat \ {0}]
    /\ Controls \subseteq {"ACTIVE", "FULFILLING", "PAUSED", "CANCELLED"}
    /\ MaxShared \in Nat \ {0}

VARIABLES
    leadState,    \* leads.lead_state
    orderStatus,  \* orders.status
    remaining,    \* orders.quantity_remaining
    assignments,  \* lead_assignments rows, as pairs <<lead, order>>
    delivered,    \* the assignments whose delivery_status is DELIVERED
    replacement,  \* replacements rows
    tx,           \* what each worker does
    credits       \* history: how often an approval credited an order

rows == <<leadState, orderStatus, remaining, assignments, delivered, replacement>>
vars == <<rows, tx, credits>>
-----------------------------------------------------------------------------
LeadStates == {"UNSOLD_POOL", "ASSIGNED", "DELIVERED", "REPLACEMENT_REQUESTED", "REPLACED",
               "ACCEPTED"}
OrderStatuses == {"ACTIVE", "FULFILLING", "COMPLETED", "PAUSED", "CANCELLED"}
Serviceable == {"ACTIVE", "FULFILLING"}
ReplacementStatuses == {"ABSENT", "REQUESTED", "APPROVED", "REPLACED", "DENIED"}

Replacement == [status : ReplacementStatuses, lead : Leads \cup {None},
                order : Orders \cup {None}, fresh : Leads \cup {None}]
NoReplacement == [status |-> "ABSENT", lead |-> None, order |-> None, fresh |-> None]

\* Where a worker is: the row it locks next, or the write it makes.
Operations == {"none", "auto", "manual", "create", "approve", "deny"}
Steps == {"idle", "order", "lead", "request", "insert", "mark"}
Transaction == [op : Operations, step : Steps, lead : Leads \cup {None},
                order : Orders \cup {None}, request : Requests \cup {None},
                fresh : Leads \cup {None}, locks : SUBSET (Leads \cup Orders \cup Requests)]

Work(op, step, l, o, q) == [op |-> op, step |-> step, lead |-> l, order |-> o,
                            request |-> q, fresh |-> None, locks |-> {}]
Idle == Work("none", "idle", None, None, None)

IsFree(row) == \A w \in Workers : row \notin tx[w].locks

Buyers(l) == {o \in Orders : <<l, o>> \in assignments}
Received(o) == {l \in Leads : <<l, o>> \in assignments}

\* Worker w starts on the given lead, order and replacement.
Begin(w, op, step, l, o, q) ==
    /\ tx[w] = Idle
    /\ tx' = [tx EXCEPT ![w] = Work(op, step, l, o, q)]
    /\ UNCHANGED <<rows, credits>>

\* Worker w, at step from, locks the given row and goes on at step to.
Lock(w, from, row, to) ==
    /\ tx[w].step = from
    /\ IsFree(row)
    /\ tx' = [tx EXCEPT ![w].locks = @ \cup {row}, ![w].step = to]
    /\ UNCHANGED <<rows, credits>>

End(w) == tx' = [tx EXCEPT ![w] = Idle]
-----------------------------------------------------------------------------
\* Fault: an automatic match does not look whether the lead was sold.
RedistributableSold(l) == l \in Leads
Redistributable(l) == leadState[l] = "UNSOLD_POOL"

\* Fault: the status of the locked order is not looked at.
CanReceiveClosed(o) == remaining[o] > 0
CanReceive(o) == orderStatus[o] \in Serviceable /\ remaining[o] > 0

\* A match locks a lead of the pool and chooses an open order, which it locks next.
Redistribute(w, l) ==
    /\ tx[w] = Idle
    /\ IsFree(l)
    /\ Redistributable(l)
    /\ \E o \in Orders :
          /\ CanReceive(o)
          /\ tx' = [tx EXCEPT ![w] = [Work("auto", "order", l, o, None) EXCEPT !.locks = {l}]]
    /\ UNCHANGED <<rows, credits>>

\* manualAssign locks the lead, then the order.
ManualAssign(w, l, o) ==
    /\ tx[w] = Idle
    /\ IsFree(l)
    /\ tx' = [tx EXCEPT ![w] = [Work("manual", "order", l, o, None) EXCEPT !.locks = {l}]]
    /\ UNCHANGED <<rows, credits>>

ManualAllowed(l, o) ==
    /\ o \notin Buyers(l)
    /\ \A p \in Buyers(l) : DeliveryMode[p] # "EXCLUSIVE"
    /\ DeliveryMode[o] = "EXCLUSIVE" => Buyers(l) = {}
    /\ DeliveryMode[o] = "SHARED" => Cardinality(Buyers(l)) < MaxShared

Accepts(t) == CanReceive(t.order) /\ (t.op = "manual" => ManualAllowed(t.lead, t.order))

CommitAssignment(w) ==
    LET l == tx[w].lead
        o == tx[w].order
    IN
    /\ tx[w].step = "order" /\ tx[w].op \in {"auto", "manual"}
    /\ IsFree(o)
    /\ \/ /\ Accepts(tx[w])
          /\ assignments' = assignments \cup {<<l, o>>}
          /\ remaining' = [remaining EXCEPT ![o] = @ - 1]
          /\ orderStatus' = [orderStatus EXCEPT ![o] =
                                IF remaining[o] = 1 THEN "COMPLETED" ELSE "FULFILLING"]
          /\ leadState' = [leadState EXCEPT ![l] = "ASSIGNED"]
       \/ /\ ~Accepts(tx[w])
          /\ UNCHANGED <<leadState, orderStatus, remaining, assignments>>
    /\ End(w)
    /\ UNCHANGED <<delivered, replacement, credits>>

\* deliverAssignment; an assignment whose event is lost stays pending.
Deliver(l, o) ==
    /\ <<l, o>> \in assignments \ delivered
    /\ leadState[l] = "ASSIGNED" => IsFree(l)
    /\ delivered' = delivered \cup {<<l, o>>}
    /\ leadState' = [leadState EXCEPT ![l] = IF @ = "ASSIGNED" THEN "DELIVERED" ELSE @]
    /\ UNCHANGED <<orderStatus, remaining, assignments, replacement, tx, credits>>

\* An admin pauses, resumes or cancels an order.  The status was checked before
\* the write and may have become any other since then (Orders and Distribution
\* model the checks).
SetOrderStatus(o) ==
    /\ IsFree(o)
    /\ \E s \in Controls : orderStatus' = [orderStatus EXCEPT ![o] = s]
    /\ UNCHANGED <<leadState, remaining, assignments, delivered, replacement, tx, credits>>
-----------------------------------------------------------------------------
Pending(q) == replacement[q].status = "REQUESTED"

\* A client asks for a replacement of a lead that was delivered, unless a
\* request of that client for the lead is pending.
Create(w, l, o) ==
    /\ <<l, o>> \in delivered
    /\ \A q \in Requests :
          Pending(q) /\ replacement[q].lead = l => Client[replacement[q].order] # Client[o]
    /\ Begin(w, "create", "insert", l, o, None)

\* The request is inserted, and then the lead marked, by two statements.
InsertReplacement(w) ==
    /\ tx[w].step = "insert"
    /\ \E q \in Requests :
          /\ replacement[q] = NoReplacement
          /\ replacement' = [replacement EXCEPT ![q] =
                [status |-> "REQUESTED", lead |-> tx[w].lead, order |-> tx[w].order,
                 fresh |-> None]]
    /\ tx' = [tx EXCEPT ![w].step = "mark"]
    /\ UNCHANGED <<leadState, orderStatus, remaining, assignments, delivered, credits>>

MarkLead(w) ==
    /\ tx[w].step = "mark"
    /\ IsFree(tx[w].lead)
    /\ leadState' = [leadState EXCEPT ![tx[w].lead] = "REPLACEMENT_REQUESTED"]
    /\ End(w)
    /\ UNCHANGED <<orderStatus, remaining, assignments, delivered, replacement, credits>>

\* deny updates the request and then the lead, in one transaction.
Deny(w, q) ==
    /\ Pending(q)
    /\ Begin(w, "deny", "request", replacement[q].lead, replacement[q].order, q)

LockDenied(w) == tx[w].op = "deny" /\ Lock(w, "request", tx[w].request, "lead")

CommitDeny(w) ==
    /\ tx[w].step = "lead" /\ tx[w].op = "deny"
    /\ IsFree(tx[w].lead)
    /\ replacement' = [replacement EXCEPT ![tx[w].request].status = "DENIED"]
    /\ leadState' = [leadState EXCEPT ![tx[w].lead] = "ACCEPTED"]
    /\ End(w)
    /\ UNCHANGED <<orderStatus, remaining, assignments, delivered, credits>>
-----------------------------------------------------------------------------
Approve(w, q) ==
    /\ Pending(q)
    /\ Begin(w, "approve", "order", replacement[q].lead, replacement[q].order, q)

\* approve locks the order, then the original lead, and claims a fresh lead; the
\* request is updated at the end.
LockCredited(w) == tx[w].op = "approve" /\ Lock(w, "order", tx[w].order, "lead")

\* Fault: a lead that someone else has locked is claimed as well.
CandidatesLocked(w) == {l \in Leads : /\ leadState[l] = "UNSOLD_POOL"
                                      /\ tx[w].order \notin Buyers(l)}
\* The leads claimReplacementLead may lock: SKIP LOCKED passes over the others.
Candidates(w) == {l \in Leads : /\ leadState[l] = "UNSOLD_POOL"
                                /\ IsFree(l)
                                /\ tx[w].order \notin Buyers(l)}

\* The status of the order is not looked at: a paused or a cancelled order is
\* given its replacement too.
ClaimReplacementLead(w) ==
    LET l == tx[w].lead IN
    /\ tx[w].step = "lead" /\ tx[w].op = "approve"
    /\ IsFree(l)
    /\ \/ \E fresh \in Candidates(w) \ {l} :
             tx' = [tx EXCEPT ![w].fresh = fresh, ![w].locks = @ \cup {l, fresh},
                              ![w].step = "request"]
       \/ /\ Candidates(w) \ {l} = {}
          /\ tx' = [tx EXCEPT ![w].locks = @ \cup {l}, ![w].step = "request"]
    /\ UNCHANGED <<rows, credits>>

\* Fault: a completed order stays completed although it is owed a lead.
StatusAfterCompleted(o, claimed) ==
    IF claimed /\ orderStatus[o] = "ACTIVE" THEN "FULFILLING" ELSE orderStatus[o]
\* The status of order o after the credit and, if a lead was claimed, its use.
StatusAfter(o, claimed) ==
    IF claimed /\ remaining[o] = 0 THEN "COMPLETED"
    ELSE IF orderStatus[o] = "COMPLETED" \/ (claimed /\ orderStatus[o] = "ACTIVE")
         THEN "FULFILLING"
         ELSE orderStatus[o]

\* Fault: the credit is lost when no lead can be claimed.
CreditLost(o, claimed) == remaining[o]
\* The credit, less the slot that a claimed lead takes.
Credit(o, claimed) == IF claimed THEN remaining[o] ELSE remaining[o] + 1

CommitApprove(w) ==
    LET t == tx[w]
        claimed == t.fresh # None
    IN
    /\ t.step = "request" /\ t.op = "approve"
    /\ IsFree(t.request)
    /\ remaining' = [remaining EXCEPT ![t.order] = Credit(t.order, claimed)]
    /\ orderStatus' = [orderStatus EXCEPT ![t.order] = StatusAfter(t.order, claimed)]
    /\ leadState' = [l \in Leads |-> CASE l = t.fresh -> "ASSIGNED"
                                       [] l = t.lead -> "REPLACED"
                                       [] OTHER -> leadState[l]]
    /\ assignments' = assignments \cup (({t.fresh} \cap Leads) \X {t.order})
    /\ replacement' = [replacement EXCEPT
          ![t.request].status = IF claimed THEN "REPLACED" ELSE "APPROVED",
          ![t.request].fresh = t.fresh]
    /\ credits' = [credits EXCEPT ![t.order] = @ + 1]
    /\ End(w)
    /\ UNCHANGED delivered
-----------------------------------------------------------------------------
\* The row a worker asks for next (None if it waits for no one).
Wanted(w) ==
    CASE tx[w].step \in {"lead", "mark"} -> tx[w].lead
      [] tx[w].step = "order" -> tx[w].order
      [] tx[w].step = "request" -> tx[w].request
      [] OTHER -> None

\* A worker is given up: by the deadlock detector of PostgreSQL, by the timeout
\* of its transaction, or as the process dies.
Abort(w) ==
    /\ tx[w] # Idle
    /\ End(w)
    /\ UNCHANGED <<rows, credits>>

Init ==
    /\ leadState = [l \in Leads |-> "UNSOLD_POOL"]
    /\ orderStatus = [o \in Orders |-> "ACTIVE"]
    /\ remaining = QuantityPaid
    /\ assignments = {}
    /\ delivered = {}
    /\ replacement = [q \in Requests |-> NoReplacement]
    /\ tx = [w \in Workers |-> Idle]
    /\ credits = [o \in Orders |-> 0]

Start(w) ==
    \/ \E l \in Leads : Redistribute(w, l)
    \/ \E l \in Leads, o \in Orders : ManualAssign(w, l, o) \/ Create(w, l, o)
    \/ \E q \in Requests : Approve(w, q) \/ Deny(w, q)

Step(w) ==
    \/ CommitAssignment(w)
    \/ InsertReplacement(w) \/ MarkLead(w)
    \/ LockDenied(w) \/ CommitDeny(w)
    \/ LockCredited(w) \/ ClaimReplacementLead(w) \/ CommitApprove(w)

Next ==
    \/ \E w \in Workers : Start(w) \/ Step(w) \/ Abort(w)
    \/ \E l \in Leads, o \in Orders : Deliver(l, o)
    \/ \E o \in Orders : SetOrderStatus(o)

Spec == Init /\ [][Next]_vars
-----------------------------------------------------------------------------
TypeOK ==
    /\ leadState \in [Leads -> LeadStates]
    /\ orderStatus \in [Orders -> OrderStatuses]
    /\ remaining \in [Orders -> Nat]
    /\ assignments \subseteq Leads \X Orders
    /\ delivered \subseteq Leads \X Orders
    /\ replacement \in [Requests -> Replacement]
    /\ tx \in [Workers -> Transaction]
    /\ credits \in [Orders -> Nat]

\* No slot is lost or made up: what an order received and still has to receive
\* is what it paid for and one lead for each credit, whatever approvals overlap
\* assignments, other approvals and denials.
BalancesReconcile ==
    \A o \in Orders : remaining[o] + Cardinality(Received(o)) = QuantityPaid[o] + credits[o]

\* A replacement is a lead nobody else has bought against the rules, although
\* claimReplacementLead looks neither at the exclusivity of the order nor at the
\* cap: it takes leads from the pool alone.
SharingRespected ==
    \A l \in Leads :
        /\ Cardinality(Buyers(l)) <= MaxShared
        /\ (\E o \in Buyers(l) : DeliveryMode[o] = "EXCLUSIVE") => Cardinality(Buyers(l)) = 1

\* A replaced request names a fresh lead: one its order was assigned, other than
\* the original, and other than the fresh lead of every other request.
FreshLeadsAreFresh ==
    \A q \in Requests : replacement[q].status = "REPLACED" =>
        /\ <<replacement[q].fresh, replacement[q].order>> \in assignments
        /\ replacement[q].fresh # replacement[q].lead
        /\ \A p \in Requests \ {q} : replacement[p].fresh # replacement[q].fresh

\* An order that is COMPLETED has nothing left to receive: a replacement credited
\* to it opens it again, whatever an admin does to it meanwhile.  (A drained order
\* need not be COMPLETED: a late pause or resume overwrites the status.)
CompletedOrdersOweNothing ==
    \A o \in Orders : orderStatus[o] = "COMPLETED" => remaining[o] = 0

\* An order that is paused, cancelled or completed receives no lead but the
\* replacement of one it had: its approval credits what the lead takes.  The
\* status is looked at under the lock of the order by both assignments and by no
\* approval (claimReplacementLead).
ClosedOrdersReceiveOnlyReplacements ==
    [][\A o \in Orders :
          (orderStatus[o] \notin Serviceable /\ Received(o)' # Received(o))
              => credits'[o] = credits[o] + 1 /\ remaining'[o] = remaining[o]]_vars

\* v waits for a row that w has locked.
WaitsFor(v, w) == Wanted(v) # None /\ Wanted(v) \in tx[w].locks

\* distribution.service.ts:417, "this can never deadlock against the auto engine":
\* although approve locks the order before a lead, no approvals and automatic
\* matches wait for one another in a circle.
NoDeadlockWithEngine ==
    \A group \in SUBSET {w \in Workers : tx[w].op \in {"approve", "auto"}} :
        group # {} => \E v \in group : \A w \in group : ~WaitsFor(v, w)
-----------------------------------------------------------------------------
\* replacements.service.ts:134, "Replacement already ..."; :137, "credit its
\* balance +1": a request is credited once, and only if it ends approved.  Its
\* status was read before the locks, so approvals and denials may overlap.
CreditedOnce ==
    \A o \in Orders :
        credits[o] <= Cardinality({q \in Requests : /\ replacement[q].order = o
                                                    /\ replacement[q].status \in {"APPROVED", "REPLACED"}})
=============================================================================
