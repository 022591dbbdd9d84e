---------------------------- MODULE Distribution ----------------------------
(***************************************************************************)
(* The lead distribution engine (apps/api/src/distribution) and the        *)
(* delivery worker that follows it (apps/api/src/realtime).                *)
(*                                                                         *)
(* Each worker is one HTTP request or event handler of the API that runs a *)
(* database transaction: the automatic match of one lead or the manual     *)
(* assignment of a lead to an order.  Transactions run at READ COMMITTED,  *)
(* hold the rows they locked with SELECT ... FOR UPDATE until they end,    *)
(* and everything they wrote becomes visible at once when they commit.     *)
(* Pausing and resuming an order are not transactions: they read the row,  *)
(* and later overwrite its status whatever it has become.                  *)
(*                                                                         *)
(* orders.daily_cap is NULL in every row the application writes, so the    *)
(* daily-cap filter of findEligibleOrders keeps every order here; paid_at  *)
(* is written by accept(), so it orders two orders of equal priority       *)
(* unless they were accepted in the same millisecond, and the              *)
(* last_served_at tie-break is left out.                                   *)
(***************************************************************************)
EXTENDS Naturals, FiniteSets

CONSTANTS
    Leads,          \* leads rows
    Orders,         \* orders rows, numbered in the order of their uuids
    Workers,        \* slots for requests and handlers that run concurrently
    NoLead,         \* the lead of a worker that has none
    LeadTypes,      \* values of the LeadType enum
    LeadType,       \* leads.lead_type
    OrderType,      \* orders.lead_type
    MeetsCriteria,  \* the <<lead, order>> pairs matchesCriteria accepts
    DeliveryMode,   \* orders.delivery_mode
    QueuePriority,  \* orders.queue_priority
    PaidAt,         \* orders.paid_at
    QuantityPaid,   \* orders.quantity_paid
    MaxShared,      \* MAX_SHARED
    PoolSize,       \* connections in the Prisma pool
    Crashes,        \* whether the API process may crash and restart
    AdminLeads,     \* bound: the leads an admin re-matches or assigns by hand
    PausedOrders,   \* bound: the orders an admin pauses and resumes
    HeldTypes       \* bound: the lead types an admin pauses or holds

Before(o, p) ==
    \/ QueuePriority[o] > QueuePriority[p]
    \/ QueuePriority[o] = QueuePriority[p] /\ PaidAt[o] < PaidAt[p]

ASSUME DistributionAssumption ==
    /\ IsFiniteSet(Leads)
    /\ IsFiniteSet(Orders)
    /\ Orders \subseteq Nat
    /\ IsFiniteSet(Workers)
    /\ NoLead \notin Leads
    /\ LeadType \in [Leads -> LeadTypes]
    /\ OrderType \in [Orders -> LeadTypes]
    /\ MeetsCriteria \subseteq Leads \X Orders
    /\ DeliveryMode \in [Orders -> {"EXCLUSIVE", "SHARED"}]
    /\ QueuePriority \in [Orders -> Nat]
    /\ PaidAt \in [Orders -> Nat]
    /\ \A o, p \in Orders : o # p => Before(o, p) \/ Before(p, o)
    /\ QuantityPaid \in [Orders -> Nat \ {0}]
    /\ MaxShared \in Nat \ {0}
    /\ PoolSize \in Nat \ {0}
    /\ Crashes \in BOOLEAN
    /\ AdminLeads \subseteq Leads
    /\ PausedOrders \subseteq Orders
    /\ HeldTypes \subseteq LeadTypes

VARIABLES
    leadState,         \* leads.lead_state ("ABSENT": not captured yet)
    orderStatus,       \* orders.status
    quantityRemaining, \* orders.quantity_remaining
    assignments,       \* lead_assignments rows, as pairs <<lead, order>>
    delivered,         \* the assignments whose delivery_status is DELIVERED
    blockedTypes,      \* lead types an admin paused or put on hold
    tx,                \* the transaction each worker runs
    validEvents,       \* emitted LEAD_VALID events not handled yet
    assignedEvents,    \* emitted LEAD_ASSIGNED events not handled yet
    statusWrite,       \* the status a pause or resume is about to write
    stranded           \* history: VALID leads whose automatic match ended undecided

dbVars == <<leadState, orderStatus, quantityRemaining, assignments, delivered>>
vars == <<dbVars, blockedTypes, tx, validEvents, assignedEvents, statusWrite,
          stranded>>
-----------------------------------------------------------------------------
LeadStates == {"ABSENT", "VALID", "REJECTED", "UNSOLD_POOL", "ASSIGNED",
               "DELIVERED"}
OrderStatuses == {"ACTIVE", "FULFILLING", "COMPLETED", "PAUSED"}
Serviceable == {"ACTIVE", "FULFILLING"}

\* A transaction: where it is, which operation it runs on which lead, the
\* orders it is going to assign, and the rows it has locked.
Phases == {"idle", "lead", "match", "order"}
Operations == {"none", "auto", "manual"}
Transaction == [phase : Phases, op : Operations, lead : Leads \cup {NoLead},
                targets : SUBSET Orders,
                leadLocks : SUBSET Leads, orderLocks : SUBSET Orders]

Idle == [phase |-> "idle", op |-> "none", lead |-> NoLead, targets |-> {},
         leadLocks |-> {}, orderLocks |-> {}]

LeadIsFree(l) == \A w \in Workers : l \notin tx[w].leadLocks
OrderIsFree(o) == \A w \in Workers : o \notin tx[w].orderLocks

\* A transaction keeps its connection from BEGIN to COMMIT or ROLLBACK.
ConnectionIsFree ==
    Cardinality({w \in Workers : tx[w].phase # "idle"}) < PoolSize

Begin(w, op, l, T) ==
    /\ tx[w].phase = "idle"
    /\ ConnectionIsFree
    /\ tx' = [tx EXCEPT ![w] = [phase |-> "lead", op |-> op, lead |-> l, targets |-> T,
                                leadLocks |-> {}, orderLocks |-> {}]]

End(w) == tx' = [tx EXCEPT ![w] = Idle]

Buyers(l) == {o \in Orders : <<l, o>> \in assignments}
Received(o) == {l \in Leads : <<l, o>> \in assignments}

Allocation == INSTANCE LeadAllocation WITH
    Exclusive <- {o \in Orders : DeliveryMode[o] = "EXCLUSIVE"},
    Paid <- QuantityPaid,
    assigned <- assignments,
    remaining <- quantityRemaining
-----------------------------------------------------------------------------
(***************************************************************************)
(* Intake creates a lead that its pipeline found VALID or REJECTED, and    *)
(* emits LEAD_VALID for the former.                                        *)
(***************************************************************************)
Capture(l) ==
    /\ leadState[l] = "ABSENT"
    /\ \/ /\ leadState' = [leadState EXCEPT ![l] = "VALID"]
          /\ validEvents' = validEvents \cup {l}
       \/ /\ leadState' = [leadState EXCEPT ![l] = "REJECTED"]
          /\ UNCHANGED validEvents
    /\ UNCHANGED <<orderStatus, quantityRemaining, assignments, delivered,
                   blockedTypes, tx, assignedEvents, statusWrite, stranded>>

\* onLeadValid: the handler of the event starts distribute().
OnLeadValid(w, l) ==
    /\ l \in validEvents
    /\ Begin(w, "auto", l, {})
    /\ validEvents' = validEvents \ {l}
    /\ UNCHANGED <<dbVars, blockedTypes, assignedEvents, statusWrite, stranded>>

\* An admin re-runs the match for one lead, or for the pooled leads one after
\* the other (matchPool); the lead may have moved on by the time it is locked.
Redistribute(w, l) ==
    /\ leadState[l] # "ABSENT"
    /\ Begin(w, "auto", l, {})
    /\ UNCHANGED <<dbVars, blockedTypes, validEvents, assignedEvents,
                   statusWrite, stranded>>

\* Fault: a lead that was just sold is matched again.
RedistributableSold(l) == leadState[l] \in {"VALID", "UNSOLD_POOL", "ASSIGNED"}
\* Fault: only pooled leads are matched.
RedistributablePooled(l) == leadState[l] = "UNSOLD_POOL"
Redistributable(l) == leadState[l] \in {"VALID", "UNSOLD_POOL"}

\* The first statement of both kinds of transaction locks the lead row.  The
\* automatic match stops there unless the lead still waits for a decision.
LockLead(w) ==
    LET l == tx[w].lead IN
    /\ tx[w].phase = "lead"
    /\ LeadIsFree(l)
    /\ \/ /\ tx[w].op = "auto" /\ Redistributable(l)
          /\ tx' = [tx EXCEPT ![w].phase = "match", ![w].leadLocks = {l}]
       \/ /\ tx[w].op = "auto" /\ ~Redistributable(l)
          /\ End(w)
       \/ /\ tx[w].op = "manual"
          /\ tx' = [tx EXCEPT ![w].phase = "order", ![w].leadLocks = {l}]
    /\ UNCHANGED <<dbVars, blockedTypes, validEvents, assignedEvents,
                   statusWrite, stranded>>
-----------------------------------------------------------------------------
Eligible(l) ==
    {o \in Orders : /\ OrderType[o] = LeadType[l]
                    /\ orderStatus[o] \in Serviceable
                    /\ quantityRemaining[o] > 0
                    /\ <<l, o>> \in MeetsCriteria}

\* The choice made from a non-empty eligible set E: its first order alone when
\* that one is EXCLUSIVE, otherwise its first MaxShared SHARED orders.
First(E) == {o \in E : \A p \in E \ {o} : Before(o, p)}
Shared(E) == {o \in E : DeliveryMode[o] = "SHARED"}

TargetSets(E) ==
    {{o} : o \in First(E) \ Shared(E)} \cup
    {T \in SUBSET Shared(E) :
        /\ First(E) \subseteq Shared(E)
        /\ Cardinality(T) <= MaxShared
        /\ T # Shared(E) => Cardinality(T) = MaxShared
        /\ \A o \in T, p \in Shared(E) \ T : Before(o, p)}

\* isBlocked reads the controls over a connection of its own while the
\* transaction keeps the one it has; then the eligible orders are read,
\* unlocked.  The lead is left VALID, pooled, or gets target orders to lock.
Match(w) ==
    LET l == tx[w].lead IN
    /\ tx[w].phase = "match"
    /\ ConnectionIsFree
    /\ \/ /\ LeadType[l] \in blockedTypes
          /\ End(w)
          /\ stranded' = stranded \cup {l}
          /\ UNCHANGED leadState
       \/ /\ LeadType[l] \notin blockedTypes
          /\ Eligible(l) = {}
          /\ End(w)
          /\ leadState' = [leadState EXCEPT ![l] = "UNSOLD_POOL"]
          /\ stranded' = stranded \ {l}
       \/ /\ LeadType[l] \notin blockedTypes
          /\ Eligible(l) # {}
          /\ \E T \in TargetSets(Eligible(l)) :
                tx' = [tx EXCEPT ![w].phase = "order", ![w].targets = T]
          /\ UNCHANGED <<leadState, stranded>>
    /\ UNCHANGED <<orderStatus, quantityRemaining, assignments, delivered,
                   blockedTypes, validEvents, assignedEvents, statusWrite>>

\* Fault: the target rows are locked in any order.
NextLocksUnsorted(T, held) == T \ held
\* The row a transaction locks next: the target orders in ascending id order.
NextLocks(T, held) == {o \in T \ held : \A p \in T \ held : o <= p}

LockOrder(w) ==
    /\ tx[w].phase = "order"
    /\ \E o \in NextLocks(tx[w].targets, tx[w].orderLocks) :
          /\ OrderIsFree(o)
          /\ tx' = [tx EXCEPT ![w].orderLocks = @ \cup {o}]
    /\ UNCHANGED <<dbVars, blockedTypes, validEvents, assignedEvents,
                   statusWrite, stranded>>
-----------------------------------------------------------------------------
\* assignOne, for each order of S: one assignment row, one slot less.
AssignAll(l, S) ==
    /\ assignments' = assignments \cup ({l} \X S)
    /\ quantityRemaining' =
          [o \in Orders |-> IF o \in S THEN quantityRemaining[o] - 1
                                       ELSE quantityRemaining[o]]
    /\ orderStatus' =
          [o \in Orders |-> CASE o \notin S -> orderStatus[o]
                              [] o \in S /\ quantityRemaining[o] = 1 -> "COMPLETED"
                              [] OTHER -> "FULFILLING"]
    /\ assignedEvents' = assignedEvents \cup ({l} \X S)

\* Re-check of a locked target against its current row.
\* Fault: the status of the locked order is not looked at again.
CanReceivePaused(o) == quantityRemaining[o] > 0
CanReceive(o) == quantityRemaining[o] > 0 /\ orderStatus[o] \in Serviceable

\* Every target is locked: assign the lead to those that can still receive
\* it, or pool it when none can, and commit.
CommitAuto(w) ==
    LET l == tx[w].lead
        filled == {o \in tx[w].targets : CanReceive(o)}
    IN
    /\ tx[w].phase = "order" /\ tx[w].op = "auto"
    /\ tx[w].targets \subseteq tx[w].orderLocks
    /\ AssignAll(l, filled)
    /\ leadState' = [leadState EXCEPT ![l] = IF filled # {} THEN "ASSIGNED"
                                                            ELSE "UNSOLD_POOL"]
    /\ stranded' = stranded \ {l}
    /\ End(w)
    /\ UNCHANGED <<delivered, blockedTypes, validEvents, statusWrite>>

\* The checks of manualAssign on the locked lead and order.  A lead in any
\* state may be assigned by hand, a REJECTED one included.
\* Fault: a lead may be assigned twice to one order.
ManualAllowedAgain(l, o) ==
    /\ CanReceive(o)
    /\ OrderType[o] = LeadType[l]
    /\ DeliveryMode[o] = "EXCLUSIVE" => Buyers(l) \subseteq {o}

\* Fault: the buyers a shared lead already has are not counted.
ManualAllowedUncapped(l, o) ==
    /\ CanReceive(o)
    /\ OrderType[o] = LeadType[l]
    /\ o \notin Buyers(l)
    /\ DeliveryMode[o] = "EXCLUSIVE" => Buyers(l) = {}

ManualAllowed(l, o) ==
    /\ CanReceive(o)
    /\ OrderType[o] = LeadType[l]
    /\ o \notin Buyers(l)
    /\ \A p \in Buyers(l) : DeliveryMode[p] # "EXCLUSIVE"
    /\ DeliveryMode[o] = "EXCLUSIVE" => Buyers(l) = {}
    /\ DeliveryMode[o] = "SHARED" =>
          Cardinality({p \in Buyers(l) : DeliveryMode[p] = "SHARED"}) < MaxShared

\* An admin asks to assign lead l to order o.
ManualAssign(w, l, o) ==
    /\ leadState[l] # "ABSENT"
    /\ Begin(w, "manual", l, {o})
    /\ UNCHANGED <<dbVars, blockedTypes, validEvents, assignedEvents,
                   statusWrite, stranded>>

CommitManual(w) ==
    LET l == tx[w].lead IN
    /\ tx[w].phase = "order" /\ tx[w].op = "manual"
    /\ tx[w].targets \subseteq tx[w].orderLocks
    /\ \/ /\ \A o \in tx[w].targets : ManualAllowed(l, o)
          /\ AssignAll(l, tx[w].targets)
          /\ leadState' = [leadState EXCEPT ![l] = "ASSIGNED"]
          /\ stranded' = stranded \ {l}
       \/ /\ \E o \in tx[w].targets : ~ManualAllowed(l, o)
          /\ UNCHANGED <<leadState, orderStatus, quantityRemaining, assignments,
                         assignedEvents, stranded>>
    /\ End(w)
    /\ UNCHANGED <<delivered, blockedTypes, validEvents, statusWrite>>
-----------------------------------------------------------------------------
\* Where a transaction can only wait for another one.
Waiting(w) ==
    \/ tx[w].phase = "lead" /\ ~LeadIsFree(tx[w].lead)
    \/ tx[w].phase = "match" /\ ~ConnectionIsFree
    \/ /\ tx[w].phase = "order"
       /\ \E o \in NextLocks(tx[w].targets, tx[w].orderLocks) : ~OrderIsFree(o)

\* The leads whose automatic match is given up when worker w rolls back.
GivenUp(w) ==
    IF tx[w].op = "auto" /\ leadState[tx[w].lead] = "VALID"
    THEN {tx[w].lead} ELSE {}

\* A transaction that waits too long (timeout of TX_OPTIONS, pool_timeout) is
\* rolled back; onLeadValid logs the error and nothing retries.
Timeout(w) ==
    /\ Waiting(w)
    /\ End(w)
    /\ stranded' = stranded \cup GivenUp(w)
    /\ UNCHANGED <<dbVars, blockedTypes, validEvents, assignedEvents,
                   statusWrite>>

\* No connection comes free for a handler within maxWait: the same happens.
BeginTimeout(l) ==
    /\ l \in validEvents
    /\ ~ConnectionIsFree
    /\ validEvents' = validEvents \ {l}
    /\ stranded' = stranded \cup ({l} \cap {k \in Leads : leadState[k] = "VALID"})
    /\ UNCHANGED <<dbVars, blockedTypes, tx, assignedEvents, statusWrite>>

\* The process dies: the database rolls every open transaction back and the
\* in-memory events are gone.
Crash ==
    /\ Crashes
    /\ tx' = [w \in Workers |-> Idle]
    /\ validEvents' = {}
    /\ assignedEvents' = {}
    /\ statusWrite' = [o \in Orders |-> "none"]
    /\ stranded' = stranded \cup {l \in Leads : leadState[l] = "VALID"}
    /\ UNCHANGED <<dbVars, blockedTypes>>
-----------------------------------------------------------------------------
\* deliverAssignment: books the delivery of one assignment and moves its lead
\* on, but only from ASSIGNED.  That update waits for the lead row only when
\* the committed row matches its condition.
DeliverAssignment(l, o) ==
    /\ <<l, o>> \in assignedEvents
    /\ ConnectionIsFree
    /\ leadState[l] = "ASSIGNED" => LeadIsFree(l)
    /\ delivered' = delivered \cup {<<l, o>>}
    /\ leadState' = [leadState EXCEPT ![l] = IF @ = "ASSIGNED" THEN "DELIVERED" ELSE @]
    /\ assignedEvents' = assignedEvents \ {<<l, o>>}
    /\ UNCHANGED <<orderStatus, quantityRemaining, assignments, blockedTypes, tx,
                   validEvents, statusWrite, stranded>>

\* The delivery worker catches every error; the assignment stays PENDING.
DeliveryFails(l, o) ==
    /\ <<l, o>> \in assignedEvents
    /\ ~ConnectionIsFree \/ ~LeadIsFree(l)
    /\ assignedEvents' = assignedEvents \ {<<l, o>>}
    /\ UNCHANGED <<dbVars, blockedTypes, tx, validEvents, statusWrite, stranded>>
-----------------------------------------------------------------------------
\* setLeadType: an admin pauses or resumes a lead type, or toggles its hold.
SetLeadType(t) ==
    /\ \/ t \in blockedTypes /\ blockedTypes' = blockedTypes \ {t}
       \/ t \notin blockedTypes /\ blockedTypes' = blockedTypes \cup {t}
    /\ UNCHANGED <<dbVars, tx, validEvents, assignedEvents, statusWrite, stranded>>

\* The read and check of pauseOrder and resumeOrder, which settle what will be
\* written.  Bound: one such request is in flight per order.
PauseOrder(o) ==
    /\ statusWrite[o] = "none"
    /\ orderStatus[o] \in Serviceable
    /\ statusWrite' = [statusWrite EXCEPT ![o] = "PAUSED"]
    /\ UNCHANGED <<dbVars, blockedTypes, tx, validEvents, assignedEvents, stranded>>

ResumeOrder(o) ==
    /\ statusWrite[o] = "none"
    /\ orderStatus[o] = "PAUSED"
    /\ statusWrite' = [statusWrite EXCEPT ![o] =
          IF quantityRemaining[o] < QuantityPaid[o] THEN "FULFILLING" ELSE "ACTIVE"]
    /\ UNCHANGED <<dbVars, blockedTypes, tx, validEvents, assignedEvents, stranded>>

\* Their update, which waits for the row lock and checks nothing again.
WriteOrderStatus(o) ==
    /\ statusWrite[o] # "none"
    /\ OrderIsFree(o)
    /\ orderStatus' = [orderStatus EXCEPT ![o] = statusWrite[o]]
    /\ statusWrite' = [statusWrite EXCEPT ![o] = "none"]
    /\ UNCHANGED <<leadState, quantityRemaining, assignments, delivered,
                   blockedTypes, tx, validEvents, assignedEvents, stranded>>
-----------------------------------------------------------------------------
Init ==
    /\ leadState = [l \in Leads |-> "ABSENT"]
    /\ orderStatus = [o \in Orders |-> "ACTIVE"]
    /\ quantityRemaining = QuantityPaid
    /\ assignments = {}
    /\ delivered = {}
    /\ blockedTypes = {}
    /\ tx = [w \in Workers |-> Idle]
    /\ validEvents = {}
    /\ assignedEvents = {}
    /\ statusWrite = [o \in Orders |-> "none"]
    /\ stranded = {}

Step(w) == LockLead(w) \/ Match(w) \/ LockOrder(w) \/ CommitAuto(w) \/ CommitManual(w)

Request(w) ==
    \/ \E l \in Leads : OnLeadValid(w, l)
    \/ \E l \in AdminLeads : Redistribute(w, l)
    \/ \E l \in AdminLeads, o \in Orders : ManualAssign(w, l, o)

Deliver == \E l \in Leads, o \in Orders : DeliverAssignment(l, o) \/ DeliveryFails(l, o)

Administer ==
    \/ \E t \in HeldTypes : SetLeadType(t)
    \/ \E o \in PausedOrders : PauseOrder(o) \/ ResumeOrder(o) \/ WriteOrderStatus(o)

Next ==
    \/ \E l \in Leads : Capture(l) \/ BeginTimeout(l)
    \/ \E w \in Workers : Request(w) \/ Step(w) \/ Timeout(w)
    \/ Deliver
    \/ Administer
    \/ Crash

Spec == Init /\ [][Next]_vars

(***************************************************************************)
(* A transaction that can go on does, and PostgreSQL and the connection    *)
(* pool serve those that wait in the order they asked, so a request that   *)
(* is free to go on again and again eventually goes on.  Nothing makes an  *)
(* admin act, a lead arrive or the process crash.                          *)
(***************************************************************************)
Fairness ==
    /\ \A w \in Workers : SF_vars(Step(w))
    /\ \A l \in Leads : SF_vars(\E w \in Workers : OnLeadValid(w, l))
    /\ \A l \in Leads, o \in Orders : SF_vars(DeliverAssignment(l, o))

FairSpec == Spec /\ Fairness
-----------------------------------------------------------------------------
TypeOK ==
    /\ leadState \in [Leads -> LeadStates]
    /\ orderStatus \in [Orders -> OrderStatuses]
    /\ quantityRemaining \in [Orders -> Nat]
    /\ assignments \subseteq Leads \X Orders
    /\ delivered \subseteq Leads \X Orders
    /\ blockedTypes \subseteq LeadTypes
    /\ tx \in [Workers -> Transaction]
    /\ validEvents \subseteq Leads
    /\ assignedEvents \subseteq Leads \X Orders
    /\ statusWrite \in [Orders -> OrderStatuses \cup {"none"}]
    /\ stranded \subseteq Leads

\* The totals of concurrency-test.ts: whatever transactions overlap, time out
\* or die, the slots an order has left and the leads it was assigned add up to
\* what it paid for, so no order is over-filled and none loses a slot.
BalancesReconcile == Allocation!BalancesReconcile

\* A lead is sold to one EXCLUSIVE order or to at most MaxShared orders, by
\* the checks of the code alone: the unique index and the trigger that back
\* them up in the database are not in the model.
SharingRespected == Allocation!SharingRespected

\* A lead that still waits for a decision has not been sold to anyone.
UndecidedLeadsAreUnsold ==
    \A l \in Leads :
        leadState[l] \in {"ABSENT", "VALID", "UNSOLD_POOL"} => Buyers(l) = {}

\* Two transactions never hold the same row.
LocksAreExclusive ==
    \A v, w \in Workers :
        v # w => /\ tx[v].leadLocks \cap tx[w].leadLocks = {}
                 /\ tx[v].orderLocks \cap tx[w].orderLocks = {}

\* What a transaction may rely on while it holds its locks: the lead row is
\* locked before any order row and stays locked, order rows are locked in
\* ascending order, an automatic match works on a lead that stays undecided,
\* and the orders it locks are a set the lead may be sold to.
Coherent(t) ==
    /\ t.phase \in {"idle", "lead"} => t.leadLocks = {}
    /\ t.phase \in {"match", "order"} => t.leadLocks = {t.lead}
    /\ t.phase # "order" => t.orderLocks = {}
    /\ t.orderLocks \subseteq t.targets
    /\ \A o \in t.orderLocks, p \in t.targets \ t.orderLocks : o < p
    /\ t.phase # "idle" => t.lead \in Leads
    /\ t.phase = "idle" <=> t.op = "none"
    /\ t.phase = "match" => t.op = "auto"
    /\ t.leadLocks # {} /\ t.op = "auto" => Redistributable(t.lead)
    /\ t.phase = "order" /\ t.op = "auto" => Allocation!Permitted(t.targets)
    /\ t.op = "manual" => \E o \in Orders : t.targets = {o}

TransactionsAreCoherent == \A w \in Workers : Coherent(tx[w])

\* v waits for a row lock that w holds.
WaitsFor(v, w) ==
    \/ tx[v].phase = "lead" /\ tx[v].lead \in tx[w].leadLocks
    \/ /\ tx[v].phase = "order"
       /\ NextLocks(tx[v].targets, tx[v].orderLocks) \cap tx[w].orderLocks # {}

\* Deadlock freedom of the row locks ("deadlock-safe", distribution.service.ts:71):
\* in every group of workers some worker waits for no other one of the group.
NoLockCycle ==
    \A group \in (SUBSET Workers) \ {{}} :
        \E v \in group : \A w \in group \ {v} : ~WaitsFor(v, w)

\* A VALID lead that nobody decided about has its event still to be handled or
\* its match in progress, unless its match was skipped for a hold or given up
\* for a timeout or a crash: no other path drops it.
NoLeadForgotten ==
    \A l \in Leads : leadState[l] = "VALID" =>
        \/ l \in validEvents \cup stranded
        \/ \E w \in Workers : tx[w].op = "auto" /\ tx[w].lead = l

\* The lead's state and the booked deliveries agree: an ASSIGNED lead has an
\* assignment still to be delivered, a DELIVERED one has a delivered one, and
\* only assignments are delivered.
LeadStateMatchesDelivery ==
    /\ delivered \subseteq assignments
    /\ \A l \in Leads :
        /\ leadState[l] = "ASSIGNED" => \E o \in Buyers(l) : <<l, o>> \notin delivered
        /\ leadState[l] = "DELIVERED" => \E o \in Buyers(l) : <<l, o>> \in delivered

\* A lead that was sold never becomes distributable again.
SoldLeadsStaySold ==
    [][\A l \in Leads : leadState[l] \in {"ASSIGNED", "DELIVERED"} =>
          leadState'[l] \notin {"VALID", "UNSOLD_POOL"}]_vars

\* An order receives leads only while its committed status lets it, even when
\* it was paused or drained after the match chose it.
OnlyOpenOrdersReceive ==
    [][\A l \in Leads, o \in Orders :
          <<l, o>> \in assignments' \ assignments =>
              orderStatus[o] \in Serviceable /\ quantityRemaining[o] > 0]_vars

\* The allocation promised by LeadAllocation is what the locking, re-checking
\* transactions carry out.
ImplementsAllocation == Allocation!AllocationSpec

\* A captured lead is decided about, sold or pooled, unless its match was
\* skipped for a hold or given up.
EveryLeadIsDecided ==
    \A l \in Leads : leadState[l] = "VALID" ~> (leadState[l] # "VALID" \/ l \in stranded)

\* Every transaction comes to its end without being timed out: no lock and no
\* connection is waited for forever, as long as the pool is larger than the
\* number of transactions.
EveryTransactionEnds ==
    \A w \in Workers : tx[w].phase # "idle" ~> tx[w].phase = "idle"
-----------------------------------------------------------------------------
\* schema.prisma:74 and the state machine of docs/ORDER_FLOW.md: an order whose
\* quantity_remaining hit zero is COMPLETED, at the latest when nobody keeps it
\* paused.  The unchecked write of a pause, and the resume after it, break it.
DrainedOrderIsCompleted ==
    \A o \in Orders : quantityRemaining[o] = 0 =>
                        orderStatus[o] \in {"COMPLETED", "PAUSED"}

\* concurrency-test.ts:13: every lead the engine was given ends assigned or in
\* the unsold pool.  It does not when as many transactions as the pool has
\* connections wait for the second one isBlocked asks for.
EveryLeadSettles ==
    \A l \in Leads : leadState[l] = "VALID" ~> leadState[l] # "VALID"
=============================================================================
