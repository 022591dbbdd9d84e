------------------------- MODULE ReplacementsProofs -------------------------
(***************************************************************************)
(* Proofs about replacements, for any number of leads, orders, requests    *)
(* and workers.                                                            *)
(*                                                                         *)
(* claimReplacementLead checks neither the exclusivity of the order nor    *)
(* the cap.  It is right because of what the invariant says of leads in    *)
(* the pool: they have no buyer, and whoever holds one keeps it there.     *)
(* The last part is about decisions that come in turn.                     *)
(***************************************************************************)
EXTENDS Replacements, FiniteSetTheorems, TLAPS

\* What transaction t has locked, and what its locks and what it read before
\* them still say.
Sound(t) ==
    /\ t.op = "none" => t = Idle
    /\ t.op # "none" => t.lead \in Leads /\ t.order \in Orders
    /\ t.op \in {"auto", "manual"} => t.step = "order" /\ t.locks = {t.lead}
    /\ t.op = "auto" => leadState[t.lead] = "UNSOLD_POOL"
    /\ t.op \in {"create", "approve", "deny"} => Buyers(t.lead) # {}
    /\ t.op = "create" => t.step \in {"insert", "mark"} /\ t.locks = {}
    /\ t.op \in {"approve", "deny"} =>
          /\ t.request \in Requests
          /\ replacement[t.request].status # "ABSENT"
          /\ replacement[t.request].lead = t.lead
          /\ replacement[t.request].order = t.order
    /\ t.op = "deny" => \/ t.step = "request" /\ t.locks = {}
                        \/ t.step = "lead" /\ t.locks = {t.request}
    /\ t.op = "approve" => \/ t.step = "order" /\ t.locks = {}
                           \/ t.step = "lead" /\ t.locks = {t.order}
                           \/ t.step = "request" /\ t.locks = {t.order, t.lead} \cup ({t.fresh} \cap Leads)
    /\ t.fresh # None => /\ t.op = "approve" /\ t.step = "request"
                         /\ t.fresh \in Leads /\ leadState[t.fresh] = "UNSOLD_POOL"

LocksAreExclusive ==
    \A v, w \in Workers : v # w => tx[v].locks \cap tx[w].locks = {}

\* The leads of the pool are those nobody bought or was promised.
PoolIsUnsold ==
    /\ delivered \subseteq assignments
    /\ \A l \in Leads : leadState[l] = "UNSOLD_POOL" => Buyers(l) = {}
    /\ \A q \in Requests : replacement[q].fresh # None => leadState[replacement[q].fresh] # "UNSOLD_POOL"

RequestsAreOfSoldLeads ==
    \A q \in Requests : replacement[q].status # "ABSENT" =>
        /\ replacement[q].lead \in Leads /\ replacement[q].order \in Orders
        /\ Buyers(replacement[q].lead) # {}

TransactionsAreSound == \A w \in Workers : Sound(tx[w])

ReplacementsInv ==
    /\ TypeOK
    /\ TransactionsAreSound
    /\ LocksAreExclusive
    /\ PoolIsUnsold
    /\ RequestsAreOfSoldLeads
    /\ BalancesReconcile
    /\ SharingRespected
    /\ FreshLeadsAreFresh
    /\ CompletedOrdersOweNothing

USE ReplacementsAssumption DEF ReplacementsAssumption
-----------------------------------------------------------------------------
\* The buyers of a lead and the leads of an order are finite sets.
LEMMA FiniteSales ==
    /\ \A l \in Leads : IsFiniteSet(Buyers(l)) /\ Cardinality(Buyers(l)) \in Nat
    /\ \A o \in Orders : IsFiniteSet(Received(o)) /\ Cardinality(Received(o)) \in Nat
<1>1. ASSUME NEW l \in Leads PROVE IsFiniteSet(Buyers(l))
  <2>1. Buyers(l) \subseteq Orders
    BY DEF Buyers
  <2> QED
    BY <2>1, FS_Subset
<1>2. ASSUME NEW o \in Orders PROVE IsFiniteSet(Received(o))
  <2>1. Received(o) \subseteq Leads
    BY DEF Received
  <2> QED
    BY <2>1, FS_Subset
<1> QED
  BY <1>1, <1>2, FS_CardinalityType

\* What a new assignment changes.
LEMMA SaleIsCounted ==
    ASSUME NEW l \in Leads, NEW o \in Orders, o \notin Buyers(l),
           assignments' = assignments \cup {<<l, o>>}
    PROVE  /\ Buyers(l)' = Buyers(l) \cup {o}
           /\ \A k \in Leads \ {l} : Buyers(k)' = Buyers(k)
           /\ Cardinality(Received(o))' = Cardinality(Received(o)) + 1
           /\ \A p \in Orders \ {o} : Received(p)' = Received(p)
<1>1. Buyers(l)' = Buyers(l) \cup {o} /\ \A k \in Leads \ {l} : Buyers(k)' = Buyers(k)
  BY DEF Buyers
<1>2. Received(o)' = Received(o) \cup {l} /\ l \notin Received(o)
  BY DEF Received, Buyers
<1>3. \A p \in Orders \ {o} : Received(p)' = Received(p)
  BY DEF Received
<1>4. Cardinality(Received(o) \cup {l}) = Cardinality(Received(o)) + 1
  BY <1>2, FiniteSales, FS_AddElement
<1> QED
  BY <1>1, <1>2, <1>3, <1>4

\* A sale keeps the sharing rules, if nobody had bought the lead or the rules
\* of manualAssign allow it.
LEMMA SaleKeepsSharing ==
    ASSUME NEW l \in Leads, NEW o \in Orders, SharingRespected, o \notin Buyers(l),
           Buyers(l) = {} \/ ManualAllowed(l, o),
           assignments' = assignments \cup {<<l, o>>}
    PROVE  SharingRespected'
<1>1. /\ Buyers(l)' = Buyers(l) \cup {o}
      /\ \A k \in Leads \ {l} : Buyers(k)' = Buyers(k)
  BY SaleIsCounted
<1>2. Cardinality(Buyers(l)') = Cardinality(Buyers(l)) + 1 /\ Cardinality(Buyers(l)) \in Nat
  BY <1>1, FiniteSales, FS_AddElement
<1>3. Buyers(l) = {} => Cardinality(Buyers(l)) = 0
  BY FS_EmptySet
<1>4. /\ Cardinality(Buyers(l)') <= MaxShared
      /\ (\E p \in Buyers(l)' : DeliveryMode[p] = "EXCLUSIVE") => Cardinality(Buyers(l)') = 1
  <2>1. CASE Buyers(l) = {}
    BY <2>1, <1>2, <1>3
  <2>2. CASE Buyers(l) # {}
    <3>1. ManualAllowed(l, o)
      BY <2>2
    <3>2. DeliveryMode[o] = "SHARED"
      BY <2>2, <3>1 DEF ManualAllowed
    <3>3. \A p \in Buyers(l)' : DeliveryMode[p] # "EXCLUSIVE"
      BY <1>1, <3>1, <3>2 DEF ManualAllowed
    <3>4. Cardinality(Buyers(l)) < MaxShared
      BY <3>1, <3>2 DEF ManualAllowed
    <3> QED
      BY <1>2, <3>3, <3>4
  <2> QED
    BY <2>1, <2>2
<1>5. \A k \in Leads \ {l} :
         /\ Cardinality(Buyers(k)') <= MaxShared
         /\ (\E p \in Buyers(k)' : DeliveryMode[p] = "EXCLUSIVE") => Cardinality(Buyers(k)') = 1
  BY <1>1 DEF SharingRespected
<1> QED
  BY <1>4, <1>5 DEF SharingRespected

\* A transaction stays sound in the steps of the others: assignments are only
\* added, a request is about one lead and one order for good, and a pool lead
\* stays in the pool while it is locked.
LEMMA OthersStaySound ==
    ASSUME NEW v \in Workers, TypeOK, Sound(tx[v]), tx'[v] = tx[v],
           assignments \subseteq assignments',
           \A q \in Requests : replacement[q].status # "ABSENT" =>
              /\ replacement'[q].status # "ABSENT"
              /\ replacement'[q].lead = replacement[q].lead
              /\ replacement'[q].order = replacement[q].order,
           \A l \in tx[v].locks \cap Leads :
              leadState[l] = "UNSOLD_POOL" => leadState'[l] = "UNSOLD_POOL"
    PROVE  Sound(tx[v])'
<1> DEFINE t == tx[v]
<1>1. \A l \in Leads : Buyers(l) # {} => Buyers(l)' # {}
  BY DEF Buyers
<1>2. t.op = "auto" => leadState'[t.lead] = "UNSOLD_POOL"
  BY DEF Sound
<1>3. t.fresh # None => t.fresh \in tx[v].locks \cap Leads
  BY DEF Sound
<1>4. t.fresh # None => leadState'[t.fresh] = "UNSOLD_POOL"
  BY <1>3 DEF Sound
<1>5. t.op \in {"create", "approve", "deny"} => Buyers(t.lead)' # {}
  BY <1>1 DEF Sound
<1>6. t.op \in {"approve", "deny"} =>
          /\ t.request \in Requests
          /\ replacement'[t.request].status # "ABSENT"
          /\ replacement'[t.request].lead = t.lead
          /\ replacement'[t.request].order = t.order
  BY DEF Sound
<1>7. tx'[v] = t
  OBVIOUS
<1> QED
  BY <1>2, <1>4, <1>5, <1>6, <1>7 DEF Sound

LEMMA InitReplacements == Init => ReplacementsInv
<1> SUFFICES ASSUME Init PROVE ReplacementsInv
  OBVIOUS
<1>1. TypeOK
  BY DEF Init, TypeOK, LeadStates, OrderStatuses, Replacement, ReplacementStatuses, NoReplacement,
         Transaction, Operations, Steps, Idle, Work
<1>2. TransactionsAreSound /\ LocksAreExclusive
  BY DEF Init, TransactionsAreSound, LocksAreExclusive, Sound, Idle, Work
<1>3. (\A l \in Leads : Buyers(l) = {}) /\ (\A o \in Orders : Received(o) = {})
  BY DEF Init, Buyers, Received
<1>4. PoolIsUnsold /\ RequestsAreOfSoldLeads /\ FreshLeadsAreFresh
  BY <1>3 DEF Init, PoolIsUnsold, RequestsAreOfSoldLeads, FreshLeadsAreFresh, NoReplacement
<1>5. BalancesReconcile /\ SharingRespected
  <2>1. Cardinality({}) = 0
    BY FS_EmptySet
  <2>2. \A o \in Orders : QuantityPaid[o] + 0 = QuantityPaid[o]
    OBVIOUS
  <2>3. BalancesReconcile
    BY <1>3, <2>1, <2>2 DEF Init, BalancesReconcile
  <2> QED
    BY <1>3, <2>1, <2>3 DEF SharingRespected
<1>6. CompletedOrdersOweNothing
  BY DEF Init, CompletedOrdersOweNothing
<1> QED
  BY <1>1, <1>2, <1>4, <1>5, <1>6 DEF ReplacementsInv

\* A step that changes what one worker does and no row.
LEMMA WorkerMoves ==
    ASSUME ReplacementsInv, NEW w \in Workers, NEW t \in Transaction,
           tx' = [tx EXCEPT ![w] = t], UNCHANGED <<rows, credits>>, Sound(t),
           \A v \in Workers \ {w} : tx[v].locks \cap t.locks = {}
    PROVE  ReplacementsInv'
<1>1. tx'[w] = t /\ \A v \in Workers \ {w} : tx'[v] = tx[v]
  BY DEF ReplacementsInv, TypeOK
<1>2. TypeOK'
  BY DEF ReplacementsInv, TypeOK, rows
<1>3. Sound(tx[w])'
  <2>1. Buyers(t.lead)' = Buyers(t.lead) /\ leadState' = leadState /\ replacement' = replacement
    BY DEF Buyers, rows
  <2>2. tx'[w] = t
    BY <1>1
  <2> QED
    BY <2>1, <2>2 DEF Sound
<1>4. ASSUME NEW v \in Workers \ {w} PROVE Sound(tx[v])'
  <2>1. Sound(tx[v]) /\ tx'[v] = tx[v] /\ TypeOK
    BY <1>1 DEF ReplacementsInv, TransactionsAreSound
  <2> QED
    BY <2>1, OthersStaySound DEF rows
<1>5. TransactionsAreSound'
  BY <1>3, <1>4 DEF TransactionsAreSound
<1>6. LocksAreExclusive'
  BY <1>1 DEF ReplacementsInv, LocksAreExclusive
<1>7. /\ \A l \in Leads : Buyers(l)' = Buyers(l)
      /\ \A o \in Orders : Received(o)' = Received(o)
  BY DEF rows, Buyers, Received
<1>8. PoolIsUnsold' /\ RequestsAreOfSoldLeads' /\ FreshLeadsAreFresh' /\ CompletedOrdersOweNothing'
  BY <1>7 DEF ReplacementsInv, PoolIsUnsold, RequestsAreOfSoldLeads, FreshLeadsAreFresh,
              CompletedOrdersOweNothing, rows
<1>9. BalancesReconcile' /\ SharingRespected'
  BY <1>7 DEF ReplacementsInv, BalancesReconcile, SharingRespected, rows
<1> QED
  BY <1>2, <1>5, <1>6, <1>8, <1>9 DEF ReplacementsInv

\* A worker that ends gives up its locks and leaves those of the others alone.
LEMMA WorkerEnds ==
    ASSUME TypeOK, TransactionsAreSound, LocksAreExclusive, NEW w \in Workers, End(w),
           assignments \subseteq assignments',
           \A q \in Requests : replacement[q].status # "ABSENT" =>
              /\ replacement'[q].status # "ABSENT"
              /\ replacement'[q].lead = replacement[q].lead
              /\ replacement'[q].order = replacement[q].order,
           \A l \in Leads : leadState'[l] # leadState[l] => \A v \in Workers \ {w} : l \notin tx[v].locks
    PROVE  TransactionsAreSound' /\ LocksAreExclusive' /\ tx' \in [Workers -> Transaction]
<1>1. tx'[w] = Idle /\ \A v \in Workers \ {w} : tx'[v] = tx[v]
  BY DEF TypeOK, End
<1>2. Sound(tx[w])'
  BY <1>1 DEF Sound, Idle, Work
<1>3. ASSUME NEW v \in Workers \ {w} PROVE Sound(tx[v])'
  <2>1. Sound(tx[v]) /\ tx'[v] = tx[v]
    BY <1>1 DEF TransactionsAreSound
  <2>2. \A l \in tx[v].locks \cap Leads :
           leadState[l] = "UNSOLD_POOL" => leadState'[l] = "UNSOLD_POOL"
    OBVIOUS
  <2> QED
    BY <2>1, <2>2, OthersStaySound
<1>4. LocksAreExclusive'
  BY <1>1 DEF LocksAreExclusive, Idle, Work
<1>5. Idle \in Transaction
  BY DEF Idle, Work, Transaction, Operations, Steps
<1> QED
  BY <1>2, <1>3, <1>4, <1>5 DEF TransactionsAreSound, TypeOK, End
-----------------------------------------------------------------------------
\* Steps that write no row: a worker starts, locks, claims or gives up.
LEMMA StartKeepsInv ==
    ASSUME ReplacementsInv, NEW w \in Workers, Start(w) PROVE ReplacementsInv'
<1>1. ASSUME NEW l \in Leads, Redistribute(w, l) PROVE ReplacementsInv'
  <2>1. PICK o \in Orders : tx' = [tx EXCEPT ![w] = [Work("auto", "order", l, o, None) EXCEPT !.locks = {l}]]
    BY <1>1 DEF Redistribute
  <2> DEFINE t == [Work("auto", "order", l, o, None) EXCEPT !.locks = {l}]
  <2>2. t \in Transaction
    BY DEF Work, Transaction, Operations, Steps
  <2>3. Sound(t)
    BY <1>1 DEF Redistribute, Redistributable, Sound, Work
  <2>4. \A v \in Workers \ {w} : tx[v].locks \cap t.locks = {}
    BY <1>1 DEF Redistribute, IsFree, Work
  <2>5. UNCHANGED <<rows, credits>>
    BY <1>1 DEF Redistribute
  <2> HIDE DEF t
  <2> QED
    BY <2>1, <2>2, <2>3, <2>4, <2>5, WorkerMoves DEF t
<1>2. ASSUME NEW l \in Leads, NEW o \in Orders, ManualAssign(w, l, o) PROVE ReplacementsInv'
  <2> DEFINE t == [Work("manual", "order", l, o, None) EXCEPT !.locks = {l}]
  <2>1. tx' = [tx EXCEPT ![w] = t] /\ UNCHANGED <<rows, credits>>
    BY <1>2 DEF ManualAssign
  <2>2. t \in Transaction
    BY DEF Work, Transaction, Operations, Steps
  <2>3. Sound(t)
    BY DEF Sound, Work
  <2>4. \A v \in Workers \ {w} : tx[v].locks \cap t.locks = {}
    BY <1>2 DEF ManualAssign, IsFree, Work
  <2> HIDE DEF t
  <2> QED
    BY <2>1, <2>2, <2>3, <2>4, WorkerMoves
<1>3. ASSUME NEW l \in Leads, NEW o \in Orders, Create(w, l, o) PROVE ReplacementsInv'
  <2> DEFINE t == Work("create", "insert", l, o, None)
  <2>1. tx' = [tx EXCEPT ![w] = t] /\ UNCHANGED <<rows, credits>>
    BY <1>3 DEF Create, Begin
  <2>2. t \in Transaction
    BY DEF Work, Transaction, Operations, Steps
  <2>3. o \in Buyers(l)
    BY <1>3 DEF Create, ReplacementsInv, PoolIsUnsold, Buyers
  <2>4. Sound(t) /\ t.locks = {}
    BY <2>3 DEF Sound, Work
  <2>5. \A v \in Workers \ {w} : tx[v].locks \cap t.locks = {}
    BY <2>4
  <2> HIDE DEF t
  <2> QED
    BY <2>1, <2>2, <2>4, <2>5, WorkerMoves
<1>4. ASSUME NEW q \in Requests, Approve(w, q) \/ Deny(w, q) PROVE ReplacementsInv'
  <2> DEFINE l == replacement[q].lead
             o == replacement[q].order
  <2>1. PICK op \in {"approve", "deny"}, step \in {"order", "request"} :
           /\ op = "approve" <=> step = "order"
           /\ tx' = [tx EXCEPT ![w] = Work(op, step, l, o, q)]
           /\ UNCHANGED <<rows, credits>>
    BY <1>4 DEF Approve, Deny, Begin
  <2> DEFINE t == Work(op, step, l, o, q)
  <2>2. replacement[q].status # "ABSENT"
    BY <1>4 DEF Approve, Deny, Pending
  <2>3. l \in Leads /\ o \in Orders /\ Buyers(l) # {}
    BY <2>2 DEF ReplacementsInv, RequestsAreOfSoldLeads
  <2>4. t \in Transaction
    BY <2>3 DEF Work, Transaction, Operations, Steps
  <2>5. Sound(t) /\ t.locks = {}
    BY <2>1, <2>2, <2>3 DEF Sound, Work
  <2>6. \A v \in Workers \ {w} : tx[v].locks \cap t.locks = {}
    BY <2>5
  <2>7. tx' = [tx EXCEPT ![w] = t] /\ UNCHANGED <<rows, credits>>
    BY <2>1
  <2> HIDE DEF t
  <2> QED
    BY <2>4, <2>5, <2>6, <2>7, WorkerMoves
<1> QED
  BY <1>1, <1>2, <1>3, <1>4 DEF Start

LEMMA LockKeepsInv ==
    ASSUME ReplacementsInv, NEW w \in Workers, LockDenied(w) \/ LockCredited(w) PROVE ReplacementsInv'
<1> DEFINE c == tx[w]
<1>1. c \in Transaction /\ Sound(c)
  BY DEF ReplacementsInv, TypeOK, TransactionsAreSound
<1>2. PICK row \in Orders \cup Requests :
         /\ IsFree(row) /\ c.locks = {}
         /\ \/ c.op = "deny" /\ row = c.request
            \/ c.op = "approve" /\ c.step = "order" /\ row = c.order
         /\ tx' = [tx EXCEPT ![w].locks = @ \cup {row}, ![w].step = "lead"]
         /\ UNCHANGED <<rows, credits>>
  BY <1>1 DEF LockDenied, LockCredited, Lock, Sound
<1> DEFINE t == [c EXCEPT !.locks = @ \cup {row}, !.step = "lead"]
<1>3. tx' = [tx EXCEPT ![w] = t]
  BY <1>2 DEF ReplacementsInv, TypeOK
<1>4. t \in Transaction
  BY <1>1 DEF Transaction, Steps
<1>5. /\ t.op = c.op /\ t.lead = c.lead /\ t.order = c.order /\ t.request = c.request
      /\ t.fresh = c.fresh /\ t.step = "lead" /\ t.locks = {row}
  BY <1>1, <1>2 DEF Transaction
<1>6. c.fresh = None
  BY <1>1, <1>2 DEF Sound
<1> HIDE DEF t
<1>7. Sound(t)
  BY <1>1, <1>2, <1>5, <1>6 DEF Sound
<1>8. \A v \in Workers \ {w} : tx[v].locks \cap t.locks = {}
  BY <1>2, <1>5 DEF IsFree
<1> QED
  BY <1>2, <1>3, <1>4, <1>7, <1>8, WorkerMoves

LEMMA ClaimKeepsInv ==
    ASSUME ReplacementsInv, NEW w \in Workers, ClaimReplacementLead(w) PROVE ReplacementsInv'
<1> DEFINE c == tx[w]
<1>1. c \in Transaction /\ Sound(c) /\ c.step = "lead" /\ c.op = "approve" /\ IsFree(c.lead)
  BY DEF ReplacementsInv, TypeOK, TransactionsAreSound, ClaimReplacementLead
<1>2. c.lead \in Leads /\ c.order \in Orders /\ c.locks = {c.order} /\ c.fresh = None
  BY <1>1 DEF Sound
<1>3. PICK fresh \in Candidates(w) \cup {None} :
         /\ tx' = [tx EXCEPT ![w] = [c EXCEPT !.fresh = fresh, !.step = "request",
                                              !.locks = c.locks \cup {c.lead} \cup ({fresh} \cap Leads)]]
         /\ UNCHANGED <<rows, credits>>
  <2>1. CASE \E fresh \in Candidates(w) \ {c.lead} :
                tx' = [tx EXCEPT ![w].fresh = fresh, ![w].locks = @ \cup {c.lead, fresh},
                                 ![w].step = "request"]
    <3>1. PICK fresh \in Candidates(w) \ {c.lead} :
             tx' = [tx EXCEPT ![w].fresh = fresh, ![w].locks = @ \cup {c.lead, fresh},
                              ![w].step = "request"]
      BY <2>1
    <3>2. {fresh} \cap Leads = {fresh}
      BY DEF Candidates
    <3>3. c.locks \cup {c.lead, fresh} = c.locks \cup {c.lead} \cup ({fresh} \cap Leads)
      BY <3>2
    <3>4. tx' = [tx EXCEPT ![w] = [c EXCEPT !.fresh = fresh, !.step = "request",
                                            !.locks = c.locks \cup {c.lead} \cup ({fresh} \cap Leads)]]
      BY <3>1, <3>3, <1>1 DEF ReplacementsInv, TypeOK, Transaction
    <3> QED
      BY <3>4 DEF ClaimReplacementLead
  <2>2. CASE tx' = [tx EXCEPT ![w].locks = @ \cup {c.lead}, ![w].step = "request"]
    <3>1. {None} \cap Leads = {}
      OBVIOUS
    <3>2. c.locks \cup {c.lead} \cup ({None} \cap Leads) = c.locks \cup {c.lead}
      BY <3>1
    <3>3. tx' = [tx EXCEPT ![w] = [c EXCEPT !.fresh = None, !.step = "request",
                                            !.locks = c.locks \cup {c.lead} \cup ({None} \cap Leads)]]
      BY <2>2, <3>2, <1>1, <1>2 DEF ReplacementsInv, TypeOK, Transaction
    <3> QED
      BY <3>3 DEF ClaimReplacementLead
  <2> QED
    BY <2>1, <2>2 DEF ClaimReplacementLead
<1> DEFINE t == [c EXCEPT !.fresh = fresh, !.step = "request",
                          !.locks = c.locks \cup {c.lead} \cup ({fresh} \cap Leads)]
<1>4. fresh # None => fresh \in Leads /\ leadState[fresh] = "UNSOLD_POOL" /\ IsFree(fresh)
  BY DEF Candidates
<1>5. t \in Transaction
  BY <1>1, <1>2, <1>4 DEF Transaction, Steps
<1>6. /\ t.op = c.op /\ t.lead = c.lead /\ t.order = c.order /\ t.request = c.request
      /\ t.fresh = fresh /\ t.step = "request"
      /\ t.locks = {c.order, c.lead} \cup ({fresh} \cap Leads)
  BY <1>1, <1>2 DEF Transaction
<1> HIDE DEF t
<1>7. Sound(t)
  BY <1>1, <1>2, <1>4, <1>6 DEF Sound
<1>8. \A v \in Workers \ {w} : tx[v].locks \cap c.locks = {}
  BY DEF ReplacementsInv, LocksAreExclusive
<1>9. \A v \in Workers \ {w} : tx[v].locks \cap t.locks = {}
  BY <1>1, <1>2, <1>4, <1>6, <1>8 DEF IsFree
<1> QED
  BY <1>3, <1>5, <1>7, <1>9, WorkerMoves DEF t

LEMMA AbortKeepsInv ==
    ASSUME ReplacementsInv, NEW w \in Workers, Abort(w) PROVE ReplacementsInv'
<1>1. Idle \in Transaction /\ Sound(Idle) /\ Idle.locks = {}
  BY DEF Idle, Work, Transaction, Operations, Steps, Sound
<1>2. \A v \in Workers \ {w} : tx[v].locks \cap Idle.locks = {}
  BY <1>1
<1>3. tx' = [tx EXCEPT ![w] = Idle] /\ UNCHANGED <<rows, credits>>
  BY DEF Abort, End
<1> QED
  BY <1>1, <1>2, <1>3, WorkerMoves
-----------------------------------------------------------------------------
\* Steps that write rows but sell nothing: the books stay as they are.
LEMMA BooksStay ==
    ASSUME ReplacementsInv, UNCHANGED <<orderStatus, remaining, assignments, credits>>
    PROVE  /\ \A l \in Leads : Buyers(l)' = Buyers(l)
           /\ BalancesReconcile' /\ SharingRespected' /\ CompletedOrdersOweNothing'
<1>1. /\ \A l \in Leads : Buyers(l)' = Buyers(l)
      /\ \A o \in Orders : Received(o)' = Received(o)
  BY DEF Buyers, Received
<1> QED
  BY <1>1 DEF ReplacementsInv, BalancesReconcile, SharingRespected, CompletedOrdersOweNothing

LEMMA DeliverKeepsInv ==
    ASSUME ReplacementsInv, NEW l \in Leads, NEW o \in Orders, Deliver(l, o)
    PROVE  ReplacementsInv'
<1>1. \A k \in Leads : leadState'[k] = "UNSOLD_POOL" <=> leadState[k] = "UNSOLD_POOL"
  BY DEF ReplacementsInv, TypeOK, Deliver
<1>2. TypeOK'
  BY DEF ReplacementsInv, TypeOK, Deliver, LeadStates
<1>3. ASSUME NEW v \in Workers PROVE Sound(tx[v])'
  <2>1. Sound(tx[v]) /\ TypeOK
    BY DEF ReplacementsInv, TransactionsAreSound
  <2> QED
    BY <1>1, <2>1, OthersStaySound DEF Deliver
<1>4. LocksAreExclusive'
  BY DEF ReplacementsInv, LocksAreExclusive, Deliver
<1>5. /\ \A k \in Leads : Buyers(k)' = Buyers(k)
      /\ BalancesReconcile' /\ SharingRespected' /\ CompletedOrdersOweNothing'
  BY BooksStay DEF Deliver
<1>6. \A q \in Requests : replacement[q].fresh # None => replacement[q].fresh \in Leads
  BY DEF ReplacementsInv, TypeOK, Replacement
<1>7. PoolIsUnsold'
  BY <1>1, <1>5, <1>6 DEF ReplacementsInv, PoolIsUnsold, Deliver
<1>8. RequestsAreOfSoldLeads' /\ FreshLeadsAreFresh'
  BY <1>5 DEF ReplacementsInv, RequestsAreOfSoldLeads, FreshLeadsAreFresh, Deliver
<1> QED
  BY <1>2, <1>3, <1>4, <1>5, <1>7, <1>8 DEF ReplacementsInv, TransactionsAreSound

LEMMA SetOrderStatusKeepsInv ==
    ASSUME ReplacementsInv, NEW o \in Orders, SetOrderStatus(o)
    PROVE  ReplacementsInv'
<1>1. TypeOK'
  BY DEF ReplacementsInv, TypeOK, SetOrderStatus, OrderStatuses
<1>2. ASSUME NEW v \in Workers PROVE Sound(tx[v])'
  <2>1. Sound(tx[v]) /\ TypeOK
    BY DEF ReplacementsInv, TransactionsAreSound
  <2> QED
    BY <2>1, OthersStaySound DEF SetOrderStatus
<1>3. LocksAreExclusive'
  BY DEF ReplacementsInv, LocksAreExclusive, SetOrderStatus
<1>4. /\ \A l \in Leads : Buyers(l)' = Buyers(l)
      /\ \A p \in Orders : Received(p)' = Received(p)
  BY DEF Buyers, Received, SetOrderStatus
<1>5. PoolIsUnsold' /\ RequestsAreOfSoldLeads' /\ FreshLeadsAreFresh'
  BY <1>4 DEF ReplacementsInv, PoolIsUnsold, RequestsAreOfSoldLeads, FreshLeadsAreFresh, SetOrderStatus
<1>6. BalancesReconcile' /\ SharingRespected'
  BY <1>4 DEF ReplacementsInv, BalancesReconcile, SharingRespected, SetOrderStatus
<1>7. CompletedOrdersOweNothing'
  BY DEF ReplacementsInv, TypeOK, CompletedOrdersOweNothing, SetOrderStatus
<1> QED
  BY <1>1, <1>2, <1>3, <1>5, <1>6, <1>7 DEF ReplacementsInv, TransactionsAreSound

LEMMA InsertKeepsInv ==
    ASSUME ReplacementsInv, NEW w \in Workers, InsertReplacement(w)
    PROVE  ReplacementsInv'
<1> DEFINE c == tx[w]
<1>1. c \in Transaction /\ Sound(c) /\ c.step = "insert"
  BY DEF ReplacementsInv, TypeOK, TransactionsAreSound, InsertReplacement
<1>2. c.op = "create" /\ c.fresh = None
  BY <1>1 DEF Sound, Transaction, Operations, Idle, Work
<1>3. c.lead \in Leads /\ c.order \in Orders /\ Buyers(c.lead) # {} /\ c.locks = {}
  BY <1>1, <1>2 DEF Sound
<1>4. PICK q \in Requests :
         /\ replacement[q] = NoReplacement
         /\ replacement' = [replacement EXCEPT ![q] =
               [status |-> "REQUESTED", lead |-> c.lead, order |-> c.order, fresh |-> None]]
  BY DEF InsertReplacement
<1>5. /\ replacement'[q] = [status |-> "REQUESTED", lead |-> c.lead, order |-> c.order, fresh |-> None]
      /\ \A p \in Requests \ {q} : replacement'[p] = replacement[p]
      /\ replacement[q].status = "ABSENT"
  BY <1>4 DEF ReplacementsInv, TypeOK, NoReplacement
<1>6. /\ tx' = [tx EXCEPT ![w].step = "mark"]
      /\ UNCHANGED <<leadState, orderStatus, remaining, assignments, delivered, credits>>
  BY DEF InsertReplacement
<1>7. replacement' \in [Requests -> Replacement]
  BY <1>3, <1>4 DEF ReplacementsInv, TypeOK, Replacement, ReplacementStatuses
<1>8. tx'[w] = [c EXCEPT !.step = "mark"] /\ \A v \in Workers \ {w} : tx'[v] = tx[v]
  BY <1>6 DEF ReplacementsInv, TypeOK
<1>9. tx' \in [Workers -> Transaction]
  BY <1>1, <1>6 DEF ReplacementsInv, TypeOK, Transaction, Steps
<1>10. TypeOK'
  BY <1>6, <1>7, <1>9 DEF ReplacementsInv, TypeOK
<1>11. Sound(tx[w])'
  <2>1. /\ tx'[w].op = "create" /\ tx'[w].lead = c.lead /\ tx'[w].order = c.order
        /\ tx'[w].step = "mark" /\ tx'[w].locks = {} /\ tx'[w].fresh = None
    BY <1>1, <1>2, <1>3, <1>8 DEF Transaction
  <2>2. Buyers(c.lead)' = Buyers(c.lead)
    BY <1>6 DEF Buyers
  <2> QED
    BY <1>3, <2>1, <2>2 DEF Sound
<1>12. ASSUME NEW v \in Workers \ {w} PROVE Sound(tx[v])'
  <2>1. Sound(tx[v]) /\ tx'[v] = tx[v] /\ TypeOK
    BY <1>8 DEF ReplacementsInv, TransactionsAreSound
  <2> QED
    BY <1>5, <1>6, <2>1, OthersStaySound
<1>13. LocksAreExclusive'
  <2>1. tx'[w].locks = {}
    BY <1>1, <1>3, <1>8 DEF Transaction
  <2> QED
    BY <1>8, <2>1 DEF ReplacementsInv, LocksAreExclusive
<1>14. /\ \A l \in Leads : Buyers(l)' = Buyers(l)
       /\ BalancesReconcile' /\ SharingRespected' /\ CompletedOrdersOweNothing'
  BY <1>6, BooksStay
<1>15. PoolIsUnsold'
  BY <1>5, <1>6, <1>14 DEF ReplacementsInv, PoolIsUnsold
<1>16. RequestsAreOfSoldLeads'
  BY <1>3, <1>5, <1>14 DEF ReplacementsInv, RequestsAreOfSoldLeads
<1>17. FreshLeadsAreFresh'
  <2>1. ASSUME NEW p \in Requests, replacement'[p].status = "REPLACED"
        PROVE  /\ <<replacement'[p].fresh, replacement'[p].order>> \in assignments'
               /\ replacement'[p].fresh # replacement'[p].lead
               /\ \A r \in Requests \ {p} : replacement'[r].fresh # replacement'[p].fresh
    <3>1. p # q /\ replacement'[p] = replacement[p]
      BY <1>5, <2>1
    <3>2. /\ <<replacement[p].fresh, replacement[p].order>> \in assignments
          /\ replacement[p].fresh # replacement[p].lead
          /\ \A r \in Requests \ {p} : replacement[r].fresh # replacement[p].fresh
      BY <2>1, <3>1 DEF ReplacementsInv, FreshLeadsAreFresh
    <3>3. replacement[p].fresh # None
      BY <3>2 DEF ReplacementsInv, TypeOK
    <3> QED
      BY <1>5, <1>6, <3>1, <3>2, <3>3
  <2> QED
    BY <2>1 DEF FreshLeadsAreFresh
<1> QED
  BY <1>8, <1>10, <1>11, <1>12, <1>13, <1>14, <1>15, <1>16, <1>17 DEF ReplacementsInv, TransactionsAreSound

LEMMA MarkKeepsInv ==
    ASSUME ReplacementsInv, NEW w \in Workers, MarkLead(w)
    PROVE  ReplacementsInv'
<1> DEFINE l == tx[w].lead
<1>1. Sound(tx[w]) /\ tx[w] \in Transaction /\ tx[w].step = "mark"
  BY DEF ReplacementsInv, TypeOK, TransactionsAreSound, MarkLead
<1>2. l \in Leads /\ tx[w].locks = {}
  BY <1>1 DEF Sound, Transaction, Operations, Idle, Work
<1>3. /\ leadState' = [leadState EXCEPT ![l] = "REPLACEMENT_REQUESTED"]
      /\ IsFree(l) /\ End(w)
      /\ UNCHANGED <<orderStatus, remaining, assignments, delivered, replacement, credits>>
  BY DEF MarkLead
<1>4. \A k \in Leads : /\ leadState'[k] = "UNSOLD_POOL" => leadState[k] = "UNSOLD_POOL"
                       /\ leadState'[k] # leadState[k] => \A v \in Workers \ {w} : k \notin tx[v].locks
  BY <1>3 DEF ReplacementsInv, TypeOK, IsFree
<1>5. TransactionsAreSound' /\ LocksAreExclusive' /\ tx' \in [Workers -> Transaction]
  BY <1>3, <1>4, WorkerEnds DEF ReplacementsInv
<1>6. TypeOK'
  BY <1>3, <1>5 DEF ReplacementsInv, TypeOK, LeadStates
<1>7. /\ \A k \in Leads : Buyers(k)' = Buyers(k)
      /\ BalancesReconcile' /\ SharingRespected' /\ CompletedOrdersOweNothing'
  BY <1>3, BooksStay
<1>8. \A q \in Requests : replacement[q].fresh # None => replacement[q].fresh \in Leads
  BY DEF ReplacementsInv, TypeOK, Replacement
<1>9. PoolIsUnsold'
  BY <1>3, <1>4, <1>7, <1>8 DEF ReplacementsInv, PoolIsUnsold
<1>10. RequestsAreOfSoldLeads' /\ FreshLeadsAreFresh'
  BY <1>3, <1>7 DEF ReplacementsInv, RequestsAreOfSoldLeads, FreshLeadsAreFresh
<1> QED
  BY <1>5, <1>6, <1>7, <1>9, <1>10 DEF ReplacementsInv

LEMMA DenyKeepsInv ==
    ASSUME ReplacementsInv, NEW w \in Workers, CommitDeny(w)
    PROVE  ReplacementsInv'
<1> DEFINE l == tx[w].lead
           q == tx[w].request
<1>1. Sound(tx[w]) /\ tx[w] \in Transaction /\ tx[w].op = "deny"
  BY DEF ReplacementsInv, TypeOK, TransactionsAreSound, CommitDeny
<1>2. l \in Leads /\ q \in Requests
  BY <1>1 DEF Sound
<1>3. /\ replacement' = [replacement EXCEPT ![q].status = "DENIED"]
      /\ leadState' = [leadState EXCEPT ![l] = "ACCEPTED"]
      /\ IsFree(l) /\ End(w)
      /\ UNCHANGED <<orderStatus, remaining, assignments, delivered, credits>>
  BY DEF CommitDeny
<1>4. \A k \in Leads : /\ leadState'[k] = "UNSOLD_POOL" => leadState[k] = "UNSOLD_POOL"
                       /\ leadState'[k] # leadState[k] => \A v \in Workers \ {w} : k \notin tx[v].locks
  BY <1>3 DEF ReplacementsInv, TypeOK, IsFree
<1>5. /\ replacement' \in [Requests -> Replacement]
      /\ \A p \in Requests : /\ replacement'[p].lead = replacement[p].lead
                             /\ replacement'[p].order = replacement[p].order
                             /\ replacement'[p].fresh = replacement[p].fresh
                             /\ p # q => replacement'[p].status = replacement[p].status
      /\ replacement'[q].status = "DENIED" /\ replacement[q].status # "ABSENT"
  BY <1>1, <1>2, <1>3 DEF ReplacementsInv, TypeOK, Replacement, ReplacementStatuses, Sound
<1>6. \A p \in Requests : replacement[p].status # "ABSENT" => replacement'[p].status # "ABSENT"
  BY <1>5
<1>7. TransactionsAreSound' /\ LocksAreExclusive' /\ tx' \in [Workers -> Transaction]
  BY <1>3, <1>4, <1>5, <1>6, WorkerEnds DEF ReplacementsInv
<1>8. TypeOK'
  BY <1>3, <1>5, <1>7 DEF ReplacementsInv, TypeOK, LeadStates
<1>9. /\ \A k \in Leads : Buyers(k)' = Buyers(k)
      /\ BalancesReconcile' /\ SharingRespected' /\ CompletedOrdersOweNothing'
  BY <1>3, BooksStay
<1>10. \A p \in Requests : replacement[p].fresh # None => replacement[p].fresh \in Leads
  BY DEF ReplacementsInv, TypeOK, Replacement
<1>11. PoolIsUnsold'
  BY <1>3, <1>4, <1>5, <1>9, <1>10 DEF ReplacementsInv, PoolIsUnsold
<1>12. RequestsAreOfSoldLeads'
  BY <1>5, <1>9 DEF ReplacementsInv, RequestsAreOfSoldLeads
<1>13. FreshLeadsAreFresh'
  BY <1>3, <1>5 DEF ReplacementsInv, FreshLeadsAreFresh
<1> QED
  BY <1>7, <1>8, <1>9, <1>11, <1>12, <1>13 DEF ReplacementsInv
-----------------------------------------------------------------------------
\* Steps that sell a lead, or credit an order.
LEMMA CommitAssignmentKeepsInv ==
    ASSUME ReplacementsInv, NEW w \in Workers, CommitAssignment(w)
    PROVE  ReplacementsInv'
<1> DEFINE t == tx[w]
<1>1. Sound(t) /\ t \in Transaction /\ t.op \in {"auto", "manual"}
  BY DEF ReplacementsInv, TypeOK, TransactionsAreSound, CommitAssignment
<1>2. PICK l \in Leads, o \in Orders : t.lead = l /\ t.order = o /\ t.locks = {l}
  BY <1>1 DEF Sound
<1>3. l \in tx[w].locks => \A v \in Workers \ {w} : l \notin tx[v].locks
  BY DEF ReplacementsInv, LocksAreExclusive
<1>4. CASE Accepts(t)
  <2>1. /\ assignments' = assignments \cup {<<l, o>>}
        /\ remaining' = [remaining EXCEPT ![o] = @ - 1]
        /\ orderStatus' = [orderStatus EXCEPT ![o] =
                              IF remaining[o] = 1 THEN "COMPLETED" ELSE "FULFILLING"]
        /\ leadState' = [leadState EXCEPT ![l] = "ASSIGNED"]
        /\ End(w) /\ UNCHANGED <<delivered, replacement, credits>>
    BY <1>2, <1>4 DEF CommitAssignment
  <2>2. /\ remaining[o] \in Nat /\ remaining[o] > 0
        /\ \A p \in Orders : remaining'[p] = IF p = o THEN remaining[o] - 1 ELSE remaining[p]
    BY <1>2, <1>4, <2>1 DEF Accepts, CanReceive, ReplacementsInv, TypeOK
  <2>3. Buyers(l) = {} \/ ManualAllowed(l, o)
    BY <1>1, <1>2, <1>4 DEF Accepts, Sound, ReplacementsInv, PoolIsUnsold
  <2>4. o \notin Buyers(l)
    BY <2>3 DEF ManualAllowed
  <2>5. \A k \in Leads : /\ leadState'[k] = "UNSOLD_POOL" => k # l /\ leadState[k] = "UNSOLD_POOL"
                         /\ leadState'[k] # leadState[k] => \A v \in Workers \ {w} : k \notin tx[v].locks
    BY <1>2, <1>3, <2>1 DEF ReplacementsInv, TypeOK
  <2>6. TransactionsAreSound' /\ LocksAreExclusive' /\ tx' \in [Workers -> Transaction]
    BY <2>1, <2>5, WorkerEnds DEF ReplacementsInv
  <2>7. TypeOK'
    <3>1. remaining' \in [Orders -> Nat]
      BY <1>2, <2>1, <2>2 DEF ReplacementsInv, TypeOK
    <3> QED
      BY <1>2, <2>1, <2>6, <3>1 DEF ReplacementsInv, TypeOK, LeadStates, OrderStatuses
  <2>8. /\ Buyers(l)' = Buyers(l) \cup {o}
        /\ \A k \in Leads \ {l} : Buyers(k)' = Buyers(k)
        /\ Cardinality(Received(o))' = Cardinality(Received(o)) + 1
        /\ \A p \in Orders \ {o} : Received(p)' = Received(p)
    BY <1>2, <2>1, <2>4, SaleIsCounted
  <2>9. PoolIsUnsold'
    <3>1. \A q \in Requests : replacement[q].fresh # None => replacement[q].fresh \in Leads
      BY DEF ReplacementsInv, TypeOK, Replacement
    <3> QED
      BY <2>1, <2>5, <2>8, <3>1 DEF ReplacementsInv, PoolIsUnsold
  <2>10. RequestsAreOfSoldLeads' /\ FreshLeadsAreFresh'
    BY <2>1, <2>8 DEF ReplacementsInv, RequestsAreOfSoldLeads, FreshLeadsAreFresh
  <2>11. BalancesReconcile'
    <3>1. remaining'[o] + Cardinality(Received(o))' = QuantityPaid[o] + credits[o]
      <4>1. remaining[o] + Cardinality(Received(o)) = QuantityPaid[o] + credits[o]
        BY <1>2 DEF ReplacementsInv, BalancesReconcile
      <4>2. Cardinality(Received(o)) \in Nat
        BY <1>2, FiniteSales
      <4> QED
        BY <1>2, <2>2, <2>8, <4>1, <4>2
    <3>2. ASSUME NEW p \in Orders \ {o}
          PROVE  remaining'[p] + Cardinality(Received(p))' = QuantityPaid[p] + credits[p]
      BY <2>2, <2>8 DEF ReplacementsInv, BalancesReconcile
    <3> QED
      BY <2>1, <3>1, <3>2 DEF BalancesReconcile
  <2>12. SharingRespected'
    BY <1>2, <2>1, <2>3, <2>4, SaleKeepsSharing DEF ReplacementsInv
  <2>13. CompletedOrdersOweNothing'
    BY <1>2, <2>1, <2>2 DEF ReplacementsInv, TypeOK, CompletedOrdersOweNothing
  <2> QED
    BY <2>6, <2>7, <2>9, <2>10, <2>11, <2>12, <2>13 DEF ReplacementsInv
<1>5. CASE ~Accepts(t)
  <2>1. End(w) /\ UNCHANGED <<rows, credits>>
    BY <1>5 DEF CommitAssignment, rows
  <2>2. t # Idle
    BY <1>1 DEF Idle, Work
  <2> QED
    BY <2>1, <2>2, AbortKeepsInv DEF Abort
<1> QED
  BY <1>4, <1>5

\* The lead approve claimed has no buyer and was the fresh lead of no request,
\* for it was in the pool until now.
LEMMA ApproveKeepsInv ==
    ASSUME ReplacementsInv, NEW w \in Workers, CommitApprove(w)
    PROVE  ReplacementsInv'
<1> DEFINE t == tx[w]
<1>1. Sound(t) /\ t \in Transaction /\ t.op = "approve" /\ t.step = "request"
  BY DEF ReplacementsInv, TypeOK, TransactionsAreSound, CommitApprove
<1>2. PICK l \in Leads, o \in Orders, q \in Requests, f \in Leads \cup {None} :
         /\ t.lead = l /\ t.order = o /\ t.request = q /\ t.fresh = f
         /\ t.locks = {o, l} \cup ({f} \cap Leads)
  BY <1>1 DEF Sound, Transaction
<1>3. /\ replacement[q].status # "ABSENT"
      /\ replacement[q].lead = l /\ replacement[q].order = o
      /\ Buyers(l) # {}
      /\ f # None => f \in Leads /\ leadState[f] = "UNSOLD_POOL"
  BY <1>1, <1>2 DEF Sound
<1>4. /\ remaining' = [remaining EXCEPT ![o] = Credit(o, f # None)]
      /\ orderStatus' = [orderStatus EXCEPT ![o] = StatusAfter(o, f # None)]
      /\ leadState' = [k \in Leads |-> CASE k = f -> "ASSIGNED"
                                         [] k = l -> "REPLACED"
                                         [] OTHER -> leadState[k]]
      /\ assignments' = assignments \cup (({f} \cap Leads) \X {o})
      /\ replacement' = [replacement EXCEPT
            ![q].status = IF f # None THEN "REPLACED" ELSE "APPROVED", ![q].fresh = f]
      /\ credits' = [credits EXCEPT ![o] = @ + 1]
      /\ End(w) /\ UNCHANGED delivered
  BY <1>2 DEF CommitApprove
<1>5. /\ leadState[l] # "UNSOLD_POOL" /\ f # l
      /\ f # None => Buyers(f) = {}
  BY <1>3 DEF ReplacementsInv, PoolIsUnsold
<1>6. \A k \in Leads : leadState'[k] = IF k = f THEN "ASSIGNED" ELSE IF k = l THEN "REPLACED" ELSE leadState[k]
  BY <1>4, <1>5
<1>7. \A k \in Leads : leadState'[k] # leadState[k] => \A v \in Workers \ {w} : k \notin tx[v].locks
  <2>1. \A k \in Leads : leadState'[k] # leadState[k] => k \in t.locks
    BY <1>2, <1>6
  <2> QED
    BY <2>1 DEF ReplacementsInv, LocksAreExclusive
<1>8. \A k \in Leads : leadState'[k] = "UNSOLD_POOL" => leadState[k] = "UNSOLD_POOL" /\ k # f
  BY <1>6
<1>9. /\ replacement' \in [Requests -> Replacement]
      /\ \A p \in Requests : /\ replacement'[p].lead = replacement[p].lead
                             /\ replacement'[p].order = replacement[p].order
                             /\ p # q => replacement'[p] = replacement[p]
      /\ replacement'[q].status = IF f # None THEN "REPLACED" ELSE "APPROVED"
      /\ replacement'[q].fresh = f
  <2>1. PICK s \in ReplacementStatuses : s = IF f # None THEN "REPLACED" ELSE "APPROVED"
    BY DEF ReplacementStatuses
  <2>2. PICK c \in Replacement : c = replacement[q]
    BY DEF ReplacementsInv, TypeOK
  <2> DEFINE r == [c EXCEPT !.status = s, !.fresh = f]
  <2>3. r \in Replacement /\ r.status = s /\ r.fresh = f /\ r.lead = c.lead /\ r.order = c.order
    BY DEF Replacement
  <2>4. replacement \in [Requests -> Replacement]
    BY DEF ReplacementsInv, TypeOK
  <2>5. replacement' = [replacement EXCEPT ![q] = r]
    BY <1>4, <2>1, <2>2, <2>4
  <2> HIDE DEF r
  <2> QED
    BY <2>1, <2>2, <2>3, <2>4, <2>5
<1>10. \A p \in Requests : replacement[p].status # "ABSENT" => replacement'[p].status # "ABSENT"
  <2>1. replacement'[q].status # "ABSENT"
    BY <1>9
  <2> QED
    BY <1>9, <2>1
<1>11. TransactionsAreSound' /\ LocksAreExclusive' /\ tx' \in [Workers -> Transaction]
  <2>1. assignments \subseteq assignments'
    BY <1>4
  <2>2. \A p \in Requests : replacement[p].status # "ABSENT" =>
           /\ replacement'[p].status # "ABSENT"
           /\ replacement'[p].lead = replacement[p].lead
           /\ replacement'[p].order = replacement[p].order
    BY <1>9, <1>10
  <2>3. TypeOK /\ TransactionsAreSound /\ LocksAreExclusive /\ End(w)
    BY <1>4 DEF ReplacementsInv
  <2> QED
    BY <1>7, <2>1, <2>2, <2>3, WorkerEnds
<1>12. /\ remaining[o] \in Nat /\ credits[o] \in Nat
       /\ \A p \in Orders : /\ remaining'[p] = IF p # o \/ f # None THEN remaining[p] ELSE remaining[p] + 1
                            /\ credits'[p] = IF p = o THEN credits[p] + 1 ELSE credits[p]
  BY <1>4 DEF ReplacementsInv, TypeOK, Credit
<1>13. TypeOK'
  <2>1. remaining' \in [Orders -> Nat] /\ credits' \in [Orders -> Nat]
    BY <1>4, <1>12 DEF ReplacementsInv, TypeOK
  <2>2. leadState' \in [Leads -> LeadStates]
    BY <1>4, <1>5 DEF ReplacementsInv, TypeOK, LeadStates
  <2>3. orderStatus' \in [Orders -> OrderStatuses]
    BY <1>4 DEF ReplacementsInv, TypeOK, OrderStatuses, StatusAfter
  <2>4. assignments' \subseteq Leads \X Orders
    BY <1>4 DEF ReplacementsInv, TypeOK
  <2> QED
    BY <1>4, <1>9, <1>11, <2>1, <2>2, <2>3, <2>4 DEF ReplacementsInv, TypeOK
<1>14. f # None => assignments' = assignments \cup {<<f, o>>}
  BY <1>3, <1>4
<1>15. f = None => assignments' = assignments
  BY <1>4
<1>16. \A k \in Leads : k # f => Buyers(k)' = Buyers(k)
  BY <1>14, <1>15 DEF Buyers
<1>17. assignments \subseteq assignments' /\ \A k \in Leads : Buyers(k) # {} => Buyers(k)' # {}
  BY <1>4 DEF Buyers
<1>18. PoolIsUnsold'
  <2>1. \A k \in Leads : leadState'[k] = "UNSOLD_POOL" => Buyers(k)' = {}
    BY <1>8, <1>16 DEF ReplacementsInv, PoolIsUnsold
  <2>2. ASSUME NEW p \in Requests, replacement'[p].fresh # None
        PROVE  leadState'[replacement'[p].fresh] # "UNSOLD_POOL"
    <3>1. replacement'[p].fresh \in Leads
      BY <1>9, <2>2 DEF Replacement
    <3>2. p # q => leadState[replacement'[p].fresh] # "UNSOLD_POOL"
      BY <1>9, <2>2 DEF ReplacementsInv, PoolIsUnsold
    <3> QED
      BY <1>8, <1>9, <3>1, <3>2
  <2> QED
    BY <1>4, <1>17, <2>1, <2>2 DEF ReplacementsInv, PoolIsUnsold
<1>19. RequestsAreOfSoldLeads'
  BY <1>3, <1>9, <1>17 DEF ReplacementsInv, RequestsAreOfSoldLeads
<1>20. BalancesReconcile'
  <2>1. remaining[o] + Cardinality(Received(o)) = QuantityPaid[o] + credits[o]
    BY DEF ReplacementsInv, BalancesReconcile
  <2>2. Cardinality(Received(o)) \in Nat /\ QuantityPaid[o] \in Nat
    BY FiniteSales
  <2>3. CASE f # None
    <3>1. /\ Cardinality(Received(o))' = Cardinality(Received(o)) + 1
          /\ \A p \in Orders \ {o} : Received(p)' = Received(p)
      BY <1>3, <1>5, <1>14, <2>3, SaleIsCounted
    <3>2. remaining'[o] + Cardinality(Received(o))' = QuantityPaid[o] + credits'[o]
      BY <1>12, <2>1, <2>2, <2>3, <3>1
    <3>3. \A p \in Orders \ {o} : remaining'[p] + Cardinality(Received(p))' = QuantityPaid[p] + credits'[p]
      BY <1>12, <3>1 DEF ReplacementsInv, BalancesReconcile
    <3> QED
      BY <3>2, <3>3 DEF BalancesReconcile
  <2>4. CASE f = None
    <3>1. \A p \in Orders : Received(p)' = Received(p)
      BY <1>15, <2>4 DEF Received
    <3>2. remaining'[o] + Cardinality(Received(o))' = QuantityPaid[o] + credits'[o]
      BY <1>12, <2>1, <2>2, <2>4, <3>1
    <3>3. \A p \in Orders \ {o} : remaining'[p] + Cardinality(Received(p))' = QuantityPaid[p] + credits'[p]
      BY <1>12, <3>1 DEF ReplacementsInv, BalancesReconcile
    <3> QED
      BY <3>2, <3>3 DEF BalancesReconcile
  <2> QED
    BY <2>3, <2>4
<1>21. SharingRespected'
  <2>1. CASE f # None
    BY <1>3, <1>5, <1>14, <2>1, SaleKeepsSharing DEF ReplacementsInv
  <2>2. CASE f = None
    <3>1. \A k \in Leads : Buyers(k)' = Buyers(k)
      BY <1>15, <2>2 DEF Buyers
    <3> QED
      BY <3>1 DEF ReplacementsInv, SharingRespected
  <2> QED
    BY <2>1, <2>2
<1>22. FreshLeadsAreFresh'
  <2>1. ASSUME NEW p \in Requests, f # None PROVE replacement[p].fresh # f
    <3>1. leadState[f] = "UNSOLD_POOL"
      BY <1>3, <2>1
    <3> QED
      BY <2>1, <3>1 DEF ReplacementsInv, PoolIsUnsold
  <2>2. ASSUME NEW p \in Requests, replacement'[p].status = "REPLACED"
        PROVE  /\ <<replacement'[p].fresh, replacement'[p].order>> \in assignments'
               /\ replacement'[p].fresh # replacement'[p].lead
               /\ \A r \in Requests \ {p} : replacement'[r].fresh # replacement'[p].fresh
    <3>1. CASE p = q
      <4>1. f # None
        BY <1>9, <2>2, <3>1
      <4> QED
        BY <1>3, <1>5, <1>9, <1>14, <2>1, <3>1, <4>1
    <3>2. CASE p # q
      <4>1. /\ <<replacement[p].fresh, replacement[p].order>> \in assignments
            /\ replacement[p].fresh # replacement[p].lead
            /\ \A r \in Requests \ {p} : replacement[r].fresh # replacement[p].fresh
        BY <1>9, <2>2, <3>2 DEF ReplacementsInv, FreshLeadsAreFresh
      <4>2. replacement[p].fresh # None
        BY <4>1 DEF ReplacementsInv, TypeOK
      <4>3. f # replacement[p].fresh
        BY <2>1, <4>2
      <4> QED
        BY <1>9, <1>17, <3>2, <4>1, <4>3
    <3> QED
      BY <3>1, <3>2
  <2> QED
    BY <2>2 DEF FreshLeadsAreFresh
<1>23. CompletedOrdersOweNothing'
  <2>1. ASSUME NEW p \in Orders \ {o} PROVE orderStatus'[p] = orderStatus[p] /\ remaining'[p] = remaining[p]
    BY <1>4, <1>12 DEF ReplacementsInv, TypeOK
  <2>2. orderStatus'[o] = StatusAfter(o, f # None)
    BY <1>4 DEF ReplacementsInv, TypeOK
  <2>3. orderStatus'[o] = "COMPLETED" => f # None /\ remaining[o] = 0
    BY <2>2 DEF StatusAfter
  <2> QED
    BY <1>12, <2>1, <2>3 DEF ReplacementsInv, CompletedOrdersOweNothing
<1> QED
  BY <1>11, <1>13, <1>18, <1>19, <1>20, <1>21, <1>22, <1>23 DEF ReplacementsInv
-----------------------------------------------------------------------------
LEMMA NextKeepsReplacements == ReplacementsInv /\ [Next]_vars => ReplacementsInv'
<1> SUFFICES ASSUME ReplacementsInv, [Next]_vars PROVE ReplacementsInv'
  OBVIOUS
<1>1. ASSUME NEW w \in Workers, Step(w) PROVE ReplacementsInv'
  BY <1>1, CommitAssignmentKeepsInv, InsertKeepsInv, MarkKeepsInv, LockKeepsInv, DenyKeepsInv,
     ClaimKeepsInv, ApproveKeepsInv DEF Step
<1>2. CASE UNCHANGED vars
  <2>1. TypeOK' /\ LocksAreExclusive'
    BY <1>2 DEF vars, rows, ReplacementsInv, TypeOK, LocksAreExclusive
  <2>2. /\ \A l \in Leads : Buyers(l)' = Buyers(l)
        /\ BalancesReconcile' /\ SharingRespected' /\ CompletedOrdersOweNothing'
    BY <1>2, BooksStay DEF vars, rows
  <2>3. PoolIsUnsold' /\ RequestsAreOfSoldLeads' /\ FreshLeadsAreFresh'
    BY <1>2, <2>2 DEF vars, rows, ReplacementsInv, PoolIsUnsold, RequestsAreOfSoldLeads, FreshLeadsAreFresh
  <2>4. ASSUME NEW v \in Workers PROVE Sound(tx[v])'
    <3>1. Sound(tx[v]) /\ TypeOK
      BY DEF ReplacementsInv, TransactionsAreSound
    <3> QED
      BY <1>2, <3>1, OthersStaySound DEF vars, rows
  <2> QED
    BY <2>1, <2>2, <2>3, <2>4 DEF ReplacementsInv, TransactionsAreSound
<1> QED
  BY <1>1, <1>2, StartKeepsInv, AbortKeepsInv, DeliverKeepsInv, SetOrderStatusKeepsInv DEF Next

\* Everything the proofs rely on holds in every state.
THEOREM ReplacementsInvariant == Spec => []ReplacementsInv
BY InitReplacements, NextKeepsReplacements, PTL DEF Spec

\* Every variable keeps its type; no balance goes below zero.
THEOREM ReplacementTypes == Spec => []TypeOK
<1>1. ReplacementsInv => TypeOK
  BY DEF ReplacementsInv
<1> QED
  BY <1>1, ReplacementsInvariant, PTL

\* What an order received and has left is what it paid for and its credits,
\* whatever approvals overlap the engine, one another and denials.
THEOREM CreditsReconcile == Spec => []BalancesReconcile
<1>1. ReplacementsInv => BalancesReconcile
  BY DEF ReplacementsInv
<1> QED
  BY <1>1, ReplacementsInvariant, PTL

\* A claimed replacement breaks neither exclusivity nor the cap, although
\* claimReplacementLead checks neither.
THEOREM ReplacementsRespectSharing == Spec => []SharingRespected
<1>1. ReplacementsInv => SharingRespected
  BY DEF ReplacementsInv
<1> QED
  BY <1>1, ReplacementsInvariant, PTL

\* A replaced request names a lead of its order that replaces nothing else.
THEOREM ReplacementsAreFresh == Spec => []FreshLeadsAreFresh
<1>1. ReplacementsInv => FreshLeadsAreFresh
  BY DEF ReplacementsInv
<1> QED
  BY <1>1, ReplacementsInvariant, PTL

\* A credit opens a completed order again.
THEOREM CreditsReopenOrders == Spec => []CompletedOrdersOweNothing
<1>1. ReplacementsInv => CompletedOrdersOweNothing
  BY DEF ReplacementsInv
<1> QED
  BY <1>1, ReplacementsInvariant, PTL

LEMMA ClosedOrdersStayClosed ==
    ASSUME ReplacementsInv, [Next]_vars, NEW o \in Orders,
           orderStatus[o] \notin Serviceable, Received(o)' # Received(o)
    PROVE  credits'[o] = credits[o] + 1 /\ remaining'[o] = remaining[o]
<1>1. assignments' # assignments
  BY DEF Received
<1>2. PICK w \in Workers : CommitAssignment(w) \/ CommitApprove(w)
  BY <1>1 DEF Next, Start, Step, Begin, Lock, Abort, End, Redistribute, ManualAssign, Create,
              InsertReplacement, MarkLead, Deny, LockDenied, CommitDeny, Approve, LockCredited,
              ClaimReplacementLead, Deliver, SetOrderStatus, rows, vars
<1>3. CASE CommitAssignment(w)
  <2>1. Accepts(tx[w]) /\ assignments' = assignments \cup {<<tx[w].lead, tx[w].order>>}
    BY <1>1, <1>3 DEF CommitAssignment
  <2>2. tx[w].order # o
    BY <2>1 DEF Accepts, CanReceive
  <2>3. Received(o)' = Received(o)
    BY <2>1, <2>2 DEF Received
  <2> QED
    BY <2>3
<1>4. CASE CommitApprove(w)
  <2>1. /\ assignments' = assignments \cup (({tx[w].fresh} \cap Leads) \X {tx[w].order})
        /\ remaining' = [remaining EXCEPT ![tx[w].order] = Credit(tx[w].order, tx[w].fresh # None)]
        /\ credits' = [credits EXCEPT ![tx[w].order] = @ + 1]
    BY <1>4 DEF CommitApprove
  <2>2. tx[w].order = o /\ tx[w].fresh # None
    <3>1. tx[w].order # o => Received(o)' = Received(o)
      BY <2>1 DEF Received
    <3>2. tx[w].fresh = None => assignments' = assignments
      BY <2>1
    <3> QED
      BY <1>1, <3>1, <3>2
  <2> QED
    BY <2>1, <2>2 DEF Credit, ReplacementsInv, TypeOK
<1> QED
  BY <1>2, <1>3, <1>4

\* A closed order receives leads only as replacements (claimReplacementLead does
\* not look at the status, assignOne and manualAssign do so under the lock).
THEOREM ClosedOrdersAreOnlyReplenished == Spec => ClosedOrdersReceiveOnlyReplacements
<1>1. ReplacementsInv /\ [Next]_vars =>
        [\A o \in Orders :
            (orderStatus[o] \notin Serviceable /\ Received(o)' # Received(o))
                => credits'[o] = credits[o] + 1 /\ remaining'[o] = remaining[o]]_vars
  BY ClosedOrdersStayClosed
<1> QED
  BY <1>1, ReplacementsInvariant, PTL DEF Spec, ClosedOrdersReceiveOnlyReplacements

-----------------------------------------------------------------------------
\* What a worker among approvals and matches can wait for: an approval that
\* holds its leads waits for a request, which none of them locks; one that holds
\* its order waits for a sold lead, which only an approval locks; and the others
\* wait for an order, which only an approval with leads to wait for or held locks.
LEMMA NoCircle ==
    ASSUME ReplacementsInv,
           NEW group \in SUBSET {w \in Workers : tx[w].op \in {"approve", "auto"}}, group # {}
    PROVE  \E v \in group : \A w \in group : ~WaitsFor(v, w)
<1> DEFINE At(w, step) == tx[w].op = "approve" /\ tx[w].step = step
<1>1. ASSUME NEW w \in group
      PROVE  /\ tx[w].lead \in Leads /\ tx[w].order \in Orders
             /\ \/ /\ tx[w].op = "auto" /\ tx[w].step = "order" /\ tx[w].locks = {tx[w].lead}
                   /\ leadState[tx[w].lead] = "UNSOLD_POOL"
                \/ At(w, "order") /\ tx[w].locks = {}
                \/ /\ At(w, "lead") /\ tx[w].locks = {tx[w].order}
                   /\ leadState[tx[w].lead] # "UNSOLD_POOL"
                \/ /\ At(w, "request") /\ tx[w].request \in Requests
                   /\ tx[w].locks \subseteq Leads \cup Orders
  BY DEF ReplacementsInv, TransactionsAreSound, Sound, PoolIsUnsold
<1>2. CASE \E v \in group : At(v, "request")
  <2>1. PICK v \in group : At(v, "request")
    BY <1>2
  <2>2. Wanted(v) \in Requests
    BY <1>1, <2>1 DEF Wanted
  <2>3. \A w \in group : tx[w].locks \subseteq Leads \cup Orders
    BY <1>1
  <2> QED
    BY <2>2, <2>3 DEF WaitsFor
<1>3. CASE (\A v \in group : ~At(v, "request")) /\ \E v \in group : At(v, "lead")
  <2>1. PICK v \in group : At(v, "lead")
    BY <1>3
  <2>2. Wanted(v) \in Leads /\ leadState[Wanted(v)] # "UNSOLD_POOL"
    BY <1>1, <2>1 DEF Wanted
  <2>3. \A w \in group : \A l \in tx[w].locks \cap Leads : leadState[l] = "UNSOLD_POOL"
    BY <1>1, <1>3
  <2> QED
    BY <2>2, <2>3 DEF WaitsFor
<1>4. CASE \A v \in group : ~At(v, "request") /\ ~At(v, "lead")
  <2>1. PICK v \in group : TRUE
    OBVIOUS
  <2>2. Wanted(v) \in Orders
    BY <1>1, <1>4 DEF Wanted
  <2>3. \A w \in group : tx[w].locks \subseteq Leads
    BY <1>1, <1>4
  <2> QED
    BY <2>1, <2>2, <2>3 DEF WaitsFor
<1> QED
  BY <1>2, <1>3, <1>4

\* Approvals and automatic matches never wait for one another in a circle.
THEOREM ReplacementsNeverBlockTheEngine == Spec => []NoDeadlockWithEngine
<1>1. ReplacementsInv => NoDeadlockWithEngine
  BY NoCircle DEF NoDeadlockWithEngine
<1> QED
  BY <1>1, ReplacementsInvariant, PTL
-----------------------------------------------------------------------------
(***************************************************************************)
(* CreditedOnce is refuted by a run in which two decisions about one       *)
(* request overlap: what follows is that nothing else breaks it.           *)
(***************************************************************************)
Decides(w) == tx[w].op \in {"approve", "deny"}

\* A request is decided about by one worker at a time, as it would be if its
\* status were read under its lock.
RequestsAreDecidedInTurn ==
    \A v, w \in Workers :
        Decides(v) /\ Decides(w) /\ tx[v].request = tx[w].request => v = w

\* The requests for which order o was credited, as replacements rows.
IsApproved(o, row) == row.order = o /\ row.status \in {"APPROVED", "REPLACED"}
Approved(o) == {q \in Requests : IsApproved(o, replacement[q])}

\* A decision is still to be made about the request a worker decides about, and
\* every credit is that of one approved request.
CreditsInv ==
    /\ \A w \in Workers : Decides(w) => Pending(tx[w].request)
    /\ \A o \in Orders : credits[o] = Cardinality(Approved(o))

\* A step that makes no decision, and whose worker only goes on, ends, or starts
\* to decide about a pending request.
LEMMA UndecidedKeepsCredits ==
    ASSUME ReplacementsInv, CreditsInv, UNCHANGED <<replacement, credits>>,
           \A w \in Workers : \/ tx'[w].op = tx[w].op /\ tx'[w].request = tx[w].request
                              \/ tx'[w].op \notin {"approve", "deny"}
                              \/ Pending(tx'[w].request)
    PROVE  CreditsInv'
<1>1. \A o \in Orders : Approved(o)' = Approved(o)
  BY DEF Approved
<1>2. \A w \in Workers : Decides(w)' => Pending(tx[w].request)'
  BY DEF CreditsInv, Decides, Pending
<1> QED
  BY <1>1, <1>2 DEF CreditsInv

\* Inserting a request, which nobody decides about yet.
LEMMA InsertKeepsCredits ==
    ASSUME ReplacementsInv, CreditsInv, NEW w \in Workers, InsertReplacement(w)
    PROVE  CreditsInv'
<1>1. PICK q \in Requests :
         /\ replacement[q] = NoReplacement
         /\ replacement' = [replacement EXCEPT ![q] =
               [status |-> "REQUESTED", lead |-> tx[w].lead, order |-> tx[w].order,
                fresh |-> None]]
  BY DEF InsertReplacement
<1>2. /\ replacement[q].status = "ABSENT" /\ replacement'[q].status = "REQUESTED"
      /\ \A p \in Requests \ {q} : replacement'[p] = replacement[p]
  BY <1>1 DEF NoReplacement, ReplacementsInv, TypeOK
<1>3. \A o \in Orders : Approved(o)' = Approved(o)
  BY <1>2 DEF Approved, IsApproved
<1>4. \A v \in Workers : tx'[v].op = tx[v].op /\ tx'[v].request = tx[v].request
  BY DEF InsertReplacement, ReplacementsInv, TypeOK, Transaction
<1>5. ASSUME NEW v \in Workers, Decides(v)' PROVE Pending(tx[v].request)'
  <2>1. Decides(v) /\ tx[v].request \in Requests /\ Pending(tx[v].request)
    BY <1>4, <1>5 DEF Decides, CreditsInv, ReplacementsInv, TransactionsAreSound, Sound
  <2>2. tx[v].request # q
    BY <1>2, <2>1 DEF Pending
  <2> QED
    BY <1>2, <1>4, <2>1, <2>2 DEF Pending
<1>6. credits' = credits
  BY DEF InsertReplacement
<1> QED
  BY <1>3, <1>5, <1>6 DEF CreditsInv

\* A decision about a request nobody else decides about: it was pending, so an
\* approval adds one approved request and one credit, a denial neither.
LEMMA DecisionKeepsCredits ==
    ASSUME ReplacementsInv, RequestsAreDecidedInTurn, CreditsInv, NEW w \in Workers,
           CommitDeny(w) \/ CommitApprove(w)
    PROVE  CreditsInv'
<1>1. Decides(w) /\ tx' = [tx EXCEPT ![w] = Idle]
  BY DEF CommitDeny, CommitApprove, Decides, End
<1> PICK q \in Requests, o \in Orders : q = tx[w].request /\ o = tx[w].order
  BY <1>1 DEF Decides, ReplacementsInv, TransactionsAreSound, Sound
<1>2. replacement[q].order = o /\ Pending(q)
  BY <1>1 DEF Decides, CreditsInv, ReplacementsInv, TransactionsAreSound, Sound
<1>3. /\ \A p \in Requests \ {q} : replacement'[p] = replacement[p]
      /\ replacement'[q].order = o
      /\ CommitDeny(w) => replacement'[q].status = "DENIED"
      /\ CommitApprove(w) => replacement'[q].status \in {"APPROVED", "REPLACED"}
  BY <1>2 DEF CommitDeny, CommitApprove, ReplacementsInv, TypeOK, Replacement
<1>4. ASSUME NEW v \in Workers, Decides(v)' PROVE Pending(tx[v].request)'
  <2>1. v # w /\ tx'[v] = tx[v]
    BY <1>1, <1>4 DEF Decides, Idle, Work, ReplacementsInv, TypeOK
  <2>2. Decides(v) /\ tx[v].request \in Requests /\ Pending(tx[v].request)
    BY <1>4, <2>1 DEF Decides, CreditsInv, ReplacementsInv, TransactionsAreSound, Sound
  <2>3. tx[v].request # q
    BY <1>1, <2>1, <2>2 DEF RequestsAreDecidedInTurn
  <2> QED
    BY <1>3, <2>1, <2>2, <2>3 DEF Pending
<1>5. q \notin Approved(o) /\ \A p \in Orders : IsFiniteSet(Approved(p))
  <2>1. \A p \in Orders : Approved(p) \subseteq Requests
    BY DEF Approved
  <2> QED
    BY <1>2, <2>1, FS_Subset DEF Approved, IsApproved, Pending
<1>6. CASE CommitDeny(w)
  <2>1. \A p \in Orders : Approved(p)' = Approved(p)
    BY <1>2, <1>3, <1>6 DEF Approved, IsApproved, Pending
  <2>2. credits' = credits
    BY <1>6 DEF CommitDeny
  <2> QED
    BY <1>4, <2>1, <2>2 DEF CreditsInv
<1>7. CASE CommitApprove(w)
  <2>1. \A p \in Orders \ {o} : Approved(p)' = Approved(p)
    BY <1>2, <1>3 DEF Approved, IsApproved
  <2>2. Approved(o)' = Approved(o) \cup {q}
    <3>1. IsApproved(o, replacement'[q])
      BY <1>2, <1>3, <1>7 DEF IsApproved
    <3> QED
      BY <1>2, <1>3, <3>1 DEF Approved
  <2>3. Cardinality(Approved(o)') = Cardinality(Approved(o)) + 1
    BY <1>2, <1>5, <2>2, FS_AddElement
  <2>4. credits' = [credits EXCEPT ![o] = @ + 1]
    BY <1>7 DEF CommitApprove
  <2>5. \A p \in Orders : credits'[p] = Cardinality(Approved(p)')
    <3>1. credits \in [Orders -> Nat]
      BY DEF ReplacementsInv, TypeOK
    <3>2. \A p \in Orders : credits[p] = Cardinality(Approved(p))
      BY DEF CreditsInv
    <3>3. credits'[o] = Cardinality(Approved(o)')
      BY <1>2, <2>3, <2>4, <3>1, <3>2
    <3> SUFFICES ASSUME NEW p \in Orders PROVE credits'[p] = Cardinality(Approved(p)')
      OBVIOUS
    <3>4. CASE p # o
      <4>1. credits'[p] = credits[p] /\ Approved(p)' = Approved(p)
        BY <2>1, <2>4, <3>1, <3>4
      <4> QED
        BY <3>2, <4>1
    <3> QED
      BY <3>3, <3>4
  <2> QED
    BY <1>4, <2>5 DEF CreditsInv
<1> QED
  BY <1>6, <1>7

LEMMA NextKeepsCredits ==
    ASSUME ReplacementsInv, RequestsAreDecidedInTurn, CreditsInv, [Next]_vars
    PROVE  CreditsInv'
<1>0. tx \in [Workers -> Transaction]
  BY DEF ReplacementsInv, TypeOK
<1>1. ASSUME NEW w \in Workers,
             \/ Start(w) \/ Abort(w) \/ CommitAssignment(w) \/ MarkLead(w) \/ LockDenied(w)
             \/ LockCredited(w) \/ ClaimReplacementLead(w)
      PROVE  CreditsInv'
  <2>1. UNCHANGED <<replacement, credits>>
    BY <1>1 DEF Start, Begin, Redistribute, ManualAssign, Create, Approve, Deny, Abort,
       CommitAssignment, MarkLead, LockDenied, LockCredited, Lock, ClaimReplacementLead, rows
  <2>2. \A v \in Workers \ {w} : tx'[v] = tx[v]
    BY <1>0, <1>1 DEF Start, Begin, Redistribute, ManualAssign, Create, Approve, Deny, Abort,
       End, CommitAssignment, MarkLead, LockDenied, LockCredited, Lock, ClaimReplacementLead
  <2>3. CASE Start(w)
    <3>1. \/ tx'[w].op \notin {"approve", "deny"} \/ Pending(tx'[w].request)
      <4>1. ASSUME NEW l \in Leads, NEW o \in Orders, ManualAssign(w, l, o) \/ Create(w, l, o)
            PROVE  tx'[w].op \notin {"approve", "deny"}
        BY <1>0, <4>1 DEF Begin, ManualAssign, Create, Work
      <4>2. ASSUME NEW l \in Leads, Redistribute(w, l)
            PROVE  tx'[w].op \notin {"approve", "deny"}
        BY <1>0, <4>2 DEF Redistribute, Work
      <4>3. ASSUME NEW q \in Requests, Approve(w, q) \/ Deny(w, q) PROVE Pending(tx'[w].request)
        <5>1. tx'[w].request = q /\ Pending(q)
          BY <1>0, <4>3 DEF Approve, Deny, Begin, Work
        <5> QED
          BY <5>1
      <4> QED
        BY <2>3, <4>1, <4>2, <4>3 DEF Start
    <3> QED
      BY <2>1, <2>2, <3>1, UndecidedKeepsCredits
  <2>4. CASE Abort(w) \/ CommitAssignment(w) \/ MarkLead(w)
    <3>1. tx'[w].op = "none"
      BY <1>0, <2>4 DEF Abort, CommitAssignment, MarkLead, End, Idle, Work
    <3> QED
      BY <2>1, <2>2, <3>1, UndecidedKeepsCredits
  <2>5. CASE LockDenied(w) \/ LockCredited(w) \/ ClaimReplacementLead(w)
    <3>1. tx'[w].op = tx[w].op /\ tx'[w].request = tx[w].request
      <4>1. ASSUME NEW from, NEW row, NEW to, Lock(w, from, row, to)
            PROVE  tx'[w].op = tx[w].op /\ tx'[w].request = tx[w].request
        BY <1>0, <4>1 DEF Lock, Transaction
      <4>2. CASE ClaimReplacementLead(w)
        <5>1. ASSUME NEW fresh, NEW locks,
                     \/ tx' = [tx EXCEPT ![w].fresh = fresh, ![w].locks = locks,
                                         ![w].step = "request"]
                     \/ tx' = [tx EXCEPT ![w].locks = locks, ![w].step = "request"]
              PROVE  tx'[w].op = tx[w].op /\ tx'[w].request = tx[w].request
          BY <1>0, <5>1 DEF Transaction
        <5> QED
          BY <4>2, <5>1 DEF ClaimReplacementLead
      <4> QED
        BY <2>5, <4>1, <4>2 DEF LockDenied, LockCredited
    <3> QED
      BY <2>1, <2>2, <3>1, UndecidedKeepsCredits
  <2> QED
    BY <1>1, <2>3, <2>4, <2>5
<1>2. ASSUME \/ \E l \in Leads, o \in Orders : Deliver(l, o)
             \/ \E o \in Orders : SetOrderStatus(o)
             \/ UNCHANGED vars
      PROVE  CreditsInv'
  <2>1. UNCHANGED <<replacement, credits, tx>>
    BY <1>2 DEF Deliver, SetOrderStatus, vars, rows
  <2> QED
    BY <2>1, UndecidedKeepsCredits
<1> QED
  BY <1>1, <1>2, InsertKeepsCredits, DecisionKeepsCredits DEF Next, Step

\* Where decisions about a request do not overlap every approved request has
\* been credited exactly once, whatever else overlaps, fails or is given up.
THEOREM DecisionsInTurnCreditOnce == Spec /\ []RequestsAreDecidedInTurn => []CreditedOnce
<1>1. Init => CreditsInv
  <2> SUFFICES ASSUME Init PROVE CreditsInv
    OBVIOUS
  <2>1. \A o \in Orders : Approved(o) = {} /\ credits[o] = 0
    BY DEF Init, Approved, IsApproved, NoReplacement
  <2>2. \A w \in Workers : ~Decides(w)
    BY DEF Init, Decides, Idle, Work
  <2> QED
    BY <2>1, <2>2, FS_EmptySet DEF CreditsInv
<1>2. ReplacementsInv /\ RequestsAreDecidedInTurn /\ CreditsInv /\ [Next]_vars => CreditsInv'
  BY NextKeepsCredits
<1>3. ReplacementsInv /\ CreditsInv => CreditedOnce
  <2> SUFFICES ASSUME ReplacementsInv, CreditsInv, NEW o \in Orders
               PROVE  credits[o] <= Cardinality(Approved(o))
    BY DEF CreditedOnce, Approved, IsApproved
  <2> QED
    BY DEF ReplacementsInv, TypeOK, CreditsInv
<1> QED
  BY <1>1, <1>2, <1>3, ReplacementsInvariant, PTL DEF Spec
=============================================================================
