------------------------- MODULE DistributionProofs -------------------------
(***************************************************************************)
(* Proofs about the distribution engine, for any number of leads, orders,  *)
(* concurrent transactions and connections.                                *)
(*                                                                         *)
(* DistributionInv is inductive: row locks are exclusive, so the state a   *)
(* transaction checked under its lead lock is still there when it commits  *)
(* (TransactionsAreCoherent), and a lead that still waits for a decision   *)
(* has no buyer (UndecidedLeadsAreUnsold).  With it every step of the      *)
(* engine is an allocation of LeadAllocation or leaves the books alone,    *)
(* and the balances and sharing rules follow from that module's theorems.  *)
(* The last part is about how transactions come to their end, and about    *)
(* what keeps the two faults that the runs find from happening.            *)
(***************************************************************************)
EXTENDS Distribution, FiniteSetTheorems, WellFoundedInduction, TLAPS

DistributionInv ==
    /\ TypeOK
    /\ LocksAreExclusive
    /\ TransactionsAreCoherent
    /\ UndecidedLeadsAreUnsold

USE DistributionAssumption DEF DistributionAssumption
-----------------------------------------------------------------------------
\* The cardinality LeadAllocation speaks of is the one of FiniteSets.
LEMMA SameCardinality ==
    ASSUME NEW S PROVE Allocation!Cardinality(S) = Cardinality(S)
BY DEF Allocation!Cardinality, Cardinality

\* A sub-set of a permitted set of buyers is permitted.
LEMMA PermittedSubset ==
    ASSUME NEW S \in SUBSET Orders, Allocation!Permitted(S), NEW T \in SUBSET S
    PROVE  Allocation!Permitted(T)
<1>1. IsFiniteSet(S)
  BY FS_Subset
<1>2. Cardinality(T) <= Cardinality(S) /\ Cardinality(T) \in Nat /\ Cardinality(S) \in Nat
  BY <1>1, FS_Subset, FS_CardinalityType
<1>3. Allocation!Cardinality(T) <= MaxShared
  BY <1>2, SameCardinality DEF Allocation!Permitted
<1>4. ASSUME NEW o \in T \cap {p \in Orders : DeliveryMode[p] = "EXCLUSIVE"}
      PROVE  T = {o}
  <2>1. S = {o}
    BY <1>4 DEF Allocation!Permitted
  <2> QED
    BY <2>1
<1> QED
  BY <1>3, <1>4 DEF Allocation!Permitted

\* The target orders chosen from an eligible set are eligible and may be the
\* buyers of one lead.
LEMMA TargetsArePermitted ==
    ASSUME NEW E \in SUBSET Orders, E # {}, NEW T \in TargetSets(E)
    PROVE  T \in SUBSET Orders /\ Allocation!Permitted(T)
<1>1. CASE T \in {{o} : o \in First(E) \ Shared(E)}
  <2> PICK o \in First(E) \ Shared(E) : T = {o}
    BY <1>1
  <2>1. o \in E
    BY DEF First
  <2> QED
    BY <2>1, FS_Singleton, SameCardinality DEF Allocation!Permitted
<1>2. CASE T \in SUBSET Shared(E) /\ Cardinality(T) <= MaxShared
  BY <1>2, SameCardinality DEF Allocation!Permitted, Shared
<1> QED
  BY <1>1, <1>2 DEF TargetSets
-----------------------------------------------------------------------------
LEMMA InitInv == Init => DistributionInv
<1> SUFFICES ASSUME Init PROVE DistributionInv
  OBVIOUS
<1>1. Idle \in Transaction
  BY DEF Idle, Transaction, Phases, Operations
<1>2. TypeOK
  BY <1>1 DEF Init, TypeOK, LeadStates, OrderStatuses
<1>3. LocksAreExclusive
  BY DEF Init, LocksAreExclusive, Idle
<1>4. TransactionsAreCoherent
  BY DEF Init, TransactionsAreCoherent, Coherent, Idle
<1>5. UndecidedLeadsAreUnsold
  BY DEF Init, UndecidedLeadsAreUnsold, Buyers
<1> QED
  BY <1>2, <1>3, <1>4, <1>5 DEF DistributionInv

\* A step that leaves the transactions, the leads and the assignments alone.
LEMMA QuietStepInv ==
    ASSUME DistributionInv, TypeOK', UNCHANGED <<tx, leadState, assignments>>
    PROVE  DistributionInv'
BY DEF DistributionInv, LocksAreExclusive, TransactionsAreCoherent, Coherent,
   UndecidedLeadsAreUnsold, Redistributable, Buyers

\* A transaction that does not move stays coherent while its lead does not move.
LEMMA UntouchedIsCoherent ==
    ASSUME DistributionInv, NEW v \in Workers, tx'[v] = tx[v],
           \/ leadState'[tx[v].lead] = leadState[tx[v].lead]
           \/ tx[v].leadLocks = {}
    PROVE  Coherent(tx[v])'
<1>1. Coherent(tx[v])
  BY DEF DistributionInv, TransactionsAreCoherent
<1>2. tx[v].leadLocks # {} /\ tx[v].op = "auto" => Redistributable(tx[v].lead)'
  BY <1>1 DEF Coherent, Redistributable
<1> QED
  BY <1>1, <1>2 DEF Coherent

LEMMA CaptureInv ==
    ASSUME DistributionInv, NEW l \in Leads, Capture(l)
    PROVE  DistributionInv'
<1>1. TypeOK'
  BY DEF DistributionInv, TypeOK, Capture, LeadStates
<1>2. LocksAreExclusive'
  BY DEF DistributionInv, LocksAreExclusive, Capture
<1>3. TransactionsAreCoherent'
  BY DEF DistributionInv, TypeOK, TransactionsAreCoherent, Coherent, Redistributable, Capture
<1>4. UndecidedLeadsAreUnsold'
  BY DEF DistributionInv, TypeOK, UndecidedLeadsAreUnsold, Buyers, Capture
<1> QED
  BY <1>1, <1>2, <1>3, <1>4 DEF DistributionInv

LEMMA BeginTypes ==
    ASSUME TypeOK, NEW w \in Workers, NEW l \in Leads,
           NEW op \in {"auto", "manual"}, NEW T \in SUBSET Orders, Begin(w, op, l, T)
    PROVE  tx' \in [Workers -> Transaction]
BY DEF TypeOK, Begin, Transaction, Phases, Operations

\* A transaction begins with no lock.
LEMMA BeginInv ==
    ASSUME DistributionInv, NEW w \in Workers, NEW l \in Leads,
           NEW op \in {"auto", "manual"}, NEW T \in SUBSET Orders,
           Begin(w, op, l, T), UNCHANGED <<leadState, assignments>>, TypeOK',
           op = "manual" => \E o \in Orders : T = {o}
    PROVE  DistributionInv'
<1>1. tx' = [tx EXCEPT ![w] = [phase |-> "lead", op |-> op, lead |-> l,
                               targets |-> T, leadLocks |-> {}, orderLocks |-> {}]]
  BY DEF Begin
<1>2. LocksAreExclusive'
  BY <1>1 DEF DistributionInv, TypeOK, LocksAreExclusive
<1>3. TransactionsAreCoherent'
  <2>1. tx'[w] = [phase |-> "lead", op |-> op, lead |-> l, targets |-> T,
                  leadLocks |-> {}, orderLocks |-> {}]
    BY <1>1 DEF DistributionInv, TypeOK
  <2>2. \A v \in Workers \ {w} : tx'[v] = tx[v]
    BY <1>1 DEF DistributionInv, TypeOK
  <2>3. Coherent(tx[w])'
    BY <2>1 DEF Coherent
  <2>4. \A v \in Workers \ {w} : Coherent(tx[v])'
    BY <2>2, UntouchedIsCoherent
  <2> QED
    BY <2>3, <2>4 DEF TransactionsAreCoherent
<1>4. UndecidedLeadsAreUnsold'
  BY DEF DistributionInv, UndecidedLeadsAreUnsold, Buyers
<1> QED
  BY <1>2, <1>3, <1>4 DEF DistributionInv

\* Ending a transaction without touching the tables releases its locks.
LEMMA EndInv ==
    ASSUME DistributionInv, NEW w \in Workers, End(w),
           UNCHANGED <<leadState, assignments>>, TypeOK'
    PROVE  DistributionInv'
<1>1. LocksAreExclusive'
  BY DEF DistributionInv, TypeOK, LocksAreExclusive, End, Idle
<1>2. TransactionsAreCoherent'
  BY DEF DistributionInv, TypeOK, TransactionsAreCoherent, Coherent, Redistributable, End, Idle
<1>3. UndecidedLeadsAreUnsold'
  BY DEF DistributionInv, UndecidedLeadsAreUnsold, Buyers
<1> QED
  BY <1>1, <1>2, <1>3 DEF DistributionInv

\* A transaction that ends after deciding about its lead l: nobody else holds
\* l, so no other transaction relies on the state l leaves.
LEMMA DecideInv ==
    ASSUME DistributionInv, NEW w \in Workers, NEW l \in Leads,
           tx[w].leadLocks = {l}, End(w), TypeOK', UndecidedLeadsAreUnsold',
           \A k \in Leads \ {l} : leadState'[k] = leadState[k]
    PROVE  DistributionInv'
<1>1. tx'[w] = Idle /\ \A v \in Workers \ {w} : tx'[v] = tx[v]
  BY DEF DistributionInv, TypeOK, End
<1>2. LocksAreExclusive'
  BY <1>1 DEF DistributionInv, LocksAreExclusive, Idle
<1>3. Coherent(tx[w])'
  BY <1>1 DEF Coherent, Idle
<1>4. ASSUME NEW v \in Workers \ {w} PROVE Coherent(tx[v])'
  <2>1. l \notin tx[v].leadLocks /\ Coherent(tx[v]) /\ tx[v] \in Transaction
    BY DEF DistributionInv, TypeOK, LocksAreExclusive, TransactionsAreCoherent
  <2>2. tx[v].leadLocks # {} => leadState'[tx[v].lead] = leadState[tx[v].lead]
    BY <2>1 DEF Coherent, Transaction, Phases
  <2> QED
    BY <1>1, <2>2, UntouchedIsCoherent
<1> QED
  BY <1>2, <1>3, <1>4 DEF DistributionInv, TransactionsAreCoherent

\* The updates the steps of a transaction make to its record.
LEMMA UpdateTypes ==
    ASSUME NEW t \in Transaction, NEW p \in Phases, NEW L \in SUBSET Leads,
           NEW S \in SUBSET Orders
    PROVE  /\ [t EXCEPT !.phase = p, !.leadLocks = L] \in Transaction
           /\ [t EXCEPT !.phase = p, !.targets = S] \in Transaction
           /\ [t EXCEPT !.orderLocks = S] \in Transaction
<1>1. [t EXCEPT !.phase = p, !.leadLocks = L] \in Transaction
  BY DEF Transaction
<1>2. [t EXCEPT !.phase = p, !.targets = S] \in Transaction
  BY DEF Transaction
<1>3. [t EXCEPT !.orderLocks = S] \in Transaction
  BY DEF Transaction
<1> QED
  BY <1>1, <1>2, <1>3

\* Locking the lead: the lead was free, and an automatic match goes on only if
\* the lead still waits for a decision.
LEMMA LockLeadInv ==
    ASSUME DistributionInv, NEW w \in Workers, LockLead(w)
    PROVE  DistributionInv'
<1> DEFINE l == tx[w].lead
<1>1. l \in Leads /\ tx[w].phase = "lead" /\ LeadIsFree(l) /\ tx[w].orderLocks = {}
  BY DEF DistributionInv, TransactionsAreCoherent, Coherent, LockLead
<1>2. UndecidedLeadsAreUnsold'
  BY DEF DistributionInv, UndecidedLeadsAreUnsold, Buyers, LockLead, dbVars
<1>3. CASE End(w)
  <2>1. TypeOK'
    BY <1>3 DEF DistributionInv, TypeOK, LockLead, dbVars, End, Idle, Transaction,
       Phases, Operations
  <2> QED
    BY <1>3, <2>1, EndInv DEF LockLead, dbVars
<1>4. ASSUME NEW phase \in {"match", "order"},
             tx' = [tx EXCEPT ![w].phase = phase, ![w].leadLocks = {l}],
             \/ tx[w].op = "auto" /\ Redistributable(l) /\ phase = "match"
             \/ tx[w].op = "manual" /\ phase = "order"
      PROVE  DistributionInv'
  <2>0. tx[w] \in Transaction /\ [tx[w] EXCEPT !.phase = phase, !.leadLocks = {l}] \in Transaction
    BY <1>1, UpdateTypes DEF DistributionInv, TypeOK, Phases
  <2>1. TypeOK'
    BY <1>4, <2>0 DEF DistributionInv, TypeOK, LockLead, dbVars
  <2>2. LocksAreExclusive'
    BY <1>1, <1>4 DEF DistributionInv, TypeOK, LocksAreExclusive, LeadIsFree
  <2>3. /\ tx'[w] = [tx[w] EXCEPT !.phase = phase, !.leadLocks = {l}]
        /\ \A v \in Workers \ {w} : tx'[v] = tx[v]
    BY <1>4 DEF DistributionInv, TypeOK
  <2>4. leadState' = leadState
    BY DEF LockLead, dbVars
  <2>5. Coherent(tx[w])'
    <3>1. /\ tx'[w].phase = phase /\ tx'[w].leadLocks = {l} /\ tx'[w].lead = l
          /\ tx'[w].op = tx[w].op /\ tx'[w].targets = tx[w].targets
          /\ tx'[w].orderLocks = {}
      BY <1>1, <2>0, <2>3 DEF Transaction
    <3> QED
      BY <1>1, <1>4, <2>4, <3>1 DEF DistributionInv, TransactionsAreCoherent, Coherent,
         Redistributable
  <2>6. \A v \in Workers \ {w} : Coherent(tx[v])'
    BY <2>3, <2>4, UntouchedIsCoherent
  <2> QED
    BY <1>2, <2>1, <2>2, <2>5, <2>6 DEF DistributionInv, TransactionsAreCoherent
<1> QED
  BY <1>3, <1>4 DEF LockLead

\* Choosing targets, pooling the lead or leaving it: only this transaction
\* holds the lead, so no other one relies on its state.
LEMMA MatchInv ==
    ASSUME DistributionInv, NEW w \in Workers, Match(w)
    PROVE  DistributionInv'
<1> DEFINE l == tx[w].lead
<1>1. /\ l \in Leads /\ tx[w].phase = "match" /\ tx[w].op = "auto"
      /\ tx[w].leadLocks = {l} /\ tx[w].orderLocks = {} /\ Redistributable(l)
  BY DEF DistributionInv, TransactionsAreCoherent, Coherent, Match
<1>3. CASE LeadType[l] \in blockedTypes
  <2>1. TypeOK'
    BY <1>1, <1>3 DEF DistributionInv, TypeOK, Match, End, Idle, Transaction,
       Phases, Operations
  <2> QED
    BY <1>3, <2>1, EndInv DEF Match
<1>4. CASE LeadType[l] \notin blockedTypes /\ Eligible(l) = {}
  <2>1. /\ leadState' = [leadState EXCEPT ![l] = "UNSOLD_POOL"]
        /\ End(w) /\ UNCHANGED assignments
    BY <1>4 DEF Match
  <2>2. TypeOK'
    BY <1>1, <1>4 DEF DistributionInv, TypeOK, Match, End, Idle, Transaction,
       Phases, Operations, LeadStates
  <2>3. UndecidedLeadsAreUnsold'
    BY <1>1, <2>1 DEF DistributionInv, TypeOK, UndecidedLeadsAreUnsold, Buyers,
       Redistributable
  <2> QED
    BY <1>1, <2>1, <2>2, <2>3, DecideInv DEF DistributionInv, TypeOK
<1>5. CASE LeadType[l] \notin blockedTypes /\ Eligible(l) # {}
  <2>1. PICK T \in TargetSets(Eligible(l)) :
             tx' = [tx EXCEPT ![w].phase = "order", ![w].targets = T]
    BY <1>5 DEF Match
  <2>2. T \in SUBSET Orders /\ Allocation!Permitted(T)
    BY <1>5, TargetsArePermitted DEF Eligible
  <2>3. UNCHANGED <<leadState, assignments>>
    BY <1>5 DEF Match
  <2>4. TypeOK'
    <3>1. [tx[w] EXCEPT !.phase = "order", !.targets = T] \in Transaction
      BY <2>2, UpdateTypes DEF DistributionInv, TypeOK, Phases
    <3> QED
      BY <1>5, <2>1, <3>1 DEF DistributionInv, TypeOK, Match
  <2>5. LocksAreExclusive'
    BY <2>1 DEF DistributionInv, TypeOK, LocksAreExclusive
  <2>6. /\ tx'[w] = [tx[w] EXCEPT !.phase = "order", !.targets = T]
        /\ \A v \in Workers \ {w} : tx'[v] = tx[v]
    BY <2>1 DEF DistributionInv, TypeOK
  <2>7. Coherent(tx[w])'
    BY <1>1, <2>2, <2>3, <2>6 DEF DistributionInv, TypeOK, Transaction,
       TransactionsAreCoherent, Coherent, Redistributable
  <2>8. \A v \in Workers \ {w} : Coherent(tx[v])'
    BY <2>3, <2>6, UntouchedIsCoherent
  <2>9. UndecidedLeadsAreUnsold'
    BY <2>3 DEF DistributionInv, UndecidedLeadsAreUnsold, Buyers
  <2> QED
    BY <2>4, <2>5, <2>7, <2>8, <2>9 DEF DistributionInv, TransactionsAreCoherent
<1> QED
  BY <1>3, <1>4, <1>5

LEMMA LockOrderInv ==
    ASSUME DistributionInv, NEW w \in Workers, LockOrder(w)
    PROVE  DistributionInv'
<1>1. PICK o \in NextLocks(tx[w].targets, tx[w].orderLocks) :
           OrderIsFree(o) /\ tx' = [tx EXCEPT ![w].orderLocks = @ \cup {o}]
  BY DEF LockOrder
<1>2. o \in tx[w].targets /\ o \in Orders
  BY <1>1 DEF NextLocks, DistributionInv, TypeOK, Transaction
<1>3. UNCHANGED <<leadState, assignments>> /\ tx[w].phase = "order"
  BY DEF LockOrder, dbVars
<1>4. TypeOK'
  <2>1. tx[w].orderLocks \cup {o} \in SUBSET Orders
    BY <1>2 DEF DistributionInv, TypeOK, Transaction
  <2>2. [tx[w] EXCEPT !.orderLocks = tx[w].orderLocks \cup {o}] \in Transaction
    BY <2>1, UpdateTypes DEF DistributionInv, TypeOK, Phases
  <2> QED
    BY <1>1, <2>2 DEF DistributionInv, TypeOK, LockOrder, dbVars
<1>5. LocksAreExclusive'
  BY <1>1 DEF DistributionInv, TypeOK, LocksAreExclusive, OrderIsFree
<1>6. /\ tx'[w] = [tx[w] EXCEPT !.orderLocks = tx[w].orderLocks \cup {o}]
      /\ \A v \in Workers \ {w} : tx'[v] = tx[v]
  BY <1>1 DEF DistributionInv, TypeOK
<1>7. Coherent(tx[w])'
  <2>1. /\ tx'[w].phase = "order" /\ tx'[w].op = tx[w].op /\ tx'[w].lead = tx[w].lead
        /\ tx'[w].targets = tx[w].targets /\ tx'[w].leadLocks = tx[w].leadLocks
        /\ tx'[w].orderLocks = tx[w].orderLocks \cup {o}
    BY <1>3, <1>6 DEF DistributionInv, TypeOK, Transaction
  <2>2. Coherent(tx[w]) /\ tx[w].targets \subseteq Nat
    BY DEF DistributionInv, TypeOK, Transaction, TransactionsAreCoherent
  <2>3. \A p \in tx[w].targets \ tx'[w].orderLocks : o < p
    BY <1>1, <2>1, <2>2 DEF NextLocks
  <2>4. \A q \in tx'[w].orderLocks, p \in tx'[w].targets \ tx'[w].orderLocks : q < p
    BY <2>1, <2>2, <2>3 DEF Coherent
  <2>5. tx'[w].op = "auto" => Redistributable(tx[w].lead)'
    BY <1>3, <2>1, <2>2 DEF Coherent, Redistributable
  <2> QED
    BY <1>2, <1>3, <2>1, <2>2, <2>4, <2>5 DEF Coherent
<1>8. \A v \in Workers \ {w} : Coherent(tx[v])'
  BY <1>3, <1>6, UntouchedIsCoherent
<1>9. UndecidedLeadsAreUnsold'
  BY <1>3 DEF DistributionInv, UndecidedLeadsAreUnsold, Buyers
<1> QED
  BY <1>4, <1>5, <1>7, <1>8, <1>9 DEF DistributionInv, TransactionsAreCoherent

\* What is known of a transaction that has locked all it needs.
LEMMA AtCommit ==
    ASSUME DistributionInv, NEW w \in Workers, tx[w].phase = "order"
    PROVE  /\ tx[w].lead \in Leads /\ tx[w].leadLocks = {tx[w].lead}
           /\ tx[w].targets \in SUBSET Orders
           /\ tx[w].op = "auto" => /\ Redistributable(tx[w].lead)
                                   /\ Buyers(tx[w].lead) = {}
                                   /\ Allocation!Permitted(tx[w].targets)
           /\ tx[w].op = "manual" => \E o \in Orders : tx[w].targets = {o}
BY DEF DistributionInv, TypeOK, Transaction, TransactionsAreCoherent, Coherent,
   Redistributable, UndecidedLeadsAreUnsold

\* Assigning a lead to orders that can receive it keeps the types.
LEMMA AssignAllTypes ==
    ASSUME TypeOK, NEW l \in Leads, NEW S \in SUBSET Orders,
           \A o \in S : quantityRemaining[o] > 0, AssignAll(l, S)
    PROVE  /\ assignments' \subseteq Leads \X Orders
           /\ assignedEvents' \subseteq Leads \X Orders
           /\ quantityRemaining' \in [Orders -> Nat]
           /\ orderStatus' \in [Orders -> OrderStatuses]
<1>1. assignments' \subseteq Leads \X Orders /\ assignedEvents' \subseteq Leads \X Orders
  BY DEF TypeOK, AssignAll
<1>2. quantityRemaining' \in [Orders -> Nat]
  BY DEF TypeOK, AssignAll
<1>3. orderStatus' \in [Orders -> OrderStatuses]
  BY DEF TypeOK, AssignAll, OrderStatuses
<1> QED
  BY <1>1, <1>2, <1>3

LEMMA EndTypes ==
    ASSUME TypeOK, NEW w \in Workers, End(w)
    PROVE  tx' \in [Workers -> Transaction]
BY DEF TypeOK, End, Idle, Transaction, Phases, Operations

\* The automatic commit sells an unsold lead or pools it.
LEMMA CommitAutoInv ==
    ASSUME DistributionInv, NEW w \in Workers, CommitAuto(w)
    PROVE  DistributionInv'
<1> DEFINE l == tx[w].lead
           filled == {o \in tx[w].targets : CanReceive(o)}
<1>1. /\ l \in Leads /\ tx[w].leadLocks = {l} /\ Buyers(l) = {}
      /\ filled \in SUBSET Orders
  BY AtCommit DEF CommitAuto
<1>2. /\ AssignAll(l, filled) /\ End(w)
      /\ leadState' = [leadState EXCEPT ![l] = IF filled # {} THEN "ASSIGNED"
                                                              ELSE "UNSOLD_POOL"]
  BY DEF CommitAuto
<1>3. TypeOK'
  <2>1. \A o \in filled : quantityRemaining[o] > 0
    BY DEF CanReceive
  <2> QED
    BY <1>1, <1>2, <2>1, AssignAllTypes, EndTypes
       DEF DistributionInv, TypeOK, CommitAuto, LeadStates
<1>4. UndecidedLeadsAreUnsold'
  <2> SUFFICES ASSUME NEW k \in Leads,
                      leadState'[k] \in {"ABSENT", "VALID", "UNSOLD_POOL"}
               PROVE  Buyers(k)' = {}
    BY DEF UndecidedLeadsAreUnsold
  <2>1. CASE k = l
    <3>1. filled = {}
      BY <1>1, <1>2, <2>1 DEF DistributionInv, TypeOK
    <3> QED
      BY <1>1, <1>2, <2>1, <3>1 DEF AssignAll, Buyers
  <2>2. CASE k # l
    BY <1>2, <2>2 DEF DistributionInv, TypeOK, AssignAll, Buyers, UndecidedLeadsAreUnsold
  <2> QED
    BY <2>1, <2>2
<1>5. \A k \in Leads \ {l} : leadState'[k] = leadState[k]
  BY <1>1, <1>2 DEF DistributionInv, TypeOK
<1> QED
  BY <1>1, <1>2, <1>3, <1>4, <1>5, DecideInv

LEMMA CommitManualInv ==
    ASSUME DistributionInv, NEW w \in Workers, CommitManual(w)
    PROVE  DistributionInv'
<1> DEFINE l == tx[w].lead
           S == tx[w].targets
<1>1. l \in Leads /\ tx[w].leadLocks = {l} /\ S \in SUBSET Orders /\ End(w)
  BY AtCommit DEF CommitManual
<1>2. CASE \A o \in S : ManualAllowed(l, o)
  <2>1. /\ AssignAll(l, S) /\ leadState' = [leadState EXCEPT ![l] = "ASSIGNED"]
        /\ stranded' = stranded \ {l}
    BY <1>2 DEF CommitManual
  <2>2. \A o \in S : quantityRemaining[o] > 0
    BY <1>2 DEF ManualAllowed, CanReceive
  <2>3. TypeOK'
    BY <1>1, <2>1, <2>2, AssignAllTypes, EndTypes
       DEF DistributionInv, TypeOK, CommitManual, LeadStates
  <2>4. UndecidedLeadsAreUnsold'
    BY <1>1, <2>1 DEF DistributionInv, TypeOK, UndecidedLeadsAreUnsold, Buyers, AssignAll
  <2>5. \A k \in Leads \ {l} : leadState'[k] = leadState[k]
    BY <1>1, <2>1 DEF DistributionInv, TypeOK
  <2> QED
    BY <1>1, <2>3, <2>4, <2>5, DecideInv
<1>3. CASE \E o \in S : ~ManualAllowed(l, o)
  <2>1. TypeOK'
    BY <1>1, <1>3, EndTypes DEF DistributionInv, TypeOK, CommitManual
  <2>2. UNCHANGED <<leadState, assignments>>
    BY <1>3 DEF CommitManual
  <2> QED
    BY <1>1, <2>1, <2>2, EndInv
<1> QED
  BY <1>2, <1>3

LEMMA DeliverInv ==
    ASSUME DistributionInv, NEW l \in Leads, NEW o \in Orders, DeliverAssignment(l, o)
    PROVE  DistributionInv'
<1>1. TypeOK'
  BY DEF DistributionInv, TypeOK, DeliverAssignment, LeadStates
<1>2. LocksAreExclusive'
  BY DEF DistributionInv, LocksAreExclusive, DeliverAssignment
<1>3. UndecidedLeadsAreUnsold'
  BY DEF DistributionInv, TypeOK, UndecidedLeadsAreUnsold, Buyers, DeliverAssignment
<1>4. TransactionsAreCoherent'
  <2>1. tx' = tx /\ \A k \in Leads : leadState[k] # "ASSIGNED" => leadState'[k] = leadState[k]
    BY DEF DistributionInv, TypeOK, DeliverAssignment
  <2> SUFFICES ASSUME NEW w \in Workers PROVE Coherent(tx[w])'
    BY DEF TransactionsAreCoherent
  <2>2. Coherent(tx[w]) /\ tx[w] \in Transaction
    BY DEF DistributionInv, TypeOK, TransactionsAreCoherent
  <2>3. ASSUME tx[w].leadLocks # {}, tx[w].op = "auto" PROVE Redistributable(tx[w].lead)'
    <3>1. tx[w].lead \in Leads /\ Redistributable(tx[w].lead)
      BY <2>2, <2>3 DEF Coherent, Transaction, Phases
    <3> QED
      BY <2>1, <3>1 DEF Redistributable
  <2> QED
    BY <2>1, <2>2, <2>3 DEF Coherent
<1> QED
  BY <1>1, <1>2, <1>3, <1>4 DEF DistributionInv

LEMMA CrashInv == DistributionInv /\ Crash => DistributionInv'
<1> SUFFICES ASSUME DistributionInv, Crash PROVE DistributionInv'
  OBVIOUS
<1>1. TypeOK'
  BY DEF DistributionInv, TypeOK, Crash, dbVars, Idle, Transaction, Phases, Operations
<1>2. LocksAreExclusive'
  BY DEF LocksAreExclusive, Crash, Idle
<1>3. TransactionsAreCoherent'
  BY DEF TransactionsAreCoherent, Coherent, Crash, Idle
<1>4. UndecidedLeadsAreUnsold'
  BY DEF DistributionInv, UndecidedLeadsAreUnsold, Buyers, Crash, dbVars
<1> QED
  BY <1>1, <1>2, <1>3, <1>4 DEF DistributionInv
-----------------------------------------------------------------------------
LEMMA RequestInv ==
    ASSUME DistributionInv, NEW w \in Workers, Request(w)
    PROVE  DistributionInv'
<1>1. ASSUME NEW l \in Leads, OnLeadValid(w, l) PROVE DistributionInv'
  <2>1. TypeOK'
    BY <1>1, BeginTypes DEF DistributionInv, TypeOK, OnLeadValid, dbVars
  <2> QED
    BY <1>1, <2>1, BeginInv DEF OnLeadValid, dbVars
<1>2. ASSUME NEW l \in AdminLeads, Redistribute(w, l) PROVE DistributionInv'
  <2>1. TypeOK'
    BY <1>2, BeginTypes DEF DistributionInv, TypeOK, Redistribute, dbVars
  <2> QED
    BY <1>2, <2>1, BeginInv DEF Redistribute, dbVars
<1>3. ASSUME NEW l \in AdminLeads, NEW o \in Orders, ManualAssign(w, l, o)
      PROVE  DistributionInv'
  <2>1. TypeOK'
    BY <1>3, BeginTypes DEF DistributionInv, TypeOK, ManualAssign, dbVars
  <2> QED
    BY <1>3, <2>1, BeginInv DEF ManualAssign, dbVars
<1> QED
  BY <1>1, <1>2, <1>3 DEF Request

\* Pausing and resuming write the status column only.
LEMMA AdministerInv ==
    ASSUME DistributionInv, Administer
    PROVE  DistributionInv'
<1>1. ASSUME NEW t \in HeldTypes, SetLeadType(t) PROVE DistributionInv'
  <2>1. TypeOK'
    BY <1>1 DEF DistributionInv, TypeOK, SetLeadType, dbVars
  <2> QED
    BY <1>1, <2>1, QuietStepInv DEF SetLeadType, dbVars
<1>2. ASSUME NEW o \in PausedOrders, PauseOrder(o) PROVE DistributionInv'
  <2>1. TypeOK'
    BY <1>2 DEF DistributionInv, TypeOK, PauseOrder, dbVars, OrderStatuses
  <2> QED
    BY <1>2, <2>1, QuietStepInv DEF PauseOrder, dbVars
<1>3. ASSUME NEW o \in PausedOrders, ResumeOrder(o) PROVE DistributionInv'
  <2>1. TypeOK'
    BY <1>3 DEF DistributionInv, TypeOK, ResumeOrder, dbVars, OrderStatuses
  <2> QED
    BY <1>3, <2>1, QuietStepInv DEF ResumeOrder, dbVars
<1>4. ASSUME NEW o \in PausedOrders, WriteOrderStatus(o) PROVE DistributionInv'
  <2>1. TypeOK'
    BY <1>4 DEF DistributionInv, TypeOK, WriteOrderStatus, OrderStatuses
  <2> QED
    BY <1>4, <2>1, QuietStepInv DEF WriteOrderStatus
<1> QED
  BY <1>1, <1>2, <1>3, <1>4 DEF Administer

LEMMA TimeoutInv ==
    ASSUME DistributionInv, NEW w \in Workers, Timeout(w)
    PROVE  DistributionInv'
<1>1. GivenUp(w) \subseteq Leads
  BY DEF Waiting, GivenUp, DistributionInv, TransactionsAreCoherent, Coherent, Timeout
<1>2. TypeOK'
  BY <1>1, EndTypes DEF DistributionInv, TypeOK, Timeout, dbVars
<1> QED
  BY <1>2, EndInv DEF Timeout, dbVars

LEMMA StepInv ==
    ASSUME DistributionInv, NEW w \in Workers, Step(w)
    PROVE  DistributionInv'
BY LockLeadInv, MatchInv, LockOrderInv, CommitAutoInv, CommitManualInv DEF Step

LEMMA NextInv == DistributionInv /\ [Next]_vars => DistributionInv'
<1> SUFFICES ASSUME DistributionInv, [Next]_vars PROVE DistributionInv'
  OBVIOUS
<1>1. CASE UNCHANGED vars
  <2>1. TypeOK'
    BY <1>1 DEF DistributionInv, TypeOK, vars, dbVars
  <2> QED
    BY <1>1, <2>1, QuietStepInv DEF vars, dbVars
<1>2. ASSUME NEW l \in Leads, Capture(l) PROVE DistributionInv'
  BY <1>2, CaptureInv
<1>3. ASSUME NEW l \in Leads, BeginTimeout(l) PROVE DistributionInv'
  <2>1. TypeOK'
    BY <1>3 DEF DistributionInv, TypeOK, BeginTimeout, dbVars
  <2> QED
    BY <1>3, <2>1, QuietStepInv DEF BeginTimeout, dbVars
<1>4. ASSUME NEW w \in Workers, Request(w) \/ Step(w) \/ Timeout(w) PROVE DistributionInv'
  BY <1>4, RequestInv, StepInv, TimeoutInv
<1>5. ASSUME NEW l \in Leads, NEW o \in Orders, DeliverAssignment(l, o) \/ DeliveryFails(l, o)
      PROVE  DistributionInv'
  <2>1. CASE DeliveryFails(l, o)
    <3>1. TypeOK'
      BY <2>1 DEF DistributionInv, TypeOK, DeliveryFails, dbVars
    <3> QED
      BY <2>1, <3>1, QuietStepInv DEF DeliveryFails, dbVars
  <2> QED
    BY <1>5, <2>1, DeliverInv
<1> QED
  BY <1>1, <1>2, <1>3, <1>4, <1>5, AdministerInv, CrashInv DEF Next, Deliver

\* The invariant of the engine holds in every state it reaches.
THEOREM DistributionIsCorrect == Spec => []DistributionInv
BY InitInv, NextInv, PTL DEF Spec
-----------------------------------------------------------------------------
\* The automatic commit is one allocation of the lead, which nobody bought
\* before, to those targets that can still receive it.
LEMMA CommitAutoAllocates ==
    ASSUME DistributionInv, NEW w \in Workers, CommitAuto(w)
    PROVE  [Allocation!AllocationNext]_(Allocation!allocationVars)
<1> DEFINE l == tx[w].lead
           filled == {o \in tx[w].targets : CanReceive(o)}
<1>1. /\ l \in Leads /\ Buyers(l) = {} /\ filled \in SUBSET Orders
      /\ Allocation!Permitted(filled)
  BY AtCommit, PermittedSubset DEF CommitAuto
<1>2. AssignAll(l, filled)
  BY DEF CommitAuto
<1>3. CASE filled = {}
  BY <1>2, <1>3 DEF AssignAll, DistributionInv, TypeOK, Allocation!allocationVars
<1>4. CASE filled # {}
  <2>1. \A o \in filled : quantityRemaining[o] > 0
    BY DEF CanReceive
  <2>2. Allocation!Buyers(l) = {}
    BY <1>1 DEF Allocation!Buyers, Allocation!BuyersIn, Buyers
  <2>3. Allocation!Allocate(l, filled)
    BY <1>1, <1>2, <1>4, <2>1, <2>2 DEF Allocation!Allocate, AssignAll
  <2> QED
    BY <1>1, <2>3 DEF Allocation!AllocationNext
<1> QED
  BY <1>3, <1>4

\* The checks of a manual assignment leave a permitted set of buyers.
LEMMA ManualIsPermitted ==
    ASSUME NEW l \in Leads, NEW o \in Orders, ManualAllowed(l, o)
    PROVE  Allocation!Permitted(Buyers(l) \cup {o})
<1>1. CASE DeliveryMode[o] = "EXCLUSIVE"
  <2>1. Buyers(l) = {}
    BY <1>1 DEF ManualAllowed
  <2>2. Buyers(l) \cup {o} = {o}
    BY <2>1
  <2>3. Cardinality({o}) = 1 /\ Allocation!Cardinality({o}) = Cardinality({o})
    BY FS_Singleton, SameCardinality
  <2>4. Allocation!Permitted({o})
    BY <2>3 DEF Allocation!Permitted
  <2> QED
    BY <2>2, <2>4
<1>2. CASE DeliveryMode[o] = "SHARED"
  <2>1. \A p \in Buyers(l) : DeliveryMode[p] = "SHARED"
    BY DEF ManualAllowed, Buyers
  <2>2. {p \in Buyers(l) : DeliveryMode[p] = "SHARED"} = Buyers(l)
    BY <2>1
  <2>3. Cardinality(Buyers(l)) < MaxShared
    BY <1>2, <2>2 DEF ManualAllowed
  <2>4. IsFiniteSet(Buyers(l))
    BY FS_Subset DEF Buyers
  <2>5. Cardinality(Buyers(l)) \in Nat /\ o \notin Buyers(l)
    BY <2>4, FS_CardinalityType DEF ManualAllowed
  <2>6. Cardinality(Buyers(l) \cup {o}) = Cardinality(Buyers(l)) + 1
    BY <2>4, <2>5, FS_AddElement
  <2> QED
    BY <1>2, <2>1, <2>3, <2>5, <2>6, SameCardinality DEF Allocation!Permitted
<1> QED
  BY <1>1, <1>2

LEMMA CommitManualAllocates ==
    ASSUME DistributionInv, NEW w \in Workers, CommitManual(w)
    PROVE  [Allocation!AllocationNext]_(Allocation!allocationVars)
<1> DEFINE l == tx[w].lead
<1>1. PICK o \in Orders : tx[w].targets = {o}
  BY AtCommit DEF CommitManual
<1>2. l \in Leads
  BY AtCommit DEF CommitManual
<1>3. CASE ManualAllowed(l, o)
  <2>1. AssignAll(l, {o})
    BY <1>1, <1>3 DEF CommitManual
  <2>2. Allocation!Permitted(Allocation!Buyers(l) \cup {o})
    BY <1>2, <1>3, ManualIsPermitted DEF Allocation!Buyers, Allocation!BuyersIn, Buyers
  <2>3. quantityRemaining[o] > 0 /\ o \notin Allocation!Buyers(l)
    BY <1>3 DEF ManualAllowed, CanReceive, Allocation!Buyers, Allocation!BuyersIn, Buyers
  <2>4. Allocation!Allocate(l, {o})
    BY <2>1, <2>2, <2>3 DEF Allocation!Allocate, AssignAll
  <2> QED
    BY <1>2, <2>4 DEF Allocation!AllocationNext
<1>4. CASE ~ManualAllowed(l, o)
  BY <1>1, <1>4 DEF CommitManual, Allocation!allocationVars
<1> QED
  BY <1>3, <1>4

\* Every step of the engine is an allocation or leaves the books alone.
LEMMA NextAllocates ==
    ASSUME DistributionInv, [Next]_vars
    PROVE  [Allocation!AllocationNext]_(Allocation!allocationVars)
<1>1. ASSUME NEW w \in Workers, CommitAuto(w) \/ CommitManual(w)
      PROVE  [Allocation!AllocationNext]_(Allocation!allocationVars)
  BY <1>1, CommitAutoAllocates, CommitManualAllocates
<1>2. ASSUME NEW w \in Workers,
             LockLead(w) \/ Match(w) \/ LockOrder(w) \/ Request(w) \/ Timeout(w)
      PROVE  UNCHANGED Allocation!allocationVars
  BY <1>2 DEF LockLead, Match, LockOrder, Request, OnLeadValid, Redistribute,
     ManualAssign, Timeout, dbVars, Allocation!allocationVars
<1>3. ASSUME NEW l \in Leads, Capture(l) \/ BeginTimeout(l)
      PROVE  UNCHANGED Allocation!allocationVars
  BY <1>3 DEF Capture, BeginTimeout, dbVars, Allocation!allocationVars
<1>4. ASSUME Deliver \/ Administer \/ Crash
      PROVE  UNCHANGED Allocation!allocationVars
  BY <1>4 DEF Deliver, DeliverAssignment, DeliveryFails, Administer, SetLeadType,
     PauseOrder, ResumeOrder, WriteOrderStatus, Crash, dbVars, Allocation!allocationVars
<1>5. ASSUME UNCHANGED vars PROVE UNCHANGED Allocation!allocationVars
  BY <1>5 DEF vars, dbVars, Allocation!allocationVars
<1> QED
  BY <1>1, <1>2, <1>3, <1>4, <1>5 DEF Next, Step

\* The locking, re-checking transactions of the engine carry out the sale of
\* leads that LeadAllocation promises: one indivisible hand-over at a time.
THEOREM DistributionImplementsAllocation == Spec => ImplementsAllocation
<1>1. Init => Allocation!AllocationInit
  BY DEF Init, Allocation!AllocationInit
<1> QED
  BY <1>1, NextAllocates, DistributionIsCorrect, PTL
     DEF Spec, ImplementsAllocation, Allocation!AllocationSpec
-----------------------------------------------------------------------------
Sales == INSTANCE LeadAllocationProofs WITH
    Exclusive <- {o \in Orders : DeliveryMode[o] = "EXCLUSIVE"},
    Paid <- QuantityPaid,
    assigned <- assignments,
    remaining <- quantityRemaining

\* Both instances of LeadAllocation speak of the same things.
LEMMA SameAllocation ==
    /\ Sales!AllocationInit <=> Allocation!AllocationInit
    /\ [Sales!AllocationNext]_(Sales!allocationVars)
          <=> [Allocation!AllocationNext]_(Allocation!allocationVars)
    /\ Sales!BalancesReconcile <=> Allocation!BalancesReconcile
    /\ Sales!SharingRespected <=> Allocation!SharingRespected
<1>1. \A S : Sales!Cardinality(S) = Allocation!Cardinality(S)
  BY DEF Sales!Cardinality, Allocation!Cardinality
<1>2. \A S : Sales!Permitted(S) <=> Allocation!Permitted(S)
  BY <1>1 DEF Sales!Permitted, Allocation!Permitted
<1>3. \A l : Sales!Buyers(l) = Allocation!Buyers(l)
  BY DEF Sales!Buyers, Sales!BuyersIn, Allocation!Buyers, Allocation!BuyersIn
<1>4. Sales!AllocationInit <=> Allocation!AllocationInit
  BY DEF Sales!AllocationInit, Allocation!AllocationInit
<1>5. \A l, S : Sales!Allocate(l, S) <=> Allocation!Allocate(l, S)
  BY <1>2, <1>3 DEF Sales!Allocate, Allocation!Allocate
<1>6. [Sales!AllocationNext]_(Sales!allocationVars)
         <=> [Allocation!AllocationNext]_(Allocation!allocationVars)
  BY <1>5 DEF Sales!AllocationNext, Allocation!AllocationNext,
     Sales!allocationVars, Allocation!allocationVars
<1>7. Sales!BalancesReconcile <=> Allocation!BalancesReconcile
  BY <1>1 DEF Sales!BalancesReconcile, Sales!Received, Sales!ReceivedIn,
     Allocation!BalancesReconcile, Allocation!Received, Allocation!ReceivedIn
<1>8. Sales!SharingRespected <=> Allocation!SharingRespected
  BY <1>2, <1>3 DEF Sales!SharingRespected, Allocation!SharingRespected
<1> QED
  BY <1>4, <1>6, <1>7, <1>8

\* What LeadAllocationProofs proves of an allocation is true of the engine.
LEMMA EngineIsSound == Spec => [](BalancesReconcile /\ SharingRespected)
<1>1. Sales!AllocationAssumption
  <2>1. \A S : IsFiniteSet(S) => Sales!IsFiniteSet(S)
    BY DEF IsFiniteSet, Sales!IsFiniteSet
  <2> QED
    BY <2>1 DEF Sales!AllocationAssumption
<1>2. Sales!AllocationSpec => []Sales!AllocationInv
  BY <1>1, Sales!AllocationIsSound
<1>3. ImplementsAllocation => Sales!AllocationSpec
  BY SameAllocation, PTL
     DEF ImplementsAllocation, Allocation!AllocationSpec, Sales!AllocationSpec
<1>4. Sales!AllocationInv => BalancesReconcile /\ SharingRespected
  BY SameAllocation DEF Sales!AllocationInv, BalancesReconcile, SharingRespected
<1> QED
  BY <1>2, <1>3, <1>4, DistributionImplementsAllocation, PTL

\* No order is over-filled and none loses a slot, whatever overlaps, times out
\* or dies (the totals of distribution-concurrency-test.ts).
THEOREM BalancesAlwaysReconcile == Spec => []BalancesReconcile
BY EngineIsSound, PTL

\* A lead has one EXCLUSIVE buyer or at most MaxShared buyers, by the checks of
\* the code alone.
THEOREM SharingIsAlwaysRespected == Spec => []SharingRespected
BY EngineIsSound, PTL

\* Row locks are exclusive, and what a transaction checked under its lead lock
\* still holds when it commits.
THEOREM LocksStayExclusive == Spec => []LocksAreExclusive
BY DistributionIsCorrect, PTL DEF DistributionInv

THEOREM TransactionsStayCoherent == Spec => []TransactionsAreCoherent
BY DistributionIsCorrect, PTL DEF DistributionInv

\* A lead that waits for a decision has no buyer.
THEOREM UndecidedLeadsStayUnsold == Spec => []UndecidedLeadsAreUnsold
BY DistributionIsCorrect, PTL DEF DistributionInv

\* The variables keep their types.
THEOREM DistributionTypes == Spec => []TypeOK
BY DistributionIsCorrect, PTL DEF DistributionInv
-----------------------------------------------------------------------------
\* A non-empty set of orders has a largest one (by well-foundedness of the
\* subset relation: take a smallest set that has none).
LEMMA LargestOrder ==
    ASSUME NEW H \in SUBSET Orders, H # {}
    PROVE  \E m \in H : \A o \in H : o <= m
<1> DEFINE Bad == {S \in SUBSET Orders : S # {} /\ ~ \E m \in S : \A o \in S : o <= m}
<1> SUFFICES ASSUME Bad # {} PROVE FALSE
  OBVIOUS
<1>1. Bad \subseteq FiniteSubsetsOf(Orders)
  BY FS_FiniteSubsetsOfFinite
<1> HIDE DEF Bad
<1>2. PICK S \in Bad : \A U \in Bad : <<U, S>> \notin StrictSubsetOrdering(Orders)
  BY <1>1, FS_StrictSubsetOrderingWellFounded, WFMin
<1> USE DEF Bad
<1>3. PICK x \in S : TRUE
  OBVIOUS
<1>4. S \ {x} \notin Bad
  <2>1. S \ {x} \in SUBSET Orders /\ S \in SUBSET Orders /\ S \ {x} # S
    BY <1>3
  <2>2. <<S \ {x}, S>> \in StrictSubsetOrdering(Orders)
    BY <2>1 DEF StrictSubsetOrdering
  <2> HIDE DEF Bad
  <2> QED
    BY <1>2, <2>2
<1>5. CASE S \ {x} = {}
  BY <1>3, <1>5
<1>6. CASE \E m \in S \ {x} : \A o \in S \ {x} : o <= m
  <2> PICK m \in S \ {x} : \A o \in S \ {x} : o <= m
    BY <1>6
  <2>1. m \in Nat /\ x \in Nat /\ S \subseteq Nat
    BY <1>3
  <2>2. CASE x <= m
    BY <2>1, <2>2
  <2>3. CASE m < x
    BY <1>3, <2>1, <2>3
  <2> QED
    BY <2>1, <2>2, <2>3
<1> QED
  BY <1>4, <1>5, <1>6

\* In every group of transactions some transaction waits for no row lock of the
\* others: the one that holds the largest order id, or, when none holds an
\* order, any one that is past the lead lock.  Row locks never deadlock.
LEMMA NoCycle == DistributionInv => NoLockCycle
<1> SUFFICES ASSUME DistributionInv, NEW group \in (SUBSET Workers) \ {{}}
             PROVE  \E v \in group : \A w \in group \ {v} : ~WaitsFor(v, w)
  BY DEF NoLockCycle
<1> DEFINE Held == UNION {tx[w].orderLocks : w \in group}
<1>1. \A w \in Workers : Coherent(tx[w]) /\ tx[w] \in Transaction
  BY DEF DistributionInv, TypeOK, TransactionsAreCoherent
<1>2. CASE Held # {}
  <2>1. Held \in SUBSET Orders
    BY <1>1 DEF Transaction
  <2>2. PICK m \in Held : \A o \in Held : o <= m
    BY <1>2, <2>1, LargestOrder
  <2>3. PICK v \in group : m \in tx[v].orderLocks
    BY <2>2
  <2>4. tx[v].phase = "order"
    BY <1>1, <2>3 DEF Coherent
  <2>5. \A o \in NextLocks(tx[v].targets, tx[v].orderLocks) : m < o
    BY <1>1, <2>3 DEF NextLocks, Coherent
  <2>6. ASSUME NEW w \in group, NEW o \in tx[w].orderLocks,
               o \in NextLocks(tx[v].targets, tx[v].orderLocks)
        PROVE  FALSE
    <3>1. o \in Held
      OBVIOUS
    <3>2. o \in Nat /\ m \in Nat
      BY <2>1, <2>2, <3>1
    <3> QED
      BY <2>2, <2>5, <2>6, <3>1, <3>2
  <2> QED
    BY <2>4, <2>6 DEF WaitsFor
<1>3. CASE Held = {} /\ \E v \in group : tx[v].phase # "lead"
  <2> PICK v \in group : tx[v].phase # "lead"
    BY <1>3
  <2>1. \A w \in group : tx[w].orderLocks = {}
    BY <1>3
  <2> QED
    BY <2>1 DEF WaitsFor
<1>4. CASE \A v \in group : tx[v].phase = "lead"
  <2>1. \A w \in group : tx[w].leadLocks = {}
    BY <1>1, <1>4 DEF Coherent
  <2> QED
    BY <1>4, <2>1 DEF WaitsFor
<1> QED
  BY <1>2, <1>3, <1>4

\* "deadlock-safe", for any number of transactions, leads and orders.
THEOREM RowLocksNeverDeadlock == Spec => []NoLockCycle
BY NoCycle, DistributionIsCorrect, PTL
-----------------------------------------------------------------------------
\* A sold lead is never distributable again: an automatic match decides only
\* about leads that still wait, and it holds them from its check to its commit.
THEOREM SalesOfLeadsAreFinal == Spec => SoldLeadsStaySold
<1> DEFINE Kept == \A l \in Leads : leadState[l] \in {"ASSIGNED", "DELIVERED"} =>
                      leadState'[l] \notin {"VALID", "UNSOLD_POOL"}
<1>1. ASSUME DistributionInv, [Next]_vars PROVE Kept
  <2>1. ASSUME NEW w \in Workers, Match(w) \/ CommitAuto(w) PROVE Kept
    <3>1. Redistributable(tx[w].lead) /\ tx[w].lead \in Leads
      BY <1>1, <2>1 DEF DistributionInv, TransactionsAreCoherent, Coherent, Match, CommitAuto
    <3>2. \A l \in Leads : l # tx[w].lead => leadState'[l] = leadState[l]
      BY <1>1, <2>1 DEF DistributionInv, TypeOK, Match, CommitAuto
    <3> QED
      BY <3>1, <3>2 DEF Redistributable
  <2>2. ASSUME NEW w \in Workers, CommitManual(w) PROVE Kept
    BY <1>1, <2>2 DEF DistributionInv, TypeOK, CommitManual
  <2>3. ASSUME NEW w \in Workers, LockLead(w) \/ LockOrder(w) \/ Request(w) \/ Timeout(w)
        PROVE  leadState' = leadState
    BY <2>3 DEF LockLead, LockOrder, Request, OnLeadValid, Redistribute, ManualAssign,
       Timeout, dbVars
  <2>4. ASSUME NEW l \in Leads, Capture(l) PROVE Kept
    BY <1>1, <2>4 DEF DistributionInv, TypeOK, Capture
  <2>5. ASSUME NEW l \in Leads, NEW o \in Orders, DeliverAssignment(l, o) PROVE Kept
    BY <1>1, <2>5 DEF DistributionInv, TypeOK, DeliverAssignment
  <2>6. ASSUME \/ \E l \in Leads : BeginTimeout(l)
               \/ \E l \in Leads, o \in Orders : DeliveryFails(l, o)
               \/ Administer \/ Crash \/ UNCHANGED vars
        PROVE  leadState' = leadState
    BY <2>6 DEF BeginTimeout, DeliveryFails, Administer, SetLeadType, PauseOrder,
       ResumeOrder, WriteOrderStatus, Crash, vars, dbVars
  <2> QED
    BY <1>1, <2>1, <2>2, <2>3, <2>4, <2>5, <2>6 DEF Next, Step, Deliver
<1>2. DistributionInv /\ [Next]_vars => [Kept]_vars
  BY <1>1
<1> QED
  BY <1>2, DistributionIsCorrect, PTL DEF Spec, SoldLeadsStaySold

\* An order that was paused or drained after the match chose it gets nothing:
\* both commits look at the locked row again.
THEOREM OnlyOpenOrdersAreServed == Spec => OnlyOpenOrdersReceive
<1> DEFINE Open == \A l \in Leads, o \in Orders :
                      <<l, o>> \in assignments' \ assignments =>
                          orderStatus[o] \in Serviceable /\ quantityRemaining[o] > 0
<1>1. ASSUME DistributionInv, [Next]_vars PROVE Open
  <2>1. ASSUME NEW w \in Workers, CommitAuto(w) PROVE Open
    BY <2>1 DEF CommitAuto, AssignAll, CanReceive
  <2>2. ASSUME NEW w \in Workers, CommitManual(w) PROVE Open
    <3>1. \/ assignments' = assignments
          \/ /\ assignments' = assignments \cup ({tx[w].lead} \X tx[w].targets)
             /\ \A o \in tx[w].targets : ManualAllowed(tx[w].lead, o)
      BY <2>2 DEF CommitManual, AssignAll
    <3>2. \A l, o : ManualAllowed(l, o) => CanReceive(o)
      BY DEF ManualAllowed
    <3> QED
      BY <3>1, <3>2 DEF CanReceive
  <2>3. ASSUME NEW w \in Workers,
               LockLead(w) \/ Match(w) \/ LockOrder(w) \/ Request(w) \/ Timeout(w)
        PROVE  assignments' = assignments
    BY <2>3 DEF LockLead, Match, LockOrder, Request, OnLeadValid, Redistribute,
       ManualAssign, Timeout, dbVars
  <2>4. ASSUME \/ \E l \in Leads : Capture(l) \/ BeginTimeout(l)
               \/ Deliver \/ Administer \/ Crash \/ UNCHANGED vars
        PROVE  assignments' = assignments
    BY <2>4 DEF Capture, BeginTimeout, Deliver, DeliverAssignment, DeliveryFails,
       Administer, SetLeadType, PauseOrder, ResumeOrder, WriteOrderStatus, Crash,
       vars, dbVars
  <2> QED
    BY <1>1, <2>1, <2>2, <2>3, <2>4 DEF Next, Step
<1>2. DistributionInv /\ [Next]_vars => [Open]_vars
  BY <1>1
<1> QED
  BY <1>2, DistributionIsCorrect, PTL DEF Spec, OnlyOpenOrdersReceive
-----------------------------------------------------------------------------
\* The delivery worker handles the events of assignments that were committed.
DeliveryInv == LeadStateMatchesDelivery /\ assignedEvents \subseteq assignments

\* The lead of a committed assignment has a fresh buyer: it is ASSIGNED rightly.
LEMMA AssignAllDelivery ==
    ASSUME DistributionInv, DeliveryInv, NEW l \in Leads, NEW S \in SUBSET Orders,
           S \cap Buyers(l) = {}, AssignAll(l, S), delivered' = delivered,
           \A k \in Leads \ {l} : leadState'[k] = leadState[k],
           leadState'[l] = IF S # {} THEN "ASSIGNED" ELSE "UNSOLD_POOL"
    PROVE  DeliveryInv'
<1>1. assignedEvents' \subseteq assignments' /\ delivered' \subseteq assignments'
  BY DEF AssignAll, DeliveryInv, LeadStateMatchesDelivery
<1>2. \A k \in Leads \ {l} : Buyers(k)' = Buyers(k)
  BY DEF AssignAll, Buyers
<1>3. leadState'[l] = "ASSIGNED" => \E o \in Buyers(l)' : <<l, o>> \notin delivered'
  BY DEF AssignAll, Buyers, DeliveryInv, LeadStateMatchesDelivery
<1> QED
  BY <1>1, <1>2, <1>3 DEF DeliveryInv, LeadStateMatchesDelivery

LEMMA NextDelivery == DistributionInv /\ DeliveryInv /\ [Next]_vars => DeliveryInv'
<1> SUFFICES ASSUME DistributionInv, DeliveryInv, [Next]_vars PROVE DeliveryInv'
  OBVIOUS
<1>1. ASSUME NEW w \in Workers, CommitAuto(w) PROVE DeliveryInv'
  <2> DEFINE l == tx[w].lead
             filled == {o \in tx[w].targets : CanReceive(o)}
  <2>1. l \in Leads /\ Buyers(l) = {} /\ filled \in SUBSET Orders
    BY <1>1, AtCommit DEF CommitAuto
  <2>2. /\ AssignAll(l, filled) /\ delivered' = delivered
        /\ \A k \in Leads \ {l} : leadState'[k] = leadState[k]
        /\ leadState'[l] = IF filled # {} THEN "ASSIGNED" ELSE "UNSOLD_POOL"
    BY <1>1, <2>1 DEF CommitAuto, DistributionInv, TypeOK
  <2> QED
    BY <2>1, <2>2, AssignAllDelivery
<1>2. ASSUME NEW w \in Workers, CommitManual(w) PROVE DeliveryInv'
  <2> DEFINE l == tx[w].lead
             S == tx[w].targets
  <2>1. l \in Leads /\ S \in SUBSET Orders /\ S # {}
    BY <1>2, AtCommit DEF CommitManual
  <2>2. CASE \A o \in S : ManualAllowed(l, o)
    <3>1. /\ AssignAll(l, S) /\ delivered' = delivered
          /\ \A k \in Leads \ {l} : leadState'[k] = leadState[k]
          /\ leadState'[l] = "ASSIGNED"
      BY <1>2, <2>1, <2>2 DEF CommitManual, DistributionInv, TypeOK
    <3>2. S \cap Buyers(l) = {}
      BY <2>2 DEF ManualAllowed
    <3> QED
      BY <2>1, <3>1, <3>2, AssignAllDelivery
  <2>3. CASE \E o \in S : ~ManualAllowed(l, o)
    BY <1>2, <2>3 DEF CommitManual, DeliveryInv, LeadStateMatchesDelivery, Buyers
  <2> QED
    BY <2>2, <2>3
<1>3. ASSUME NEW l \in Leads, NEW o \in Orders, DeliverAssignment(l, o) PROVE DeliveryInv'
  <2>1. <<l, o>> \in assignments /\ assignments' = assignments
    BY <1>3 DEF DeliverAssignment, DeliveryInv
  <2>2. /\ delivered' = delivered \cup {<<l, o>>} /\ assignedEvents' \subseteq assignedEvents
        /\ \A k \in Leads \ {l} : leadState'[k] = leadState[k]
        /\ leadState'[l] # "ASSIGNED"
    BY <1>3 DEF DeliverAssignment, DistributionInv, TypeOK
  <2>3. \A k \in Leads : Buyers(k)' = Buyers(k)
    BY <2>1 DEF Buyers
  <2>4. o \in Buyers(l)
    BY <2>1 DEF Buyers
  <2> QED
    BY <2>1, <2>2, <2>3, <2>4 DEF DeliveryInv, LeadStateMatchesDelivery
<1>4. ASSUME NEW w \in Workers, Match(w) PROVE DeliveryInv'
  BY <1>4 DEF Match, DistributionInv, TypeOK, DeliveryInv, LeadStateMatchesDelivery, Buyers
<1>5. ASSUME NEW l \in Leads, Capture(l) PROVE DeliveryInv'
  BY <1>5 DEF Capture, DistributionInv, TypeOK, DeliveryInv, LeadStateMatchesDelivery, Buyers
<1>6. ASSUME \/ \E w \in Workers : LockLead(w) \/ LockOrder(w) \/ Request(w) \/ Timeout(w)
             \/ \E l \in Leads : BeginTimeout(l)
             \/ \E l \in Leads, o \in Orders : DeliveryFails(l, o)
             \/ Administer \/ Crash \/ UNCHANGED vars
      PROVE  DeliveryInv'
  <2>1. /\ UNCHANGED <<leadState, assignments, delivered>>
        /\ assignedEvents' \subseteq assignedEvents
    BY <1>6 DEF LockLead, LockOrder, Request, OnLeadValid, Redistribute, ManualAssign,
       Timeout, BeginTimeout, DeliveryFails, Administer, SetLeadType, PauseOrder,
       ResumeOrder, WriteOrderStatus, Crash, vars, dbVars
  <2> QED
    BY <2>1 DEF DeliveryInv, LeadStateMatchesDelivery, Buyers
<1> QED
  BY <1>1, <1>2, <1>3, <1>4, <1>5, <1>6 DEF Next, Step, Deliver

\* Booked deliveries are assignments, and the state of a lead agrees with them.
THEOREM DeliveriesMatch == Spec => []LeadStateMatchesDelivery
<1>1. Init => DeliveryInv
  BY DEF Init, DeliveryInv, LeadStateMatchesDelivery
<1>2. DeliveryInv => LeadStateMatchesDelivery
  BY DEF DeliveryInv
<1> QED
  BY <1>1, <1>2, NextDelivery, DistributionIsCorrect, PTL DEF Spec
-----------------------------------------------------------------------------
\* A VALID lead is looked after: its event is pending, its match in progress, or
\* it is one of those given up.
LookedAfter(l) ==
    \/ l \in validEvents \cup stranded
    \/ \E w \in Workers : tx[w].op = "auto" /\ tx[w].lead = l

\* A step of worker w that lets go of no event and of no lead but its own.
LEMMA StaysLookedAfter ==
    ASSUME NEW l \in Leads, LookedAfter(l), NEW w \in Workers,
           \A v \in Workers \ {w} : tx'[v] = tx[v],
           l \in validEvents \cup stranded => LookedAfter(l)',
           tx[w].op = "auto" /\ tx[w].lead = l => LookedAfter(l)'
    PROVE  LookedAfter(l)'
<1>1. CASE l \in validEvents \cup stranded \/ (tx[w].op = "auto" /\ tx[w].lead = l)
  BY <1>1
<1>2. ASSUME NEW v \in Workers \ {w}, tx[v].op = "auto" /\ tx[v].lead = l
      PROVE  LookedAfter(l)'
  BY <1>2 DEF LookedAfter
<1> QED
  BY <1>1, <1>2 DEF LookedAfter

LEMMA NextForgetsNoLead ==
    ASSUME DistributionInv, [Next]_vars, NEW l \in Leads,
           leadState[l] = "VALID" => LookedAfter(l), leadState'[l] = "VALID"
    PROVE  LookedAfter(l)'
<1>1. \A w \in Workers : tx[w] \in Transaction /\ Coherent(tx[w])
  BY DEF DistributionInv, TypeOK, TransactionsAreCoherent
<1>2. ASSUME NEW w \in Workers, Request(w) PROVE LookedAfter(l)'
  <2> DEFINE Begun(k, op, T) ==
               /\ Begin(w, op, k, T)
               /\ \/ validEvents' = validEvents
                  \/ op = "auto" /\ validEvents' = validEvents \ {k}
               /\ UNCHANGED <<leadState, stranded>>
  <2>1. PICK k \in Leads, op \in {"auto", "manual"}, T \in SUBSET Orders : Begun(k, op, T)
    <3>1. ASSUME NEW k \in Leads, OnLeadValid(w, k) PROVE Begun(k, "auto", {})
      BY <3>1 DEF OnLeadValid, dbVars
    <3>2. ASSUME NEW k \in AdminLeads, Redistribute(w, k) PROVE Begun(k, "auto", {})
      BY <3>2 DEF Redistribute, dbVars
    <3>3. ASSUME NEW k \in AdminLeads, NEW o \in Orders, ManualAssign(w, k, o)
          PROVE  Begun(k, "manual", {o})
      BY <3>3 DEF ManualAssign, dbVars
    <3>4. AdminLeads \subseteq Leads /\ {} \in SUBSET Orders
          /\ \A o \in Orders : {o} \in SUBSET Orders
      OBVIOUS
    <3> HIDE DEF Begun
    <3> QED
      BY <1>2, <3>1, <3>2, <3>3, <3>4 DEF Request
  <2>2. tx'[w].op = op /\ tx'[w].lead = k /\ \A v \in Workers \ {w} : tx'[v] = tx[v]
    BY <2>1 DEF Begin, DistributionInv, TypeOK
  <2>3. tx[w].op # "auto"
    BY <1>1, <2>1 DEF Begin, Coherent
  <2>4. l \in validEvents \cup stranded => LookedAfter(l)'
    BY <2>1, <2>2 DEF LookedAfter
  <2> QED
    BY <2>1, <2>2, <2>3, <2>4, StaysLookedAfter
<1>3. ASSUME NEW w \in Workers, LockLead(w) \/ Match(w) \/ LockOrder(w) \/ Timeout(w)
      PROVE  LookedAfter(l)'
  <2>1. leadState[l] = "VALID" /\ validEvents' = validEvents
    BY <1>1, <1>3 DEF DistributionInv, TypeOK, LockLead, Match, LockOrder, Timeout,
       dbVars, Coherent
  <2>2. \A v \in Workers \ {w} : tx'[v] = tx[v]
    BY <1>3 DEF DistributionInv, TypeOK, LockLead, Match, LockOrder, Timeout, End
  <2>3. l \in stranded => l \in stranded'
    BY <1>1, <1>3 DEF DistributionInv, TypeOK, LockLead, Match, LockOrder, Timeout,
       dbVars, Coherent
  <2>4. ASSUME tx[w].op = "auto", tx[w].lead = l
        PROVE  l \in stranded' \/ (tx'[w].op = "auto" /\ tx'[w].lead = l)
    <3>1. CASE LockLead(w)
      BY <1>1, <2>1, <2>4, <3>1 DEF LockLead, Redistributable, Transaction,
         DistributionInv, TypeOK
    <3>2. CASE Match(w)
      BY <1>1, <2>1, <2>4, <3>2 DEF Match, Transaction, DistributionInv, TypeOK
    <3>3. CASE LockOrder(w)
      BY <1>1, <2>4, <3>3 DEF LockOrder, Transaction, DistributionInv, TypeOK
    <3>4. CASE Timeout(w)
      BY <2>1, <2>4, <3>4 DEF Timeout, GivenUp
    <3> QED
      BY <1>3, <3>1, <3>2, <3>3, <3>4
  <2> QED
    BY <2>1, <2>2, <2>3, <2>4, StaysLookedAfter DEF LookedAfter
<1>4. ASSUME NEW w \in Workers, CommitAuto(w) \/ CommitManual(w) PROVE LookedAfter(l)'
  <2>1. /\ leadState[l] = "VALID" /\ validEvents' = validEvents
        /\ l \in stranded => l \in stranded'
        /\ tx[w].lead = l => tx[w].op # "auto"
    BY <1>4, AtCommit DEF DistributionInv, TypeOK, CommitAuto, CommitManual
  <2>2. \A v \in Workers \ {w} : tx'[v] = tx[v]
    BY <1>4 DEF DistributionInv, TypeOK, CommitAuto, CommitManual, End
  <2> QED
    BY <2>1, <2>2, StaysLookedAfter DEF LookedAfter
<1>5. ASSUME NEW k \in Leads, Capture(k) \/ BeginTimeout(k) PROVE LookedAfter(l)'
  BY <1>5 DEF Capture, BeginTimeout, DistributionInv, TypeOK, LookedAfter, dbVars
<1>6. CASE Crash
  BY <1>6 DEF Crash, LookedAfter, dbVars
<1>7. ASSUME \/ \E k \in Leads, o \in Orders : DeliverAssignment(k, o) \/ DeliveryFails(k, o)
             \/ Administer \/ UNCHANGED vars
      PROVE  LookedAfter(l)'
  <2>1. leadState[l] = "VALID"
    BY <1>7 DEF DeliverAssignment, DeliveryFails, Administer, SetLeadType, PauseOrder,
       ResumeOrder, WriteOrderStatus, vars, dbVars, DistributionInv, TypeOK
  <2>2. UNCHANGED <<tx, validEvents, stranded>>
    BY <1>7 DEF DeliverAssignment, DeliveryFails, Administer, SetLeadType, PauseOrder,
       ResumeOrder, WriteOrderStatus, vars
  <2> QED
    BY <2>1, <2>2 DEF LookedAfter
<1> QED
  BY <1>2, <1>3, <1>4, <1>5, <1>6, <1>7 DEF Next, Step, Deliver

\* No path but a hold, a timeout or a crash drops a lead nobody decided about.
THEOREM LeadsAreNotForgotten == Spec => []NoLeadForgotten
<1>1. Init => NoLeadForgotten
  BY DEF Init, NoLeadForgotten
<1>2. DistributionInv /\ NoLeadForgotten /\ [Next]_vars => NoLeadForgotten'
  BY NextForgetsNoLead DEF NoLeadForgotten, LookedAfter
<1> QED
  BY <1>1, <1>2, DistributionIsCorrect, PTL DEF Spec
-----------------------------------------------------------------------------
\* Priority and payment time order the orders strictly.
LEMMA BeforeIsStrict ==
    /\ \A o \in Orders : ~Before(o, o)
    /\ \A o, p, q \in Orders : Before(o, p) /\ Before(p, q) => Before(o, q)
    /\ \A o, p \in Orders : o # p => Before(o, p) \/ Before(p, o)
<1>1. \A o \in Orders : QueuePriority[o] \in Nat /\ PaidAt[o] \in Nat
  OBVIOUS
<1>2. \A o \in Orders : ~Before(o, o)
  BY <1>1 DEF Before
<1>3. ASSUME NEW o \in Orders, NEW p \in Orders, NEW q \in Orders, Before(o, p), Before(p, q)
      PROVE  Before(o, q)
  BY <1>1, <1>3 DEF Before
<1>4. \A o, p \in Orders : o # p => Before(o, p) \/ Before(p, o)
  OBVIOUS
<1> QED
  BY <1>2, <1>3, <1>4

\* Every set of sets of orders has a member that contains no other one.
LEMMA SmallestSet ==
    ASSUME NEW C \in SUBSET SUBSET Orders, C # {}
    PROVE  \E S \in C : \A U \in C : U \subseteq S => U = S
<1>1. C \subseteq FiniteSubsetsOf(Orders)
  BY FS_FiniteSubsetsOfFinite
<1>2. PICK S \in C : \A U \in C : <<U, S>> \notin StrictSubsetOrdering(Orders)
  BY <1>1, FS_StrictSubsetOrderingWellFounded, WFMin
<1>3. ASSUME NEW U \in C, U \subseteq S, U # S PROVE FALSE
  <2>1. <<U, S>> \in (SUBSET Orders) \X (SUBSET Orders)
    OBVIOUS
  <2>2. <<U, S>> \in StrictSubsetOrdering(Orders)
    BY <1>3, <2>1 DEF StrictSubsetOrdering
  <2> QED
    BY <1>2, <2>2
<1> QED
  BY <1>3

\* A set of orders has exactly one order that is served before the others.
LEMMA OneFirst ==
    ASSUME NEW E \in SUBSET Orders, E # {}
    PROVE  \E f \in E : First(E) = {f}
<1> DEFINE Ahead(o) == {p \in E : Before(p, o)}
<1>1. PICK f \in E : \A o \in E : Ahead(o) \subseteq Ahead(f) => Ahead(o) = Ahead(f)
  <2> DEFINE C == {Ahead(o) : o \in E}
  <2>1. C \in SUBSET SUBSET Orders /\ C # {}
    <3>1. \A o \in E : Ahead(o) \in SUBSET Orders
      OBVIOUS
    <3> HIDE DEF Ahead
    <3> PICK o \in E : TRUE
      OBVIOUS
    <3>2. Ahead(o) \in C
      OBVIOUS
    <3> QED
      BY <3>1, <3>2
  <2>2. PICK S \in C : \A U \in C : U \subseteq S => U = S
    <3> HIDE DEF C
    <3> QED
      BY <2>1, SmallestSet
  <2> HIDE DEF Ahead
  <2>3. PICK f \in E : S = Ahead(f)
    OBVIOUS
  <2>4. \A o \in E : Ahead(o) \in C
    OBVIOUS
  <2> QED
    BY <2>2, <2>3, <2>4
<1>2. Ahead(f) = {}
  <2> SUFFICES ASSUME NEW p \in Ahead(f) PROVE FALSE
    OBVIOUS
  <2>1. Ahead(p) \subseteq Ahead(f) /\ p \notin Ahead(p)
    BY BeforeIsStrict
  <2> QED
    BY <1>1, <2>1
<1>3. f \in First(E)
  BY <1>2, BeforeIsStrict DEF First
<1>4. ASSUME NEW o \in First(E), o # f PROVE FALSE
  <2>1. o \in E /\ f \in E /\ Before(o, f) /\ Before(f, o)
    BY <1>3, <1>4 DEF First
  <2> QED
    BY <2>1, BeforeIsStrict
<1>5. First(E) = {f}
  BY <1>3, <1>4 DEF First
<1> QED
  BY <1>5

\* A set of orders that are served before the others of S.
Leading(T, S) == T \subseteq S /\ \A o \in T, p \in S \ T : Before(o, p)

\* Of two leading sets one contains the other.
LEMMA LeadingSetsAreNested ==
    ASSUME NEW S \in SUBSET Orders, NEW T, NEW U, Leading(T, S), Leading(U, S)
    PROVE  T \subseteq U \/ U \subseteq T
<1> SUFFICES ASSUME NEW t \in T \ U, NEW u \in U \ T PROVE FALSE
  OBVIOUS
<1>1. Before(t, u) /\ Before(u, t) /\ t \in Orders /\ u \in Orders
  BY DEF Leading
<1> QED
  BY <1>1, BeforeIsStrict

\* The first MaxShared orders of a set, or all of them if there are fewer.
Leaders(T, S) ==
    /\ Leading(T, S)
    /\ Cardinality(T) <= MaxShared
    /\ T # S => Cardinality(T) = MaxShared

LEMMA LeadersExist ==
    ASSUME NEW S \in SUBSET Orders
    PROVE  \E T \in SUBSET S : Leaders(T, S)
<1> DEFINE Led == {T \in SUBSET S : Leading(T, S) /\ Cardinality(T) <= MaxShared}
           C == {S \ T : T \in Led}
<1>1. C \in SUBSET SUBSET Orders
  <2>1. \A T : S \ T \in SUBSET Orders
    OBVIOUS
  <2> HIDE DEF Led
  <2> QED
    BY <2>1
<1>2. S \in C
  <2>1. Leading({}, S) /\ Cardinality({}) <= MaxShared /\ S \ {} = S
    BY FS_EmptySet DEF Leading
  <2> QED
    BY <2>1
<1>3. PICK R \in C : \A U \in C : U \subseteq R => U = R
  <2> HIDE DEF C
  <2> QED
    BY <1>1, <1>2, SmallestSet
<1>4. PICK T \in SUBSET S : R = S \ T /\ Leading(T, S) /\ Cardinality(T) <= MaxShared
  OBVIOUS
<1>5. ASSUME T # S, Cardinality(T) # MaxShared PROVE FALSE
  <2>1. R # {} /\ R \in SUBSET Orders
    BY <1>4, <1>5
  <2>2. PICK f \in R : First(R) = {f}
    BY <2>1, OneFirst
  <2>3. Leading(T \cup {f}, S)
    BY <1>4, <2>2 DEF Leading, First
  <2>4. IsFiniteSet(T) /\ Cardinality(T) \in Nat /\ f \notin T
    BY <1>4, FS_Subset, FS_CardinalityType
  <2>5. Cardinality(T \cup {f}) = Cardinality(T) + 1
    BY <2>4, FS_AddElement
  <2>6. Cardinality(T \cup {f}) <= MaxShared
    BY <1>4, <1>5, <2>4, <2>5
  <2>7. T \cup {f} \in SUBSET S
    BY <1>4
  <2>8. S \ (T \cup {f}) \in C
    BY <2>3, <2>6, <2>7
  <2>9. S \ (T \cup {f}) \subseteq R /\ S \ (T \cup {f}) # R
    BY <1>4
  <2> HIDE DEF C
  <2> QED
    BY <1>3, <2>8, <2>9
<1> QED
  BY <1>4, <1>5 DEF Leaders

LEMMA LeadersAreUnique ==
    ASSUME NEW S \in SUBSET Orders, NEW T, NEW U, Leaders(T, S), Leaders(U, S)
    PROVE  T = U
<1>1. ASSUME NEW V, NEW W, Leaders(V, S), Leaders(W, S), V \subseteq W, V # W PROVE FALSE
  <2>1. IsFiniteSet(W) /\ V # S
    BY <1>1, FS_Subset DEF Leaders, Leading
  <2>2. /\ Cardinality(V) \in Nat /\ Cardinality(W) \in Nat
        /\ Cardinality(V) < Cardinality(W)
    BY <1>1, <2>1, FS_Subset, FS_CardinalityType
  <2> QED
    BY <1>1, <2>1, <2>2 DEF Leaders
<1>2. T \subseteq U \/ U \subseteq T
  BY LeadingSetsAreNested DEF Leaders
<1> QED
  BY <1>1, <1>2

\* The match settles on one set of targets, whichever orders are eligible: it
\* never lacks a choice and never depends on the order the database returns
\* rows in, so two matches that read the same orders lock the same rows.
THEOREM TargetsAreDetermined ==
    ASSUME NEW E \in SUBSET Orders, E # {}
    PROVE  \E T \in SUBSET E : T # {} /\ TargetSets(E) = {T}
<1>1. PICK f \in E : First(E) = {f}
  BY OneFirst
<1>2. CASE f \notin Shared(E)
  <2>1. TargetSets(E) = {{f}}
    BY <1>1, <1>2 DEF TargetSets
  <2> QED
    BY <2>1
<1>3. CASE f \in Shared(E)
  <2>1. Shared(E) \in SUBSET Orders
    BY DEF Shared
  <2>2. PICK T \in SUBSET Shared(E) : Leaders(T, Shared(E))
    BY <2>1, LeadersExist
  <2>3. \A U \in SUBSET Shared(E) : Leaders(U, Shared(E)) => U = T
    BY <2>1, <2>2, LeadersAreUnique
  <2>4. TargetSets(E) = {U \in SUBSET Shared(E) : Leaders(U, Shared(E))}
    BY <1>1, <1>3 DEF TargetSets, Leaders, Leading
  <2>5. TargetSets(E) = {T}
    BY <2>2, <2>3, <2>4
  <2>6. T # {}
    BY <1>3, <2>2, FS_EmptySet DEF Leaders
  <2> QED
    BY <2>5, <2>6 DEF Shared
<1> QED
  BY <1>2, <1>3
-----------------------------------------------------------------------------
\* How far a transaction is from its end: the lead row, the match, then the
\* target orders it has not locked yet.
Distance(t) ==
    CASE t.phase = "idle" -> 0
      [] t.phase = "order" -> Cardinality(t.targets \ t.orderLocks) + 1
      [] t.phase = "match" -> Cardinality(Orders) + 2
      [] t.phase = "lead" -> Cardinality(Orders) + 3

LEMMA DistanceBounds ==
    ASSUME NEW t \in Transaction
    PROVE  /\ Distance(t) \in Nat
           /\ t.phase # "idle" => Distance(t) > 0
           /\ t.phase = "idle" => Distance(t) = 0
           /\ t.phase = "order" => Distance(t) <= Cardinality(Orders) + 1
           /\ t.phase = "match" => Distance(t) = Cardinality(Orders) + 2
           /\ t.phase = "lead" => Distance(t) = Cardinality(Orders) + 3
<1>1. t.targets \ t.orderLocks \in SUBSET Orders
  BY DEF Transaction
<1>2. /\ Cardinality(t.targets \ t.orderLocks) \in Nat /\ Cardinality(Orders) \in Nat
      /\ Cardinality(t.targets \ t.orderLocks) <= Cardinality(Orders)
  BY <1>1, FS_Subset, FS_CardinalityType
<1>3. t.phase \in {"idle", "lead", "match", "order"}
  BY DEF Transaction, Phases
<1> QED
  BY <1>2, <1>3 DEF Distance

\* Every step of a transaction brings it nearer to its end, so that it has a
\* bounded number of them left: the orders it locks, a lead and a match.
TransactionsGoForward ==
    [][\A w \in Workers : tx[w].phase # "idle" =>
          tx'[w] = tx[w] \/ Distance(tx'[w]) < Distance(tx[w])]_vars

\* The transactions other than w stay as they are, and w goes forward or begins.
LEMMA StepGoesForward ==
    ASSUME DistributionInv, DistributionInv', NEW w \in Workers,
           LockLead(w) \/ Match(w) \/ LockOrder(w) \/ CommitAuto(w) \/ CommitManual(w)
              \/ Timeout(w)
    PROVE  /\ \A v \in Workers \ {w} : tx'[v] = tx[v]
           /\ tx[w].phase # "idle" => Distance(tx'[w]) < Distance(tx[w])
<1>1. /\ tx[w] \in Transaction /\ tx'[w] \in Transaction /\ Coherent(tx[w])
      /\ Cardinality(Orders) \in Nat
  BY FS_CardinalityType DEF DistributionInv, TypeOK, TransactionsAreCoherent
<1>2. CASE End(w)
  <2>1. (\A v \in Workers \ {w} : tx'[v] = tx[v]) /\ tx'[w].phase = "idle"
    BY <1>2 DEF End, Idle, DistributionInv, TypeOK
  <2> QED
    BY <1>1, <2>1, DistanceBounds
<1>3. CASE LockLead(w) /\ ~End(w)
  <2>1. /\ \A v \in Workers \ {w} : tx'[v] = tx[v]
        /\ tx[w].phase = "lead" /\ tx'[w].phase \in {"match", "order"}
    BY <1>1, <1>3 DEF LockLead, DistributionInv, TypeOK, Transaction
  <2> QED
    BY <1>1, <2>1, DistanceBounds
<1>4. CASE Match(w) /\ ~End(w)
  <2>1. /\ \A v \in Workers \ {w} : tx'[v] = tx[v]
        /\ tx[w].phase = "match" /\ tx'[w].phase = "order"
    BY <1>1, <1>4 DEF Match, DistributionInv, TypeOK, Transaction
  <2> QED
    BY <1>1, <2>1, DistanceBounds
<1>5. CASE LockOrder(w)
  <2>1. PICK o \in NextLocks(tx[w].targets, tx[w].orderLocks) :
             tx' = [tx EXCEPT ![w].orderLocks = @ \cup {o}]
    BY <1>5 DEF LockOrder
  <2> DEFINE left == tx[w].targets \ tx[w].orderLocks
  <2>2. /\ \A v \in Workers \ {w} : tx'[v] = tx[v]
        /\ tx[w].phase = "order" /\ tx'[w].phase = "order"
        /\ tx'[w].targets \ tx'[w].orderLocks = left \ {o}
    BY <1>1, <1>5, <2>1 DEF LockOrder, DistributionInv, TypeOK, Transaction
  <2>3. o \in left /\ left \in SUBSET Orders
    BY <1>1, <2>1 DEF NextLocks, Transaction
  <2>4. IsFiniteSet(left)
    BY <2>3, FS_Subset
  <2>5. Cardinality(left \ {o}) = Cardinality(left) - 1 /\ Cardinality(left) \in Nat
    <3>1. o \in left
      BY <2>3
    <3> HIDE DEF left
    <3> QED
      BY <2>4, <3>1, FS_RemoveElement, FS_CardinalityType
  <2>6. Distance(tx[w]) = Cardinality(left) + 1 /\ Distance(tx'[w]) = Cardinality(left \ {o}) + 1
    BY <2>2 DEF Distance
  <2> QED
    BY <2>2, <2>5, <2>6
<1> QED
  BY <1>2, <1>3, <1>4, <1>5 DEF CommitAuto, CommitManual, Timeout

\* The safe half of EveryTransactionEnds: no transaction starts over or locks a
\* row twice, whatever fails around it.
THEOREM TransactionsComeNearerTheirEnd == Spec => TransactionsGoForward
<1> DEFINE Forward == \A w \in Workers : tx[w].phase # "idle" =>
                         tx'[w] = tx[w] \/ Distance(tx'[w]) < Distance(tx[w])
<1>1. ASSUME DistributionInv, DistributionInv', [Next]_vars PROVE Forward
  <2>1. ASSUME NEW w \in Workers, Step(w) \/ Timeout(w) PROVE Forward
    BY <1>1, <2>1, StepGoesForward DEF Step
  <2>2. ASSUME NEW w \in Workers, Request(w) PROVE Forward
    BY <1>1, <2>2 DEF Request, OnLeadValid, Redistribute, ManualAssign, Begin,
       DistributionInv, TypeOK
  <2>3. CASE Crash
    <3>1. \A w \in Workers : /\ tx[w] \in Transaction /\ tx'[w] \in Transaction
                             /\ tx'[w].phase = "idle"
      BY <1>1, <2>3 DEF Crash, Idle, DistributionInv, TypeOK
    <3> QED
      BY <3>1, DistanceBounds
  <2>4. ASSUME \/ \E l \in Leads : Capture(l) \/ BeginTimeout(l)
               \/ Deliver \/ Administer \/ UNCHANGED vars
        PROVE  tx' = tx
    BY <2>4 DEF Capture, BeginTimeout, Deliver, DeliverAssignment, DeliveryFails,
       Administer, SetLeadType, PauseOrder, ResumeOrder, WriteOrderStatus, vars
  <2> QED
    BY <1>1, <2>1, <2>2, <2>3, <2>4 DEF Next
<1>2. DistributionInv /\ DistributionInv' /\ [Next]_vars => [Forward]_vars
  BY <1>1
<1> QED
  BY <1>2, DistributionIsCorrect, PTL DEF Spec, TransactionsGoForward
-----------------------------------------------------------------------------
\* With more connections than transactions, whenever some run there is one among
\* them that waits for nothing: no row and no connection blocks all of them.
SomeoneCanGoOn ==
    LET Running == {w \in Workers : tx[w].phase # "idle"} IN
    Running # {} => \E w \in Running : ~Waiting(w)

\* isBlocked asks for a second connection: a pool with one to spare is what
\* keeps the transactions from blocking one another (EveryLeadSettles is
\* refuted with a pool that has none).
THEOREM PoolsWithASpareNeverBlock ==
    ASSUME Cardinality(Workers) < PoolSize
    PROVE  Spec => []SomeoneCanGoOn
<1>1. ASSUME DistributionInv PROVE SomeoneCanGoOn
  <2> DEFINE Running == {w \in Workers : tx[w].phase # "idle"}
  <2> SUFFICES ASSUME Running # {} PROVE \E w \in Running : ~Waiting(w)
    BY DEF SomeoneCanGoOn
  <2>1. PICK v \in Running : \A w \in Running \ {v} : ~WaitsFor(v, w)
    <3>1. Running \in (SUBSET Workers) \ {{}}
      OBVIOUS
    <3> HIDE DEF Running
    <3> QED
      BY <1>1, <3>1, NoCycle DEF NoLockCycle
  <2>2. \A w \in Workers \ Running : tx[w].leadLocks = {} /\ tx[w].orderLocks = {}
    BY <1>1 DEF DistributionInv, TransactionsAreCoherent, Coherent
  <2>3. tx[v].phase = "lead" => tx[v].leadLocks = {}
    BY <1>1 DEF DistributionInv, TransactionsAreCoherent, Coherent
  <2>4. \A w \in Workers \ {v} : ~WaitsFor(v, w)
    BY <2>1, <2>2 DEF WaitsFor
  <2>5. tx[v].phase = "lead" => LeadIsFree(tx[v].lead)
    BY <2>3, <2>4 DEF LeadIsFree, WaitsFor
  <2>6. ConnectionIsFree
    <3>1. Running \subseteq Workers
      OBVIOUS
    <3>2. /\ Cardinality(Running) <= Cardinality(Workers)
          /\ Cardinality(Running) \in Nat /\ Cardinality(Workers) \in Nat
      BY <3>1, FS_Subset, FS_CardinalityType
    <3> QED
      BY <3>2 DEF ConnectionIsFree
  <2>7. tx[v].phase = "order" =>
           \A o \in NextLocks(tx[v].targets, tx[v].orderLocks) : OrderIsFree(o)
    BY <2>4 DEF OrderIsFree, WaitsFor, NextLocks
  <2> QED
    BY <2>5, <2>6, <2>7 DEF Waiting
<1> QED
  BY <1>1, DistributionIsCorrect, PTL
-----------------------------------------------------------------------------
\* An order that no administrator pauses is COMPLETED as soon as it has received
\* all its leads: DrainedOrderIsCompleted fails only through the late write of a
\* pause or of the resume after it.
DrainedUnlessPaused ==
    \A o \in Orders \ PausedOrders :
        quantityRemaining[o] = 0 => orderStatus[o] = "COMPLETED"

NeverPausedInv ==
    DrainedUnlessPaused /\ \A o \in Orders \ PausedOrders : statusWrite[o] = "none"

\* Every sale sets the status of the order along with what it has left.
LEMMA AssignAllDrains ==
    ASSUME DistributionInv, NeverPausedInv, NEW l, NEW S \in SUBSET Orders, AssignAll(l, S),
           statusWrite' = statusWrite, \A o \in S : CanReceive(o)
    PROVE  NeverPausedInv'
<1> SUFFICES ASSUME NEW o \in Orders \ PausedOrders, quantityRemaining'[o] = 0
             PROVE  orderStatus'[o] = "COMPLETED"
  BY DEF NeverPausedInv, DrainedUnlessPaused
<1>1. CASE o \in S
  <2>1. quantityRemaining[o] \in Nat /\ quantityRemaining'[o] = quantityRemaining[o] - 1
    BY <1>1 DEF AssignAll, DistributionInv, TypeOK
  <2> QED
    BY <1>1, <2>1 DEF AssignAll
<1>2. CASE o \notin S
  BY <1>2 DEF AssignAll, NeverPausedInv, DrainedUnlessPaused
<1> QED
  BY <1>1, <1>2

\* Without a pause, an order that has its leads is COMPLETED.
THEOREM UnpausedOrdersComplete == Spec => []DrainedUnlessPaused
<1>1. Init => NeverPausedInv
  BY DEF Init, NeverPausedInv, DrainedUnlessPaused
<1>2. ASSUME DistributionInv, NeverPausedInv, [Next]_vars PROVE NeverPausedInv'
  <2>1. ASSUME NEW w \in Workers, CommitAuto(w) PROVE NeverPausedInv'
    <3> DEFINE filled == {o \in tx[w].targets : CanReceive(o)}
    <3>1. AssignAll(tx[w].lead, filled) /\ statusWrite' = statusWrite
      BY <2>1 DEF CommitAuto
    <3>2. filled \in SUBSET Orders
      BY <1>2 DEF DistributionInv, TypeOK, Transaction
    <3> QED
      BY <1>2, <3>1, <3>2, AssignAllDrains
  <2>2. ASSUME NEW w \in Workers, CommitManual(w) PROVE NeverPausedInv'
    <3>1. CASE \A o \in tx[w].targets : ManualAllowed(tx[w].lead, o)
      <4>1. AssignAll(tx[w].lead, tx[w].targets) /\ statusWrite' = statusWrite
        BY <2>2, <3>1 DEF CommitManual
      <4>2. tx[w].targets \in SUBSET Orders /\ \A o \in tx[w].targets : CanReceive(o)
        BY <1>2, <3>1 DEF DistributionInv, TypeOK, Transaction, ManualAllowed
      <4> QED
        BY <1>2, <4>1, <4>2, AssignAllDrains
    <3>2. CASE \E o \in tx[w].targets : ~ManualAllowed(tx[w].lead, o)
      BY <1>2, <2>2, <3>2 DEF CommitManual, NeverPausedInv, DrainedUnlessPaused
    <3> QED
      BY <3>1, <3>2
  <2>3. ASSUME NEW o \in PausedOrders, PauseOrder(o) \/ ResumeOrder(o) \/ WriteOrderStatus(o)
        PROVE  NeverPausedInv'
    <3>1. /\ quantityRemaining' = quantityRemaining
          /\ \A p \in Orders \ PausedOrders :
                orderStatus'[p] = orderStatus[p] /\ statusWrite'[p] = statusWrite[p]
      BY <1>2, <2>3 DEF PauseOrder, ResumeOrder, WriteOrderStatus, DistributionInv, TypeOK, dbVars
    <3> QED
      BY <1>2, <3>1 DEF NeverPausedInv, DrainedUnlessPaused
  <2>4. CASE Crash
    BY <1>2, <2>4 DEF Crash, dbVars, NeverPausedInv, DrainedUnlessPaused
  <2>5. ASSUME \/ \E w \in Workers : LockLead(w) \/ Match(w) \/ LockOrder(w) \/ Request(w)
                                        \/ Timeout(w)
               \/ \E l \in Leads : Capture(l) \/ BeginTimeout(l)
               \/ Deliver \/ \E t \in HeldTypes : SetLeadType(t)
               \/ UNCHANGED vars
        PROVE  NeverPausedInv'
    <3>1. UNCHANGED <<orderStatus, quantityRemaining, statusWrite>>
      BY <2>5 DEF LockLead, Match, LockOrder, Request, OnLeadValid, Redistribute,
         ManualAssign, Timeout, Capture, BeginTimeout, Deliver, DeliverAssignment,
         DeliveryFails, SetLeadType, vars, dbVars
    <3> QED
      BY <1>2, <3>1 DEF NeverPausedInv, DrainedUnlessPaused
  <2> QED
    BY <1>2, <2>1, <2>2, <2>3, <2>4, <2>5 DEF Next, Step, Administer
<1>3. NeverPausedInv => DrainedUnlessPaused
  BY DEF NeverPausedInv
<1> QED
  BY <1>1, <1>2, <1>3, DistributionIsCorrect, PTL DEF Spec
=============================================================================
