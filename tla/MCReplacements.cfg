SPECIFICATION Spec
CONSTANTS
    exclusive = exclusive
    shared = shared
    Leads = {l1, l2, l3}
    Orders = {exclusive, shared}
    Requests = {q1, q2}
    Workers = {w1, w2}
    None = None
    Client <- ClientOfEach
    DeliveryMode <- Modes
    QuantityPaid <- SingleSlots
    Controls = {"PAUSED", "FULFILLING"}
    MaxShared = 1
SYMMETRY Symmetry
INVARIANTS
    BalancesReconcile
    FreshLeadsAreFresh
    CompletedOrdersOweNothing
    NoDeadlockWithEngine
PROPERTIES
    ClosedOrdersReceiveOnlyReplacements
CHECK_DEADLOCK FALSE
