SPECIFICATION Spec
CONSTANTS
    exclusive = exclusive
    shared = shared
    Leads = {l1, l2}
    Orders = {exclusive, shared}
    Requests = {q1}
    Workers = {w1, w2}
    None = None
    Client <- ClientOfEach
    DeliveryMode <- Modes
    QuantityPaid <- SingleSlots
    Controls = {"PAUSED", "FULFILLING"}
    MaxShared = 1
SYMMETRY Symmetry
INVARIANT
    CreditedOnce
CHECK_DEADLOCK FALSE
