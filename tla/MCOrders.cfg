SPECIFICATION Spec
CONSTANTS
    Orders = {o1}
    Requests = {r1, r2, r3}
    NoOrder = NoOrder
    QuantityPaid <- TwoLeads
    Failures = TRUE
SYMMETRY Symmetry
INVARIANTS
    OnlyPaidOrdersAreServed
    SalesAreCovered
    InvoicesAreConsecutive
    InvoicesMatchCharges
CHECK_DEADLOCK FALSE
