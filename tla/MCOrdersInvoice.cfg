SPECIFICATION Spec
CONSTANTS
    Orders = {o1, o2}
    Requests = {r1, r2}
    NoOrder = NoOrder
    QuantityPaid <- TwoLeads
    Failures = FALSE
SYMMETRY Symmetry
INVARIANT EveryAcceptIsInvoiced
CHECK_DEADLOCK FALSE
