SPECIFICATION Spec
CONSTANTS
    Orders = {o1}
    Requests = {r1, r2}
    NoOrder = NoOrder
    QuantityPaid <- TwoLeads
    Failures = FALSE
SYMMETRY Symmetry
PROPERTY OnlyProofsAreAccepted
CHECK_DEADLOCK FALSE
