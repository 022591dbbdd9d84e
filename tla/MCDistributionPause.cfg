SPECIFICATION Spec
CONSTANTS
    Leads = {l1, l2}
    Orders = {1, 4}
    Workers = {w1, w2}
    NoLead = NoLead
    LeadTypes = {"SOLAR"}
    LeadType <- OneType
    OrderType <- OneOrderType
    MeetsCriteria <- EveryPair
    DeliveryMode <- OnlyFourthExclusive
    QueuePriority <- SamePriority
    PaidAt <- NewestFirst
    QuantityPaid <- TwoSlotsForFirst
    MaxShared = 1
    PoolSize = 2
    Crashes = FALSE
    AdminLeads = {l1, l2}
    PausedOrders = {1}
    HeldTypes = {}
INVARIANT DrainedOrderIsCompleted
