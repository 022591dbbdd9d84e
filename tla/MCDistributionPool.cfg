SPECIFICATION FairSpec
CONSTANTS
    Leads = {l1, l2}
    Orders = {1, 2}
    Workers = {w1, w2}
    NoLead = NoLead
    LeadTypes = {"SOLAR"}
    LeadType <- OneType
    OrderType <- OneOrderType
    MeetsCriteria <- EveryPair
    DeliveryMode <- OnlyFourthExclusive
    QueuePriority <- SamePriority
    PaidAt <- NewestFirst
    QuantityPaid <- SingleSlots
    MaxShared = 2
    PoolSize = 2
    Crashes = FALSE
    AdminLeads = {l1}
    PausedOrders = {}
    HeldTypes = {}
PROPERTY EveryLeadSettles
