SPECIFICATION PortalSpec
CONSTANTS
    k1 = k1
    k2 = k2
    n1 = n1
    n2 = n2
    Admins = {"admin"}
    Agents = {"agent"}
    SampleRequests = {"r1"}
    PoolLeads = {n1, n2}
    SampleType <- MCSampleType
    Quantity <- MCQuantity
    Columns = {"ca", "cb", "cc", "cd"}
    Tabs = {"A", "B"}
    FirstTab = "A"
    TypeOf <- MCTypeOf
    KeyOf <- MCKeyOf
    FirstColumns <- MCFirstColumns
    Editors = {"e1"}
    Jobs = {k1, k2}
    MaxCalls = 4
    ControlTypes = {"A", "B"}
    Changes <- MCChanges
    Toggles = {k1, k2}
    Sales = {n1, n2}
    Mounts = {k1, k2}
    DeskLeads = {"a", "b"}
    DeskType <- MCDeskType
    Lists = {"rows"}
    Fetches = {n1, n2}
    SheetRows = {n1, n2}
    SheetLeads = {"l"}
    LeadOf <- MCLeadOf
    FollowUps = {"NEW", "CALLED"}
    NotCalled = "NEW"
    Patches = {k1, k2}
    Entities = {n1, n2}
    Runs = {k1, k2}
    MaxActs = 2
    Entries = {1, 2, 3}
    AuditFilters = {"all", "some"}
    EmptyFilters = "all"
    Matching <- MCMatching
    PageSize = 1
    Queries = {k1, k2}
    Pages = {n1, n2}
    MaxTurns = 2
    Reloads = {k1, k2}
    Details = {"d1"}
    DeskOrders = {n1, n2}
    Actions = {k1, k2}
    MaxActions = 2
    People = {"p"}
    Files <- MCFiles
    Imports = {k1, k2}
    MaxUploads = 3
    Cells = {"a", "b"}
    Amounts = {0, 1}
    Unset = Unset
    FirstPrices <- MCFirstPrices
    Grids = {n1, n2}
    Saves = {k1, k2}
    MaxEdits = 2
    Common = {"phone"}
    StaffOnly = {"designation"}
    BuyerOnly = {}
    Texts = {"", "x"}
    Blank = ""
    Absent = Absent
    ProfileSaves = {k1, k2}
    MaxStrokes = 2
    Passwords = {n1, n2}
    NoPassword = NoPassword
    Attempts = {k1, k2}
    MaxTries = 4
SYMMETRY Symmetry
INVARIANTS
    UndisturbedRequestsAreServedOnce
    ShownOrderIsStored
    TogglesAreKept
    NothingMissedWhileLive
    OffersFitTheLeads
    FollowupShownIsStored
    ShownRowsAreStored
    TrailIsComplete
    DrawerFitsThePage
    NothingIsDecidedTwice
    ImportsCanBeRepeated
    OptOutsAreHonoured
    PricesAreKept
    FormShowsWhatIsStored
    KnownPasswordIsKept
PROPERTIES
    RemovedLeadsAreNotSampled
    OrderIsStable
    OnlyUnsoldLeadsAreOffered
    PriceTrailIsAChain
CHECK_DEADLOCK FALSE
