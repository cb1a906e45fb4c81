SPECIFICATION MCSpec
CONSTANTS
    Slices = {"slots", "plans", "money", "calendar"}
    MaxRes = 2
    Customers = {c1}
    Evidence = {e1, e2}
    Plans = {"house", "plan"}
    PlanSettings <- AllSettings
    FirstPlan <- HouseAndPlan
    Price <- Cheap
    Percent = 50
    Amounts = {1000, 2000}
    Slots = {2, 3, 4}
    DayLen = 2
    Checkout = 1
    Duration = 1
    LeadDays = 0
    Hours <- Day2
    BusySlots = {2}
    MaxNow = 3
    Handlers = {h1, h2, h3}
    Faults = {"crash", "calendar", "download"}
    NoRes = NoRes
    NoTime = NoTime
SYMMETRY Symmetry
CHECK_DEADLOCK FALSE
INVARIANTS
    RowAgreesWithReceipts
    NoDoubleBooking
    UnmovedNotOrphaned
PROPERTIES
    StatusFollowsMatrix
