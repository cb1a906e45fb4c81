SPECIFICATION MCSpec
CONSTANTS
    w1 = w1
    w2 = w2
    c1 = c1
    r1 = r1
    b1 = b1
    Slices = {"staff", "balance"}
    Loops = {w1, w2}
    ReminderLoops = {c1}
    Recipients = {r1}
    Events <- TwoEvents
    Reminders <- ReminderKeys
    Forms <- OnOff
    Templates = {"EVIDENCE_RECEIVED"}
    MaxAttempts = 2
    BatchSize = 2
    WindowLen = 1
    MaxAge = 1
    MaxNow = 8
    NoTime = NoTime
    Bookings = {b1}
    Starts = {5, 7}
    Price = 3
    Deposit = 1
    DayLen = 2
    ReminderTime = 0
    DaysBefore = 2
    Template = TRUE
SYMMETRY LoopSymmetry
CHECK_DEADLOCK FALSE
INVARIANTS
    NoticesAccountedFor
    OverdueMeansPastDue
PROPERTIES
    DeliveryNeverRegresses
