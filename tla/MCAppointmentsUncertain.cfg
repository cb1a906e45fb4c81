SPECIFICATION MCSpec
CONSTANTS
    Slices = {"moves"}
    MaxVisits = 2
    Customers = {"ana", "beto"}
    Callers = {1, 2, 3}
    CustomerOf <- CallerCustomer
    Slots = {3, 4}
    DayLen = 1
    Notice = 3
    ReminderHour = 0
    StaffSlots = {4}
    ClosedDays = {3}
    MaxNow = 3
    Ops = {"CONFIRM", "RESCHEDULE", "CANCEL"}
    Faults = {"calendar"}
    NoVisit = NoVisit
    NoTime = NoTime
CHECK_DEADLOCK FALSE
INVARIANTS
    VisitIsInCalendar
