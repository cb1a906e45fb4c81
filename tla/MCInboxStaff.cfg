SPECIFICATION MCSpec
CONSTANTS
    Slices = {"whole"}
    Customers = {1, 2}
    Staff = {2}
    Messages = {1, 2}
    Sender <- CustomerAndStaff
    Events = {1}
    Payload <- AllMessages
    Legacy = {}
    OldEvents = {}
    Claimers = {w1}
    Data = {0}
    MaxAttempts = 2
    MaxCalls = 2
    MaxClaims = 2
    MaxEpoch = 1
CHECK_DEADLOCK FALSE
PROPERTIES
    CompletedJobsMeanProcessed
