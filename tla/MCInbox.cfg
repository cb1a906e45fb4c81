SPECIFICATION MCSpec
CONSTANTS
    Slices = {"turns", "order", "legacy"}
    Customers = {1, 2}
    Staff = {}
    Messages = {1, 2, 3, 4}
    Sender <- SenderOf
    Events = {1, 2, 3, 4}
    Payload <- Deliveries
    Legacy = {3}
    OldEvents = {4}
    Claimers = {w1, w2}
    Data = {0, 1}
    MaxAttempts = 2
    MaxCalls = 2
    MaxClaims = 2
    MaxEpoch = 1
CHECK_DEADLOCK FALSE
SYMMETRY Symmetry
INVARIANTS
    MessagesAccountedFor
    MutationsFenced
    ProcessedMeansDone
    ResetLeavesNothingRunning
PROPERTIES
    TurnsInOrder
