SPECIFICATION MCSpec
CONSTANTS
    Slices = {"visit", "capture", "booking", "resume", "farewell"}
    Days = {1, 2}
    Slots = {1, 2}
    SelfService = TRUE
    LodgingPlan = 1
    BankData = TRUE
    Plans = {1, 2}
    Prices = {1, 2}
    MaxConversations = 2
    MaxBacklog = 2
    MaxReprices = 1
    Turns <- AllTurns
INVARIANTS
    PendingIsSound
    DoneAsShown
    ActsOnItsConfirmation
PROPERTIES
    RaisesOnlyWhereKnown
    ResumesCapture
