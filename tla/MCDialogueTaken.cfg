SPECIFICATION MCSpec
CONSTANTS
    Slices = {"visit"}
    Days = {1, 2}
    Slots = {1, 2}
    SelfService = TRUE
    LodgingPlan = 1
    BankData = TRUE
    Plans = {1, 2}
    Prices = {1, 2}
    MaxConversations = 1
    MaxBacklog = 1
    MaxReprices = 1
    Turns <- AllTurns
INVARIANTS
    TimeAskedInSelection
