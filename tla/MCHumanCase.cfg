SPECIFICATION HSpec
CONSTANTS
    Conversations = {c1}
    Agents = {a1, a2}
    Admins = {a1}
    NoAgent = NoAgent
    Evidence = {e1, e2}
    MaxCases = 3
    MaxEpoch = 8
    BotStates = {"BOT_ACTIVE", "COLLECTING_EVENT_DATA", "RESOLVED"}
CHECK_DEADLOCK FALSE
INVARIANTS
    HTypeOK
    HumanActiveIsOwned
    UnpausedIsClean
    WaitingHasPendingCase
    OneAgentPerConversation
PROPERTIES
    ClosedCasesStayClosed
    ImplementsGate
