SPECIFICATION MCSpec
CONSTANTS
    Slices = {"whole"}
    Conversations = {c1}
    Agents = {a1}
    Admins = {a1}
    NoAgent = NoAgent
    Evidence = {}
    MaxCases = 1
    MaxEpoch = 2
    BotStates = {"BOT_ACTIVE"}
    Workers = {w1}
    MaxRows = 1
    MaxAttempts = 2
    BatchSize = 1
    NoEvidence = NoEvidence
    LegacyStatuses = {}
CHECK_DEADLOCK FALSE
INVARIANT
    SuppressedNeverSent
