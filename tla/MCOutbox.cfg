SPECIFICATION MCSpec
CONSTANTS
    Slices = {"pause", "payment", "delivery"}
    Conversations = {c1}
    Agents = {a1}
    Admins = {a1}
    NoAgent = NoAgent
    Evidence = {e1}
    MaxCases = 2
    MaxEpoch = 6
    BotStates = {"BOT_ACTIVE", "RESOLVED"}
    Workers = {w1, w2}
    MaxRows = 2
    MaxAttempts = 2
    BatchSize = 2
    NoEvidence = NoEvidence
    LegacyStatuses = {"PENDING", "SENDING"}
CHECK_DEADLOCK FALSE
SYMMETRY Symmetry
INVARIANTS
    RowsWellFormed
    SuppressedTextNeverSent
    HumanOutputSurvivesPause
    ClaimDeliversOnce
    DocumentFollowsText
PROPERTIES
    RevocationIsFinal
