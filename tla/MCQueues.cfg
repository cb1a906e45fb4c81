SPECIFICATION MCSpec
CONSTANTS
    Queues = {"outbox", "inbox", "receipts", "staff", "reminders"}
    NoAgent = NoAgent
    NoEvidence = NoEvidence
    NoTime = NoTime
CHECK_DEADLOCK FALSE
PROPERTIES
    EveryRowSettles
    InboxDrains
    ReceiptsDrain
    NoticesDrain
