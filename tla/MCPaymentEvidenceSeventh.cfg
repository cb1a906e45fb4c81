SPECIFICATION MCSpec
CONSTANTS
    w1 = w1
    w2 = w2
    a1 = a1
    Slices = {"download"}
    Workers = {w1, w2}
    Admins = {a1}
    MaxReceipts = 2
    Kinds = {"IMAGE"}
    Linked = {1, 2}
    Readings <- PlainReadings
    Price = 3001
    Percent = 50
    Amounts = {2000}
    MAX_DOWNLOAD_ATTEMPTS = 2
    MaxReviews = 2
    MaxCrashes = 1
    MaxRetries = 1
INVARIANTS
    AttemptsBounded
