\* One settlement, watched to its end through every kind of watch.
SPECIFICATION FairSpec
CONSTANTS
    Settlements = {s1}
    Pairs = {p1}
    Owed <- OwesOne
    Hashes = {h1}
    NoHash = NoHash
    Wallets = {w1, w2}
    NoWallet = NoWallet
    StatesExpiry = {w1}
    MayHaveAddress = TRUE
    QuoteTTL = 2
    RequestTimeout = 1
    Grace = 2
    RecordLag = 1
    MaxWatch = 3
    GiveUp = 3
    LongestInvoice = 4
    LastStart = 1
    MaxNow = 9
    MaxCrashes = 1
INVARIANT WatchedWell
PROPERTY EndsAreReached
CHECK_DEADLOCK FALSE
