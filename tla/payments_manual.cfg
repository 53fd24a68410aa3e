\* An address invoice that outlives its quote.
SPECIFICATION Spec
CONSTANTS
    Settlements = {s1, s2}
    Pairs = {p1}
    Owed <- OwesOne
    Hashes = {h1, h2}
    NoHash = NoHash
    Wallets = {}
    NoWallet = NoWallet
    StatesExpiry = {}
    MayHaveAddress = TRUE
    QuoteTTL = 2
    RequestTimeout = 1
    Grace = 2
    RecordLag = 1
    MaxWatch = 2
    GiveUp = 3
    LongestInvoice = 4
    LastStart = 3
    MaxNow = 4
    MaxCrashes = 1
SYMMETRY Symmetry
PROPERTY NotSettledWhilePayable
CHECK_DEADLOCK FALSE
