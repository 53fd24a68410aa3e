\* A wallet and an address, two settlements of one debt, one crash.
SPECIFICATION Spec
CONSTANTS
    Settlements = {s1, s2}
    Pairs = {p1}
    Owed <- OwesOne
    Hashes = {h1, h2}
    NoHash = NoHash
    Wallets = {w1}
    NoWallet = NoWallet
    StatesExpiry = {w1}
    MayHaveAddress = TRUE
    QuoteTTL = 2
    RequestTimeout = 1
    Grace = 2
    RecordLag = 1
    MaxWatch = 2
    GiveUp = 3
    LongestInvoice = 2
    LastStart = 3
    MaxNow = 4
    MaxCrashes = 1
SYMMETRY Symmetry
INVARIANTS
    IInv OneInProgress ConfirmedIsPaid FailedIsUnpaid
PROPERTIES SettledIsFinal KeepsPromise
\* The clock is bounded: nothing happens after MaxNow.
CHECK_DEADLOCK FALSE
