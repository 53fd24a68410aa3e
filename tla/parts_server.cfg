\* Every part on a small instance: its constants, in the order the module has them.
CONSTANTS
    Tabs = {tab1, tab2}
    Devices = {phone}
    DeviceOf <- OneDevice
    MaxKeys = 3
    MaxAsks = 2
    Accounts = {asha, bina}
    Signers = {n1, n2}
    NoSigner = none
    Challenges = {c1, c2}
    MaxLive = 1
    Members = {mem, nim}
    Shared = {mem}
    NoAccount = none
    Wallets = {w1, w2}
    NoWallet = none
    MaxChanges = 4
    Reporters = {asha}
    Guest = guest
    FlushAt = 2
    MaxQueued = 2
    BatchEvents = 2
    DailyRoom = 2
    MaxEvents = 3
    MaxFailures = 1
    Askers = {asha}
    MadeUp = {fake1, fake2}
    AskersDevices = {dev}
    NoUser = none
    Remembered = 1
    Memory = 1
    MaxRequests = 3
    LogTime = 1
    Installs = {dev}
    User = user
    RequestDays = 1
    GuestDays = 1
    AccountDays = 2
    PruneChunk = 1
    MaxRows = 3
    MaxDays = 3
    Callers = {c1, c2}
    Nobody = none
    Sources = 2
    Ttl = 2
    RateTimeout = 1
    HasFixed = TRUE
    RatesTime = 5
    Invoices = {i1, i2, i3}
    PerRun = 1
    PerMinute = 2
    Minute = 3
    BriskFor = 2
    Brisk = 2
    Slow = 3
    LivesFor = 4
    LoopTime = 4
    Makes = {m1, m2}
    Lookups = {l1}
    Offers = {"nip44_v2"}
    SaysState = FALSE
    InvoiceEnds = 2
    Second = 2
    Wait = 1
    WalletTime = 3
    MaxErrors = 0
    AddressAsks = {r1, r2, r3}
    PayAddresses = {asha, bina}
    AddressOf <- EachAddress
    Versions = 2
    Amount = 2
    CacheTime = 0
    CacheEntries = 1
    AddressTime = 1
    Public = {pub, pub2}
    Private = {priv}
    MaxBytes = 3
    FetchTimeout = 2
    HasStream = TRUE
    StreamFinish = 2
    LastStatus = 3
    MaxChecks = 3
    MaxDrops = 2
    Refs = {debt1, debt2}
    NoRef = none
    PageChanges = 1
SPECIFICATION Spec
INVARIANTS
    AccountsAreTheirs UsageIsKept LimitsHold AnswersAreTrue AsksAboutItsDebt
PROPERTIES
    KeysAreCurrent LateIsLeft
CHECK_DEADLOCK FALSE
