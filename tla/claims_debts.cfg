\* Two people with accounts and a ghost; expenses that make them owe in a ring.
CONSTANTS
    HowMany = 3
    Joined = {1, 2}
    Receivable = {1}
    Rupees = TRUE
    MaxExpenses = 1
    Inputs <- SomeInputs
    Parts = {1}
    Choosing = {1}
    MaxRows = 2
    MaxPayLinks = 1
    MaxClaims = 1
SPECIFICATION Spec
INVARIANTS OneClaimPerDebt DebtsAreTrue
PROPERTIES RearrangedOnlyWhenQuiet SettledLinkStays
CHECK_DEADLOCK FALSE
