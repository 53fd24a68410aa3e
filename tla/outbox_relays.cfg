SPECIFICATION FairSpec
CONSTANTS
    Expenses = {e1}
    Settlements = {s1}
    Relays = {r1, r2}
    BatchSize = 2
    MaxChanges = 2
INVARIANT ReadableInOrder
PROPERTIES KeepsRecord EventuallyWhole
\* The ledger is bounded: all may be written, published and delivered.
CHECK_DEADLOCK FALSE
