CONSTANTS
    Accounts = {asha, ravi, meera}
    Nobody = nobody
    Members = {m1, m2, m3}
    Creator = asha
    FirstMember = m1
    Expenses = {}
    MaxPending = 1
    Calls = {"member", "approval"}
    MaxCalls = 1
SPECIFICATION Spec
SYMMETRY Alike
CHECK_DEADLOCK FALSE
INVARIANTS EachIsOne DoorIsKept
