CONSTANTS
    Accounts = {asha, ravi}
    Nobody = nobody
    Members = {m1, m2}
    Creator = asha
    FirstMember = m1
    Expenses = {e1}
    MaxPending = 1
    Calls = {"member", "expense", "address"}
    MaxCalls = 1
SPECIFICATION Spec
SYMMETRY Alike
CHECK_DEADLOCK FALSE
INVARIANT PayersStay
 
