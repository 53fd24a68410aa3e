----------------------------- MODULE GroupRecord -----------------------------
(***************************************************************************)
(* What a group is promised about the record of its ledger: whenever       *)
(* something is written down, the record read back says what the ledger    *)
(* says at that moment, and nothing else ever changes it.                  *)
(***************************************************************************)
VARIABLES ledger, record

Init == ledger = {} /\ record = {}

\* People add, change and remove expenses, and settle.
Change == ledger' # ledger /\ UNCHANGED record

\* The record catches up with the ledger, all at once.
WriteDown == record' = ledger /\ UNCHANGED ledger

Next == Change \/ WriteDown

Spec == Init /\ [][Next]_<<ledger, record>>
=============================================================================
