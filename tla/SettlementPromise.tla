------------------------- MODULE SettlementPromise -------------------------
(***************************************************************************)
(* What the payers and the payee of a group are promised about             *)
(* settlements, whatever carries them out: a settlement ends confirmed     *)
(* only if its invoice was paid, or vouched for by the person entitled to  *)
(* record it; once settled it stays settled; and closing one unpaid is not *)
(* the last word, since a payment that is proved later still counts.       *)
(***************************************************************************)
CONSTANT Settlements

VARIABLES outcome, paid

Outcomes == {"none", "open", "confirmed", "vouched", "closed"}

Init ==
    /\ outcome = [s \in Settlements |-> "none"]
    /\ paid = {}

\* A payment is asked for, or recorded by hand, or turned down at once.
Ask(s) ==
    /\ outcome[s] = "none"
    /\ outcome' = [outcome EXCEPT ![s] = "open"]
    /\ UNCHANGED paid

Vouch(s) ==
    /\ outcome[s] = "none"
    /\ outcome' = [outcome EXCEPT ![s] = "vouched"]
    /\ UNCHANGED paid

TurnDown(s) ==
    /\ outcome[s] = "none"
    /\ outcome' = [outcome EXCEPT ![s] = "closed"]
    /\ UNCHANGED paid

\* Money moves: at any time once there is something to pay.
Pay(s) ==
    /\ outcome[s] # "none"
    /\ s \notin paid
    /\ paid' = paid \cup {s}
    /\ UNCHANGED outcome

Confirm(s) ==
    /\ outcome[s] \in {"open", "closed"}
    /\ s \in paid
    /\ outcome' = [outcome EXCEPT ![s] = "confirmed"]
    /\ UNCHANGED paid

\* Some open settlements are closed: one that ran out or failed, or all that
\* a restart interrupted.
Close(S) ==
    /\ \A s \in S : outcome[s] = "open"
    /\ outcome' = [s \in Settlements |-> IF s \in S THEN "closed" ELSE outcome[s]]
    /\ UNCHANGED paid

Next ==
    \/ \E s \in Settlements : Ask(s) \/ Vouch(s) \/ TurnDown(s) \/ Pay(s) \/ Confirm(s)
    \/ \E S \in SUBSET Settlements : Close(S)

Spec == Init /\ [][Next]_<<outcome, paid>>
=============================================================================
