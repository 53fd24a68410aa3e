---------------------------- MODULE GroupLedger ----------------------------
(***************************************************************************)
(* The ledger's arithmetic (packages/core/src/ledger.ts) and what a payer  *)
(* is offered for a debt (settlementOptions.ts), as operators: nothing     *)
(* here is a state.  Amounts are whole minor units; members are numbers,   *)
(* since their ids are compared, but only to break ties.                   *)
(***************************************************************************)
EXTENDS Integers, Sequences

CONSTANT HowMany

ASSUME HowManyAssumption == HowMany \in Nat \ {0}

Members == 1..HowMany
Pairs == Members \X Members

AtLeastZero(n) == IF n > 0 THEN n ELSE 0
Least(a, b) == IF a < b THEN a ELSE b
Greatest(a, b) == IF a < b THEN b ELSE a

\* f[1] + ... + f[n]
SumTo(f, n) == LET upTo[i \in 0..n] == IF i = 0 THEN 0 ELSE upTo[i - 1] + f[i] IN upTo[n]

Total(f) == SumTo(f, Len(f))

\* f; being compared, it is worked out once for all its arguments.
Table(f) == IF f = <<>> THEN <<>> ELSE f

(***************************************************************************)
(* Splitting.  An input names who shares (in part order) and, for "shares" *)
(* and "exact", a number each.                                             *)
(***************************************************************************)
Input == [paidBy : Members, amount : Nat, mode : {"equal", "shares", "exact"},
          who : Seq(Members), number : Seq(Nat)]

Splittable(input) ==
    /\ input.amount > 0
    /\ input.who # <<>>
    /\ input.mode = "exact" => Total(input.number) = input.amount
    /\ input.mode = "shares" => \A i \in DOMAIN input.who : input.number[i] > 0

Weight(input) ==
    [i \in DOMAIN input.who |-> IF input.mode = "shares" THEN input.number[i] ELSE 1]

RoundedDown(input) ==
    [i \in DOMAIN input.who |-> (input.amount * Weight(input)[i]) \div Total(Weight(input))]

\* Each is rounded down, and what is left goes round one unit at a time.
Shares(input) ==
    LET base == RoundedDown(input)
        over == input.amount - Total(base)
        n    == Len(input.who)
    IN [i \in DOMAIN base |-> base[i] + over \div n + (IF i <= over % n THEN 1 ELSE 0)]

ResolveParts(input) ==
    LET share == IF input.mode = "exact" THEN input.number ELSE Shares(input)
    IN [m \in Members |-> Total([i \in DOMAIN input.who |-> IF input.who[i] = m THEN share[i] ELSE 0])]

(***************************************************************************)
(* Who is owed, from a sequence of expenses and one of payments            *)
(* ([from, to, amount, status]), which count only once they are confirmed, *)
(* or marked so by hand.                                                   *)
(***************************************************************************)
Expense == [paidBy : Members, amount : Nat, part : [Members -> Nat]]
LedgerStatuses == {"confirmed", "manually_confirmed"}
Counts(s) == s.status \in LedgerStatuses
Moved(s) == IF Counts(s) THEN s.amount ELSE 0

ComputeBalances(spent, paid) ==
    [m \in Members |->
        Total([e \in DOMAIN spent |->
                 (IF spent[e].paidBy = m THEN spent[e].amount ELSE 0) - spent[e].part[m]])
        + Total([s \in DOMAIN paid |->
                 (IF paid[s].from = m THEN Moved(paid[s]) ELSE 0)
                 - (IF paid[s].to = m THEN Moved(paid[s]) ELSE 0)])]

(***************************************************************************)
(* Largest debtor against largest creditor, again and again.  Laid end to  *)
(* end in that order, what is owed and what is due are two lines of the    *)
(* same length, and one member pays another where their stretches overlap. *)
(***************************************************************************)
Earlier(amount) ==
    [m \in Members |-> SumTo([x \in Members |->
        IF amount[x] > amount[m] \/ (amount[x] = amount[m] /\ x < m) THEN amount[x] ELSE 0], HowMany)]

SimplifyDebts(net) ==
    LET owes == Table([m \in Members |-> AtLeastZero(-net[m])])
        due  == Table([m \in Members |-> AtLeastZero(net[m])])
        from == Table(Earlier(owes))
        into == Table(Earlier(due))
    IN [p \in Pairs |-> AtLeastZero(Least(from[p[1]] + owes[p[1]], into[p[2]] + due[p[2]])
                                    - Greatest(from[p[1]], into[p[2]]))]

\* Mutant: payments between the two are left out.
OwesUnpaid(spent, paid, a, b) ==
    IF a = b THEN 0
    ELSE Total([e \in DOMAIN spent |-> IF spent[e].paidBy = b THEN spent[e].part[a] ELSE 0]) + 0 * Len(paid)

\* Straight back to whoever paid; only what two owe each other cancels out.
Owes(spent, paid, a, b) ==
    IF a = b THEN 0
    ELSE Total([e \in DOMAIN spent |-> IF spent[e].paidBy = b THEN spent[e].part[a] ELSE 0])
         + Total([s \in DOMAIN paid |-> IF paid[s].to = a /\ paid[s].from = b THEN Moved(paid[s]) ELSE 0])

DirectDebts(spent, paid) ==
    [p \in Pairs |-> AtLeastZero(Owes(spent, paid, p[1], p[2]) - Owes(spent, paid, p[2], p[1]))]

GroupDebts(simplify, spent, paid) ==
    IF simplify THEN SimplifyDebts(Table(ComputeBalances(spent,
                                                         paid))) ELSE DirectDebts(spent, paid)

(***************************************************************************)
(* What the app offers whoever owes `payee`: [claimed, linked, address,    *)
(* receivable, upi].  `ways` is what the payer uses.                       *)
(***************************************************************************)

CanReceive(payee, real) ==
    IF real THEN payee.receivable ELSE payee.claimed \/ payee.address

RailsOffered(payee, real, rupees, wallet, ways) ==
    LET lightning == "lightning" \in ways
        offers    == [
            in_app            |-> lightning /\ ~real /\ wallet /\ payee.claimed /\ ~payee.linked,
            invoice           |-> lightning /\ (IF real THEN CanReceive(payee, real) ELSE payee.claimed),
            lightning_address |-> lightning /\ ~real /\ wallet /\ ~payee.claimed /\ payee.address,
            upi               |-> "upi" \in ways /\ rupees /\ payee.upi /\ payee.claimed,
            manual            |-> ~payee.claimed]
    IN {r \in DOMAIN offers : offers[r]}

\* The sheet opens on Lightning when there is nothing to choose.
OpensOn(offered) == offered = {"invoice"}
=============================================================================
