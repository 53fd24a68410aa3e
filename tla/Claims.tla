------------------------------- MODULE Claims -------------------------------
(***************************************************************************)
(* What is owed in a group and how it is settled outside Lightning: UPI    *)
(* claims and reports (routes/upi.ts), marking as settled and starting a   *)
(* payment (routes/settlements.ts), the group's page and its pay links     *)
(* (routes/groupLinks.ts, routes/payLinks.ts), expenses and the choice of  *)
(* simplified debts (routes/groups.ts), and the rules they share           *)
(* (settlementRules.ts, groupRules.ts).                                    *)
(*                                                                         *)
(* A Lightning payment is only its outcome here, as SettlementPromise      *)
(* allows; LightningPayments has the rest.  Handlers are transactions, but *)
(* those that take a body read the group before it and use what they read  *)
(* after, by when it may have changed: they take any `mode`.               *)
(***************************************************************************)
EXTENDS GroupLedger, SequencesExt

CONSTANTS
    Joined,        \* members with an account, one each
    Receivable,    \* those who can be paid over Lightning
    Rupees,        \* the group is in rupees
    MaxExpenses,   \* as many at a time
    Inputs,        \* what an expense may say
    Parts,         \* what a caller may pay, other than all that is owed
    Choosing,      \* members who may change their mind about UPI
    MaxRows, MaxPayLinks, MaxClaims

ASSUME ClaimsAssumption ==
    /\ Joined \subseteq Members /\ Joined # {}
    /\ Receivable \subseteq Joined
    /\ Rupees \in BOOLEAN
    /\ \A input \in Inputs :
          input \in Input /\ (input.mode = "equal" \/ Len(input.number) = Len(input.who))
    /\ Parts \subseteq Nat \ {0} /\ Choosing \subseteq Joined
    /\ MaxExpenses \in Nat /\ MaxRows \in Nat /\ MaxPayLinks \in Nat /\ MaxClaims \in Nat

VARIABLES
    expense,    \* the expenses table
    row,        \* settlements, in order of creation
    claims,     \* upi_claims
    simplify,   \* groups.simplify_debts
    upi,        \* whether a member gave a UPI ID, and lets links show it
    payLinks,   \* pay_links, in order of creation
    gone,       \* the group was deleted
    debts       \* what debtsOf makes of the tables, direct and simplified

vars == <<debts, expense, row, claims, simplify, upi, payLinks, gone>>

NoLink == 0
UpiChoices == {"none", "hidden", "onLinks"}

Row == [from : Members, to : Members, amount : Nat \ {0}, link : Nat,
        status : {"open", "closed"} \cup LedgerStatuses,
        links : Nat]    \* how many pay links were older
Claim == [from : Members, to : Members, amount : Nat \ {0}, link : Nat,
          status : {"pending", "declined"}]
PayLink == [from : Members, to : Members, amount : Nat \ {0}]

Init ==
    /\ expense = <<>>
    /\ row = <<>>
    /\ claims = {}
    /\ simplify \in BOOLEAN
    /\ upi = [m \in Joined |-> "onLinks"]
    /\ payLinks = <<>>
    /\ gone = FALSE
    /\ debts = [mode \in BOOLEAN |-> [p \in Pairs |-> 0]]

-----------------------------------------------------------------------------
(* The rules (settlementRules.ts).  `mode` is simplify_debts as the caller  *)
(* read it.                                                                 *)

\* Worked out anew by every request; here, by whatever changes the tables.
DebtsOf(expenses, rows) == [mode \in BOOLEAN |-> Table(GroupDebts(mode, expenses, rows))]

NothingMoved ==
    expense' = expense /\ \A i \in DOMAIN row' : Counts(row'[i]) => i \in DOMAIN row /\ Counts(row[i])

Recount == debts' = IF NothingMoved THEN debts ELSE DebtsOf(expense', row')

Owed(mode, f, t) == debts[mode][<<f, t>>]

InProgress(i) == row[i].status = "open"

InProgressFor(f, t) == \E i \in DOMAIN row : InProgress(i) /\ row[i].from = f /\ row[i].to = t

HasRoom(c, mode) == Owed(mode, c.from, c.to) >= c.amount

LiveClaims(mode) == {c \in claims : HasRoom(c, mode)}

CheckSettlement(f, t, amount, mode) == f # t /\ Owed(mode, f, t) >= amount

CheckPayer(f) == f \in Joined

\* The payee's word, or the payer's when the payee is a ghost.
CheckManualRecorder(f, t) == t \in Joined \/ f \in Joined

TakesUpi(m) == Rupees /\ m \in Joined /\ upi[m] # "none"
UpiOnLink(m) == TakesUpi(m) /\ upi[m] = "onLinks"

-----------------------------------------------------------------------------
(* Writes.                                                                  *)

NewRow(f, t, amount, status, link) ==
    [from |-> f, to |-> t, amount |-> amount, status |-> status, link |-> link,
     links |-> Len(payLinks)]

InsertSettlement(f, t, amount, status, link) ==
    /\ Len(row) < MaxRows
    /\ row' = Append(row, NewRow(f, t, amount, status, link))

ClaimsExcept(f, t) == {c \in claims : ~(c.from = f /\ c.to = t)}

\* Mutant: the earlier claim for the debt stays.
ReplaceUpiClaimKeepsOld(f, t, amount, link) ==
    /\ Cardinality(ClaimsExcept(f, t)) < MaxClaims
    /\ claims' = claims \cup {[from |-> f, to |-> t, amount |-> amount, link |-> link,
                               status |-> "pending"]}

ReplaceUpiClaim(f, t, amount, link) ==
    /\ Cardinality(ClaimsExcept(f, t)) < MaxClaims
    /\ claims' = ClaimsExcept(f, t) \cup {[from |-> f, to |-> t, amount |-> amount, link |-> link,
                                           status |-> "pending"]}

-----------------------------------------------------------------------------
(* Expenses (routes/groups.ts).                                             *)

CanChangeExpense(e) == expense[e].paidBy \in Joined \/ Joined # {}

Resolved(input) == [paidBy |-> input.paidBy, amount |-> input.amount, part |-> ResolveParts(input)]

PostExpense(input) ==
    /\ Len(expense) < MaxExpenses
    /\ Splittable(input)
    /\ expense' = Append(expense, Resolved(input))
    /\ UNCHANGED <<row, claims, simplify, upi, payLinks, gone>>
    /\ Recount

PutExpense(e, input) ==
    /\ CanChangeExpense(e)
    /\ Splittable(input)
    /\ expense' = [expense EXCEPT ![e] = Resolved(input)]
    /\ UNCHANGED <<row, claims, simplify, upi, payLinks, gone>>
    /\ Recount

DeleteExpense(e) ==
    /\ CanChangeExpense(e)
    /\ expense' = RemoveAt(expense, e)
    /\ UNCHANGED <<row, claims, simplify, upi, payLinks, gone>>
    /\ Recount

\* Mutant: claims are not waited for.
CheckDebtsCanChangeUnderClaims(mode) == mode \in BOOLEAN /\ \A i \in DOMAIN row : ~InProgress(i)

\* checkDebtsCanChange, for the group as the request read it.
CheckDebtsCanChange(mode) ==
    /\ \A i \in DOMAIN row : ~InProgress(i)
    /\ \A c \in LiveClaims(mode) : c.status # "pending"

PutGroup(mode, want) ==
    /\ want # mode
    /\ CheckDebtsCanChange(mode)
    /\ simplify' = want
    /\ UNCHANGED <<debts, expense, row, claims, upi, payLinks, gone>>

CheckGroupCanGo ==
    /\ \A i \in DOMAIN row : ~InProgress(i)
    /\ \A p \in Pairs : debts[simplify][p] = 0

DeleteGroup ==
    /\ CheckGroupCanGo
    /\ gone' = TRUE
    /\ UNCHANGED <<debts, expense, row, claims, simplify, upi, payLinks>>

-----------------------------------------------------------------------------
(* Settling from the app (routes/settlements.ts, routes/upi.ts).            *)

MayStart(f, t, amount, mode) ==
    /\ CheckSettlement(f, t, amount, mode)
    /\ CheckPayer(f)
    /\ t \in Receivable
    /\ ~InProgressFor(f, t)

PostSettlement(f, t, amount, mode) ==
    /\ MayStart(f, t, amount, mode)
    /\ InsertSettlement(f, t, amount, "open", NoLink)
    /\ UNCHANGED <<expense, claims, simplify, upi, payLinks, gone>>
    /\ Recount

\* Settling all that is owed answers a claim for it; a part leaves it waiting.
MayMark(f, t, amount, mode) ==
    /\ CheckSettlement(f, t, amount, mode)
    /\ CheckManualRecorder(f, t)
    /\ ~InProgressFor(f, t)

PostManual(f, t, amount, mode) ==
    /\ MayMark(f, t, amount, mode)
    /\ claims' = IF amount >= Owed(mode, f, t) THEN ClaimsExcept(f, t) ELSE claims
    /\ InsertSettlement(f, t, amount, "manually_confirmed", NoLink)
    /\ UNCHANGED <<expense, simplify, upi, payLinks, gone>>
    /\ Recount

MaySayPaid(f, t, amount, mode) ==
    /\ CheckSettlement(f, t, amount, mode)
    /\ CheckPayer(f)
    /\ TakesUpi(t)
    /\ ~InProgressFor(f, t)

PostUpiClaim(f, t, amount, mode) ==
    /\ MaySayPaid(f, t, amount, mode)
    /\ ReplaceUpiClaim(f, t, amount, NoLink)
    /\ UNCHANGED <<debts, expense, row, simplify, upi, payLinks, gone>>

\* The payer's UPI app said it went through, or the payer does.
PostUpiPayment(f, t, amount, mode) ==
    /\ MaySayPaid(f, t, amount, mode)
    /\ claims' = ClaimsExcept(f, t)
    /\ InsertSettlement(f, t, amount, "manually_confirmed", NoLink)
    /\ UNCHANGED <<expense, simplify, upi, payLinks, gone>>
    /\ Recount

\* No body: the group is read in the same turn.
ConfirmClaim(c) ==
    /\ c.to \in Joined
    /\ CheckSettlement(c.from, c.to, c.amount, simplify)
    /\ ~InProgressFor(c.from, c.to)
    /\ claims' = claims \ {c}
    /\ InsertSettlement(c.from, c.to, c.amount, "manually_confirmed", c.link)
    /\ UNCHANGED <<expense, simplify, upi, payLinks, gone>>
    /\ Recount

DeclineClaim(c) ==
    /\ c.to \in Joined
    /\ claims' = (claims \ {c}) \cup {[c EXCEPT !.status = "declined"]}
    /\ UNCHANGED <<debts, expense, row, simplify, upi, payLinks, gone>>

WithdrawClaim(c) ==
    /\ c.from \in Joined
    /\ claims' = claims \ {c}
    /\ UNCHANGED <<debts, expense, row, simplify, upi, payLinks, gone>>

\* Giving an ID, taking it away, hiding it from links.  Claims already made stay.
SetUpi(m) ==
    /\ \E choice \in UpiChoices \ {upi[m]} : upi' = [upi EXCEPT ![m] = choice]
    /\ UNCHANGED <<debts, expense, row, claims, simplify, payLinks, gone>>

-----------------------------------------------------------------------------
(* The group's page (routes/groupLinks.ts).                                 *)

PendingFor(f, t) == \E c \in LiveClaims(simplify) : c.from = f /\ c.to = t /\ c.status = "pending"

LinkPaid(l) == \E i \in DOMAIN row : Counts(row[i]) /\ row[i].link = l

\* Settled some other way since the link was made (settledOutsideLink).
SettledOutsideLink(l) ==
    \E i \in DOMAIN row : /\ Counts(row[i])
                       /\ row[i].from = payLinks[l].from /\ row[i].to = payLinks[l].to
                       /\ row[i].amount >= payLinks[l].amount
                       /\ l <= row[i].links

\* The newest link for just this debt that was not paid (payLinkFor).
UnpaidLinks(f, t, amount) ==
    {l \in DOMAIN payLinks : /\ payLinks[l] = [from |-> f, to |-> t, amount |-> amount]
                             /\ ~LinkPaid(l)}

HandedOut(f, t, amount) ==
    LET unpaid == UnpaidLinks(f, t, amount)
    IN unpaid # {} /\ ~SettledOutsideLink(Max(unpaid))

PostPayLink(f, t) ==
    LET debt == Owed(simplify, f, t)
    IN /\ debt > 0
       /\ t \in Receivable
       /\ ~HandedOut(f, t, debt)
       /\ Len(payLinks) < MaxPayLinks
       /\ payLinks' = Append(payLinks, [from |-> f, to |-> t, amount |-> debt])
       /\ UNCHANGED <<debts, expense, row, claims, simplify, upi, gone>>

\* By UPI to somebody who takes it from links, or another way to anyone joined.
SayPaidOnPage(f, t) ==
    LET debt == Owed(simplify, f, t)
    IN /\ debt > 0
       /\ UpiOnLink(t) \/ t \in Joined
       /\ ~InProgressFor(f, t)
       /\ ~PendingFor(f, t)
       /\ ReplaceUpiClaim(f, t, debt, NoLink)
       /\ UNCHANGED <<debts, expense, row, simplify, upi, payLinks, gone>>

-----------------------------------------------------------------------------
(* Pay links (routes/payLinks.ts).                                          *)

OwnRows(l) == {i \in DOMAIN row : row[i].link = l}

LatestPaid(l) == OwnRows(l) # {} /\ row[Max(OwnRows(l))].status \in LedgerStatuses

LatestInProgress(l) == OwnRows(l) # {} /\ InProgress(Max(OwnRows(l)))

\* What the page shows of the debt.
ShownSettled(l) == LatestPaid(l) \/ SettledOutsideLink(l)

OwedOnLink(l) == Owed(simplify, payLinks[l].from, payLinks[l].to) >= payLinks[l].amount

\* Mutant: only the link's own payments are looked at.
OpenPayLinkSettled(l, chosen) ==
    LET f == payLinks[l].from  t == payLinks[l].to
    IN /\ ~LatestInProgress(l) /\ ~LatestPaid(l)
       /\ OwedOnLink(l)
       /\ t \in Receivable
       /\ ~PendingFor(f, t)
       /\ UpiOnLink(t) => chosen
       /\ ~InProgressFor(f, t)
       /\ InsertSettlement(f, t, payLinks[l].amount, "open", l)
       /\ UNCHANGED <<expense, claims, simplify, upi, payLinks, gone>>
       /\ Recount

OpenPayLink(l, chosen) ==
    LET f == payLinks[l].from  t == payLinks[l].to
    IN /\ ~LatestInProgress(l) /\ ~LatestPaid(l)
       /\ ~SettledOutsideLink(l)
       /\ OwedOnLink(l)
       /\ t \in Receivable
       /\ ~PendingFor(f, t)
       /\ UpiOnLink(t) => chosen
       /\ ~InProgressFor(f, t)
       /\ InsertSettlement(f, t, payLinks[l].amount, "open", l)
       /\ UNCHANGED <<expense, claims, simplify, upi, payLinks, gone>>
       /\ Recount

SayPaidOnLink(l) ==
    LET f == payLinks[l].from  t == payLinks[l].to
    IN /\ ~ShownSettled(l) /\ OwedOnLink(l)
       /\ UpiOnLink(t)
       /\ ~InProgressFor(f, t)
       /\ ~PendingFor(f, t)
       /\ ReplaceUpiClaim(f, t, payLinks[l].amount, l)
       /\ UNCHANGED <<debts, expense, row, simplify, upi, payLinks, gone>>

-----------------------------------------------------------------------------
(* Lightning, as far as it shows: a payment fails or lapses (both closed   *)
(* here, though only a lapsed one can turn out paid), or is found paid.     *)
PaymentMoves(i) ==
    /\ \/ /\ row[i].status = "open"
          /\ \E st \in {"closed", "confirmed"} : row' = [row EXCEPT ![i].status = st]
       \/ /\ row[i].status = "closed"
          /\ row' = [row EXCEPT ![i].status = "confirmed"]
    /\ UNCHANGED <<expense, claims, simplify, upi, payLinks, gone>>
    /\ Recount

Next ==
    /\ ~gone
    /\ \/ \E input \in Inputs : PostExpense(input) \/ \E e \in DOMAIN expense : PutExpense(e, input)
       \/ \E e \in DOMAIN expense : DeleteExpense(e)
       \/ \E mode \in BOOLEAN, want \in BOOLEAN : PutGroup(mode, want)
       \/ DeleteGroup
       \/ \E p \in Pairs, mode \in BOOLEAN : \E amount \in (Parts \cup {debts[mode][p]}) \ {0} :
              \/ PostSettlement(p[1], p[2], amount, mode)
              \/ PostManual(p[1], p[2], amount, mode)
              \/ PostUpiClaim(p[1], p[2], amount, mode)
              \/ PostUpiPayment(p[1], p[2], amount, mode)
       \/ \E c \in claims : ConfirmClaim(c) \/ DeclineClaim(c) \/ WithdrawClaim(c)
       \/ \E m \in Choosing : SetUpi(m)
       \/ \E p \in Pairs : PostPayLink(p[1], p[2]) \/ SayPaidOnPage(p[1], p[2])
       \/ \E l \in DOMAIN payLinks : SayPaidOnLink(l) \/ \E chosen \in BOOLEAN : OpenPayLink(l, chosen)
       \/ \E i \in DOMAIN row : PaymentMoves(i)

Spec == Init /\ [][Next]_vars

-----------------------------------------------------------------------------

\* Types of the tables and of what waiting requests may have read.
TypeOK ==
    /\ expense \in Seq(Expense)
    /\ row \in Seq(Row)
    /\ claims \subseteq Claim
    /\ simplify \in BOOLEAN /\ gone \in BOOLEAN
    /\ upi \in [Joined -> UpiChoices]
    /\ payLinks \in Seq(PayLink)

\* There is one claim for a debt at a time, from whichever of the app, the
\* group's page and a pay link it came (repo.replaceUpiClaim).
OneClaimPerDebt == \A c, d \in claims : c.from = d.from /\ c.to = d.to => c = d

\* Simplified or direct, the debts say of everyone exactly what the balances
\* say, though one is netted through third people and the other is not
\* (core/ledger.ts).
DebtsAreBalances ==
    LET net == ComputeBalances(expense, row)
    IN \A mode \in BOOLEAN, m \in Members :
           net[m] = SumTo([x \in Members |-> Owed(mode, x, m) - Owed(mode, m, x)], HowMany)

\* Simplified, n people settle in at most n - 1 payments, and nobody both pays
\* and is paid.
SimplifiedIsShort ==
    LET pays == {p \in Pairs : debts[TRUE][p] > 0}
    IN /\ pays # {} => Cardinality(pays) < Cardinality(Members)
       /\ \A p, q \in pays : p[2] # q[1]

\* The parts of an expense add up to it, however it was split.
PartsAddUp == \A e \in DOMAIN expense : SumTo(expense[e].part, HowMany) = expense[e].amount

\* What the app offers a payer the server takes, as long as nothing changed
\* since: settlementOptions.ts and the routes' checks agree.
PayeeOf(m) == [claimed |-> m \in Joined, linked |-> FALSE, address |-> FALSE,
               receivable |-> m \in Receivable, upi |-> TakesUpi(m)]

OfferedIsTaken ==
    \A p \in Pairs : LET f == p[1]  t == p[2]  owed == debts[simplify][p] IN
        f \in Joined /\ owed > 0 /\ ~InProgressFor(f, t) =>
            \A r \in RailsOffered(PayeeOf(t), TRUE, Rupees, FALSE, {"lightning", "upi"}) :
                \/ r = "invoice" /\ MayStart(f, t, owed, simplify)
                \/ r = "upi" /\ MaySayPaid(f, t, owed, simplify)
                \/ r = "manual" /\ MayMark(f, t, owed, simplify) /\ t \notin Joined

\* A group is deleted only when everybody in it is even and nothing is under
\* way (checkGroupCanGo), whichever way its debts are worked out.
GoneIsEven ==
    gone => /\ \A m \in Members : ComputeBalances(expense, row)[m] = 0
            /\ \A i \in DOMAIN row : ~InProgress(i)

\* Together, what everybody is told they owe.
DebtsAreTrue ==
    /\ TypeOK /\ DebtsAreBalances /\ SimplifiedIsShort
    /\ PartsAddUp /\ OfferedIsTaken /\ GoneIsEven

\* Who owes whom is not rearranged while a payment is under way, or while a
\* claim waits that can be answered - not by a request that read the group
\* long ago either (groupRules.ts checkDebtsCanChange, routes/groups.ts).
RearrangedOnlyWhenQuiet ==
    [][simplify' # simplify =>
        /\ \A i \in DOMAIN row : row[i].status # "open"
        /\ \A c \in claims : c.status = "pending" => c.amount > Owed(simplify, c.from, c.to)]_vars

\* A pay link that shows its debt settled shows it so for good, whatever is
\* paid, expires or is owed later, and no invoice is made for it again.
SettledLinkStays ==
    [][\A l \in DOMAIN payLinks : ShownSettled(l) =>
            /\ ShownSettled(l)'
            /\ ~\E i \in DOMAIN row' : i \notin DOMAIN row /\ row'[i].link = l /\ row'[i].status = "open"]_vars

---------------------------------------------------------------------------
(* For TLC *)

Split(by, amount, mode, who, number) ==
    [paidBy |-> by, amount |-> amount, mode |-> mode, who |-> who, number |-> number]

\* Going from one to the other, whoever has paid is owed, or owes again.
SomeInputs ==
    { Split(1, 4, "equal", <<3, 2, 1>>, <<>>),
      Split(1, 2, "shares", <<2, 3>>, <<1, 1>>) }
=============================================================================
