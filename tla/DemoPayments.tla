---------------------------- MODULE DemoPayments ----------------------------
(***************************************************************************)
(* What is owed and paid in the demo (MockClient): the server's rules in   *)
(* memory, for one user, with a timer for each payment it starts.          *)
(*                                                                         *)
(* One group in rupees, the user and one other who joined.  Whatever is    *)
(* asked under a key is asked again under it.                              *)
(***************************************************************************)
EXTENDS Integers, FiniteSets, Sequences, Functions

CONSTANTS
    OnLinks,    \* the user takes UPI, and lets links show it
    Fails,      \* alwaysFailSettlement
    MaxOwed, MaxPayments, MaxLinks

\* Assumed of the constants, wherever they are given values.
DemoPaymentsAssumption ==
    /\ MaxOwed \in Nat \ {0} /\ MaxPayments \in Nat \ {0} /\ MaxLinks \in Nat \ {0} 
    /\ OnLinks \in BOOLEAN /\ Fails \in BOOLEAN

VARIABLES
    spent,       \* what the expenses have Om owing the user, less what the user owes Om
    payments,    \* settlements
    upiClaims, payLinks, replies,
    deleted

vars == <<spent, payments, upiClaims, payLinks, replies, deleted>>

Me == "me"
Om == "om"
People == {Me, Om}
Payee(from) == IF from = Me THEN Om ELSE Me
Keys == {"settle"}    \* a key names what is asked under it
NoKey == "none"

\* Flat 4B of the fixtures: Om's link, opened once, by nobody's timer.
Init ==
    /\ spent = 1
    /\ payments = <<[from |-> Om, amount |-> 1, status |-> "awaiting", timer |-> 3, link |-> 1,
                     key |-> NoKey]>>
    /\ upiClaims = {} /\ replies = {}
    /\ payLinks = <<[from |-> Om, amount |-> 1, shows |-> 1, since |-> 0]>>
    /\ deleted = FALSE

-----------------------------------------------------------------------------

\* The first reply is the reply, though it was lost on the way.
Keyed(key, Write) ==
    /\ key \notin replies
    /\ Write
    /\ replies' = replies \cup ({key} \ {NoKey})

InLedger(s) == s.status \in {"confirmed", "manually_confirmed"}
InProgress(s) == s.status \in {"created", "awaiting", "in_flight"}

Signed(s) == IF ~InLedger(s) THEN 0 ELSE IF s.from = Om THEN s.amount ELSE -s.amount
Net == spent - FoldFunction(+, 0, [i \in DOMAIN payments |-> Signed(payments[i])])
Owed(from) == IF from = Om THEN Net ELSE -Net

UnderWay(from) == \E i \in DOMAIN payments : payments[i].from = from /\ InProgress(payments[i])
LiveClaims == {c \in upiClaims : Owed(c.from) >= c.amount}
ClaimFor(from) == {c \in LiveClaims : c.from = from}
UpiOnLink(who) == who = Om \/ OnLinks

\* settledOutsideLink: for at least what it asks, made since it was.
SettledElsewhere(link) ==
    \E i \in DOMAIN payments :
        /\ i > link.since /\ InLedger(payments[i])
        /\ payments[i].from = link.from /\ payments[i].amount >= link.amount

LinkPaid(link) == link.shows # 0 /\ InLedger(payments[link.shows])
LinkOwed(link) == Owed(link.from) >= link.amount

Pay(from, amount, status, link, key) ==
    /\ Len(payments) < MaxPayments
    /\ payments' = Append(payments, [from |-> from, amount |-> amount, status |-> status,
                                     link |-> link,
                                     timer |-> IF status = "created" THEN 0 ELSE 3, key |-> key])

Others(from) == {c \in upiClaims : c.from # from}
Claim(from, amount, link) ==
    upiClaims' = Others(from) \cup
        {[from |-> from, amount |-> amount, status |-> "pending", link |-> link]}

-----------------------------------------------------------------------------

\* Expenses come, change and go.
SpendsMore(more) ==
    /\ spent + more \in -MaxOwed..MaxOwed /\ spent' = spent + more
    /\ UNCHANGED <<payments, upiClaims, payLinks, replies>>

\* Of whatever amount; the whole debt answers what was said about it.
MarkSettledManually(amount, key) ==
    /\ ~UnderWay(Om)
    /\ upiClaims' = IF Owed(Om) > 0 /\ amount >= Owed(Om) THEN Others(Om) ELSE upiClaims
    /\ Pay(Om, amount, "manually_confirmed", 0, key)
    /\ UNCHANGED <<spent, payLinks>>

CreateSettlement(amount, key) ==
    /\ Pay(Me, amount, "created", 0, key)
    /\ UNCHANGED <<spent, upiClaims, payLinks>>

\* The timers go on whatever has become of the payment.
RunLifecycle(i) ==
    /\ payments[i].timer < 3
    /\ payments' = [payments EXCEPT ![i].timer = @ + 1,
            ![i].status = <<"awaiting", "in_flight",
                            IF Fails THEN "failed" ELSE "confirmed">>[payments[i].timer + 1]]
    /\ UNCHANGED <<spent, upiClaims, payLinks, replies>>

\* An invoice nobody paid in time; only the fixture's waits that long.
Lapses(i) ==
    /\ payments[i].status = "awaiting" /\ payments[i].timer = 3
    /\ payments' = [payments EXCEPT ![i].status = "lapsed"]
    /\ UNCHANGED <<spent, upiClaims, payLinks, replies>>

\* From the app or from the link that shows it.
Prove(i) ==
    /\ payments[i].status \in {"awaiting", "in_flight", "lapsed", "failed"}
    /\ payments' = [payments EXCEPT ![i].status = "confirmed"]
    /\ UNCHANGED <<spent, upiClaims, payLinks, replies>>

-----------------------------------------------------------------------------

\* What the page shows needs no new invoice, can't have one, or asks first.
OpenPayLink(l, rail) ==
    LET link == payLinks[l] IN
    /\ ~(link.shows # 0 /\ (InProgress(payments[link.shows]) \/ LinkPaid(link)))
    /\ ~SettledElsewhere(link) /\ LinkOwed(link)
    /\ \A c \in ClaimFor(link.from) : c.status # "pending"
    /\ UpiOnLink(Payee(link.from)) => rail = "lightning"
    /\ Pay(link.from, link.amount, "created", l, NoKey)
    /\ payLinks' = [payLinks EXCEPT ![l].shows = Len(payments) + 1]
    /\ UNCHANGED <<spent, upiClaims, replies>>

SaysPaid(from, amount, link) ==
    /\ UpiOnLink(Payee(from)) \/ link = 0
    /\ ~UnderWay(from) /\ \A c \in ClaimFor(from) : c.status # "pending"
    /\ Claim(from, amount, link)
    /\ UNCHANGED <<spent, payments, payLinks>>

ClaimUpiFromPayLink(l) ==
    LET link == payLinks[l] IN
    /\ ~LinkPaid(link) /\ ~SettledElsewhere(link) /\ LinkOwed(link)
    /\ SaysPaid(link.from, link.amount, l)

\* By UPI or another way, on the group's page: all that is owed.
SayPaidFromGroupLink(from) == Owed(from) > 0 /\ SaysPaid(from, Owed(from), 0)

\* A link that was paid, or settled some other way, is spent.
PayFromGroupLink(from) ==
    /\ Owed(from) > 0 /\ Len(payLinks) < MaxLinks
    /\ \A l \in DOMAIN payLinks : payLinks[l].from = from /\ payLinks[l].amount = Owed(from) =>
            LinkPaid(payLinks[l]) \/ SettledElsewhere(payLinks[l])
    /\ payLinks' = Append(payLinks, [from |-> from, amount |-> Owed(from), shows |-> 0,
                                     since |-> Len(payments)])
    /\ UNCHANGED <<spent, payments, upiClaims, replies>>

\* Nothing here asks about a payment under way.
CreateUpiClaim(amount) ==
    /\ amount <= Owed(Me)
    /\ Claim(Me, amount, 0)
    /\ UNCHANGED <<spent, payments, payLinks>>

ReportUpiPayment(amount) ==
    /\ amount <= Owed(Me)
    /\ upiClaims' = Others(Me)
    /\ Pay(Me, amount, "manually_confirmed", 0, NoKey)
    /\ UNCHANGED <<spent, payLinks>>

\* The link it was said from shows this as what paid it.
ConfirmUpiClaim(c) ==
    /\ c.from = Om /\ c.amount <= Owed(Om) /\ ~UnderWay(Om)
    /\ Pay(Om, c.amount, "manually_confirmed", c.link, NoKey)
    /\ upiClaims' = upiClaims \ {c}
    /\ payLinks' = IF c.link = 0 THEN payLinks ELSE [payLinks EXCEPT ![c.link].shows = Len(payments) + 1]
    /\ UNCHANGED <<spent>>

AnswerUpiClaim(c) ==
    /\ upiClaims' = (upiClaims \ {c}) \cup (IF c.from = Om THEN {[c EXCEPT !.status = "declined"]} ELSE {})
    /\ UNCHANGED <<spent, payments, payLinks, replies>>

-----------------------------------------------------------------------------

\* A timer that still runs finds its payment gone.
DeleteGroup ==
    /\ \A from \in People : ~UnderWay(from) /\ Owed(from) <= 0
    /\ deleted' = TRUE
    /\ UNCHANGED <<spent, payments, upiClaims, payLinks, replies>>

\* With its key or, as the client lets it, without.
Asked(amount, key) ==
    \/ key = NoKey /\ MarkSettledManually(amount, key)
    \/ key \in {"settle", NoKey} /\ CreateSettlement(amount, key)
    \/ key = NoKey /\ ReportUpiPayment(amount)

Said ==
    \/ \E amount \in 1..MaxOwed : CreateUpiClaim(amount)
    \/ \E c \in upiClaims : ConfirmUpiClaim(c)
    \/ \E l \in DOMAIN payLinks : ClaimUpiFromPayLink(l)
    \/ \E from \in People : SayPaidFromGroupLink(from)

Unkeyed ==
    \/ \E more \in {-1, 1} : SpendsMore(more)
    \/ \E i \in DOMAIN payments : RunLifecycle(i) \/ Lapses(i) \/ Prove(i)
    \/ \E l \in DOMAIN payLinks, rail \in {"any", "lightning"} : OpenPayLink(l, rail)
    \/ \E from \in People : PayFromGroupLink(from)
    \/ \E c \in upiClaims : AnswerUpiClaim(c)

Next ==
    /\ ~deleted
    /\ \/ UNCHANGED deleted /\ (Unkeyed \/ Keyed(NoKey, Said)
                \/ \E key \in Keys \cup {NoKey}, amount \in 1..MaxOwed : Keyed(key, Asked(amount, key)))
       \/ DeleteGroup

Spec == Init /\ [][Next]_vars

-----------------------------------------------------------------------------

TypeOK ==
    /\ spent \in -MaxOwed..MaxOwed /\ replies \subseteq Keys
    /\ \A i \in DOMAIN payments : payments[i] \in
        [from : People, amount : 1..(MaxOwed + 1) * MaxPayments, timer : 0..3,
         link : 0..MaxLinks, key : Keys \cup {NoKey},
         status : {"created", "awaiting", "in_flight", "confirmed", "failed", "lapsed",
                   "manually_confirmed"}]
    /\ \A l \in DOMAIN payLinks : payLinks[l].shows \in 0..Len(payments)
    /\ deleted \in BOOLEAN

\* A write asked again under its key, because its answer was lost, was made
\* once (call).
OncePerKey ==
    \A i, j \in DOMAIN payments : payments[i].key = payments[j].key /\ payments[i].key # NoKey => i = j

\* Once a pay link's debt was paid from the link, marked as settled, or said and
\* confirmed, opening the link makes no invoice, though as much is owed again
\* (openPayLink, settledOutsideLink).
SpentLinkMintsNothing ==
    \A l \in DOMAIN payLinks :
        (\E i \in DOMAIN payments : i > payLinks[l].since /\ payments[i].from = payLinks[l].from
                /\ payments[i].amount >= payLinks[l].amount /\ InLedger(payments[i])) =>
            \A i \in DOMAIN payments' : payments'[i].link = l /\ payments'[i].status = "created" =>
                i \in DOMAIN payments
=============================================================================
