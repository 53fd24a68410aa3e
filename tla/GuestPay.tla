----------------------------- MODULE GuestPay -----------------------------
(***************************************************************************)
(* The page of a pay link (GuestPayScreen): opening the link, choosing a   *)
(* way to pay, following the invoice, and saying it was paid by UPI, with  *)
(* the link's routes (routes/payLinks.ts).  Others pay, claim and answer   *)
(* around it.                                                              *)
(*                                                                         *)
(* One debt and one page.  An invoice still in flight is awaiting here.    *)
(***************************************************************************)
EXTENDS Naturals, FiniteSets, Sequences

CONSTANTS
    FromGroup,      \* reached from the group's page: Lightning was chosen there
    Others,         \* what goes on around the page
    MaxInvoices, MaxNet

\* Assumed of the constants, wherever they are given values.
GuestPayAssumption ==
    /\ FromGroup \in BOOLEAN /\ MaxInvoices \in Nat \ {0} /\ MaxNet \in Nat \ {0}
    /\ Others \subseteq {"claim", "pay", "open", "debt", "ways"}

VARIABLES
    ways,        \* how the person owed can be paid on a link
    debt,        \* owed, smaller than the link says, or settled since it was made
    invoices,    \* the link's settlements, in order
    elsewhere,   \* a payment for the debt is in progress that is not the link's
    claim,       \* upi_claims for the debt
    page,        \* what the page holds
    opening,     \* requests to open the link
    reading,     \* what the poll in flight has read
    checked,     \* a check was told the claim is answered
    saying,      \* requests that say it was paid
    proving,     \* a proof on its way
    said         \* the claim this page was told is made and nobody answered yet

server == <<ways, debt, invoices, elsewhere, claim>>
requests == <<opening, reading, checked, saying, proving>>
vars == <<server, page, requests, said>>

Statuses == {"created", "awaiting", "failed", "expired", "paid"}
View == [status : Statuses \cup {"none"}, invoice : 0..MaxInvoices,
         claim : {"none", "pending", "declined"}, ways : SUBSET {"upi", "lightning"}]
NoView == [status |-> "none", invoice |-> 0, claim |-> "none", ways |-> {}]
Failed == [NoView EXCEPT !.invoice = MaxInvoices + 1]    \* an error for an answer

Init ==
    /\ ways = {"upi", "lightning"} /\ debt = "owed" /\ invoices = <<>>
    /\ elsewhere = FALSE /\ claim = "none"
    /\ page = [load |-> "loading", view |-> NoView, byUpi |-> FALSE, busy |-> FALSE,
               replays |-> FALSE,
               rail |-> IF FromGroup THEN "lightning" ELSE "any", polls |-> FALSE]
    /\ opening = {[mine |-> TRUE, rail |-> page.rail, answer |-> NoView, served |-> FALSE]}
    /\ reading = NoView /\ checked = FALSE /\ saying = {} /\ proving = [invoice |-> 0, served |-> FALSE]
    /\ said = FALSE

-----------------------------------------------------------------------------
(* routes/payLinks.ts                                                      *)

Latest == IF invoices = <<>> THEN NoView.status ELSE invoices[Len(invoices)].status
InProgress(i) == invoices[i].status \in {"created", "awaiting"} /\ ~invoices[i].late
LatestInProgress == invoices # <<>> /\ InProgress(Len(invoices))

\* Paid through the link, or settled some other way since it was made.
Settled == debt = "settled"

LiveClaim == IF debt = "owed" THEN claim ELSE "none"

\* Of the latest in the list, unless something else settled the debt.
GuestView(list) ==
    LET own == Len(list)
        status == IF own = 0 THEN "none" ELSE list[own].status
    IN IF status # "paid" /\ Settled
       THEN [status |-> "paid", invoice |-> 0, claim |-> "none", ways |-> ways]
       ELSE [status |-> status, invoice |-> own, claim |-> LiveClaim, ways |-> ways]

\* Nothing to mint: what there is is shown.
Returned == LatestInProgress \/ Latest = "paid" \/ Settled

\* POST /s/:token/open
Mints(rail) ==
    /\ ~Returned /\ debt = "owed"
    /\ LiveClaim # "pending" /\ ("upi" \in ways => rail = "lightning")
    /\ "lightning" \in ways /\ ~elsewhere

OpenFails(rail) ==
    /\ ~Returned
    /\ \/ debt # "owed" \/ ways = {}
       \/ /\ LiveClaim # "pending" /\ ("upi" \in ways => rail = "lightning")
          /\ "lightning" \notin ways \/ elsewhere

ServeOpen(o) ==
    /\ o \in opening /\ ~o.served
    /\ invoices' = IF Mints(o.rail) THEN Append(invoices, [status |-> "created", late |-> FALSE,
                                                           money |-> FALSE])
                   ELSE invoices
    /\ Len(invoices') <= MaxInvoices
    /\ opening' = (opening \ {o}) \cup
           IF o.mine THEN {[o EXCEPT !.served = TRUE,
                            !.answer = IF OpenFails(o.rail) THEN Failed ELSE GuestView(invoices')]}
           ELSE {}
    /\ UNCHANGED <<ways, debt, elsewhere, claim, page, reading, checked, saying, proving, said>>

\* POST /s/:token/upi-claims; a claim already waiting is left as it is.  An
\* answer kept under the request's key is given again.
ClaimRefused ==
    \/ Latest = "paid" \/ debt # "owed" \/ "upi" \notin ways
    \/ elsewhere \/ \E i \in DOMAIN invoices : InProgress(i)

ServeClaim(q) ==
    /\ q \in saying /\ ~q.served
    /\ LET again == q.mine /\ page.replays IN
       /\ claim' = IF again \/ ClaimRefused THEN claim ELSE "pending"
       /\ saying' = (saying \ {q}) \cup
              IF again \/ ~ClaimRefused THEN {[q EXCEPT !.served = TRUE]} ELSE {}
       /\ page' = IF q.mine /\ ~ClaimRefused THEN [page EXCEPT !.replays = TRUE]
                  ELSE IF q.mine /\ ~again THEN [page EXCEPT !.busy = FALSE] ELSE page
    /\ UNCHANGED <<ways, debt, invoices, elsewhere, opening, reading, checked, proving, said>>

\* POST /s/:token/proof, for any invoice of the link.
ServeProof ==
    /\ proving.invoice # 0 /\ ~proving.served
    /\ invoices' = [invoices EXCEPT ![proving.invoice].status = "paid"]
    /\ debt' = "settled"
    /\ proving' = [proving EXCEPT !.served = TRUE]
    /\ UNCHANGED <<ways, elsewhere, claim, page, opening, reading, checked, saying, said>>

-----------------------------------------------------------------------------
(* What the page shows                                                     *)

UpiOffered(p) == "upi" \in p.view.ways /\ ~FromGroup

\* The countdown is the page's own: past it, the invoice is dead on screen.
Lapsed(p) == p.view.invoice # 0 /\ invoices[p.view.invoice].late

Shows(p) ==
    CASE p.load # "ready" -> p.load
      [] p.view.status = "paid" -> "paid"
      [] p.view.claim = "pending" -> "waiting"
      [] UpiOffered(p) /\ (p.byUpi \/ (p.view.status = "none" /\ "lightning" \notin p.view.ways)) -> "upi"
      [] p.view.status = "none" /\ UpiOffered(p) -> "choice"
      [] p.view.status \in {"none", "created"} -> "minting"
      [] p.view.status = "failed" -> "notThrough"
      [] p.view.status = "expired" \/ Lapsed(p) -> "dead"
      [] OTHER -> "invoice"

\* Leaving the UPI panel takes its keys with it.
Shown(p) ==
    LET stays == Shows(page) = "upi" /\ Shows(p) = "upi" IN
    /\ page' = [p EXCEPT !.busy = @ /\ stays, !.replays = @ /\ stays]
    /\ saying' = IF stays THEN saying ELSE {[q EXCEPT !.mine = FALSE] : q \in saying}

Ready(v) == [page EXCEPT !.load = "ready", !.view = v]

\* The request before is not listened to any more, though it may still be served.
StillMine(reqs) == {[o EXCEPT !.mine = FALSE] : o \in {q \in reqs : ~q.served}}

StopPolling == reading' = NoView

Open(rail) ==
    /\ opening' = StillMine(opening)
           \cup {[mine |-> TRUE, rail |-> rail, answer |-> NoView, served |-> FALSE]}
    /\ Cardinality(opening') <= MaxNet
    /\ StopPolling

\* The link is opened again: a change of attempt or rail.
Reload(p) ==
    /\ Shown([p EXCEPT !.load = "loading", !.polls = FALSE])
    /\ Open(p.rail)
    /\ UNCHANGED <<proving, said>>

-----------------------------------------------------------------------------
(* Answers                                                                 *)

OpenAnswered(o) ==
    /\ o \in opening /\ o.mine /\ o.served
    /\ Shown(IF o.answer = Failed THEN [page EXCEPT !.load = "failed"]
             ELSE [Ready(o.answer) EXCEPT !.polls = TRUE])
    /\ opening' = opening \ {o}
    /\ UNCHANGED <<server, reading, checked, proving, said>>

\* It, or its answer, was lost.
OpenLost(o) ==
    /\ o \in opening /\ o.mine
    /\ Shown([page EXCEPT !.load = "failed"])
    /\ opening' = opening \ {o}
    /\ UNCHANGED <<server, reading, checked, proving, said>>

Poll ==
    /\ page.polls /\ reading = NoView
    /\ reading' = GuestView(invoices)
    /\ UNCHANGED <<server, page, opening, checked, saying, proving, said>>

\* The last one is of a settlement that has ended.
PollAnswered ==
    /\ page.polls /\ reading # NoView
    /\ Shown([Ready(reading) EXCEPT !.polls = reading.status \notin {"failed", "expired", "paid"}])
    /\ reading' = NoView
    /\ UNCHANGED <<server, opening, checked, proving, said>>

\* Every few seconds while a claim waits.
Check ==
    /\ page.load = "ready" /\ page.view.claim = "pending"
    /\ ~checked /\ GuestView(invoices).claim # "pending"
    /\ checked' = TRUE
    /\ UNCHANGED <<server, page, opening, reading, saying, proving, said>>

\* It is not taken back when the page moves on.
CheckAnswered ==
    /\ checked
    /\ Reload(page)
    /\ checked' = FALSE
    /\ UNCHANGED server

\* onSaid, though the panel it was said from be gone.
ClaimAnswered(q) ==
    /\ q \in saying /\ q.served
    /\ LET p == [page EXCEPT !.byUpi = FALSE, !.load = "loading", !.polls = FALSE] IN
       page' = [p EXCEPT !.busy = FALSE, !.replays = FALSE]
    /\ saying' = {[r EXCEPT !.mine = FALSE] : r \in saying \ {q}}
    /\ Open(page.rail)
    /\ said' = (LiveClaim = "pending")
    /\ UNCHANGED <<server, checked, proving>>

ClaimLost(q) ==
    /\ q \in saying
    /\ saying' = saying \ {q}
    /\ page' = IF q.mine THEN [page EXCEPT !.busy = FALSE] ELSE page
    /\ UNCHANGED <<server, opening, reading, checked, proving, said>>

\* sendProof: the answer is shown wherever the page is by then.
ProofAnswered ==
    /\ proving.served
    /\ Shown(Ready([status |-> "paid", invoice |-> proving.invoice, claim |-> "none",
                    ways |-> ways]))
    /\ proving' = [invoice |-> 0, served |-> FALSE]
    /\ UNCHANGED <<server, opening, reading, checked, said>>

ProofLost ==
    /\ proving.invoice # 0
    /\ proving' = [invoice |-> 0, served |-> FALSE]
    /\ UNCHANGED <<server, page, opening, reading, checked, saying, said>>

-----------------------------------------------------------------------------
(* Taps                                                                    *)

PayByUpi ==
    /\ \/ Shows(page) = "choice" \/ (Shows(page) \in {"notThrough", "dead"} /\ UpiOffered(page))
    /\ Shown([page EXCEPT !.byUpi = TRUE])
    /\ UNCHANGED <<server, opening, reading, checked, proving, said>>

PayWithLightning ==
    /\ \/ Shows(page) = "choice" \/ (Shows(page) = "upi" /\ "lightning" \in page.view.ways)
    /\ Reload([page EXCEPT !.byUpi = FALSE, !.rail = "lightning"])
    /\ UNCHANGED <<server, checked>>

\* Try again, or a new invoice for one that is dead.
Retry ==
    /\ Shows(page) \in {"failed", "notThrough", "dead"}
    /\ Reload(page)
    /\ UNCHANGED <<server, checked>>

SayPaid ==
    /\ Shows(page) = "upi" /\ ~page.busy
    /\ saying' = saying \cup {[mine |-> TRUE, served |-> FALSE]}
    /\ Cardinality(saying') <= MaxNet
    /\ page' = [page EXCEPT !.busy = TRUE]
    /\ UNCHANGED <<server, opening, reading, checked, proving, said>>

\* In a wallet; what it pays need not be in time to be seen.
Pay ==
    /\ Shows(page) = "invoice"
    /\ invoices' = [invoices EXCEPT ![page.view.invoice].money = TRUE]
    /\ UNCHANGED <<ways, debt, elsewhere, claim, page, requests, said>>

SendProof(i) ==
    /\ Shows(page) \in {"invoice", "dead"} /\ proving.invoice = 0
    /\ invoices[i].money
    /\ proving' = [invoice |-> i, served |-> FALSE]
    /\ UNCHANGED <<server, page, opening, reading, checked, saying, said>>

-----------------------------------------------------------------------------
(* Around the page                                                         *)

Around == UNCHANGED <<page, requests>>

\* The invoice is made or refused, its time passes, and what became of it is seen.
InvoiceMoves(i) ==
    LET now == invoices[i] IN
    /\ Around /\ UNCHANGED <<ways, elsewhere, claim, said>>
    /\ \/ /\ now.status = "created" /\ ~now.late
          /\ \E to \in {"awaiting", "failed"} : invoices' = [invoices EXCEPT ![i].status = to]
          /\ UNCHANGED debt
       \/ /\ now.status = "awaiting" /\ ~now.late
          /\ invoices' = [invoices EXCEPT ![i].late = TRUE]
          /\ UNCHANGED debt
       \/ /\ now.status = "awaiting" /\ now.late /\ ~now.money
          /\ invoices' = [invoices EXCEPT ![i].status = "expired"]
          /\ UNCHANGED debt
       \/ /\ now.status \in {"awaiting", "expired"} /\ now.money
          /\ invoices' = [invoices EXCEPT ![i].status = "paid"]
          /\ debt' = "settled"

\* The person owed answers.
ClaimIsAnswered ==
    /\ LiveClaim = "pending"
    /\ \/ claim' = "declined" /\ UNCHANGED debt
       \/ claim' = "none" /\ debt' = "settled"
    /\ said' = FALSE
    /\ Around /\ UNCHANGED <<ways, invoices, elsewhere>>

\* From the app or the group's page.
OthersClaim ==
    /\ "claim" \in Others
    /\ debt = "owed" /\ claim # "pending" /\ ~elsewhere
    /\ \A i \in DOMAIN invoices : ~InProgress(i)
    /\ claim' = "pending"
    /\ Around /\ UNCHANGED <<ways, debt, invoices, elsewhere, said>>

OthersPay ==
    /\ "pay" \in Others
    /\ \/ /\ ~elsewhere /\ debt = "owed" /\ \A i \in DOMAIN invoices : ~InProgress(i)
          /\ elsewhere' = TRUE /\ UNCHANGED debt
       \/ /\ elsewhere /\ elsewhere' = FALSE
          /\ debt' \in {debt, "settled"}
    /\ said' = (said /\ debt' = "owed")
    /\ Around /\ UNCHANGED <<ways, invoices, claim>>

\* Another reader of the same link chooses Lightning.
OthersOpen ==
    /\ "open" \in Others
    /\ Mints("lightning") /\ Len(invoices) < MaxInvoices
    /\ invoices' = Append(invoices, [status |-> "created", late |-> FALSE, money |-> FALSE])
    /\ Around /\ UNCHANGED <<ways, debt, elsewhere, claim, said>>

\* What is owed moves, or how they can be paid.
DebtMoves ==
    /\ "debt" \in Others
    /\ debt # "settled" /\ debt' \in {"owed", "less"} \ {debt}
    /\ said' = FALSE
    /\ Around /\ UNCHANGED <<ways, invoices, elsewhere, claim>>

WaysChange ==
    /\ "ways" \in Others
    /\ \E w \in {"upi", "lightning"} : ways' = IF w \in ways THEN ways \ {w} ELSE ways \cup {w}
    /\ Around /\ UNCHANGED <<debt, invoices, elsewhere, claim, said>>

Next ==
    \/ \E o \in opening : ServeOpen(o) \/ OpenAnswered(o) \/ OpenLost(o)
    \/ \E q \in saying : ServeClaim(q) \/ ClaimAnswered(q) \/ ClaimLost(q)
    \/ ServeProof \/ ProofAnswered \/ ProofLost
    \/ Poll \/ PollAnswered \/ Check \/ CheckAnswered
    \/ PayByUpi \/ PayWithLightning \/ Retry \/ SayPaid \/ Pay
    \/ \E i \in DOMAIN invoices : SendProof(i) \/ InvoiceMoves(i)
    \/ ClaimIsAnswered \/ OthersClaim \/ OthersPay \/ OthersOpen \/ DebtMoves \/ WaysChange

Spec == Init /\ [][Next]_vars

-----------------------------------------------------------------------------

TypeOK ==
    /\ ways \subseteq {"upi", "lightning"} /\ debt \in {"owed", "less", "settled"}
    /\ \A i \in DOMAIN invoices : invoices[i] \in [status : Statuses, late : BOOLEAN,
                                                   money : BOOLEAN]
    /\ claim \in {"none", "pending", "declined"} /\ elsewhere \in BOOLEAN
    /\ page.view \in View /\ page.load \in {"loading", "ready", "failed"}
    /\ proving.invoice \in 0..MaxInvoices

\* Once the page was told its word was taken, it never offers to pay again
\* until the person owed has answered: no answer from before the word, of a
\* poll or of an earlier opening, is shown after it (GuestPay's effects).
SaidIsWaitedFor == said => Shows(page) \in {"loading", "failed", "waiting", "paid"}

\* An invoice on screen with time left is the newest of its link: nobody is
\* shown one that another has replaced (POST /s/:token/open).
ShownInvoiceIsNewest == Shows(page) = "invoice" => page.view.invoice = Len(invoices)
=============================================================================
