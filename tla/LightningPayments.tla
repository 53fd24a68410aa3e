------------------------- MODULE LightningPayments -------------------------
(***************************************************************************)
(* How the API server takes a settlement from "created" to its outcome     *)
(* with real payments: apps/api/src/payments/lightning.ts, the settlement  *)
(* routes that start, record and prove payments, the rules they share      *)
(* (settlementRules.ts), the boot code of server.ts and the wallet routes. *)
(*                                                                         *)
(* One payee is owed by several payers; a member of Pairs stands for a     *)
(* (payer, payee) pair of one group.  A settlement's database row is       *)
(* row[s]; mint[s] and watch[s] are the server's memory (the mint() call   *)
(* suspended at an await, and the entry of the `watched` map with the      *)
(* answer its lookup is waiting for).  invoice[h] is the Lightning world:  *)
(* what the payee's wallet or address provider really holds for a hash.    *)
(* Time is in ticks; the timing constants keep the order of the code's     *)
(* (QUOTE_TTL_MS 90 s, EXPIRY_GRACE_MS 30 s, request timeouts 15 s, ...).   *)
(***************************************************************************)
EXTENDS Integers, FiniteSets, Functions, TLC

CONSTANTS
    Settlements,      \* settlement ids
    Pairs,            \* payers of the one payee, one group
    Owed,             \* Owed[p]: what p owes from the expenses alone
    Hashes, NoHash,   \* payment hashes
    Wallets, NoWallet,\* NWC connections the payee may have
    StatesExpiry,     \* the wallets whose lookup answer carries expires_at
    MayHaveAddress,   \* whether the payee may set a receive address
    QuoteTTL,         \* QUOTE_TTL_MS
    RequestTimeout,   \* the longest a rate, mint or lookup call hangs
    Grace,            \* EXPIRY_GRACE_MS
    RecordLag,        \* how late a paid invoice shows up in the wallet's records
    MaxWatch,         \* MAX_WATCH_MS
    GiveUp,           \* UNREACHABLE_GIVE_UP_MS
    LongestInvoice,   \* the longest life a provider gives an address invoice
    LastStart,        \* bound: no payment is started after this time
    MaxNow,           \* bound: the clock stops here
    MaxCrashes        \* bound on server crashes

ASSUME ConstantsAssumption ==
    /\ NoHash \notin Hashes
    /\ NoWallet \notin Wallets
    /\ StatesExpiry \subseteq Wallets
    /\ MayHaveAddress \in BOOLEAN
    /\ Owed \in [Pairs -> Nat]
    /\ {QuoteTTL, RequestTimeout, Grace, RecordLag, MaxWatch, GiveUp,
        LongestInvoice, LastStart, MaxNow, MaxCrashes} \subseteq Nat
    /\ QuoteTTL > 0

\* What EXPIRY_GRACE_MS is for: a payment in the last second "can take a moment
\* to show up", and the lookup that missed it may still take its time.
ASSUME GraceAssumption == RecordLag + RequestTimeout <= Grace

VARIABLES
    now,      \* the clock
    server,   \* the server process: up or down
    crashes,  \* how often it has crashed
    wallet,   \* the payee's NWC connection, or NoWallet
    address,  \* whether the payee has a receive address
    row,      \* the settlements table
    mint,     \* mint() calls suspended at an await
    watch,    \* the `watched` map, with the answer its lookup awaits
    invoice   \* the invoices that exist, by payment hash

vars == <<now, server, crashes, wallet, address, row, mint, watch, invoice>>

---------------------------------------------------------------------------
(* Rows, and the questions the code asks of them *)

(* row.via is how a payment would be learnt of (receive_via with           *)
(* verify_url): by asking the payee's wallet, by asking the address's      *)
(* verify link, or for want of one only by the payer's proof.  ends is     *)
(* invoice_expires_at, kept for address invoices only.                     *)

Statuses == {"none", "created", "awaiting_payment", "confirmed", "failed",
             "expired", "manually_confirmed"}
Settled  == {"confirmed", "manually_confirmed"}        \* LEDGER_STATUSES
Terminal == Settled \cup {"failed", "expired"}         \* TERMINAL_STATUSES

\* Why a row was closed, as far as its failure reason tells the payer.
Reasons == {"none", "nothing_moved", "unreachable", "untellable"}

Row == [status: Statuses, pair: Pairs \cup {"none"}, amount: Nat,
        via: {"none", "nwc", "verify", "proof"}, hash: Hashes \cup {NoHash},
        quoteEnd: Nat, createdAt: Nat, ends: Nat, why: Reasons]

NoRow == [status |-> "none", pair |-> "none", amount |-> 0, via |-> "none",
          hash |-> NoHash, quoteEnd |-> 0, createdAt |-> 0, ends |-> 0, why |-> "none"]

MintCall == [pc: {"idle", "quoting", "nwc", "address"},
             wallet: Wallets \cup {NoWallet}, reqAt: Nat, quoteEnd: Nat]
NoMint   == [pc |-> "idle", wallet |-> NoWallet, reqAt |-> 0, quoteEnd |-> 0]

Watched == [via: {"none", "nwc", "verify", "proof"},
            wallet: Wallets \cup {NoWallet}, until: Nat,
            ans: {"none", "settled", "failed", "expired", "unsettled", "unreachable"},
            at: Nat]
NoWatch == [via |-> "none", wallet |-> NoWallet, until |-> 0,
            ans |-> "none", at |-> 0]

Invoice   == [state: {"none", "open", "paid", "recorded", "cancelled"},
              wallet: Wallets \cup {NoWallet}, ends: Int]
NoInvoice == [state |-> "none", wallet |-> NoWallet, ends |-> 0]

\* Not finished, and not an invoice whose quote has lapsed.
IsInProgress(s) ==
    \/ row[s].status = "created"
    \/ row[s].status = "awaiting_payment" /\ row[s].quoteEnd >= now

\* Mutant: only an invoice already out counts as under way.
InvoiceOutFor(p) ==
    \E s \in Settlements :
        row[s].pair = p /\ row[s].status = "awaiting_payment" /\ IsInProgress(s)

\* Some settlement is already running for the pair.
InProgressFor(p) == \E s \in Settlements : row[s].pair = p /\ IsInProgress(s)

\* What is owed right now: the expenses' debt less what has been settled.
Debt(p) ==
    LET settled == {s \in Settlements : row[s].pair = p /\ row[s].status \in Settled}
    IN  Owed[p] - SumFunctionOnSet([s \in Settlements |-> row[s].amount], settled)

\* checkSettlement: something, and no more than is owed.
CheckSettlement(p, amount) == amount \in Nat \ {0} /\ amount <= Debt(p)

CanReceive == wallet # NoWallet \/ address = "set"

\* The payer has the money, whether or not the wallet's records show it yet.
IsPaid(h) == invoice[h].state \in {"paid", "recorded"}

\* Mutant: nobody looks whether the hash is known.
HashNeverTaken(h) == FALSE

\* A settlement already holds this payment hash.
HashTaken(h) == \E t \in Settlements : row[t].hash = h

\* Someone could still pay this settlement's invoice.
IsPayable(s) ==
    /\ row[s].hash \in Hashes
    /\ invoice[row[s].hash].state = "open"
    /\ now < invoice[row[s].hash].ends

Init ==
    /\ now = 0
    /\ server = "up"
    /\ crashes = 0
    /\ wallet \in Wallets \cup {NoWallet}
    /\ address \in IF MayHaveAddress THEN {"unset", "set"} ELSE {"unset"}
    /\ row = [s \in Settlements |-> NoRow]
    /\ mint = [s \in Settlements |-> NoMint]
    /\ watch = [s \in Settlements |-> NoWatch]
    /\ invoice = [h \in Hashes |-> NoInvoice]

---------------------------------------------------------------------------
(* Requests.  Each is one database transaction; minting starts in the same *)
(* step and runs to its first await.                                       *)

\* POST /groups/:id/settlements over a rail that mints an invoice.
PostSettlement(s, p, amount) ==
    /\ server = "up" /\ now <= LastStart
    /\ row[s].status = "none"
    /\ CheckSettlement(p, amount)
    /\ CanReceive
    /\ ~InProgressFor(p)
    /\ row' = [row EXCEPT ![s] = [NoRow EXCEPT !.status = "created", !.pair = p,
                                               !.amount = amount, !.createdAt = now]]
    \* mint() reads the payee's wallet before it waits for a price.
    /\ mint' = [mint EXCEPT ![s] = [NoMint EXCEPT !.pc = "quoting", !.wallet = wallet,
                                                  !.reqAt = now]]
    /\ UNCHANGED <<now, server, crashes, wallet, address, watch, invoice>>

\* The same over rail lightning_address, which real payments refuse at once.
PostUnhandledRail(s, p, amount) ==
    /\ server = "up" /\ now <= LastStart
    /\ row[s].status = "none"
    /\ CheckSettlement(p, amount)
    /\ CanReceive
    /\ ~InProgressFor(p)
    /\ row' = [row EXCEPT ![s] = [NoRow EXCEPT !.status = "failed", !.pair = p, !.amount = amount,
                                               !.createdAt = now, !.why = "nothing_moved"]]
    /\ UNCHANGED <<now, server, crashes, wallet, address, mint, watch, invoice>>

\* POST /groups/:id/settlements/manual: checkNoPaymentUnderWay, then a settled row.
PostManual(s, p, amount) ==
    /\ server = "up" /\ now <= LastStart
    /\ row[s].status = "none"
    /\ CheckSettlement(p, amount)
    /\ ~InProgressFor(p)
    /\ row' = [row EXCEPT ![s] = [NoRow EXCEPT !.status = "manually_confirmed", !.pair = p,
                                               !.amount = amount, !.createdAt = now]]
    /\ UNCHANGED <<now, server, crashes, wallet, address, mint, watch, invoice>>

\* Mutant: the preimage is not compared with the invoice's hash.
SubmitAnyProof(s) ==
    /\ server = "up"
    /\ row[s].hash \in Hashes
    /\ row[s].status \notin Settled
    /\ row' = [row EXCEPT ![s] = [@ EXCEPT !.status = "confirmed", !.why = "none"]]
    /\ UNCHANGED <<now, server, crashes, wallet, address, mint, watch, invoice>>

\* POST /settlements/:id/proof: whoever paid has the preimage (applyProof and
\* the statement confirmWithProof, which skips rows already settled).
SubmitProof(s) ==
    /\ server = "up"
    /\ row[s].hash \in Hashes
    /\ IsPaid(row[s].hash)
    /\ row[s].status \notin Settled
    /\ row' = [row EXCEPT ![s] = [@ EXCEPT !.status = "confirmed", !.why = "none"]]
    /\ UNCHANGED <<now, server, crashes, wallet, address, mint, watch, invoice>>

\* PUT /me/wallet: a new connection replaces the old one, whatever is under way.
ConnectWallet(w) ==
    /\ server = "up"
    /\ w # wallet
    /\ wallet' = w
    /\ UNCHANGED <<now, server, crashes, address, row, mint, watch, invoice>>

\* DELETE /me/wallet: checkNothingIncoming.
DisconnectWallet ==
    /\ server = "up"
    /\ wallet # NoWallet
    /\ \A s \in Settlements : ~IsInProgress(s)
    /\ wallet' = NoWallet
    /\ UNCHANGED <<now, server, crashes, address, row, mint, watch, invoice>>

\* PUT and DELETE /me/receive-address.
ChangeAddress ==
    /\ server = "up" /\ MayHaveAddress
    /\ address' = IF address = "set" THEN "unset" ELSE "set"
    /\ UNCHANGED <<now, server, crashes, wallet, row, mint, watch, invoice>>

---------------------------------------------------------------------------
(* Minting *)

\* fail(): the row is failed whatever its status; the mint call is over.
Fail(s) ==
    /\ row' = [row EXCEPT ![s] = [@ EXCEPT !.status = "failed", !.why = "nothing_moved"]]
    /\ mint' = [mint EXCEPT ![s] = NoMint]

\* The price is in: the quote is pinned, and the wallet the call started with
\* (or, for want of one, the address) is asked for an invoice.
Quoted(s) ==
    /\ mint[s].pc = "quoting"
    /\ mint' = [mint EXCEPT
          ![s] = [@ EXCEPT !.pc = IF mint[s].wallet # NoWallet THEN "nwc" ELSE "address",
          !.reqAt = now, !.quoteEnd = now + QuoteTTL]]
    /\ UNCHANGED <<now, server, crashes, wallet, address, row, watch, invoice>>

\* No price, no answer in time, a refusal, the limit on mints for an address,
\* or an invoice that does not pass the checks.
MintFails(s) ==
    /\ mint[s].pc # "idle"
    /\ Fail(s)
    /\ UNCHANGED <<now, server, crashes, wallet, address, watch, invoice>>

\* The invoice was given to us before: refused, so that one payment cannot
\* confirm two settlements.
KnownInvoice(s, h) ==
    /\ mint[s].pc \in {"nwc", "address"}
    /\ HashTaken(h)
    /\ Fail(s)
    /\ UNCHANGED <<now, server, crashes, wallet, address, watch, invoice>>

\* Mutant: store() moves the row on without its hash.
StoreWithoutHash(s, h, via, ends) ==
    row' = [row EXCEPT ![s] = [@ EXCEPT !.status = "awaiting_payment", !.via = via,
                       !.quoteEnd = mint[s].quoteEnd,
                       !.ends = ends]]

\* store(): hash, quote and status are written together.
Store(s, h, via, ends) ==
    row' = [row EXCEPT ![s] = [@ EXCEPT !.status = "awaiting_payment", !.hash = h, !.via = via,
                       !.quoteEnd = mint[s].quoteEnd,
                       !.ends = ends]]

\* The watch on an address invoice: asked about, or waited out.
WatchAddress(via, mintedAt, ends) ==
    [NoWatch EXCEPT !.via = via,
                    !.until = IF ends < mintedAt + MaxWatch THEN ends ELSE mintedAt + MaxWatch]

\* mintNwc: the seconds asked for are what is left of the quote at the request.
ExpirySec(s) == mint[s].quoteEnd - mint[s].reqAt

\* The wallet's invoice lives for the seconds the server asked for, counted
\* from the moment `at` the wallet made it.
NwcInvoice(s, h, at) ==
    /\ mint[s].pc = "nwc"
    /\ ~HashTaken(h)
    /\ at \in mint[s].reqAt .. now
    /\ Store(s, h, "nwc", 0)
    /\ mint' = [mint EXCEPT ![s] = NoMint]
    /\ watch' = [watch EXCEPT ![s] = [NoWatch EXCEPT !.via = "nwc", !.wallet = mint[s].wallet]]
    /\ invoice' = IF invoice[h].state # "none" THEN invoice ELSE
          [invoice EXCEPT ![h] = [state |-> "open", wallet |-> mint[s].wallet,
                                  ends |-> at + ExpirySec(s)]]
    /\ UNCHANGED <<now, server, crashes, wallet, address>>

\* The provider's invoice ends when the provider says, in the future when it comes.
AddressInvoice(s, h, ends, via) ==
    /\ mint[s].pc = "address"
    /\ ~HashTaken(h)
    /\ now < ends
    /\ Store(s, h, via, ends)
    /\ mint' = [mint EXCEPT ![s] = NoMint]
    /\ watch' = [watch EXCEPT ![s] = WatchAddress(via, now, ends)]
    /\ invoice' = IF invoice[h].state # "none" THEN invoice ELSE
          [invoice EXCEPT ![h] = [state |-> "open", wallet |-> NoWallet, ends |-> ends]]
    /\ UNCHANGED <<now, server, crashes, wallet, address>>

---------------------------------------------------------------------------
(* Confirmation.  A lookup is answered by the wallet or provider at one    *)
(* moment (watch[s].at) and acted on at a later one.                       *)

\* Mutant: finish() without looking at the row first.
FinishAnyRow(s, status, why) ==
    /\ watch' = [watch EXCEPT ![s] = NoWatch]
    /\ row' = [row EXCEPT ![s] = [@ EXCEPT !.status = status, !.why = why]]

\* finish(): stops watching, and moves the row only if it is still open.
Finish(s, status, why) ==
    /\ watch' = [watch EXCEPT ![s] = NoWatch]
    /\ row' = IF row[s].status # "awaiting_payment" THEN row ELSE
          [row EXCEPT ![s] = [@ EXCEPT !.status = status, !.why = why]]

\* What the wallet's records say of an invoice that is not pending.
WalletSays(h) ==
    CASE invoice[h].state = "recorded" -> "settled"
      [] invoice[h].state = "cancelled" -> "failed"
      [] invoice[h].state \in {"open", "paid"} /\ now >= invoice[h].ends -> "expired"
      [] OTHER -> "none"

Answer(s, ans) ==
    /\ watch' = [watch EXCEPT ![s] = [@ EXCEPT !.ans = ans, !.at = now]]
    /\ UNCHANGED <<now, server, crashes, wallet, address, row, mint, invoice>>

\* lookup_invoice is answered by the wallet this watch asks; another wallet
\* does not know the invoice, and a pending one changes nothing.
NwcAnswers(s) ==
    /\ watch[s].via = "nwc" /\ watch[s].ans = "none"
    /\ watch[s].wallet = invoice[row[s].hash].wallet
    /\ WalletSays(row[s].hash) # "none"
    /\ Answer(s, WalletSays(row[s].hash))

\* The verify link is answered, or cannot be asked.
VerifyAnswers(s) ==
    /\ watch[s].via = "verify" /\ watch[s].ans = "none"
    /\ Answer(s, IF invoice[row[s].hash].state = "recorded" THEN "settled" ELSE "unsettled")

VerifyUnreachable(s) ==
    /\ watch[s].via = "verify" /\ watch[s].ans = "none"
    /\ Answer(s, "unreachable")

---------------------------------------------------------------------------
(* Acting on an answer *)

\* Mutant: `expired` is believed as soon as the wallet says it.
BelieveAtOnce(s) == TRUE

\* `expired` is believed once the grace is over, if the answer says when the
\* invoice ended; a wallet that leaves expires_at out is believed at once.
BelieveExpired(s) ==
    watch[s].wallet \in StatesExpiry => now >= invoice[row[s].hash].ends + Grace

CheckNwc(s) ==
    /\ watch[s].via = "nwc"
    /\ \/ watch[s].ans = "settled" /\ Finish(s, "confirmed", "none")
       \/ watch[s].ans = "failed" /\ Finish(s, "failed", "nothing_moved")
       \/ watch[s].ans = "expired" /\ BelieveExpired(s) /\ Finish(s, "expired", "none")
       \/ /\ watch[s].ans = "expired" /\ ~BelieveExpired(s)
          /\ watch' = [watch EXCEPT ![s] = [@ EXCEPT !.ans = "none", !.at = 0]]
          /\ UNCHANGED row
    /\ UNCHANGED <<now, server, crashes, wallet, address, mint, invoice>>

\* Unreachable is "don't know": the loop asks again until long after the end.
CheckVerify(s) ==
    LET patience == IF watch[s].ans = "unreachable" THEN GiveUp ELSE Grace
        over     == now >= watch[s].until + patience
    IN  /\ watch[s].via = "verify"
        /\ \/ watch[s].ans = "settled" /\ Finish(s, "confirmed", "none")
           \/ watch[s].ans = "unsettled" /\ over /\ Finish(s, "expired", "none")
           \/ watch[s].ans = "unreachable" /\ over /\ Finish(s, "expired", "unreachable")
           \/ /\ watch[s].ans \in {"unsettled", "unreachable"} /\ ~over
              /\ watch' = [watch EXCEPT ![s] = [@ EXCEPT !.ans = "none", !.at = 0]]
              /\ UNCHANGED row
        /\ UNCHANGED <<now, server, crashes, wallet, address, mint, invoice>>

\* Nobody to ask: closed when its time is over, saying we could not tell.
CheckProofOnly(s) ==
    /\ watch[s].via = "proof"
    /\ now >= watch[s].until + Grace
    /\ Finish(s, "expired", "untellable")
    /\ UNCHANGED <<now, server, crashes, wallet, address, mint, invoice>>

---------------------------------------------------------------------------
(* Crash and restart *)

\* Whatever is only in memory is gone.
Crash ==
    /\ server = "up" /\ crashes < MaxCrashes
    /\ server' = "down"
    /\ crashes' = crashes + 1
    /\ mint' = [s \in Settlements |-> NoMint]
    /\ watch' = [s \in Settlements |-> NoWatch]
    /\ UNCHANGED <<now, wallet, address, row, invoice>>

\* Mutant: resume() picks up address invoices only.
ResumedAddress(s) ==
    IF row[s].status = "awaiting_payment" /\ row[s].via \in {"verify", "proof"}
    THEN WatchAddress(row[s].via, row[s].createdAt, row[s].ends)
    ELSE NoWatch

\* resume(): an open invoice is watched again, an NWC one through the wallet
\* the payee has now, so not at all if there is none.
Resumed(s) ==
    IF row[s].status # "awaiting_payment" THEN NoWatch
    ELSE IF row[s].via \in {"verify", "proof"}
         THEN WatchAddress(row[s].via, row[s].createdAt, row[s].ends)
    ELSE IF wallet = NoWallet THEN NoWatch
    ELSE [NoWatch EXCEPT !.via = "nwc", !.wallet = wallet]

\* Mutant: the boot statement closes invoices that are out, too.
BootFailsAll ==
    /\ server = "down"
    /\ server' = "up"
    /\ row' = [s \in Settlements |->
                  IF row[s].status \notin {"created", "awaiting_payment"} THEN row[s] ELSE
                  [row[s] EXCEPT !.status = "failed", !.why = "nothing_moved"]]
    /\ watch' = [s \in Settlements |-> NoWatch]
    /\ UNCHANGED <<now, crashes, wallet, address, mint, invoice>>

\* A row that never got its invoice to anyone is failed; the rest is resumed.
Boot ==
    /\ server = "down"
    /\ server' = "up"
    /\ row' = [s \in Settlements |-> IF row[s].status # "created" THEN row[s] ELSE
                  [row[s] EXCEPT !.status = "failed", !.why = "nothing_moved"]]
    /\ watch' = [s \in Settlements |-> Resumed(s)]
    /\ UNCHANGED <<now, crashes, wallet, address, mint, invoice>>

---------------------------------------------------------------------------
(* The world: payers, wallets, time *)

\* An invoice the server has shown is paid while it lives.
Pay(s) ==
    /\ IsPayable(s)
    /\ invoice' = [invoice EXCEPT ![row[s].hash] = [@ EXCEPT !.state = "paid"]]
    /\ UNCHANGED <<now, server, crashes, wallet, address, row, mint, watch>>

\* The payment shows up in the payee's wallet's records.
RecordPayment(h) ==
    /\ invoice[h].state = "paid"
    /\ invoice' = [invoice EXCEPT ![h] = [@ EXCEPT !.state = "recorded"]]
    /\ UNCHANGED <<now, server, crashes, wallet, address, row, mint, watch>>

\* The payee's own wallet gives an unpaid invoice up.
CancelInvoice(h) ==
    /\ invoice[h].state = "open" /\ invoice[h].wallet \in Wallets
    /\ invoice' = [invoice EXCEPT ![h] = [@ EXCEPT !.state = "cancelled"]]
    /\ UNCHANGED <<now, server, crashes, wallet, address, row, mint, watch>>

\* No call hangs past its timeout, and no payment stays out of the wallet's
\* records longer than RecordLag past the invoice's end.
Prompt ==
    /\ \A s \in Settlements : mint[s].pc # "idle" => now < mint[s].reqAt + RequestTimeout
    /\ \A s \in Settlements : watch[s].ans # "none" => now < watch[s].at + RequestTimeout
    /\ \A h \in Hashes : invoice[h].state = "paid" => now + 1 < invoice[h].ends + RecordLag

Tick ==
    /\ now < MaxNow
    /\ Prompt
    /\ now' = now + 1
    /\ UNCHANGED <<server, crashes, wallet, address, row, mint, watch, invoice>>

---------------------------------------------------------------------------
Request ==
    \/ \E s \in Settlements, p \in Pairs : \E amount \in 1 .. Debt(p) :
          PostSettlement(s, p, amount) \/ PostUnhandledRail(s, p, amount) \/ PostManual(s, p, amount)
    \/ \E s \in Settlements : SubmitProof(s)
    \/ \E w \in Wallets : ConnectWallet(w)
    \/ DisconnectWallet
    \/ ChangeAddress

Minting(s) ==
    \/ Quoted(s)
    \/ MintFails(s)
    \/ \E h \in Hashes :
          \/ KnownInvoice(s, h)
          \/ \E at \in 0 .. now : NwcInvoice(s, h, at)
          \/ \E life \in 1 .. LongestInvoice, via \in {"verify", "proof"} :
                AddressInvoice(s, h, now + life, via)

Ask(s) == NwcAnswers(s) \/ VerifyAnswers(s) \/ VerifyUnreachable(s)
Check(s) == CheckNwc(s) \/ CheckVerify(s) \/ CheckProofOnly(s)

World ==
    \/ \E s \in Settlements : Pay(s)
    \/ \E h \in Hashes : RecordPayment(h) \/ CancelInvoice(h)
    \/ Tick

Next ==
    \/ Request
    \/ \E s \in Settlements : Minting(s) \/ Ask(s) \/ Check(s)
    \/ Crash \/ Boot
    \/ World

\* The event loop runs, a crashed server is started again, calls are answered
\* or time out, and time passes.  Nobody has to pay, prove or request anything.
Fairness ==
    /\ \A s \in Settlements : WF_vars(Minting(s)) /\ WF_vars(Ask(s)) /\ WF_vars(Check(s))
    /\ \A h \in Hashes : WF_vars(RecordPayment(h))
    /\ WF_vars(Boot)
    /\ WF_vars(Tick)

Spec == Init /\ [][Next]_vars
FairSpec == Spec /\ Fairness

---------------------------------------------------------------------------
(* Properties *)

\* The types of the server's rows and memory and of the invoices.
TypeOK ==
    /\ now \in Nat /\ crashes \in Nat
    /\ server \in {"up", "down"} /\ address \in {"unset", "set"}
    /\ wallet \in Wallets \cup {NoWallet}
    /\ row \in [Settlements -> Row]
    /\ mint \in [Settlements -> MintCall]
    /\ watch \in [Settlements -> Watched]
    /\ invoice \in [Hashes -> Invoice]

\* A pair has at most one payment under way (inProgressFor guards every route
\* that starts one), whatever the interleaving of mints, lapses and restarts.
OneInProgress ==
    \A s, t \in Settlements :
        IsInProgress(s) /\ IsInProgress(t) /\ row[s].pair = row[t].pair => s = t

\* A settlement the server calls confirmed was paid, by a payment that
\* confirms no other settlement (lightning.ts, store(): one hash, one settlement).
ConfirmedIsPaid ==
    \A s \in Settlements : row[s].status = "confirmed" =>
        /\ row[s].hash \in Hashes /\ IsPaid(row[s].hash)
        /\ \A t \in Settlements \ {s} :
              row[t].status = "confirmed" => row[t].hash # row[s].hash

\* "Nothing moved": a failed settlement has no invoice that was paid.
FailedIsUnpaid ==
    \A s \in Settlements :
        row[s].status = "failed" /\ row[s].hash \in Hashes => ~IsPaid(row[s].hash)

\* The invoice of s was asked about to its end, by someone who says when that is.
WatchedToItsEnd(s) ==
    IF row[s].via = "nwc" THEN invoice[row[s].hash].wallet \in StatesExpiry
    ELSE row[s].via = "verify" /\ row[s].ends <= row[s].createdAt + MaxWatch

\* The outcome of a settlement, as the people in the group see it.
OutcomeOf(s) ==
    CASE row[s].status = "none" -> "none"
      [] row[s].status \in {"created", "awaiting_payment"} -> "open"
      [] row[s].status = "confirmed" -> "confirmed"
      [] row[s].status = "manually_confirmed" -> "vouched"
      [] OTHER -> "closed"

PaidSettlements == {s \in Settlements : row[s].hash \in Hashes /\ IsPaid(row[s].hash)}

Promise == INSTANCE SettlementPromise WITH
    outcome <- [s \in Settlements |-> OutcomeOf(s)], paid <- PaidSettlements

\* The server keeps the promise of SettlementPromise: every step of it is one
\* of the steps allowed there, seen through the rows' outcomes.
KeepsPromise == Promise!Spec

\* An invoice closed as expired, after asking to its end, was not paid: a
\* payment in the last second is waited for (EXPIRY_GRACE_MS), and an answer
\* given before it showed up is not acted on after.
ExpiredIsUnpaid ==
    \A s \in Settlements :
        row[s].status = "expired" /\ row[s].why = "none" /\ WatchedToItsEnd(s)
            => ~IsPaid(row[s].hash)

\* What is settled stays as it is: no late answer, crash or failure of the
\* server touches the row again (finish() and confirmWithProof check first).
SettledIsFinal ==
    [][\A s \in Settlements : row[s].status \in Settled => row'[s] = row[s]]_vars

\* While the server runs, an open invoice is watched, unless the payee has
\* disconnected the wallet that knew it, which only a lapsed quote allows.
OpenIsWatched ==
    server = "up" => \A s \in Settlements :
        row[s].status = "awaiting_payment" /\ watch[s].via = "none" =>
            row[s].via = "nwc" /\ ~IsInProgress(s)

\* A wallet's invoice outlives its quote by less than a request may take.
NwcDiesSoonAfterQuote ==
    \A s \in Settlements : row[s].via = "nwc" /\ IsPayable(s) =>
        now < row[s].quoteEnd + RequestTimeout

\* Together, watching to the end: nothing is closed too early or left alone.
WatchedWell == TypeOK /\ ExpiredIsUnpaid /\ OpenIsWatched /\ NwcDiesSoonAfterQuote

\* The invoice of s is paid, and the server asks the wallet that knows it.
PaidAndAsked(s) ==
    /\ row[s].status = "awaiting_payment" /\ row[s].via = "nwc"
    /\ IsPaid(row[s].hash)
    /\ watch[s].wallet = invoice[row[s].hash].wallet
    /\ watch[s].wallet \in StatesExpiry

WalletReplaced(s) == row[s].hash \in Hashes /\ wallet # invoice[row[s].hash].wallet

\* A payment to a wallet the server is asking is confirmed, through restarts,
\* unless the payee replaces the wallet meanwhile.
PaidIsConfirmed ==
    \A s \in Settlements :
        PaidAndAsked(s) ~> (row[s].status \in Settled \/ WalletReplaced(s))

\* An address invoice is closed in the end, though its provider never answers.
AddressInvoiceIsClosed ==
    \A s \in Settlements :
        row[s].status = "awaiting_payment" /\ row[s].via \in {"verify", "proof"}
            ~> row[s].status \in Terminal

\* Together, every open invoice that can end does.
EndsAreReached == PaidIsConfirmed /\ AddressInvoiceIsClosed

---------------------------------------------------------------------------
(* The inductive invariant behind the safety properties: what the code     *)
(* relies on without saying.                                               *)

\* mint() is only ever suspended on a row that is still "created".
MintingIsCreated ==
    \A s \in Settlements : mint[s].pc # "idle" =>
        row[s].status = "created" /\ mint[s].reqAt <= now

\* Only store() gives a row its hash, and the row is open from then on.
HashMeansMinted ==
    \A s \in Settlements :
        /\ row[s].status \in {"none", "created", "manually_confirmed"} => row[s].hash = NoHash
        /\ row[s].status \in {"awaiting_payment", "expired", "confirmed"} => row[s].hash \in Hashes

\* No two settlements hold the same payment hash.
OneHashOneSettlement ==
    \A s, t \in Settlements : row[s].hash \in Hashes /\ row[s].hash = row[t].hash => s = t

\* The invoices that payers can know of are those of the rows.
InvoiceMeansTaken == \A h \in Hashes : invoice[h].state # "none" <=> HashTaken(h)

\* A lookup waits only on behalf of a minted row, and its answer stays true.
AnswersStayTrue ==
    \A s \in Settlements :
        /\ watch[s].via # "none" => row[s].hash \in Hashes
        /\ watch[s].via = "none" => watch[s].ans = "none"
        /\ watch[s].ans = "settled" => invoice[row[s].hash].state = "recorded"
        /\ watch[s].ans = "failed" => invoice[row[s].hash].state = "cancelled"

\* A settlement that failed after it was minted has a cancelled invoice.
FailedIsCancelled ==
    \A s \in Settlements : row[s].status = "failed" /\ row[s].hash \in Hashes =>
        invoice[row[s].hash].state = "cancelled"

\* A confirmed settlement has a paid invoice.
ConfirmedHasPayment ==
    \A s \in Settlements : row[s].status = "confirmed" => IsPaid(row[s].hash)

\* A server that is down remembers nothing.
DownForgets ==
    server = "down" => \A s \in Settlements : mint[s] = NoMint /\ watch[s] = NoWatch

\* All of it: what holds of the rows, the server's memory and the invoices
\* together, between any two of the code's steps.
IInv ==
    /\ TypeOK
    /\ MintingIsCreated
    /\ HashMeansMinted
    /\ OneHashOneSettlement
    /\ InvoiceMeansTaken
    /\ AnswersStayTrue
    /\ FailedIsCancelled
    /\ ConfirmedHasPayment
    /\ DownForgets

---------------------------------------------------------------------------
(* What the comments of the code say, and the code does not do *)

\* settlementRules.ts:103: a debt is settled outside Lightning "not while an
\* invoice for it is out, which could still be paid, and then it's paid twice".
NotSettledWhilePayable ==
    [][\A s, t \in Settlements :
          /\ row[s].status = "none" /\ row'[s].status = "manually_confirmed"
          /\ row'[s].pair = row[t].pair
          => ~IsPayable(t)]_vars

---------------------------------------------------------------------------
(* For TLC *)

\* Every payer owes one unit.
OwesOne == [p \in Pairs |-> 1]

Symmetry == Permutations(Settlements) \cup Permutations(Hashes)
=============================================================================
