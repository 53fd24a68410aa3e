---------------------------- MODULE SettleFlow ----------------------------
(***************************************************************************)
(* The sheet a debt is paid from: its steps (useSettleFlow, SettleUpSheet), *)
(* the keys its requests go under (ActionKeys), coming back from a UPI app *)
(* (useBackFromUpi), and following an invoice (ApiClient's poll).          *)
(*                                                                         *)
(* The server is what Claims says of POST upi-payments, manual and         *)
(* settlements: nothing beyond what is owed, or next to an open invoice.   *)
(* A debt is so many times what the sheet was opened for.                  *)
(***************************************************************************)
EXTENDS Naturals, FiniteSets, Sequences

CONSTANTS MaxOwed, MaxRows, MaxOutcomes, MaxKeys, MaxNet

VARIABLES
    owed, rows,        \* the debt; the settlements of the pair
    kept,              \* saved replies: which row a key made, 0 none yet
    net,               \* requests on their way
    step, call, only,  \* the sheet's step, what it waits for, its one way to pay
    outcome,           \* which UPI payment its app says went through, 0 none
    outcomes,          \* payments UPI apps said went through
    copied, byHand,    \* the app the ID was copied for, and that it was opened
    left,              \* handed to a UPI app that says nothing
    keys, made,        \* ActionKeys; keys made so far
    follows, lapsed,   \* the settlement shown, and that its time is up on screen
    polls              \* what polls have read, for the settlement they follow

server == <<owed, rows, kept>>
upiVars == <<outcome, copied, byHand, left>>
vars == <<server, net, step, call, only, upiVars, outcomes, keys, made, follows, lapsed, polls>>

\* What a request asks for; changing it makes it another action.
Inputs == {<<"invoice">>, <<"manual">>, <<"word", "plain">>, <<"word", "reference">>}
            \cup {<<"app", o>> : o \in 1..MaxOutcomes}
NoCall == <<"none">>
NoKeys == [i \in Inputs |-> 0]

Init ==
    /\ owed = 1 /\ rows = <<>> /\ kept = [k \in 1..MaxKeys |-> 0] /\ net = {}
    /\ step = "closed" /\ call = NoCall /\ only = FALSE
    /\ outcome = 0 /\ outcomes = 0 /\ copied = FALSE /\ byHand = FALSE /\ left = FALSE
    /\ keys = NoKeys /\ made = 0 /\ follows = 0 /\ lapsed = FALSE /\ polls = {}

-----------------------------------------------------------------------------
(* The server                                                              *)

Terminal(row) == row.status \in {"paid", "expired"}
\* isInProgress: not finished, and not an invoice whose quote has lapsed.
InProgress(row) == row.status = "awaiting"

MoreIsOwed ==
    /\ owed < MaxOwed
    /\ owed' = owed + 1
    /\ UNCHANGED <<rows, kept, net, step, call, only, upiVars, outcomes, keys, made, follows,
                   lapsed, polls>>

Refused == owed = 0 \/ \E r \in 1..Len(rows) : InProgress(rows[r])

\* Told before, done, or refused, which leaves the key free again.
Serve(req) ==
    /\ req.row = 0 /\ req \in net
    /\ LET answer(r) == net' = (net \ {req}) \cup {[req EXCEPT !.row = r]} IN
       \/ /\ kept[req.key] # 0
          /\ answer(kept[req.key])
          /\ UNCHANGED server
       \/ /\ kept[req.key] = 0 /\ Refused
          /\ net' = net \ {req}
          /\ UNCHANGED server
       \/ /\ kept[req.key] = 0 /\ ~Refused /\ Len(rows) < MaxRows
          /\ LET invoice == req.input = <<"invoice">> IN
             /\ rows' = Append(rows, [by |-> req.input,
                                      status |-> IF invoice THEN "awaiting" ELSE "paid"])
             /\ owed' = IF invoice THEN owed ELSE owed - 1
          /\ kept' = [kept EXCEPT ![req.key] = Len(rows) + 1]
          /\ answer(Len(rows) + 1)
    /\ UNCHANGED <<step, call, only, upiVars, outcomes, keys, made, follows, lapsed, polls>>

\* The quote's time is up; the row says so later, or that it was paid in time.
InvoiceMoves(r, status) ==
    /\ <<rows[r].status, status>> \in
           {"awaiting"} \X {"lapsed", "paid"} \cup {"lapsed"} \X {"expired", "paid"}
    /\ rows' = [rows EXCEPT ![r].status = status]
    /\ owed' = IF status = "paid" /\ owed > 0 THEN owed - 1 ELSE owed
    /\ UNCHANGED <<kept, net, step, call, only, upiVars, outcomes, keys, made, follows, lapsed,
                   polls>>

-----------------------------------------------------------------------------
(* Requests of the sheet (run, ActionKeys.run)                             *)

\* Mutant: every attempt goes under a key of its own.
KeyForFresh(input) == made + 1

\* The same action with the same input keeps its key until it succeeds.
KeyFor(input) == IF keys[input] = 0 THEN made + 1 ELSE keys[input]

Send(input) ==
    /\ KeyFor(input) <= MaxKeys /\ Cardinality(net) < MaxNet
    /\ keys' = [keys EXCEPT ![input] = KeyFor(input)]
    /\ made' = IF KeyFor(input) > made THEN KeyFor(input) ELSE made
    /\ net' = net \cup {[key |-> KeyFor(input), input |-> input, row |-> 0]}
    /\ call' = input

Idle == call = NoCall

\* One way to pay starts itself once the server has said how it moves money.
Open(one) ==
    /\ step = "closed"
    /\ step' = "opening" /\ only' = one
    /\ UNCHANGED <<server, net, call, upiVars, outcomes, keys, made, follows, lapsed, polls>>

Ask ==
    /\ step = "opening" /\ ~only /\ Idle
    /\ step' = "choosing"
    /\ UNCHANGED <<server, net, call, only, upiVars, outcomes, keys, made, follows, lapsed, polls>>

\* Nothing that comes later finds the sheet; opened again it starts afresh.
Close ==
    /\ step # "closed"
    /\ step' = "closed" /\ call' = NoCall /\ only' = FALSE /\ keys' = NoKeys
    /\ outcome' = 0 /\ copied' = FALSE /\ byHand' = FALSE /\ left' = FALSE
    /\ follows' = 0 /\ lapsed' = FALSE /\ polls' = {}
    /\ UNCHANGED <<server, net, outcomes, made>>

\* The invoice still out is the one to pay, or one is made.
ChooseInvoice ==
    /\ Idle
    /\ step = "choosing" \/ (step = "opening" /\ only) \/ (step = "paying" /\ lapsed)
    /\ \/ /\ \E r \in 1..Len(rows) : InProgress(rows[r]) /\ call' = <<"found", r>>
          /\ UNCHANGED <<net, keys, made>>
       \/ /\ \A r \in 1..Len(rows) : ~InProgress(rows[r])
          /\ Send(<<"invoice">>)
    /\ only' = FALSE
    /\ UNCHANGED <<server, step, upiVars, outcomes, follows, lapsed, polls>>

ChooseUpi ==
    /\ step = "choosing" /\ Idle
    /\ step' = "upi" /\ outcome' = 0
    /\ UNCHANGED <<server, net, call, only, copied, byHand, left, outcomes, keys, made, follows,
                   lapsed, polls>>

MarkManual ==
    /\ step = "choosing" /\ Idle
    /\ Send(<<"manual">>)
    /\ UNCHANGED <<server, step, only, upiVars, outcomes, follows, lapsed, polls>>

\* unsub, and the next one is followed.
Follow(r) == follows' = r /\ lapsed' = FALSE /\ polls' = {}

\* onUpdate: paid ends it, any other end goes back to choosing.
Update(status) ==
    step' = IF status = "paid" THEN "done" ELSE IF status = "expired" THEN "choosing" ELSE step

\* The answer to the call, if the sheet still waits for it.
Answered(req) ==
    /\ req \in net /\ req.row # 0
    /\ net' = net \ {req}
    /\ IF call = req.input /\ keys[req.input] = req.key
       THEN /\ call' = NoCall /\ keys' = [keys EXCEPT ![req.input] = 0]
            /\ IF req.input = <<"invoice">>
               THEN Follow(req.row) /\ step' = "paying"
               ELSE Update("paid") /\ UNCHANGED <<follows, lapsed, polls>>
       ELSE UNCHANGED <<call, keys, step, follows, lapsed, polls>>
    /\ UNCHANGED <<server, only, upiVars, outcomes, made>>

Found ==
    /\ call[1] = "found"
    /\ call' = NoCall /\ step' = "paying" /\ Follow(call[2])
    /\ UNCHANGED <<server, net, only, upiVars, outcomes, keys, made>>

\* Lost on its way, or refused: the error shows, the key stays.
Failed ==
    /\ ~Idle /\ call[1] \notin {"found", "inApp"}
    /\ call' = NoCall
    /\ net' = {q \in net : q.row = 0}
    /\ UNCHANGED <<server, step, only, upiVars, outcomes, keys, made, follows, lapsed, polls>>

-----------------------------------------------------------------------------
(* Following an invoice                                                    *)

\* One read at a time, of a settlement that has not ended.
Poll ==
    /\ follows # 0
    /\ \A p \in polls : p.row # follows
    /\ polls' = polls \cup {[row |-> follows, status |-> rows[follows].status]}
    /\ UNCHANGED <<server, net, step, call, only, upiVars, outcomes, keys, made, follows, lapsed>>

PollAnswered(p) ==
    /\ p \in polls
    /\ Update(p.status)
    /\ polls' = polls \ {p}
    /\ follows' = IF Terminal(p) /\ p.row = follows THEN 0 ELSE follows
    /\ UNCHANGED <<server, net, call, only, upiVars, outcomes, keys, made, lapsed>>

\* The quote ran out on screen; the screen's clock need not be the server's.
Lapses ==
    /\ step = "paying" /\ follows # 0 /\ ~lapsed
    /\ lapsed' = TRUE
    /\ UNCHANGED <<server, net, step, call, only, upiVars, outcomes, keys, made, follows, polls>>

-----------------------------------------------------------------------------
(* UPI                                                                     *)

Upi(steps) == step \in steps /\ UNCHANGED <<server, only, keys, made, follows, lapsed, polls>>

\* An app that takes the link is opened, and says what happened: what went
\* through is settled at once (settleByUpi), wherever the sheet is by then.
PayInApp ==
    /\ Upi({"upi"}) /\ Idle
    /\ call' = <<"inApp">> /\ byHand' = FALSE
    /\ UNCHANGED <<net, step, outcome, copied, left, outcomes>>

AppSays ==
    /\ call = <<"inApp">>
    /\ \/ /\ outcomes < MaxOutcomes
          /\ outcomes' = outcomes + 1 /\ outcome' = outcomes + 1
          /\ Send(<<"app", outcomes + 1>>)
       \/ /\ outcome' = 0 /\ call' = NoCall
          /\ UNCHANGED <<net, outcomes, keys, made>>
    /\ UNCHANGED <<server, step, only, copied, byHand, left, follows, lapsed, polls>>

TryAgain ==
    /\ step = "upi" /\ outcome # 0 /\ Idle
    /\ Send(<<"app", outcome>>)
    /\ UNCHANGED <<server, step, only, upiVars, outcomes, follows, lapsed, polls>>

CopyId ==
    /\ Upi({"upi"}) /\ Idle
    /\ step' = "copied" /\ copied' = TRUE
    /\ UNCHANGED <<net, call, outcome, byHand, left, outcomes>>

OpenCopiedApp ==
    /\ Upi({"copied"})
    /\ step' = "upi" /\ byHand' = TRUE /\ left' \in BOOLEAN
    /\ UNCHANGED <<net, call, outcome, copied, outcomes>>

DismissCopied ==
    /\ Upi({"copied"})
    /\ step' = "upi"
    /\ UNCHANGED <<net, call, upiVars, outcomes>>

LeaveForUpi ==
    /\ Upi({"upi"}) /\ ~left
    /\ left' = TRUE
    /\ UNCHANGED <<net, step, call, outcome, copied, byHand, outcomes>>

\* Back from an app that says nothing: asked, when paying by UPI is still up.
BackFromUpi ==
    /\ left /\ Upi({"opening", "choosing", "upi", "copied", "ask", "paying", "done"})
    /\ left' = FALSE /\ step' = IF step = "upi" THEN "ask" ELSE step
    /\ UNCHANGED <<net, call, outcome, copied, byHand, outcomes>>

AskPaid ==
    /\ Upi({"upi"}) /\ Idle /\ outcome = 0
    /\ step' = "ask"
    /\ UNCHANGED <<net, call, upiVars, outcomes>>

ConfirmPaid(word) ==
    /\ step = "ask" /\ Idle /\ (byHand => word = "plain")
    /\ Send(<<"word", word>>)
    /\ UNCHANGED <<server, step, only, upiVars, outcomes, follows, lapsed, polls>>

NotPaid ==
    /\ Upi({"ask"}) /\ Idle
    /\ step' = "upi"
    /\ UNCHANGED <<net, call, upiVars, outcomes>>

\* Open all the time: what is on its way still answers.
LeaveUpi ==
    /\ Upi({"upi"})
    /\ step' = "choosing" /\ outcome' = 0 /\ copied' = FALSE /\ byHand' = FALSE /\ left' = FALSE
    /\ UNCHANGED <<net, call, outcomes>>

Next ==
    \/ MoreIsOwed \/ (\E req \in net : Serve(req) \/ Answered(req)) \/ Failed \/ Found
    \/ \E r \in 1..Len(rows), status \in {"lapsed", "expired", "paid"} : InvoiceMoves(r, status)
    \/ (\E one \in BOOLEAN : Open(one)) \/ Ask \/ Close
    \/ ChooseInvoice \/ ChooseUpi \/ MarkManual
    \/ Poll \/ (\E p \in polls : PollAnswered(p)) \/ Lapses
    \/ PayInApp \/ AppSays \/ TryAgain \/ CopyId \/ OpenCopiedApp \/ DismissCopied
    \/ LeaveForUpi \/ BackFromUpi \/ AskPaid \/ NotPaid \/ LeaveUpi
    \/ \E word \in {"plain", "reference"} : ConfirmPaid(word)

Spec == Init /\ [][Next]_vars

-----------------------------------------------------------------------------

TypeOK ==
    /\ owed \in 0..MaxOwed
    /\ \A r \in 1..Len(rows) :
           rows[r] \in [by : Inputs, status : {"awaiting", "lapsed", "expired", "paid"}]
    /\ kept \in [1..MaxKeys -> 0..MaxRows] /\ made \in 0..MaxKeys
    /\ net \subseteq [key : 1..MaxKeys, input : Inputs, row : 0..MaxRows]
    /\ step \in {"closed", "opening", "choosing", "upi", "copied", "ask", "paying", "done"}
    /\ call \in Inputs \cup {NoCall, <<"inApp">>} \cup {<<"found", r>> : r \in 1..MaxRows}
    /\ outcome \in 0..outcomes /\ outcomes \in 0..MaxOutcomes
    /\ keys \in [Inputs -> 0..MaxKeys] /\ follows \in 0..MaxRows

\* Telling the server again what a UPI app said is one request and not a
\* second payment, though the first answer was lost and as much is owed again
\* (settleByUpi).
OneRowPerOutcome ==
    \A r, q \in 1..Len(rows) : rows[r].by[1] = "app" /\ rows[r].by = rows[q].by => r = q

\* A sheet that says Settled is not turned back to the ways to pay, with
\* "Nothing moved", by late word of an invoice it had given up (onUpdate).  An
\* invoice asked for before the word came may still be shown over it.
SettledIsNotUndone == step = "done" => step' \in {"done", "paying", "closed"}
=============================================================================
