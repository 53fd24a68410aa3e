------------------------------- MODULE GetPaid -------------------------------
(***************************************************************************)
(* Setting up how to be paid, from one device: the cards of the Wallet     *)
(* screen, the sheet that asks once at launch (GetPaidSheet), the reads    *)
(* they draw from (useAsync, AppData.remember), and the routes behind them *)
(* (routes/wallet.ts, routes/upi.ts).  Connecting a wallet and saving an   *)
(* address wait for somebody else's answer before anything is written, so  *)
(* what was asked first may be done last.                                  *)
(***************************************************************************)
EXTENDS Naturals, FiniteSets

CONSTANTS
    Ways,       \* "wallet", "address" and "upi", or the ones of them looked at
    Values,     \* what a way can be set to, besides "none"
    Waits,      \* bound: whether they leave what they asked for be until it is answered
    MaxSends,   \* bound: changes asked for
    MaxVisits   \* bound: times the Wallet screen is opened

\* Assumed of the constants, wherever they are given values.
GetPaidAssumption ==
    "none" \notin Values /\ Waits \in BOOLEAN /\ MaxSends \in Nat /\ MaxVisits \in Nat

VARIABLES
    uses,               \* payWays: the ways that go with the currencies they chose
    server,             \* what each way is set to on their account
    kept,               \* AppData's reads: what a screen opens on
    screen, visit,      \* what is open, and which time the Wallet screen is
    card,               \* each way's card there
    replacing,          \* ConnectWallet's `replacing`
    net,                \* requests and answers on their way
    sends,
    doneKept,           \* getPaidStore
    launching, look,    \* useAskToGetPaid: `launching`, and what its look has come to
    field               \* GetPaidSheet's fields, each as it was typed and saved

vars == <<uses, server, kept, screen, visit, card, replacing, net, sends, doneKept, launching,
          look, field>>
sheet == <<doneKept, launching, look, field>>
wallet == <<visit, card, replacing>>

Typed == Ways \ {"wallet"}      \* the ways the sheet offers
Known == Values \cup {"none"}
Closed == [read |-> "not", changed |-> "not", waits |-> {}, failed |-> FALSE]
Empty == [typed |-> "none", saved |-> FALSE, failed |-> FALSE, sent |-> FALSE]

Init ==
    /\ uses \in {Ways \cap {"upi"}, Ways}
    /\ server \in [Ways -> Known] /\ kept = [w \in Ways |-> "not"]
    /\ screen = "off" /\ visit = 0 /\ card = [w \in Ways |-> Closed] /\ replacing = FALSE
    /\ net = {} /\ sends = 0
    /\ doneKept \in BOOLEAN /\ launching = FALSE /\ look = "no"
    /\ field = [w \in Typed |-> Empty]

\* A request is a read or a change; `from` is the visit or the sheet it is of,
\* or Gone once the app was quit, and `control` the button that waits for it.
Req(kind, w, v, from, control) ==
    [kind |-> kind, way |-> w, value |-> v, from |-> from, control |-> control, stage |-> "sent"]
Sheet == 0
Gone == MaxVisits + 1
Busy == \E r \in net : r.kind = "change"
MayLeave == Waits => ~Busy

-----------------------------------------------------------------------------
(* The app: the groups list, and the Wallet screen                         *)

Asking == look = "due" /\ launching /\ screen = "groups"

\* Opened on the groups list or on something else; a fresh start forgets what
\* the sheet and the screens held.
Launch(home) ==
    /\ screen = "off"
    /\ screen' = (IF home THEN "groups" ELSE "elsewhere")
    /\ launching' = home /\ look' = (IF home THEN "looking" ELSE "no")
    /\ UNCHANGED <<uses, server, kept, wallet, net, sends, doneKept, field>>

StillLaunching(home) == launching /\ home

Shown(w) == IF card[w].changed # "not" THEN card[w].changed ELSE card[w].read

\* useSetting: each way opens on what was kept, and is read behind it.
OpenWallet ==
    /\ screen \in {"groups", "elsewhere"} /\ ~Asking /\ visit < MaxVisits /\ MayLeave
    /\ screen' = "wallet" /\ visit' = visit + 1
    /\ launching' = StillLaunching(FALSE)
    /\ card' = [w \in Ways |-> [Closed EXCEPT !.read = kept[w]]] /\ replacing' = FALSE
    /\ net' = net \cup {Req("read", w, "none", visit + 1, "none") : w \in Ways}
    /\ UNCHANGED <<uses, server, kept, sends, doneKept, look, field>>

GoHome ==
    /\ screen \in {"wallet", "elsewhere"} /\ MayLeave
    /\ screen' = "groups" /\ card' = [w \in Ways |-> Closed] /\ replacing' = FALSE
    /\ UNCHANGED <<uses, server, kept, visit, net, sends, sheet>>

\* The app goes; what it asked for is not heard of again.
Quit ==
    /\ screen # "off" /\ MayLeave
    /\ screen' = "off" /\ launching' = FALSE /\ look' = "no"
    /\ kept' = [w \in Ways |-> "not"] /\ card' = [w \in Ways |-> Closed] /\ replacing' = FALSE
    /\ net' = {[r EXCEPT !.from = Gone] : r \in {r \in net : r.kind = "change" /\ r.stage = "sent"}}
    /\ field' = [w \in Typed |-> Empty]
    /\ UNCHANGED <<uses, server, visit, sends, doneKept>>

-----------------------------------------------------------------------------
(* The cards                                                               *)

\* A way they don't use has a card only for what it is set to.
OnShow(w) == w \in uses \/ Shown(w) \in Values

\* ConnectWallet: Disconnect has a `busy` of its own, and is hidden while a
\* new connection is being pasted.
ConnectOffers(control) ==
    IF control = "set" THEN Shown("wallet") = "none" \/ replacing
                       ELSE Shown("wallet") \in Values /\ ~replacing

\* ReceiveAtAddress, UpiIdCard: one `busy` for all the buttons of a card.
CardOffers(w, control) == card[w].waits = {} /\ (control = "set" \/ Shown(w) \in Values)

Offers(w, control) ==
    /\ OnShow(w) /\ Shown(w) # "not" /\ control \notin card[w].waits
    /\ Waits => card[w].waits = {}
    /\ IF w = "wallet" THEN ConnectOffers(control) ELSE CardOffers(w, control)

Replace ==
    /\ screen = "wallet" /\ "wallet" \in Ways /\ Shown("wallet") \in Values /\ ~replacing
    /\ replacing' = TRUE
    /\ UNCHANGED <<uses, server, kept, screen, visit, card, net, sends, sheet>>

\* connect, run and ConfirmButton's confirm: waiting until it is answered.
Ask(w, v) ==
    LET control == IF v = "none" THEN "remove" ELSE "set" IN
    /\ screen = "wallet" /\ Offers(w, control) /\ sends < MaxSends
    /\ card' = [card EXCEPT ![w].waits = @ \cup {control}, ![w].failed = FALSE]
    /\ net' = net \cup {Req("change", w, v, visit, control)} /\ sends' = sends + 1
    /\ UNCHANGED <<uses, server, kept, screen, visit, replacing, sheet>>

\* The server is done with a request: a read as it is, a change once whoever
\* had to be asked about it has answered.
Serve(r) ==
    /\ r \in net /\ r.stage = "sent"
    /\ server' = (IF r.kind = "change" THEN [server EXCEPT ![r.way] = r.value] ELSE server)
    /\ net' = (net \ {r}) \cup
              {[q EXCEPT !.stage = "done", !.value = IF r.kind = "read" THEN server[r.way] ELSE @]
                : q \in {r} \ {q \in net : q.from = Gone}}
    /\ UNCHANGED <<uses, kept, screen, wallet, sends, sheet>>

\* Not an address, a wallet that won't receive, or no answer from either.
Refuse(r) ==
    /\ r \in net /\ r.stage = "sent" /\ r.kind = "change" /\ r.value # "none"
    /\ net' = (net \ {r}) \cup {[r EXCEPT !.stage = "refused"]}
    /\ UNCHANGED <<uses, server, kept, screen, wallet, sends, sheet>>

Here(r) == screen = "wallet" /\ r.from = visit

\* What useAsync read: kept for next time, and shown if the screen still is.
ReadAnswered(r) ==
    /\ r \in net /\ r.kind = "read" /\ r.stage = "done" /\ net' = net \ {r}
    /\ kept' = [kept EXCEPT ![r.way] = r.value]
    /\ card' = (IF Here(r) THEN [card EXCEPT ![r.way].read = r.value] ELSE card)
    /\ UNCHANGED <<uses, server, screen, visit, replacing, sends, sheet>>

\* useSetting's set: the answer to a change is the newer of the two.
Becomes(r) == r.value

\* A change of a card is answered, kept and shown; a card that has gone is set
\* to no purpose.
Changed(r) ==
    /\ r \in net /\ r.kind = "change" /\ r.from # Sheet /\ r.stage = "done" /\ net' = net \ {r}
    /\ kept' = [kept EXCEPT ![r.way] = r.value]
    /\ IF Here(r)
       THEN /\ card' = [card EXCEPT ![r.way].changed = Becomes(r), ![r.way].waits = @ \ {r.control}]
            /\ replacing' = (IF r.way = "wallet" /\ r.control = "set" THEN FALSE ELSE replacing)
       ELSE UNCHANGED <<card, replacing>>
    /\ UNCHANGED <<uses, server, screen, visit, sends, sheet>>

\* Refused, or lost on the way there or back: the card says so.
Failed(r) ==
    /\ r \in net /\ r.from # Sheet /\ net' = net \ {r}
    /\ card' = (IF ~Here(r) THEN card
                ELSE IF r.kind = "read" THEN [card EXCEPT ![r.way].failed = TRUE]
                ELSE [card EXCEPT ![r.way].failed = TRUE, ![r.way].waits = @ \ {r.control}])
    /\ UNCHANGED <<uses, server, kept, screen, visit, replacing, sends, sheet>>

-----------------------------------------------------------------------------
(* The sheet                                                               *)

\* nowhereYet: somewhere already is kept as done; not being able to tell is
\* left for the next launch, as is a launch that has gone elsewhere.
Looked ==
    /\ look = "looking"
    /\ \/ doneKept /\ look' = "no" /\ UNCHANGED doneKept
       \/ ~doneKept /\ \A w \in Ways : server[w] = "none" /\ look' = "due" /\ UNCHANGED doneKept
       \/ ~doneKept /\ \E w \in Ways : server[w] # "none" /\ look' = "no" /\ doneKept' \in BOOLEAN
       \/ look' = "no" /\ UNCHANGED doneKept
    /\ UNCHANGED <<uses, server, kept, screen, wallet, net, sends, launching, field>>

Type(w, v) ==
    /\ Asking /\ w \in uses /\ ~field[w].saved /\ v # field[w].typed
    /\ Waits => ~Busy
    /\ field' = [field EXCEPT ![w] = [Empty EXCEPT !.typed = v, !.sent = field[w].sent]]
    /\ UNCHANGED <<uses, server, kept, screen, wallet, net, sends, doneKept, launching, look>>

ToSave == {w \in Typed \cap uses : field[w].typed # "none" /\ ~field[w].saved}

\* Everything typed and not yet saved, at once.
SaveSheet ==
    /\ Asking /\ ~\E w \in Typed : field[w].sent
    /\ ToSave # {} /\ sends + Cardinality(ToSave) <= MaxSends
    /\ net' = net \cup {Req("change", w, field[w].typed, Sheet, "set") : w \in ToSave}
    /\ sends' = sends + Cardinality(ToSave)
    /\ field' = [w \in Typed |-> [field[w] EXCEPT !.sent = w \in ToSave]]
    /\ UNCHANGED <<uses, server, kept, screen, wallet, doneKept, launching, look>>

\* Once each is answered: what was taken is shown as kept, what was not says
\* why, and with neither refused the question is answered.
SheetAnswered ==
    LET mine == {r \in net : r.from = Sheet}
        took == {r.way : r \in {r \in mine : r.stage = "done"}}
    IN /\ mine # {} /\ \A r \in mine : r.stage # "sent"
       /\ net' = net \ mine
       /\ \E heard \in SUBSET took :
             /\ kept' = [w \in Ways |-> IF w \in heard
                                        THEN (CHOOSE r \in mine : r.way = w).value ELSE kept[w]]
             /\ IF Asking
                THEN /\ field' = [w \in Typed |-> [field[w] EXCEPT
                                    !.saved = @ \/ w \in heard, !.sent = FALSE,
                                    !.failed = field[w].sent /\ w \notin heard]]
                     /\ IF {r.way : r \in mine} = heard
                        THEN look' = "no" /\ doneKept' \in {TRUE, doneKept}
                        ELSE UNCHANGED <<look, doneKept>>
                ELSE UNCHANGED <<field, look, doneKept>>
    /\ UNCHANGED <<uses, server, screen, wallet, sends, launching>>

\* If it can't be kept, it's asked once more.
KeepDone == doneKept' \in {TRUE, doneKept}

\* Skip, Done, or the sheet closed any other way.
CloseSheet ==
    /\ Asking /\ MayLeave
    /\ look' = "no" /\ KeepDone /\ field' = [w \in Typed |-> Empty]
    /\ UNCHANGED <<uses, server, kept, screen, wallet, net, sends, launching>>

Next ==
    \/ \E home \in BOOLEAN : Launch(home)
    \/ OpenWallet \/ GoHome \/ Quit \/ Replace
    \/ \E w \in Ways, v \in Known : Ask(w, v)
    \/ \E r \in net : Serve(r) \/ Refuse(r) \/ ReadAnswered(r) \/ Changed(r) \/ Failed(r)
    \/ Looked \/ SaveSheet \/ SheetAnswered \/ CloseSheet
    \/ \E w \in Typed, v \in Values : Type(w, v)

Spec == Init /\ [][Next]_vars

-----------------------------------------------------------------------------
TypeOK ==
    /\ uses \subseteq Ways /\ server \in [Ways -> Known]
    /\ kept \in [Ways -> Known \cup {"not"}]
    /\ screen \in {"off", "groups", "elsewhere", "wallet"} /\ visit \in 0..MaxVisits
    /\ card \in [Ways -> [read : Known \cup {"not"}, changed : Known \cup {"not"},
                          waits : SUBSET {"set", "remove"}, failed : BOOLEAN]]
    /\ replacing \in BOOLEAN /\ sends \in 0..MaxSends
    /\ doneKept \in BOOLEAN /\ launching \in BOOLEAN /\ look \in {"no", "looking", "due"}
    /\ field \in [Typed -> [typed : Known, saved : BOOLEAN, failed : BOOLEAN, sent : BOOLEAN]]

Quiet(w) == \A r \in net : r.way # w

\* With nothing about it on its way, a card shows what the account is set to,
\* unless it says that something failed: a change made on the screen isn't
\* undone by the read behind it, nor a card gone for a way still set.
CardIsTrue ==
    \A w \in Ways : screen = "wallet" /\ Quiet(w) /\ ~card[w].failed => Shown(w) = server[w]

\* Nobody who has set up a way to be paid on this device is asked for one: a
\* look begun before that is dropped with the launch it belonged to.
AskedOfTheUnpaid ==
    Asking /\ (\A w \in Typed : field[w] = [Empty EXCEPT !.typed = field[w].typed]) /\ net = {}
        => \A w \in Ways : server[w] = "none"
=============================================================================
