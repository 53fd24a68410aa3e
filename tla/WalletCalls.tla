----------------------------- MODULE WalletCalls -----------------------------
(* The server's calls to one connected wallet over Nostr Wallet Connect      *)
(* (src/apps/api/src/nwc.ts): a request is published for the wallet on its   *)
(* relays, and the first answer to that request ends the call, or a timeout. *)
(* A call makes an invoice or looks one up; all lookups are of one invoice.  *)
(* The wallet and its relays are somebody else's: a request may reach the    *)
(* wallet late or never, and any event may reach any subscription. Clocks    *)
(* agree; one counts ticks, Second to a second, and stops at MaxTime.        *)
EXTENDS Naturals, FiniteSets

CONSTANTS
    Makes,        \* the make_invoice calls
    Lookups,      \* the lookup_invoice calls
    Offers,       \* the schemes the wallet advertises
    SaysState,    \* the wallet sends `state`; an older one only `settled_at`
    Ends,         \* when the invoice looked up expires, in ticks
    Second,
    Wait,         \* timeoutMs, in seconds
    MaxTime,
    MaxErrors     \* bound: how many of the wallet's answers are no result

Calls == Makes \cup Lookups

\* Assumed of the constants, wherever they are given values.
CallsAssumption ==
    /\ Makes \cap Lookups = {}
    /\ Offers \subseteq {"nip44_v2", "nip04"}
    /\ SaysState \in BOOLEAN /\ Ends \in Nat
    /\ Second \in Nat \ {0} /\ Wait \in Nat \ {0} /\ MaxTime \in Nat /\ MaxErrors \in Nat

VARIABLES
    clock,
    encryption,   \* the scheme of the connection, found out once
    call,         \* of each call: its stage, when it was sent, what came of it
    onRelay,      \* the requests a relay holds for the wallet
    handled,      \* the requests the wallet has read
    answers,      \* the events the wallet has published
    made,         \* the calls the wallet made an invoice for
    paid          \* the invoice looked up has been paid

vars == <<clock, encryption, call, onRelay, handled, answers, made, paid>>

\* An answer is a result, or is refused: an error, or nothing to be read.
Kinds == {"result", "refused"}
NoWord == [state |-> "none", settledAt |-> FALSE, preimage |-> FALSE]
NothingBut(kind) == [kind |-> kind, for |-> {}, state |-> "none", preimage |-> FALSE]

TypeOK ==
    /\ clock \in 0..MaxTime
    /\ encryption \in {"unknown", "asking", "nip44_v2", "nip04"}
    /\ \A c \in Calls :
        /\ call[c].stage \in {"new", "info", "out", "done"}
        /\ call[c].sentAt \in 0..MaxTime
        /\ call[c].scheme \in {"none", "nip44_v2", "nip04"}
        /\ call[c].result.kind \in Kinds \cup {"none", "TIMEOUT", "RELAY"}
    /\ onRelay \subseteq Calls /\ handled \subseteq Calls /\ made \subseteq Makes
    /\ paid \in BOOLEAN

Init ==
    /\ clock = 0
    /\ encryption = "unknown"
    /\ call = [c \in Calls |->
                [stage |-> "new", sentAt |-> 0, scheme |-> "none",
                 result |-> NothingBut("none")]]
    /\ onRelay = {} /\ handled = {} /\ answers = {} /\ made = {}
    /\ paid = FALSE

-----------------------------------------------------------------------------
(* A call *)

\* The request is signed with the scheme known by now, the subscription is
\* open before the request is published, and the timeout runs from here.
Sent(c, scheme) ==
    [stage |-> "out", sentAt |-> clock, scheme |-> scheme, result |-> call[c].result]

\* #encryptionFor: the first call asks the wallet's info event; the others
\* wait for the same answer, and later ones have it.
Begin(c) ==
    /\ call[c].stage = "new"
    /\ IF encryption \in {"unknown", "asking"}
       THEN /\ encryption' = "asking"
            /\ call' = [call EXCEPT ![c] = [stage |-> "info", sentAt |-> call[c].sentAt,
                            scheme |-> call[c].scheme, result |-> call[c].result]]
       ELSE UNCHANGED encryption /\ call' = [call EXCEPT ![c] = Sent(c, encryption)]
    /\ UNCHANGED <<clock, onRelay, handled, answers, made, paid>>

\* What the info event says; no event, no tag and a failed read all mean nip04.
Offered(info) == IF info /\ "nip44_v2" \in Offers THEN "nip44_v2" ELSE "nip04"

InfoRead(info) ==
    /\ encryption = "asking"
    /\ encryption' = Offered(info)
    /\ call' = [c \in Calls |-> IF call[c].stage = "info" THEN Sent(c, Offered(info)) ELSE call[c]]
    /\ UNCHANGED <<clock, onRelay, handled, answers, made, paid>>

\* The first thing to finish a call is what it comes to; the rest finds it
\* settled and its subscription closed.
Finish(c, result) ==
    /\ call[c].stage = "out"
    /\ call' = [call EXCEPT ![c] = [stage |-> "done", sentAt |-> call[c].sentAt,
                                    scheme |-> call[c].scheme, result |-> result]]

Published(c) ==
    /\ call[c].stage \in {"out", "done"} /\ c \notin onRelay
    /\ onRelay' = onRelay \cup {c}
    /\ UNCHANGED <<clock, encryption, call, handled, answers, made, paid>>

\* No relay said it took the request; one may hold it all the same.
PublishFails(c) ==
    /\ Finish(c, NothingBut("RELAY"))
    /\ UNCHANGED <<clock, encryption, onRelay, handled, answers, made, paid>>

IsLate(c) == call[c].stage = "out" /\ clock >= call[c].sentAt + Wait * Second

TimesOut(c) ==
    /\ IsLate(c)
    /\ Finish(c, NothingBut("TIMEOUT"))
    /\ UNCHANGED <<clock, encryption, onRelay, handled, answers, made, paid>>

-----------------------------------------------------------------------------
(* The wallet, and the relays *)

\* The request's expiration tag, in whole seconds, from the time it was signed.
Expiration(c) == call[c].sentAt \div Second + Wait

\* What the wallet says of the invoice: it may have shown its preimage before.
Word ==
    [state |-> IF ~SaysState THEN "none" ELSE IF paid THEN "settled" ELSE "pending",
     settledAt |-> paid, preimage |-> TRUE]

WalletActs(c) ==
    /\ c \in onRelay \ handled /\ call[c].scheme \in Offers
    /\ clock \div Second < Expiration(c)
    /\ handled' = handled \cup {c}
    /\ \/ /\ made' = made \cup ({c} \cap Makes)
          /\ answers' = answers \cup {[to |-> c, kind |-> "result", word |-> Word]}
       \/ /\ Cardinality({a \in answers : a.kind # "result"}) < MaxErrors
          /\ answers' = answers \cup {[to |-> c, kind |-> "refused", word |-> NoWord]}
          /\ UNCHANGED made
    /\ UNCHANGED <<clock, encryption, call, onRelay, paid>>

Paid ==
    /\ ~paid /\ clock < Ends
    /\ paid' = TRUE
    /\ UNCHANGED <<clock, encryption, call, onRelay, handled, answers, made>>

-----------------------------------------------------------------------------
(* An answer *)

\* invoiceState: what is believed of the invoice now. Mutant: a preimage is
\* taken for a payment.
StateOfProof(word) ==
    IF word.state = "settled" \/ word.settledAt \/ word.preimage THEN "settled"
    ELSE IF clock > Ends THEN "expired" ELSE "pending"
StateOf(word) ==
    IF word.state = "settled" \/ (word.state = "none" /\ word.settledAt) THEN "settled"
    ELSE IF clock > Ends THEN "expired" ELSE "pending"

\* #readResponse and #toInvoice: what the call comes to.
Reads(c, a) ==
    LET ok == a.kind = "result" /\ (a.to \in Lookups <=> c \in Lookups)
        settled == ok /\ c \in Lookups /\ StateOf(a.word) = "settled"
    IN  [kind |-> IF ok THEN "result" ELSE "refused", for |-> {a.to},
         state |-> IF ok /\ c \in Lookups THEN StateOf(a.word) ELSE "none",
         preimage |-> settled /\ a.word.preimage]

\* An answer is taken only by the call it is tagged with. Mutant: by any call.
IsAnyAnswer(c, a) == TRUE
IsAnswerTo(c, a) == a.to = c

Arrives(c, a) ==
    /\ IsAnswerTo(c, a)
    /\ Finish(c, Reads(c, a))
    /\ UNCHANGED <<clock, encryption, onRelay, handled, answers, made, paid>>

\* Time passes; a call whose time is up ends first.
Tick ==
    /\ clock < MaxTime
    /\ \A c \in Calls : ~IsLate(c)
    /\ clock' = clock + 1
    /\ UNCHANGED <<encryption, call, onRelay, handled, answers, made, paid>>

Next ==
    \/ \E c \in Calls :
        \/ Begin(c) \/ Published(c) \/ PublishFails(c) \/ TimesOut(c) \/ WalletActs(c)
        \/ \E a \in answers : Arrives(c, a)
    \/ \E info \in BOOLEAN : InfoRead(info)
    \/ Paid \/ Tick

Spec == Init /\ [][Next]_vars

-----------------------------------------------------------------------------
\* A call that came to an invoice came to the one the wallet made for that
\* very call, however many are out at once and however the relays mix up what
\* they deliver.
AnswerIsItsOwn ==
    \A c \in Makes : call[c].stage = "done" /\ call[c].result.kind = "result" =>
        call[c].result.for = {c} /\ c \in made

\* nwc.ts: "A wallet that only sees this after we've given up shouldn't act on
\* it": no invoice is made for a call that has timed out.
NothingAfterTimeout ==
    \A c \in Makes : c \in made' \ made => call[c].result.kind # "TIMEOUT"

\* Looked up as settled, or handed on with a preimage, means that the wallet
\* had been paid, whatever kind of wallet it is and however late it answers.
SettledWasPaid ==
    \A c \in Lookups : call[c].result.state = "settled" \/ call[c].result.preimage => paid

-----------------------------------------------------------------------------
Words == [state : {"none", "pending", "settled"}, settledAt : BOOLEAN, preimage : BOOLEAN]
Results ==
    [kind : Kinds \cup {"none", "TIMEOUT", "RELAY"}, for : SUBSET Calls,
     state : {"none", "pending", "settled", "expired"}, preimage : BOOLEAN]

\* What every step keeps.
Inv ==
    /\ TypeOK
    /\ call \in [Calls -> [stage : {"new", "info", "out", "done"}, sentAt : 0..MaxTime,
                           scheme : {"none", "nip44_v2", "nip04"}, result : Results]]
    /\ answers \subseteq [to : Calls, kind : Kinds, word : Words]
    /\ \A a \in answers :
        /\ a.kind = "result" /\ a.to \in Makes => a.to \in made
        /\ a.word.state = "settled" \/ a.word.settledAt => paid
    /\ \A c \in Calls :
        /\ call[c].stage # "done" => call[c].result.kind = "none"
        /\ call[c].result.kind = "TIMEOUT" => clock >= call[c].sentAt + Wait * Second
    /\ AnswerIsItsOwn /\ SettledWasPaid
=============================================================================
