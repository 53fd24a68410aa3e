----------------------------- MODULE GroupPage -----------------------------
(***************************************************************************)
(* The page of a group's link (GroupGuestScreen): its debts, paying one by *)
(* Lightning on the pay page, by UPI, or having paid another way, with the *)
(* routes it asks (routes/groupLinks.ts) and coming back from a UPI app    *)
(* (useBackFromUpi), in a tab that may be reloaded.                        *)
(*                                                                         *)
(* Claims has the routes' rules in full; here a debt is what the page can  *)
(* tell of it.  The reader's taps find the screen as last drawn: effects   *)
(* that are due run before the next tap.                                   *)
(***************************************************************************)
EXTENDS Naturals, FiniteSets

CONSTANTS Refs, NoRef, MaxChanges

\* Assumed of the constants, wherever they are given values.
GroupPageAssumption == NoRef \notin Refs /\ MaxChanges \in Nat

VARIABLES
    debt, moved,             \* the debts at the server; what else happened to them so far
    data, reads,             \* the debts as drawn; answers to refreshes on their way
    paying, settling, starts,\* the pay link shown; the guard; requests for one
    upi, payee, asks,        \* the UPI panel's debt, who to pay once known; requests for that
    marking, saying,         \* the open question; what the page is telling the server
    back, left, away, kept,  \* useBackFromUpi, and what the tab keeps of it
    due                      \* the effect on the debt they came back for is to run

server == <<debt, moved>>
pay == <<paying, settling, starts>>
panel == <<upi, payee, asks>>
return == <<back, left, away, kept>>
vars == <<server, data, reads, pay, panel, marking, saying, return, due>>

States == {"owed", "claimed", "declined", "gone"}
Nothing == [r \in {} |-> "gone"]
NoLink == <<NoRef, 0>>
Silent == [kind |-> "none", ref |-> NoRef]

Init ==
    /\ debt = [r \in Refs |-> "owed"] /\ moved = 0
    /\ data = Nothing /\ reads = {debt}
    /\ paying = NoLink /\ settling = FALSE /\ starts = {}
    /\ upi = NoRef /\ payee = FALSE /\ asks = {} /\ marking = NoRef /\ saying = Silent
    /\ back = NoRef /\ left = NoRef /\ away = FALSE /\ kept = NoRef /\ due = FALSE

Loaded == data # Nothing
ByUpi(state) == state \in {"owed", "declined"}
Drawn(r) == Loaded /\ data[r] # "gone" /\ paying = NoLink /\ ~due /\ ~away

-----------------------------------------------------------------------------
(* The server                                                              *)

\* Others pay, claim, answer, and choose whether links show their UPI ID.
DebtMoves(r, state) ==
    /\ moved < MaxChanges /\ moved' = moved + 1
    /\ debt' = [debt EXCEPT ![r] = state]
    /\ UNCHANGED <<data, reads, pay, panel, marking, saying, return, due>>

\* A refresh reads the debts some time before its answer is drawn.
Refresh ==
    /\ reads = {} /\ paying = NoLink
    /\ reads' = {debt}
    /\ UNCHANGED <<server, data, pay, panel, marking, saying, return, due>>

Refreshed(read) ==
    /\ reads' = reads \ {read} /\ data' = read
    /\ due' = (back # NoRef)
    /\ UNCHANGED <<server, pay, panel, marking, saying, return>>

SayPaid(r, state) ==
    debt' = [debt EXCEPT ![r] =
                IF state \in {"owed", "declined"} THEN "claimed" ELSE state]

-----------------------------------------------------------------------------
(* Paying with Lightning                                                   *)

\* A ref: two taps can land before the state has updated.
MaySettle == ~settling

Settle(r) ==
    /\ Drawn(r) /\ data[r] # "claimed" /\ MaySettle
    /\ settling' = TRUE
    /\ starts' = starts \cup {<<r, IF <<r, 1>> \in starts THEN 2 ELSE 1>>}
    /\ UNCHANGED <<server, data, reads, paying, panel, marking, saying, return, due>>

\* Each answer is a link of its own when what is owed moved in between.
SettleAnswered(start) ==
    /\ start \in starts
    /\ starts' = starts \ {start} /\ settling' = FALSE
    /\ \/ debt[start[1]] # "gone" /\ paying' = start
       \/ UNCHANGED paying
    /\ UNCHANGED <<server, data, reads, panel, marking, saying, return, due>>

ClosePay ==
    /\ paying # NoLink
    /\ paying' = NoLink
    /\ UNCHANGED <<server, data, reads, settling, starts, panel, marking, saying, return, due>>

-----------------------------------------------------------------------------
(* Paying by UPI                                                           *)

Answered == back' = NoRef /\ left' = NoRef /\ away' = FALSE /\ kept' = NoRef

\* Paying another debt is moving on from the one they came back from.
MovesOn(r) == IF back \notin {NoRef, r} THEN Answered ELSE UNCHANGED return

\* Mutant: opening one question leaves the other open.
OpensUpiBeside(r) == upi' = r /\ payee' = FALSE /\ asks' = asks \cup {r} /\ UNCHANGED marking

OpensUpi(r) == upi' = r /\ payee' = FALSE /\ asks' = asks \cup {r} /\ marking' = NoRef

OpenUpi(r) ==
    /\ Drawn(r) /\ ByUpi(data[r])
    /\ IF upi = r
       THEN upi' = NoRef /\ payee' = FALSE /\ Answered /\ UNCHANGED <<asks, marking>>
       ELSE OpensUpi(r) /\ MovesOn(r)
    /\ UNCHANGED <<server, data, reads, pay, saying, due>>

\* An answer for a panel that was closed is not shown; an error closes
\* whichever panel is open.
UpiAnswered(r) ==
    /\ r \in asks /\ asks' = asks \ {r}
    /\ \/ ByUpi(debt[r]) /\ payee' = (payee \/ upi = r) /\ UNCHANGED <<upi, return>>
       \/ upi' = NoRef /\ payee' = FALSE /\ Answered
    /\ UNCHANGED <<server, data, reads, pay, marking, saying, due>>

\* The link is handed to a UPI app, which need not open.
LeaveForUpi ==
    /\ upi # NoRef /\ payee /\ back # upi /\ Drawn(upi) /\ data[upi] # "claimed"
    /\ left' = upi /\ kept' = upi
    /\ UNCHANGED <<server, data, reads, pay, panel, marking, saying, back, away, due>>

\* Sent to the background: for the UPI app, or for anything else.
Background ==
    /\ left # NoRef /\ ~away /\ ~due
    /\ away' = TRUE
    /\ UNCHANGED <<server, data, reads, pay, panel, marking, saying, back, left, kept, due>>

Foreground ==
    /\ away
    /\ away' = FALSE /\ back' = left /\ left' = NoRef /\ due' = (back # left)
    /\ UNCHANGED <<server, data, reads, pay, panel, marking, saying, kept>>

\* The page starts again; what the tab kept says they are back.
ReloadTab ==
    /\ data' = Nothing /\ reads' = {debt}
    /\ paying' = NoLink /\ settling' = FALSE /\ starts' = {}
    /\ upi' = NoRef /\ payee' = FALSE /\ asks' = {} /\ marking' = NoRef /\ saying' = Silent
    /\ back' = kept /\ left' = NoRef /\ away' = FALSE /\ due' = FALSE
    /\ UNCHANGED <<server, kept>>

\* Nothing is left to ask, or the panel of the debt is opened.
CameBackFor ==
    /\ due /\ due' = FALSE
    /\ IF ~Loaded \/ back = NoRef THEN UNCHANGED <<panel, marking, return>>
       ELSE IF ~ByUpi(data[back]) THEN Answered /\ UNCHANGED <<panel, marking>>
       ELSE IF upi # back THEN OpensUpi(back) /\ UNCHANGED return
       ELSE UNCHANGED <<panel, marking, return>>
    /\ UNCHANGED <<server, data, reads, pay, saying>>

NotPaid ==
    /\ back # NoRef /\ upi = back /\ Drawn(back) /\ saying = Silent
    /\ Answered
    /\ UNCHANGED <<server, data, reads, pay, panel, marking, saying, due>>

-----------------------------------------------------------------------------
(* Saying it was paid                                                      *)

Say(kind, r) ==
    /\ saying = Silent /\ Drawn(r) /\ data[r] # "claimed"
    /\ \/ kind = "upi" /\ upi = r /\ (payee \/ back = r)
       \/ kind = "other" /\ marking = r
    /\ saying' = [kind |-> kind, ref |-> r]
    /\ UNCHANGED <<server, data, reads, pay, panel, marking, return, due>>

\* Told or refused, and the answer may be lost; whatever panel is open by then
\* closes with the answer.
Said(told, heard) ==
    /\ saying # Silent /\ saying' = Silent
    /\ IF told THEN SayPaid(saying.ref, debt[saying.ref]) ELSE UNCHANGED debt
    /\ IF ~(told /\ heard) THEN UNCHANGED <<panel, marking, return>>
       ELSE IF saying.kind = "upi" THEN upi' = NoRef /\ payee' = FALSE /\ Answered /\ UNCHANGED <<asks, marking>>
       ELSE marking' = NoRef /\ UNCHANGED <<panel, return>>
    /\ UNCHANGED <<moved, data, reads, pay, due>>

\* One question open at a time.
OpenMarking(r) ==
    /\ Drawn(r) /\ data[r] # "claimed"
    /\ IF marking = r
       THEN marking' = NoRef /\ UNCHANGED <<panel, return>>
       ELSE /\ marking' = r
            /\ IF upi = NoRef THEN UNCHANGED <<panel, return>>
               ELSE upi' = NoRef /\ payee' = FALSE /\ UNCHANGED asks /\ Answered
    /\ UNCHANGED <<server, data, reads, pay, saying, due>>

Next ==
    \/ Refresh \/ ClosePay \/ LeaveForUpi \/ Background \/ Foreground \/ ReloadTab \/ CameBackFor \/ NotPaid
    \/ \E read \in reads : Refreshed(read)
    \/ \E start \in starts : SettleAnswered(start)
    \/ \E r \in Refs :
        \/ Settle(r) \/ OpenUpi(r) \/ UpiAnswered(r) \/ OpenMarking(r)
        \/ \E kind \in {"upi", "other"} : Say(kind, r)
        \/ \E state \in States : DebtMoves(r, state)
    \/ \E told, heard \in BOOLEAN : Said(told, heard)

Spec == Init /\ [][Next]_vars

-----------------------------------------------------------------------------

MaybeRef == Refs \cup {NoRef}

TypeOK ==
    /\ debt \in [Refs -> States] /\ moved \in 0..MaxChanges
    /\ data \in [Refs -> States] \cup {Nothing} /\ reads \subseteq [Refs -> States]
    /\ paying \in (Refs \X {1, 2}) \cup {NoLink} /\ settling \in BOOLEAN /\ starts \subseteq Refs \X {1, 2}
    /\ upi \in MaybeRef /\ payee \in BOOLEAN /\ asks \subseteq Refs /\ marking \in MaybeRef
    /\ saying \in [kind : {"none", "upi", "other"}, ref : MaybeRef]
    /\ {back, left, kept} \subseteq MaybeRef /\ away \in BOOLEAN /\ due \in BOOLEAN

\* Paying by UPI and having paid another way are two answers for the same debt:
\* one question is open at a time, also when the page itself opens the panel of
\* the debt they came back for (openUpi, openMarking).
OneQuestion == upi = NoRef \/ marking = NoRef

\* "Did the payment go through?" is asked with the panel of its own debt open,
\* and not of a debt the page shows as settled or said to be paid, also after a
\* reload (cameBackFor).
AskedOfItsDebt == back # NoRef /\ Loaded /\ ~due => upi = back /\ ByUpi(data[back])

\* One link is asked for at a time, and none while a pay page is open; the page waits in
\* the background for a UPI app it left for, which is not the one it came back from.
OneStart ==
    /\ starts # {} => settling /\ paying = NoLink /\ \E start \in starts : starts = {start}
    /\ left # NoRef => left # back
    /\ away => left # NoRef

\* What every step keeps.
Inv == TypeOK /\ OneQuestion /\ AskedOfItsDebt /\ OneStart

\* The pay page is not swapped for another debt's, or another link's, under the
\* reader (settle).
PayPageIsNotSwapped == paying # NoLink => paying' \in {paying, NoLink}
=============================================================================
