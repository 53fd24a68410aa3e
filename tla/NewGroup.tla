------------------------------ MODULE NewGroup ------------------------------
(* Which currencies a person uses, kept on the device (prefs/,               *)
(* ui/CurrencyPicker.tsx), and the form that makes a group of them and its   *)
(* people (ui/NewGroupScreen.tsx), over a network that may serve and answer *)
(* late or never.  Every group has the same name: the form knows only        *)
(* whether one is typed.  Account screen and form are never open at once.    *)
EXTENDS Naturals, Sequences, SequencesExt

CONSTANTS
    Names,         \* the names that are typed
    NoName,        \* the empty field
    Stored,        \* what an earlier version of the app may have left on the device
    MaxPeople,     \* bound: names added to one form
    MaxOpens,      \* bound: forms opened
    MaxSent,       \* bound: requests sent
    MaxChanges     \* bound: currency choices changed

SUPPORTED == <<"INR", "BTC">>
Supported == Range(SUPPORTED)

\* Assumed of the constants, wherever they are given values.
NewGroupAssumption ==
    /\ NoName \notin Names
    /\ \A s \in Stored : "uses" \in DOMAIN s /\ "newGroups" \in DOMAIN s

VARIABLES
    stored,        \* the choice the device keeps
    choice,        \* the choice the app goes by, and whether the device has answered
    writes,        \* choices on their way to the device, oldest first
    writeLost,     \* ghost: the device failed to keep the last choice
    changes,       \* how many choices were changed
    screen,        \* what is open: home, account, new, group
    opened,        \* how many forms were opened; the last is the one on screen
    form,          \* what is in it
    keys,          \* of each form: the keys of what it asked for and had no answer to
    call,          \* of each form: where its request is
    net,           \* requests on their way to the server
    answers,       \* answers on their way back
    made,          \* the groups the server made: of which form and key, and asked how
    sent           \* how many requests were sent

prefsVars == <<stored, choice, writes, writeLost, changes>>
server == <<net, answers, made, sent>>
vars == <<prefsVars, screen, opened, form, keys, call, server>>

Forms == 1 .. MaxOpens
Prefs == [uses : SUBSET Supported \ {{}}, newGroups : Supported]
Input == [currency : Supported, members : Seq(Names)]
Idle == [stage |-> "idle", attempt |-> 0, group |-> 0]
Blank(currency) ==
    [currency |-> currency, people |-> <<>>, draft |-> NoName, named |-> FALSE,
     busy |-> FALSE, error |-> FALSE]

TypeOK ==
    /\ choice \in [read : BOOLEAN, prefs : Prefs]
    /\ stored \in Stored \cup Prefs /\ writes \in Seq(Prefs)
    /\ writeLost \in BOOLEAN /\ changes \in 0 .. MaxChanges
    /\ screen \in {"home", "account", "new", "group"} /\ opened \in 0 .. MaxOpens
    /\ form \in [currency : Supported, people : Seq(Names), draft : Names \cup {NoName},
                 named : BOOLEAN, busy : BOOLEAN, error : BOOLEAN]
    /\ DOMAIN keys = Forms /\ \A o \in Forms : \A k \in keys[o] : k.input \in Input
    /\ call \in [Forms -> [stage : {"idle", "waiting", "syncing"}, attempt : 0 .. MaxSent,
                           group : 0 .. MaxSent]]
    /\ sent \in 0 .. MaxSent /\ Len(made) <= sent
    /\ \A r \in net : r.attempt \in 1 .. sent /\ r.input \in Input

-----------------------------------------------------------------------------
(* The choice of currencies.                                                *)

InOrder(uses) == SelectSeq(SUPPORTED, LAMBDA c : c \in uses)
First(uses) == InOrder(uses)[1]
EveryCurrency == [uses |-> Supported, newGroups |-> SUPPORTED[1]]

\* What new groups start in follows what is used.
Follows(uses, newGroups) == IF newGroups \in uses THEN newGroups ELSE First(uses)

\* What was saved, or both for nothing that can be used.
Parsed(saved) ==
    LET uses == saved.uses \cap Supported IN
    IF uses = {} THEN EveryCurrency
    ELSE [uses |-> uses, newGroups |-> Follows(uses, saved.newGroups)]

Toggled(prefs, c) ==
    LET uses == IF c \in prefs.uses THEN prefs.uses \ {c} ELSE prefs.uses \cup {c} IN
    IF uses = {} THEN prefs
    ELSE [uses |-> uses, newGroups |-> Follows(uses, prefs.newGroups)]

StartIn(prefs, c) == IF c \in prefs.uses THEN [prefs EXCEPT !.newGroups = c] ELSE prefs

\* The ways to pay somebody is shown in a group.
Ways(uses, currency) ==
    (IF "BTC" \in uses \/ currency = "BTC" THEN {"lightning"} ELSE {})
    \cup (IF "INR" \in uses /\ currency = "INR" THEN {"upi"} ELSE {})

Init ==
    /\ stored \in Stored
    /\ choice = [read |-> FALSE, prefs |-> EveryCurrency]
    /\ writes = <<>> /\ writeLost = FALSE /\ changes = 0
    /\ screen = "home" /\ opened = 0 /\ form = Blank("INR")
    /\ keys = [o \in Forms |-> {}] /\ call = [o \in Forms |-> Idle]
    /\ net = {} /\ answers = {} /\ made = <<>> /\ sent = 0

\* The device answers; a read that fails is as if nothing had been saved.
Read ==
    /\ ~choice.read
    /\ \E prefs \in {Parsed(stored), EveryCurrency} :
          /\ choice' = [read |-> TRUE, prefs |-> prefs]
          /\ writeLost' = (writeLost \/ prefs # Parsed(stored))
    /\ UNCHANGED <<stored, writes, changes, screen, opened, form, keys, call, server>>

\* What the app goes by, it keeps. The app waits for the read, so nothing is chosen before.
Choose(prefs) ==
    /\ choice.read /\ screen = "account" /\ changes < MaxChanges
    /\ changes' = changes + 1
    /\ choice' = [choice EXCEPT !.prefs = prefs]
    /\ writes' = Append(writes, prefs)
    /\ UNCHANGED <<stored, writeLost, screen, opened, form, keys, call, server>>

\* The last one left on can't be tapped; the start is offered with both on.
Pick(c) ==
    \/ choice.prefs.uses # {c} /\ Choose(Toggled(choice.prefs, c))
    \/ choice.prefs.uses = Supported /\ Choose(StartIn(choice.prefs, c))

\* The device keeps a choice, or fails to: it then holds until the app is closed.
Land ==
    /\ writes # <<>>
    /\ writes' = Tail(writes)
    /\ \/ stored' = Head(writes) /\ writeLost' = FALSE
       \/ stored' = stored /\ writeLost' = TRUE
    /\ UNCHANGED <<choice, changes, screen, opened, form, keys, call, server>>

-----------------------------------------------------------------------------
(* The form.                                                                *)

\* Home and the account screen are tabs; a group is left for home.
GoTo(s) ==
    /\ choice.read /\ screen \in {"home", "account", "group"} /\ s # screen
    /\ screen' = s
    /\ UNCHANGED <<prefsVars, opened, form, keys, call, server>>

Open ==
    /\ choice.read /\ screen = "home" /\ opened < MaxOpens
    /\ screen' = "new" /\ opened' = opened + 1
    /\ form' = Blank(choice.prefs.newGroups)
    /\ UNCHANGED <<prefsVars, keys, call, server>>

Back ==
    /\ screen = "new"
    /\ screen' = "home" /\ form' = Blank("INR")
    /\ UNCHANGED <<prefsVars, opened, keys, call, server>>

Edit(f) ==
    /\ screen = "new" /\ f # form
    /\ form' = f
    /\ UNCHANGED <<prefsVars, screen, opened, keys, call, server>>

TypeName == Edit([form EXCEPT !.named = TRUE])
TypeDraft(n) == Edit([form EXCEPT !.draft = n])

Add ==
    /\ form.draft # NoName /\ Len(form.people) < MaxPeople
    /\ Edit([form EXCEPT !.people = Append(@, form.draft), !.draft = NoName])

TakeOut(i) == i <= Len(form.people) /\ Edit([form EXCEPT !.people = RemoveAt(@, i)])

\* The chip goes round the currencies they use, and is a label with only one.
NextIn(uses, c) ==
    LET choices == InOrder(uses)
        at == IF Contains(choices, c) THEN CHOOSE i \in 1 .. Len(choices) : choices[i] = c ELSE 0
    IN choices[(at % Len(choices)) + 1]

TurnChip == Edit([form EXCEPT !.currency = NextIn(choice.prefs.uses, @)])

\* Whoever is typed and not yet added is in too.
Everyone == IF form.draft = NoName THEN form.people ELSE Append(form.people, form.draft)

Asked == [currency |-> form.currency, members |-> Everyone]

\* The key of what was asked before and had no answer, or a new one.
KeyFor(o, input) ==
    IF \E k \in keys[o] : k.input = input
    THEN (CHOOSE k \in keys[o] : k.input = input).key ELSE sent + 1

\* A second tap before the button is drawn busy joins the request on its way.
Submit ==
    LET k == KeyFor(opened, Asked) IN
    /\ screen = "new" /\ ~form.busy
    /\ IF form.named
       THEN /\ sent < MaxSent
            /\ sent' = sent + 1
            /\ form' = [form EXCEPT !.busy = TRUE, !.error = FALSE]
            /\ keys' = [keys EXCEPT ![opened] = @ \cup {[input |-> Asked, key |-> k]}]
            /\ call' = [call EXCEPT ![opened] =
                   [stage |-> "waiting", attempt |-> sent', group |-> 0]]
            /\ net' = net \cup {[attempt |-> sent', form |-> opened, key |-> k, input |-> Asked]}
            /\ UNCHANGED <<answers, made>>
       ELSE /\ form' = [form EXCEPT !.error = TRUE]
            /\ UNCHANGED <<keys, call, server>>
    /\ UNCHANGED <<prefsVars, screen, opened>>

\* The group a key made, or the next.
GroupOf(key) ==
    IF \E g \in DOMAIN made : made[g].key = key
    THEN CHOOSE g \in DOMAIN made : made[g].key = key ELSE Len(made) + 1

\* POST /groups: made once for a key, and answered the same again.
Serve(r) ==
    /\ net' = net \ {r}
    /\ made' = IF GroupOf(r.key) \in DOMAIN made THEN made
               ELSE Append(made, [key |-> r.key, form |-> r.form, input |-> r.input])
    /\ answers' = answers \cup {[attempt |-> r.attempt, group |-> GroupOf(r.key)]}
    /\ UNCHANGED <<prefsVars, screen, opened, form, keys, call, sent>>

\* What the form shows of its own request, if it is still the one on screen.
OnScreen(o, f) == IF screen = "new" /\ o = opened THEN f ELSE form

\* A request that is given up on keeps its key, and may still be served.
Fail(o) ==
    /\ call[o].stage = "waiting"
    /\ call' = [call EXCEPT ![o] = Idle]
    /\ form' = OnScreen(o, [form EXCEPT !.busy = FALSE, !.error = TRUE])
    /\ UNCHANGED <<prefsVars, screen, opened, keys, server>>

KeyOfAttempt(o, group) == {k \in keys[o] : k.key = made[group].key}

\* The answer is here, and its key done with: one sync before the group opens.
Answer(o) ==
    /\ call[o].stage = "waiting"
    /\ \E a \in answers :
          /\ a.attempt = call[o].attempt
          /\ answers' = answers \ {a}
          /\ keys' = [keys EXCEPT ![o] = @ \ KeyOfAttempt(o, a.group)]
          /\ call' = [call EXCEPT ![o] = [@ EXCEPT !.stage = "syncing", !.group = a.group]]
    /\ UNCHANGED <<prefsVars, screen, opened, form, net, made, sent>>

\* The sync is over, well or not, and the group opens: also over a form opened since.
Created(o) ==
    /\ call[o].stage = "syncing"
    /\ call' = [call EXCEPT ![o].stage = "idle"]
    /\ screen' = "group" /\ form' = Blank("INR")
    /\ UNCHANGED <<prefsVars, opened, keys, server>>

\* The app is closed and opened again: what was on its way from it stops.
Restart ==
    /\ choice.read
    /\ choice' = [read |-> FALSE, prefs |-> EveryCurrency]
    /\ writes' = <<>> /\ writeLost' = (writeLost \/ writes # <<>>)
    /\ screen' = "home" /\ form' = Blank("INR")
    /\ keys' = [o \in Forms |-> {}] /\ call' = [o \in Forms |-> Idle]
    /\ UNCHANGED <<stored, changes, opened, server>>

Next ==
    \/ Read \/ Land \/ Restart
    \/ \E c \in Supported : Pick(c)
    \/ \E s \in {"home", "account"} : GoTo(s)
    \/ Open \/ Back \/ TypeName \/ Add \/ TurnChip \/ Submit
    \/ \E n \in Names \cup {NoName} : TypeDraft(n)
    \/ \E i \in 1 .. MaxPeople : TakeOut(i)
    \/ \E r \in net : Serve(r)
    \/ \E o \in Forms : Fail(o) \/ Answer(o) \/ Created(o)

Spec == Init /\ [][Next]_vars

-----------------------------------------------------------------------------
\* A group is only ever asked for in a currency its maker uses at the moment:
\* whatever an older version left on the device, and whichever was turned off
\* and on since (currencyPrefs.ts, NewGroupScreen's chip).
CurrencyIsUsed ==
    \A r \in net' \ net : r.input.currency \in choice.prefs.uses

\* One form makes one group of the same name, people and currency, however
\* often its answer is lost and it is tapped again (ActionKeys, idempotency).
OncePerForm ==
    \A g, h \in DOMAIN made :
        made[g].form = made[h].form /\ made[g].input = made[h].input => g = h

\* The group an answer opens is the one that was asked for: a form changed
\* between two tries doesn't open what the first try made.
OpenedAsAsked ==
    \A r \in net, a \in answers' \ answers :
        a.attempt = r.attempt => made'[a.group].input = r.input

\* A choice that reached the device is the one the next launch goes by.
SameAtNextLaunch ==
    choice.read /\ writes = <<>> /\ ~writeLost => Parsed(stored) = choice.prefs

\* Whatever was turned off, a debt of any group can be paid some way in the app.
AlwaysAWay == \A c \in Supported : Ways(choice.prefs.uses, c) # {}
=============================================================================
