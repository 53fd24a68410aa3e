---------------------------- MODULE MCAppParts ----------------------------
(* Screens and what the app keeps, each on a small instance of its own: a    *)
(* behaviour picks one of them and takes only its steps.                     *)
EXTENDS Integers, FiniteSets, Sequences, TLC

CONSTANTS
    me, asker, friend, link1, link2, none, nom, asha, bina, tab1, tab2

\* The part a behaviour is of, and the variables the parts take turns to use.
VARIABLES part,
    x1, x2, x3, x4, x5, x6, x7, x8, x9, x10, x11, x12, x13, x14, x15, x16, x17, x18, x19,
    x20, x21

vars == <<part, x1, x2, x3, x4, x5, x6, x7, x8, x9, x10, x11, x12, x13, x14, x15, x16, x17,
          x18, x19, x20, x21>>

F == INSTANCE SettleFlow WITH
    MaxOwed <- 2, MaxRows <- 2, MaxOutcomes <- 1, MaxKeys <- 2, MaxNet <- 1, owed <- x1,
    rows <- x2, kept <- x3, net <- x4, step <- x5, call <- x6, only <- x7, outcome <- x8,
    outcomes <- x9, copied <- x10, byHand <- x11, left <- x12, keys <- x13, made <- x14,
    follows <- x15, lapsed <- x16, polls <- x17

M == INSTANCE DemoPayments WITH
    OnLinks <- TRUE, Fails <- FALSE, MaxOwed <- 1, MaxPayments <- 3, MaxLinks <- 1,
    spent <- x1, payments <- x2, upiClaims <- x3, payLinks <- x4, replies <- x5,
    deleted <- x6

D == INSTANCE DemoGroup WITH
    Me <- me, Asker <- asker, Friend <- friend, MaxMembers <- 4, heldBy <- x1,
    memberIds <- x2, joinRequests <- x3, approveJoins <- x4, shared <- x5, exists <- x6,
    expenses <- x7, history <- x8

V == INSTANCE AppUpdates WITH
    MaxVersion <- 1, current <- x1, newest <- x2, priorityHigh <- x3, install <- x4,
    started <- x5, declinedVersion <- x6, phase <- x7, checks <- x8, flows <- x9,
    flowOpen <- x10, installing <- x11, urgent <- x12, asked <- x13, told <- x14,
    shut <- x15

X == INSTANCE ExpenseForm WITH
    HowMany <- 3, Amounts <- {0, 5}, Parts <- {0, 2}, Percents <- {34, 66}, MaxEdits <- 3,
    here <- x1, seed <- x2, kind <- x3, amount <- x4, named <- x5, way <- x6,
    included <- x7, typed <- x8, page <- x9, items <- x10, saved <- x11, sent <- x12,
    deleted <- x13, edits <- x14

J == INSTANCE JoinFlow WITH
    Listed <- {"asha", "bina"}, ApprovalMoves <- FALSE, MaxAccounts <- 2, MaxNet <- 1,
    approving <- x1, inGroup <- x2, holders <- x3, waiting <- x4, alive <- x5, named <- x6,
    did <- x7, signedUp <- x8, made <- x9, dropped <- x10, view <- x11, pick <- x12,
    stage <- x13, req <- x14, net <- x15, answer <- x16

P == INSTANCE GetPaid WITH
    Ways <- {"wallet", "upi"}, Values <- {"one"}, Waits <- TRUE, MaxSends <- 2,
    MaxVisits <- 1, uses <- x1, server <- x2, kept <- x3, screen <- x4, visit <- x5,
    card <- x6, replacing <- x7, net <- x8, sends <- x9, doneKept <- x10, launching <- x11,
    look <- x12, field <- x13

N == INSTANCE Navigation WITH
    Screens <- {"groups", "join", "group", "history", "wallet", "faq", "newGroup",
    "addExpense", "editExpense", "account", "groupSettings", "restore"}, MaxSheets <- 1,
    MaxTrips <- 2, MaxMoves <- 5, account <- x1, joining <- x2, route <- x3, sheets <- x4,
    at <- x5, depth <- x6, undoing <- x7, address <- x8, hist <- x9, pos <- x10,
    trips <- x11, backs <- x12, presses <- x13, left <- x14, moves <- x15

T == INSTANCE SplitGuide WITH
    Unknown <- "later", MaxLives <- 2, MaxForms <- 2, kept <- x1, read <- x2, seen <- x3,
    owing <- x4, writes <- x5, form <- x6, focusAtOnce <- x7, keyboard <- x8, details <- x9,
    byItem <- x10, tour <- x11, frame <- x12, tourShown <- x13, ack <- x14, isIn <- x15,
    introAt <- x16, backs <- x17, toured <- x18, here <- x19, lives <- x20, forms <- x21

L == INSTANCE CoachLayout WITH
    Stage <- [width |-> 390, height |-> 844], Insets <- {[top |-> 47, bottom |-> 34], [top
    |-> 0, bottom |-> 0]}, Xs <- {-30, 300}, Ys <- {-40, 200, 430, 830}, Widths <- {40,
    358}, Heights <- {40, 420}, CardHeights <- {120, 400}, targets <- x1, inset <- x2,
    height <- x3, placed <- x4

C == INSTANCE SavedCopy WITH
    Tabs <- {tab1}, Keys <- {"x1", "x2", "y1"}, AccountOf <- ("x1" :> asha @@ "x2" :> asha @@
    "y1" :> bina), None <- none, FirstKeys <- {"x1", "y1"}, MaxChanges <- 2, MaxMoves <- 7,
    token <- x1, live <- x2, used <- x3, copy <- x4, kept <- x5, app <- x6, made <- x7,
    reached <- x8, letGo <- x9, cut <- x10, moves <- x11

B == INSTANCE SavedCopy WITH
    Tabs <- {tab1, tab2}, Keys <- {"x1", "x2", "y1"}, AccountOf <- ("x1" :> asha @@ "x2" :>
    asha @@ "y1" :> bina), None <- none, FirstKeys <- {"x1", "y1"}, MaxChanges <- 1,
    MaxMoves <- 5, token <- x1, live <- x2, used <- x3, copy <- x4, kept <- x5, app <- x6,
    made <- x7, reached <- x8, letGo <- x9, cut <- x10, moves <- x11

\* Which of two tabs is which makes no difference.
EitherTab == Permutations({tab1, tab2})

S == INSTANCE GroupSettings WITH
    MaxMade <- 2, MaxVisits <- 1, MaxLost <- 1, part <- x1, link <- x2, made <- x3,
    group <- x4, done <- x5, view <- x6, kept <- x7, reads <- x8, visit <- x9, open <- x10,
    shown <- x11, changedHere <- x12, on <- x13, state <- x14, said <- x15, request <- x16,
    told <- x17, lost <- x18

E == INSTANCE Entrance WITH
    Links <- {link1, link2}, None <- none, WhileMaking <- FALSE, MaxMade <- 3, MaxTaps <- 3,
    MaxLaunches <- 1, web <- x1, joining <- x2, shared <- x3, address <- x4, toured <- x5,
    step <- x6, keptTour <- x7, account <- x8, at <- x9, token <- x10, making <- x11,
    made <- x12, route <- x13, looks <- x14, wanted <- x15, taps <- x16, launches <- x17

I == INSTANCE GuestPay WITH
    FromGroup <- FALSE, MaxInvoices <- 2, MaxNet <- 1, Others <- {"open"}, ways <- x1,
    debt <- x2, invoices <- x3, elsewhere <- x4, claim <- x5, page <- x6, opening <- x7,
    reading <- x8, checked <- x9, saying <- x10, proving <- x11, said <- x12

G == INSTANCE NewGroup WITH
    Names <- {nom}, NoName <- none, MaxPeople <- 1, MaxOpens <- 1, MaxSent <- 2,
    MaxChanges <- 1, Stored <- {[uses |-> {}, newGroups |-> "INR"], [uses |-> {"BTC"},
    newGroups |-> "INR"]}, stored <- x1, choice <- x2, writes <- x3, writeLost <- x4,
    changes <- x5, screen <- x6, opened <- x7, form <- x8, keys <- x9, call <- x10,
    net <- x11, answers <- x12, made <- x13, sent <- x14

ASSUME PartsAssumption ==
    /\ M!DemoPaymentsAssumption
    /\ D!DemoGroupAssumption
    /\ V!AppUpdatesAssumption
    /\ X!ExpenseFormAssumption
    /\ J!JoinFlowAssumption
    /\ P!GetPaidAssumption
    /\ N!NavigationAssumption
    /\ S!GroupSettingsAssumption
    /\ E!EntranceAssumption
    /\ I!GuestPayAssumption
    /\ G!NewGroupAssumption

\* A part with n variables leaves the others alone.
Unused(n) ==
    /\ (n < 5 => x5 = 0) /\ (n < 6 => x6 = 0) /\ (n < 7 => x7 = 0) /\ (n < 8 => x8 = 0)
    /\ (n < 9 => x9 = 0) /\ (n < 10 => x10 = 0) /\ (n < 11 => x11 = 0) /\ (n < 12 => x12 = 0)
    /\ (n < 13 => x13 = 0) /\ (n < 14 => x14 = 0) /\ (n < 15 => x15 = 0) /\ (n < 16 => x16 = 0)
    /\ (n < 17 => x17 = 0) /\ (n < 18 => x18 = 0) /\ (n < 19 => x19 = 0) /\ (n < 20 => x20 = 0)
    /\ (n < 21 => x21 = 0)
StayUnused(n) ==
    /\ (n < 5 => UNCHANGED x5) /\ (n < 6 => UNCHANGED x6) /\ (n < 7 => UNCHANGED x7)
    /\ (n < 8 => UNCHANGED x8) /\ (n < 9 => UNCHANGED x9) /\ (n < 10 => UNCHANGED x10)
    /\ (n < 11 => UNCHANGED x11) /\ (n < 12 => UNCHANGED x12) /\ (n < 13 => UNCHANGED x13)
    /\ (n < 14 => UNCHANGED x14) /\ (n < 15 => UNCHANGED x15) /\ (n < 16 => UNCHANGED x16)
    /\ (n < 17 => UNCHANGED x17) /\ (n < 18 => UNCHANGED x18) /\ (n < 19 => UNCHANGED x19)
    /\ (n < 20 => UNCHANGED x20) /\ (n < 21 => UNCHANGED x21)

Init ==
    \/ part = "settle" /\ F!Init /\ Unused(17)
    \/ part = "payments" /\ M!Init /\ Unused(6)
    \/ part = "demo" /\ D!Init /\ Unused(8)
    \/ part = "versions" /\ V!Init /\ Unused(15)
    \/ part = "expense" /\ X!Init /\ Unused(14)
    \/ part = "join" /\ J!Init /\ Unused(16)
    \/ part = "paid" /\ P!Init /\ Unused(13)
    \/ part = "back" /\ N!Init /\ Unused(15)
    \/ part = "tips" /\ T!Init /\ Unused(21)
    \/ part = "coach" /\ L!Init /\ Unused(4)
    \/ part = "copy" /\ C!Init /\ Unused(11)
    \/ part = "tabs" /\ B!Init /\ Unused(11)
    \/ part = "settings" /\ S!Init /\ Unused(18)
    \/ part = "entrance" /\ E!Init /\ Unused(17)
    \/ part = "guest" /\ I!Init /\ Unused(12)
    \/ part = "newGroup" /\ G!Init /\ Unused(14)

Next ==
    /\ UNCHANGED part
    /\ \/ part = "settle" /\ F!Next /\ StayUnused(17)
       \/ part = "payments" /\ M!Next /\ StayUnused(6)
       \/ part = "demo" /\ D!Next /\ StayUnused(8)
       \/ part = "versions" /\ V!Next /\ StayUnused(15)
       \/ part = "expense" /\ X!Next /\ StayUnused(14)
       \/ part = "join" /\ J!Next /\ StayUnused(16)
       \/ part = "paid" /\ P!Next /\ StayUnused(13)
       \/ part = "back" /\ N!Next /\ StayUnused(15)
       \/ part = "tips" /\ T!Next /\ StayUnused(21)
       \/ part = "coach" /\ L!Next /\ StayUnused(4)
       \/ part = "copy" /\ C!Next /\ StayUnused(11)
       \/ part = "tabs" /\ B!Next /\ StayUnused(11)
       \/ part = "settings" /\ S!Next /\ StayUnused(18)
       \/ part = "entrance" /\ E!Next /\ StayUnused(17)
       \/ part = "guest" /\ I!Next /\ StayUnused(12)
       \/ part = "newGroup" /\ G!Next /\ StayUnused(14)

Spec == Init /\ [][Next]_vars

---------------------------------------------------------------------------

\* One form makes one expense and one group however often it is sent (AddExpenseScreen.tsx,
\* NewGroupScreen.tsx), what a UPI app reported one settlement (useSettleFlow.ts), and a key
\* one payment of the demo (MockClient.ts); saving an expense as it is changes no share;
\* people join as who they said, as one member, and leave no account behind (JoinScreen.tsx,
\* MockClient.ts).
OnceAndAsThemselves ==
    /\ part = "settle" => F!TypeOK /\ F!OneRowPerOutcome
    /\ part = "payments" => M!TypeOK /\ M!OncePerKey
    /\ part = "expense" => X!TypeOK /\ X!SavedOnce /\ X!EditKeepsShares
    /\ part = "newGroup" => G!TypeOK /\ G!OncePerForm
    /\ part = "join" => J!TypeOK /\ J!NamedAsJoined /\ J!NoneLeftBehind
    /\ part = "demo" => D!TypeOK /\ D!HeldOnce /\ D!NamedStay /\ D!HistoryAgrees

\* A screen shows what the server has, whatever was on its way: how an account is paid
\* (WalletScreen.tsx, GetPaidSheet.tsx), a group's link and switches
\* (GroupSettingsScreen.tsx), a link's newest invoice, and no way to pay after a guest's
\* word that they paid (GuestPayScreen.tsx).
ShownIsTrue ==
    /\ part = "guest" => I!TypeOK /\ I!SaidIsWaitedFor /\ I!ShownInvoiceIsNewest
    /\ part = "paid" => P!TypeOK /\ P!CardIsTrue /\ P!AskedOfTheUnpaid
    /\ part = "settings" => S!TypeOK /\ S!ChangedStays /\ S!SwitchIsAsRead /\
            S!DoneIsNotRefused
    /\ part = "versions" => V!TypeOK

\* A link somebody opened is shown until it is done with (App.tsx, DemoApp.tsx), and Back
\* closes one thing for each press of it and leaves from the start only (backNavigation.ts).
LinksAndBack ==
    /\ part = "entrance" => E!TypeOK /\ E!LinkWaits /\ E!OneLink /\ E!AddressIsLink
    /\ part = "back" => N!TypeOK /\ N!LinkIsShown /\ N!InStep /\ N!OnePressEach /\
            N!LeavesFromStart

\* Tips are marked as seen when they were shown and ended (tips.ts, AddExpenseScreen.tsx),
\* and what a card says can be read and what it points at tapped (coachmarkLayout.ts).
GuideCanBeRead ==
    /\ part = "tips" => T!TypeOK /\ T!EndedIsSeen /\ T!SeenWasShown /\ T!AckIsTrue /\
            T!KeyboardLeavesIntro
    /\ part = "coach" => L!TypeOK /\ L!TapsAreKept /\ L!CardIsRead /\ L!ClearIsClear /\
            L!CoversIfItMust

\* What a device keeps is of the account it was written for and opens for no other, in one
\* tab or two; in one, a change is never only nowhere, but for an app closed while it
\* replaces its key, and one given up with its account never comes back (AppData.ts,
\* App.tsx). A choice that was stored is the next launch's, and leaves a way to pay every
\* debt (currencyPrefs.ts).
KeptIsTheirs ==
    /\ part = "copy" => C!TypeOK /\ C!OwnDataOnly /\ C!KeptIsOwners /\ C!ChangesAreKept /\
            C!LetGoStaysGone
    /\ part = "tabs" => B!TypeOK /\ B!OwnDataOnly /\ B!KeptIsOwners
    /\ part = "newGroup" => G!SameAtNextLaunch /\ G!AlwaysAWay

\* What is sent is what was on the form: shares that add up, of people who are there
\* (AddExpenseScreen.tsx), a currency in use, and the group that was asked for opens
\* (NewGroupScreen.tsx).
AskedAsShown ==
    [][/\ part = "expense" => X!SavedIsShown /\ X!SavedHoldsUp /\ X!PercentsStayPut /\
                 X!BillCarriesOver
       /\ part = "newGroup" => G!CurrencyIsUsed /\ G!OpenedAsAsked]_vars

\* A payment shown settled stays so (useSettleFlow.ts), a used up link mints nothing
\* (MockClient.ts), no account is left for another (WelcomeScreen.tsx) or deleted after it
\* joined (JoinScreen.tsx), an urgent update stays on offer and what was shut stays shut
\* (updater.ts), Back closes the tour only, and tips stay seen (Coachmarks.tsx, tips.ts).
NothingIsTakenBack ==
    [][/\ part = "settle" => F!SettledIsNotUndone
       /\ part = "payments" => M!SpentLinkMintsNothing
       /\ part = "entrance" => E!NoneAbandoned
       /\ part = "join" => J!JoinedIsKept
       /\ part = "versions" => V!NotReopened /\ V!UrgentStaysOffered
       /\ part = "tips" => T!BackLeavesTheSheet /\ T!KeptGrows]_vars

---------------------------------------------------------------------------
(* The debts of five members, the way the loop of simplifyDebts works them   *)
(* out: no part's behaviour, but compared with GroupLedger's before any.     *)

Five == INSTANCE GroupLedger WITH HowMany <- 5
Seqs == INSTANCE SequencesExt

\* Largest first, and then by id.
InOrder(amount) ==
    Seqs!SetToSortSeq({m \in DOMAIN amount : amount[m] > 0},
                      LAMBDA x, y : amount[x] > amount[y] \/ (amount[x] = amount[y] /\ x < y))

RECURSIVE Walk(_, _, _, _, _)
Walk(debtors, creditors, owes, due, pays) ==
    IF debtors = <<>> \/ creditors = <<>> THEN pays
    ELSE LET i == Head(debtors)  j == Head(creditors)  pay == Five!Least(owes[i], due[j])
         IN Walk(IF owes[i] = pay THEN Tail(debtors) ELSE debtors,
                 IF due[j] = pay THEN Tail(creditors) ELSE creditors,
                 [owes EXCEPT ![i] = @ - pay], [due EXCEPT ![j] = @ - pay],
                 [pays EXCEPT ![i, j] = pay])

Greedy(net) ==
    LET owes == [m \in DOMAIN net |-> Five!AtLeastZero(-net[m])]
        due  == [m \in DOMAIN net |-> Five!AtLeastZero(net[m])]
    IN Walk(InOrder(owes), InOrder(due), owes, due, [p \in (DOMAIN net) \X (DOMAIN net) |-> 0])

\* Where the stretches overlap is what taking the largest again and again pays.
ASSUME GreedyAssumption ==
    \A net \in [1..5 -> -2..2] : Five!SumTo(net, 5) = 0 => Five!SimplifyDebts(net) = Greedy(net)
===========================================================================
