----------------------------- MODULE ServerParts -----------------------------
(***************************************************************************)
(* Parts of the server and the page of a group for guests, side by side: a *)
(* behaviour picks one of them and takes only its steps.  What two parts   *)
(* call the same is named apart here.                                      *)
(***************************************************************************)
EXTENDS Integers, FiniteSets, Sequences

CONSTANTS
    \* SignIn
    Tabs, Devices, DeviceOf, MaxKeys, MaxAsks,
    \* NostrSignIn
    Accounts, Signers, NoSigner, Challenges, MaxLive,
    \* Receiving
    Members, Shared, NoAccount, Wallets, NoWallet, MaxChanges,
    \* Usage
    Reporters, Guest, FlushAt, MaxQueued, BatchEvents, DailyRoom, MaxEvents, MaxFailures,
    \* RequestLog
    Askers, MadeUp, AskersDevices, NoUser, Remembered, Memory, MaxRequests, LogTime,
    \* UsagePrune
    Installs, User, RequestDays, GuestDays, AccountDays, PruneChunk, MaxRows, MaxDays,
    \* Rates
    Callers, Nobody, Sources, Ttl, RateTimeout, HasFixed, RatesTime,
    \* VerifyLoop
    Invoices, PerRun, PerMinute, Minute, BriskFor, Brisk, Slow, LivesFor, LoopTime,
    \* WalletCalls
    Makes, Lookups, Offers, SaysState, InvoiceEnds, Second, Wait, WalletTime, MaxErrors,
    \* AddressInvoices
    AddressAsks, PayAddresses, AddressOf, Versions, Amount, CacheTime, CacheEntries,
    AddressTime,
    \* SafeFetch
    Public, Private, MaxBytes, FetchTimeout,
    \* PaymentUpdates
    HasStream, StreamFinish, LastStatus, MaxChecks, MaxDrops,
    \* GroupPage
    Refs, NoRef, PageChanges

\* The part a behaviour is of, and the variables of each, 0 for the others.
VARIABLES part,
    \* SignIn
    token, previous, keysMade, answers, stored, at, mine, answered, sync, ask,
    \* NostrSignIn
    linked, challenges, late, handedOut, proofs, uses,
    \* Receiving
    alive, there, heldBy, status, wallets, connected, upiIds, hidden, choice, chosenBy,
    heldSince, minter, linkOf, askingWallet, changes,
    \* Usage
    signed, accounts, by, queue, posting, failures, flushTimer, inBackground, after, post,
    events, counted, keptToday, ever, dropped,
    \* RequestLog
    users, requestRows, came, inside, named, waiting, scheduled, now, underWay,
    \* UsagePrune
    usageRows, rowsTaken, day, pass, began, signedIn, atStart,
    \* Rates
    ratesClock, last, pending, lookup, caller, said,
    \* VerifyLoop
    loopClock, mint, mints, requests, watched, mintedAt, askedAt, loop, firesAt, checking,
    \* WalletCalls
    walletClock, encryption, call, onRelay, handled, walletAnswers, made, invoicePaid,
    \* AddressInvoices
    addressClock, current, cache, invoiceAsk, given, verified, hashesPaid,
    \* SafeFetch
    fetchClock, link, names, stage, socket, held, deadline, outcome,
    \* PaymentUpdates
    row, gone, source, server, pipe, poll, answer, stopped, heard, drops,
    \* GroupPage
    debt, moved, data, reads, paying, settling, starts, upi, payee, asks, marking, saying,
    back, left, leftForUpi, kept, due

S == INSTANCE SignIn

N == INSTANCE NostrSignIn WITH
    live <- challenges

R == INSTANCE Receiving WITH
    asking <- askingWallet

U == INSTANCE Usage WITH
    Accounts <- Reporters, live <- accounts, timer <- flushTimer, away <- inBackground,
    rows <- events, taken <- counted, today <- keptToday

Q == INSTANCE RequestLog WITH
    Accounts <- Askers, Devices <- AskersDevices, None <- NoUser, MaxTime <- LogTime,
    live <- users, rows <- requestRows

O == INSTANCE UsagePrune WITH
    Devices <- Installs, Chunk <- PruneChunk, rows <- usageRows,
    taken <- rowsTaken, today <- day

E == INSTANCE Rates WITH
    Timeout <- RateTimeout, MaxTime <- RatesTime, clock <- ratesClock, asking <- lookup

V == INSTANCE VerifyLoop WITH
    MaxTime <- LoopTime, clock <- loopClock

W == INSTANCE WalletCalls WITH
    Ends <- InvoiceEnds, MaxTime <- WalletTime, clock <- walletClock,
    answers <- walletAnswers, paid <- invoicePaid

A == INSTANCE AddressInvoices WITH
    Asks <- AddressAsks, Addresses <- PayAddresses, MaxTime <- AddressTime,
    clock <- addressClock, ask <- invoiceAsk, paid <- hashesPaid

F == INSTANCE SafeFetch WITH
    Timeout <- FetchTimeout, clock <- fetchClock, timer <- deadline

P == INSTANCE PaymentUpdates WITH
    Finish <- StreamFinish, Last <- LastStatus

G == INSTANCE GroupPage WITH
    MaxChanges <- PageChanges, away <- leftForUpi

ASSUME PartsAssumption ==
    /\ S!SignInAssumption
    /\ N!NostrSignInAssumption
    /\ R!ReceivingAssumption
    /\ U!UsageAssumption
    /\ Q!RequestLogAssumption
    /\ O!UsagePruneAssumption
    /\ E!RatesAssumption
    /\ V!LoopAssumption
    /\ W!CallsAssumption
    /\ A!AddressAssumption
    /\ F!FetchAssumption
    /\ P!PaymentUpdatesAssumption
    /\ G!GroupPageAssumption

\* Who has which device, and which address is asked, in a configuration.
OneDevice == [t \in Tabs |-> CHOOSE d \in Devices : TRUE]
EachAddress ==
    CHOOSE f \in [AddressAsks -> PayAddresses] :
        \A a \in PayAddresses : \E r \in AddressAsks : f[r] = a

vars == <<part, token, previous, keysMade, answers, stored, at, mine, answered, sync, ask,
          linked, challenges, late, handedOut, proofs, uses, alive, there, heldBy, status,
          wallets, connected, upiIds, hidden, choice, chosenBy, heldSince, minter, linkOf,
          askingWallet, changes, signed, accounts, by, queue, posting, failures, flushTimer,
          inBackground, after, post, events, counted, keptToday, ever, dropped, users,
          requestRows, came, inside, named, waiting, scheduled, now, underWay, usageRows,
          rowsTaken, day, pass, began, signedIn, atStart, ratesClock, last, pending, lookup,
          caller, said, loopClock, mint, mints, requests, watched, mintedAt, askedAt, loop,
          firesAt, checking, walletClock, encryption, call, onRelay, handled, walletAnswers,
          made, invoicePaid, addressClock, current, cache, invoiceAsk, given, verified,
          hashesPaid, fetchClock, link, names, stage, socket, held, deadline, outcome, row,
          gone, source, server, pipe, poll, answer, stopped, heard, drops, debt, moved,
          data, reads, paying, settling, starts, upi, payee, asks, marking, saying, back,
          left, leftForUpi, kept, due>>

Parts == {"keys", "nostr", "receiving", "usage", "requests", "prune", "rates", "verify",
          "wallet", "address", "fetch", "updates", "page"}

\* The variables of the other parts.
Idle ==
    /\ part # "keys" => token = 0 /\ previous = 0 /\ keysMade = 0 /\ answers = 0
        /\ stored = 0 /\ at = 0 /\ mine = 0 /\ answered = 0 /\ sync = 0 /\ ask = 0
    /\ part # "nostr" => linked = 0 /\ challenges = 0 /\ late = 0 /\ handedOut = 0
        /\ proofs = 0 /\ uses = 0
    /\ part # "receiving" => alive = 0 /\ there = 0 /\ heldBy = 0 /\ status = 0
        /\ wallets = 0 /\ connected = 0 /\ upiIds = 0 /\ hidden = 0 /\ choice = 0 /\ chosenBy = 0
        /\ heldSince = 0 /\ minter = 0 /\ linkOf = 0 /\ askingWallet = 0 /\ changes = 0
    /\ part # "usage" => signed = 0 /\ accounts = 0 /\ by = 0 /\ queue = 0 /\ posting = 0
        /\ failures = 0 /\ flushTimer = 0 /\ inBackground = 0 /\ after = 0 /\ post = 0
        /\ events = 0 /\ counted = 0 /\ keptToday = 0 /\ ever = 0 /\ dropped = 0
    /\ part # "requests" => users = 0 /\ requestRows = 0 /\ came = 0 /\ inside = 0
        /\ named = 0 /\ waiting = 0 /\ scheduled = 0 /\ now = 0 /\ underWay = 0
    /\ part # "prune" => usageRows = 0 /\ rowsTaken = 0 /\ day = 0 /\ pass = 0 /\ began = 0
        /\ signedIn = 0 /\ atStart = 0
    /\ part # "rates" => ratesClock = 0 /\ last = 0 /\ pending = 0 /\ lookup = 0
        /\ caller = 0 /\ said = 0
    /\ part # "verify" => loopClock = 0 /\ mint = 0 /\ mints = 0 /\ requests = 0
        /\ watched = 0 /\ mintedAt = 0 /\ askedAt = 0 /\ loop = 0 /\ firesAt = 0
        /\ checking = 0
    /\ part # "wallet" => walletClock = 0 /\ encryption = 0 /\ call = 0 /\ onRelay = 0
        /\ handled = 0 /\ walletAnswers = 0 /\ made = 0 /\ invoicePaid = 0
    /\ part # "address" => addressClock = 0 /\ current = 0 /\ cache = 0 /\ invoiceAsk = 0
        /\ given = 0 /\ verified = 0 /\ hashesPaid = 0
    /\ part # "fetch" => fetchClock = 0 /\ link = 0 /\ names = 0 /\ stage = 0 /\ socket = 0
        /\ held = 0 /\ deadline = 0 /\ outcome = 0
    /\ part # "updates" => row = 0 /\ gone = 0 /\ source = 0 /\ server = 0 /\ pipe = 0
        /\ poll = 0 /\ answer = 0 /\ stopped = 0 /\ heard = 0 /\ drops = 0
    /\ part # "page" => debt = 0 /\ moved = 0 /\ data = 0 /\ reads = 0 /\ paying = 0
        /\ settling = 0 /\ starts = 0 /\ upi = 0 /\ payee = 0 /\ asks = 0 /\ marking = 0
        /\ saying = 0 /\ back = 0 /\ left = 0 /\ leftForUpi = 0 /\ kept = 0 /\ due = 0
StayIdle ==
    /\ part # "keys" => UNCHANGED <<token, previous, keysMade, answers, stored, at, mine,
        answered, sync, ask>>
    /\ part # "nostr" => UNCHANGED <<linked, challenges, late, handedOut, proofs, uses>>
    /\ part # "receiving" => UNCHANGED <<alive, there, heldBy, status, wallets, connected,
        upiIds, hidden, choice, chosenBy, heldSince, minter, linkOf, askingWallet, changes>>
    /\ part # "usage" => UNCHANGED <<signed, accounts, by, queue, posting, failures,
        flushTimer, inBackground, after, post, events, counted, keptToday, ever, dropped>>
    /\ part # "requests" => UNCHANGED <<users, requestRows, came, inside, named, waiting,
        scheduled, now, underWay>>
    /\ part # "prune" => UNCHANGED <<usageRows, rowsTaken, day, pass, began, signedIn,
        atStart>>
    /\ part # "rates" => UNCHANGED <<ratesClock, last, pending, lookup, caller, said>>
    /\ part # "verify" => UNCHANGED <<loopClock, mint, mints, requests, watched, mintedAt,
        askedAt, loop, firesAt, checking>>
    /\ part # "wallet" => UNCHANGED <<walletClock, encryption, call, onRelay, handled,
        walletAnswers, made, invoicePaid>>
    /\ part # "address" => UNCHANGED <<addressClock, current, cache, invoiceAsk, given,
        verified, hashesPaid>>
    /\ part # "fetch" => UNCHANGED <<fetchClock, link, names, stage, socket, held, deadline,
        outcome>>
    /\ part # "updates" => UNCHANGED <<row, gone, source, server, pipe, poll, answer,
        stopped, heard, drops>>
    /\ part # "page" => UNCHANGED <<debt, moved, data, reads, paying, settling, starts, upi,
        payee, asks, marking, saying, back, left, leftForUpi, kept, due>>

Init ==
    /\ part \in Parts
    /\ part = "keys" => S!Init
    /\ part = "nostr" => N!Init
    /\ part = "receiving" => R!Init
    /\ part = "usage" => U!Init
    /\ part = "requests" => Q!Init
    /\ part = "prune" => O!Init
    /\ part = "rates" => E!Init
    /\ part = "verify" => V!Init
    /\ part = "wallet" => W!Init
    /\ part = "address" => A!Init
    /\ part = "fetch" => F!Init
    /\ part = "updates" => P!Init
    /\ part = "page" => G!Init
    /\ Idle

Next ==
    /\ UNCHANGED part
    /\ \/ part = "keys" /\ S!Next
       \/ part = "nostr" /\ N!Next
       \/ part = "receiving" /\ R!Next
       \/ part = "usage" /\ U!Next
       \/ part = "requests" /\ Q!Next
       \/ part = "prune" /\ O!Next
       \/ part = "rates" /\ E!Next
       \/ part = "verify" /\ V!Next
       \/ part = "wallet" /\ W!Next
       \/ part = "address" /\ A!Next
       \/ part = "fetch" /\ F!Next
       \/ part = "updates" /\ P!Next
       \/ part = "page" /\ G!Next
    /\ StayIdle

Spec == Init /\ [][Next]_vars

---------------------------------------------------------------------------

\* Only the key that signs in replaces itself, a repeated request is answered with the key
\* that signs in, and nobody is signed out while holding it (routes/accounts.ts,
\* middleware.ts, App.tsx). A link to pay somebody outlives the device it was made on
\* (repo.ts), and the wallet a payment is made with goes only for another that its account
\* connected (routes/wallet.ts, groupRules.ts).
KeysAreCurrent ==
    [][/\ part = "keys" => S!OnlyTheKeyReplaces /\ S!ReplayIsCurrent /\ S!LiveKeyIsKept
       /\ part = "receiving" => R!LinksOutlive /\ R!OnlyTheyReplace]_vars

\* What opens an account or pays it is its own: a challenge is good once and a Nostr key
\* opens one account (nostrAuth.ts); a member offers Lightning while one of those who are it
\* has a wallet and shows a UPI ID by a choice of theirs; and who is being paid stays the
\* payee and has a wallet to ask, if not the one the payment is made with (walletStore.ts,
\* repo.ts, groupRules.ts).
AccountsAreTheirs ==
    /\ part = "keys" => S!TypeOK
    /\ part = "nostr" => N!TypeOK /\ N!ChallengeOnce /\ N!OneAccountPerNostr
    /\ part = "receiving" => R!TypeOK /\ R!LinkedMeansWallet /\ R!ChoiceIsTheirs /\
            R!MinterStays

\* What was recorded is sent, oldest first, and counts once (tracker.ts,
\* routes/analytics.ts); a row that waits has a write coming, and none names a deleted
\* account (middleware.ts).
UsageIsKept ==
    /\ part = "usage" => U!TypeOK /\ U!NoneMislaid /\ U!OldestFirst /\ U!AlwaysOnItsWay /\
            U!CostsOnce
    /\ part = "requests" => Q!TypeOK /\ Q!AlwaysWritten /\ Q!DeletedStaysOut
    /\ part = "prune" => O!TypeOK

\* However many ask at once: invoices of an address in a minute, and the loop that watches
\* them (lightning.ts), parameters remembered (lnurl.ts), tokens remembered (middleware.ts),
\* and where an outgoing request connects, what it keeps and leaves behind (safeFetch.ts).
LimitsHold ==
    /\ part = "verify" => V!TypeOK /\ V!MintsPerMinute /\ V!LoopLives
    /\ part = "address" => A!TypeOK /\ A!CacheIsSmall
    /\ part = "requests" => Q!FewAreNamed
    /\ part = "fetch" => F!TypeOK /\ F!ConnectsInPublic /\ F!HeldIsSmall /\
            F!NothingLeftOpen

\* An answer is of the call that asked, and true: an invoice, a payment looked up or proved
\* (nwc.ts, lnurl.ts), parameters and rates as recent as is said (lnurl.ts, rates.ts). A
\* screen that follows a payment always has one way to hear its end (ApiClient.ts).
AnswersAreTrue ==
    /\ part = "wallet" => W!TypeOK /\ W!AnswerIsItsOwn /\ W!SettledWasPaid
    /\ part = "address" => A!PaidWasPaid /\ A!ParamsAreRecent
    /\ part = "rates" => E!TypeOK /\ E!MarketIsFresh
    /\ part = "updates" => P!TypeOK /\ P!OneWayToHear /\ P!OpenHasAnEnd /\ P!ClosedWhenHeard

\* What comes late does no harm: an older reading of a payment (ApiClient.ts), a call given
\* up (nwc.ts), a rate asked for during an outage (rates.ts), a send that failed
\* (tracker.ts), rows of somebody who signed in since they were written
\* (routes/analytics.ts), the page of another payment (GroupGuestScreen.tsx).
LateIsLeft ==
    [][/\ part = "updates" => P!OnlyForward
       /\ part = "wallet" => W!NothingAfterTimeout
       /\ part = "rates" => E!LastKnownIsSaid
       /\ part = "usage" => U!BacksOff
       /\ part = "prune" => O!OwnHistoryStays /\ O!NothingOldIsLeft
       /\ part = "page" => G!PayPageIsNotSwapped]_vars

\* A group's page for guests asks one question at a time, and of the debt whose panel is
\* open (GroupGuestScreen.tsx).
AsksAboutItsDebt ==
    /\ part = "page" => G!TypeOK /\ G!OneQuestion /\ G!AskedOfItsDebt
==============================================================================
