# Sattle, specified

TLA+ modules for [Sattle](../src/README.md), an app in which groups share expenses
and settle what they owe each other over Lightning, by UPI or by hand. The modules
are translated from the TypeScript under `src/`: the API server (`apps/api`), the
rules server and app share (`packages/core`) and the parts of the app that keep
state (`apps/mobile`).

Contents: [the system](#the-system) · [what is hard](#what-is-hard) ·
[modules](#modules) · [runs](#runs) · [bounds](#bounds) · [fairness](#fairness) ·
[proofs](#proofs) · [where code and comments
differ](#where-code-and-comments-differ) · [what else was
noticed](#what-else-was-noticed) · [left out](#left-out) · [plan](#plan) · [running
it](#running-it)

## The system

One Node process (Hono) over one SQLite file serves the app and a few web pages for
guests. Database calls are synchronous: a handler is atomic from one `await` to the
next, and every `sqlite.transaction` is. What lives only in the process is lost when
it stops: suspended requests, the map of watched invoices, caches, limits, timers.
The app, too, runs one thing at a time; what it keeps on the device outlives it.

| component | state | operations | correct when |
|---|---|---|---|
| Lightning payments: `payments/lightning.ts`, `settlementRules.ts`, `routes/settlements.ts`, `routes/wallet.ts`, `server.ts` | `settlements` rows, the `watched` map, suspended `mint()` calls, the payee's wallet and address | start, mint, look up, prove, expire, fail, record by hand, resume after a restart | a confirmed settlement was paid, by a payment of its own; a failed one was not; one payment per debt at a time; a paid one is found out about |
| Talking to others: `nwc.ts`, `lnurl.ts`, `bolt11.ts`, `safeFetch.ts`, `rates.ts` | calls in flight, caches | ask a wallet, an address, a price source; fetch one link | an answer is of the call that asked; nothing private is reached; limits hold |
| Group membership: `routes/joining.ts`, `routes/groups.ts`, `groupRules.ts`, `repo.ts` | `groups`, `members`, `member_accounts`, `join_requests`, expenses as they name members | join, ask, approve, decline, leave, delete, add, remove, edit | one account is one member; a group stays reachable; the ledger names people who are there; nobody's payments go where someone else said |
| Being paid: `walletStore.ts`, `routes/wallet.ts`, `routes/upi.ts`, `WalletScreen.tsx`, `GetPaidSheet.tsx` | wallets, UPI IDs, choices for a link | connect, replace, remove, hide | what is offered works and is the account's own |
| Debts, claims and links: `core/ledger.ts`, `core/settlementOptions.ts`, `routes/upi.ts`, `routes/payLinks.ts`, `routes/groupLinks.ts` | expenses, settled rows, claims, links | split, net, simplify; claim, confirm, decline; open a link, pay, say it was paid | splits add up; debts pay everybody what they are owed; they move only when nothing waits on them; one claim per debt |
| Ledger on Nostr: `nostrLedger.ts` (server and core), `readBack.ts` | `expense_changes`, `ledger_entries` (the outbox), what relays keep | note a change, sync the outbox, publish in order, read back | the entries read back to the ledger; relays keep no gaps; an outage only delays |
| Offline changes and sync: `AppData.ts`, `changes.ts`, `ApiClient.ts`, `middleware.ts` (idempotency), `routes/sync.ts` | the app's changes, its last sync, versions, the copy on the device; the server's keys and answers | change, send, resend, drop, sync, save, restore | every change done once and none lost; what is shown is counted once and never goes back |
| Accounts and sign-in: `routes/accounts.ts`, `nostrAuth.ts`, `middleware.ts`, `AccountGate.tsx`, `AccountScreen.tsx` | keys, challenges, what a device stored | sign in, replace a key, link a Nostr key | a challenge works once; a lost answer locks nobody out |
| Usage: `tracker.ts`, `analytics.ts`, `routes/analytics.ts`, `requestLog` | queues, rows | record, post, prune, forget an account | sent once and in order; nothing of a deleted account stays |
| Screens that keep state: settling, expense form, joining, settings, guest pages, entrance, Back, tips, updates, new group | what is typed, asked and answered | taps, answers, reloads, launches | what is sent was on the screen; one form makes one thing; what is shown is true |
| The demo: `MockClient.ts` | the same tables in memory | the same operations | the same rules, for one user |

How they interact. A settlement is started by a request, minted by asking the
payee's wallet (NWC over a relay) or their address's provider (LNURL over HTTPS),
and confirmed by whichever comes first of a lookup by the server's loop and a proof
(the preimage) from the payer. Debts are worked out from expenses and settled rows,
so every route that starts or records a payment reads both. Leaving a group,
deleting accounts and disconnecting wallets ask whether a payment is under way. The
outbox reads expenses and settlements and writes entries; nothing reads it back but
the app and a script. The app reaches the server through its list of changes and one
sync at a time; the idempotency middleware stands in front of every writing route.

## What is hard

`PROJECT.json` lists the hazards at their lines, with the properties that would
catch each. By kind:

- *Two writers of one row.* The loop, a proof, a late failure of a mint and the boot
  all move a settlement on, three of them from a row they read before an `await`.
- *Other clocks.* An invoice expires by the wallet's clock and is recorded by the
  wallet when it likes; the server closes it by its own.
- *Restarts.* A row may be half made when the process stops; what was watched is
  worked out again from the row and from the wallet connected *now*.
- *Check, await, act.* Handlers check membership or the group, await the body and
  act on what they checked.
- *Long sequences.* Joining by four ways, leaving, deleting and coming back, over
  two tables that must agree on who a member is.
- *Answers late, lost, or of something else.* Syncs that cross changes, requests
  given up that arrive after all, a panel that belongs to another debt by now.
- *Several of one.* Tabs that share a device's storage, devices that share an
  account, callers that share a lookup, rows that wait for one write.

## Modules

Every definition that models code is listed in `PROJECT.json` under `map` with the
lines it stands for. A step of a model is what the code does between two `await`s,
or one SQLite transaction. Changed forms of the code (`\* Mutant:`) stand beside the
definition they change, and are used by no other.

### Payments

`LightningPayments` is `payments/lightning.ts` with the routes, rules and boot code
around it. `row[s]` is a line of the settlements table and survives a `Crash`;
`mint[s]` (a `mint()` suspended at an `await`) and `watch[s]` (an entry of the
`watched` map with the answer its lookup has had) are memory and do not.
`invoice[h]` is the world: what the payee's wallet or address provider holds, moved
by `Pay`, `RecordPayment` and `CancelInvoice`, which the server cannot see except by
asking.

| action | code |
|---|---|
| `PostSettlement`, `PostUnhandledRail`, `PostManual` | `POST /settlements`: the checks, the row, the start of `mint()` |
| `Minting` (`KnownInvoice`, `NwcInvoice`, `AddressInvoice`, `Fail`) | `mint()` from one `await` to the next, with `store()` |
| `Ask`, `Check` | the loop: a lookup is answered; what the server then does |
| `SubmitProof` | `POST /settlements/:id/proof` |
| `ConnectWallet` and the other wallet routes | `routes/wallet.ts` |
| `Crash`, `Boot` | the process ends; `server.ts` settles interrupted rows and resumes watches |

The answer to a lookup is a step of its own and acting on it is another, so an
answer can be old when it is acted on. `SettlementPromise` is what a payer and a
payee may count on: an outcome per settlement, and which were paid. `KeepsPromise`
is the refinement.

### Members

`GroupMembers` is one group: `seat`, `first` and `others` are `members` and
`member_accounts`, `request` the join requests. Four handlers read the group, await
a body, and use what they read (`call` keeps it): adding a member, writing an
expense, turning approval on or off, setting an address. All other handlers are
single transactions.

### Debts, claims and links

`GroupLedger` is `core/ledger.ts` and the offers of `settlementOptions.ts`, as
operators over amounts in whole minor units: how a split's remainder is dealt out
(`SplitParts`), balances, direct and simplified debts. Simplified debts are written
down without the code's loop: the debtors' amounts, largest first, lie end to end on
a line, so do the creditors', and where two stretches overlap one pays the other.
`MCAppParts` compares that with the loop itself, written as the code has it, for every
balance of five members from -2 to 2 (`GreedyAssumption`).

`Claims` puts the routes over it: UPI claims and reports, marking as settled,
starting a payment, pay links, a group's page, expenses and turning simplified debts
on and off. A Lightning payment is only its outcome there, as `SettlementPromise`
allows. Handlers that await a body read the group before it, so they take any
`mode`.

### The ledger on Nostr

`NostrOutbox` is `nostrLedger.ts` of the server, for one group, and `nostrLedger.ts`
of core, which reads entries back. `Tick` is `sync()` with `publish()` up to its
first `await`; `Deliver` puts an entry that has been on the wire on a relay, at any
time, again and again; `Accepted` and `Refused` are `Promise.any`'s outcome;
`Restart` empties the queue and nothing else. `GroupRecord` is the abstract
specification: the record changes only to what the ledger then is. `KeepsRecord` is
the refinement, with `ReadLedger` of the outbox as the mapping, so the server's
ordering of changes and the reader's interpretation of it are checked against each
other.

### Offline changes and what a screen shows

`ExpenseSync` puts a phone (`AppData.ts`, `changes.ts`), its requests
(`ApiClient.ts`) and the server's idempotency (`middleware.ts`, `routes/groups.ts`)
together. The ledger of the server is a log, and what anyone has of it (a sync's
answer, the app's copy, the copy on the device) is a length of the log.

| action | code |
|---|---|
| `AddExpense`, `EditExpense`, `DeleteExpense`, `Retry`, `Discard` | the calls of the screens; `Push` with what it lets go and keeps |
| `Begin`, `Answered`, `LetGo`, `Refused`, `Lost` | `send()`: before the request, and each way it can end |
| `Arrive`, `ArriveLate`, `Execute`, `Store`, `Refuse`, `Crash` | the middleware around a handler, step by step |
| `Poll`, `ServeSync`, `SyncLost`, `SetAside`, `UseAnswer` | `sync()`, `run()`, `resendLost()` |
| `SaveCopy`, `Kill` | `saveSoon()`; the app is closed, and `hydrate()` |

A request given up by the phone is in `late` until it arrives, if it ever does.

`GroupReads` is the same class from the reading side: scopes of a sync, versions and
"unchanged", and `known()`, which lays what was just answered over the copy, for one
part of a group on the screen. `SavedCopy` is the copy on the device, across keys,
accounts and tabs. The three look at one class for different questions; that they
hold together is not checked.

### The smaller parts

Each is a module of one file or two, with its own assumptions and type invariant.
`ServerParts` and `MCAppParts` put them side by side: `part` names the one a
behaviour is of, and no step of one touches another's variables. `ServerParts` has
every part's constants and variables under names of their own, so that it can be
proved about; in `MCAppParts`, which only TLC reads, the parts take turns to use the
same variables, each on the instance the module gives it.

| module | code |
|---|---|
| `VerifyLoop` | which of several due lookups a run takes at one provider, and the limit on minting for an address (`lightning.ts`) |
| `WalletCalls`, `AddressInvoices`, `SafeFetch` | one wallet's calls and answers (`nwc.ts`); an address's parameters, invoices and verify links (`lnurl.ts`, `bolt11.ts`); one outgoing request (`safeFetch.ts`) |
| `PaymentUpdates` | following one payment by the stream or by asking (`events.ts`, `ApiClient.ts`) |
| `Rates` | one shared lookup, sources in turn, the last known rate (`rates.ts`) |
| `SignIn`, `NostrSignIn` | replacing a key with the grace for a lost answer, over tabs and devices; challenges and linked Nostr keys |
| `Receiving`, `GetPaid` | ways to be paid as the server keeps them; the cards and the sheet that set them up |
| `Usage`, `RequestLog`, `UsagePrune` | the tracker and its posts; rows of requests written behind; the daily prune |
| `GroupPage`, `GuestPay` | the page of a group's link, and of a pay link |
| `SettleFlow` | the sheet a debt is paid from (`useSettleFlow.ts`) |
| `DemoPayments`, `DemoGroup` | the demo's payments, and its members and expenses (`MockClient.ts`) |
| `ExpenseForm`, `SplitGuide`, `CoachLayout` | the expense form; its tips and tour; where a tip's card goes |
| `JoinFlow`, `Entrance`, `Navigation` | joining from a link; the way into the app; Back in a browser |
| `GroupSettings`, `NewGroup`, `AppUpdates` | a group's settings; making a group and the currencies a person uses; in-app updates |

## Runs

| run | about |
|---|---|
| `payments_safety` | one debt, two settlements, two hashes, one wallet, an address, one crash, four ticks: `IInv`, `OneInProgress`, `ConfirmedIsPaid`, `FailedIsUnpaid`, `SettledIsFinal`, and the refinement `KeepsPromise` |
| `payments_expiry` | one settlement, two wallets the payee swaps and disconnects, an address, nine ticks, so that every kind of watch runs to its end: `WatchedWell` (an open invoice is watched, expired means unpaid, an invoice dies soon after its quote) and, with fairness, `EndsAreReached` (paid is confirmed, address invoices are closed) |
| `payments_manual` | a disagreement with a comment ([below](#where-code-and-comments-differ)): expected to be violated |
| `members_door` | three accounts, three members, one handler waiting: `EachIsOne`, `DoorIsKept` |
| `members_ledger` | two accounts, two members, an expense and addresses, one handler waiting: `PayersStay`, `PayeeIsSafe` |
| `outbox_relays` | an expense with two edits or removals, a payment, two relays, entries late, refused, repeated, restarts: `KeepsRecord`, `ReadableInOrder`, and with fairness `EventuallyWhole` |
| `sync_once` | two changes, to one expense or two, requests that overlap and come late, one closing of the app: `NeverTwice`, `CountedRight`, `NothingLost` |
| `sync_converges` | one change and one of another phone, a closing of the app or a stop of the server, with fairness: `CountedRight`, `Converges` |
| `claims_debts` | two people with accounts and a ghost, expenses that make them owe in a ring, two payments, a link, a claim: `OneClaimPerDebt`, `DebtsAreTrue`, `RearrangedOnlyWhenQuiet`, `SettledLinkStays` |
| `group_reads` | a group on the screen and one beside it, two writes, one sync running and one waiting: `VersionsAreTrue`, `ScreenIsTrue` |
| `parts_server` | thirteen parts of the server and a group's page; each property is a conjunction over parts, with the parts' own names |
| `parts_app` | fifteen parts of the app and a pay link's page, likewise; `SavedCopy` twice, in one tab and in two |

Each property of a passing run comes with a changed form of the code that breaks it
on the same bounds (`mutants` in `PROJECT.json`): a dropped guard, a missing reset,
a check that looks at the wrong thing.

## Bounds

What a bug in these rules needs is small: two settlements to compete for a debt or a
hash, a second wallet to swap to, one crash (the second finds what the first left),
two accounts to collide in one member and a third to let someone in, two changes for
one to overtake the other, two debts for a panel to be of the wrong one, two tabs or
devices to disagree. Every bound on how often something happens is a constant named
`Max…`, with a guard where it is counted.

- *Times* keep the order of the code's (quote 90 s, grace 30 s, request 15 s and so
  on), in ticks, since only their order is compared.
- *An outbox of one expense* is enough for what is written down to go wrong, since
  nothing in reading back relates two expenses; its order on the relays is that of
  all entries.
- *`GIVE_UP_AFTER`* is 5 in the code and 1 or 2 here: what matters is that an add
  goes again, and that it stops. `sync_once` counts no stop of the server and
  `sync_converges` no second change: with both, and with a change of another phone,
  the states are too many for one run. The proofs have no such bound.
- *`MaxStops`* bounds closings of the app and stops of the server together: at most
  one of the two in `sync_converges`.
- *Weights* of a split may be any positive number in the code, and are whole here.
- *Tabs of `SavedCopy`.* What is opened and what is kept belongs to its key's account
  in two tabs (`OwnDataOnly`, `KeptIsOwners`); that no change is dropped and that
  what was given up stays gone (`ChangesAreKept`, `LetGoStaysGone`) in one, where two
  would break it ([below](#where-code-and-comments-differ)). `MaxMoves` counts
  launches, sign-ins, keys replaced and accounts deleted: 7 in one tab, 5 in two.
- *`WhileMaking`* (`Entrance`) keeps out a link tapped while an account is made.
- *`DemoPayments`* has one link: the mutant of a second needs two links and three
  payments, and was tried apart.

*Symmetry* is used over names that no code compares, and no run with liveness has
it. `Seen`, a view used for `sync_once`, leaves out what no later step looks at:
what is on the device once the app will not be closed again, tries of anything but
adds, and abandoned requests whose key is answered or stuck for good, which do
nothing when they arrive.

*Deadlock* is left unchecked where the bounded clock, ids and changes run out; for
`ExpenseSync`, which can always poll, it is checked.

## Fairness

- *Payments:* the event loop runs each mint, lookup and check that waits, calls end
  (every `fetch` has a timeout), a stopped server is started again, time passes, and
  a wallet records what it was paid. Nobody has to pay, prove or request. Providers
  need not answer. All of it is weak fairness.
- *Outbox:* the timer ticks; an entry offered for ever gets to some relay, and is
  answered for. These two are strong: relays may refuse all they are sent for any
  time, and nothing could be promised if they did for ever.
- *Offline changes:* handlers finish and attempts end (timeouts), and a screen that
  keeps itself current asks: weak. A request, an answer or a sync may be lost any
  number of times, but not every time: strong, for `Arrive`, for `Answered \/
  Refused` (an attempt that is answered is heard) and for `SetAside \/ UseSome` (a
  sync's answer is heard, and what is then done with it is up to the state), for
  `ServeSync`, for a handler at work while its request still waits, and for
  `Resend`: a lost change's wait between tries passes. `Converges` further supposes
  that from some point on the server does not stop, the person does not try again
  what failed, and no abandoned request arrives any more (one that always gets in
  just before each retry would hold its key for ever). A key claimed when the server
  stops stays claimed (below), so an edit under it goes again for ever: hence the
  first supposition.

## Proofs

What the runs show on a small instance, these theorems say for every value of the
constants the assumptions allow: any number of accounts, members, expenses,
payments, relays, changes, stops. The assumptions (`…Assumption`) say that numbers
are numbers, that what stands for nothing is none of the rest, that a quote lasts.
`GraceAssumption` is about times: `RecordLag + RequestTimeout <= Grace`. The grace is
30 s and a lookup takes 15 s at most, so it says that a payment in an invoice's last
moment shows up in the wallet's records within 15 s, which is what
`lightning.ts:82` has the grace for. Only `WatchingIsSafe` uses it. TLC evaluates
each.

| module | theorem | |
|---|---|---|
| `LightningPaymentsProofs` | `TypeCorrect`, `Inductive` | `Spec => []TypeOK`, `Spec => []IInv` |
| | `ConfirmedWasPaid`, `FailedMovedNothing` | `Spec => []ConfirmedIsPaid`, `Spec => []FailedIsUnpaid` |
| | `SettledStays`, `OneAtATime` | `Spec => SettledIsFinal`, `Spec => []OneInProgress` |
| | `PromiseKept` | `Spec => KeepsPromise`, the refinement of `SettlementPromise` |
| | `WatchingIsSafe` | `Spec => []WatchedWell`, under `GraceAssumption` |
| `GroupMembersProofs` | `Inductive`, `EachStaysOne`, `DoorStaysKept`, `PayersAlwaysStay` | `Spec => []IInv`, and of its three parts `EachIsOne`, `DoorIsKept`, `PayersStay` |
| | `PayeeStaysSafe` | `Spec => PayeeIsSafe`: two action properties and an invariant |
| `NostrOutboxProofs` | `Inductive`, `AlwaysReadable` | `Spec => []IInv`, `Spec => []ReadableInOrder` |
| | `RecordIsKept` | `Spec => KeepsRecord`, the refinement of `GroupRecord` |
| `ExpenseSyncProofs` | `Inductive` | `Spec => []IInv` |
| | `DoneAtMostOnce`, `ScreenCountsRight`, `NoChangeIsLost` | `Spec => []NeverTwice`, `Spec => []CountedRight`, `Spec => []NothingLost` |
| `ClaimsProofs` | `TypeCorrect`, `OneClaimEach`, `PartsAlwaysAddUp`, `DebtsStayTrue` | `Spec => []TypeOK`, `[]OneClaimPerDebt`, `[]PartsAddUp`, `[]DebtsAreTrue` |
| | `RearrangedWhenQuiet`, `SettledStays` | two action properties |
| `GroupReadsProofs` | `VersionsStayTrue`, `ScreenStaysTrue` | `Spec => []VersionsAreTrue`, `Spec => []ScreenIsTrue` |
| `SignIn` | `KeysStayCurrent` | `[]TypeOK`, and the action properties `OnlyTheKeyReplaces`, `ReplayIsCurrent`, `LiveKeyIsKept` |
| `ServerPartsProofs` | `PartsFit` | `Spec => []PartsInv`, the thirteen parts' inductive invariants |
| | `AccountsStayTheirs`, `UsageStaysKept`, `LimitsAreKept`, `AnswersStayTrue`, `AsksAboutItsDebtOnly` | `Spec => []AccountsAreTheirs`, `[]UsageIsKept`, `[]LimitsHold`, `[]AnswersAreTrue`, `[]AsksAboutItsDebt` |
| | `KeysStayTheirs`, `LateStaysLeft` | `Spec => KeysAreCurrent`, `Spec => LateIsLeft`, action properties |

*Payments.* None of the safety properties is inductive: that a confirmed settlement
was paid depends on the answer a lookup is about to act on, which depends on the
invoice of the row's hash, which depends on no other row having that hash. `IInv`
says these things: only a `created` row is being minted (`MintingIsCreated`), a hash
and a status go together (`HashMeansMinted`), no hash is shared
(`OneHashOneSettlement`), the invoices that exist are the rows'
(`InvoiceMeansTaken`), a waiting answer of "settled" or "failed" stays true however
long it waits (`AnswersStayTrue`), failed after minting means cancelled
(`FailedIsCancelled`), confirmed means paid (`ConfirmedHasPayment`), and a server
that is down remembers nothing (`DownForgets`). Lemmas say what each kind of write
to a row keeps; `RowSteps` then sorts every step by what it does to the rows (starts
one, mints one, ends one, or the boot's interrupting of several), and the action
property and the refinement go by those cases. `payments_safety` checks the same
`IInv`.

*Watching.* `WatchedWell` is about time, of which `IInv` says nothing. `WInv` adds,
settlement by settlement (`Well`): how old a mint call and an answer may be
(`MintInTime`, `AnswersInTime`) and a payment that is not in the records
(`PaidShowsUp`); that row, invoice and watch name the same end (`InvoiceAsRow`,
`WatchAsRow`); that a payee keeps a wallet while a payment to one is under way
(`StaysConnected`, which is why a restart finds somebody to ask); and that what
was closed as expired is over (`ExpiredIsOver`). `ExpiryIsSafe` is where the grace
counts: an answer acted on after it was asked for later than any payment could have
been missed. Without `GraceAssumption` that lemma fails.

*Members.* `IInv` is the three invariants together, since they hold each other up.
`EachIsOne` is strengthened by `RowsLineUp`, what the tables also keep to: a group
that is gone has nobody's account in it, a member who is paid is named, an id has no
address before it is used, and a request that is not there says nothing. Beyond its
type the invariant says nothing of what a suspended handler has read (`call`): each
keeps it whatever it read, however long ago. Who is who is proved first, by what
each handler does to the accounts of one member (`OneMoreDevice` and its like), then
the door, then the ledger's names.

*The outbox.* What is published comes before what is not, and what is being sent
comes next (`InTurn`); what counts as published is on a relay (`OnSomeRelay`). That
gives `ReadableInOrder`. For the refinement, `BookLinesUp` says that rows read as
their last change says and that times do not go back, and `EntriesLineUp` that
entries are in the order of what they say, with nothing left out before one. Then a
sync that files everything due reads back as the ledger (`Reads`, from one lemma
each for an expense never changed, one that was, and a settlement), and every other
step leaves the record alone.

*Offline changes.* `IInv` has a part for each thing the app, its requests and the
server must agree about. A change that was made is about an expense that was there
(`MadeOf`); a key has one entry at most, and none while it is free or only claimed
(`DoneOnce`); only what was made is on a list, in a request or told (`OnlyMade`);
what is sent waits once, in the line of its expense, and whose request is under way
is at the head (`InLine`); what is done, or found gone, is so for good
(`DoneStays`); and using the answer of the sync under way would lose nothing that is
done (`SyncLinesUp`). `Fine` is what makes the screen count right: a key is one
change, what is done was told (`OneEach`), no add that waits is in the copy too, but
one that was left to the person before (`NoneTwice`), and what is done is laid over
the copy or in it (`Covers`). It is claimed of the app's list *and* of the device's,
since a launch makes the second the first. `NoneLost` relates the two: a change that
is not accounted for is on both. The parts are relations between the lists, lines,
requests and syncs given to them, so the lemmas about what a handler does to a list
(`Move`, `Drop`, `Tried`) serve both lists alike.

*Reads.* A version is kept for a copy it may no longer describe unless two things
AppData relies on without saying hold, which `SyncInv` adds: the first sync is for
everything, and an answer is of exactly what was asked. For the screen, `ScreenInv`
has a part for each stage of an answer's life. What the server answers this device
is never older than what it said before, also when it repeats what it kept for a key
(`ServerInv`). The last answer laid over the copy is the last one given and the last
to go, so what is shown is that one or the copy (`KnownInv`, with `PlacesLeft` for
what the filter leaves). A sync that was answered has what was said, but for what
was said while it was on its way, and a version that was sent is still that of the
copy, so "unchanged" is as good as an answer (`CopyInv`). The switch is reset
whenever what it is read from changes (`ShownInv`). Whoever waits to hear whether the
group is there was told of its going, and a screen that has the group waits for
nothing (`WaitInv`). `group_reads` checks what they imply.

*Sign-in keys.* Of the parts, the one whose mistakes would lock somebody out, or let
an old key in, has its proof in its module. That the kept answer to a replacement is
the account's key needs to know who may ask for it again (`FollowsOn`): keys grow, an
idempotency key is one tab's (`AsksApart`), and a tab still let in by the replaced
key has seen one replacement since, its own. `KeyInv` says so, and that a sync
refused was refused with a key that is not the account's, now as then. In
`parts_server` the three properties are `KeysAreCurrent`'s for this part, and
`ServerPartsProofs` uses the lemmas through the instance (`S!KeyKept`).

*Parts of the server.* A behaviour of `ServerParts` is of one part, and a step of it
is a step of that part (`PartsMove`), so `PartsInv` says of each part what its module
calls `Inv`: its invariants with what makes them inductive, and `PartsStep` has it
from one lemma per part, step by step. What the parts' invariants add says what
their code relies on:

- `Receiving`: whoever is a member now has been one since it last was nobody's
  (`heldSince`), also who chose what is shown; a group that is gone has ghosts only.
  While a payment is under way, an account with a wallet does not come to be without
  one: it may be replaced, which is a step of its own (`OnlyTheyReplace`, in
  `KeysAreCurrent`), but not disconnected or deleted with its account.
  The accounts that are a member are a sequence, so most of the work is what taking
  one out of it leaves (`Without`).
- `NostrSignIn`: a challenge that is on offer, or was never given out, was used by
  nobody; no two accounts have one key.
- `Usage`: a post is under way exactly while there is a batch, and no timer runs
  meanwhile; a batch the server has taken is in what was kept.
- `RequestLog`: whom a request or a remembered token names is there, unless they were
  deleted while the request was under way. `UsagePrune`: the passes that are over left
  nothing of theirs, and a row with an account is of a device that signed in.
- `VerifyLoop`: the invoices made in the last minute are those the limit counts, in
  order (`MintsInOrder`), so that the oldest to fall out is the one whose leaving
  lets the next in.
- `WalletCalls`: an answer on the relay was given to the call it names and was true
  when it was given, however late it is read. `AddressInvoices`: what is remembered
  of an address was read `CacheTime` before it is forgotten, and a proof is of an
  invoice given.
- `Rates`: one lookup is under way, and those who wait for it all saw the rate last
  known (`KnownIsLast`). `SafeFetch`: an address written in a link was looked at before
  it is connected to (`CheckedFirst`).
- `PaymentUpdates`: what is on its way to the screen is newer than what it heard
  (`NewerFollows`), and the stream and asking take turns (`Turns`).
- `GroupPage`: one start of a payment is under way, and no pay page is shown meanwhile
  (`OneStart`).

Each `Inv` was checked by TLC as an invariant of its part before it was proved.

*Claims.* `TypeInv` adds to the types that the table of debts is one. `OneClaimEach`
needs nothing more; the action properties need what a row or a link may turn into
(`Adds`, `Changes`). `DebtsStayTrue` is about arithmetic: every request works the
debts out anew (`DebtsAreCurrent`), the parts of an expense add up (`PartsAddUp`),
so balances sum to zero, and then what `ClaimsProofs` says of the operators
applies: direct and simplified debts pay every member exactly their balance, nobody
pays and is paid, and at most one fewer pay than there are members to settle. A
group that goes is even (`GoneIsEven`). `TrueInv` is all of these.

*Sums.* The ledger's sums are recursive functions over the numbers of members, and
what they come to for every number of them needs induction, whose library theorems
take an operator as parameter and cannot be used by the provers at hand.
`ClaimsProofs` gets it from the well-foundedness of the natural numbers
instead, stated for *sets*: a nonempty set of numbers has a least one (`LeastOf`),
so a set with 0 and with the successor of each has them all (`ByInduction`). A lemma
about sums takes the set of the numbers it holds for.

TLC was asked first: each inductive invariant was checked as an invariant on the
run's instance, and on instances with a bound or two changed, before it was proved.

Only model-checked, and to stay so: the liveness properties (`EndsAreReached`,
`EventuallyWhole`, `Converges`), since the proof system does not reason about
fairness and `ENABLED`; that the stretches on a line are what the loop of
`simplifyDebts` comes to (`GreedyAssumption`), since the loop is a recursive
operator.

Only model-checked, and not yet proved: the properties of `MCAppParts`.

## Where code and comments differ

One is a run whose property is the comment's and whose outcome is a counterexample:
`payments_manual`. A debt may be marked settled while an address invoice for it can
still be paid; `settlementRules.ts:103` says not, and `PROJECT.json` quotes it.

These came up on the way; the models follow the code:

- *Claims are checked against the debts of the group as it was read before the body
  arrived* (`settlementRules.ts:58`), where `:48` says "right now".
- *An address set by a request let through before someone joined lands on them*:
  `routes/groups.ts:276` says a joined member's address is always one they chose,
  and the body is awaited (`:284`) after that was checked. `PayeeIsSafe` says what
  holds: joining clears what was typed for the ghost, and an address of a member
  with an account that they did not choose is one of such a request (`late`), let
  through while nobody was the member.
- *A wallet may be replaced while a payment to it is under way.* Payments "confirmed
  through their wallet" are why neither they nor the wallet can go meanwhile
  (`groupRules.ts:29`), and disconnecting is refused since "this wallet is what
  confirms it" (`routes/wallet.ts:75`); connecting another over it (`:60`) is not.
  After a restart the wallet connected then is asked about the old one's invoice
  (`lightning.ts:437`). `Receiving` claims only that the payee is not left without a
  wallet, and that nobody else replaces it.
- *Entries missing at the end do not show* when the ledger is read back
  (`core/nostrLedger.ts:124`), where `nostrLedger.ts:10` promises that a missing
  entry does. After one gap, later entries are called missing by wrong numbers.
- *A request given up may land after the newer change and undo it*: `AppData.ts:545`
  says the server sees changes to one expense in order, and `:546` waits for the
  answer or for the attempt to be given up.
- *A wallet's invoice may outlive its quote* by less than a request's length
  (`NwcDiesSoonAfterQuote`), where `lightning.ts:17` says no later than the quote. A
  wallet that says `expired` without saying when is believed at once, so
  `ExpiredIsUnpaid` is claimed only for those in `StatesExpiry`.
- *Lookups beyond a run's limit at one provider* "wait their turn"
  (`lightning.ts:96`); the loop goes through the map in its order each time
  (`:356`), so those at its end may wait as long as those before them are due.
- *The settings screen may open on a link that was replaced*, which
  `GroupSettingsScreen.tsx:312` says it never does: a read answered late is
  remembered for the next opening all the same (`SattleProvider.tsx:223`).
- *What an account did may be kept under another*: `analytics.ts:41` posts what
  waits as whoever is signed in at the send, and `README.md:499` says that deleting
  an account deletes its usage record.
- *A change is kept at once*, so that one "made just before the app is closed is
  still sent next time" (`AppData.ts:536`). It is not if the app is closed after a
  new key was stored (`AccountScreen.tsx:139`) and before what was kept is written
  under it (`App.tsx:307`): the new key does not open what the old one kept (the
  changes in `cut`, which `ChangesAreKept` leaves out). Nor is it if another tab
  writes over it: this tab does not write again what it wrote last (`:731`).
- *A deleted account's copy can come back on the device* (`App.tsx:298`: "so nothing
  of the account is written back"): a sync answered before the deletion that arrives
  after the copy was cleared, with the app sent to the background before the key is
  dropped, writes it again.

## What else was noticed

Behaviours the models have, or name a bound to keep out, that a reader of the code
may want to know of. None is a claim about what the code should do.

*Payments and links.* A stale invoice can be shown again for one poll on a guest's
page after the payment is in; a group page's answer for one debt can close the panel
of another opened meanwhile. The group page claims the amount owed now, not the
amount shown. Greedy simplification can reroute a debt while another debt's invoice
is open. The limit on minting is in memory. Two phones that share a group at once each make a link, and
the one handed out first is dead.

*Sync.* A key claimed when the server stops answers "still being processed" for good
(`middleware.ts:69`). An add given up or refused that had got there after all is
shown, and counted, twice while it is tried again: the exception in
`OnceUntilUnsaved`. A crash between the server's swap of a key
and its being stored loses the account on that device; two tabs replacing keys at
once may store the older, and changes a tab saves under an old key overwrite the
list handed over.

*Screens.* Leaving the form of a new group with the request on its way still opens
the group when the answer comes; a second tap before the button is drawn busy joins
the running request. A second link tapped while a form is open replaces it. A tap
within a moment of a Back not yet handled can take an own step back for a press
(`Navigation`'s bounds). Two requests of one settings screen can be answered out of
order: what was asked first may be done last. A failed read can let later marks
overwrite the stored tips.

*The demo* is a second implementation of the routes and checks less: an amount
against the debt, a payment under way, another device of the same member.

*Server.* A switch sent against a stale group is quietly left as it is (200). The
token of a pay link opens its page for good.

## Left out

Everywhere: the clock of a process does not go back; SQLite transactions are atomic
and its writes succeed; encryption, signing and hashing do what they promise.

- *Payments:* the order and number of lookups per run and the limit on mints are in
  `VerifyLoop`, not here; the simulator (the demo's timers are in `DemoPayments`).
- *Members:* names, amounts, links. A settlement is its effect on who can leave.
- *Claims:* who is in the group does not change; payments are their outcome.
- *Outbox:* several groups in one queue, the entries of a deleted group. That an
  entry names the one before it and is signed stands for itself: an entry is its
  place.
- *Offline changes:* one group and one phone in detail, another only by its effect;
  an edit that changes nothing. What is kept on the device is written in one step
  and successfully. `push()` and the start of its request are two steps here, which
  only adds orders.
- *Parts:* restoring an account is one step in `Entrance`; a second link tapped
  while a join is on its way is not in `JoinFlow`; who paid, and receipts, are not
  in `ExpenseForm`; sharing is one step, and renaming and the card about backup are
  not, in `GroupSettings`; sessions and screens are not in `Usage`; a phone's Back
  button is not in `Navigation` (it closes the same list).
- The components not modelled (the simulated payments, the database and its scripts,
  routing, thin wrappers over the platform, formatting) are listed with reasons in
  `PROJECT.json`.

## Plan

Done: payments, members, the outbox, offline changes, claims and the ledger's
arithmetic, and the parts of the server, modelled, checked and proved as far as
[above](#proofs); the parts of the app, modelled and checked.

Next:

1. Proofs of the parts of the app, which asks for a module that names their
   variables apart, as `ServerParts` does.
2. Of two parts that look at one thing from both sides, that they agree: the answers
   `ExpenseSync` lays over the copy and those `GroupReads` does.

## Running it

In this directory, with the community modules in TLC's path:

    tlc -workers 2 -config payments_safety.cfg LightningPayments
    tlapm LightningPaymentsProofs.tla

Each run's module is in `PROJECT.json`; the longest take about two minutes. Proofs
take a few minutes from nothing, `ServerPartsProofs` about twenty.
