----------------------------- MODULE ExpenseSync -----------------------------
(***************************************************************************)
(* One phone's changes to a group's expenses, shown at once and sent       *)
(* behind (AppData.ts, changes.ts), the requests that carry them           *)
(* (ApiClient.ts), and the server that does each once (middleware.ts,      *)
(* routes/groups.ts), while another phone changes the same expenses.       *)
(*                                                                         *)
(* A change is its idempotency key, and keys are numbered in the order     *)
(* the changes are made.  log is everything the server has done to the     *)
(* group's expenses: an expense is the place of the entry that added it,   *)
(* and the ledger at any moment is a length of the log, as are a sync's    *)
(* answer, the app's copy and the copy on the device.  Time is left out:   *)
(* a request may be given up, and a change that waits may go again, at     *)
(* any moment the code allows.                                             *)
(***************************************************************************)
EXTENDS Integers, FiniteSets, Sequences, SequencesExt

CONSTANTS
    GiveUpAfter,  \* GIVE_UP_AFTER
    MaxChanges,   \* bound on the changes made on this phone
    MaxOther,     \* bound on those made elsewhere
    MaxKills,     \* bound on how often the app is closed
    MaxCrashes,   \* bound on how often the server stops
    MaxStops      \* bound on both together

ASSUME SyncAssumption ==
    {GiveUpAfter, MaxChanges, MaxOther, MaxKills, MaxCrashes, MaxStops} \subseteq Nat

VARIABLES
    log,      \* what the server has done, oldest first
    key,      \* the server's idempotency_keys, with how far the handler is
    crashes,  \* how often the server has stopped
    request,  \* where the request of each key's latest attempt is
    late,     \* the keys with an abandoned request that may still arrive
    made,     \* what each change made on this phone asks for, by its key
    changes,  \* the app's changes still to be confirmed, oldest first
    chain,    \* the sends for each expense, each waiting for those before it
    sync,     \* the sync on its way
    again,    \* whether another is to start after it (queued)
    copy,     \* the server's last answer; 0 for none
    disk,     \* what is kept on the device
    kills,    \* how often the app was closed
    told      \* what the person was told: what is done, what was refused

vars == <<log, key, crashes, request, late, made, changes, chain, sync, again, copy,
          disk, kills, told>>

server  == <<log, key, crashes>>
app     == <<made, changes, chain, sync, again, copy, disk, kills, told>>
syncing == <<sync, again, copy>>

Keys == 1 .. MaxChanges
Elsewhere == 0   \* the key of what is done on another phone

---------------------------------------------------------------------------
(* The server's expenses *)

Live(x, n)   == x <= n /\ log[x].kind = "add" /\
                \A i \in 1 .. n : ~(log[i].kind = "delete" /\ log[i].of = x)
LastOn(x, n) == CHOOSE i \in 1 .. n : log[i].of = x /\ \A j \in i + 1 .. n : log[j].of # x

\* The expenses after n entries, each with the entry that wrote it last.
Content(n) == {<<x, LastOn(x, n)>> : x \in {x \in 1 .. n : Live(x, n)}}
Now        == Len(log)

Write(kind, k, x) == log' = Append(log, [kind |-> kind, key |-> k, of |-> x])

\* The entries that did what key k asks for.
EntriesOf(k) == {i \in DOMAIN log : log[i].key = k}

---------------------------------------------------------------------------
(* The app's changes *)

\* lost: failed, to go again.  unsaved: failed, and left for the person.
Change == [key: Keys, state: {"sending", "lost", "unsaved", "done"}, tries: 0 .. GiveUpAfter]

Kind(k)   == made[k].kind
IsAdd(k)  == Kind(k) = "add"
\* What a change is sent after others to: an expense of its own, if it adds one.
Target(k) == IF IsAdd(k) THEN -k ELSE made[k].of
Targets   == {-k : k \in Keys} \cup 1 .. MaxChanges + MaxOther + 1

KeysIn(q, state) == {c.key : c \in {c \in ToSet(q) : c.state = state}}
HasChange(k)     == \E c \in ToSet(changes) : c.key = k
StateOf(k)       == (CHOOSE c \in ToSet(changes) : c.key = k).state
TriesOf(k)       == (CHOOSE c \in ToSet(changes) : c.key = k).tries

\* The numbers of a set, smallest first.
InOrder(S) == [n \in 1 .. Cardinality(S) |-> CHOOSE i \in S : Cardinality({j \in S : j <= i}) = n]

Become(c, state) == [c EXCEPT !.state = state]
Move(q, S, state) == [i \in DOMAIN q |-> IF q[i].key \in S THEN Become(q[i], state) ELSE q[i]]
Kept(q, S) == InOrder({i \in DOMAIN q : q[i].key \notin S})
Drop(q, S) == [n \in DOMAIN Kept(q, S) |-> q[Kept(q, S)[n]]]

\* A change to the same expense was made after k.
Supersedes(k) ==
    ~IsAdd(k) /\ \E c \in ToSet(changes) : c.key > k /\ Target(c.key) = Target(k)

\* Mutant: what was being sent when the app closed is forgotten.
HydratedUnsent(q) == SelectSeq(q, LAMBDA c : c.state # "sending")

\* Mutant: what was being sent stays so, and nothing sends it.
HydratedSending(q) == q

\* hydrate(): what was on its way goes again once a sync works.
Hydrated(q) == Move(q, KeysIn(q, "sending"), "lost")

\* saveNow()
Save == disk' = [changes |-> Hydrated(changes'), copy |-> copy']

\* resend(), as often as there are keys in S: each waits for what was sent to
\* the same expense before.
SendAfter(waiting, S) ==
    [t \in Targets |-> waiting[t] \o InOrder({k \in S : Target(k) = t})]

NoSync == [at |-> "idle", after |-> {}, answer |-> 0]

\* A sync that starts now has every change that is done already (rule 1).
StartOf(q) == [at |-> "out", after |-> KeysIn(q, "done"), answer |-> 0]

\* sync(): one at a time, and one after it for whoever asks meanwhile.
AskSync ==
    IF sync = NoSync THEN sync' = StartOf(changes') /\ UNCHANGED again
    ELSE again' = TRUE /\ UNCHANGED sync

\* The sync is over, and the next one starts if one was asked for.
SyncOver ==
    /\ sync' = IF again THEN StartOf(changes') ELSE NoSync
    /\ again' = FALSE

Init ==
    /\ log = <<[kind |-> "add", key |-> Elsewhere, of |-> 1]>>
    /\ key = [k \in Keys |-> "free"] /\ crashes = 0
    /\ request = [k \in Keys |-> "none"] /\ late = {}
    /\ made = <<>> /\ changes = <<>> /\ chain = [t \in Targets |-> <<>>]
    /\ sync = NoSync /\ again = FALSE /\ copy = 1
    /\ disk = [changes |-> <<>>, copy |-> 1]
    /\ kills = 0
    /\ told = [done |-> {}, refused |-> {}]

---------------------------------------------------------------------------
(* The person *)

\* push(): laid over, kept and sent; a failed change to the same expense is
\* let go, one on its way is waited for.
Push(kind, x) ==
    LET k     == Len(made) + 1
        past  == {b \in KeysIn(changes, "lost") : kind # "add" /\ ~IsAdd(b) /\ made[b].of = x}
    IN  /\ k \in Keys
        /\ made' = Append(made, [kind |-> kind, of |-> x])
        /\ changes' = Append(Drop(changes, past), [key |-> k, state |-> "sending", tries |-> 0])
        /\ chain' = [chain EXCEPT ![IF kind = "add" THEN -k ELSE x] = Append(@, k)]
        /\ UNCHANGED syncing
        /\ Save
        /\ UNCHANGED <<server, request, late, kills, told>>

\* An expense on the screen with the server's id, and no delete laid over it.
OnScreen(x) ==
    /\ copy # 0
    /\ Live(x, copy) \/ (log[x].kind = "add" /\ log[x].key \in KeysIn(changes, "done"))
    /\ ~\E c \in ToSet(changes) : made[c.key] = [kind |-> "delete", of |-> x]

AddExpense    == copy # 0 /\ Push("add", 0)
EditExpense(x) == OnScreen(x) /\ Push("edit", x)
DeleteExpense(x) == OnScreen(x) /\ Push("delete", x)

\* Try again, on an expense that did not save.
Retry(k) ==
    /\ HasChange(k) /\ StateOf(k) = "unsaved"
    /\ changes' = Move(changes, {k}, "sending")
    /\ chain' = SendAfter(chain, {k})
    /\ UNCHANGED syncing
    /\ Save
    /\ UNCHANGED <<server, request, late, made, kills, told>>

\* Delete, on an expense that did not save: discard().
Discard(k) ==
    /\ HasChange(k) /\ StateOf(k) = "unsaved"
    /\ changes' = Drop(changes, {k})
    /\ told' = [told EXCEPT !.refused = @ \cup {k}]
    /\ UNCHANGED syncing
    /\ Save
    /\ UNCHANGED <<server, request, late, made, chain, kills>>

\* The app goes to the background, or 400 ms after a sync that moved something.
SaveCopy ==
    /\ UNCHANGED <<server, request, late, made, changes, chain, syncing, kills, told>>
    /\ Save

\* The app is closed, and opened on what it kept; the copy may be gone.
Kill ==
    /\ kills < MaxKills /\ kills + crashes < MaxStops
    /\ kills' = kills + 1
    /\ changes' = disk.changes
    /\ copy' \in {disk.copy, 0}
    /\ disk' = [disk EXCEPT !.copy = copy']
    /\ chain' = [t \in Targets |-> <<>>]
    /\ sync' = NoSync /\ again' = FALSE
    /\ late' = late \cup {k \in Keys : request[k] = "out"}
    /\ request' = [k \in Keys |-> "none"]
    /\ UNCHANGED <<server, made, told>>

---------------------------------------------------------------------------
(* Requests, and the server *)

OneMore(c)  == [c EXCEPT !.tries = IF @ = GiveUpAfter THEN @ ELSE @ + 1]
Tried(q, k) == [i \in DOMAIN q |-> IF q[i].key = k THEN OneMore(q[i]) ELSE q[i]]

\* A send whose turn it is.
Begin(k) ==
    /\ request[k] = "none"
    /\ \E t \in Targets : chain[t] # <<>> /\ Head(chain[t]) = k
    /\ request' = [request EXCEPT ![k] = "out"]
    /\ changes' = Tried(changes, k)
    /\ UNCHANGED <<server, late, made, chain, syncing, disk, kills, told>>

\* Mutant: a request whose first try is still running is let through.
ClaimAgain(k) == IF key[k] = "stored" THEN "stored" ELSE "claimed"

\* idempotency(): a free key is claimed, and one that is not stays as it is.
Claim(k) == IF key[k] = "free" THEN "claimed" ELSE key[k]

\* A request arrives: it is handled, answered as before, or told to wait.
Arrive(k) ==
    /\ request[k] = "out"
    /\ key' = [key EXCEPT ![k] = Claim(k)]
    /\ request' = [request EXCEPT ![k] =
          IF key[k] = "free" THEN "working" ELSE IF key[k] = "stored" THEN "ok" ELSE "busy"]
    /\ UNCHANGED <<log, crashes, late, app>>

\* The same, with nobody left waiting for the answer.
ArriveLate(k) ==
    /\ k \in late
    /\ key' = [key EXCEPT ![k] = Claim(k)]
    /\ late' = late \ {k}
    /\ UNCHANGED <<log, crashes, request, app>>

\* The handler, once it has the body: one transaction.
Execute(k) ==
    /\ key[k] = "claimed"
    /\ ~IsAdd(k) => Live(made[k].of, Now)
    /\ Write(Kind(k), k, IF IsAdd(k) THEN Now + 1 ELSE made[k].of)
    /\ key' = [key EXCEPT ![k] = "executed"]
    /\ UNCHANGED <<crashes, request, late, app>>

\* The answer is kept, and sent to the attempt that waits for it.
Store(k) ==
    /\ key[k] = "executed"
    /\ key' = [key EXCEPT ![k] = "stored"]
    /\ request' = [request EXCEPT ![k] = IF @ = "working" THEN "ok" ELSE @]
    /\ UNCHANGED <<log, crashes, late, app>>

\* The handler refuses: the expense is gone, or somebody else's to change, or
\* a member it names has left.  The key is free again.
Refuse(k) ==
    /\ key[k] = "claimed"
    /\ key' = [key EXCEPT ![k] = "free"]
    /\ \E no \in {"no", "gone"} :
          /\ no = "gone" <=> (~IsAdd(k) /\ ~Live(made[k].of, Now))
          /\ request' = [request EXCEPT ![k] = IF @ = "working" THEN no ELSE @]
    /\ UNCHANGED <<log, crashes, late, app>>

\* The server stops, and starts again: claimed keys stay claimed.
Crash ==
    /\ crashes < MaxCrashes /\ kills + crashes < MaxStops
    /\ crashes' = crashes + 1
    /\ key' = [k \in Keys |-> IF key[k] \in {"claimed", "executed"} THEN "stuck" ELSE key[k]]
    /\ UNCHANGED <<log, request, late, app>>

\* Another phone changes or removes an expense.
Other(kind, x) ==
    /\ Cardinality(EntriesOf(Elsewhere)) <= MaxOther
    /\ Live(x, Now)
    /\ Write(kind, Elsewhere, x)
    /\ UNCHANGED <<key, crashes, request, late, app>>

---------------------------------------------------------------------------
(* Answers: the attempt is over, and the next send to the expense may go *)

Over(k) ==
    /\ request' = [request EXCEPT ![k] = "none"]
    /\ chain' = [t \in Targets |-> IF chain[t] # <<>> /\ Head(chain[t]) = k
                                   THEN Tail(chain[t]) ELSE chain[t]]
    /\ UNCHANGED <<server, made, copy, kills>>

\* Answered; a removal of what is already gone is as good.
Answered(k) ==
    /\ request[k] = "ok" \/ (request[k] = "gone" /\ Kind(k) = "delete" /\ ~Supersedes(k))
    /\ changes' = Move(changes, {k}, "done")
    /\ told' = [told EXCEPT !.done = @ \cup {k}]
    /\ AskSync
    /\ Over(k) /\ Save /\ UNCHANGED late

\* A newer change to the same expense has taken the place of one that failed.
LetGo(k) ==
    /\ Supersedes(k)
    /\ changes' = Drop(changes, {k})
    /\ Over(k) /\ Save /\ UNCHANGED <<sync, again, told>>

\* Refused: an add stays as not saved, anything else is taken back and said.
Refused(k) ==
    /\ request[k] \in {"no", "gone"} /\ UNCHANGED late
    /\ \/ LetGo(k)
       \/ /\ ~Supersedes(k) /\ ~(request[k] = "gone" /\ Kind(k) = "delete")
          /\ changes' = IF IsAdd(k) THEN Move(changes, {k}, "unsaved") ELSE Drop(changes, {k})
          /\ told' = [told EXCEPT !.refused = @ \cup {k}]
          /\ AskSync
          /\ Over(k) /\ Save

\* No answer in time, a connection lost, or one still at work on it.  What was
\* on its way may yet arrive.  It goes again, but an add not for ever.
Lost(k) ==
    /\ request[k] # "none"
    /\ late' \in {late} \cup (IF request[k] = "out" THEN {late \cup {k}} ELSE {})
    /\ \/ LetGo(k)
       \/ /\ ~Supersedes(k)
          /\ changes' = Move(changes, {k},
                IF IsAdd(k) /\ TriesOf(k) >= GiveUpAfter THEN "unsaved" ELSE "lost")
          /\ UNCHANGED <<sync, again, told>>
          /\ Over(k) /\ Save

---------------------------------------------------------------------------
(* Syncs *)

\* A screen keeps itself current, or asks; asked during a sync, the next would
\* only start a little sooner.
Poll ==
    /\ sync = NoSync
    /\ UNCHANGED <<server, request, late, made, changes, chain, copy, disk, kills, told>>
    /\ AskSync

\* GET /sync: one moment of the database.
ServeSync ==
    /\ sync.at = "out"
    /\ sync' = [at |-> "back", after |-> sync.after, answer |-> Now]
    /\ UNCHANGED <<server, request, late, made, changes, chain, again, copy, disk, kills, told>>

SyncLost ==
    /\ sync.at # "idle"
    /\ UNCHANGED <<server, request, late, made, changes, chain, copy, disk, kills, told>>
    /\ SyncOver

\* Mutant: only an add on its way makes an answer unsure, not one to go again.
UnsureSending == {k \in KeysIn(changes, "sending") : IsAdd(k)}

\* Adds the answer may or may not have.
Unsure == {k \in KeysIn(changes, "sending") \cup KeysIn(changes, "lost") : IsAdd(k)}

\* The answer may say that nothing changed, if this is so: when what was asked for is
\* what the version in hand is about.
Unchanged == copy # 0 /\ Content(copy) = Content(sync.answer)

\* Rule 2: an answer that may have an add in it already isn't used; each add
\* that waited goes again.
SetAside ==
    /\ sync.at = "back" /\ Unsure # {}
    /\ changes' = Move(changes, Unsure, "sending")
    /\ chain' = SendAfter(chain, Unsure \cap KeysIn(changes, "lost"))
    /\ SyncOver
    /\ UNCHANGED <<server, request, late, made, copy, disk, kills, told>>

\* Mutant: whatever is done is dropped, whenever the sync started.
DropAllDone == KeysIn(changes, "done")

\* Rule 1: what was done before the sync started is dropped.
DropDone == sync.after

\* The answer is used, and the lost changes in S go again (resendLost): those
\* whose wait is over, unless a newer change stands for them.
UseAnswer(S) ==
    LET kept  == Drop(changes, DropDone)
        old   == {k \in KeysIn(kept, "lost") : Supersedes(k)}
    IN  /\ sync.at = "back" /\ (Unsure = {} \/ Unchanged)
        /\ S \subseteq KeysIn(kept, "lost") \ old
        /\ copy' = sync.answer
        /\ changes' = Move(Drop(kept, old), S, "sending")
        /\ chain' = SendAfter(chain, S)
        /\ SyncOver
        /\ UNCHANGED <<server, request, late, made, disk, kills, told>>

---------------------------------------------------------------------------
UseSome   == \E S \in SUBSET KeysIn(changes, "lost") : UseAnswer(S)
Resend(k) == \E S \in SUBSET KeysIn(changes, "lost") : k \in S /\ UseAnswer(S)

Person ==
    \/ AddExpense
    \/ \E x \in DOMAIN log : EditExpense(x) \/ DeleteExpense(x)
    \/ \E k \in Keys : Retry(k) \/ Discard(k)

Next ==
    \/ Person
    \/ \E k \in Keys : Begin(k) \/ Arrive(k) \/ ArriveLate(k)
    \/ \E k \in Keys : Execute(k) \/ Store(k) \/ Refuse(k)
    \/ \E k \in Keys : Answered(k) \/ Refused(k) \/ Lost(k)
    \/ \E kind \in {"edit", "delete"}, x \in DOMAIN log : Other(kind, x)
    \/ Poll \/ ServeSync \/ SyncLost \/ SetAside
    \/ UseSome
    \/ SaveCopy \/ Kill \/ Crash

Spec == Init /\ [][Next]_vars

\* A handler finishes, an attempt ends, a screen is up that keeps itself current,
\* and what is sent, answered or asked again and again gets through in the end.
Fairness ==
    /\ \A k \in Keys :
          /\ WF_vars(Begin(k)) /\ WF_vars(Lost(k))
          /\ WF_vars(Execute(k) \/ Refuse(k)) /\ WF_vars(Store(k))
          /\ SF_vars(request[k] = "working" /\ (Execute(k) \/ Refuse(k)))
          /\ SF_vars(Arrive(k)) /\ SF_vars(Answered(k) \/ Refused(k))
          /\ SF_vars(Resend(k))
    /\ WF_vars(Poll) /\ SF_vars(ServeSync) /\ SF_vars(SetAside \/ UseSome)

FairSpec == Spec /\ Fairness

---------------------------------------------------------------------------
(* Properties *)

TypeOK ==
    /\ log \in Seq([kind: {"add", "edit", "delete"}, key: Keys \cup {Elsewhere}, of: Nat])
    /\ key \in [Keys -> {"free", "claimed", "executed", "stored", "stuck"}]
    /\ request \in [Keys -> {"none", "out", "working", "ok", "busy", "no", "gone"}]
    /\ late \subseteq Keys
    /\ made \in Seq([kind: {"add", "edit", "delete"}, of: Nat])
    /\ changes \in Seq(Change) /\ chain \in [Targets -> Seq(Keys)]
    /\ sync \in [at: {"idle", "out", "back"}, after: SUBSET Keys, answer: 0 .. Now]
    /\ again \in BOOLEAN /\ copy \in 0 .. Now
    /\ disk \in [changes: Seq(Change), copy: 0 .. Now]
    /\ told \in [done: SUBSET Keys, refused: SUBSET Keys]

\* changes.ts:24: "Every retry sends the same idempotency key, so the server never
\* does one twice", with requests that overlap, arrive late and lose their answers.
NeverTwice == \A k \in Keys : Cardinality(EntriesOf(k)) <= 1

\* An expense added here counts twice on the screen: laid over the copy while
\* it has no answer, and in the copy under the server's id.
ShownTwice(k) ==
    /\ IsAdd(k)
    /\ k \in KeysIn(changes, "sending") \cup KeysIn(changes, "lost")
    /\ \E x \in EntriesOf(k) : x <= copy /\ Live(x, copy)

\* Rule 2 of AppData.ts holds until an add is left to the person, as given up or
\* as refused, and tried again: before, nothing is shown twice, whichever answer
\* comes first (AppData.test.ts:349).
OnceUntilUnsaved ==
    \A c \in ToSet(changes) :
        ShownTwice(c.key) => c.tries >= GiveUpAfter \/ c.key \in told.refused

\* Rule 1: what the server has answered stays on the screen, laid over or in
\* the copy, once a sync has been used.
AnsweredIsShown ==
    \A k \in told.done, i \in DOMAIN log :
        log[i].key = k /\ copy # 0 => k \in KeysIn(changes, "done") \/ i <= copy

\* Together, what the screen counts.
CountedRight == TypeOK /\ OnceUntilUnsaved /\ AnsweredIsShown

\* A change is done, or still to be sent, or the person was told, or has made
\* a newer one to the same expense: through closing the app, too.
NothingLost ==
    \A k \in DOMAIN made :
        \/ HasChange(k) \/ EntriesOf(k) # {} \/ k \in told.done \cup told.refused
        \/ \E j \in DOMAIN made : j > k /\ ~IsAdd(j) /\ ~IsAdd(k) /\ made[j].of = made[k].of

\* In the end the app shows what the server has, and waits for nothing but the
\* person, as long as the server did not stop and the person does not try what
\* failed again for ever: whatever is lost, late, refused or set aside.
Converges ==
    <>[][crashes' = 0 /\ \A k \in Keys : ~Retry(k) /\ ~ArriveLate(k)]_vars =>
    <>[](/\ KeysIn(changes, "sending") \cup KeysIn(changes, "lost") = {}
         /\ copy # 0 /\ Content(copy) = Content(Now))

---------------------------------------------------------------------------
(* For TLC *)

\* Two states that differ in nothing the app or the server will look at again are one:
\* tries are counted for adds, an abandoned request counts while its key may be free,
\* and what is kept on the device if the app is closed once more.
Counted(q) == [i \in DOMAIN q |-> IF IsAdd(q[i].key) THEN q[i] ELSE [q[i] EXCEPT !.tries = 0]]
Seen ==
    <<log, key, crashes, request, {k \in late : key[k] \in {"free", "claimed"}}, made,
      Counted(changes), chain, sync, again, copy,
      IF kills < MaxKills THEN [disk EXCEPT !.changes = Counted(@)] ELSE <<>>, kills, told>>
=============================================================================
