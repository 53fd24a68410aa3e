------------------------------ MODULE SavedCopy ------------------------------
(* What the app keeps on a device between launches (data/AppData.ts,         *)
(* data/savedStore.ts) and whose it is, as the device's account moves under  *)
(* it: the app closed at any moment, the sign-in key replaced, the account   *)
(* deleted, the server turning a key away, another account signed in         *)
(* (App.tsx, ui/AccountScreen.tsx).  In a browser several tabs share what is *)
(* kept.  How a change is sent and merged is module ExpenseSync; how a key   *)
(* is replaced when answers are lost is module SignIn.                       *)
EXTENDS Naturals, Sequences, FiniteSets

CONSTANTS
    Tabs,          \* the app's instances that share the device's storage
    Keys,          \* the sign-in keys
    AccountOf,     \* whose each is
    None,          \* no key, no account
    FirstKeys,     \* the keys that sign in at first
    MaxChanges,    \* bound: changes made
    MaxMoves       \* bound: launches, sign-ins, keys replaced and accounts deleted

VARIABLES
    token,         \* the key the device holds
    live,          \* the keys the server knows
    used,          \* the keys that ever signed in
    copy,          \* the saved copy of the server's answer: whose key, whose data
    kept,          \* the saved changes: whose key, which
    app,           \* per tab, the app as it runs
    made,          \* who made each change
    reached,       \* the changes the server has
    letGo,         \* ghost: changes given up with the account they were of
    cut,           \* ghost: changes of an app closed between saving a new key and
                   \* writing what it kept under it
    moves

device == <<token, copy, kept>>
server == <<live, used>>
changes == <<made, reached, letGo, cut>>
vars == <<device, server, app, changes, moves>>

Nothing == [owner |-> None, of |-> None]
NoChanges == [owner |-> None, list |-> {}]
Ids == DOMAIN made
Closed == [stage |-> "closed", key |-> None, disposed |-> FALSE, answered |-> FALSE,
           held |-> FALSE, server |-> None, list |-> {}, written |-> NoChanges,
           sync |-> "none", doing |-> "nothing", newKey |-> None]

TypeOK ==
    /\ token \in Keys \cup {None} /\ live \subseteq used /\ used \subseteq Keys
    /\ copy.owner \in Keys \cup {None} /\ kept.owner \in Keys \cup {None}
    /\ kept.list \subseteq Ids /\ reached \subseteq Ids /\ letGo \cup cut \subseteq Ids
    /\ Len(made) <= MaxChanges /\ moves \in 0..MaxMoves
    /\ \A t \in Tabs :
        /\ app[t].stage \in {"closed", "welcome", "waiting", "open"}
        /\ app[t].sync \in {"none", "asked", "answered", "refused"}
        /\ app[t].doing \in {"nothing", "replacing", "swapped", "saved", "deleted", "emptied"}
        /\ app[t].list \subseteq Ids

-----------------------------------------------------------------------------
(* What is kept, and whose.                                                  *)

\* Mutant: whatever is on the device is taken for the account's.
OursAnyway(part, owner) == part.owner # None
\* What is kept is this key's only if it was written as this key's.
Ours(part, owner) == part.owner = owner /\ owner # None

\* The changes are opened without the copy too, which a phone may have emptied.
OpensWith(key) == IF Ours(kept, key) THEN kept.list ELSE {}

\* The app of a key, opened on what the device kept for it.
Hydrated(key) ==
    LET of == IF Ours(copy, key) THEN copy.of ELSE None
    IN [Closed EXCEPT !.stage = IF of = None THEN "waiting" ELSE "open", !.key = key,
                      !.server = of, !.list = OpensWith(key)]

Welcome == [Closed EXCEPT !.stage = "welcome"]

\* A save writes the changes if they are not as last written, and the copy if
\* there is one; a disposed app writes nothing.
SavesAs(a, owner) ==
    LET mine == [owner |-> owner, list |-> a.list]
    IN /\ kept' = IF mine # a.written THEN mine ELSE kept
       /\ copy' = IF a.server # None THEN [owner |-> owner, of |-> a.server] ELSE copy

Wrote(a) == [a EXCEPT !.written = [owner |-> a.key, list |-> a.list]]

\* Everything of the account goes from the device.
Forgets == copy' = Nothing /\ kept' = NoChanges

-----------------------------------------------------------------------------
(* The app's launches, and its syncs.                                        *)

Runs(t) == app[t].stage \in {"waiting", "open"} /\ ~app[t].disposed

Launch(t) ==
    /\ app[t].stage = "closed"
    /\ app' = [app EXCEPT ![t] = IF token = None THEN Welcome ELSE Hydrated(token)]
    /\ UNCHANGED <<device, server, changes>>

\* The app is closed or killed: what it had in memory is gone, and what was
\* kept is of no use to the new key if that was saved but had nothing yet.
Close(t) ==
    /\ app[t].stage # "closed"
    /\ app' = [app EXCEPT ![t] = Closed]
    /\ cut' = IF app[t].doing = "saved" THEN cut \cup app[t].list ELSE cut
    /\ UNCHANGED <<device, server, made, reached, letGo>>

AskSync(t) ==
    /\ Runs(t) /\ app[t].sync = "none"
    /\ app' = [app EXCEPT ![t].sync = "asked"]
    /\ UNCHANGED <<device, server, changes>>

SyncAnswered(t) ==
    /\ app[t].sync = "asked"
    /\ app' = [app EXCEPT ![t].sync = IF app[t].key \in live THEN "answered" ELSE "refused"]
    /\ UNCHANGED <<device, server, changes>>

\* A request to sign out is believed only while the app has had no answer, and
\* while it is not replacing its key itself.
BelievesRefusal(a) == ~a.answered /\ ~a.held

\* The key no longer signs in: what was kept goes, unless the device has moved
\* on to another key since.
SignsOut(t) ==
    IF token # None /\ token # app[t].key
    THEN /\ app' = [app EXCEPT ![t].disposed = TRUE, ![t].sync = "none"]
         /\ UNCHANGED <<device, changes>>
    ELSE /\ Forgets
         /\ token' = None
         /\ letGo' = letGo \cup kept.list \cup app[t].list
         /\ app' = [app EXCEPT ![t] = Welcome]
         /\ UNCHANGED <<made, reached, cut>>

SyncComes(t) ==
    /\ app[t].sync \in {"answered", "refused"}
    /\ UNCHANGED server
    /\ IF ~Runs(t) \/ (app[t].sync = "refused" /\ ~BelievesRefusal(app[t]))
       THEN app' = [app EXCEPT ![t].sync = "none"] /\ UNCHANGED <<device, changes>>
       ELSE IF app[t].sync = "refused" THEN SignsOut(t)
       ELSE LET of == AccountOf[app[t].key]
            IN /\ app' = [app EXCEPT ![t].sync = "none", ![t].answered = TRUE,
                                     ![t].stage = "open", ![t].server = of]
               /\ UNCHANGED <<device, changes>>

\* A save that was put off, or the app going to the background, at any time.
Saves(t) ==
    /\ Runs(t) /\ SavesAs(app[t], app[t].key)
    /\ app' = [app EXCEPT ![t] = Wrote(app[t])]
    /\ UNCHANGED <<token, server, changes>>

\* A phone short of space empties the folder the copy is in.
CopyThrown ==
    /\ copy # Nothing /\ copy' = Nothing
    /\ UNCHANGED <<token, kept, server, app, changes>>

-----------------------------------------------------------------------------
(* The person's changes.                                                     *)

\* A change is kept the moment it is made.
KeptAtOnce(a) == SavesAs(a, a.key)

Change(t) ==
    /\ Runs(t) /\ app[t].stage = "open" /\ app[t].doing = "nothing" /\ app[t].server # None
    /\ Len(made) < MaxChanges
    /\ made' = Append(made, app[t].server)
    /\ LET a == [app[t] EXCEPT !.list = @ \cup {Len(made) + 1}]
       IN KeptAtOnce(a) /\ app' = [app EXCEPT ![t] = Wrote(a)]
    /\ UNCHANGED <<token, server, reached, letGo, cut>>

\* It is sent and answered; one turned away for its key is kept to go again.
Send(t, c) ==
    /\ Runs(t) /\ c \in app[t].list
    /\ UNCHANGED <<token, server, made, letGo, cut>>
    /\ app[t].key \in live
    /\ reached' = reached \cup {c}
    /\ LET a == [app[t] EXCEPT !.list = @ \ {c}]
       IN SavesAs(a, a.key) /\ app' = [app EXCEPT ![t] = Wrote(a)]

SendRefused(t, c) ==
    /\ Runs(t) /\ c \in app[t].list /\ app[t].key \notin live
    /\ BelievesRefusal(app[t])
    /\ SignsOut(t) /\ UNCHANGED server

-----------------------------------------------------------------------------
(* The account under it.                                                     *)

SignIn(t, k) ==
    /\ app[t].stage = "welcome" /\ k \in live
    /\ token' = k
    /\ app' = [app EXCEPT ![t] = Hydrated(k)]
    /\ UNCHANGED <<copy, kept, server, changes>>

\* Replacing the key: asked, done by the server, saved on the device, and what
\* was kept handed to it.
AskReplace(t) ==
    /\ Runs(t) /\ app[t].stage = "open" /\ app[t].doing = "nothing" /\ app[t].key \in live
    /\ app' = [app EXCEPT ![t].doing = "replacing", ![t].held = TRUE]
    /\ UNCHANGED <<device, server, changes>>

Replaced(t, k) ==
    /\ app[t].doing = "replacing" /\ app[t].key \in live
    /\ k \notin used /\ AccountOf[k] = AccountOf[app[t].key]
    /\ live' = (live \ {app[t].key}) \cup {k} /\ used' = used \cup {k}
    /\ app' = [app EXCEPT ![t].doing = "swapped", ![t].newKey = k]
    /\ UNCHANGED <<device, changes>>

NewKeySaved(t) ==
    /\ app[t].doing = "swapped"
    /\ token' = app[t].newKey
    /\ app' = [app EXCEPT ![t].doing = "saved", ![t].held = FALSE]
    /\ UNCHANGED <<copy, kept, server, changes>>

\* What the app has is written as the new key's, whether or not it was disposed.
HandsOver(a, owner) == SavesAs(a, owner)

HandOver(t) ==
    /\ app[t].doing = "saved"
    /\ HandsOver(app[t], app[t].newKey)
    /\ app' = [app EXCEPT ![t] =
                  [Hydrated(app[t].newKey) EXCEPT
                      !.stage = IF copy'.owner = app[t].newKey THEN "open" ELSE "waiting",
                      !.server = IF copy'.owner = app[t].newKey THEN copy'.of ELSE None,
                      !.list = IF kept'.owner = app[t].newKey THEN kept'.list ELSE {}]]
    /\ UNCHANGED <<token, server, changes>>

\* Deleting the account: done by the server, emptied here, and the key dropped.
Deleted(t) ==
    /\ Runs(t) /\ app[t].stage = "open" /\ app[t].doing = "nothing" /\ app[t].key \in live
    /\ live' = {k \in live : AccountOf[k] # AccountOf[app[t].key]}
    /\ app' = [app EXCEPT ![t].doing = "deleted"]
    /\ UNCHANGED <<device, used, changes>>

Emptied(t) ==
    /\ app[t].doing = "deleted"
    /\ Forgets
    /\ letGo' = letGo \cup {c \in Ids : made[c] = AccountOf[app[t].key]}
    /\ app' = [app EXCEPT ![t].doing = "emptied", ![t].server = None, ![t].list = {},
                          ![t].written = NoChanges]
    /\ UNCHANGED <<token, server, made, reached, cut>>

KeyDropped(t) ==
    /\ app[t].doing = "emptied"
    /\ token' = None
    /\ app' = [app EXCEPT ![t] = Welcome]
    /\ UNCHANGED <<copy, kept, server, changes>>

Init ==
    /\ token = None /\ live = FirstKeys /\ used = FirstKeys
    /\ copy = Nothing /\ kept = NoChanges
    /\ app = [t \in Tabs |-> Closed]
    /\ made = <<>> /\ reached = {} /\ letGo = {} /\ cut = {} /\ moves = 0

\* What is bounded, and what may happen as often as it likes.
Move(t) ==
    \/ Launch(t) \/ AskReplace(t) \/ Deleted(t)
    \/ \E k \in Keys : SignIn(t, k)
Goes(t) ==
    \/ Close(t) \/ AskSync(t) \/ SyncAnswered(t) \/ SyncComes(t) \/ Saves(t)
    \/ Change(t) \/ NewKeySaved(t) \/ HandOver(t) \/ Emptied(t) \/ KeyDropped(t)
    \/ \E c \in Ids : Send(t, c) \/ SendRefused(t, c)
    \/ \E k \in Keys : Replaced(t, k)

Next ==
    \/ moves < MaxMoves /\ moves' = moves + 1 /\ \E t \in Tabs : Move(t)
    \/ UNCHANGED moves /\ (CopyThrown \/ \E t \in Tabs : Goes(t))

Spec == Init /\ [][Next]_vars

-----------------------------------------------------------------------------
\* A running app has only what is of the account its key signs in, whoever used
\* the device before, in this tab or another (AppData.ts, hydrate).
OwnDataOnly ==
    \A t \in Tabs : app[t].key # None =>
        /\ app[t].server \in {AccountOf[app[t].key], None}
        /\ \A c \in app[t].list : made[c] = AccountOf[app[t].key]

\* And so has the device, whichever tabs wrote to it and whatever was deleted,
\* replaced or signed in meanwhile: what is kept under a key is of the account of
\* that key, so what opens it was its own (AppData.ts, saveNow and handOver).  A
\* copy can outlive its account here, shut to every other key.
KeptIsOwners ==
    /\ copy.owner # None => copy.of = AccountOf[copy.owner]
    /\ \A c \in kept.list : kept.owner # None /\ made[c] = AccountOf[kept.owner]

\* In one tab, a change the server may not have is in the open app or kept for
\* the key the device holds, across closing, replacing the key and an emptied
\* cache, until its account is signed out or deleted here (AppData.ts: "a change
\* made just before the app is closed is still sent next time").  The exception
\* is an app closed while it replaces its key, after the new one was saved and
\* before what was kept is written under it: what it had (cut) is not sent.
ChangesAreKept ==
    \A c \in Ids \ (reached \cup letGo \cup cut) :
        \/ \E t \in Tabs : c \in app[t].list
        \/ c \in kept.list /\ kept.owner = token

\* In one tab, changes given up with their account are gone from the device for
\* good: none is written back, opened or sent (App.tsx: "emptied before it stops,
\* so nothing of the account is written back").  The copy of what the server
\* said may be, and is not claimed.
LetGoStaysGone ==
    letGo \cap (kept.list \cup UNION {app[t].list : t \in Tabs}) = {}
=============================================================================
