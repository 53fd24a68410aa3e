------------------------------- MODULE SignIn -------------------------------
(***************************************************************************)
(* One account and the devices signed in to it: making and replacing its   *)
(* sign-in key (routes/accounts.ts), the key that was replaced and the     *)
(* replay of a lost answer (middleware.ts), and what the app does with its *)
(* key (AccountGate, AccountScreen, WelcomeScreen, AppData).               *)
(*                                                                         *)
(* Sign-in keys are numbered as they are made; 0 is none.  Tabs of one     *)
(* device (or one launch of the app and the next) share what it stored.    *)
(***************************************************************************)
EXTENDS Integers, TLAPS

CONSTANTS Tabs, Devices, DeviceOf, MaxKeys, MaxAsks

\* Assumed of the constants, wherever they are given values.
SignInAssumption ==
    /\ DeviceOf \in [Tabs -> Devices]
    /\ MaxKeys \in Nat \ {0} /\ MaxAsks \in Nat

NoKey == 0

Keys == 1..MaxKeys
Asks == 1..MaxAsks              \* idempotency keys of replacements

VARIABLES
    token, previous,     \* users.token; users.previous_token while it is good
    keysMade,            \* sign-in keys made so far
    answers,             \* idempotency_keys: none, being worked on, or the key answered
    stored,              \* the key a device keeps (tokenStore)
    at, mine,            \* what a tab shows, and the key of its client
    answered,            \* its AppData has synced (AppData.answered)
    sync,                \* its sync
    ask                  \* its replacement of the key

vars == <<token, previous, keysMade, answers, stored, at, mine, answered, sync, ask>>

keyVars == <<token, previous, keysMade, answers>>
tabVars == <<at, mine, answered, sync, ask>>

Unasked == 0
Claimed == -1

NoAsk == [stage |-> "no", id |-> 0, got |-> NoKey]

\* The same replacement, further on.
AskAt(t, stage, got) == [ask EXCEPT ![t] = [stage |-> stage, id |-> ask[t].id, got |-> got]]

Init ==
    /\ token = 1 /\ previous = NoKey /\ keysMade = 1
    /\ answers = [a \in Asks |-> Unasked]
    /\ stored = [d \in Devices |-> 1]
    /\ at = [t \in Tabs |-> "closed"] /\ mine = [t \in Tabs |-> NoKey]
    /\ answered = [t \in Tabs |-> FALSE] /\ sync = [t \in Tabs |-> "idle"]
    /\ ask = [t \in Tabs |-> NoAsk]

-----------------------------------------------------------------------------
(* The app opens, is closed, signs in (AccountGate, WelcomeScreen).         *)

\* open(token): a client and an AppData of their own.
Opened(t, key) ==
    /\ at' = [at EXCEPT ![t] = "app"]
    /\ mine' = [mine EXCEPT ![t] = key]
    /\ answered' = [answered EXCEPT ![t] = FALSE]
    /\ sync' = [sync EXCEPT ![t] = "idle"]

Launch(t) ==
    LET key == stored[DeviceOf[t]] IN
    /\ at[t] = "closed"
    /\ IF key # NoKey THEN Opened(t, key)
       ELSE /\ at' = [at EXCEPT ![t] = "welcome"]
            /\ UNCHANGED <<mine, answered, sync>>
    /\ UNCHANGED <<keyVars, stored, ask>>

Close(t) ==
    /\ at[t] # "closed"
    /\ at' = [at EXCEPT ![t] = "closed"]
    /\ mine' = [mine EXCEPT ![t] = NoKey]
    /\ answered' = [answered EXCEPT ![t] = FALSE]
    /\ sync' = [sync EXCEPT ![t] = "idle"]
    /\ ask' = [ask EXCEPT ![t] = NoAsk]
    /\ UNCHANGED <<keyVars, stored>>

\* The key was written down, and is tried before it is kept; signing in with
\* Nostr is told it.
SignInWithKey(t, key) ==
    /\ at[t] = "welcome"
    /\ key = token
    /\ stored' = [stored EXCEPT ![DeviceOf[t]] = key]
    /\ Opened(t, key)
    /\ UNCHANGED <<keyVars, ask>>

-----------------------------------------------------------------------------
(* Syncs of a tab, and what they tell of its key (AppData.run).             *)

\* auth: the key an account has now.
SignsIn(key) == key = token

SendSync(t) ==
    /\ at[t] = "app" /\ sync[t] = "idle"
    /\ sync' = [sync EXCEPT ![t] = "sent"]
    /\ UNCHANGED <<keyVars, stored, at, mine, answered, ask>>

ServeSync(t) ==
    /\ sync[t] = "sent"
    /\ sync' = [sync EXCEPT ![t] = IF SignsIn(mine[t]) THEN "ok" ELSE "refused"]
    /\ UNCHANGED <<keyVars, stored, at, mine, answered, ask>>

SyncLost(t) ==
    /\ sync[t] \in {"sent", "ok", "refused"}
    /\ sync' = [sync EXCEPT ![t] = "idle"]
    /\ UNCHANGED <<keyVars, stored, at, mine, answered, ask>>

SyncUsed(t) ==
    /\ sync[t] = "ok"
    /\ sync' = [sync EXCEPT ![t] = "idle"]
    /\ answered' = [answered EXCEPT ![t] = TRUE]
    /\ UNCHANGED <<keyVars, stored, at, mine, ask>>

\* holdSignOut: while the answer to a replacement may still come.
Holds(t) == ask[t].stage \in {"sent", "claimed", "told", "saved"}

\* signedOut, after the device moved on to another key: nothing goes.
GoesWith(t) == stored[DeviceOf[t]] \in {NoKey, mine[t]}

\* signedOut stops this AppData for good, and asks the device what it holds.
SyncRefused(t) ==
    /\ sync[t] = "refused"
    /\ \/ /\ Holds(t) \/ answered[t]
          /\ sync' = [sync EXCEPT ![t] = "idle"]
          /\ UNCHANGED <<stored, at, mine, ask>>
       \/ /\ ~Holds(t) /\ ~answered[t] /\ ~GoesWith(t)
          /\ sync' = [sync EXCEPT ![t] = "stopped"]
          /\ UNCHANGED <<stored, at, mine, ask>>
       \/ /\ ~Holds(t) /\ ~answered[t] /\ GoesWith(t)
          /\ sync' = [sync EXCEPT ![t] = "idle"]
          /\ stored' = [stored EXCEPT ![DeviceOf[t]] = NoKey]
          /\ at' = [at EXCEPT ![t] = "welcome"]
          /\ mine' = [mine EXCEPT ![t] = NoKey]
          /\ ask' = [ask EXCEPT ![t] = NoAsk]
    /\ UNCHANGED <<keyVars, answered>>

-----------------------------------------------------------------------------
(* Replacing the key (SignInKeyCard, POST /me/token).                       *)

\* The same idempotency key, until it worked or the screen was left.
AskNew(t) ==
    /\ at[t] = "app"
    /\ \/ /\ ask[t].stage = "no"
          /\ \E id \in Asks :
                /\ answers[id] = Unasked
                /\ \A u \in Tabs : ask[u].id # id
                /\ ask' = [ask EXCEPT ![t] = [stage |-> "sent", id |-> id, got |-> NoKey]]
       \/ /\ ask[t].stage = "failed"
          /\ ask' = AskAt(t, "sent", ask[t].got)
    /\ UNCHANGED <<keyVars, stored, at, mine, answered, sync>>

LeaveScreen(t) ==
    /\ ask[t].stage = "failed"
    /\ ask' = [ask EXCEPT ![t] = NoAsk]
    /\ UNCHANGED <<keyVars, stored, at, mine, answered, sync>>

\* userByPreviousToken, on the one route it is good for.
ReplacedLately(key) == key # NoKey /\ key = previous

Known(key) == SignsIn(key) \/ ReplacedLately(key)

\* Told before, still being worked on, or turned away.
Answer(t) ==
    /\ ask[t].stage = "sent"
    /\ LET a == answers[ask[t].id] IN
       \/ /\ Known(mine[t]) /\ a \notin {Unasked, Claimed}
          /\ ask' = AskAt(t, "told", a)
       \/ /\ Known(mine[t]) => a = Claimed
          /\ ask' = AskAt(t, "failed", ask[t].got)
       \/ /\ a = Unasked /\ ReplacedLately(mine[t])
          /\ ask' = AskAt(t, "failed", ask[t].got)
    /\ UNCHANGED <<keyVars, stored, at, mine, answered, sync>>

\* Mutant: the handler does not look whether it was let in by the old key.
MayReplaceKnown(key) == Known(key)

MayReplace(key) == SignsIn(key)

\* The handler, and the answer kept a moment later (Store).
Replace(t) ==
    /\ ask[t].stage = "sent" /\ answers[ask[t].id] = Unasked
    /\ MayReplace(mine[t])
    /\ keysMade < MaxKeys
    /\ keysMade' = keysMade + 1 /\ token' = keysMade + 1 /\ previous' = token
    /\ answers' = [answers EXCEPT ![ask[t].id] = Claimed]
    /\ ask' = AskAt(t, "claimed", keysMade + 1)
    /\ UNCHANGED <<stored, at, mine, answered, sync>>

Store(t) ==
    /\ ask[t].stage = "claimed"
    /\ answers' = [answers EXCEPT ![ask[t].id] = ask[t].got]
    /\ ask' = AskAt(t, "told", ask[t].got)
    /\ UNCHANGED <<token, previous, keysMade, stored, at, mine, answered, sync>>

\* The request, its answer or (before Store) the server was lost.
AskLost(t) ==
    /\ ask[t].stage \in {"sent", "claimed", "told"}
    /\ ask' = AskAt(t, "failed", NoKey)
    /\ UNCHANGED <<keyVars, stored, at, mine, answered, sync>>

SaveKey(t) ==
    /\ ask[t].stage = "told"
    /\ stored' = [stored EXCEPT ![DeviceOf[t]] = ask[t].got]
    /\ ask' = AskAt(t, "saved", ask[t].got)
    /\ UNCHANGED <<keyVars, at, mine, answered, sync>>

\* handOver, and the app opens with the new key.
HandOver(t) ==
    /\ ask[t].stage = "saved"
    /\ Opened(t, ask[t].got)
    /\ ask' = [ask EXCEPT ![t] = NoAsk]
    /\ UNCHANGED <<keyVars, stored>>

\* previous_token_until has come.
PreviousLapses ==
    /\ previous # NoKey
    /\ previous' = NoKey
    /\ UNCHANGED <<token, keysMade, answers, stored, tabVars>>

\* DELETE /me; a lost answer leaves the device with a key nobody knows.
DeleteAccount(t) ==
    /\ at[t] = "app" /\ SignsIn(mine[t])
    /\ token' = NoKey /\ previous' = NoKey
    /\ answers' = [a \in Asks |-> Unasked]
    /\ \/ UNCHANGED <<stored, tabVars>>
       \/ /\ stored' = [stored EXCEPT ![DeviceOf[t]] = NoKey]
          /\ at' = [at EXCEPT ![t] = "welcome"]
          /\ mine' = [mine EXCEPT ![t] = NoKey]
          /\ sync' = [sync EXCEPT ![t] = "idle"]
          /\ answered' = [answered EXCEPT ![t] = FALSE]
          /\ ask' = [ask EXCEPT ![t] = NoAsk]
    /\ UNCHANGED keysMade

Next ==
    \/ \E t \in Tabs :
          \/ Launch(t) \/ Close(t) \/ \E key \in Keys : SignInWithKey(t, key)
          \/ SendSync(t) \/ ServeSync(t) \/ SyncLost(t) \/ SyncUsed(t) \/ SyncRefused(t)
          \/ AskNew(t) \/ LeaveScreen(t) \/ Answer(t) \/ Replace(t) \/ Store(t) \/ AskLost(t)
          \/ SaveKey(t) \/ HandOver(t) \/ DeleteAccount(t)
    \/ PreviousLapses

Spec == Init /\ [][Next]_vars

-----------------------------------------------------------------------------

\* Types of what the server, the devices and the tabs keep.
TypeOK ==
    /\ token \in 0..MaxKeys /\ previous \in 0..MaxKeys /\ keysMade \in Keys
    /\ answers \in [Asks -> {Unasked, Claimed} \cup Keys]
    /\ stored \in [Devices -> 0..MaxKeys]
    /\ at \in [Tabs -> {"closed", "welcome", "app"}] /\ mine \in [Tabs -> 0..MaxKeys]
    /\ answered \in [Tabs -> BOOLEAN]
    /\ sync \in [Tabs -> {"idle", "sent", "ok", "refused", "stopped"}]
    /\ ask \in [Tabs -> [stage : {"no", "sent", "claimed", "told", "saved", "failed"},
                         id : 0..MaxAsks, got : 0..MaxKeys]]

\* Only who holds the key of now replaces it: one that leaked and was replaced
\* makes no other, however it is sent again (accounts.ts: replacedKey).
OnlyTheKeyReplaces ==
    token' \notin {token, NoKey} => \E t \in Tabs : mine[t] = token /\ ask'[t].got = token'

\* Whatever a device is told its new key is, first or replayed, is the
\* account's key at that moment: a replay never brings back an older one.
ReplayIsCurrent ==
    \A t \in Tabs : ask'[t].got \notin {ask[t].got, NoKey} => ask'[t].got = token'

\* A device that holds the account's key is not signed out by what another
\* tab asked with an older one, or is answered late: only deleting the account
\* takes it away (AccountGate.signedOut).
LiveKeyIsKept ==
    \A d \in Devices :
        stored[d] # NoKey /\ stored[d] = token /\ token' = token => stored'[d] # NoKey

-----------------------------------------------------------------------------
(* Proofs, for any number of tabs, devices, keys and replacements.  The    *)
(* server's "told before" is good because a key that is let in by the      *)
(* replaced one has been replaced once, by what it asked itself: later     *)
(* keys are larger, and an idempotency key is one tab's.                   *)

\* A key that was made for whoever had this one; the account's, as long as this
\* one is still let in.
FollowsOn(key, next) == key < next /\ (previous = key => next = token)

KeysInOrder ==
    /\ token \in {NoKey, keysMade} /\ previous < keysMade
    /\ token = NoKey => previous = NoKey
    /\ \A a \in Asks : answers[a] <= keysMade
    /\ \A d \in Devices : stored[d] <= keysMade

TabFits(t) ==
    /\ mine[t] <= keysMade /\ ask[t].got <= keysMade
    /\ at[t] = "app" <=> mine[t] # NoKey
    /\ at[t] # "app" => ask[t] = NoAsk /\ sync[t] = "idle"
    /\ sync[t] = "refused" => mine[t] # token
    /\ ask[t].stage = "no" <=> ask[t].id = 0
    /\ ask[t].stage \in {"claimed", "told", "saved"} => ask[t].got # NoKey
    /\ ask[t].stage = "claimed" => FollowsOn(mine[t], ask[t].got)
    /\ ask[t].stage # "no" /\ answers[ask[t].id] \in Keys => FollowsOn(mine[t], answers[ask[t].id])

AsksApart == \A t, u \in Tabs : t # u /\ ask[t].id # 0 => ask[t].id # ask[u].id

KeyInv == TypeOK /\ KeysInOrder /\ AsksApart /\ \A t \in Tabs : TabFits(t)

Stages == {"no", "sent", "claimed", "told", "saved", "failed"}

LEMMA AskAtIs ==
    ASSUME TypeOK, NEW t \in Tabs, NEW stage \in Stages, NEW got \in 0..MaxKeys,
           ask' = AskAt(t, stage, got)
    PROVE  /\ ask' \in [Tabs -> [stage : Stages, id : 0..MaxAsks, got : 0..MaxKeys]]
           /\ ask'[t] = [stage |-> stage, id |-> ask[t].id, got |-> got]
           /\ \A u \in Tabs \ {t} : ask'[u] = ask[u]
BY DEF TypeOK, AskAt, Stages

LEMMA Types ==
    ASSUME SignInAssumption, TypeOK, NEW t \in Tabs
    PROVE  /\ mine[t] \in 0..MaxKeys /\ ask[t].got \in 0..MaxKeys /\ ask[t].id \in 0..MaxAsks
           /\ ask[t].stage \in Stages /\ keysMade \in Nat /\ token \in Nat /\ previous \in Nat
           /\ mine[t] \in Nat /\ ask[t].got \in Nat
           /\ DeviceOf[t] \in Devices /\ stored[DeviceOf[t]] \in 0..MaxKeys
           /\ ask[t] = [stage |-> ask[t].stage, id |-> ask[t].id, got |-> ask[t].got]
           /\ ask[t].id # 0 => ask[t].id \in Asks /\ answers[ask[t].id] \in Int
           /\ NoAsk \in [stage : Stages, id : 0..MaxAsks, got : 0..MaxKeys]
<1>1. MaxKeys \in Nat /\ MaxAsks \in Nat /\ DeviceOf \in [Tabs -> Devices]
  BY DEF SignInAssumption
<1>2. ask[t] \in [stage : Stages, id : 0..MaxAsks, got : 0..MaxKeys]
  BY DEF TypeOK, Stages
<1>3. ask[t].id # 0 => ask[t].id \in Asks
  BY <1>1, <1>2 DEF Asks
<1>4. \A a \in {Unasked, Claimed} \cup Keys : a \in Int
  BY <1>1 DEF Keys, Unasked, Claimed
<1>5. ask[t].id # 0 => answers[ask[t].id] \in Int
  <2>1. answers \in [Asks -> {Unasked, Claimed} \cup Keys]
    BY DEF TypeOK
  <2> QED
    BY <1>3, <1>4, <2>1
<1>6. keysMade \in Nat /\ token \in Nat /\ previous \in Nat /\ mine[t] \in 0..MaxKeys
  BY <1>1 DEF TypeOK, Keys
<1>7. NoAsk \in [stage : Stages, id : 0..MaxAsks, got : 0..MaxKeys]
  BY <1>1 DEF NoAsk, Stages, NoKey
<1>8. stored[DeviceOf[t]] \in 0..MaxKeys
  BY <1>1 DEF TypeOK
<1> QED
  BY <1>1, <1>2, <1>3, <1>5, <1>6, <1>7, <1>8

\* The key goes from the device, and the tab to the start.
SignedOut(t) ==
    /\ stored' = [stored EXCEPT ![DeviceOf[t]] = NoKey]
    /\ at' = [at EXCEPT ![t] = "welcome"] /\ mine' = [mine EXCEPT ![t] = NoKey]
    /\ sync' = [sync EXCEPT ![t] = "idle"] /\ ask' = [ask EXCEPT ![t] = NoAsk]

LEMMA OutIsTyped ==
    ASSUME SignInAssumption, TypeOK, NEW t \in Tabs, SignedOut(t)
    PROVE  /\ stored' \in [Devices -> 0..MaxKeys]
           /\ at' \in [Tabs -> {"closed", "welcome", "app"}] /\ mine' \in [Tabs -> 0..MaxKeys]
           /\ sync' \in [Tabs -> {"idle", "sent", "ok", "refused", "stopped"}]
           /\ ask' \in [Tabs -> [stage : {"no", "sent", "claimed", "told", "saved", "failed"},
                                 id : 0..MaxAsks, got : 0..MaxKeys]]
<1>1. NoKey \in 0..MaxKeys
  BY DEF NoKey, SignInAssumption
<1>2. NoAsk \in [stage : Stages, id : 0..MaxAsks, got : 0..MaxKeys]
  BY Types
<1> QED
  BY <1>1, <1>2 DEF SignedOut, TypeOK, Stages

LEMMA TypeKept == SignInAssumption /\ KeyInv /\ [Next]_vars => TypeOK'
<1> SUFFICES ASSUME SignInAssumption, KeyInv, TypeOK, [Next]_vars PROVE TypeOK'
  BY DEF KeyInv
<1> USE DEF keyVars, tabVars
<1>0. MaxKeys \in Nat \ {0} /\ NoKey \in 0..MaxKeys /\ 0..MaxKeys = {NoKey} \cup Keys
  BY DEF SignInAssumption, NoKey, Keys
<1>1. ASSUME NEW t \in Tabs, Launch(t) \/ Close(t) \/ \E key \in Keys : SignInWithKey(t, key)
      PROVE  TypeOK'
  <2>1. NoAsk \in [stage : Stages, id : 0..MaxAsks, got : 0..MaxKeys] /\ DeviceOf[t] \in Devices
        /\ stored[DeviceOf[t]] \in 0..MaxKeys
    BY Types
  <2>2. CASE Launch(t)
    <3> DEFINE key == stored[DeviceOf[t]]
    <3>1. CASE key # NoKey
      BY <1>0, <2>1, <2>2, <3>1 DEF Launch, Opened, TypeOK, Stages
    <3>2. CASE key = NoKey
      BY <1>0, <2>1, <2>2, <3>2 DEF Launch, TypeOK, Stages
    <3> QED
      BY <3>1, <3>2
  <2>3. CASE Close(t)
    BY <1>0, <2>1, <2>3 DEF Close, TypeOK, Stages
  <2>4. ASSUME NEW key \in Keys, SignInWithKey(t, key) PROVE TypeOK'
    BY <1>0, <2>1, <2>4 DEF SignInWithKey, Opened, TypeOK, Stages
  <2> QED
    BY <1>1, <2>2, <2>3, <2>4
<1>2. ASSUME NEW t \in Tabs, SendSync(t) \/ ServeSync(t) \/ SyncLost(t) \/ SyncUsed(t)
      PROVE  TypeOK'
  BY <1>2 DEF SendSync, ServeSync, SyncLost, SyncUsed, TypeOK
<1>3. ASSUME NEW t \in Tabs, SyncRefused(t) PROVE TypeOK'
  <2>1. UNCHANGED <<keyVars, answered>> /\ (SignedOut(t) \/ UNCHANGED <<stored, at, mine, ask>>)
    BY <1>3 DEF SyncRefused, SignedOut
  <2>2. sync' = [sync EXCEPT ![t] = "idle"] \/ sync' = [sync EXCEPT ![t] = "stopped"]
    BY <1>3 DEF SyncRefused
  <2>3. CASE SignedOut(t)
    BY <2>1, <2>3, OutIsTyped DEF TypeOK
  <2>4. CASE UNCHANGED <<stored, at, mine, ask>>
    BY <2>1, <2>2, <2>4 DEF TypeOK
  <2> QED
    BY <2>1, <2>3, <2>4
<1>4. ASSUME NEW t \in Tabs, AskNew(t) \/ LeaveScreen(t) PROVE TypeOK'
  <2>1. NoAsk \in [stage : Stages, id : 0..MaxAsks, got : 0..MaxKeys] /\ ask[t].got \in 0..MaxKeys
    BY Types
  <2>2. CASE ask' = [ask EXCEPT ![t] = NoAsk] /\ UNCHANGED <<keyVars, stored, at, mine, answered, sync>>
    BY <2>1, <2>2 DEF TypeOK, Stages
  <2>3. CASE ask' = AskAt(t, "sent", ask[t].got) /\ UNCHANGED <<keyVars, stored, at, mine, answered, sync>>
    BY <2>1, <2>3, AskAtIs DEF TypeOK, Stages
  <2>4. ASSUME NEW id \in Asks, ask' = [ask EXCEPT ![t] = [stage |-> "sent", id |-> id, got |-> NoKey]],
               UNCHANGED <<keyVars, stored, at, mine, answered, sync>>
        PROVE  TypeOK'
    <3>1. [stage |-> "sent", id |-> id, got |-> NoKey] \in [stage : Stages, id : 0..MaxAsks, got : 0..MaxKeys]
      BY <1>0 DEF Stages, Asks, SignInAssumption
    <3> QED
      BY <2>4, <3>1 DEF TypeOK, Stages
  <2> QED
    BY <1>4, <2>2, <2>3, <2>4 DEF AskNew, LeaveScreen
<1>5. ASSUME NEW t \in Tabs, ask[t].stage # "no"
      PROVE  /\ ask[t].id \in Asks /\ ask[t].id \in 0..MaxAsks /\ ask[t].got \in 0..MaxKeys
             /\ answers[ask[t].id] \in {Unasked, Claimed} \cup Keys
  <2>1. ask[t].id # 0
    BY <1>5 DEF KeyInv, TabFits
  <2>2. ask[t].id \in Asks /\ ask[t].id \in 0..MaxAsks /\ ask[t].got \in 0..MaxKeys
    BY <2>1, Types
  <2> QED
    BY <2>2 DEF TypeOK
<1>6. ASSUME NEW t \in Tabs, Answer(t) PROVE TypeOK'
  <2>1. UNCHANGED <<keyVars, stored, at, mine, answered, sync>> /\ ask[t].stage # "no"
    BY <1>6 DEF Answer
  <2>2. ask[t].id \in Asks /\ ask[t].id \in 0..MaxAsks /\ ask[t].got \in 0..MaxKeys
        /\ answers[ask[t].id] \in {Unasked, Claimed} \cup Keys
    BY <1>5, <2>1
  <2>3. CASE ask' = AskAt(t, "failed", ask[t].got)
    BY <2>1, <2>2, <2>3, AskAtIs DEF TypeOK, Stages
  <2>4. CASE ask' = AskAt(t, "told", answers[ask[t].id]) /\ answers[ask[t].id] \notin {Unasked, Claimed}
    <3>1. answers[ask[t].id] \in 0..MaxKeys
      BY <1>0, <2>2, <2>4
    <3> QED
      BY <2>1, <2>4, <3>1, AskAtIs DEF TypeOK, Stages
  <2> QED
    BY <1>6, <2>3, <2>4 DEF Answer
<1>7. ASSUME NEW t \in Tabs, Replace(t) PROVE TypeOK'
  <2>1. /\ ask[t].stage = "sent" /\ keysMade < MaxKeys
        /\ keysMade' = keysMade + 1 /\ token' = keysMade + 1 /\ previous' = token
        /\ answers' = [answers EXCEPT ![ask[t].id] = Claimed]
        /\ ask' = AskAt(t, "claimed", keysMade + 1) /\ UNCHANGED <<stored, at, mine, answered, sync>>
    BY <1>7 DEF Replace
  <2>2. keysMade + 1 \in Keys /\ keysMade + 1 \in 0..MaxKeys
    BY <1>0, <2>1 DEF TypeOK, Keys
  <2>3. ask' \in [Tabs -> [stage : Stages, id : 0..MaxAsks, got : 0..MaxKeys]]
    BY <2>1, <2>2, AskAtIs DEF Stages
  <2>4. answers' \in [Asks -> {Unasked, Claimed} \cup Keys]
    BY <2>1 DEF TypeOK
  <2> QED
    BY <2>1, <2>2, <2>3, <2>4 DEF TypeOK, Stages
<1>8. ASSUME NEW t \in Tabs, Store(t) PROVE TypeOK'
  <2>1. /\ ask[t].stage = "claimed" /\ answers' = [answers EXCEPT ![ask[t].id] = ask[t].got]
        /\ ask' = AskAt(t, "told", ask[t].got)
        /\ UNCHANGED <<token, previous, keysMade, stored, at, mine, answered, sync>>
    BY <1>8 DEF Store
  <2>2. ask[t].got # NoKey
    BY <2>1 DEF KeyInv, TabFits
  <2>3. ask[t].got \in 0..MaxKeys /\ ask[t].got \in Keys
    BY <1>0, <2>2, Types
  <2>4. ask' \in [Tabs -> [stage : Stages, id : 0..MaxAsks, got : 0..MaxKeys]]
    BY <2>1, <2>3, AskAtIs DEF Stages
  <2>5. answers' \in [Asks -> {Unasked, Claimed} \cup Keys]
    BY <2>1, <2>3 DEF TypeOK
  <2> QED
    BY <2>1, <2>4, <2>5 DEF TypeOK, Stages
<1>9. ASSUME NEW t \in Tabs, AskLost(t) PROVE TypeOK'
  <2>1. ask' = AskAt(t, "failed", NoKey) /\ UNCHANGED <<keyVars, stored, at, mine, answered, sync>>
    BY <1>9 DEF AskLost
  <2> QED
    BY <1>0, <2>1, AskAtIs DEF TypeOK, Stages
<1>10. ASSUME NEW t \in Tabs, SaveKey(t) PROVE TypeOK'
  <2>1. /\ stored' = [stored EXCEPT ![DeviceOf[t]] = ask[t].got]
        /\ ask' = AskAt(t, "saved", ask[t].got) /\ UNCHANGED <<keyVars, at, mine, answered, sync>>
    BY <1>10 DEF SaveKey
  <2>2. ask[t].got \in 0..MaxKeys
    BY Types
  <2> QED
    BY <2>1, <2>2, AskAtIs DEF TypeOK, Stages
<1>11. ASSUME NEW t \in Tabs, HandOver(t) PROVE TypeOK'
  <2>1. NoAsk \in [stage : Stages, id : 0..MaxAsks, got : 0..MaxKeys] /\ ask[t].got \in 0..MaxKeys
    BY Types
  <2> QED
    BY <1>11, <2>1 DEF HandOver, Opened, TypeOK, Stages
<1>12. ASSUME NEW t \in Tabs, DeleteAccount(t) PROVE TypeOK'
  <2>1. token' = NoKey /\ previous' = NoKey /\ answers' = [a \in Asks |-> Unasked] /\ keysMade' = keysMade
    BY <1>12 DEF DeleteAccount
  <2>2. UNCHANGED <<stored, tabVars>>
        \/ (SignedOut(t) /\ answered' = [answered EXCEPT ![t] = FALSE])
    BY <1>12 DEF DeleteAccount, SignedOut
  <2>3. CASE UNCHANGED <<stored, tabVars>>
    BY <1>0, <2>1, <2>3 DEF TypeOK
  <2>4. CASE SignedOut(t) /\ answered' = [answered EXCEPT ![t] = FALSE]
    BY <1>0, <2>1, <2>4, OutIsTyped DEF TypeOK
  <2> QED
    BY <2>2, <2>3, <2>4
<1>13. CASE PreviousLapses \/ UNCHANGED vars
  BY <1>0, <1>13 DEF PreviousLapses, TypeOK, vars
<1> QED
  BY <1>1, <1>2, <1>3, <1>4, <1>6, <1>7, <1>8, <1>9, <1>10, <1>11, <1>12, <1>13 DEF Next

\* A tab nothing happens to fits on, whatever becomes of the account's keys.
Same(t) == at'[t] = at[t] /\ mine'[t] = mine[t] /\ sync'[t] = sync[t] /\ ask'[t] = ask[t]

KeyStep ==
    \/ UNCHANGED <<token, keysMade>> /\ previous' \in {previous, NoKey}
    \/ token # NoKey /\ token' = keysMade + 1 /\ keysMade' = keysMade + 1 /\ previous' = token
    \/ token' = NoKey /\ previous' = NoKey /\ keysMade' = keysMade

AnswerStands(t) ==
    ask[t].id # 0 => answers'[ask[t].id] = answers[ask[t].id] \/ answers'[ask[t].id] \notin Keys

LEMMA FollowsStill ==
    ASSUME SignInAssumption, TypeOK, KeysInOrder, KeyStep,
           NEW key \in Nat, NEW next \in Nat, key # NoKey, next <= keysMade, FollowsOn(key, next)
    PROVE  key < next /\ (previous' = key => next = token')
<1>1. /\ token \in Nat /\ previous \in Nat /\ keysMade \in Nat
      /\ token \in {NoKey, keysMade} /\ previous < keysMade
  BY DEF TypeOK, KeysInOrder, Keys, SignInAssumption
<1> QED
  BY <1>1 DEF FollowsOn, KeyStep, NoKey

LEMMA FitsStill ==
    ASSUME SignInAssumption, KeyInv, KeyStep, NEW t \in Tabs, Same(t), AnswerStands(t)
    PROVE  TabFits(t)'
<1>1. TypeOK /\ KeysInOrder /\ TabFits(t)
  BY DEF KeyInv
<1>2. /\ mine[t] \in Nat /\ ask[t].got \in Nat /\ ask[t].id \in 0..MaxAsks
      /\ keysMade \in Nat /\ token \in Nat
      /\ ask[t].id # 0 => ask[t].id \in Asks
  BY <1>1, Types
<1>3. keysMade' \in Nat /\ keysMade <= keysMade'
  BY <1>2 DEF KeyStep
<1>4. mine'[t] <= keysMade' /\ ask'[t].got <= keysMade'
  BY <1>1, <1>2, <1>3 DEF TabFits, Same
<1>5. sync'[t] = "refused" => mine'[t] # token'
  BY <1>1, <1>2 DEF TabFits, Same, KeyStep, NoAsk
<1>6. ask[t].stage # "no" => mine[t] # NoKey
  BY <1>1 DEF TabFits, NoAsk
<1>7. ask[t].stage = "claimed" => FollowsOn(mine[t], ask[t].got)'
  <2> SUFFICES ASSUME ask[t].stage = "claimed" PROVE FollowsOn(mine[t], ask[t].got)'
    OBVIOUS
  <2>1. mine[t] # NoKey /\ ask[t].got <= keysMade /\ FollowsOn(mine[t], ask[t].got)
    BY <1>1, <1>6 DEF TabFits
  <2>2. mine[t] < ask[t].got /\ (previous' = mine[t] => ask[t].got = token')
    BY <1>1, <1>2, <2>1, FollowsStill
  <2> QED
    BY <2>2 DEF FollowsOn, Same
<1>8. ask[t].stage # "no" /\ answers'[ask[t].id] \in Keys => FollowsOn(mine[t], answers[ask[t].id])'
  <2> SUFFICES ASSUME ask[t].stage # "no", answers'[ask[t].id] \in Keys
               PROVE  FollowsOn(mine[t], answers[ask[t].id])'
    OBVIOUS
  <2>1. ask[t].id # 0 /\ ask[t].id \in Asks
    BY <1>1, <1>2 DEF TabFits
  <2>2. answers'[ask[t].id] = answers[ask[t].id]
    BY <2>1 DEF AnswerStands
  <2>3. /\ answers[ask[t].id] \in Nat /\ answers[ask[t].id] <= keysMade
        /\ FollowsOn(mine[t], answers[ask[t].id])
    BY <1>1, <2>1, <2>2 DEF TabFits, KeysInOrder, Keys
  <2>4. mine[t] < answers[ask[t].id] /\ (previous' = mine[t] => answers[ask[t].id] = token')
    BY <1>1, <1>2, <1>6, <2>3, FollowsStill
  <2> QED
    BY <2>2, <2>4 DEF FollowsOn, Same
<1> QED
  BY <1>1, <1>4, <1>5, <1>7, <1>8 DEF TabFits, Same

LEMMA ApartStill ==
    ASSUME AsksApart, NEW t \in Tabs, \A u \in Tabs \ {t} : ask'[u].id = ask[u].id,
           \/ ask'[t].id \in {0, ask[t].id}
           \/ \A u \in Tabs : ask[u].id # ask'[t].id
    PROVE  AsksApart'
BY DEF AsksApart

\* What one tab does keeps the rest in order.
LEMMA OneTab ==
    ASSUME SignInAssumption, KeyInv, TypeOK', KeyStep, NEW t \in Tabs,
           \A u \in Tabs \ {t} : Same(u) /\ AnswerStands(u),
           \/ ask'[t].id \in {0, ask[t].id}
           \/ \A u \in Tabs : ask[u].id # ask'[t].id,
           KeysInOrder', TabFits(t)'
    PROVE  KeyInv'
<1>1. \A u \in Tabs : TabFits(u)'
  BY FitsStill
<1>2. AsksApart'
  BY ApartStill DEF KeyInv, Same
<1> QED
  BY <1>1, <1>2 DEF KeyInv

LEMMA OrderStill ==
    ASSUME SignInAssumption, TypeOK, KeysInOrder, UNCHANGED <<keyVars, stored>>
    PROVE  KeysInOrder' /\ KeyStep /\ \A u \in Tabs : AnswerStands(u)
BY DEF KeysInOrder, keyVars, KeyStep, AnswerStands

\* A tab that just opened with a key, or is closed or signed out.
LEMMA FreshFits ==
    ASSUME NEW t \in Tabs, mine'[t] <= keysMade', 0 <= keysMade', ask'[t] = NoAsk,
           sync'[t] = "idle", at'[t] = "app" <=> mine'[t] # NoKey
    PROVE  TabFits(t)'
BY DEF TabFits, NoAsk, NoKey

\* A tab whose replacement goes on, with the key it has.
LEMMA AskFits ==
    ASSUME SignInAssumption, TypeOK, NEW t \in Tabs, TabFits(t), NEW stage, NEW got,
           ask'[t] = [stage |-> stage, id |-> ask[t].id, got |-> got],
           UNCHANGED <<keyVars, at, mine, sync>>,
           ask[t].stage # "no", stage # "no", got <= keysMade,
           stage \in {"claimed", "told", "saved"} => got # NoKey, stage # "claimed"
    PROVE  TabFits(t)'
BY DEF TabFits, keyVars, FollowsOn, NoAsk

\* What was told before is the account's key, to whoever is let in.
LEMMA ToldIsCurrent ==
    ASSUME SignInAssumption, KeyInv, NEW t \in Tabs, ask[t].stage # "no", Known(mine[t]),
           answers[ask[t].id] \notin {Unasked, Claimed}
    PROVE  answers[ask[t].id] = token /\ token # NoKey
<1>0. TypeOK /\ KeysInOrder /\ TabFits(t)
  BY DEF KeyInv
<1>1. ask[t].id \in Asks
  BY <1>0, Types DEF TabFits
<1>2. answers[ask[t].id] \in Keys /\ answers[ask[t].id] <= keysMade
  BY <1>0, <1>1 DEF TypeOK, KeysInOrder
<1>3. FollowsOn(mine[t], answers[ask[t].id]) /\ mine[t] # NoKey
  BY <1>0, <1>2 DEF TabFits, NoAsk
<1>4. mine[t] \in Nat /\ answers[ask[t].id] \in Nat /\ answers[ask[t].id] # NoKey /\ keysMade \in Nat
  <2>1. mine[t] \in Nat /\ keysMade \in Nat
    BY <1>0, Types
  <2>2. \A key \in Keys : key \in Nat /\ key # NoKey
    BY DEF Keys, NoKey, SignInAssumption
  <2> QED
    BY <1>2, <2>1, <2>2
<1>5. mine[t] # token
  BY <1>0, <1>2, <1>3, <1>4 DEF FollowsOn, KeysInOrder
<1> QED
  BY <1>2, <1>3, <1>4, <1>5 DEF Known, SignsIn, ReplacedLately, FollowsOn

LEMMA KeyKept == SignInAssumption /\ KeyInv /\ [Next]_vars => KeyInv'
<1> SUFFICES ASSUME SignInAssumption, KeyInv, [Next]_vars PROVE KeyInv'
  OBVIOUS
<1>0. TypeOK /\ TypeOK' /\ KeysInOrder /\ (\A t \in Tabs : TabFits(t)) /\ 0 <= keysMade
  BY TypeKept DEF KeyInv, TypeOK, Keys, SignInAssumption
<1> USE DEF keyVars, tabVars
<1>1. ASSUME NEW t \in Tabs, UNCHANGED <<keyVars, stored>>, \A u \in Tabs \ {t} : Same(u),
             ask'[t].id \in {0, ask[t].id} \/ \A u \in Tabs : ask[u].id # ask'[t].id,
             TabFits(t)'
      PROVE  KeyInv'
  <2>1. KeysInOrder' /\ KeyStep /\ \A u \in Tabs : AnswerStands(u)
    BY <1>0, <1>1, OrderStill
  <2> QED
    BY <1>0, <1>1, <2>1, OneTab
<1>2. ASSUME NEW t \in Tabs, Launch(t) PROVE KeyInv'
  <2> DEFINE key == stored[DeviceOf[t]]
  <2>1. /\ at[t] = "closed" /\ UNCHANGED <<keyVars, stored, ask>>
        /\ key # NoKey => Opened(t, key)
        /\ key = NoKey => at' = [at EXCEPT ![t] = "welcome"] /\ UNCHANGED <<mine, answered, sync>>
    BY <1>2 DEF Launch
  <2>2. ask[t] = NoAsk /\ sync[t] = "idle" /\ mine[t] = NoKey
    BY <1>0, <2>1 DEF TabFits
  <2>3. key <= keysMade
    BY <1>0, Types DEF KeysInOrder
  <2> HIDE DEF key
  <2>4. \A u \in Tabs \ {t} : Same(u)
    BY <1>0, <2>1 DEF Opened, Same, TypeOK
  <2>5. /\ mine'[t] \in {NoKey, key} /\ sync'[t] = "idle"
        /\ at'[t] = "app" <=> mine'[t] # NoKey
    BY <1>0, <2>1, <2>2 DEF Opened, TypeOK
  <2>6. TabFits(t)'
    BY <1>0, <2>1, <2>2, <2>3, <2>5, FreshFits DEF NoKey
  <2> QED
    BY <1>1, <2>1, <2>4, <2>6
<1>3. ASSUME NEW t \in Tabs, Close(t) PROVE KeyInv'
  <2>1. /\ at'[t] = "closed" /\ mine'[t] = NoKey /\ sync'[t] = "idle" /\ ask'[t] = NoAsk
        /\ UNCHANGED <<keyVars, stored>> /\ \A u \in Tabs \ {t} : Same(u)
    BY <1>0, <1>3 DEF Close, TypeOK, Same
  <2>2. TabFits(t)' /\ ask'[t].id = 0
    BY <1>0, <2>1, FreshFits DEF NoKey, NoAsk
  <2> QED
    BY <1>1, <2>1, <2>2
<1>4. ASSUME NEW t \in Tabs, NEW key \in Keys, SignInWithKey(t, key) PROVE KeyInv'
  <2>1. /\ at[t] = "welcome" /\ key = token /\ UNCHANGED <<keyVars, ask>> /\ Opened(t, key)
        /\ stored' = [stored EXCEPT ![DeviceOf[t]] = key]
    BY <1>4 DEF SignInWithKey
  <2>2. key # NoKey /\ key <= keysMade
    BY <1>0, <2>1 DEF KeysInOrder, Keys, NoKey, SignInAssumption
  <2>3. ask[t] = NoAsk
    BY <1>0, <2>1 DEF TabFits
  <2>4. /\ at'[t] = "app" /\ mine'[t] = key /\ sync'[t] = "idle"
        /\ \A u \in Tabs \ {t} : Same(u)
    BY <1>0, <2>1 DEF Opened, TypeOK, Same
  <2>5. TabFits(t)'
    BY <1>0, <2>1, <2>2, <2>3, <2>4, FreshFits
  <2>6. KeysInOrder'
    BY <1>0, <2>1, <2>2 DEF KeysInOrder, TypeOK
  <2>7. KeyStep /\ \A u \in Tabs : AnswerStands(u)
    BY <2>1 DEF KeyStep, AnswerStands
  <2> QED
    BY <1>0, <2>1, <2>4, <2>5, <2>6, <2>7, OneTab
<1>5. ASSUME NEW t \in Tabs, SendSync(t) \/ ServeSync(t) \/ SyncLost(t) \/ SyncUsed(t)
      PROVE  KeyInv'
  <2>1. UNCHANGED <<keyVars, stored, at, mine, ask>> /\ \A u \in Tabs \ {t} : Same(u)
    BY <1>0, <1>5 DEF SendSync, ServeSync, SyncLost, SyncUsed, TypeOK, Same
  <2>2. /\ at[t] = "app" \/ sync[t] # "idle"
        /\ sync'[t] = "refused" => mine[t] # token
    BY <1>0, <1>5 DEF SendSync, ServeSync, SyncLost, SyncUsed, TypeOK, SignsIn
  <2>3. TabFits(t)'
    BY <1>0, <2>1, <2>2 DEF TabFits, FollowsOn
  <2> QED
    BY <1>1, <2>1, <2>3
\* The key goes from the device.
<1>6. ASSUME NEW t \in Tabs, SignedOut(t), KeyStep, \A u \in Tabs : AnswerStands(u),
             keysMade' = keysMade, token' \in {NoKey, keysMade}, previous' < keysMade,
             token' = NoKey => previous' = NoKey, \A a \in Asks : answers'[a] <= keysMade
      PROVE  KeyInv'
  <2>1. /\ at'[t] = "welcome" /\ mine'[t] = NoKey /\ sync'[t] = "idle" /\ ask'[t] = NoAsk
        /\ \A u \in Tabs \ {t} : Same(u)
    BY <1>0, <1>6 DEF SignedOut, TypeOK, Same
  <2>2. TabFits(t)' /\ ask'[t].id = 0
    BY <1>0, <1>6, <2>1, FreshFits DEF NoKey, NoAsk
  <2>3. \A d \in Devices : stored'[d] <= keysMade
    BY <1>0, <1>6 DEF SignedOut, TypeOK, KeysInOrder, NoKey
  <2>4. KeysInOrder'
    BY <1>6, <2>3 DEF KeysInOrder
  <2> QED
    BY <1>0, <1>6, <2>1, <2>2, <2>4, OneTab
<1>7. ASSUME NEW t \in Tabs, SyncRefused(t) PROVE KeyInv'
  <2>1. UNCHANGED keyVars /\ sync[t] = "refused"
    BY <1>7 DEF SyncRefused
  <2>2. CASE SignedOut(t)
    BY <1>0, <1>6, <2>1, <2>2 DEF KeysInOrder, KeyStep, AnswerStands
  <2>3. CASE ~SignedOut(t)
    <3>1. /\ UNCHANGED <<stored, at, mine, ask>> /\ sync'[t] \in {"idle", "stopped"}
          /\ \A u \in Tabs \ {t} : Same(u)
      BY <1>0, <1>7, <2>3 DEF SyncRefused, SignedOut, TypeOK, Same
    <3>2. at[t] = "app"
      BY <1>0, <2>1 DEF TabFits
    <3>3. TabFits(t)'
      BY <1>0, <2>1, <3>1, <3>2 DEF TabFits, FollowsOn
    <3> QED
      BY <1>1, <2>1, <3>1, <3>3
  <2> QED
    BY <2>2, <2>3
<1>8. ASSUME NEW t \in Tabs, UNCHANGED <<keyVars, stored, at, mine, answered, sync>>,
             NEW stage \in Stages \ {"no", "claimed"}, NEW got \in 0..MaxKeys,
             ask' = AskAt(t, stage, got), ask[t].stage # "no", got <= keysMade,
             stage \in {"told", "saved"} => got # NoKey
      PROVE  KeyInv'
  <2>1. ask'[t] = [stage |-> stage, id |-> ask[t].id, got |-> got]
        /\ \A u \in Tabs \ {t} : ask'[u] = ask[u]
    BY <1>0, <1>8, AskAtIs
  <2>2. TabFits(t)'
    BY <1>0, <1>8, <2>1, AskFits
  <2>3. ask'[t].id = ask[t].id /\ \A u \in Tabs \ {t} : Same(u)
    BY <1>8, <2>1 DEF Same
  <2> QED
    BY <1>1, <1>8, <2>2, <2>3
<1>9. ASSUME NEW t \in Tabs PROVE ask[t].got \in 0..MaxKeys /\ ask[t].got <= keysMade
  BY <1>0, Types DEF TabFits
<1>10. ASSUME NEW t \in Tabs, AskNew(t) PROVE KeyInv'
  <2>1. UNCHANGED <<keyVars, stored, at, mine, answered, sync>> /\ at[t] = "app"
    BY <1>10 DEF AskNew
  <2>2. CASE ask[t].stage = "failed" /\ ask' = AskAt(t, "sent", ask[t].got)
    BY <1>8, <1>9, <2>1, <2>2 DEF Stages
  <2>3. ASSUME NEW id \in Asks, answers[id] = Unasked, \A u \in Tabs : ask[u].id # id,
               ask' = [ask EXCEPT ![t] = [stage |-> "sent", id |-> id, got |-> NoKey]]
        PROVE  KeyInv'
    <3>1. ask'[t] = [stage |-> "sent", id |-> id, got |-> NoKey] /\ \A u \in Tabs \ {t} : Same(u)
      BY <1>0, <2>1, <2>3 DEF TypeOK, Same
    <3>2. id # 0 /\ Unasked \notin Keys
      BY DEF Asks, Unasked, Keys, SignInAssumption
    <3>3. TabFits(t)'
      BY <1>0, <2>1, <2>3, <3>1, <3>2 DEF TabFits, NoKey
    <3> QED
      BY <1>1, <2>1, <2>3, <3>1, <3>3
  <2> QED
    BY <1>10, <2>2, <2>3 DEF AskNew
<1>11. ASSUME NEW t \in Tabs, LeaveScreen(t) PROVE KeyInv'
  <2>1. /\ ask'[t] = NoAsk /\ UNCHANGED <<keyVars, stored, at, mine, sync>>
        /\ ask[t].stage = "failed" /\ \A u \in Tabs \ {t} : Same(u)
    BY <1>0, <1>11 DEF LeaveScreen, TypeOK, Same
  <2>2. TabFits(t)' /\ ask'[t].id = 0
    BY <1>0, <2>1 DEF TabFits, NoAsk, NoKey
  <2> QED
    BY <1>1, <2>1, <2>2
<1>12. ASSUME NEW t \in Tabs, Answer(t) PROVE KeyInv'
  <2>1. UNCHANGED <<keyVars, stored, at, mine, answered, sync>> /\ ask[t].stage = "sent"
    BY <1>12 DEF Answer
  <2>2. CASE ask' = AskAt(t, "failed", ask[t].got)
    BY <1>8, <1>9, <2>1, <2>2 DEF Stages
  <2>3. CASE /\ Known(mine[t]) /\ answers[ask[t].id] \notin {Unasked, Claimed}
             /\ ask' = AskAt(t, "told", answers[ask[t].id])
    <3>1. answers[ask[t].id] = token /\ token # NoKey
      BY <2>1, <2>3, ToldIsCurrent
    <3>2. token \in 0..MaxKeys /\ token <= keysMade
      BY <1>0 DEF TypeOK, KeysInOrder, NoKey, Keys
    <3> QED
      BY <1>8, <2>1, <2>3, <3>1, <3>2 DEF Stages
  <2> QED
    BY <1>12, <2>2, <2>3 DEF Answer
<1>13. ASSUME NEW t \in Tabs, Replace(t) PROVE KeyInv'
  <2>1. /\ ask[t].stage = "sent" /\ mine[t] = token /\ keysMade < MaxKeys
        /\ keysMade' = keysMade + 1 /\ token' = keysMade + 1 /\ previous' = token
        /\ answers' = [answers EXCEPT ![ask[t].id] = Claimed]
        /\ ask' = AskAt(t, "claimed", keysMade + 1) /\ UNCHANGED <<stored, at, mine, answered, sync>>
    BY <1>13 DEF Replace, MayReplace, SignsIn
  <2>2. /\ mine[t] # NoKey /\ token = keysMade /\ at[t] = "app" /\ ask[t].id # 0
        /\ ask[t].id \in Asks /\ keysMade \in Nat /\ mine[t] \in Nat
    <3>1. ask[t].id # 0 /\ at[t] = "app" /\ mine[t] # NoKey
      BY <1>0, <2>1 DEF TabFits, NoAsk
    <3>2. ask[t].id \in Asks /\ keysMade \in Nat /\ mine[t] \in Nat
      BY <1>0, <3>1, Types
    <3> QED
      BY <1>0, <2>1, <3>1, <3>2 DEF KeysInOrder
  <2>3. keysMade + 1 \in 0..MaxKeys
    BY <2>1, <2>2, <1>0 DEF SignInAssumption
  <2>4. ask'[t] = [stage |-> "claimed", id |-> ask[t].id, got |-> keysMade + 1]
        /\ \A u \in Tabs \ {t} : ask'[u] = ask[u]
    BY <1>0, <2>1, <2>3, AskAtIs DEF Stages
  <2>5. \A a \in Asks : answers'[a] = IF a = ask[t].id THEN Claimed ELSE answers[a]
    BY <1>0, <2>1 DEF TypeOK
  <2>6. KeyStep
    BY <2>1, <2>2 DEF KeyStep
  <2>7. ASSUME NEW u \in Tabs \ {t} PROVE Same(u) /\ AnswerStands(u)
    <3>1. Same(u)
      BY <2>1, <2>4 DEF Same
    <3>2. ask[u].id # 0 => ask[u].id \in Asks /\ ask[u].id # ask[t].id
      BY <1>0, <2>2, Types DEF KeyInv, AsksApart
    <3> QED
      BY <2>5, <3>1, <3>2 DEF AnswerStands
  <2>8. Claimed \notin Keys /\ Claimed <= 0
    BY DEF Claimed, Keys, SignInAssumption
  <2>9. KeysInOrder'
    <3>1. \A a \in Asks : answers'[a] <= keysMade'
      <4>1. \A a \in Asks : answers[a] \in Int
        BY <1>0 DEF TypeOK, Keys, Unasked, Claimed, SignInAssumption
      <4> QED
        BY <1>0, <2>1, <2>2, <2>5, <4>1 DEF KeysInOrder, Claimed
    <3>2. \A d \in Devices : stored'[d] <= keysMade'
      <4>1. \A d \in Devices : stored[d] \in Nat
        BY <1>0 DEF TypeOK, SignInAssumption
      <4> QED
        BY <1>0, <2>1, <2>2, <4>1 DEF KeysInOrder
    <3> QED
      BY <2>1, <2>2, <3>1, <3>2 DEF KeysInOrder, NoKey
  <2>10. TabFits(t)'
    <3>1. mine'[t] = mine[t] /\ mine[t] < keysMade + 1 /\ mine[t] # keysMade + 1
      BY <2>1, <2>2
    <3>2. FollowsOn(mine[t], ask[t].got)'
      BY <2>1, <2>2, <2>4, <3>1 DEF FollowsOn
    <3>3. answers'[ask'[t].id] \notin Keys
      BY <2>2, <2>4, <2>5, <2>8
    <3>4. ask'[t].got # NoKey /\ ask'[t].got <= keysMade' /\ mine'[t] <= keysMade'
      BY <2>1, <2>2, <2>4 DEF NoKey
    <3> QED
      BY <1>0, <2>1, <2>2, <2>4, <3>1, <3>2, <3>3, <3>4 DEF TabFits
  <2>11. ask'[t].id = ask[t].id
    BY <2>4
  <2> QED
    BY <1>0, <2>6, <2>7, <2>9, <2>10, <2>11, OneTab
<1>14. ASSUME NEW t \in Tabs, Store(t) PROVE KeyInv'
  <2>1. /\ ask[t].stage = "claimed" /\ answers' = [answers EXCEPT ![ask[t].id] = ask[t].got]
        /\ ask' = AskAt(t, "told", ask[t].got)
        /\ UNCHANGED <<token, previous, keysMade, stored, at, mine, answered, sync>>
    BY <1>14 DEF Store
  <2>2. /\ ask[t].id # 0 /\ ask[t].id \in Asks /\ ask[t].got # NoKey /\ at[t] = "app"
        /\ FollowsOn(mine[t], ask[t].got)
    <3>1. ask[t].id # 0 /\ ask[t].got # NoKey /\ at[t] = "app" /\ FollowsOn(mine[t], ask[t].got)
      BY <1>0, <2>1 DEF TabFits, NoAsk
    <3>2. ask[t].id \in Asks
      BY <1>0, <3>1, Types
    <3> QED
      BY <3>1, <3>2
  <2>3. ask'[t] = [stage |-> "told", id |-> ask[t].id, got |-> ask[t].got]
        /\ \A u \in Tabs \ {t} : ask'[u] = ask[u]
    BY <1>0, <1>9, <2>1, AskAtIs DEF Stages
  <2>4. \A a \in Asks : answers'[a] = IF a = ask[t].id THEN ask[t].got ELSE answers[a]
    BY <1>0, <2>1 DEF TypeOK
  <2>5. KeyStep
    BY <2>1 DEF KeyStep
  <2>6. ASSUME NEW u \in Tabs \ {t} PROVE Same(u) /\ AnswerStands(u)
    <3>1. Same(u)
      BY <2>1, <2>3 DEF Same
    <3>2. ask[u].id # 0 => ask[u].id \in Asks /\ ask[u].id # ask[t].id
      BY <1>0, <2>2, Types DEF KeyInv, AsksApart
    <3> QED
      BY <2>4, <3>1, <3>2 DEF AnswerStands
  <2>7. KeysInOrder'
    BY <1>0, <1>9, <2>1, <2>4 DEF KeysInOrder
  <2>8. TabFits(t)'
    <3>1. FollowsOn(mine[t], answers[ask[t].id])'
      BY <2>1, <2>2, <2>3, <2>4 DEF FollowsOn
    <3> QED
      BY <1>0, <2>1, <2>2, <2>3, <3>1 DEF TabFits
  <2>9. ask'[t].id = ask[t].id
    BY <2>3
  <2> QED
    BY <1>0, <2>5, <2>6, <2>7, <2>8, <2>9, OneTab
<1>15. ASSUME NEW t \in Tabs, AskLost(t) PROVE KeyInv'
  <2>1. ask[t].stage # "no" /\ ask' = AskAt(t, "failed", NoKey)
        /\ UNCHANGED <<keyVars, stored, at, mine, answered, sync>>
    BY <1>15 DEF AskLost
  <2>2. NoKey \in 0..MaxKeys /\ NoKey <= keysMade
    BY <1>0 DEF NoKey, SignInAssumption
  <2> QED
    BY <1>8, <2>1, <2>2 DEF Stages
<1>16. ASSUME NEW t \in Tabs, SaveKey(t) PROVE KeyInv'
  <2>1. /\ ask[t].stage = "told" /\ stored' = [stored EXCEPT ![DeviceOf[t]] = ask[t].got]
        /\ ask' = AskAt(t, "saved", ask[t].got) /\ UNCHANGED <<keyVars, at, mine, answered, sync>>
    BY <1>16 DEF SaveKey
  <2>2. ask[t].got # NoKey
    BY <1>0, <2>1 DEF TabFits
  <2>3. ask'[t] = [stage |-> "saved", id |-> ask[t].id, got |-> ask[t].got]
        /\ \A u \in Tabs \ {t} : ask'[u] = ask[u]
    BY <1>0, <1>9, <2>1, AskAtIs DEF Stages
  <2>4. TabFits(t)'
    BY <1>0, <1>9, <2>1, <2>2, <2>3, AskFits
  <2>5. KeysInOrder'
    BY <1>0, <1>9, <2>1 DEF KeysInOrder, TypeOK
  <2>6. KeyStep /\ ask'[t].id = ask[t].id /\ \A u \in Tabs \ {t} : Same(u) /\ AnswerStands(u)
    BY <2>1, <2>3 DEF KeyStep, Same, AnswerStands
  <2> QED
    BY <1>0, <2>4, <2>5, <2>6, OneTab
<1>17. ASSUME NEW t \in Tabs, HandOver(t) PROVE KeyInv'
  <2>1. ask[t].stage = "saved" /\ Opened(t, ask[t].got) /\ ask' = [ask EXCEPT ![t] = NoAsk]
        /\ UNCHANGED <<keyVars, stored>>
    BY <1>17 DEF HandOver
  <2>2. ask[t].got # NoKey
    BY <1>0, <2>1 DEF TabFits
  <2>3. /\ at'[t] = "app" /\ mine'[t] = ask[t].got /\ sync'[t] = "idle" /\ ask'[t] = NoAsk
        /\ \A u \in Tabs \ {t} : Same(u)
    BY <1>0, <2>1 DEF Opened, TypeOK, Same
  <2>4. TabFits(t)' /\ ask'[t].id = 0
    BY <1>0, <1>9, <2>1, <2>2, <2>3, FreshFits DEF NoAsk
  <2> QED
    BY <1>1, <2>1, <2>3, <2>4
<1>18. ASSUME NEW t \in Tabs, DeleteAccount(t) PROVE KeyInv'
  <2>1. /\ token' = NoKey /\ previous' = NoKey /\ answers' = [a \in Asks |-> Unasked]
        /\ keysMade' = keysMade
    BY <1>18 DEF DeleteAccount
  <2>2. Unasked \notin Keys /\ Unasked <= keysMade /\ NoKey < keysMade
    BY <1>0 DEF Unasked, Keys, NoKey, TypeOK, SignInAssumption
  <2>3. KeyStep
    BY <2>1 DEF KeyStep
  <2>4. ASSUME NEW u \in Tabs PROVE AnswerStands(u)
    <3>1. ask[u].id # 0 => ask[u].id \in Asks
      BY <1>0, Types
    <3> QED
      BY <2>1, <2>2, <3>1 DEF AnswerStands
  <2>5. \A a \in Asks : answers'[a] <= keysMade
    BY <2>1, <2>2
  <2>6. CASE SignedOut(t)
    BY <1>6, <2>1, <2>2, <2>3, <2>4, <2>5, <2>6
  <2>7. CASE UNCHANGED <<stored, tabVars>>
    <3>1. KeysInOrder' /\ \A u \in Tabs : Same(u)
      BY <1>0, <2>1, <2>2, <2>5, <2>7 DEF KeysInOrder, Same
    <3>2. TabFits(t)' /\ ask'[t].id = ask[t].id
      BY <2>3, <2>4, <2>7, <3>1, FitsStill
    <3> QED
      BY <1>0, <2>3, <2>4, <3>1, <3>2, OneTab
  <2> QED
    BY <1>18, <2>6, <2>7 DEF DeleteAccount, SignedOut
<1>19. CASE PreviousLapses \/ UNCHANGED vars
  <2>1. /\ UNCHANGED <<token, keysMade, answers, stored, at, mine, sync, ask>>
        /\ previous' \in {previous, NoKey}
    BY <1>19 DEF PreviousLapses, vars
  <2>2. KeyStep /\ \A u \in Tabs : Same(u) /\ AnswerStands(u)
    BY <2>1 DEF KeyStep, Same, AnswerStands
  <2>3. \A u \in Tabs : TabFits(u)'
    BY <2>2, FitsStill
  <2>4. KeysInOrder'
    <3>1. NoKey < keysMade
      BY <1>0 DEF NoKey, TypeOK, Keys, SignInAssumption
    <3> QED
      BY <1>0, <2>1, <3>1 DEF KeysInOrder
  <2>5. AsksApart'
    BY <2>1 DEF KeyInv, AsksApart
  <2> QED
    BY <1>0, <2>3, <2>4, <2>5 DEF KeyInv
<1> QED
  BY <1>2, <1>3, <1>4, <1>5, <1>7, <1>10, <1>11, <1>12, <1>13, <1>14, <1>15, <1>16, <1>17, <1>18,
     <1>19 DEF Next

LEMMA InitKeys == SignInAssumption /\ Init => KeyInv
<1> SUFFICES ASSUME SignInAssumption, Init PROVE KeyInv
  OBVIOUS
<1>1. /\ MaxKeys \in Nat \ {0} /\ 1 \in Keys /\ NoKey \in 0..MaxKeys /\ 1 \in 0..MaxKeys
      /\ NoAsk \in [stage : Stages, id : 0..MaxAsks, got : 0..MaxKeys]
  BY DEF SignInAssumption, Keys, NoKey, NoAsk, Stages
<1>2. TypeOK
  BY <1>1 DEF Init, TypeOK, Stages
<1>3. KeysInOrder
  BY DEF Init, KeysInOrder, NoKey, Unasked
<1>4. AsksApart
  BY DEF Init, AsksApart, NoAsk
<1>5. \A t \in Tabs : TabFits(t)
  BY DEF Init, TabFits, NoAsk, NoKey
<1> QED
  BY <1>2, <1>3, <1>4, <1>5 DEF KeyInv

\* Which steps make a key, tell one, or take one off the device.
LEMMA AskSame ==
    ASSUME TypeOK, NEW t \in Tabs, NEW u \in Tabs, NEW stage \in Stages, NEW got \in 0..MaxKeys,
           ask' = AskAt(t, stage, got)
    PROVE  ask'[u].got = IF u = t THEN got ELSE ask[u].got
<1>1. /\ ask'[t] = [stage |-> stage, id |-> ask[t].id, got |-> got]
      /\ \A v \in Tabs \ {t} : ask'[v] = ask[v]
  BY AskAtIs
<1>2. CASE u = t
  BY <1>1, <1>2
<1>3. CASE u # t
  BY <1>1, <1>3
<1> QED
  BY <1>2, <1>3

LEMMA StepsKeepKeys == SignInAssumption /\ KeyInv /\ [Next]_vars =>
    OnlyTheKeyReplaces /\ ReplayIsCurrent /\ LiveKeyIsKept
<1> SUFFICES ASSUME SignInAssumption, KeyInv, [Next]_vars
             PROVE  OnlyTheKeyReplaces /\ ReplayIsCurrent /\ LiveKeyIsKept
  OBVIOUS
<1>0. TypeOK /\ KeysInOrder /\ (\A t \in Tabs : TabFits(t))
  BY DEF KeyInv
<1> USE DEF keyVars, tabVars
<1>1. ASSUME NEW t \in Tabs, Replace(t)
      PROVE  /\ mine[t] = token /\ ask'[t].got = token' /\ stored' = stored
             /\ \A u \in Tabs \ {t} : ask'[u] = ask[u]
  <2>1. /\ mine[t] = token /\ keysMade < MaxKeys /\ token' = keysMade + 1 /\ stored' = stored
        /\ ask' = AskAt(t, "claimed", keysMade + 1)
    BY <1>1 DEF Replace, MayReplace, SignsIn
  <2>2. keysMade + 1 \in 0..MaxKeys
    BY <1>0, <2>1 DEF TypeOK, Keys, SignInAssumption
  <2>3. ask'[t] = [stage |-> "claimed", id |-> ask[t].id, got |-> keysMade + 1]
        /\ \A u \in Tabs \ {t} : ask'[u] = ask[u]
    BY <1>0, <2>1, <2>2, AskAtIs DEF Stages
  <2> QED
    BY <2>1, <2>3
<1>2. ASSUME NEW t \in Tabs, DeleteAccount(t) PROVE token' = NoKey /\ token # NoKey
  <2>1. mine[t] # NoKey /\ mine[t] = token /\ token' = NoKey
    BY <1>0, <1>2 DEF DeleteAccount, SignsIn, TabFits
  <2> QED
    BY <2>1
<1>3. OnlyTheKeyReplaces
  <2> SUFFICES ASSUME token' \notin {token, NoKey}
               PROVE  \E t \in Tabs : mine[t] = token /\ ask'[t].got = token'
    BY DEF OnlyTheKeyReplaces
  <2>1. PICK t \in Tabs : Replace(t)
    BY <1>2 DEF Next, Launch, Close, SignInWithKey, SendSync, ServeSync, SyncLost, SyncUsed,
                SyncRefused, AskNew, LeaveScreen, Answer, Store, AskLost, SaveKey, HandOver,
                PreviousLapses, vars
  <2> QED
    BY <1>1, <2>1
<1>4. ASSUME NEW t \in Tabs, ask'[t].got \notin {ask[t].got, NoKey} PROVE ask'[t].got = token'
  <2>1. ASSUME NEW u \in Tabs, ask' = ask \/ ask' = [ask EXCEPT ![u] = NoAsk] PROVE FALSE
    BY <1>0, <1>4, <2>1 DEF TypeOK, NoAsk
  <2>2. ASSUME NEW u \in Tabs, NEW stage \in Stages, NEW got \in {ask[u].got, NoKey},
               ask' = AskAt(u, stage, got)
        PROVE  FALSE
    <3>1. got \in 0..MaxKeys
      <4>1. ask[u].got \in 0..MaxKeys
        BY <1>0, Types
      <4>2. NoKey \in 0..MaxKeys
        BY DEF NoKey, SignInAssumption
      <4> QED
        BY <2>2, <4>1, <4>2
    <3>2. ask'[t].got = IF t = u THEN got ELSE ask[t].got
      BY <1>0, <2>2, <3>1, AskSame
    <3> QED
      BY <1>4, <2>2, <3>2
  <2>3. ASSUME NEW u \in Tabs, Launch(u) \/ Close(u) \/ (\E key \in Keys : SignInWithKey(u, key))
               \/ SendSync(u) \/ ServeSync(u) \/ SyncLost(u) \/ SyncUsed(u) \/ SyncRefused(u)
               \/ LeaveScreen(u) \/ HandOver(u) \/ DeleteAccount(u)
        PROVE  FALSE
    <3>1. ask' = ask \/ ask' = [ask EXCEPT ![u] = NoAsk]
      BY <2>3 DEF Launch, Close, SignInWithKey, SendSync, ServeSync, SyncLost, SyncUsed,
                  SyncRefused, LeaveScreen, HandOver, DeleteAccount
    <3> QED
      BY <2>1, <3>1
  <2>4. ASSUME NEW u \in Tabs, AskNew(u) PROVE FALSE
    <3>1. CASE ask' = AskAt(u, "sent", ask[u].got)
      BY <2>2, <3>1 DEF Stages
    <3>2. ASSUME NEW id, ask' = [ask EXCEPT ![u] = [stage |-> "sent", id |-> id, got |-> NoKey]]
          PROVE  FALSE
      BY <1>0, <1>4, <3>2 DEF TypeOK
    <3> QED
      BY <2>4, <3>1, <3>2 DEF AskNew
  <2>5. ASSUME NEW u \in Tabs, Store(u) \/ AskLost(u) \/ SaveKey(u) PROVE FALSE
    BY <2>2, <2>5 DEF Store, AskLost, SaveKey, Stages
  <2>6. ASSUME NEW u \in Tabs, Answer(u) PROVE ask'[t].got = token'
    <3>1. ask[u].stage # "no" /\ token' = token
      BY <2>6 DEF Answer
    <3>2. CASE ask' = AskAt(u, "failed", ask[u].got)
      BY <2>2, <3>2 DEF Stages
    <3>3. CASE /\ Known(mine[u]) /\ answers[ask[u].id] \notin {Unasked, Claimed}
               /\ ask' = AskAt(u, "told", answers[ask[u].id])
      <4>1. answers[ask[u].id] = token
        BY <3>1, <3>3, ToldIsCurrent
      <4>2. token \in 0..MaxKeys
        BY <1>0 DEF TypeOK
      <4>3. ask'[t].got = IF t = u THEN token ELSE ask[t].got
        BY <1>0, <3>3, <4>1, <4>2, AskSame DEF Stages
      <4> QED
        BY <1>4, <3>1, <4>3
    <3> QED
      BY <2>6, <3>2, <3>3 DEF Answer
  <2>7. ASSUME NEW u \in Tabs, Replace(u) PROVE ask'[t].got = token'
    BY <1>1, <1>4, <2>7
  <2>8. CASE PreviousLapses \/ UNCHANGED vars
    BY <1>4, <2>8 DEF PreviousLapses, vars
  <2> QED
    BY <2>3, <2>4, <2>5, <2>6, <2>7, <2>8 DEF Next
<1>5. ASSUME NEW d \in Devices, stored[d] # NoKey, stored[d] = token, token' = token
      PROVE  stored'[d] # NoKey
  <2>1. ASSUME stored' = stored PROVE stored'[d] # NoKey
    BY <1>5, <2>1
  <2>2. ASSUME NEW t \in Tabs, SyncRefused(t) PROVE stored'[d] # NoKey
    <3>1. mine[t] # token
      BY <1>0, <2>2 DEF SyncRefused, TabFits
    <3>2. CASE stored' = [stored EXCEPT ![DeviceOf[t]] = NoKey] /\ GoesWith(t)
      <4>1. stored[DeviceOf[t]] # token
        BY <1>5, <3>1, <3>2 DEF GoesWith
      <4> QED
        BY <1>0, <1>5, <3>2, <4>1 DEF TypeOK
    <3> QED
      BY <2>1, <2>2, <3>2 DEF SyncRefused
  <2>3. ASSUME NEW t \in Tabs, NEW key \in Keys, SignInWithKey(t, key) PROVE stored'[d] # NoKey
    <3>1. stored' = [stored EXCEPT ![DeviceOf[t]] = key] /\ key # NoKey
      BY <2>3 DEF SignInWithKey, Keys, NoKey, SignInAssumption
    <3> QED
      BY <1>0, <1>5, <3>1 DEF TypeOK
  <2>4. ASSUME NEW t \in Tabs, SaveKey(t) PROVE stored'[d] # NoKey
    <3>1. stored' = [stored EXCEPT ![DeviceOf[t]] = ask[t].got] /\ ask[t].got # NoKey
      BY <1>0, <2>4 DEF SaveKey, TabFits
    <3> QED
      BY <1>0, <1>5, <3>1 DEF TypeOK
  <2>5. ASSUME NEW t \in Tabs, DeleteAccount(t) PROVE FALSE
    BY <1>2, <1>5, <2>5
  <2> QED
    BY <2>1, <2>2, <2>3, <2>4, <2>5, <1>1
    DEF Next, Launch, Close, SendSync, ServeSync, SyncLost, SyncUsed, AskNew, LeaveScreen, Answer,
        Store, AskLost, HandOver, PreviousLapses, vars
<1> QED
  BY <1>3, <1>4, <1>5 DEF ReplayIsCurrent, LiveKeyIsKept

\* However many tabs, devices, lost answers and replays: only who holds the account's
\* key replaces it, a replay tells the key of now and never an older one, and a device
\* that holds the key of now is not signed out by what an older key is answered
\* (accounts.ts, middleware.ts, AppData.run, AccountGate.signedOut).
THEOREM KeysStayCurrent ==
    ASSUME SignInAssumption
    PROVE  Spec => []TypeOK /\ [][OnlyTheKeyReplaces /\ ReplayIsCurrent /\ LiveKeyIsKept]_vars
<1>1. Init => KeyInv
  BY InitKeys
<1>2. KeyInv /\ [Next]_vars => KeyInv'
  BY KeyKept
<1>3. KeyInv /\ [Next]_vars => [OnlyTheKeyReplaces /\ ReplayIsCurrent /\ LiveKeyIsKept]_vars
  BY StepsKeepKeys
<1>4. KeyInv => TypeOK
  BY DEF KeyInv
<1> QED
  BY <1>1, <1>2, <1>3, <1>4, PTL DEF Spec
=============================================================================
