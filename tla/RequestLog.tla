----------------------------- MODULE RequestLog -----------------------------
(***************************************************************************)
(* The server's own account of what people do: a row for every request     *)
(* that names an account or comes from the app (requestLog). It runs       *)
(* around the handler, so a request is logged when its answer is ready,    *)
(* which may be after others came and went; rows wait for the end of the   *)
(* turn and go into the database together. Deleting the account drops its  *)
(* rows, written and waiting. A public route doesn't look the token up, so *)
(* the log does, and remembers what it named for a minute.                 *)
(*                                                                         *)
(* An account's token is the account; the other tokens are made up.        *)
(***************************************************************************)
EXTENDS Naturals, FiniteSets

CONSTANTS
    Accounts, MadeUp,     \* whose tokens there are, and tokens that are nobody's
    Devices, None,        \* the header of the app, or none
    Remembered,           \* TOKENS_REMEMBERED
    Memory,               \* TOKEN_MEMORY_MS
    MaxRequests, MaxTime  \* bounds

\* Assumed of the constants, wherever they are given values.
RequestLogAssumption ==
    /\ None \notin Accounts \cup MadeUp \cup Devices
    /\ Remembered \in Nat \ {0} /\ {Memory, MaxRequests, MaxTime} \subseteq Nat

Tokens == Accounts \cup MadeUp
Requests == 1..MaxRequests
Routes == {"public", "authed", "deleteMe"}

VARIABLES
    live,               \* the accounts there are
    rows,               \* analytics_events
    came,               \* how many requests have come
    inside,             \* the ones whose handler is running
    named,              \* named: what a token named, and until when
    waiting, scheduled, \* the rows waiting, and the writes set for the end of a turn
    now,
    underWay            \* the requests let in for an account before it was deleted

vars == <<live, rows, came, inside, named, waiting, scheduled, now, underWay>>

Request == [r : Requests, route : Routes, token : Tokens \cup {None}, device : Devices \cup {None},
            user : Accounts \cup {None}]
Row == [r : Requests, user : Accounts \cup {None}, device : Devices \cup {None}]

-----------------------------------------------------------------------------

UserByToken(t) == IF t \in live THEN t ELSE None

\* Made-up tokens are remembered too, so the map is kept small.
NoneNamed == [t \in {} |-> None]
MadeRoom(map) == IF Cardinality(DOMAIN map) >= Remembered THEN NoneNamed ELSE map

Knows(map, t) == t \in DOMAIN map /\ map[t].until > now

\* who: the account auth found, or what the token names, and the map after.
Who(map, q) ==
    IF q.user # None \/ q.token = None THEN [id |-> q.user, map |-> map]
    ELSE IF Knows(map, q.token) THEN [id |-> map[q.token].id, map |-> map]
    ELSE LET id == UserByToken(q.token)
             room == MadeRoom(map) IN
         [id |-> id, map |-> [t \in DOMAIN room \cup {q.token} |->
             IF t = q.token THEN [id |-> id, until |-> now + Memory] ELSE room[t]]]

\* Neither an account nor the app: no row. The first one waiting sets the write.
Push(list, q, user) ==
    IF user = None /\ q.device = None THEN waiting' = list /\ UNCHANGED scheduled
    ELSE /\ waiting' = list \cup {[r |-> q.r, user |-> user, device |-> q.device]}
         /\ scheduled' = IF list = {} THEN scheduled + 1 ELSE scheduled

Log(q) ==
    LET w == Who(named, q) IN Push(waiting, q, w.id) /\ named' = w.map

\* auth: a request for a route of the account's own is turned away at once
\* when its token names nobody, and is a row too.
Arrive ==
    \E route \in Routes, t \in Tokens \cup {None}, d \in Devices \cup {None} :
        LET q == [r |-> came + 1, route |-> route, token |-> t, device |-> d,
                  user |-> IF route = "public" THEN None ELSE UserByToken(t)] IN
        /\ came < MaxRequests /\ came' = came + 1
        /\ IF route # "public" /\ q.user = None THEN Log(q) /\ UNCHANGED inside
           ELSE inside' = inside \cup {q} /\ UNCHANGED <<named, waiting, scheduled>>
        /\ UNCHANGED <<live, rows, now, underWay>>

Answer ==
    \E q \in inside :
        /\ q.route # "deleteMe"
        /\ inside' = inside \ {q} /\ Log(q)
        /\ UNCHANGED <<live, rows, came, now, underWay>>

\* Mutants: rows waiting, or what its token named, are left as they are.
WaitingKept(id) == waiting
NamedKept(id) == named

\* forget
WaitingWithout(id) == {row \in waiting : row.user # id}
NamedWithout(id) == [t \in {t \in DOMAIN named : named[t].id # id} |-> named[t]]

\* deleteUser takes the account's rows with it, and so does the log: the row
\* of the deletion names nobody.
DeleteMe ==
    \E q \in inside :
        /\ q.route = "deleteMe"
        /\ inside' = inside \ {q}
        /\ live' = live \ {q.user}
        /\ rows' = {row \in rows : row.user # q.user}
        /\ underWay' = underWay \cup {p.r : p \in {p \in inside : p.user = q.user}}
        /\ named' = NamedWithout(q.user)
        /\ Push(WaitingWithout(q.user), q, None)
        /\ UNCHANGED <<came, now>>

\* All those waiting go in one commit.
Left == {}

\* A write that fails loses them: a broken table can't cost people their payments.
Write ==
    /\ scheduled > 0 /\ scheduled' = scheduled - 1
    /\ waiting' = Left
    /\ rows' \in {rows, rows \cup (waiting \ Left)}
    /\ UNCHANGED <<live, came, inside, named, now, underWay>>

Tick ==
    /\ now < MaxTime /\ now' = now + 1
    /\ UNCHANGED <<live, rows, came, inside, named, waiting, scheduled, underWay>>

Init ==
    /\ live = Accounts /\ rows = {} /\ came = 0 /\ inside = {} /\ named = NoneNamed
    /\ waiting = {} /\ scheduled = 0 /\ now = 0 /\ underWay = {}

Next == Arrive \/ Answer \/ DeleteMe \/ Write \/ Tick
Spec == Init /\ [][Next]_vars

-----------------------------------------------------------------------------

TypeOK ==
    /\ live \subseteq Accounts /\ rows \subseteq Row /\ came \in 0..MaxRequests
    /\ inside \subseteq Request /\ DOMAIN named \subseteq Tokens
    /\ \A t \in DOMAIN named : named[t] \in [id : Accounts \cup {None}, until : Nat]
    /\ waiting \subseteq Row /\ scheduled \in Nat /\ now \in 0..MaxTime /\ underWay \subseteq Requests

\* Nothing names an account that's been deleted, written or waiting, but a
\* request that was let in before it and answered after. (forget, deleteUser)
DeletedStaysOut ==
    \A row \in rows \cup waiting : row.user \in live \cup {None} \/ row.r \in underWay

\* However many tokens are tried, few are remembered. (TOKENS_REMEMBERED)
FewAreNamed == Cardinality(DOMAIN named) <= Remembered

\* A row that waits has a write coming, whatever was dropped beside it.
\* (waiting.push(row) === 1)
AlwaysWritten == waiting # {} => scheduled > 0

-----------------------------------------------------------------------------
\* What every step keeps.
Inv ==
    /\ TypeOK /\ DeletedStaysOut /\ FewAreNamed /\ AlwaysWritten
    /\ IsFiniteSet(DOMAIN named)
    /\ \A q \in inside :
        /\ q.user \in live \cup {None} \/ q.r \in underWay
        /\ q.route = "deleteMe" => q.user # None
    /\ \A t \in DOMAIN named : named[t].id \in live \cup {None}
=============================================================================
