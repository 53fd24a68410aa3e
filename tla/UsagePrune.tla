----------------------------- MODULE UsagePrune -----------------------------
(***************************************************************************)
(* How the usage records are kept short (pruneAnalytics, on start and      *)
(* daily): requests and what guests did for a month, the rest for a year,  *)
(* by when the server took them. Rows go a chunk at a time, with a turn of *)
(* the event loop between, in which rows come in and installs sign in; the *)
(* installs that were ever signed in are listed once, up front.            *)
(***************************************************************************)
EXTENDS Naturals, FiniteSets

CONSTANTS
    Devices, Guest,    \* the installs, and nobody's account
    User,              \* an account
    RequestDays, GuestDays, AccountDays,
    Chunk,             \* PRUNE_CHUNK
    MaxRows, MaxDays   \* bounds

\* Assumed of the constants, wherever they are given values.
UsagePruneAssumption ==
    /\ Guest # User /\ {RequestDays, GuestDays, AccountDays, MaxRows, MaxDays} \subseteq Nat
    /\ Chunk \in Nat \ {0}

VARIABLES
    rows,              \* analytics_events
    taken, today,      \* how many rows there have been; the day
    pass,              \* the pass under way, 0 for none
    began,             \* the day the prune began
    signedIn,          \* signed_in_devices
    atStart            \* the rows there were when it began

vars == <<rows, taken, today, pass, began, signedIn, atStart>>

Kinds == {"request", "event"}
Row == [id : 1..MaxRows, kind : Kinds, user : {User, Guest}, device : Devices, day : 0..MaxDays]
Passes == 1..3

-----------------------------------------------------------------------------

\* A row comes in: a request's, or an event the app reported.
Take ==
    /\ taken < MaxRows /\ taken' = taken + 1
    /\ \E k \in Kinds, u \in {User, Guest}, d \in Devices :
           rows' = rows \cup {[id |-> taken', kind |-> k, user |-> u, device |-> d, day |-> today]}
    /\ UNCHANGED <<today, pass, began, signedIn, atStart>>

NextDay ==
    /\ today < MaxDays /\ today' = today + 1
    /\ UNCHANGED <<rows, taken, pass, began, signedIn, atStart>>

Older(row, days) == row.day + days < began

\* What someone did before making an account is theirs afterwards.
GuestsOnly(row) == row.user = Guest /\ row.device \notin signedIn

Goes(row, p) ==
    \/ p = 1 /\ row.kind = "request" /\ Older(row, RequestDays)
    \/ p = 2 /\ row.kind = "event" /\ GuestsOnly(row) /\ Older(row, GuestDays)
    \/ p = 3 /\ row.kind = "event" /\ Older(row, AccountDays)

Start ==
    /\ pass = 0 /\ pass' = 1 /\ began' = today
    /\ signedIn' = {row.device : row \in {r \in rows : r.user = User}}
    /\ atStart' = rows
    /\ UNCHANGED <<rows, taken, today>>

\* A chunk that isn't full is the pass's last.
Last(n) == n < Chunk

DropChunk ==
    /\ pass \in Passes
    /\ LET due == {row \in rows : Goes(row, pass)}
           n == IF Cardinality(due) < Chunk THEN Cardinality(due) ELSE Chunk IN
       /\ \E some \in SUBSET due : Cardinality(some) = n /\ rows' = rows \ some
       /\ pass' = IF ~Last(n) THEN pass ELSE (pass + 1) % 4
    /\ UNCHANGED <<taken, today, began, signedIn, atStart>>

\* A stop leaves the rest to the next start; the list goes with the connection.
Stop ==
    /\ pass # 0 /\ pass' = 0 /\ signedIn' = {} /\ atStart' = {}
    /\ UNCHANGED <<rows, taken, today, began>>

Init ==
    /\ rows = {} /\ taken = 0 /\ today = 0 /\ pass = 0 /\ began = 0 /\ signedIn = {} /\ atStart = {}

Next == Take \/ NextDay \/ Start \/ DropChunk \/ Stop
Spec == Init /\ [][Next]_vars

-----------------------------------------------------------------------------

TypeOK ==
    /\ rows \subseteq Row /\ atStart \subseteq Row /\ taken \in 0..MaxRows /\ today \in 0..MaxDays
    /\ pass \in 0..3 /\ began \in 0..MaxDays /\ signedIn \subseteq Devices

\* What an install did before its owner signed in, and since, is kept for the
\* account's time, whenever in the prune it is looked at. (signed_in_devices)
OwnHistoryStays ==
    \A row \in rows \ rows' :
        (row.kind = "event" /\ \E r \in atStart : r.user = User /\ r.device = row.device)
            => row.day + AccountDays < today

\* A prune that ran to its end leaves nothing that was too old when it began.
NothingOldIsLeft ==
    (pass = 3 /\ pass' = 0 /\ atStart' # {}) =>
        \A row \in rows' : \A p \in Passes : ~Goes(row, p)

-----------------------------------------------------------------------------
\* What every step keeps: the passes that are over left nothing of theirs.
Inv ==
    /\ TypeOK /\ IsFiniteSet(rows) /\ began <= today
    /\ \A r \in atStart : r.user = User => r.device \in signedIn
    /\ \A p \in Passes : p < pass => \A row \in rows : ~Goes(row, p)
=============================================================================
