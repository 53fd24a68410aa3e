----------------------------- MODULE GroupReads -----------------------------
(***************************************************************************)
(* What a group's screen shows (GroupDetailScreen) while the app reads the *)
(* server in the background (AppData.sync, for everything or one group),   *)
(* the server answers "unchanged" where it can (routes/sync.ts), and the   *)
(* answers to what is done on the screen itself are laid over the copy     *)
(* (AppData.known) until a sync that started later has them.               *)
(*                                                                         *)
(* A group is how often one part of it was written, and a behaviour is     *)
(* about one part: the switch that simplifies debts, which is on after an  *)
(* odd number, or a card that is answered once (someone asking to join, a  *)
(* payment to confirm, a debt to mark as settled, someone to remove).      *)
(***************************************************************************)
EXTENDS Naturals, FiniteSets, SequencesExt

CONSTANTS
    Here, Elsewhere,   \* the group whose screen this is, and another
    MaxWrites,         \* bound on the writes to the switch
    MaxKnowns          \* bound on the answers waiting for a sync

ASSUME GroupReadsAssumption ==
    Here # Elsewhere /\ MaxWrites \in Nat \ {0} /\ MaxKnowns \in Nat

Groups == {Here, Elsewhere}
Parts == {"switch", "card"}
Scopes == {{Here}, Groups}
Gone == MaxWrites + 1
None == [g \in {} |-> Gone]

VARIABLES
    part,                    \* the part this behaviour writes
    held, mine,              \* the server's groups; the user is in Here
    copy, versions, knowns,  \* server, versions and knowns of AppData
    running, queued,         \* the sync on its way, and the scope of the one after it
    unsure,                  \* groups with an expense of this device on its way
    up, wasHere, answered,   \* the screen; it had the group; NotYetHere's answer
    waits,                   \* which sync NotYetHere waits for
    absent,                  \* the group was gone, or a sync failed, since it asked
    shown, busy,             \* simplifyOn, and what is being asked
    request, stored,         \* where that is, and the server's kept answer to its key
    said                     \* the last answers this device was given

appVars == <<copy, versions, knowns, running, queued>>
screenVars == <<up, wasHere, answered, waits, absent, shown, busy>>
writeVars == <<request, stored, said>>
vars == <<part, held, mine, unsure, appVars, screenVars, writeVars>>

Idle == [scope |-> {}, sent |-> None, back |-> FALSE, answer |-> None]
NoWrite == [to |-> 0, at |-> "none", stamp |-> 0]

-----------------------------------------------------------------------------
(* What the screen is drawn from                                           *)

\* withGroup: a group the user isn't in stays so; of several answers the last stands.
Applied(v) ==
    IF knowns = <<>> \/ v[Here] = Gone THEN v ELSE [v EXCEPT ![Here] = Last(knowns).stamp]
View == IF copy = None THEN None ELSE Applied(copy)
InView == View # None /\ View[Here] # Gone
On == IF InView THEN View[Here] % 2 ELSE 2

\* Whatever is read next is what it is.
ReadAgain(was, choice) == IF On' # was THEN 2 ELSE choice

\* Each redraw: the group is there, or was. What asked for it goes with the screen.
Drawn(choice, answer, waiting) ==
    /\ wasHere' = (up /\ (wasHere \/ InView'))
    /\ shown' = ReadAgain(On, choice)
    /\ answered' = (answer /\ ~InView')
    /\ waits' = IF InView' THEN "none" ELSE waiting

\* What the screen says.
Screen ==
    IF InView THEN "group" ELSE IF wasHere THEN "gone" ELSE IF answered THEN "notThere" ELSE "loading"

-----------------------------------------------------------------------------
(* AppData's syncs                                                         *)

Covers(scope, g) == g \in scope

\* With nothing known yet, the first is for everything.
Start(scope) ==
    LET all == IF copy' = None THEN Groups ELSE scope IN
    running' = [scope |-> all, sent |-> IF copy' = None THEN None ELSE versions'[all],
                back |-> FALSE, answer |-> None]

\* One is on its way at a time; whoever asks meanwhile shares the one after it.
Ask(scope) ==
    IF running = Idle THEN Start(scope) /\ UNCHANGED queued
    ELSE queued' = queued \cup scope /\ UNCHANGED running

WaitsFor == IF running = Idle THEN "running" ELSE "queued"

\* Whether a finished sync says the group isn't there: not one set aside.
Says(used, failed) == used \/ failed

NextWait(used, failed) ==
    CASE waits = "queued" -> "running"
      [] waits = "running" /\ ~Says(used, failed) -> "again"
      [] waits = "running" -> "none"
      [] OTHER -> waits

\* The sync on its way is done: the next starts, and NotYetHere hears.
Finish(used, failed) ==
    /\ IF queued = {} THEN running' = Idle /\ UNCHANGED queued ELSE Start(queued) /\ queued' = {}
    /\ Drawn(shown, answered \/ (waits = "running" /\ Says(used, failed)), NextWait(used, failed))

\* Answers given so far are older than the next sync.
AllBefore(answers) ==
    [i \in DOMAIN answers |-> [stamp |-> answers[i].stamp, during |-> FALSE]]

Snapshot(scope) == [g \in scope |-> IF g = Here /\ ~mine THEN Gone ELSE held[g]]

ServeSync ==
    /\ running # Idle /\ ~running.back
    /\ running' = [running EXCEPT !.back = TRUE, !.answer = Snapshot(running.scope)]
    /\ UNCHANGED <<part, held, mine, unsure, copy, versions, knowns, queued, screenVars, writeVars>>

SyncFails ==
    /\ running # Idle
    /\ knowns' = AllBefore(knowns)
    /\ absent' = TRUE
    /\ UNCHANGED <<part, held, mine, unsure, copy, versions, up, busy, writeVars>>
    /\ Finish(FALSE, TRUE)

\* 304: the copy says it already.
Unchanged == running.sent # None /\ running.answer = running.sent

\* An expense of this device may or may not be in it: it goes again, and
\* its answer brings a sync that can be used.
SetAside ==
    /\ running.back /\ ~Unchanged /\ unsure \cap running.scope # {}
    /\ knowns' = AllBefore(knowns)
    /\ UNCHANGED <<part, held, mine, unsure, copy, versions, up, absent, busy, writeVars>>
    /\ Finish(FALSE, FALSE)

\* mergeGroups
Merge(answer) == [g \in Groups |-> IF g \in DOMAIN answer THEN answer[g] ELSE copy[g]]

\* Mutant: the other scope keeps its version.
OtherVersionsKept(next) == versions

\* After a changed answer the copy is newer than any other version said.
OtherVersions(next) == IF next = copy THEN versions ELSE [s \in Scopes |-> None]

\* Mutant: an answer that was given while the sync was on its way goes too.
StillKnownIfElsewhere(k) == ~Covers(running.scope, Here)

\* A sync that started after it has it.
StillKnown(k) == k.during \/ ~Covers(running.scope, Here)

\* Those at the places given, in their order (filter).
AtPlaces(places) ==
    [n \in 1..Cardinality(places) |->
        knowns[CHOOSE i \in places : Cardinality({j \in places : j <= i}) = n]]

AnswersLeft == AtPlaces({i \in DOMAIN knowns : StillKnown(knowns[i])})

UseAnswer ==
    /\ running.back /\ (Unchanged \/ unsure \cap running.scope = {})
    /\ IF Unchanged THEN UNCHANGED <<copy, versions>>
       ELSE /\ copy' = Merge(running.answer)
            /\ versions' = [OtherVersions(copy') EXCEPT ![running.scope] = running.answer]
    /\ knowns' = AllBefore(AnswersLeft)
    /\ UNCHANGED <<part, held, mine, unsure, up, absent, busy, writeVars>>
    /\ Finish(TRUE, FALSE)

\* keepCurrent: the screen's group, or everything with the list under it.
Poll(scope) ==
    /\ UNCHANGED <<part, held, mine, unsure, copy, versions, knowns, screenVars, writeVars>>
    /\ running = Idle /\ Ask(scope)

\* A launch: from what was kept on the device, with the version of everything.
Hydrate ==
    /\ ~up /\ request = NoWrite
    /\ copy' \in {copy, None}
    /\ versions' = [[s \in Scopes |-> None] EXCEPT ![Groups] = IF copy' = None THEN None ELSE versions[Groups]]
    /\ knowns' = <<>> /\ running' = Idle /\ queued' = {}
    /\ said' = 0
    /\ UNCHANGED <<part, held, mine, unsure, screenVars, request, stored>>

-----------------------------------------------------------------------------
(* The group's screen                                                      *)

\* NotYetHere asks for its group at once, and again a moment after a sync
\* that was set aside.
Open ==
    /\ UNCHANGED <<part, held, mine, unsure, copy, versions, knowns, writeVars>>
    /\ ~up /\ up' = TRUE /\ wasHere' = InView /\ answered' = FALSE
    /\ IF InView THEN Ask({Here}) /\ waits' = "none" ELSE Ask({Here}) /\ waits' = WaitsFor
    /\ absent' = ~mine
    /\ shown' = 2 /\ busy' = FALSE

AskAgain ==
    /\ UNCHANGED <<part, held, mine, unsure, copy, versions, knowns, up, wasHere, shown, busy,
                   writeVars>>
    /\ up /\ (waits = "again" \/ answered)
    /\ Ask({Here}) /\ waits' = WaitsFor /\ answered' = FALSE
    /\ absent' = IF answered THEN ~mine ELSE absent

Leave ==
    /\ up /\ up' = FALSE /\ wasHere' = FALSE /\ answered' = FALSE /\ waits' = "none"
    /\ shown' = 2 /\ busy' = FALSE
    /\ UNCHANGED <<part, held, mine, unsure, appVars, absent, writeVars>>

\* simplify
Switch ==
    /\ part = "switch" /\ up /\ InView /\ ~busy /\ request = NoWrite /\ Len(knowns) < MaxKnowns
    /\ busy' = TRUE
    /\ shown' = 1 - (IF shown = 2 THEN On ELSE shown)
    /\ request' = [to |-> shown', at |-> "out", stamp |-> 0]
    /\ UNCHANGED <<part, held, mine, unsure, appVars, up, wasHere, answered, waits, absent,
                   stored, said>>

Act ==
    /\ part = "card" /\ up /\ InView /\ View[Here] = 0 /\ ~busy /\ request = NoWrite /\ Len(knowns) < MaxKnowns
    /\ busy' = TRUE
    /\ request' = [to |-> 1, at |-> "out", stamp |-> 0]
    /\ UNCHANGED <<part, held, mine, unsure, appVars, up, wasHere, answered, waits, absent,
                   shown, stored, said>>

\* Let in or declined; a payment confirmed, declined or taken back; someone removed.
AnswerJoin == Act
AnswerClaim == Act
RemoveMember == Act

\* Waits until this device's changes are confirmed (held).
MarkSettled == Here \notin unsure /\ Act

\* The server does it, once for its key, or says what it did; a card someone
\* else answered is refused, and a switch that stands so is left.
Serve ==
    /\ request.at = "out"
    /\ LET now == held[Here]
           next == IF part = "card" \/ (now % 2 # request.to /\ now < MaxWrites) THEN now + 1 ELSE now IN
       IF stored > 0
       THEN request' = [request EXCEPT !.at = "answered",
                        !.stamp = stored] /\ UNCHANGED <<held, stored>>
       ELSE IF ~mine \/ (part = "card" /\ now > 0)
       THEN request' = [request EXCEPT !.at = "refused"] /\ UNCHANGED <<held, stored>>
       ELSE /\ held' = [held EXCEPT ![Here] = next] /\ stored' = next
            /\ request' = [request EXCEPT !.at = "answered", !.stamp = next]
    /\ UNCHANGED <<part, mine, unsure, appVars, screenVars, said>>

\* Shown at once, and read again: also when the screen has been left since.
Answered ==
    /\ request.at = "answered" /\ request' = NoWrite
    /\ knowns' = Append(knowns, [stamp |-> request.stamp, during |-> running # Idle])
    /\ said' = request.stamp /\ stored' = 0 /\ busy' = FALSE
    /\ UNCHANGED <<part, held, mine, unsure, copy, versions, up, absent>>
    /\ Ask({Here})
    /\ Drawn(IF busy /\ part = "switch" THEN request.stamp % 2 ELSE shown, answered, waits)

\* Refused, or never answered: asking the same again is with the same key.
NotAnswered ==
    /\ UNCHANGED <<part, held, mine, unsure, copy, versions, knowns, up, wasHere, answered,
                   waits, absent, said>>
    /\ request # NoWrite /\ request' = NoWrite
    /\ busy' = FALSE
    /\ shown' = 2
    /\ stored' = IF busy /\ part = "card" THEN stored ELSE 0
    /\ \/ part = "card" /\ Ask({Here})
       \/ UNCHANGED <<running, queued>>

-----------------------------------------------------------------------------
(* Everyone else                                                           *)

Write(g) ==
    /\ held[g] < (IF part = "card" \/ g # Here THEN 1 ELSE MaxWrites)
    /\ held' = [held EXCEPT ![g] = @ + 1]
    /\ UNCHANGED <<part, mine, unsure, appVars, screenVars, writeVars>>

\* The user leaves on another device, or the group is deleted.
TakenAway ==
    /\ mine /\ mine' = FALSE /\ absent' = TRUE
    /\ UNCHANGED <<part, held, unsure, appVars, up, wasHere, answered, waits, shown, busy,
                   writeVars>>

\* They join it, on this device or another.
Joined ==
    /\ ~mine /\ mine' = TRUE
    /\ UNCHANGED <<part, held, unsure, appVars, screenVars, writeVars>>

\* An expense is added here; its answer is followed by a sync.
Adds(g) ==
    /\ unsure = {} /\ View # None /\ View[g] # Gone
    /\ unsure' = {g}
    /\ UNCHANGED <<part, held, mine, appVars, screenVars, writeVars>>

AddAnswered(g) ==
    /\ UNCHANGED <<part, held, mine, copy, versions, knowns, screenVars, writeVars>>
    /\ g \in unsure /\ unsure' = unsure \ {g}
    /\ Ask({g} \cup {Here})

Init ==
    /\ part \in Parts /\ held = [g \in Groups |-> 0] /\ mine = FALSE
    /\ copy = None /\ versions = [s \in Scopes |-> None] /\ knowns = <<>>
    /\ running = Idle /\ queued = {} /\ unsure = {}
    /\ up = FALSE /\ wasHere = FALSE /\ answered = FALSE /\ waits = "none" /\ absent = FALSE
    /\ shown = 2 /\ busy = FALSE
    /\ request = NoWrite /\ stored = 0 /\ said = 0

Next ==
    \/ ServeSync \/ SyncFails \/ SetAside \/ UseAnswer \/ Hydrate
    \/ Open \/ AskAgain \/ Leave \/ Switch \/ Serve \/ Answered \/ NotAnswered
    \/ AnswerJoin \/ AnswerClaim \/ RemoveMember \/ MarkSettled \/ TakenAway \/ Joined
    \/ \E scope \in Scopes : Poll(scope)
    \/ \E g \in Groups : Adds(g) \/ AddAnswered(g) \/ Write(g)

Spec == Init /\ [][Next]_vars

-----------------------------------------------------------------------------

TypeOK ==
    /\ DOMAIN held = Groups /\ DOMAIN copy \in {{}, Groups}
    /\ DOMAIN versions = Scopes /\ \A s \in Scopes : DOMAIN versions[s] \in {{}, s}
    /\ running.scope \in Scopes \cup {{}} /\ queued \in Scopes \cup {{}}
    /\ waits \in {"none", "running", "queued", "again"} /\ shown \in 0..2
    /\ unsure \subseteq Groups /\ part \in Parts
    /\ \A b \in {up, wasHere, answered, absent, busy, mine} : b \in BOOLEAN

\* A version kept for a scope is that of what the copy says of it: the
\* server's "unchanged" hides no change (versions).
VersionsAreTrue ==
    \A s \in Scopes : versions[s] # None => versions[s] = [g \in s |-> copy[g]]

\* What a write was answered with stays on the screen, whatever syncs were on
\* their way meanwhile, until something later is read (known, run).
AnswerStays ==
    InView => View[Here] >= said

\* With nothing being asked, the switch is as the group was last read or answered.
SwitchIsAsRead ==
    up /\ InView /\ ~busy => shown \in {2, On}

\* The screen says the group doesn't exist only if it wasn't the user's at
\* some moment since it was asked for, or the asking failed (NotYetHere).
NotSaidGone ==
    up /\ Screen = "notThere" => absent

\* Together, what the screen shows is what the user was last told.
ScreenIsTrue == TypeOK /\ AnswerStays /\ SwitchIsAsRead /\ NotSaidGone
=============================================================================
