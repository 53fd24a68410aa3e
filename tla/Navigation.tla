----------------------------- MODULE Navigation -----------------------------
(***************************************************************************)
(* Where the app is and how going back works in a browser: the navigator   *)
(* (DemoApp.tsx), the account it opens with and the link it was opened on  *)
(* (App.tsx), and the browser's history kept in step with both             *)
(* (backNavigation.ts).  A tap and what it renders are one step; going     *)
(* along the history is not, the browser does that when it gets to it.     *)
(***************************************************************************)
EXTENDS Naturals, Integers, Sequences

CONSTANTS
    Screens,    \* the navigator's screens looked at, "groups" and "join" among them
    MaxSheets,  \* bound: sheets and dialogs open at once
    MaxTrips,   \* bound: moves along the history on their way at once
    MaxMoves    \* bound: taps, moves of the browser's buttons and reloads

\* Assumed of the constants, wherever they are given values.
NavigationAssumption ==
    /\ {"groups", "join"} \subseteq Screens
    /\ MaxSheets \in Nat /\ MaxTrips \in Nat /\ MaxMoves \in Nat

VARIABLES
    account,    \* "none", "restoring" or "ready": what AccountGate shows
    joining,    \* App's `joining`: the link on the address, until it is done with
    route, sheets,              \* the navigator's screen, and the sheets open over it
    at, depth, undoing, address,        \* backNavigation.ts
    hist, pos, trips,           \* the browser: entries, the current one, moves on their way
    backs, presses, left, moves

vars == <<account, joining, route, sheets, at, depth, undoing, address, hist, pos, trips,
          backs, presses, left, moves>>
counts == <<backs, presses, left>>

-----------------------------------------------------------------------------
(* The screens                                                             *)

\* Mutant: a screen is as deep as the groups list it was opened from.
DepthOfNone(r) == 0

\* depthOf: how many backs to the groups list.
DepthOf(r) ==
    CASE r \in {"groups", "guest"} -> 0
      [] r \in {"addExpense", "editExpense", "groupSettings", "history", "faq"} -> 2
      [] r = "restore" -> 3
      [] OTHER -> 1

\* What each screen's onBack sets.
Behind(r) ==
    CASE r \in {"addExpense", "editExpense", "groupSettings", "history"} -> "group"
      [] r = "faq" -> "wallet"
      [] r = "restore" -> "groupSettings"
      [] OTHER -> "groups"

Tabs == {"groups", "wallet", "account"}

\* Where a screen's own buttons, and the answers it waits for, lead on.
Ahead(r) ==
    CASE r = "groups" -> {"newGroup", "group", "join"}
      [] r = "newGroup" -> {"group"}
      [] r = "group" -> {"addExpense", "editExpense", "groupSettings", "history", "wallet"}
      [] r \in {"addExpense", "editExpense"} -> {"group"}
      [] r = "groupSettings" -> {"restore", "groups"}
      [] r = "wallet" -> {"faq"}
      [] r = "join" -> {"groups", "group"}
      [] OTHER -> {}

Init ==
    /\ account \in {"none", "ready"} /\ joining \in BOOLEAN
    /\ route = (IF joining THEN "join" ELSE "groups") /\ sheets = 0
    /\ depth = (IF account = "ready" THEN DepthOf(route) ELSE 0)
    /\ at = depth /\ undoing = FALSE /\ address = "as opened"
    /\ pos = 1 + at
    /\ hist = [i \in 1..pos |-> IF joining THEN "link" ELSE "app"]     \* entry i is of depth i - 1
    /\ trips = <<>>
    /\ backs = 0 /\ presses = 0 /\ left = FALSE /\ moves = 0

-----------------------------------------------------------------------------
(* The history                                                             *)

\* One entry for each step in, pushed at the address showing: what was ahead
\* of the current one is gone.
Push(h, p, n) == [i \in 1..(p + n) |-> IF i <= p THEN h[i] ELSE h[p]]

\* reconcile, for the state the browser is in and what the app wants of it.
Reconcile(b, want) ==
    IF b.undoing \/ b.at = want THEN b
    ELSE IF b.at < want
         THEN [b EXCEPT !.hist = Push(@, b.pos, want - b.at), !.pos = @ + want - b.at, !.at = want]
         ELSE [b EXCEPT !.undoing = TRUE, !.at = want, !.trips = Append(@, want - b.at)]

Browser == [at |-> at, undoing |-> undoing, hist |-> hist, pos |-> pos, trips |-> trips]

Becomes(b) ==
    /\ at' = b.at /\ undoing' = b.undoing /\ hist' = b.hist /\ pos' = b.pos /\ trips' = b.trips

\* The sheets' effects run before the navigator's.
Show(b, r, n) ==
    /\ route' = r /\ sheets' = n /\ depth' = DepthOf(r)
    /\ Becomes(Reconcile(Reconcile(b, depth + n), DepthOf(r) + n))

\* onJoinDone: the link is put away, and off the address bar too, at the
\* entry that is current (keepAddress).
Done(b) == [b EXCEPT !.hist[b.pos] = "app"]

\* Off the join screen, whichever way, the link is done with.
Cleared(b) == IF route = "join" THEN Done(b) ELSE b
LeaveJoin ==
    /\ joining' = (joining /\ route # "join")
    /\ address' = (IF route = "join" THEN "app" ELSE address)

\* Bound: nobody taps before the browser has got to the Back they pressed, in
\* a few milliseconds.  It may still have ours to get to.
NoButtonWaits == Len(trips) = IF undoing THEN 1 ELSE 0
Tap ==
    /\ account = "ready" /\ ~left /\ NoButtonWaits
    /\ moves < MaxMoves /\ moves' = moves + 1

\* A button of the screen or of the sheet over it, or an answer they waited for.
GoOn(r) ==
    /\ Tap /\ r \in Ahead(route) \cap Screens
    /\ LeaveJoin /\ Show(Cleared(Browser), r, 0)
    /\ UNCHANGED <<account, counts>>

\* A tab is a way off the join screen too.
TabOff == LeaveJoin

\* DemoBar: onNavigate.
GoTab(r) ==
    /\ Tap /\ sheets = 0 /\ r \in Tabs \cap Screens
    /\ TabOff /\ Show(Cleared(Browser), r, 0)
    /\ UNCHANGED <<account, counts>>

\* The arrow at the top of the screen.
Arrow ==
    /\ Tap /\ sheets = 0 /\ DepthOf(route) > 0
    /\ LeaveJoin /\ Show(Cleared(Browser), Behind(route), 0)
    /\ UNCHANGED <<account, counts>>

OpenSheet ==
    /\ Tap /\ sheets < MaxSheets /\ Show(Browser, route, sheets + 1)
    /\ UNCHANGED <<account, joining, address, counts>>

CloseSheet ==
    /\ Tap /\ sheets > 0 /\ Show(Browser, route, sheets - 1)
    /\ UNCHANGED <<account, joining, address, counts>>

-----------------------------------------------------------------------------
(* The browser's own buttons                                               *)

\* Someone presses Back or Forward; the browser gets to it in its turn.
\* Bound: Forward is not pressed while another move is on its way.
Button(d) ==
    /\ ~left /\ moves < MaxMoves /\ moves' = moves + 1 /\ Len(trips) < MaxTrips
    /\ d > 0 => trips = <<>>
    /\ trips' = Append(trips, d) /\ backs' = backs + (IF d < 0 THEN 1 ELSE 0)
    /\ UNCHANGED <<account, joining, route, sheets, at, depth, undoing, address, hist, pos,
                   presses, left>>

To == pos + Head(trips)

\* Off the first entry the page is left; there is nothing past the last.
OffTheEnd ==
    /\ ~left /\ trips # <<>> /\ To \notin DOMAIN hist
    /\ left' = (To < 1) /\ trips' = Tail(trips)
    /\ UNCHANGED <<account, joining, route, sheets, at, depth, undoing, address, hist, pos,
                   backs, presses, moves>>

There == [Browser EXCEPT !.pos = To, !.trips = Tail(@)]

\* popstate while a step back of our own is on its way.
IsUndo == undoing

\* That step: the entry is brought to the address asked for.
Undone ==
    /\ ~left /\ trips # <<>> /\ To \in DOMAIN hist /\ IsUndo
    /\ LET b == [There EXCEPT !.undoing = FALSE, !.at = To - 1,
                              !.hist[To] = IF address = "app" THEN "app" ELSE @]
       IN Becomes(Reconcile(b, depth + sheets))
    /\ UNCHANGED <<account, joining, route, sheets, depth, address, counts, moves>>

\* press: the newest sheet, else the newest screen.
Press(b) ==
    IF sheets > 0 THEN Show(b, route, sheets - 1) /\ UNCHANGED <<joining, address>>
    ELSE IF account = "ready" /\ DepthOf(route) > 0
         THEN LeaveJoin /\ Show(Cleared(b), Behind(route), 0)
         ELSE Becomes(b) /\ UNCHANGED <<joining, route, sheets, depth, address>>

\* popstate on a step back that was somebody's: one press.
SteppedBack ==
    /\ ~left /\ trips # <<>> /\ To \in DOMAIN hist /\ ~IsUndo /\ To - 1 < at
    /\ Press([There EXCEPT !.at = To - 1]) /\ presses' = presses + 1
    /\ UNCHANGED <<account, backs, left, moves>>

\* Forward there is nowhere to go: that is put back.
SteppedOn ==
    /\ ~left /\ trips # <<>> /\ To \in DOMAIN hist /\ ~IsUndo /\ To - 1 >= at
    /\ Becomes(Reconcile([There EXCEPT !.at = To - 1], depth + sheets))
    /\ UNCHANGED <<account, joining, route, sheets, depth, address, counts, moves>>

-----------------------------------------------------------------------------
(* The account, and starting over                                          *)

\* Welcome has made or opened an account, or joining with the link has, and
\* is done with it.  The app opens on the groups.
Ready ==
    /\ account = "none" /\ ~left
    /\ account' = "ready" /\ joining' = FALSE /\ address' = (IF joining THEN "app" ELSE address)
    /\ Show(IF joining THEN Done(Browser) ELSE Browser, "groups", 0)
    /\ UNCHANGED <<counts, moves>>

\* "Start without it": the link is put away, and Welcome is next.
Skip ==
    /\ account = "none" /\ ~left /\ joining
    /\ joining' = FALSE /\ address' = "app" /\ Becomes(Done(Browser))
    /\ UNCHANGED <<account, route, sheets, depth, counts, moves>>

\* Read back from a backup key, with no account, and out again.
Restore ==
    /\ account \in {"none", "restoring"} /\ ~left /\ ~joining
    /\ account' = (IF account = "none" THEN "restoring" ELSE "none")
    /\ UNCHANGED <<joining, route, sheets, at, depth, undoing, address, hist, pos, trips, counts,
                   moves>>

\* Deleted, or no longer signed in: the navigator goes, and what it last said
\* of its depth stays.
SignedOut ==
    /\ account = "ready" /\ ~left /\ sheets' = 0 /\ account' = "none"
    /\ Becomes(Reconcile(Browser, depth))
    /\ route' = "groups" /\ UNCHANGED <<joining, depth, address, counts, moves>>

\* The page read again at the entry it was on: the app starts over, and walks
\* the history back.
Reload ==
    /\ ~left /\ trips = <<>> /\ moves < MaxMoves /\ moves' = moves + 1
    /\ joining' = (hist[pos] = "link") /\ address' = "as opened"
    /\ route' = (IF joining' THEN "join" ELSE "groups") /\ sheets' = 0
    /\ account' = (IF account = "restoring" THEN "none" ELSE account)
    /\ depth' = (IF account = "ready" THEN DepthOf(route') ELSE 0)
    /\ LET b == [Browser EXCEPT !.at = pos - 1, !.undoing = FALSE]
       IN Becomes(IF account = "ready" THEN Reconcile(b, depth') ELSE b)
    /\ UNCHANGED counts

Next ==
    \/ \E r \in Screens : GoOn(r) \/ GoTab(r)
    \/ Arrow \/ OpenSheet \/ CloseSheet
    \/ \E d \in {-1, 1} : Button(d)
    \/ OffTheEnd \/ Undone \/ SteppedBack \/ SteppedOn
    \/ Ready \/ Skip \/ Restore \/ SignedOut \/ Reload

Spec == Init /\ [][Next]_vars

-----------------------------------------------------------------------------
TypeOK ==
    /\ account \in {"none", "restoring", "ready"} /\ joining \in BOOLEAN
    /\ route \in Screens /\ sheets \in 0..MaxSheets
    /\ at \in Nat /\ depth \in 0..3 /\ undoing \in BOOLEAN /\ address \in {"as opened", "app"}
    /\ hist \in Seq({"link", "app"}) /\ pos \in DOMAIN hist /\ trips \in Seq(Int)
    /\ backs \in Nat /\ presses \in Nat /\ left \in BOOLEAN /\ moves \in 0..MaxMoves

\* With nothing on its way, the history is as deep as what is showing: the next
\* Back closes what is newest, and one press of it leaves from the start.
InStep ==
    account = "ready" /\ trips = <<>> /\ ~left
        => ~undoing /\ at = DepthOf(route) + sheets /\ pos = at + 1

\* Back closes one thing for each press of it, never one for a step back the
\* app took itself, and never two.
OnePressEach == presses <= backs

\* The browser's Back leaves the app from its start only, with nothing open.
LeavesFromStart == left => sheets = 0 /\ (account # "ready" \/ route \in {"groups", "guest"})

\* A link that was opened is what is showing until it is done with: one left
\* set would do nothing when tapped again.
LinkIsShown == account = "ready" => (joining => route = "join")
=============================================================================
