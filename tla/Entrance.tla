------------------------------ MODULE Entrance ------------------------------
(***************************************************************************)
(* The way into the app (App.tsx): the first-launch tour, the device's     *)
(* account or making one (AccountGate, WelcomeScreen), and the link that   *)
(* brought someone here, which waits for all of that. On a phone a link    *)
(* can be tapped at any moment, to join a group or to see it; in a browser *)
(* a join link is the page's address, and a reload opens it again.         *)
(***************************************************************************)
EXTENDS Naturals, FiniteSets

CONSTANTS
    Links, None,     \* the groups' link tokens, and no link
    WhileMaking,     \* whether a link is tapped while an account is being made
    MaxMade, MaxTaps, MaxLaunches   \* bounds

\* Assumed of the constants, wherever they are given values.
EntranceAssumption ==
    /\ None \notin Links /\ WhileMaking \in BOOLEAN
    /\ {MaxMade, MaxTaps, MaxLaunches} \subseteq Nat

VARIABLES
    web,                \* whether this is the page in a browser
    joining, shared,    \* Root: the link to join with, the group's page to show
    address,            \* the browser's: the join link it is, or none
    toured, step,       \* Root: whether the tour is over; its screen
    keptTour,           \* tourStore
    account, at,        \* AccountGate: its kind, and the account that's open
    token,              \* tokenStore: the account this device is signed in to, or 0
    making,             \* the accounts being made, and by which screen
    made,               \* the server's accounts
    route,              \* DemoApp: the link its screen is for
    looks,              \* SharedGroup: the links it asked about, and awaits the answer for
    wanted,             \* the link this person opened last and hasn't finished with
    taps, launches

linkVars == <<joining, shared, address>>
tourVars == <<toured, step, keptTour>>
accountVars == <<account, at, token, making, made>>
appVars == <<route, looks>>
boundVars == <<taps, launches>>
vars == <<web, linkVars, tourVars, accountVars, appVars, wanted, boundVars>>

Last == 2
Kinds == {"loading", "none", "restoring", "ready"}
Ways == {"welcome", "join"}
On(page, l) == [page |-> page, link |-> l]
NoRoute == On("app", None)

\* The screen there is, of the account's gate.
Screen ==
    CASE toured = "asking" -> "starting"
      [] toured = "no" -> "tour"
      [] account = "loading" -> "starting"
      [] account = "none" /\ joining # None -> "join"
      [] account = "none" /\ shared # None -> "guest"
      [] account = "none" -> "welcome"
      [] OTHER -> account

-----------------------------------------------------------------------------
(* Links                                                                   *)

\* The link that opened the app, or one tapped while it was open.
Takes(page, l) ==
    /\ joining' = IF page = "join" THEN l ELSE None
    /\ shared' = IF page = "join" THEN None ELSE l

\* The app opens on the link there is, and goes to one that's another than before.
Routed ==
    /\ route' = CASE account' # "ready" -> NoRoute
                  [] joining' # None /\ (joining' # joining \/ account # "ready") -> On("join", joining')
                  [] shared' # None /\ (shared' # shared \/ account # "ready") -> On("shared", shared')
                  [] account # "ready" -> NoRoute
                  [] OTHER -> route
    /\ looks' = IF route'.page = "shared" /\ route' # route THEN looks \cup {route'.link} ELSE looks

Tap ==
    /\ ~web /\ taps < MaxTaps /\ taps' = taps + 1
    /\ making = {} \/ WhileMaking
    /\ UNCHANGED <<web, address, tourVars, accountVars, launches>>
    /\ \E page \in {"join", "group"}, l \in Links : Takes(page, l) /\ wanted' = l
    /\ Routed

\* keepAddress: off the address bar too.
Used == None

\* joinDone: joined, asked, or "Start without it".
JoinDone == joining' = None /\ address' = Used /\ wanted' = None /\ UNCHANGED shared
SharedDone == shared' = None /\ wanted' = None /\ UNCHANGED <<joining, address>>

\* Join on the group's page.
OnToJoining == joining' = shared /\ shared' = None /\ UNCHANGED <<address, wanted>>

-----------------------------------------------------------------------------
(* The tour                                                                *)

\* If the device can't say, show it.
ReadToured ==
    /\ toured = "asking"
    /\ toured' \in {IF keptTour THEN "yes" ELSE "no", "no"}
    /\ UNCHANGED <<web, linkVars, step, keptTour, accountVars, appVars, wanted, boundVars>>

Turn ==
    /\ Screen = "tour"
    /\ \/ step < Last /\ step' = step + 1
       \/ step > 0 /\ step' = step - 1
    /\ UNCHANGED <<web, linkVars, toured, keptTour, accountVars, appVars, wanted, boundVars>>

\* Skip, or Continue on the last: kept, if it can be.
EndTour ==
    /\ Screen = "tour"
    /\ toured' = "yes" /\ step' = 0 /\ keptTour' \in {keptTour, TRUE}
    /\ UNCHANGED <<web, linkVars, accountVars, appVars, wanted, boundVars>>

-----------------------------------------------------------------------------
(* The account                                                             *)

\* Straight in with what this device is signed in to.
Launch ==
    /\ toured = "yes" /\ account = "loading"
    /\ account' = (IF token = 0 THEN "none" ELSE "ready") /\ at' = token
    /\ UNCHANGED <<web, linkVars, tourVars, token, making, made, wanted, boundVars>>
    /\ Routed

\* Busy until it's answered.
MaySubmit(by) == \A m \in making : m.by # by

\* Get started, or a name picked on the join screen (JoinFlow).
Submit ==
    /\ Screen \in Ways /\ MaySubmit(Screen) /\ made + Cardinality(making) < MaxMade
    /\ making' = making \cup {[by |-> Screen, n |-> Cardinality(making) + 1, acc |-> 0]}
    /\ UNCHANGED <<web, linkVars, tourVars, account, at, token, made, appVars, wanted, boundVars>>

CreateAccount ==
    /\ \E m \in making :
           /\ m.acc = 0 /\ made' = made + 1
           /\ making' = (making \ {m}) \cup {[m EXCEPT !.acc = made']}
    /\ UNCHANGED <<web, linkVars, tourVars, account, at, token, appVars, wanted, boundVars>>

\* The request, or its answer with the account's only token, is lost.
SubmitFails ==
    /\ \E m \in making : making' = making \ {m}
    /\ UNCHANGED <<web, linkVars, tourVars, account, at, token, made, appVars, wanted, boundVars>>

\* writeToken and onReady, one after the other (a bound), whether or not the
\* screen that asked is still there.
Created ==
    \E m \in making :
        /\ m.acc # 0 /\ making' = making \ {m}
        /\ token' = m.acc /\ account' = "ready" /\ at' = m.acc
        /\ IF m.by = "join" THEN JoinDone ELSE UNCHANGED <<linkVars, wanted>>
        /\ UNCHANGED <<web, tourVars, made, boundVars>>
        /\ Routed

\* A key from another device, or a linked Nostr key (SignIn, NostrSignIn).
SignsIn ==
    /\ Screen = "welcome" /\ making = {} /\ made < MaxMade
    /\ made' = made + 1 /\ token' = made' /\ account' = "ready" /\ at' = made'
    /\ UNCHANGED <<web, linkVars, tourVars, making, wanted, boundVars>>
    /\ Routed

\* "Start without it" on the join screen; Back and Join on the group's page.
LeaveLink ==
    /\ \/ Screen = "join" /\ MaySubmit("join") /\ JoinDone
       \/ Screen = "guest" /\ (SharedDone \/ OnToJoining)
    /\ UNCHANGED <<web, tourVars, accountVars, appVars, boundVars>>

Restore ==
    /\ Screen \in {"welcome", "restoring"}
    /\ account' = IF Screen = "welcome" THEN "restoring" ELSE "none"
    /\ UNCHANGED <<web, linkVars, tourVars, at, token, making, made, wanted, boundVars>>
    /\ Routed

\* Deleted, or the server no longer knows the token (signedOut). A link that
\* only the app's own screen held goes with it.
AccountGone ==
    /\ account = "ready"
    /\ account' = "none" /\ at' = 0 /\ token' = IF token = at THEN 0 ELSE token
    /\ wanted' = IF wanted \in {joining, shared} THEN wanted ELSE None
    /\ UNCHANGED <<web, linkVars, tourVars, making, made, boundVars>>
    /\ Routed

-----------------------------------------------------------------------------
(* The app                                                                 *)

\* Joined, asked, or left by Back or a tab (JoinFlow, Navigation).
\* Join on the group's page goes on to the join screen by itself.
InAppDone ==
    /\ \/ route.page = "join" /\ JoinDone /\ route' = NoRoute
       \/ route.page = "shared" /\ SharedDone /\ route' = NoRoute
       \/ /\ route.page = "shared" /\ route' = On("join", route.link)
          /\ shared' = None /\ UNCHANGED <<joining, address, wanted>>
    /\ UNCHANGED <<web, tourVars, accountVars, looks, boundVars>>

\* live: the answer for the link that's on the screen.
ForThis(l) == route = On("shared", l)

\* SharedGroup: someone in the group gets the group. Anyone else, or if it
\* can't be told, the page.
Looked ==
    \E l \in looks :
        /\ \/ /\ ForThis(l)
              /\ shared' = None /\ wanted' = (IF wanted = l THEN None ELSE wanted)
              /\ route' = NoRoute /\ UNCHANGED <<joining, address>>
           \/ UNCHANGED <<linkVars, route, wanted>>
        /\ looks' = looks \ {l}
        /\ UNCHANGED <<web, tourVars, accountVars, boundVars>>

\* Closed and opened again: a browser opens on its address, a phone on the
\* link that was tapped to open it, if one was.
Relaunch ==
    /\ launches < MaxLaunches /\ launches' = launches + 1
    /\ joining' = address /\ shared' = None
    /\ wanted' = address
    /\ toured' = "asking" /\ step' = 0
    /\ account' = "loading" /\ at' = 0 /\ making' = {}
    /\ route' = NoRoute /\ looks' = {}
    /\ UNCHANGED <<web, address, keptTour, token, made, taps>>

Init ==
    /\ web \in BOOLEAN
    /\ address \in (IF web THEN Links \cup {None} ELSE {None})
    /\ joining = address /\ shared = None /\ wanted = address
    /\ toured = "asking" /\ step = 0 /\ keptTour = FALSE
    /\ account = "loading" /\ at = 0 /\ token = 0 /\ making = {} /\ made = 0
    /\ route = NoRoute /\ looks = {}
    /\ taps = 0 /\ launches = 0

Next ==
    \/ Tap \/ ReadToured \/ Turn \/ EndTour
    \/ Launch \/ Submit \/ CreateAccount \/ SubmitFails \/ Created \/ SignsIn
    \/ LeaveLink \/ Restore \/ AccountGone \/ InAppDone \/ Looked \/ Relaunch

Spec == Init /\ [][Next]_vars

-----------------------------------------------------------------------------

Places == [page : {"app", "join", "shared"}, link : Links \cup {None}]
TypeOK ==
    /\ web \in BOOLEAN /\ {joining, shared, address, wanted} \subseteq Links \cup {None}
    /\ toured \in {"asking", "no", "yes"} /\ step \in 0..Last /\ keptTour \in BOOLEAN
    /\ account \in Kinds /\ {at, token, made} \subseteq 0..MaxMade
    /\ making \subseteq [by : Ways, n : 1..MaxMade, acc : 0..MaxMade]
    /\ route \in Places /\ looks \subseteq Links

\* A link someone opened waits through the tour, signing in and out and
\* restoring, until they've joined, left it, seen its group, or opened another.
\* (Root, SharedGroup)
LinkWaits == wanted # None => wanted \in {joining, shared, route.link}

\* There's one link at a time: the newest, never another behind it.
OneLink == joining = None \/ shared = None

\* In a browser a reload opens a join link again until it's been used, and
\* not after. (joinDone, keepAddress)
AddressIsLink == web => address = joining

\* The app never goes from one account straight to another: each that was
\* opened here stays until it's deleted or its key is gone. (NewAccount: busy)
NoneAbandoned == (account = "ready" /\ account' = "ready") => at' = at
=============================================================================
