--------------------------- MODULE GroupSettings ---------------------------
(***************************************************************************)
(* The screen a group is managed from (GroupSettingsScreen): its one link, *)
(* which is replaced or turned off here, the switches for simplifying its   *)
(* debts and for letting people in, and leaving or deleting it. Each is asked twice (ConfirmButton), *)
(* may lose its answer, and is retried under the same key (ActionKeys)     *)
(* while the screen is open.                                               *)
(*                                                                         *)
(* The screen opens on the link that was last read or answered (useAsync,  *)
(* AppData.remember), and reads it again behind that. Links are numbered   *)
(* as the server makes them; 0 is none. A behaviour is about one part.     *)
(***************************************************************************)
EXTENDS Naturals, FiniteSets

CONSTANTS
    MaxMade,       \* bound on the links made
    MaxVisits,     \* bound on how often the screen is opened
    MaxLost        \* bound on the lost requests and answers

\* Assumed of the constants, wherever they are given values.
GroupSettingsAssumption == {MaxMade, MaxVisits, MaxLost} \subseteq Nat

Switches == {"simplify", "approve"}
Parts == {"link", "exit"} \cup Switches
Links == 0..MaxMade
Visits == 1..MaxVisits
Unread == MaxMade + 1

\* The buttons of each part. A switch is asked once.
Buttons ==
    [link |-> {"replace", "remove"}, exit |-> {"leave", "delete"}, simplify |-> {"simplify"},
     approve |-> {"approve"}]
AllButtons == UNION {Buttons[p] : p \in Parts}

VARIABLES
    part,
    link, made,           \* the server: the group's link, and how many there have been
    group,                \* what else the server knows of the group
    done,                 \* the keys it keeps answers under
    view,                 \* AppData's copy of the group
    kept,                 \* the link as AppData remembers it
    reads,                \* the reads of it on their way
    visit, open,          \* the screen
    shown, changedHere,   \* GroupLinkSection
    on,                   \* the switch
    state, said,          \* the buttons, and those that say they were refused
    request,              \* what each asked for
    told,                 \* the last answer to this screen
    lost

serverVars == <<link, made, group, done>>
screenVars == <<visit, open, shown, changedHere, on, state, said>>
vars == <<part, serverVars, view, kept, reads, screenVars, request, told, lost>>

Gone == [isIn |-> FALSE, money |-> "settled", others |-> FALSE, set |-> FALSE]
Groups == [isIn : {TRUE}, money : {"settled", "owed", "paying"}, others : BOOLEAN, set : BOOLEAN]
              \cup {Gone}
NoRequest == [at |-> "none", of |-> 0, old |-> 0, answer |-> 0]
NoRead == [at |-> "none", answer |-> 0]
Refused == MaxMade + 2

-----------------------------------------------------------------------------
(* What the device remembers of the link                                   *)

Kept(n) == kept' = n

\* The server makes a link; the one before it stops working.
Make == made < MaxMade /\ made' = made + 1 /\ link' = made'

\* A read moves the link that's shown until it's been changed here.
Moves(v) == open /\ v = visit /\ ~changedHere

\* useAsync: on mount, and again for the button that retries.
ReadSent(v) == reads' = [reads EXCEPT ![v] = [NoRead EXCEPT !.at = "sent"]]

ReadServed ==
    \E v \in Visits :
        /\ reads[v].at = "sent"
        /\ reads' = [reads EXCEPT ![v] = [at |-> "served", answer |-> link]]
        /\ UNCHANGED <<part, serverVars, view, kept, screenVars, request, told, lost>>

\* The answer is remembered, even when the screen has gone.
ReadAnswered ==
    \E v \in Visits :
        /\ reads[v].at = "served"
        /\ Kept(reads[v].answer)
        /\ shown' = IF Moves(v) THEN reads[v].answer ELSE shown
        /\ reads' = [reads EXCEPT ![v] = NoRead]
        /\ UNCHANGED <<part, serverVars, view, visit, open, changedHere, on, state, said,
                       request, told, lost>>

\* What was kept stays on the screen.
ReadFails ==
    /\ lost < MaxLost /\ lost' = lost + 1
    /\ \E v \in Visits : reads[v].at # "none" /\ reads' = [reads EXCEPT ![v] = NoRead]
    /\ UNCHANGED <<part, serverVars, view, kept, screenVars, request, told>>

ReadAgain ==
    /\ open /\ shown = Unread /\ reads[visit] = NoRead
    /\ ReadSent(visit)
    /\ UNCHANGED <<part, serverVars, view, kept, screenVars, request, told, lost>>

\* Add people, on the group's screen: the link there is, or one made now
\* (groupLinkToShare; looking, making and the answer are one step, a bound).
Share ==
    /\ part = "link" /\ ~open
    /\ IF link # 0 THEN UNCHANGED <<link, made>> ELSE Make
    /\ Kept(link')
    /\ UNCHANGED <<part, group, done, view, reads, screenVars, request, told, lost>>

-----------------------------------------------------------------------------
(* The screen                                                              *)

AllIdle == [b \in AllButtons |-> "idle"]

\* Opens on what was kept, and reads behind it. A new screen has new keys:
\* the old ones matter only to what is still on its way.
Open ==
    /\ ~open /\ visit < MaxVisits /\ view.isIn
    /\ open' = TRUE /\ visit' = visit + 1
    /\ shown' = kept /\ changedHere' = FALSE
    /\ on' = view.set /\ state' = AllIdle /\ said' = {}
    /\ IF part = "link" THEN ReadSent(visit') ELSE UNCHANGED reads
    /\ done' = {d \in done : request[d.key.b].at = "sent"}
    /\ told' = Unread
    /\ UNCHANGED <<part, link, made, group, view, kept, request, lost>>

Closed ==
    /\ shown' = Unread /\ changedHere' = FALSE /\ on' = TRUE
    /\ state' = AllIdle /\ said' = {} /\ told' = Unread

Leave ==
    /\ open /\ open' = FALSE /\ Closed
    /\ UNCHANGED <<part, serverVars, view, kept, reads, visit, request, lost>>

\* What each button is drawn on.
Offered(b) ==
    CASE b \in {"replace", "remove"} -> shown \notin {0, Unread}
      [] b = "simplify" -> view.isIn /\ view.money # "paying"
      [] b = "approve" -> view.isIn
      [] b = "leave" -> view.isIn /\ view.others
      [] b = "delete" -> view.isIn /\ view.money = "settled"

\* The first tap asks; Cancel takes it back. A button that's gone forgets it.
Press(b) ==
    /\ open /\ Offered(b) /\ b \notin Switches /\ state[b] \in {"idle", "confirming"}
    /\ state' = [state EXCEPT ![b] = IF @ = "idle" THEN "confirming" ELSE "idle"]
    /\ UNCHANGED <<part, serverVars, view, kept, reads, visit, open, shown, changedHere, on, said,
                   request, told, lost>>

\* The second does it, on the link that's drawn by then. A request a closed
\* screen left behind is over first (a bound).
Confirm(b) ==
    /\ open /\ Offered(b) /\ request[b] = NoRequest
    /\ state[b] = IF b \in Switches THEN "idle" ELSE "confirming"
    /\ state' = [state EXCEPT ![b] = "busy"]
    /\ said' = said \ {b}
    /\ request' = [request EXCEPT ![b] = [at |-> "sent", of |-> visit, answer |-> 0,
           old |-> CASE part = "link" -> shown [] b \in Switches -> IF on THEN 0 ELSE 1 [] OTHER -> 0]]
    /\ UNCHANGED <<part, serverVars, view, kept, reads, visit, open, shown, changedHere, on,
                   told, lost>>

-----------------------------------------------------------------------------
(* The server                                                              *)

\* keys.run: the same action with the same input keeps its key while the screen is open.
Key(b) == [b |-> b, of |-> request[b].of, old |-> request[b].old]

\* What is kept under the request's key.
KeptFor(b) == {d \in done : d.key = Key(b)}

Reply(b, n) == request' = [request EXCEPT ![b].at = "served", ![b].answer = n]
Done(b, n) == Reply(b, n) /\ done' = done \cup {[key |-> Key(b), answer |-> n]}
Refuse(b) == Reply(b, Refused) /\ UNCHANGED serverVars

\* The answer kept under the key, before anything is looked at.
Replay(b) ==
    /\ \E d \in KeptFor(b) : Reply(b, d.answer)
    /\ UNCHANGED serverVars

\* A group has one link at a time: this one takes the place of any before it.
ServeReplace == Make /\ Done("replace", made') /\ UNCHANGED group
ServeRemove == link' = 0 /\ Done("remove", 0) /\ UNCHANGED <<made, group>>

\* PUT /groups/:id: checkDebtsCanChange for simplifying, unless it is so already.
ServeSwitch(b) ==
    LET next == request[b].old = 1 IN
    IF b = "simplify" /\ next # group.set /\ group.money = "paying" THEN Refuse(b)
    ELSE group' = [group EXCEPT !.set = next] /\ Done(b, request[b].old) /\ UNCHANGED <<link, made>>

\* leaveGroup; whether anything is coming in is the payer's to say, so either.
ServeLeave ==
    \/ group.others /\ group' = Gone /\ Done("leave", 0) /\ UNCHANGED <<link, made>>
    \/ ~group.others /\ Refuse("leave")
    \/ group.money = "paying" /\ Refuse("leave")

\* checkGroupCanGo
ServeDelete ==
    IF group.money # "settled" THEN Refuse("delete")
    ELSE group' = Gone /\ Done("delete", 0) /\ UNCHANGED <<link, made>>

Handle(b) ==
    CASE b = "replace" -> ServeReplace
      [] b = "remove" -> ServeRemove
      [] b \in Switches -> ServeSwitch(b)
      [] b = "leave" -> ServeLeave
      [] b = "delete" -> ServeDelete

\* Someone who isn't in the group (any more) is refused, but not a replay.
Serve(b) ==
    /\ request[b].at = "sent"
    /\ IF KeptFor(b) # {} THEN Replay(b) ELSE IF ~group.isIn THEN Refuse(b) ELSE Handle(b)
    /\ UNCHANGED <<part, view, kept, reads, screenVars, told, lost>>

\* Someone else, in the group or through its link.
OthersLink ==
    /\ part = "link"
    /\ \/ Make
       \/ link # 0 /\ link' = 0 /\ UNCHANGED made
    /\ UNCHANGED <<part, group, done, view, kept, reads, screenVars, request, told, lost>>

OthersGroup ==
    /\ part # "link" /\ group.isIn
    /\ group' \in {[group EXCEPT !.money = m] : m \in {"settled", "owed", "paying"}}
                  \cup {IF part = "exit" THEN [group EXCEPT !.others = ~@] ELSE [group EXCEPT !.set = ~@]}
    /\ group' # group
    /\ UNCHANGED <<part, link, made, done, view, kept, reads, screenVars, request, told,
                   lost>>

-----------------------------------------------------------------------------
(* The answers                                                             *)

IsHere(b) == open /\ request[b].of = visit

\* The button has its say only on the screen it was tapped on.
Settles(b, refused) ==
    /\ state' = IF IsHere(b) THEN [state EXCEPT ![b] = "idle"] ELSE state
    /\ said' = IF IsHere(b) /\ refused THEN said \cup {b} ELSE said
    /\ request' = [request EXCEPT ![b] = NoRequest]

\* setLink: here, and in what the screen opens on next time.
SetLink(b) ==
    LET n == request[b].answer IN
    /\ shown' = IF IsHere(b) THEN n ELSE shown
    /\ changedHere' = (changedHere \/ IsHere(b))
    /\ Kept(n)
    /\ told' = IF IsHere(b) THEN n ELSE told
    /\ UNCHANGED <<view, on, open>>

\* Mutant: the answer moves the switch, and not what it is drawn from.
KnownNot(v) == view

\* appData.known
Known(v) == IF view.isIn THEN v ELSE view

\* The switch is moved to whatever is read next.
Redrawn(here) == on' = IF here /\ view'.isIn THEN view'.set ELSE on

SetSwitch(b) ==
    LET answer == request[b].answer = 1 IN
    /\ view' = Known([view EXCEPT !.set = answer])
    /\ on' = IF IsHere(b) THEN answer ELSE IF open THEN view'.set ELSE on
    /\ UNCHANGED <<shown, changedHere, kept, told, open>>

\* forgetGroup and onGone
Forget(b) ==
    /\ view' = Gone /\ open' = (open /\ ~IsHere(b))
    /\ UNCHANGED <<shown, changedHere, kept, on, told>>

Answer(b) ==
    /\ request[b].at = "served" /\ request[b].answer # Refused
    /\ CASE part = "link" -> SetLink(b) [] part \in Switches -> SetSwitch(b)
         [] part = "exit" -> Forget(b)
    /\ Settles(b, FALSE)
    /\ done' = {d \in done : d.key # Key(b)}    \* the key is used up: the next has its own
    /\ UNCHANGED <<part, link, made, group, reads, visit, lost>>

Refusal(b) ==
    /\ request[b].at = "served" /\ request[b].answer = Refused
    /\ Settles(b, TRUE)
    /\ UNCHANGED <<part, serverVars, view, kept, reads, visit, open, shown, changedHere, on,
                   told, lost>>

\* The request or its answer is lost.
Lose(b) ==
    /\ request[b].at # "none" /\ lost < MaxLost /\ lost' = lost + 1
    /\ Settles(b, FALSE)
    /\ UNCHANGED <<part, serverVars, view, kept, reads, visit, open, shown, changedHere, on,
                   told>>

\* A sync: the copy is what the server has (GroupReads is about its order).
Sync ==
    /\ part # "link" /\ view # group /\ view' = group
    /\ Redrawn(open)
    /\ UNCHANGED <<part, serverVars, kept, reads, visit, open, shown, changedHere, state, said,
                   request, told, lost>>

Init ==
    /\ part \in Parts
    /\ link = 1 /\ made = 1
    /\ group = [isIn |-> TRUE, money |-> "settled", others |-> TRUE, set |-> TRUE]
    /\ done = {} /\ view = group /\ kept = Unread
    /\ reads = [v \in Visits |-> NoRead]
    /\ visit = 0 /\ open = FALSE /\ shown = Unread /\ changedHere = FALSE /\ on = TRUE
    /\ state = AllIdle /\ said = {} /\ request = [b \in AllButtons |-> NoRequest]
    /\ told = Unread /\ lost = 0

Next ==
    \/ ReadServed \/ ReadAnswered \/ ReadFails \/ ReadAgain \/ Share
    \/ Open \/ Leave \/ Sync \/ OthersLink \/ OthersGroup
    \/ \E b \in Buttons[part] : Press(b) \/ Confirm(b) \/ Serve(b) \/ Answer(b) \/ Refusal(b) \/ Lose(b)

Spec == Init /\ [][Next]_vars

-----------------------------------------------------------------------------

TypeOK ==
    /\ part \in Parts /\ link \in Links /\ made \in Links
    /\ group \in Groups /\ view \in Groups
    /\ kept \in Links \cup {Unread} /\ shown \in Links \cup {Unread} /\ told \in Links \cup {Unread}
    /\ visit \in 0..MaxVisits /\ open \in BOOLEAN /\ changedHere \in BOOLEAN /\ on \in BOOLEAN
    /\ state \in [AllButtons -> {"idle", "confirming", "busy"}]
    /\ said \subseteq AllButtons
    /\ lost \in 0..MaxLost

\* Once the link was replaced or turned off on this screen, no read that was
\* on its way puts another back: while it is the group's, it's the one shown.
\* (GroupLinkSection: changedHere)
ChangedStays == (open /\ changedHere /\ told = link) => shown = link

\* The switch is where the app's copy has it, whoever changed it and whatever
\* was answered meanwhile. (SettlingUp, Joining)
SwitchIsAsRead == (open /\ part \in Switches /\ view.isIn) => on = view.set

\* Whoever left or deleted the group by a tap is never told that tap was
\* refused, however often its answer is lost. (ActionKeys, idempotency)
DoneIsNotRefused ==
    \A b \in Buttons["exit"] : \A d \in done :
        (open /\ d.key.b = b /\ d.key.of = visit) => b \notin said
=============================================================================
