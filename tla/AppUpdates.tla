----------------------------- MODULE AppUpdates -----------------------------
(***************************************************************************)
(* In-app updates: what the app makes of what Google Play says             *)
(* (updates/updater.ts), when it asks (useAppUpdate), the line it shows    *)
(* (UpdateBanner), and the native module between them.                     *)
(*                                                                         *)
(* Play is what the module says it may report: a newer version or none, a  *)
(* download that goes on by itself, and a screen of its own that may be    *)
(* closed without a word.                                                  *)
(***************************************************************************)
EXTENDS Naturals, FiniteSets

CONSTANT MaxVersion

\* Assumed of the constants, wherever they are given values.
AppUpdatesAssumption == MaxVersion \in Nat

VARIABLES
    current, newest,         \* the version installed, the newest on Play
    priorityHigh,            \* that one is marked urgent
    install, started,        \* its download; that this app started it
    declinedVersion,         \* kept on the device
    phase, checks, flows,    \* UpdateState; checks in flight; starts in flight
    flowOpen, installing, urgent, asked,
    told,                    \* progress on its way to the app
    shut                     \* what Play's screen has been closed for, this launch

playVars == <<current, newest, priorityHigh, install, started, declinedVersion>>
appVars == <<phase, checks, flows, flowOpen, installing, urgent, asked, told, shut>>
vars == <<playVars, appVars>>

Installs == {"unknown", "downloading", "downloaded", "failed"}
Quiet == "quiet"

AtLaunch ==
    /\ phase = "idle" /\ checks = {} /\ flows = {} /\ flowOpen = FALSE
    /\ installing = "no" /\ urgent = FALSE /\ asked = {} /\ told = Quiet /\ shut = {}

Init ==
    /\ current = 0 /\ newest = 0 /\ priorityHigh = FALSE /\ install = "unknown" /\ started = FALSE
    /\ declinedVersion = 0
    /\ AtLaunch

\* The app is closed, and started again.
Relaunch ==
    /\ phase' = "idle" /\ checks' = {} /\ flows' = {} /\ flowOpen' = FALSE
    /\ installing' = "no" /\ urgent' = FALSE /\ asked' = {} /\ told' = Quiet /\ shut' = {}

Launch == Relaunch /\ UNCHANGED playVars

-----------------------------------------------------------------------------
(* Google Play, through InAppUpdatesModule                                 *)

Released(high) ==
    /\ newest < MaxVersion
    /\ newest' = newest + 1 /\ priorityHigh' = high /\ install' = "unknown" /\ started' = FALSE
    /\ UNCHANGED <<current, declinedVersion, appVars>>

TurnsUrgent ==
    /\ newest > current /\ ~priorityHigh
    /\ priorityHigh' = TRUE
    /\ UNCHANGED <<current, newest, install, started, declinedVersion, appVars>>

\* The listener is told once the app has asked at all.
Downloads(status) ==
    /\ started /\ told = Quiet
    /\ install = "downloading" /\ status # "unknown"
    /\ install' = status
    /\ told' \in {status, Quiet}
    /\ UNCHANGED <<current, newest, priorityHigh, started, declinedVersion, phase, checks, flows,
                   flowOpen,
                   installing, urgent, asked, shut>>

Describe == [version |-> IF newest > current THEN newest ELSE 0, high |-> priorityHigh,
             status |-> install, mine |-> started,
             declined |-> declinedVersion = newest]

-----------------------------------------------------------------------------
(* updater.ts                                                              *)

NextStep(info) ==
    IF info.version # 0 /\ info.high THEN "urgent"
    ELSE IF info.status = "downloaded" THEN "ready"
    ELSE IF info.status = "downloading" THEN "downloading"
    ELSE IF info.version = 0 THEN "nothing"
    ELSE IF info.mine \/ info.declined THEN "offer"
    ELSE "ask"

AfterProgress(status) ==
    CASE status = "downloaded" -> "ready" [] status = "failed" -> "available" [] OTHER -> status

\* Mutant: an urgent update's download takes its banner away.
HeardUrgent(status) == phase' = AfterProgress(status)

\* onProgress
Heard(status) ==
    phase' = IF urgent THEN phase ELSE AfterProgress(status)

OnProgress ==
    /\ told # Quiet /\ told' = Quiet
    /\ Heard(told)
    /\ UNCHANGED <<playVars, checks, flows, flowOpen, installing, urgent, asked, shut>>

\* At launch, and whenever the app comes to the front: Play's screen is gone.
Check ==
    /\ checks = {}
    /\ checks' = {Describe} /\ flowOpen' = FALSE
    /\ shut' = shut \cup {f.key : f \in flows}
    /\ UNCHANGED <<playVars, phase, flows, installing, urgent, asked, told>>

Open(immediate, key) ==
    IF flowOpen THEN UNCHANGED <<flowOpen, flows>>
    ELSE flowOpen' = TRUE /\ flows' = flows \cup {[key |-> key, immediate |-> immediate]}

Asks(key) == asked' = asked \cup {key}

Checked == installing' = IF installing = "failed" THEN "no" ELSE installing

CheckAnswered(info) ==
    /\ checks' = checks \ {info}
    /\ LET step == NextStep(info)
           key == <<info.version, step>> IN
       /\ urgent' = (step = "urgent")
       /\ IF step \in {"ask", "urgent"} /\ key \notin asked
          THEN Asks(key) /\ Open(step = "urgent", key) /\ UNCHANGED phase
          ELSE /\ phase' = CASE step = "nothing" -> "idle"
                             [] step = "ready" -> "ready"
                             [] step = "downloading" -> "downloading"
                             [] OTHER -> "available"
               /\ UNCHANGED <<asked, flows, flowOpen>>
    /\ Checked
    /\ UNCHANGED <<playVars, told, shut>>

\* Not Play's copy, or Play can't be reached.
CheckFailed ==
    /\ checks # {} /\ checks' = {} /\ Checked
    /\ UNCHANGED <<playVars, phase, flows, flowOpen, urgent, asked, told, shut>>

\* The banner's buttons.
Update ==
    /\ phase = "available" /\ ~flowOpen
    /\ Open(urgent, <<newest, "tapped">>)
    /\ UNCHANGED <<playVars, phase, checks, installing, urgent, asked, told, shut>>

Restart ==
    /\ phase = "ready" /\ installing = "no"
    /\ installing' = "asked"
    /\ UNCHANGED <<playVars, phase, checks, flows, flowOpen, urgent, asked, told, shut>>

\* Play installs what was downloaded, also an urgent one, and starts the app.
Installed ==
    /\ install = "downloaded" /\ (installing = "asked" \/ priorityHigh)
    /\ current' = newest /\ install' = "unknown" /\ started' = FALSE
    /\ Relaunch
    /\ UNCHANGED <<newest, priorityHigh, declinedVersion>>

\* The download is gone: the app asks again, unless it is asking.
InstallFails ==
    /\ installing = "asked"
    /\ install' = "unknown" /\ started' = FALSE
    /\ IF checks # {} THEN installing' = "no" /\ UNCHANGED <<checks, flowOpen>>
       ELSE /\ installing' = "failed" /\ flowOpen' = FALSE
            /\ checks' = {[Describe EXCEPT !.status = "unknown", !.mine = FALSE]}
    /\ UNCHANGED <<current, newest, priorityHigh, declinedVersion, phase, flows, urgent, asked,
                   told, shut>>

\* Accepted, closed, or not shown at all; a "no" to a flexible update is kept.
FlowEnds(flow, result) ==
    /\ flow \in flows /\ flows' = flows \ {flow} /\ flowOpen' = FALSE
    /\ shut' = shut \cup {flow.key}
    /\ phase' = IF result \in {"declined", "failed"} THEN "available"
                ELSE IF result = "accepted" /\ ~flow.immediate /\ phase \in {"idle", "available"} THEN "downloading"
                ELSE phase
    /\ IF result = "accepted" /\ install \in {"unknown", "failed"} /\ newest > current
       THEN install' = "downloading" /\ started' = TRUE
       ELSE UNCHANGED <<install, started>>
    /\ declinedVersion' = IF result = "declined" /\ ~flow.immediate THEN newest ELSE declinedVersion
    /\ UNCHANGED <<current, newest, priorityHigh, checks, installing, urgent, asked, told>>

Next ==
    \/ Launch \/ OnProgress \/ Check \/ CheckFailed \/ Update \/ Restart \/ Installed \/ InstallFails
    \/ TurnsUrgent
    \/ \E high \in BOOLEAN : Released(high)
    \/ \E status \in Installs : Downloads(status)
    \/ \E info \in checks : CheckAnswered(info)
    \/ \E flow \in flows, result \in {"accepted", "declined", "failed", "thrown"} :
        FlowEnds(flow, result)

Spec == Init /\ [][Next]_vars

-----------------------------------------------------------------------------

TypeOK ==
    /\ newest \in 0..MaxVersion /\ declinedVersion \in 0..MaxVersion
    /\ current \in 0..newest /\ installing \in {"no", "asked", "failed"}
    /\ install \in Installs /\ told \in Installs \cup {Quiet}
    /\ phase \in {"idle", "available", "downloading", "ready"}
    /\ Cardinality(checks) <= 1
    /\ asked \subseteq (1..MaxVersion) \X {"ask", "urgent"}
    /\ \A b \in {priorityHigh, started, flowOpen, urgent} : b \in BOOLEAN

\* Closing Play's screen brings the app to the front, which checks again: the
\* app doesn't open it again by itself, for that version at that urgency
\* (asked, check).
NotReopened ==
    \A f \in flows' \ flows : f.key[2] # "tapped" => f.key \notin shut

\* An urgent update whose screen was backed out of stays on offer, though its
\* download goes on and ends, until Play is asked again or Play's screen says
\* otherwise (onProgress).
UrgentStaysOffered ==
    urgent /\ phase = "available" /\ urgent' /\ checks' = checks /\ flows' = flows => phase' = "available"
=============================================================================
