------------------------------ MODULE SafeFetch ------------------------------
(* One request for JSON at a link that somebody typed                        *)
(* (src/apps/api/src/safeFetch.ts): the link is checked, its name looked up  *)
(* once and every address checked, and the socket, the answer and a deadline *)
(* race to finish the request. The other server is somebody else's: a name   *)
(* may resolve differently each time it is asked, and an answer may redirect,*)
(* be too long, be no JSON, break off or never end.                          *)
EXTENDS Naturals, FiniteSets

CONSTANTS
    Public,       \* the addresses anybody can reach
    Private,      \* those only this server can
    MaxBytes,     \* maxBytes, in chunks
    Timeout       \* timeoutMs, in clock steps

\* Assumed of the constants, wherever they are given values.
FetchAssumption ==
    /\ Public \cap Private = {}
    /\ MaxBytes \in Nat /\ Timeout \in Nat \ {0}

Addresses == Public \cup Private

VARIABLES
    clock,
    link,         \* what the link is: a sort of link, and the address it spells out
    names,        \* the addresses the name resolves to now
    stage,        \* how far the request is
    socket,       \* the address connected to, if any
    held,         \* the chunks of the answer kept
    timer,        \* the deadline is set
    outcome

vars == <<clock, link, names, stage, socket, held, timer, outcome>>

Links == [sort : {"fine", "odd"}, literal : {{}} \cup {{a} : a \in Addresses}]
Codes == {"NOT_ALLOWED", "BLOCKED_ADDRESS", "REDIRECT", "TOO_LARGE", "TIMEOUT", "NETWORK",
          "BAD_JSON"}

TypeOK ==
    /\ clock \in 0..Timeout
    /\ link \in Links /\ names \subseteq Addresses
    /\ stage \in {"new", "resolving", "connecting", "waiting", "reading", "over"}
    /\ socket \subseteq Addresses /\ Cardinality(socket) <= 1
    /\ held \in Nat /\ timer \in BOOLEAN
    /\ outcome \in Codes \cup {"none", "body"}

Init ==
    /\ clock = 0
    /\ link \in Links /\ names \in SUBSET Addresses
    /\ stage = "new" /\ socket = {} /\ held = 0
    /\ timer = FALSE /\ outcome = "none"

-----------------------------------------------------------------------------
Allowed(a) == a \in Public

\* Refused before anything is sent: not https, a port, credentials ("odd"), or
\* an address that is spelled out and not public.
Begin ==
    /\ stage = "new"
    /\ IF link.sort = "odd" \/ \E a \in link.literal : ~Allowed(a)
       THEN /\ stage' = "over"
            /\ outcome' = IF link.sort = "odd" THEN "NOT_ALLOWED" ELSE "BLOCKED_ADDRESS"
            /\ UNCHANGED timer
       ELSE /\ stage' = IF link.literal = {} THEN "resolving" ELSE "connecting"
            /\ timer' = TRUE /\ UNCHANGED outcome
    /\ UNCHANGED <<clock, link, names, socket, held>>

\* The first thing to happen finishes the request: the deadline is cleared, and
\* a request that failed is destroyed. Mutant: one that is not destroyed.
FailsOpen(code) ==
    /\ stage' = "over" /\ outcome' = code /\ timer' = FALSE /\ UNCHANGED socket
Fails(code) ==
    /\ stage' = "over" /\ outcome' = code /\ timer' = FALSE /\ socket' = {}

\* Node's lookup goes through checkedLookup: every address must pass, and the
\* socket gets one of those that did. Mutant: some address passes.
PassesSome(found) == \E a \in found : Allowed(a)
Passes(found) == \A a \in found : Allowed(a)

LooksUp ==
    /\ stage = "resolving"
    /\ IF names = {} THEN Fails("NETWORK")
       ELSE IF ~Passes(names) THEN Fails("BLOCKED_ADDRESS")
       ELSE /\ \E a \in names : socket' = {a}
            /\ stage' = "waiting" /\ UNCHANGED <<timer, outcome>>
    /\ UNCHANGED <<clock, link, names, held>>

Connects ==
    /\ stage = "connecting"
    /\ socket' = link.literal
    /\ stage' = "waiting"
    /\ UNCHANGED <<clock, link, names, held, timer, outcome>>

\* The answer begins; it may be a redirect, or say that it is too long.
AnswerBegins ==
    /\ stage = "waiting"
    /\ \/ Fails("REDIRECT") \/ Fails("TOO_LARGE")
       \/ stage' = "reading" /\ UNCHANGED <<socket, timer, outcome>>
    /\ UNCHANGED <<clock, link, names, held>>

\* A chunk counts before it is kept. Mutant: one that is kept, then counts.
TooMuchThen(chunks) == held > MaxBytes
TooMuch(chunks) == held + chunks > MaxBytes

Chunk ==
    /\ stage = "reading"
    /\ \E chunks \in 1..2 :
        IF TooMuch(chunks) THEN Fails("TOO_LARGE") /\ UNCHANGED held
        ELSE held' = held + chunks /\ UNCHANGED <<stage, socket, timer, outcome>>
    /\ UNCHANGED <<clock, link, names>>

\* The answer is whole, and JSON or not.
AnswerEnds ==
    /\ stage = "reading"
    /\ stage' = "over" /\ timer' = FALSE /\ socket' = {}
    /\ outcome' \in {"body", "BAD_JSON"}
    /\ UNCHANGED <<clock, link, names, held>>

\* The connection is refused or drops.
Drops ==
    /\ stage \in {"resolving", "connecting", "waiting", "reading"}
    /\ Fails("NETWORK")
    /\ UNCHANGED <<clock, link, names, held>>

Deadline ==
    /\ timer /\ clock = Timeout
    /\ Fails("TIMEOUT")
    /\ UNCHANGED <<clock, link, names, held>>

Tick ==
    /\ stage # "new" /\ clock < Timeout
    /\ clock' = clock + 1
    /\ UNCHANGED <<link, names, stage, socket, held, timer, outcome>>

\* The name resolves to something else from now on.
NamesMove ==
    /\ \E found \in SUBSET Addresses : names' = found
    /\ UNCHANGED <<clock, link, stage, socket, held, timer, outcome>>

Next ==
    \/ Begin \/ LooksUp \/ Connects \/ AnswerBegins \/ Chunk \/ AnswerEnds \/ Drops \/ Deadline
    \/ Tick \/ NamesMove

Spec == Init /\ [][Next]_vars

-----------------------------------------------------------------------------
\* The server connects to public addresses only, whatever a name resolves to
\* and however that changes while the request runs.
ConnectsInPublic == socket \subseteq Public

\* No more of an answer is kept than the cap, whatever length it announced.
HeldIsSmall == held <= MaxBytes

\* A finished request leaves nothing behind: no deadline that goes off later,
\* no open socket.
NothingLeftOpen == stage = "over" => ~timer /\ socket = {}

\* An address that is spelled out was checked before it is connected to, and a request
\* that has not begun has nothing to close.
CheckedFirst ==
    /\ stage = "connecting" => link.literal \subseteq Public
    /\ stage = "new" => ~timer /\ socket = {}

\* What every step keeps.
Inv == TypeOK /\ ConnectsInPublic /\ HeldIsSmall /\ NothingLeftOpen /\ CheckedFirst
=============================================================================
