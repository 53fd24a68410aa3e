------------------------------- MODULE Rates -------------------------------
(* The price of Bitcoin in one currency (src/apps/api/src/rates.ts): several *)
(* sources asked in turn, one lookup that everybody waiting shares, a cache, *)
(* and the last rate known when every source is down. Currencies share       *)
(* nothing, so one stands for each. A rate is the moment its price was true: *)
(* when the source was asked. The time only moves on, up to MaxTime.         *)
EXTENDS Naturals, FiniteSets

CONSTANTS
    Callers,      \* the requests that want a rate
    Nobody,       \* stands for "no lookup"
    Sources,      \* how many price sources there are, asked in order
    Ttl,          \* RATE_TTL_MS
    Timeout,      \* timeoutMs, of one source
    HasFixed,     \* a fixed rate is configured for the currency
    MaxTime       \* where the clock stops

\* Assumed of the constants, wherever they are given values.
RatesAssumption ==
    /\ Nobody \notin Callers
    /\ Sources \in Nat \ {0} /\ Ttl \in Nat /\ Timeout \in Nat /\ MaxTime \in Nat
    /\ HasFixed \in BOOLEAN

VARIABLES
    clock,
    last,         \* the last rate a source gave, and when it came
    pending,      \* who began the lookup new callers join
    asking,       \* of each lookup: the source it is at, and since when
    caller,       \* of each caller: what it waits for, and the rate it knew before
    said          \* of each caller: what it was told

vars == <<clock, last, pending, asking, caller, said>>

None == [rate |-> 0, at |-> 0, known |-> FALSE]
Rate == [rate : 0..MaxTime, at : 0..MaxTime, known : BOOLEAN]
Nothing == [kind |-> "nothing", rate |-> None, at |-> 0]
Resting == [source |-> 0, since |-> 0]
Free == [on |-> Nobody, cached |-> None]

TypeOK ==
    /\ clock \in 0..MaxTime
    /\ last \in Rate
    /\ pending \in Callers \cup {Nobody}
    /\ asking \in [Callers -> [source : 0..Sources, since : 0..MaxTime]]
    /\ caller \in [Callers -> [on : Callers \cup {Nobody}, cached : Rate]]
    /\ said \in [Callers -> [kind : {"nothing", "market", "stale", "fallback", "unavailable"},
                             rate : Rate, at : 0..MaxTime]]

Init ==
    /\ clock = 0
    /\ last = None
    /\ pending = Nobody
    /\ asking = [c \in Callers |-> Resting]
    /\ caller = [c \in Callers |-> Free]
    /\ said = [c \in Callers |-> Nothing]

-----------------------------------------------------------------------------
\* A rate is used again without asking.
FreshEver(r) == r.known
Fresh(r) == r.known /\ clock - r.at < Ttl

\* Which lookup a caller waits for: the one on its way, or its own.
JoinsNone(c) == c
Joins(c) == IF pending # Nobody THEN pending ELSE c

\* What is said of a rate: quoteRateSource makes "market" of cache and live.
Says(kind, r) == [kind |-> kind, rate |-> r, at |-> clock]

\* What is said when every source is down: the rate known when it began to wait.
DownAsFixed(c) ==
    IF HasFixed THEN Says("fallback", None) ELSE Says("unavailable", None)
Down(c) ==
    IF caller[c].cached.known THEN Says("stale", caller[c].cached)
    ELSE IF HasFixed THEN Says("fallback", None)
    ELSE Says("unavailable", None)

Ask(c) ==
    /\ caller[c].on = Nobody
    /\ \/ /\ Fresh(last)
          /\ said' = [said EXCEPT ![c] = Says("market", last)]
          /\ UNCHANGED <<pending, asking, caller>>
       \/ /\ ~Fresh(last)
          /\ caller' = [caller EXCEPT ![c] = [on |-> Joins(c), cached |-> last]]
          /\ pending' = Joins(c)
          /\ asking' = IF Joins(c) = c
                       THEN [asking EXCEPT ![c] = [source |-> 1, since |-> clock]] ELSE asking
          /\ UNCHANGED said
    /\ UNCHANGED <<clock, last>>

Waiting(l) == {c \in Callers : caller[c].on = l}

\* A lookup is over: it is forgotten, and everybody waiting wakes in the same turn.
Ends(l, answer) ==
    /\ pending' = IF pending = l THEN Nobody ELSE pending
    /\ asking' = [asking EXCEPT ![l] = Resting]
    /\ said' = [c \in Callers |-> IF c \in Waiting(l) THEN answer[c] ELSE said[c]]
    /\ caller' = [c \in Callers |-> IF c \in Waiting(l) THEN Free ELSE caller[c]]

\* A source answers with a price that can be used.
Priced(l) ==
    /\ asking[l].source > 0
    /\ last' = [rate |-> asking[l].since, at |-> clock, known |-> TRUE]
    /\ Ends(l, [c \in Callers |-> Says("market", last')])
    /\ UNCHANGED clock

\* A source is down, slow, or answers with no price: the next one is asked.
NoPrice(l) ==
    /\ asking[l].source > 0
    /\ IF asking[l].source < Sources
       THEN /\ asking' = [asking EXCEPT ![l] = [source |-> @.source + 1, since |-> clock]]
            /\ UNCHANGED <<pending, said, caller>>
       ELSE Ends(l, [c \in Callers |-> Down(c)])
    /\ UNCHANGED <<clock, last>>

\* Time passes; a source asked too long ago is given up first.
GivenUpNever(l) == FALSE
GivenUp(l) == asking[l].source > 0 /\ clock - asking[l].since >= Timeout

Tick ==
    /\ clock < MaxTime
    /\ \A l \in Callers : ~GivenUp(l)
    /\ clock' = clock + 1
    /\ UNCHANGED <<last, pending, asking, caller, said>>

Next ==
    \/ \E c \in Callers : Ask(c) \/ Priced(c) \/ NoPrice(c)
    \/ Tick

Spec == Init /\ [][Next]_vars

-----------------------------------------------------------------------------
\* What a quote calls the market was the price at most a cache time and one
\* source's time ago, for whoever asked and however long they waited.
MarketIsFresh ==
    \A c \in Callers : said[c].kind = "market" => said[c].at - said[c].rate.rate <= Ttl + Timeout

\* When every source is down a caller is told the last rate any lookup got,
\* and a fixed rate or "unavailable" only while there has never been one: the
\* rate read before the wait is still the last when the wait is over.
LastKnownIsSaid ==
    \A c \in Callers :
        said'[c] # said[c] /\ said'[c].kind \in {"stale", "fallback", "unavailable"} =>
            said'[c].rate = last

\* One lookup at a time, which whoever waits waits for, and which is at a source no longer
\* than it is given.
OneLookup ==
    /\ \A l \in Callers : asking[l].source > 0 => pending = l /\ asking[l].since <= clock
                                                /\ clock - asking[l].since <= Timeout
    /\ \A c \in Callers : caller[c].on \in {Nobody, pending}

\* Whoever waits knew the rate that is still the last one, and that was true when it was
\* asked for.
KnownIsLast ==
    /\ ~last.known => last = None
    /\ last.at <= clock /\ last.at - last.rate <= Timeout
    /\ \A c \in Callers : caller[c].on # Nobody => caller[c].cached = last

\* What every step keeps.
Inv == TypeOK /\ MarketIsFresh /\ OneLookup /\ KnownIsLast
===========================================================================
