----------------------------- MODULE VerifyLoop -----------------------------
(* How the server spares a Lightning address provider                        *)
(* (src/apps/api/src/payments/lightning.ts): so many mints a minute for one  *)
(* address, and verify links asked in runs of a loop, so many for one host   *)
(* in a run, each more rarely as its invoice ages. All invoices here have    *)
(* one address and one host: hosts and addresses share no limit. The clock   *)
(* counts runs of the loop (pollMs) and stops at MaxTime. The limit and the  *)
(* watch live in memory; a restart forgets the first and rebuilds the second *)
(* (LightningPayments models restarts).                                      *)
EXTENDS Naturals, FiniteSets, Sequences, SequencesExt

CONSTANTS
    Invoices,     \* the settlements somebody asks an invoice for
    PerRun,       \* VERIFY_PER_HOST
    PerMinute,    \* ADDRESS_MINTS_PER_MINUTE
    Minute,       \* a minute, in clock steps
    BriskFor,     \* below this age a link is asked again after Brisk
    Brisk,
    Slow,         \* and later after Slow
    LivesFor,     \* an invoice's life, the grace after it included
    MaxTime

\* Assumed of the constants, wherever they are given values.
LoopAssumption ==
    /\ PerRun \in Nat \ {0} /\ PerMinute \in Nat \ {0} /\ Minute \in Nat \ {0}
    /\ BriskFor \in Nat /\ Brisk \in Nat \ {0} /\ Slow \in Nat \ {0}
    /\ LivesFor \in Nat \ {0} /\ MaxTime \in Nat

VARIABLES
    clock,
    mint,         \* of each invoice: asked for yet, and when the request was counted
    requests,     \* when the address's server was really asked for an invoice
    mints,        \* which of those are remembered as the address's recent mints
    watched,      \* the invoices watched, in the order of the map
    mintedAt,
    askedAt,      \* when its link was last asked, or else when it was minted
    loop,         \* "none", "timer": the next run is set, "run": one is on its way
    firesAt,
    checking      \* the verify requests of the run that are unanswered

vars == <<clock, mint, requests, mints, watched, mintedAt, askedAt, loop, firesAt, checking>>

TypeOK ==
    /\ clock \in 0..MaxTime
    /\ mint \in [Invoices -> {"none", "counted", "out", "refused", "over"}]
    /\ requests \in Seq(0..MaxTime) /\ mints \subseteq DOMAIN requests
    /\ watched \in Seq(Invoices)
    /\ mintedAt \in [Invoices -> Nat] /\ askedAt \in [Invoices -> Nat]
    /\ loop \in {"none", "timer", "run"} /\ firesAt \in Nat
    /\ checking \subseteq Invoices

Init ==
    /\ clock = 0
    /\ mint = [i \in Invoices |-> "none"]
    /\ requests = <<>> /\ mints = {}
    /\ watched = <<>>
    /\ mintedAt = [i \in Invoices |-> 0] /\ askedAt = [i \in Invoices |-> 0]
    /\ loop = "none" /\ firesAt = 0
    /\ checking = {}

-----------------------------------------------------------------------------
(* Minting *)

\* What of the last minute's mints still counts. Mutant: those of this minute
\* of the clock.
RecentInMinute == {n \in mints : requests[n] \div Minute = clock \div Minute}
Recent == {n \in mints : requests[n] + Minute > clock}

\* allowMint: the mint is counted before the address's server is asked.
AllowMint(i) ==
    /\ mint[i] = "none"
    /\ IF Cardinality(Recent) >= PerMinute
       THEN mint' = [mint EXCEPT ![i] = "refused"] /\ mints' = Recent /\ UNCHANGED requests
       ELSE /\ mint' = [mint EXCEPT ![i] = "counted"]
            /\ mints' = Recent \cup {Len(requests) + 1}
            /\ requests' = Append(requests, clock)
    /\ UNCHANGED <<clock, watched, mintedAt, askedAt, loop, firesAt, checking>>

\* The wait before a link is asked again.
VerifyDelay(age) == IF age < BriskFor THEN Brisk ELSE Slow

\* The timer of the next run, if none is set and something is watched. Mutant:
\* a run on its way does not count as one.
SchedulesBeside(among) == loop # "timer" /\ among # <<>>
Schedules(among) == loop = "none" /\ among # <<>>

Schedule(among) ==
    IF Schedules(among) THEN loop' = "timer" /\ firesAt' = clock + 1
    ELSE UNCHANGED <<loop, firesAt>>

\* The invoice comes, has a verify link, and is watched from now on.
Minted(i) ==
    /\ mint[i] = "counted"
    /\ mint' = [mint EXCEPT ![i] = "out"]
    /\ mints' = mints
    /\ mintedAt' = [mintedAt EXCEPT ![i] = clock]
    /\ askedAt' = [askedAt EXCEPT ![i] = clock]
    /\ watched' = Append(watched, i)
    /\ Schedule(watched')
    /\ UNCHANGED <<clock, requests, checking>>

\* The address's server has no invoice for us.
NotMinted(i) ==
    /\ mint[i] = "counted"
    /\ mint' = [mint EXCEPT ![i] = "refused"]
    /\ UNCHANGED <<clock, mints, requests, watched, mintedAt, askedAt, loop, firesAt, checking>>

-----------------------------------------------------------------------------
(* The loop *)

\* When its link is to be asked next.
NextAt(i) == askedAt[i] + VerifyDelay(askedAt[i] - mintedAt[i])

Due(i) == clock >= NextAt(i)
DueOnes == {n \in DOMAIN watched : Due(watched[n])}

\* The first ones due in the order of the map; the others are passed over.
Asked == {watched[n] : n \in {n \in DueOnes : Cardinality(DueOnes \cap 1..(n - 1)) < PerRun}}

Run ==
    /\ loop = "timer" /\ clock >= firesAt
    /\ loop' = "run"
    /\ checking' = Asked
    /\ askedAt' = [i \in Invoices |-> IF i \in Asked THEN clock ELSE askedAt[i]]
    /\ UNCHANGED <<clock, mint, mints, requests, watched, mintedAt, firesAt>>

\* A link says paid or that it is over, or it cannot be asked and is not over.
Checked(i) ==
    /\ i \in checking
    /\ checking' = checking \ {i}
    /\ \/ /\ \E n \in DOMAIN watched : watched[n] = i /\ watched' = RemoveAt(watched, n)
          /\ mint' = [mint EXCEPT ![i] = "over"]
       \/ clock < mintedAt[i] + LivesFor /\ UNCHANGED <<watched, mint>>
    /\ UNCHANGED <<clock, mints, requests, mintedAt, askedAt, loop, firesAt>>

\* Every answer of the run is in: the next run is set. `timer` is cleared first.
GoesOn ==
    IF watched = <<>> THEN loop' = "none" /\ UNCHANGED firesAt
    ELSE loop' = "timer" /\ firesAt' = clock + 1

RunOver ==
    /\ loop = "run" /\ checking = {}
    /\ GoesOn
    /\ UNCHANGED <<clock, mint, mints, requests, watched, mintedAt, askedAt, checking>>

\* A timer goes off when it is due; answers may take as long as they like.
Tick ==
    /\ clock < MaxTime
    /\ ~(loop = "timer" /\ clock >= firesAt)
    /\ ~(loop = "run" /\ checking = {})
    /\ clock' = clock + 1
    /\ UNCHANGED <<mint, mints, requests, watched, mintedAt, askedAt, loop, firesAt, checking>>

Next ==
    \/ \E i \in Invoices : AllowMint(i) \/ Minted(i) \/ NotMinted(i) \/ Checked(i)
    \/ Run \/ RunOver \/ Tick

Spec == Init /\ [][Next]_vars

-----------------------------------------------------------------------------
\* However requests come and answers take, the address's server is never asked
\* for more than PerMinute invoices within a minute (allowMint).
MintsPerMinute ==
    \A n \in DOMAIN requests :
        n + PerMinute \in DOMAIN requests => requests[n + PerMinute] - requests[n] >= Minute

\* As long as something is watched a run is set or on its way, and one run's
\* answers are in before the next begins: nothing watched is left alone, and
\* no link is asked twice at once (schedule, tick).
LoopLives ==
    /\ watched # <<>> => loop # "none"
    /\ checking # {} => loop = "run"

-----------------------------------------------------------------------------
\* Mints are counted in order, and what could still count is remembered.
MintsInOrder ==
    /\ \A n, m \in DOMAIN requests : n <= m => requests[n] <= requests[m]
    /\ \A n \in DOMAIN requests :
        /\ requests[n] <= clock
        /\ requests[n] + Minute > clock => n \in mints

\* What every step keeps.
Inv == TypeOK /\ MintsInOrder /\ MintsPerMinute /\ LoopLives
=============================================================================
