-------------------------------- MODULE Usage --------------------------------
(***************************************************************************)
(* What the app reports of how it is used: the tracker of one install      *)
(* (analytics/tracker.ts), the posts it makes under whichever account is   *)
(* signed in by then (analytics.ts), and the rows the server keeps of them *)
(* (routes/analytics.ts) until the account is deleted.  An event is known  *)
(* by its number, in the order they happened.                              *)
(***************************************************************************)
EXTENDS Naturals, Sequences, FiniteSets, SequencesExt

CONSTANTS
    Accounts, Guest,    \* who may be signed in; Guest when nobody is
    FlushAt,    \* this many waiting go at once
    MaxQueued,  \* the oldest go past this
    BatchEvents,        \* events in one post
    DailyRoom,  \* events the server keeps in a day
    MaxEvents, MaxFailures      \* bounds: events, and posts that fail in a row

\* What the server has of an event it has no row of.
NoRow == "noRow"

\* Assumed of the constants, wherever they are given values.
UsageAssumption ==
    /\ Guest \notin Accounts /\ NoRow \notin Accounts \cup {Guest}
    /\ FlushAt \in Nat /\ MaxQueued \in Nat \ {0} /\ BatchEvents \in Nat \ {0}
    /\ DailyRoom \in Nat /\ MaxEvents \in Nat /\ MaxFailures \in Nat

VARIABLES
    signed,     \* whose token the device holds
    live,       \* the accounts there are
    by,         \* who was signed in as each event happened
    queue, posting,     \* the tracker: waiting, and the batch being sent
    failures, timer, away,
    after,      \* flush()es waiting for the send under way: "flush", "leaving"
    post,       \* the post under way: whose it is, and how far it has got
    rows,       \* the server's rows, by event
    taken, today,       \* what counts against the day, and what was kept in it
    ever, dropped       \* events kept once, and events let go of

vars == <<signed, live, by, queue, posting, failures, timer, away, after, post, rows, taken,
          today, ever, dropped>>
tracker == <<queue, posting, failures, timer, away, after>>
server == <<live, rows, taken, today, ever>>

Events == DOMAIN by
NoPost == [who |-> Guest, stage |-> "none"]

Init ==
    /\ signed \in Accounts \cup {Guest} /\ live = Accounts
    /\ by = <<>> /\ queue = <<>> /\ posting = <<>> /\ failures = 0
    /\ timer = FALSE /\ away = FALSE /\ after = {}
    /\ post = NoPost /\ rows = [n \in 1..MaxEvents |-> NoRow]
    /\ taken = 0 /\ today = {} /\ ever = {} /\ dropped = {}

-----------------------------------------------------------------------------
(* The tracker                                                             *)

Over(q) == IF Len(q) > MaxQueued THEN Len(q) - MaxQueued ELSE 0

\* trim: past what is queued at most, the oldest go.
Trimmed(q) == SubSeq(q, Over(q) + 1, Len(q))
Trims(q) == ToSet(SubSeq(q, 1, Over(q)))

\* nextBatch: as many from the front as fit in one post.
Batch(q) == SubSeq(q, 1, IF Len(q) < BatchEvents THEN Len(q) ELSE BatchEvents)
Rest(q) == SubSeq(q, Len(Batch(q)) + 1, Len(q))

\* drain's next post, with the token the device holds as it goes.
Posts(q) ==
    /\ posting' = Batch(q) /\ queue' = Rest(q) /\ timer' = FALSE
    /\ post' = [who |-> signed, stage |-> "sent"]

Sending == posting # <<>>

\* schedule: one timer, and only while nothing is being sent.
Due(q) == q # <<>>
Waits(q) == queue' = q /\ timer' = Due(q) /\ UNCHANGED <<posting, post>>

\* flush, with nothing being sent: the timer is cleared.
Flush(q) == IF q = <<>> THEN Waits(q) ELSE Posts(q)

\* track: one more event, sent at once only while sending works.
Happens ==
    LET n == Len(by) + 1
        q == Append(queue, n)
    IN /\ n <= MaxEvents
       /\ by' = Append(by, signed) /\ dropped' = dropped \cup Trims(q)
       /\ IF Sending THEN queue' = Trimmed(q) /\ UNCHANGED <<posting, timer, post>>
          ELSE IF Len(Trimmed(q)) >= FlushAt /\ failures = 0 THEN Flush(Trimmed(q))
          ELSE Waits(Trimmed(q))
       /\ UNCHANGED <<signed, server, failures, after>>

Track == Happens /\ UNCHANGED away

TimerFires ==
    /\ timer /\ Flush(queue)
    /\ UNCHANGED <<signed, server, by, failures, away, after, dropped>>

\* background: said once, and what is queued goes now, or as soon as the send
\* under way is done with.
Background ==
    LET q == Append(queue, Len(by) + 1) IN
    /\ ~away /\ Len(by) < MaxEvents /\ away' = TRUE
    /\ by' = Append(by, signed) /\ dropped' = dropped \cup Trims(q)
    /\ IF Sending
       THEN /\ queue' = Trimmed(q) /\ after' = after \cup {"leaving"} /\ timer' = FALSE
            /\ UNCHANGED <<posting, post>>
       ELSE Flush(Trimmed(q)) /\ UNCHANGED after
    /\ UNCHANGED <<signed, server, failures>>

\* foreground: coming back is an event too, or the first of a new session.
Foreground == away /\ away' = FALSE /\ Happens

\* flushIfWorking: iOS's shade or app switcher.
Inactive ==
    /\ IF failures > 0 THEN Waits(queue) /\ ~Sending /\ UNCHANGED after
       ELSE IF Sending THEN /\ after' = after \cup {"flush"} /\ timer' = FALSE
                            /\ UNCHANGED <<queue, posting, post>>
       ELSE Flush(queue) /\ UNCHANGED after
    /\ UNCHANGED <<signed, server, by, failures, away, dropped>>

\* Mutants: what couldn't be sent goes to the back; it is let go of.
PutBackLast == queue \o posting
PutBackNot == queue

\* What couldn't be sent is put back, oldest first.
PutBack == posting \o queue

\* A flush that waited for a send that failed leaves the rest to the backoff,
\* unless the app is leaving.
TriesAgain(ways) == "leaving" \in ways

\* The send threw: lost on the way there or back, a 5xx or a 429.
Failed ==
    /\ post.stage \in {"sent", "taken", "full"} /\ failures < MaxFailures
    /\ failures' = failures + 1 /\ after' = {}
    /\ dropped' = dropped \cup Trims(PutBack)
    /\ IF TriesAgain(after) THEN Posts(Trimmed(PutBack))
       ELSE /\ queue' = Trimmed(PutBack) /\ posting' = <<>> /\ post' = NoPost
            /\ timer' = Due(Trimmed(PutBack))
    /\ UNCHANGED <<signed, server, by, away>>

\* The batch was taken, or refused in a way that would be the same again, and
\* the next goes while there is one.
Sent ==
    /\ post.stage \in {"taken", "refused"}
    /\ failures' = 0 /\ after' = (IF queue = <<>> THEN {} ELSE after)
    /\ dropped' = (IF post.stage = "refused" THEN dropped \cup ToSet(posting) ELSE dropped)
    /\ IF queue # <<>> THEN Posts(queue)
       ELSE posting' = <<>> /\ post' = NoPost /\ UNCHANGED <<queue, timer>>
    /\ UNCHANGED <<signed, server, by, away>>

-----------------------------------------------------------------------------
(* The server                                                              *)

\* With a token of a live account, the rows are that account's.
Whose(who) == IF who \in live THEN who ELSE Guest

\* Only what wasn't there yet is new.
New(events) == {n \in events : rows[n] = NoRow}

\* Only what is kept counts against the day.
Counts(events) == Cardinality(New(events))

\* POST /analytics/events: all of it, or nothing past the day's room.
Take ==
    LET events == ToSet(posting) IN
    /\ post.stage = "sent"
    /\ IF taken + Counts(events) > DailyRoom
       THEN post' = [post EXCEPT !.stage = "full"] /\ UNCHANGED <<rows, taken, today, ever>>
       ELSE /\ post' = [post EXCEPT !.stage = "taken"]
            /\ rows' = [n \in DOMAIN rows |-> IF n \in New(events) THEN Whose(post.who) ELSE rows[n]]
            /\ taken' = taken + Counts(events) /\ today' = today \cup New(events)
            /\ ever' = ever \cup events
    /\ UNCHANGED <<signed, live, by, tracker, dropped>>

\* A 400, 404 or 413: the app and the server have come apart.
Refuse ==
    /\ post.stage = "sent" /\ post' = [post EXCEPT !.stage = "refused"]
    /\ UNCHANGED <<signed, server, by, tracker, dropped>>

\* Midnight, or the server started again: the day's count is in memory.
NewDay ==
    /\ taken > 0 /\ taken' = 0 /\ today' = {}
    /\ UNCHANGED <<signed, live, by, tracker, post, rows, ever, dropped>>

\* deleteUser: its rows, and what its install did as nobody unless another
\* account has been on it.
OthersToo(a) == \E n \in DOMAIN rows : rows[n] \in Accounts \ {a}
Its(a) ==
    LET own == {n \in DOMAIN rows : rows[n] = a} IN
    own \cup {n \in DOMAIN rows : own # {} /\ rows[n] = Guest /\ ~OthersToo(a)}

\* DELETE /me.  Its answer takes the token off the device later (SignOut).
DeleteAccount ==
    /\ signed \in live /\ live' = live \ {signed}
    /\ rows' = [n \in DOMAIN rows |-> IF n \in Its(signed) THEN NoRow ELSE rows[n]]
    /\ UNCHANGED <<signed, by, tracker, post, taken, today, ever, dropped>>

SignOut ==
    /\ signed \in Accounts \ live /\ signed' = Guest
    /\ UNCHANGED <<server, by, tracker, post, dropped>>

SignIn(a) ==
    /\ signed = Guest /\ a \in live /\ signed' = a
    /\ UNCHANGED <<server, by, tracker, post, dropped>>

Next ==
    \/ Track \/ TimerFires \/ Background \/ Foreground \/ Inactive \/ Failed \/ Sent
    \/ Take \/ Refuse \/ NewDay \/ DeleteAccount \/ SignOut
    \/ \E a \in Accounts : SignIn(a)

Spec == Init /\ [][Next]_vars

-----------------------------------------------------------------------------
TypeOK ==
    /\ signed \in Accounts \cup {Guest} /\ live \subseteq Accounts
    /\ by \in Seq(Accounts \cup {Guest}) /\ Len(by) <= MaxEvents
    /\ queue \in Seq(Events) /\ posting \in Seq(Events)
    /\ failures \in 0..MaxFailures /\ timer \in BOOLEAN /\ away \in BOOLEAN
    /\ after \subseteq {"flush", "leaving"}
    /\ post \in [who : Accounts \cup {Guest}, stage : {"none", "sent", "taken", "full", "refused"}]
    /\ rows \in [1..MaxEvents -> Accounts \cup {Guest, NoRow}]
    /\ taken \in Nat /\ today \subseteq Events /\ ever \subseteq Events /\ dropped \subseteq Events

\* However often sending fails and is tried again, an event is waiting, being
\* sent, kept, or one of those let go of: none is lost between a send that
\* failed and the next.
NoneMislaid == Events = ToSet(queue) \cup ToSet(posting) \cup ever \cup dropped

\* What goes next is the oldest, also after a send that failed: the queue and
\* the batch before it are in the order things happened.
OldestFirst ==
    LET all == posting \o queue IN \A i, j \in DOMAIN all : i < j => all[i] < all[j]

\* Something waiting is always on its way: a send, or the timer of one.
AlwaysOnItsWay == queue # <<>> => timer \/ Sending

\* After a send that failed the next one is the timer's, unless the app left
\* meanwhile.
BacksOff ==
    post'.stage = "sent" /\ failures' > 0 /\ (post.stage # "sent" \/ failures' # failures)
        => timer \/ away' \/ "leaving" \in after

\* A batch sent again costs the day nothing: what counts against it is what
\* was kept in it (what went with an account may be kept and count again), and
\* there is room for all of it.
CostsOnce == taken <= DailyRoom /\ (live = Accounts => taken = Cardinality(today))

-----------------------------------------------------------------------------
\* What every step keeps.
Inv ==
    /\ TypeOK /\ NoneMislaid /\ OldestFirst /\ AlwaysOnItsWay /\ CostsOnce
    /\ post.stage # "none" <=> Sending
    /\ timer => ~Sending
    /\ post.stage = "taken" => ToSet(posting) \subseteq ever
    /\ live = Accounts => \A n \in today : rows[n] # NoRow
=============================================================================
