--------------------------- MODULE PaymentUpdates ---------------------------
(* How the app follows one payment: the server's stream of it                *)
(* (api/routes/events.ts), the EventSource that listens, and the polling it  *)
(* falls back on (ApiClient's stream and poll). A reading of the payment is  *)
(* the number of changes it has been through; from Finish on it is over,     *)
(* and a proof may still change it.                                          *)
EXTENDS Naturals, Sequences

CONSTANTS
    HasStream,     \* an EventSource can be used: a browser, and no token to send
    Finish,        \* the change that finishes the payment
    Last,          \* bound: changes
    MaxChecks,     \* maxMs, in checks of the stream
    MaxDrops       \* bound: failures of the network

\* Assumed of the constants, wherever they are given values.
PaymentUpdatesAssumption ==
    /\ HasStream \in BOOLEAN /\ Finish \in Nat /\ Last \in Nat /\ Finish <= Last
    /\ MaxChecks \in Nat /\ MaxDrops \in Nat

Nothing == Last + 1    \* stands for "no reading"

VARIABLES
    row,           \* the payment's last change
    gone,          \* whether its group was deleted, and it with it
    source,        \* the EventSource: none, connecting, open, closed
    server,        \* the stream's loop: whether it runs, what it sent, its checks left
    pipe,          \* readings sent and not yet heard, and "end"
    poll,          \* the polling: none, waiting, asking, stopped, done
    answer,        \* what the request under way has read
    stopped,       \* whether the screen let go of it
    heard,         \* the last reading the screen was given
    drops          \* how often the network failed

stream == <<source, server, pipe>>
polling == <<poll, answer>>
vars == <<row, gone, stream, polling, stopped, heard, drops>>

Reading == 0 .. Last
Done(v) == v \in Finish .. Last

TypeOK ==
    /\ row \in Reading /\ gone \in BOOLEAN /\ stopped \in BOOLEAN
    /\ source \in {"none", "connecting", "open", "closed"}
    /\ server \in [runs : BOOLEAN, sent : Reading \cup {Nothing}, left : 0 .. MaxChecks]
    /\ pipe \in Seq(Reading \cup {Nothing})
    /\ poll \in {"none", "waiting", "asking", "done"}
    /\ answer \in Reading \cup {Nothing}
    /\ heard \in Reading \cup {Nothing}
    /\ drops \in 0 .. MaxDrops

AtRest == [runs |-> FALSE, sent |-> Nothing, left |-> 0]

\* onSettlementUpdate: a stream where there can be one, and polling elsewhere.
Init ==
    /\ row = 0 /\ gone = FALSE
    /\ source = IF HasStream THEN "connecting" ELSE "none"
    /\ server = AtRest /\ pipe = <<>>
    /\ poll = IF HasStream THEN "none" ELSE "waiting"
    /\ answer = Nothing /\ stopped = FALSE /\ heard = Nothing /\ drops = 0

-----------------------------------------------------------------------------
(* The payment, changed by whoever works on it.                             *)

Change ==
    /\ ~gone /\ row < Last
    /\ row' = row + 1
    /\ UNCHANGED <<gone, stream, polling, stopped, heard, drops>>

\* Its group can be deleted only with nothing under way.
Delete ==
    /\ ~gone /\ Done(row)
    /\ gone' = TRUE
    /\ UNCHANGED <<row, stream, polling, stopped, heard, drops>>

-----------------------------------------------------------------------------
(* The server's stream.                                                     *)

\* The request is answered with a stream, or refused: the payment is gone.
Connect ==
    /\ source = "connecting"
    /\ IF gone
       THEN pipe' = <<Nothing>> /\ UNCHANGED <<source, server>>
       ELSE /\ source' = "open"
            /\ server' = [runs |-> TRUE, sent |-> Nothing, left |-> MaxChecks]
            /\ UNCHANGED pipe
    /\ pipe = <<>>
    /\ UNCHANGED <<row, gone, polling, stopped, heard, drops>>

\* The time a stream is given is over.
Expired == server.left = 0

\* The end of the stream is heard as an error, after what was sent before it.
Ends == server' = AtRest /\ pipe' = IF source = "open" THEN Append(pipe, Nothing) ELSE pipe

\* A reading is sent when it isn't the one sent last.
IsNews(v) == server.sent # v

\* One turn of the loop: it looks whether anybody listens, reads, sends what is
\* new, and is over with a payment that is.
Check ==
    /\ server.runs
    /\ IF source # "open" \/ Expired \/ gone
       THEN Ends
       ELSE IF IsNews(row) /\ Done(row)
       THEN server' = AtRest /\ pipe' = Append(Append(pipe, row), Nothing)
       ELSE /\ server' = [runs |-> TRUE, sent |-> row, left |-> server.left - 1]
            /\ pipe' = IF IsNews(row) THEN Append(pipe, row) ELSE pipe
    /\ UNCHANGED <<row, gone, source, polling, stopped, heard, drops>>

-----------------------------------------------------------------------------
(* The app's side.                                                          *)

Close == source' = "closed" /\ pipe' = <<>>

Closes(v) == Done(v)

\* An event: handed on, and the last one closes the source.
Hear ==
    /\ source = "open" /\ pipe # <<>> /\ Head(pipe) # Nothing
    /\ heard' = Head(pipe)
    /\ IF Closes(Head(pipe)) THEN Close ELSE pipe' = Tail(pipe) /\ UNCHANGED source
    /\ UNCHANGED <<row, gone, server, polling, stopped, drops>>

\* The source is closed for good, and polling takes over.
HandsOver == Close /\ poll' = "waiting"

\* The stream ended or broke before the payment was over.
Error ==
    /\ source \in {"connecting", "open"}
    /\ \/ pipe # <<>> /\ Head(pipe) = Nothing /\ UNCHANGED drops
       \/ drops < MaxDrops /\ drops' = drops + 1
    /\ HandsOver
    /\ UNCHANGED <<row, gone, server, answer, stopped, heard>>

\* Every POLL_MS: ask; what the server reads then; what is made of the answer.
Ask ==
    /\ poll = "waiting" /\ ~stopped
    /\ poll' = "asking" /\ answer' = Nothing
    /\ UNCHANGED <<row, gone, stream, stopped, heard, drops>>

Read ==
    /\ poll = "asking" /\ answer = Nothing /\ ~gone
    /\ answer' = row
    /\ UNCHANGED <<row, gone, stream, poll, stopped, heard, drops>>

\* Mutant: an answer is handed on after the screen let go.
GivenOnAnyway == TRUE

\* An answer that comes after the screen let go is dropped.
GivenOn == ~stopped

Polled ==
    /\ poll = "asking" /\ answer # Nothing
    /\ IF GivenOn
       THEN heard' = answer /\ poll' = IF Done(answer) THEN "done" ELSE "waiting"
       ELSE poll' = "done" /\ UNCHANGED heard
    /\ answer' = Nothing
    /\ UNCHANGED <<row, gone, stream, stopped, drops>>

\* A poll that fails is tried again, and so is one of a payment that is gone.
TriesAgain == poll' = "waiting"

PollFails ==
    /\ poll = "asking"
    /\ \/ gone /\ answer = Nothing /\ UNCHANGED drops
       \/ drops < MaxDrops /\ drops' = drops + 1
    /\ TriesAgain /\ answer' = Nothing
    /\ UNCHANGED <<row, gone, stream, stopped, heard>>

\* The screen lets go: the source is closed, and polling stops at its next turn.
Unsubscribe ==
    /\ ~stopped
    /\ stopped' = TRUE
    /\ source' = IF source = "none" THEN "none" ELSE "closed"
    /\ pipe' = <<>>
    /\ UNCHANGED <<row, gone, server, polling, heard, drops>>

Next ==
    \/ Change \/ Delete
    \/ Connect \/ Check
    \/ Hear \/ Error \/ Ask \/ Read \/ Polled \/ PollFails
    \/ Unsubscribe

Spec == Init /\ [][Next]_vars

-----------------------------------------------------------------------------
\* A screen is never given an older reading after a newer one, whichever way
\* each came, and none after it let go.
OnlyForward ==
    heard' # heard => ~stopped /\ (heard = Nothing \/ heard' > heard)

\* Until it has heard the end, a screen that is still there has exactly one way
\* to hear of it under way: a stream that drops, ends by its time or is refused
\* is taken over by polling, and polling outlives every failure.
OneWayToHear ==
    ~stopped /\ (heard = Nothing \/ ~Done(heard)) =>
        ((source \in {"connecting", "open"}) # (poll \in {"waiting", "asking"}))

\* A source never listens to nothing: behind an open one the loop runs, or has
\* ended and said so, so the hand-over to polling always comes.
OpenHasAnEnd ==
    source = "open" => server.runs \/ \E i \in DOMAIN pipe : pipe[i] = Nothing

\* A screen that heard the end has neither a source open nor a poll to come.
ClosedWhenHeard == heard # Nothing /\ Done(heard) => source # "open" /\ poll # "waiting"

\* What is on its way is newer than what was heard, each than the one before, and the end
\* comes last; the loop knows what it sent, and nothing is newer than the payment.
NewerFollows ==
    /\ \A i, j \in DOMAIN pipe : i < j => pipe[i] < pipe[j]
    /\ \A i \in DOMAIN pipe :
          /\ heard # Nothing => heard < pipe[i]
          /\ pipe[i] # Nothing => pipe[i] <= row
          /\ server.runs => server.sent # Nothing /\ pipe[i] <= server.sent
    /\ \A v \in {heard, answer, server.sent} : v # Nothing => v <= row
    /\ heard # Nothing /\ answer # Nothing => heard <= answer
    /\ heard # Nothing /\ server.runs /\ source = "open" =>
            server.sent # Nothing /\ heard <= server.sent

\* A stream and polling are not used at once: polling starts when the stream is closed.
Turns ==
    /\ source \in {"connecting", "open"} => ~stopped /\ poll = "none"
    /\ source = "connecting" => heard = Nothing /\ ~server.runs
    /\ source \notin {"connecting", "open"} => pipe = <<>>
    /\ answer # Nothing => poll = "asking"
    /\ heard # Nothing /\ Done(heard) => poll # "asking"

\* What every step keeps.
Inv ==
    TypeOK /\ OneWayToHear /\ OpenHasAnEnd /\ ClosedWhenHeard /\ NewerFollows /\ Turns
=============================================================================
