---------------------------- MODULE NostrOutbox ----------------------------
(***************************************************************************)
(* One group's ledger on Nostr: the expenses, the changes to them and the  *)
(* settled payments become entries of an outbox (NostrLedger.sync), which  *)
(* are sent to relays in order (publish) and read back from what relays    *)
(* keep (core/nostrLedger.ts).                                             *)
(*                                                                         *)
(* An entry is its place in `outbox`: its seq is its index, and its event  *)
(* with its signature, encryption and link to the entry before stands for  *)
(* itself.  What an expense says is the number of the change that wrote    *)
(* it, 0 as it was added.  The server's clock does not go back; two        *)
(* requests may fall in the same instant of it.                            *)
(***************************************************************************)
EXTENDS Integers, FiniteSets, Sequences, SequencesExt

CONSTANTS
    Expenses,     \* expense ids
    Settlements,  \* settlement ids
    Relays,       \* LEDGER_RELAYS
    BatchSize,    \* how many unpublished entries one tick takes (LIMIT 50)
    MaxChanges    \* bound on edits and removals

ASSUME OutboxAssumption ==
    /\ Expenses \cap Settlements = {}
    /\ Relays # {}
    /\ BatchSize \in Nat \ {0}
    /\ MaxChanges \in Nat

VARIABLES
    now,       \* the clock
    expenses,  \* the expenses table
    changes,   \* expense_changes, in the order of their ids
    settled,   \* the settlements that are confirmed
    outbox,    \* ledger_entries
    published, \* the entries with published_at
    queue,     \* the entries publish() has still to send
    sent,      \* the entries that have been on the wire
    relay      \* what each relay keeps

vars == <<now, expenses, changes, settled, outbox, published, queue, sent, relay>>

book == <<now, expenses, changes, settled>>

Removed == -1

Says == {Removed} \cup 0 .. MaxChanges

Init ==
    /\ now = 0
    /\ expenses = {} /\ changes = <<>> /\ settled = {}
    /\ outbox = <<>>
    /\ published = {} /\ queue = <<>> /\ sent = {}
    /\ relay = [r \in Relays |-> {}]

---------------------------------------------------------------------------
(* The group's ledger, as requests change it *)

\* nowIso(), at the same instant as the last write or later.
At(t) == t \in {now, now + 1} /\ now' = t

UnusedExpense(e) ==
    /\ \A x \in expenses : x.id # e
    /\ \A k \in DOMAIN changes : changes[k].expense # e

\* insertExpense
AddExpense(e, t) ==
    /\ UnusedExpense(e) /\ At(t)
    /\ expenses' = expenses \cup {[id |-> e, says |-> 0, at |-> t]}
    /\ UNCHANGED <<changes, settled, outbox, published, queue, sent, relay>>

\* updateExpense: the row keeps its time, the change notes how it reads now.
EditExpense(x, t) ==
    /\ Len(changes) < MaxChanges /\ At(t)
    /\ changes' = Append(changes, [expense |-> x.id, says |-> Len(changes) + 1, at |-> t])
    /\ expenses' = (expenses \ {x}) \cup {[id |-> x.id, says |-> Len(changes) + 1, at |-> x.at]}
    /\ UNCHANGED <<settled, outbox, published, queue, sent, relay>>

\* deleteExpense
RemoveExpense(x, t) ==
    /\ Len(changes) < MaxChanges /\ At(t)
    /\ changes' = Append(changes, [expense |-> x.id, says |-> Removed, at |-> t])
    /\ expenses' = expenses \ {x}
    /\ UNCHANGED <<settled, outbox, published, queue, sent, relay>>

\* A settlement reaches one of LEDGER_STATUSES, and stays.
Settle(s, t) ==
    /\ \A x \in settled : x.id # s
    /\ At(t)
    /\ settled' = settled \cup {[id |-> s, at |-> t]}
    /\ UNCHANGED <<expenses, changes, outbox, published, queue, sent, relay>>

---------------------------------------------------------------------------
(* sync() *)

HasEntry(kind, id) == \E i \in DOMAIN outbox : outbox[i].kind = kind /\ outbox[i].id = id

\* What an entry is to be about: an expense as it reads now (subject), a change as it
\* was noted, each with its time and, for a change, its number.
OfExpense(x) ==
    [kind |-> "expense", id |-> x.id, about |-> x.id, says |-> x.says, at |-> x.at, ord |-> 0]
OfChange(k) ==
    [kind |-> "change", id |-> k, about |-> changes[k].expense, says |-> changes[k].says,
     at |-> changes[k].at, ord |-> k]
OfSettlement(x) ==
    [kind |-> "settlement", id |-> x.id, about |-> x.id, says |-> 0, at |-> x.at, ord |-> 0]

\* What has no entry yet.
Due ==
    {OfExpense(x) : x \in {x \in expenses : ~HasEntry("expense", x.id)}}
    \cup {OfChange(k) : k \in {k \in DOMAIN changes : ~HasEntry("change", k)}}
    \cup {OfSettlement(x) : x \in {x \in settled : ~HasEntry("settlement", x.id)}}

\* Mutant: ordered by time alone.
EarlierOnly(d, c) == d.at < c.at

\* ORDER BY at, ord: random ids settle what is left.
Earlier(d, c) == d.at < c.at \/ (d.at = c.at /\ d.ord < c.ord)

Orders == {q \in SetToSeqs(Due) : \A i, j \in DOMAIN q : i < j => ~Earlier(q[j], q[i])}

EntryFor(d) == [kind |-> d.kind, id |-> d.id, about |-> d.about, says |-> d.says]

---------------------------------------------------------------------------
(* publish() *)

\* The nth of a set of numbers.
Nth(S, n) == CHOOSE i \in S : Cardinality({j \in S : j <= i}) = n

\* The first of them, up to the limit.
Batch(S) ==
    [n \in 1 .. (IF Cardinality(S) < BatchSize THEN Cardinality(S) ELSE BatchSize) |-> Nth(S, n)]

\* Mutant: what has been sent once is not sent again.
UnsentOnce(entries) == Batch(DOMAIN entries \ (published \cup sent))

\* The unpublished entries, oldest first, up to the limit.
Unsent(entries) == Batch(DOMAIN entries \ published)

\* The first of a queue goes to every relay at once.
Send(q) ==
    /\ queue' = q
    /\ sent' = IF q = <<>> THEN sent ELSE sent \cup {Head(q)}

\* tick(): sync, then publish() up to its first answer.
Tick ==
    /\ queue = <<>>
    /\ \E order \in Orders :
          /\ outbox' = outbox \o [i \in DOMAIN order |-> EntryFor(order[i])]
          /\ Send(Unsent(outbox'))
    /\ UNCHANGED <<book, published, relay>>

\* A relay gets an entry that was sent to it, soon, late or again.
Deliver(r, i) ==
    /\ i \in sent \ relay[r]
    /\ relay' = [relay EXCEPT ![r] = @ \cup {i}]
    /\ UNCHANGED <<book, outbox, published, queue, sent>>

\* Some relay has it and says so: it is marked, and the next one goes out.
Accepted ==
    /\ queue # <<>>
    /\ \E r \in Relays : Head(queue) \in relay[r]
    /\ published' = published \cup {Head(queue)}
    /\ Send(Tail(queue))
    /\ UNCHANGED <<book, outbox, relay>>

\* Mutant: a refusal skips the entry and goes on.
RefusedGoesOn ==
    /\ queue # <<>>
    /\ Send(Tail(queue))
    /\ UNCHANGED <<book, outbox, published, relay>>

\* No relay takes it, or none answers in time, whatever they have got: the
\* rest waits for the next tick.
Refused ==
    /\ queue # <<>>
    /\ queue' = <<>>
    /\ UNCHANGED <<book, outbox, published, sent, relay>>

\* The process stops before it has marked the entry, and is started again.
Restart ==
    /\ queue # <<>>
    /\ queue' = <<>>
    /\ UNCHANGED <<book, outbox, published, sent, relay>>

---------------------------------------------------------------------------
(* readLedger(), on the entries S that relays return *)

EntriesAbout(S, x) == {i \in S : outbox[i].about = x}

\* The last word on an expense.
LastWord(S, x) == CHOOSE i \in EntriesAbout(S, x) : \A j \in EntriesAbout(S, x) : j <= i

ReadLedger(S) ==
    {[id |-> x, says |-> outbox[LastWord(S, x)].says] :
        x \in {x \in Expenses \cup Settlements :
                  EntriesAbout(S, x) # {} /\ outbox[LastWord(S, x)].says # Removed}}

\* The places i + 1 of the entries that are not where they belong, in order.
MissingSaid(S) ==
    {i \in 1 .. Cardinality(S) :
        \E j \in S : Cardinality({k \in S : k <= j}) = i /\ j # i}

---------------------------------------------------------------------------
Next ==
    \/ \E t \in {now, now + 1} :
          \/ \E e \in Expenses : AddExpense(e, t)
          \/ \E x \in expenses : EditExpense(x, t) \/ RemoveExpense(x, t)
          \/ \E s \in Settlements : Settle(s, t)
    \/ Tick
    \/ \E r \in Relays, i \in sent : Deliver(r, i)
    \/ Accepted \/ Refused \/ Restart

Spec == Init /\ [][Next]_vars

\* Ticks go on; an entry that is sent again and again gets to some relay, and
\* is answered once it has: no outage of all the relays lasts for ever.
Fairness ==
    /\ WF_vars(Tick)
    /\ SF_vars(\E r \in Relays : queue # <<>> /\ Deliver(r, Head(queue)))
    /\ SF_vars(Accepted)

FairSpec == Spec /\ Fairness

---------------------------------------------------------------------------
(* Properties *)

Entry == [kind: {"expense", "change", "settlement"},
          id: Expenses \cup Settlements \cup 1 .. MaxChanges,
          about: Expenses \cup Settlements, says: Says]

TypeOK ==
    /\ now \in Nat
    /\ expenses \subseteq [id: Expenses, says: 0 .. MaxChanges, at: Nat]
    /\ changes \in Seq([expense: Expenses, says: Says, at: Nat]) /\ Len(changes) <= MaxChanges
    /\ settled \subseteq [id: Settlements, at: Nat]
    /\ outbox \in Seq(Entry)
    /\ published \subseteq DOMAIN outbox /\ sent \subseteq DOMAIN outbox
    /\ queue \in Seq(DOMAIN outbox)
    /\ relay \in [Relays -> SUBSET sent]

\* The ledger as the database has it now.
LedgerNow ==
    {[id |-> x.id, says |-> x.says] : x \in expenses}
    \cup {[id |-> x.id, says |-> 0] : x \in settled}

Record == INSTANCE GroupRecord WITH ledger <- LedgerNow, record <- ReadLedger(DOMAIN outbox)

\* After every sync the entries read back to the ledger of that moment,
\* whatever was edited and removed before it had an entry (nostrLedger.ts:14-16).
KeepsRecord == Record!Spec

OnRelays == UNION {relay[r] : r \in Relays}

\* The relays together have no gap: an entry is sent only when a relay has the
\* one before it (publish stops at the first that fails).
NoGapOnRelays == MissingSaid(OnRelays) = {}

\* An entry the server counts as published is on a relay, and so is everything
\* before it, so the newest one can be followed back (backup().latest).
PublishedCanBeRead ==
    \A i \in published : 1 .. i \subseteq OnRelays

\* Together, what is sent can be followed back from its newest entry.
ReadableInOrder == TypeOK /\ NoGapOnRelays /\ PublishedCanBeRead

\* nostrLedger.ts:20: "a relay outage or a restart only delays publishing": in
\* the end, what the relays keep reads as the ledger does.
EventuallyWhole == <>[](ReadLedger(OnRelays) = LedgerNow)
=============================================================================
