--------------------------- MODULE AddressInvoices ---------------------------
(* Invoices from a Lightning address (src/apps/api/src/lnurl.ts, bolt11.ts): *)
(* the address's pay parameters, read or cached, an invoice from their       *)
(* callback, checked, and its verify link. The address's server is somebody  *)
(* else's and may say anything. Its parameters come in versions, each with   *)
(* the limit and the metadata of its own; a payment hash is a number.        *)
EXTENDS Naturals, FiniteSets, Sequences, SequencesExt

CONSTANTS
    Asks,         \* the requests for an invoice
    Addresses,
    AddressOf,    \* which address each asks
    Versions,     \* the parameters an address may have, numbered 1..Versions
    Amount,       \* what everybody asks for; version v takes up to v
    CacheTime,    \* cacheMs
    CacheEntries,
    MaxTime       \* where the clock stops

\* Assumed of the constants, wherever they are given values.
AddressAssumption ==
    /\ AddressOf \in [Asks -> Addresses]
    /\ Versions \in Nat \ {0} /\ Amount \in Nat \ {0}
    /\ CacheTime \in Nat /\ CacheEntries \in Nat \ {0} /\ MaxTime \in Nat

VARIABLES
    clock,
    current,      \* the version each address has now
    cache,        \* the map's entries, oldest first
    ask,          \* of each request: its stage, and the parameters it goes by
    given,        \* of each request: the invoice handed on
    verified,     \* of each request: what its verify link was taken to say
    paid          \* the payment hashes paid

vars == <<clock, current, cache, ask, given, verified, paid>>

Hashes == 0..2                \* 0: no hash, or none that can be read
NoInvoice == [hash |-> 0, pays |-> 0, verify |-> FALSE]
Stages == {"new", "params", "invoice", "given", "refused"}

TypeOK ==
    /\ clock \in 0..MaxTime
    /\ current \in [Addresses -> 1..Versions]
    /\ \A n \in DOMAIN cache : cache[n].address \in Addresses /\ cache[n].version \in 1..Versions
    /\ \A r \in Asks : ask[r].stage \in Stages /\ ask[r].version \in 0..Versions
    /\ verified \in [Asks -> {"notAsked", "unpaid", "paid"}]
    /\ paid \subseteq Hashes

Init ==
    /\ clock = 0
    /\ current = [a \in Addresses |-> 1]
    /\ cache = <<>>
    /\ ask = [r \in Asks |-> [stage |-> "new", version |-> 0, readAt |-> 0, usedAt |-> 0]]
    /\ given = [r \in Asks |-> NoInvoice]
    /\ verified = [r \in Asks |-> "notAsked"]
    /\ paid = {}

-----------------------------------------------------------------------------
(* The pay parameters *)

\* Where the address's entry is, if it has one.
Entry(a) == {n \in DOMAIN cache : cache[n].address = a}

\* An entry is good for a while from when it was set. Mutant: as long as it stays.
HitEver(a) == Entry(a)
Hit(a) == {n \in Entry(a) : cache[n].until > clock}

\* The parameters are known, if the amount is within their limits the callback
\* is asked, else the request is refused.
GoesBy(version, readAt) ==
    [stage |-> IF Amount <= version THEN "invoice" ELSE "refused",
     version |-> version, readAt |-> readAt, usedAt |-> clock]

\* The same parameters gone by, at another stage.
At(r, stage) ==
    [stage |-> stage, version |-> ask[r].version, readAt |-> ask[r].readAt,
     usedAt |-> ask[r].usedAt]

Begin(r) ==
    /\ ask[r].stage = "new"
    /\ \/ /\ \E n \in Hit(AddressOf[r]) :
               ask' = [ask EXCEPT ![r] = GoesBy(cache[n].version, cache[n].readAt)]
          /\ UNCHANGED cache
       \/ /\ Hit(AddressOf[r]) = {}
          /\ ask' = [ask EXCEPT ![r] = At(r, "params")]
          /\ \/ Entry(AddressOf[r]) = {} /\ UNCHANGED cache
             \/ \E n \in Entry(AddressOf[r]) : cache' = RemoveAt(cache, n)
    /\ UNCHANGED <<clock, current, given, verified, paid>>

\* The oldest entry makes room. Mutant: one entry too late.
RoomAtFirst(a) == IF Len(cache) > CacheEntries THEN Tail(cache) ELSE cache
Room(a) == IF Len(cache) >= CacheEntries THEN Tail(cache) ELSE cache

\* Set again, an entry keeps its place in the map.
Kept(entries, e) ==
    IF \E n \in DOMAIN entries : entries[n].address = e.address
    THEN [n \in DOMAIN entries |-> IF entries[n].address = e.address THEN e ELSE entries[n]]
    ELSE Append(entries, e)

\* The parameters come, as the address has them or had them when it answered.
ParamsCome(r) ==
    /\ ask[r].stage = "params"
    /\ LET a == AddressOf[r]
           e == [address |-> a, version |-> current[a],
                 readAt |-> clock, until |-> clock + CacheTime]
       IN  /\ cache' = Kept(Room(a), e)
           /\ ask' = [ask EXCEPT ![r] = GoesBy(e.version, clock)]
    /\ UNCHANGED <<clock, current, given, verified, paid>>

-----------------------------------------------------------------------------
(* The invoice *)

\* The p fields of an invoice, in order; 0 is one of the wrong length.
\* decodeBolt11 skips that and takes the first good one, which is what the
\* payer's wallet pays. Mutant: the last good one.
Good(fields) == {n \in DOMAIN fields : fields[n] # 0}
LastGood(fields) == IF Good(fields) = {} THEN 0 ELSE fields[Max(Good(fields))]
PaymentHash(fields) == IF Good(fields) = {} THEN 0 ELSE fields[Min(Good(fields))]
WalletPays(fields) == IF Good(fields) = {} THEN 0 ELSE fields[Min(Good(fields))]

\* What an invoice must be to be handed on: readable, on our network and for the
\* amount asked (asAsked), about the metadata of the parameters gone by, not
\* yet over.
Usable(r, i) ==
    /\ PaymentHash(i.fields) # 0
    /\ i.asAsked
    /\ i.commits = ask[r].version
    /\ i.expiresAt > clock

AnyInvoice ==
    [fields : {<<>>, <<0, 2>>, <<1, 2>>}, asAsked : BOOLEAN, commits : 0..Versions,
     expiresAt : {clock, clock + 1}, verify : BOOLEAN]

InvoiceComes(r) ==
    /\ ask[r].stage = "invoice"
    /\ \E i \in AnyInvoice :
        IF Usable(r, i)
        THEN /\ ask' = [ask EXCEPT ![r] = At(r, "given")]
             /\ given' = [given EXCEPT ![r] =
                   [hash |-> PaymentHash(i.fields), pays |-> WalletPays(i.fields),
                    verify |-> i.verify]]
        ELSE ask' = [ask EXCEPT ![r] = At(r, "refused")] /\ UNCHANGED given
    /\ UNCHANGED <<clock, current, cache, verified, paid>>

\* The server cannot be reached, refuses, or sends nothing that can be used.
Refused(r) ==
    /\ ask[r].stage \in {"params", "invoice"}
    /\ ask' = [ask EXCEPT ![r] = At(r, "refused")]
    /\ UNCHANGED <<clock, current, cache, given, verified, paid>>

-----------------------------------------------------------------------------
(* The verify link *)

\* The payer's wallet pays an invoice handed on.
Pay(r) ==
    /\ ask[r].stage = "given" /\ given[r].pays \notin paid
    /\ paid' = paid \cup {given[r].pays}
    /\ UNCHANGED <<clock, current, cache, ask, given, verified>>

\* `settled` counts only with a preimage of the invoice's payment hash, which
\* nobody but the receiver has before it is paid. Mutant: the word is enough.
TakenAsPaidOnWord(settled, preimage, hash) == settled
TakenAsPaid(settled, preimage, hash) == settled /\ preimage = hash

Verify(r) ==
    /\ ask[r].stage = "given" /\ given[r].verify
    /\ \E settled \in BOOLEAN, preimage \in paid \cup {0} :
        verified' = [verified EXCEPT ![r] =
            IF TakenAsPaid(settled, preimage, given[r].hash) THEN "paid" ELSE "unpaid"]
    /\ UNCHANGED <<clock, current, cache, ask, given, paid>>

Changes(a) ==
    /\ current[a] < Versions
    /\ current' = [current EXCEPT ![a] = @ + 1]
    /\ UNCHANGED <<clock, cache, ask, given, verified, paid>>

Tick ==
    /\ clock < MaxTime
    /\ clock' = clock + 1
    /\ UNCHANGED <<current, cache, ask, given, verified, paid>>

Next ==
    \/ \E r \in Asks :
        Begin(r) \/ ParamsCome(r) \/ InvoiceComes(r) \/ Refused(r) \/ Pay(r) \/ Verify(r)
    \/ \E a \in Addresses : Changes(a)
    \/ Tick

Spec == Init /\ [][Next]_vars

-----------------------------------------------------------------------------
\* Typing many addresses does not grow the cache, even when lookups for one
\* address overlap (lnurl.ts: cacheEntries).
CacheIsSmall == Len(cache) <= CacheEntries

\* An invoice is asked for by parameters the address had at most a cache time
\* ago.
ParamsAreRecent ==
    \A r \in Asks : ask[r].stage \in {"invoice", "given"} =>
        ask[r].usedAt - ask[r].readAt <= CacheTime

\* The payment that is watched for is the one the payer's wallet makes for the
\* invoice it was shown, and a verify link is taken to say that it was made
\* only when it was, whatever the address's server answers.
PaidWasPaid ==
    \A r \in Asks :
        /\ ask[r].stage = "given" => given[r].hash = given[r].pays
        /\ verified[r] = "paid" => given[r].pays \in paid

-----------------------------------------------------------------------------
Entries ==
    [address : Addresses, version : 1..Versions, readAt : 0..MaxTime, until : Nat]

\* What every step keeps.
Inv ==
    /\ TypeOK /\ CacheIsSmall /\ ParamsAreRecent /\ PaidWasPaid
    /\ cache \in Seq(Entries)
    /\ \A n \in DOMAIN cache : cache[n].until = cache[n].readAt + CacheTime
    /\ ask \in [Asks -> [stage : Stages, version : 0..Versions, readAt : 0..MaxTime,
                         usedAt : 0..MaxTime]]
    /\ given \in [Asks -> [hash : Hashes, pays : Hashes, verify : BOOLEAN]]
    /\ \A r \in Asks :
        /\ ask[r].stage = "given" => given[r].hash # 0
        /\ verified[r] = "paid" => ask[r].stage = "given"
=============================================================================
