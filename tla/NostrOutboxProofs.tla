-------------------------- MODULE NostrOutboxProofs --------------------------
(***************************************************************************)
(* TLAPS proofs about NostrOutbox, for any expenses, settlements, relays,  *)
(* changes and size of a batch.                                            *)
(***************************************************************************)
EXTENDS NostrOutbox, FiniteSetTheorems, SequenceTheorems, NaturalsInduction, TLAPS

-----------------------------------------------------------------------------
(* What one tick takes of the entries that are not published.              *)

LEMMA NthOfInterval ==
    ASSUME NEW p \in Nat, NEW m \in Nat, NEW n \in 1..(m - p)
    PROVE  Nth((p + 1)..m, n) = p + n
<1> DEFINE S == (p + 1)..m
<1>1. p + n \in S
  OBVIOUS
<1>2. \A i \in S : Cardinality({j \in S : j <= i}) = i - p
  <2> SUFFICES ASSUME NEW i \in S PROVE Cardinality({j \in S : j <= i}) = i - p
    OBVIOUS
  <2>1. {j \in S : j <= i} = (p + 1)..i
    OBVIOUS
  <2>2. Cardinality((p + 1)..i) = i - (p + 1) + 1
    <3>1. p + 1 \in Int /\ i \in Int /\ ~(p + 1 > i)
      OBVIOUS
    <3> QED
      BY <3>1, FS_Interval
  <2>3. i - (p + 1) + 1 = i - p
    OBVIOUS
  <2> HIDE DEF S
  <2> QED
    BY <2>1, <2>2, <2>3
<1>3. \A i \in S : Cardinality({j \in S : j <= i}) = n <=> i = p + n
  BY <1>2
<1> QED
  BY <1>1, <1>3 DEF Nth

\* They are the next ones, without a gap.
LEMMA BatchOfInterval ==
    ASSUME NEW p \in Nat, NEW m \in Nat, p <= m
    PROVE  /\ Batch((p + 1)..m) \in Seq((p + 1)..m)
           /\ p + Len(Batch((p + 1)..m)) <= m
           /\ \A i \in 1..Len(Batch((p + 1)..m)) : Batch((p + 1)..m)[i] = p + i
<1> DEFINE S == (p + 1)..m
           n == IF Cardinality(S) < BatchSize THEN Cardinality(S) ELSE BatchSize
<1>1. Cardinality(S) = m - p
  <2>1. p + 1 \in Int /\ m \in Int
    OBVIOUS
  <2>2. Cardinality(S) = IF p + 1 > m THEN 0 ELSE m - (p + 1) + 1
    BY <2>1, FS_Interval
  <2> HIDE DEF S
  <2> QED
    BY <2>2
<1>2. n \in Nat /\ n <= m - p
  BY <1>1, OutboxAssumption
<1>3. \A i \in 1..n : Nth(S, i) = p + i /\ p + i \in S
  <2> TAKE i \in 1..n
  <2>1. i \in 1..(m - p)
    BY <1>2
  <2> QED
    BY <2>1, NthOfInterval
<1> HIDE DEF n
<1>4. Batch(S) = [i \in 1..n |-> Nth(S, i)]
  BY DEF Batch, n
<1>5. Batch(S) = [i \in 1..n |-> p + i] /\ [i \in 1..n |-> p + i] \in [1..n -> S]
  BY <1>3, <1>4
<1>6. Batch(S) \in Seq(S) /\ Len(Batch(S)) = n
  BY <1>2, <1>5
<1> QED
  BY <1>2, <1>5, <1>6

-----------------------------------------------------------------------------
(* Types.                                                                  *)

\* A sync files what is due after what there is.
Filed(order) == [i \in DOMAIN order |-> EntryFor(order[i])]

LEMMA ChangeTyped ==
    ASSUME TypeOK, NEW k \in DOMAIN changes
    PROVE  /\ changes[k] \in [expense: Expenses, says: Says, at: Nat]
           /\ k \in 1..MaxChanges /\ k \in 1..Len(changes)
<1> DEFINE R == [expense: Expenses, says: Says, at: Nat]
<1>1. changes \in Seq(R) /\ Len(changes) <= MaxChanges
  BY DEF TypeOK
<1> HIDE DEF R
<1>2. Len(changes) \in Nat /\ DOMAIN changes = 1..Len(changes) /\ \A i \in DOMAIN changes : changes[i] \in R
  BY <1>1
<1>3. k \in 1..MaxChanges
  BY <1>1, <1>2, OutboxAssumption
<1> QED
  BY <1>2, <1>3 DEF R

LEMMA DueTyped ==
    ASSUME TypeOK, NEW d \in Due
    PROVE  EntryFor(d) \in Entry
<1> USE DEF TypeOK, Entry, EntryFor, OfExpense, OfChange, OfSettlement
<1>1. CASE \E x \in expenses :
              d = OfExpense(x)
  BY <1>1 DEF Says
<1>2. CASE \E k \in DOMAIN changes :
              d = OfChange(k) 
  <2>1. PICK k \in DOMAIN changes :
          d = OfChange(k)
    BY <1>2
  <2>2. changes[k] \in [expense: Expenses, says: Says, at: Nat] /\ k \in 1..MaxChanges
    BY ChangeTyped
  <2> QED
    BY <2>1, <2>2
<1>3. CASE \E x \in settled :
              d = OfSettlement(x)
  BY <1>3, OutboxAssumption DEF Says
<1> QED
  BY <1>1, <1>2, <1>3 DEF Due

\* The sync of a tick files each thing that is due once, none before one that is earlier.
LEMMA OrdersFacts ==
    ASSUME IsFiniteSet(Due), NEW order \in Orders
    PROVE  /\ order \in Seq(Due) /\ DOMAIN order = 1..Len(order)
           /\ \A d \in Due : \E i \in DOMAIN order : order[i] = d
           /\ \A i, j \in DOMAIN order : order[i] = order[j] => i = j
           /\ \A i, j \in DOMAIN order : i < j => ~Earlier(order[j], order[i])
<1> DEFINE n == Cardinality(Due)
<1>1. n \in Nat
  BY FS_CardinalityType
<1>2. /\ order \in [1..n -> Due]
      /\ \A i, j \in 1..n : i # j => order[i] # order[j]
      /\ \A i, j \in DOMAIN order : i < j => ~Earlier(order[j], order[i])
  BY DEF Orders, SetToSeqs
<1>3. order \in Injection(1..n, Due)
  BY <1>2 DEF Injection, IsInjective
<1>4. Cardinality(1..n) = n
  <2>1. Cardinality(1..n) = IF 1 > n THEN 0 ELSE n - 1 + 1
    BY <1>1, FS_Interval
  <2> HIDE DEF n
  <2> QED
    BY <1>1, <2>1
<1>5. order \in Surjection(1..n, Due)
  BY <1>3, <1>4, FS_Injection
<1>6. \A d \in Due : \E i \in 1..n : order[i] = d
  BY <1>5 DEF Surjection
<1> HIDE DEF n
<1>7. order \in Seq(Due) /\ Len(order) = n /\ DOMAIN order = 1..n
  BY <1>1, <1>2
<1> QED
  BY <1>2, <1>6, <1>7

LEMMA FiledTyped ==
    ASSUME TypeOK, IsFiniteSet(Due), NEW order \in Orders
    PROVE  /\ Filed(order) \in Seq(Entry) /\ Len(Filed(order)) = Len(order)
           /\ \A i \in DOMAIN order : Filed(order)[i] = EntryFor(order[i])
<1>1. order \in Seq(Due) /\ DOMAIN order = 1..Len(order) /\ Len(order) \in Nat
  BY OrdersFacts
<1>2. \A i \in 1..Len(order) : EntryFor(order[i]) \in Entry
  BY <1>1, DueTyped
<1> QED
  BY <1>1, <1>2 DEF Filed

\* The outbox after a sync: what there was, and what was due.
LEMMA Appended ==
    ASSUME TypeOK, IsFiniteSet(Due), NEW order \in Orders, outbox' = outbox \o Filed(order)
    PROVE  /\ outbox' \in Seq(Entry)
           /\ Len(outbox') = Len(outbox) + Len(order)
           /\ DOMAIN outbox' = 1..(Len(outbox) + Len(order)) /\ DOMAIN outbox = 1..Len(outbox)
           /\ Len(outbox) \in Nat /\ Len(order) \in Nat
           /\ \A i \in DOMAIN outbox : outbox'[i] = outbox[i]
           /\ \A i \in DOMAIN order : outbox'[Len(outbox) + i] = EntryFor(order[i])
           /\ \A i \in DOMAIN outbox' : i \in DOMAIN outbox \/ i - Len(outbox) \in DOMAIN order
<1>1. /\ Filed(order) \in Seq(Entry) /\ Len(Filed(order)) = Len(order)
      /\ \A i \in DOMAIN order : Filed(order)[i] = EntryFor(order[i])
  BY FiledTyped
<1>2. outbox \in Seq(Entry) /\ Len(outbox) \in Nat /\ DOMAIN outbox = 1..Len(outbox)
  BY DEF TypeOK
<1>3. DOMAIN order = 1..Len(order) /\ Len(order) \in Nat
  BY OrdersFacts
<1>4. /\ outbox' \in Seq(Entry)
      /\ Len(outbox') = Len(outbox) + Len(order)
      /\ \A i \in 1..(Len(outbox) + Len(order)) :
            outbox'[i] = IF i <= Len(outbox) THEN outbox[i] ELSE Filed(order)[i - Len(outbox)]
  <2> DEFINE both == outbox \o Filed(order)
  <2>1. /\ both \in Seq(Entry)
        /\ Len(both) = Len(outbox) + Len(Filed(order))
        /\ \A i \in 1..(Len(outbox) + Len(Filed(order))) :
              both[i] = IF i <= Len(outbox) THEN outbox[i] ELSE Filed(order)[i - Len(outbox)]
    BY <1>1, <1>2, ConcatProperties
  <2>2. outbox' = both
    OBVIOUS
  <2> HIDE DEF both
  <2> QED
    BY <1>1, <2>1, <2>2
<1>5. DOMAIN outbox' = 1..(Len(outbox) + Len(order))
  BY <1>4
<1>6. \A i \in DOMAIN outbox : outbox'[i] = outbox[i]
  BY <1>2, <1>3, <1>4
<1>7. \A i \in DOMAIN order : outbox'[Len(outbox) + i] = EntryFor(order[i])
  <2> TAKE i \in DOMAIN order
  <2>1. /\ Len(outbox) + i \in 1..(Len(outbox) + Len(order))
        /\ ~(Len(outbox) + i <= Len(outbox)) /\ (Len(outbox) + i) - Len(outbox) = i
    BY <1>2, <1>3
  <2> QED
    BY <1>1, <1>4, <2>1
<1>8. \A i \in 1..(Len(outbox) + Len(order)) : i \in 1..Len(outbox) \/ i - Len(outbox) \in 1..Len(order)
  BY <1>2, <1>3
<1> QED
  BY <1>2, <1>3, <1>4, <1>5, <1>6, <1>7, <1>8

-----------------------------------------------------------------------------
(* The invariant.                                                          *)

\* What is published comes before what is not, and what is being sent comes next.
InTurn ==
    \E p \in 0..Len(outbox) :
        /\ published = 1..p /\ sent \subseteq 1..(p + 1)
        /\ p + Len(queue) <= Len(outbox)
        /\ \A i \in 1..Len(queue) : queue[i] = p + i

OnSomeRelay == published \subseteq OnRelays

\* A change on nothing that is changed again.
Latest(k) == \A l \in DOMAIN changes : changes[l].expense = changes[k].expense => l <= k

Untouched(e) == \A k \in DOMAIN changes : changes[k].expense # e

\* The book: times do not go back, and the rows read as the changes say.
BookLinesUp ==
    /\ IsFiniteSet(expenses) /\ IsFiniteSet(settled)
    /\ \A x, y \in expenses : x.id = y.id => x = y
    /\ \A x, y \in settled : x.id = y.id => x = y
    /\ \A k \in DOMAIN changes : changes[k].at <= now /\ changes[k].says \in {k, Removed}
    /\ \A k, l \in DOMAIN changes : k <= l => changes[k].at <= changes[l].at
    /\ \A x \in expenses : x.at <= now
    /\ \A x \in expenses, k \in DOMAIN changes : changes[k].expense = x.id => x.at <= changes[k].at
    /\ \A x \in expenses : Untouched(x.id) => x.says = 0
    /\ \A k \in DOMAIN changes : Latest(k) =>
          IF changes[k].says = Removed THEN \A x \in expenses : x.id # changes[k].expense
          ELSE \E x \in expenses : x.id = changes[k].expense /\ x.says = k

\* The outbox: an entry says what it is about, changes are in their order, after
\* the expense they change, and none is left out that is before one.
EntriesLineUp ==
    /\ \A i \in DOMAIN outbox : outbox[i].kind = "change" =>
          /\ outbox[i].id \in DOMAIN changes
          /\ outbox[i].about = changes[outbox[i].id].expense
          /\ outbox[i].says = changes[outbox[i].id].says
    /\ \A i \in DOMAIN outbox : outbox[i].kind = "expense" =>
          /\ outbox[i].about = outbox[i].id /\ outbox[i].id \in Expenses
          /\ Untouched(outbox[i].id) =>
                outbox[i].says = 0 /\ \E x \in expenses : x.id = outbox[i].id
    /\ \A i \in DOMAIN outbox : outbox[i].kind = "settlement" =>
          /\ outbox[i].about = outbox[i].id /\ outbox[i].says = 0
          /\ \E x \in settled : x.id = outbox[i].id
    /\ \A i, j \in DOMAIN outbox :
          outbox[i].kind = outbox[j].kind /\ outbox[i].id = outbox[j].id => i = j
    /\ \A i, j \in DOMAIN outbox :
          outbox[i].kind = "change" /\ outbox[j].kind = "change" /\ i < j => outbox[i].id < outbox[j].id
    /\ \A i, j \in DOMAIN outbox :
          outbox[i].kind = "expense" /\ outbox[j].kind = "change" /\ outbox[i].about = outbox[j].about
              => i < j
    /\ \A k, l \in DOMAIN changes : k <= l /\ HasEntry("change", l) => HasEntry("change", k)
    /\ \A x \in expenses, k \in DOMAIN changes :
          changes[k].expense = x.id /\ HasEntry("change", k) => HasEntry("expense", x.id)

IInv == TypeOK /\ InTurn /\ OnSomeRelay /\ BookLinesUp /\ EntriesLineUp

-----------------------------------------------------------------------------
(* The sync of a tick.                                                     *)

LEMMA DueIsFinite ==
    ASSUME TypeOK, BookLinesUp
    PROVE  IsFiniteSet(Due)
<1> DEFINE E == {x \in expenses : ~HasEntry("expense", x.id)}
           C == {k \in DOMAIN changes : ~HasEntry("change", k)}
           S == {x \in settled : ~HasEntry("settlement", x.id)}
           e == [x \in E |-> OfExpense(x)]
           c == [k \in C |-> OfChange(k)]
           s == [x \in S |-> OfSettlement(x)]
<1>1. IsFiniteSet(DOMAIN changes)
  <2>1. DOMAIN changes = 1..Len(changes) /\ 1 \in Int /\ Len(changes) \in Int
    BY DEF TypeOK
  <2> QED
    BY <2>1, FS_Interval
<1>2. IsFiniteSet(E) /\ IsFiniteSet(C) /\ IsFiniteSet(S)
  BY <1>1, FS_Subset DEF BookLinesUp
<1> HIDE DEF E, C, S
<1>3. /\ e \in Surjection(E, {e[x] : x \in E})
      /\ c \in Surjection(C, {c[k] : k \in C})
      /\ s \in Surjection(S, {s[x] : x \in S})
  BY DEF Surjection
<1>4. Due = {e[x] : x \in E} \cup {c[k] : k \in C} \cup {s[x] : x \in S}
  BY DEF Due, E, C, S
<1> HIDE DEF e, c, s
<1>5. IsFiniteSet({e[x] : x \in E}) /\ IsFiniteSet({c[k] : k \in C}) /\ IsFiniteSet({s[x] : x \in S})
  BY <1>2, <1>3, FS_Surjection
<1>6. IsFiniteSet({e[x] : x \in E} \cup {c[k] : k \in C})
  BY <1>5, FS_Union
<1> QED
  BY <1>4, <1>5, <1>6, FS_Union

\* What is due, by its kind.
LEMMA DueForms ==
    ASSUME NEW d \in Due
    PROVE  \/ /\ d.kind = "expense"
              /\ \E x \in expenses : d = OfExpense(x) /\ ~HasEntry("expense", x.id)
           \/ /\ d.kind = "change"
              /\ \E k \in DOMAIN changes : d = OfChange(k) /\ ~HasEntry("change", k)
           \/ /\ d.kind = "settlement"
              /\ \E x \in settled : d = OfSettlement(x) /\ ~HasEntry("settlement", x.id)
<1>1. /\ \A x : OfExpense(x).kind = "expense" /\ OfSettlement(x).kind = "settlement"
      /\ \A k : OfChange(k).kind = "change"
  BY DEF OfExpense, OfChange, OfSettlement
<1> QED
  BY <1>1 DEF Due

LEMMA DueIs ==
    ASSUME NEW d \in Due
    PROVE  \/ /\ d.kind = "expense" /\ d.ord = 0
              /\ \E x \in expenses : /\ d.id = x.id /\ d.about = x.id /\ d.says = x.says /\ d.at = x.at
                                     /\ ~HasEntry("expense", x.id)
           \/ /\ d.kind = "change"
              /\ \E k \in DOMAIN changes :
                    /\ d.id = k /\ d.ord = k /\ d.about = changes[k].expense
                    /\ d.says = changes[k].says /\ d.at = changes[k].at
                    /\ ~HasEntry("change", k)
           \/ /\ d.kind = "settlement" /\ d.ord = 0
              /\ \E x \in settled : /\ d.id = x.id /\ d.about = x.id /\ d.says = 0 /\ d.at = x.at
                                    /\ ~HasEntry("settlement", x.id)
BY DueForms DEF OfExpense, OfChange, OfSettlement

LEMMA ChangeDue ==
    ASSUME NEW d \in Due, d.kind = "change"
    PROVE  d.id \in DOMAIN changes /\ d.ord = d.id /\ d.at = changes[d.id].at
BY DueIs

\* One thing of a kind is due once.
LEMMA DueOnce ==
    ASSUME BookLinesUp, NEW c \in Due, NEW d \in Due, c.kind = d.kind, c.id = d.id
    PROVE  c = d
<1>1. /\ \A x : OfExpense(x).id = x.id /\ OfSettlement(x).id = x.id
      /\ \A k : OfChange(k).id = k
  BY DEF OfExpense, OfChange, OfSettlement
<1>2. CASE c.kind = "expense"
  <2>1. (\E x \in expenses : c = OfExpense(x)) /\ (\E x \in expenses : d = OfExpense(x))
    BY <1>2, DueForms
  <2> QED
    BY <1>1, <2>1 DEF BookLinesUp
<1>3. CASE c.kind = "change"
  <2>1. (\E k \in DOMAIN changes : c = OfChange(k)) /\ (\E k \in DOMAIN changes : d = OfChange(k))
    BY <1>3, DueForms
  <2> QED
    BY <1>1, <2>1
<1>4. CASE c.kind = "settlement"
  <2>1. (\E x \in settled : c = OfSettlement(x)) /\ (\E x \in settled : d = OfSettlement(x))
    BY <1>4, DueForms
  <2> QED
    BY <1>1, <2>1 DEF BookLinesUp
<1> QED
  BY <1>2, <1>3, <1>4, DueForms

\* Nothing is left without an entry.
AllFiled ==
    /\ \A x \in expenses : HasEntry("expense", x.id)
    /\ \A k \in DOMAIN changes : HasEntry("change", k)
    /\ \A x \in settled : HasEntry("settlement", x.id)

LEMMA SyncKeeps ==
    ASSUME TypeOK, BookLinesUp, EntriesLineUp, UNCHANGED book,
           NEW order \in Orders, outbox' = outbox \o Filed(order)
    PROVE  EntriesLineUp' /\ AllFiled'
<1> DEFINE n == Len(outbox)
<1>1. IsFiniteSet(Due)
  BY DueIsFinite
<1>2. /\ DOMAIN outbox' = 1..(n + Len(order)) /\ DOMAIN outbox = 1..n
      /\ n \in Nat /\ Len(order) \in Nat
      /\ \A i \in DOMAIN outbox : outbox'[i] = outbox[i]
      /\ \A i \in DOMAIN order : outbox'[n + i] = EntryFor(order[i])
      /\ \A i \in DOMAIN outbox' : i \in DOMAIN outbox \/ i - n \in DOMAIN order
  BY <1>1, Appended
<1>3. /\ order \in Seq(Due) /\ DOMAIN order = 1..Len(order)
      /\ \A d \in Due : \E i \in DOMAIN order : order[i] = d
      /\ \A i, j \in DOMAIN order : order[i] = order[j] => i = j
      /\ \A i, j \in DOMAIN order : i < j => ~Earlier(order[j], order[i])
  BY <1>1, OrdersFacts
<1>4. \A i \in DOMAIN order : order[i] \in Due
  BY <1>3
<1> HIDE DEF n
<1>5. /\ changes' = changes /\ expenses' = expenses /\ settled' = settled
      /\ \A e : Untouched(e)' <=> Untouched(e)
  BY DEF book, Untouched
<1>6. \A d : /\ EntryFor(d).kind = d.kind /\ EntryFor(d).id = d.id
             /\ EntryFor(d).about = d.about /\ EntryFor(d).says = d.says
  BY DEF EntryFor
\* An entry is an old one, or a new one that files what is due.
<1>7. ASSUME NEW i \in DOMAIN outbox', i \notin DOMAIN outbox
      PROVE  /\ i - n \in DOMAIN order /\ order[i - n] \in Due
             /\ outbox'[i].kind = order[i - n].kind /\ outbox'[i].id = order[i - n].id
             /\ outbox'[i].about = order[i - n].about /\ outbox'[i].says = order[i - n].says
             /\ i > n
  <2>1. i - n \in DOMAIN order
    BY <1>2, <1>7
  <2>2. i = n + (i - n) /\ i > n
    BY <1>2, <1>7
  <2>3. outbox'[i] = EntryFor(order[i - n])
    BY <1>2, <2>1, <2>2
  <2> QED
    BY <1>4, <1>6, <2>1, <2>2, <2>3
<1>8. \A kind, id : HasEntry(kind, id) => HasEntry(kind, id)'
  BY <1>2 DEF HasEntry
<1>9. ASSUME NEW d \in Due PROVE HasEntry(d.kind, d.id)'
  <2>1. PICK i \in DOMAIN order : order[i] = d
    BY <1>3
  <2>2. n + i \in DOMAIN outbox' /\ outbox'[n + i] = EntryFor(d)
    BY <1>2, <1>3, <2>1
  <2> QED
    BY <1>6, <2>2 DEF HasEntry
<1>10. AllFiled'
  <2>1. ASSUME NEW x \in expenses PROVE HasEntry("expense", x.id)'
    <3>1. CASE HasEntry("expense", x.id)
      BY <1>8, <3>1
    <3>2. CASE ~HasEntry("expense", x.id)
      <4>1. OfExpense(x) \in Due
        BY <3>2 DEF Due
      <4>2. OfExpense(x).kind = "expense" /\ OfExpense(x).id = x.id
        BY DEF OfExpense
      <4> QED
        BY <1>9, <4>1, <4>2
    <3> QED
      BY <3>1, <3>2
  <2>2. ASSUME NEW k \in DOMAIN changes PROVE HasEntry("change", k)'
    <3>1. CASE HasEntry("change", k)
      BY <1>8, <3>1
    <3>2. CASE ~HasEntry("change", k)
      <4>1. OfChange(k) \in Due
        BY <3>2 DEF Due
      <4>2. OfChange(k).kind = "change" /\ OfChange(k).id = k
        BY DEF OfChange
      <4> QED
        BY <1>9, <4>1, <4>2
    <3> QED
      BY <3>1, <3>2
  <2>3. ASSUME NEW x \in settled PROVE HasEntry("settlement", x.id)'
    <3>1. CASE HasEntry("settlement", x.id)
      BY <1>8, <3>1
    <3>2. CASE ~HasEntry("settlement", x.id)
      <4>1. OfSettlement(x) \in Due
        BY <3>2 DEF Due
      <4>2. OfSettlement(x).kind = "settlement" /\ OfSettlement(x).id = x.id
        BY DEF OfSettlement
      <4> QED
        BY <1>9, <4>1, <4>2
    <3> QED
      BY <3>1, <3>2
  <2> QED
    BY <1>5, <2>1, <2>2, <2>3 DEF AllFiled
<1>11. ASSUME NEW i \in DOMAIN outbox', outbox'[i].kind = "change"
       PROVE  /\ outbox'[i].id \in DOMAIN changes
              /\ outbox'[i].about = changes[outbox'[i].id].expense
              /\ outbox'[i].says = changes[outbox'[i].id].says
  <2>1. CASE i \in DOMAIN outbox
    BY <1>2, <1>11, <2>1 DEF EntriesLineUp
  <2>2. CASE i \notin DOMAIN outbox
    BY <1>7, <1>11, <2>2, DueIs
  <2> QED
    BY <2>1, <2>2
<1>12. ASSUME NEW i \in DOMAIN outbox', outbox'[i].kind = "expense"
       PROVE  /\ outbox'[i].about = outbox'[i].id /\ outbox'[i].id \in Expenses
              /\ Untouched(outbox'[i].id) =>
                    outbox'[i].says = 0 /\ \E x \in expenses : x.id = outbox'[i].id
  <2>1. CASE i \in DOMAIN outbox
    BY <1>2, <1>12, <2>1 DEF EntriesLineUp
  <2>2. CASE i \notin DOMAIN outbox
    <3>1. PICK x \in expenses : /\ outbox'[i].id = x.id /\ outbox'[i].about = x.id
                               /\ outbox'[i].says = x.says
      BY <1>7, <1>12, <2>2, DueIs
    <3>2. x.id \in Expenses
      BY DEF TypeOK
    <3> QED
      BY <3>1, <3>2 DEF BookLinesUp
  <2> QED
    BY <2>1, <2>2
<1>13. ASSUME NEW i \in DOMAIN outbox', outbox'[i].kind = "settlement"
       PROVE  /\ outbox'[i].about = outbox'[i].id /\ outbox'[i].says = 0
              /\ \E x \in settled : x.id = outbox'[i].id
  <2>1. CASE i \in DOMAIN outbox
    BY <1>2, <1>13, <2>1 DEF EntriesLineUp
  <2>2. CASE i \notin DOMAIN outbox
    BY <1>7, <1>13, <2>2, DueIs
  <2> QED
    BY <2>1, <2>2
\* What is filed had no entry.
<1>14. ASSUME NEW i \in DOMAIN outbox, NEW j \in DOMAIN outbox', j \notin DOMAIN outbox,
              outbox[i].kind = outbox'[j].kind, outbox[i].id = outbox'[j].id
       PROVE  FALSE
  <2>1. HasEntry(outbox'[j].kind, outbox'[j].id)
    BY <1>14 DEF HasEntry
  <2>2. ~HasEntry(outbox'[j].kind, outbox'[j].id)
    BY <1>7, <1>14, DueIs
  <2> QED
    BY <2>1, <2>2
<1>15. ASSUME NEW i \in DOMAIN outbox', NEW j \in DOMAIN outbox',
              outbox'[i].kind = outbox'[j].kind, outbox'[i].id = outbox'[j].id
       PROVE  i = j
  <2>1. CASE i \in DOMAIN outbox /\ j \in DOMAIN outbox
    BY <1>2, <1>15, <2>1 DEF EntriesLineUp
  <2>2. CASE i \in DOMAIN outbox /\ j \notin DOMAIN outbox
    BY <1>2, <1>14, <1>15, <2>2
  <2>3. CASE i \notin DOMAIN outbox /\ j \in DOMAIN outbox
    BY <1>2, <1>14, <1>15, <2>3
  <2>4. CASE i \notin DOMAIN outbox /\ j \notin DOMAIN outbox
    <3>1. order[i - n] = order[j - n]
      <4>1. /\ order[i - n] \in Due /\ order[j - n] \in Due
            /\ order[i - n].kind = order[j - n].kind /\ order[i - n].id = order[j - n].id
        BY <1>7, <1>15, <2>4
      <4> QED
        BY <4>1, DueOnce
    <3>2. i - n = j - n
      BY <1>3, <1>7, <2>4, <3>1
    <3> QED
      BY <1>2, <3>2
  <2> QED
    BY <2>1, <2>2, <2>3, <2>4
\* What files a change has its number and its time.
<1>16. ASSUME NEW i \in DOMAIN outbox', i \notin DOMAIN outbox, outbox'[i].kind = "change"
       PROVE  order[i - n].ord = outbox'[i].id /\ order[i - n].at = changes[outbox'[i].id].at
  <2>1. order[i - n] \in Due /\ order[i - n].kind = "change" /\ outbox'[i].id = order[i - n].id
    BY <1>7, <1>16
  <2>2. order[i - n].ord = order[i - n].id /\ order[i - n].at = changes[order[i - n].id].at
    BY <2>1, ChangeDue
  <2> QED
    BY <2>1, <2>2
\* Changes come in their order.
<1>17. ASSUME NEW i \in DOMAIN outbox', NEW j \in DOMAIN outbox',
              outbox'[i].kind = "change", outbox'[j].kind = "change", i < j
       PROVE  outbox'[i].id < outbox'[j].id
  <2>1. outbox'[i].id \in DOMAIN changes /\ outbox'[j].id \in DOMAIN changes
    BY <1>11, <1>17
  <2>2. outbox'[i].id \in Nat /\ outbox'[j].id \in Nat
    BY <2>1, ChangeTyped
  <2>3. CASE j \in DOMAIN outbox
    <3>1. i \in DOMAIN outbox
      BY <1>2, <1>17, <2>3
    <3> QED
      BY <1>2, <1>17, <2>3, <3>1 DEF EntriesLineUp
  <2>4. CASE i \in DOMAIN outbox /\ j \notin DOMAIN outbox
    <3>1. ~HasEntry("change", outbox'[j].id)
      BY <1>7, <1>17, <2>4, DueIs
    <3>2. HasEntry("change", outbox'[i].id)
      BY <1>2, <1>17, <2>4 DEF HasEntry
    <3>3. ~(outbox'[j].id <= outbox'[i].id)
      BY <2>1, <3>1, <3>2 DEF EntriesLineUp
    <3> QED
      BY <2>2, <3>3
  <2>5. CASE i \notin DOMAIN outbox /\ j \notin DOMAIN outbox
    <3>1. i - n < j - n /\ i - n \in DOMAIN order /\ j - n \in DOMAIN order
      BY <1>2, <1>7, <1>17, <2>5
    <3>2. ~Earlier(order[j - n], order[i - n])
      BY <1>3, <3>1
    <3>3. /\ order[i - n].ord = outbox'[i].id /\ order[i - n].at = changes[outbox'[i].id].at
          /\ order[j - n].ord = outbox'[j].id /\ order[j - n].at = changes[outbox'[j].id].at
      BY <1>17, <1>16, <2>5
    <3>4. outbox'[i].id # outbox'[j].id
      <4>1. i # j
        BY <1>2, <1>17
      <4> QED
        BY <1>15, <1>17, <4>1
    <3>5. changes[outbox'[i].id].at \in Nat /\ changes[outbox'[j].id].at \in Nat
      BY <2>1, ChangeTyped
    <3>6. ~(outbox'[j].id < outbox'[i].id)
      <4> SUFFICES ASSUME outbox'[j].id <= outbox'[i].id, outbox'[j].id # outbox'[i].id
                   PROVE  FALSE
        BY <2>2
      <4>1. changes[outbox'[j].id].at <= changes[outbox'[i].id].at
        BY <2>1 DEF BookLinesUp
      <4>2. Earlier(order[j - n], order[i - n])
        <5>1. outbox'[j].id < outbox'[i].id
          BY <2>2
        <5>2. \/ changes[outbox'[j].id].at < changes[outbox'[i].id].at
              \/ changes[outbox'[j].id].at = changes[outbox'[i].id].at
          <6>1. \A a, b \in Nat : a <= b => a < b \/ a = b
            OBVIOUS
          <6> QED
            BY <3>5, <4>1, <6>1, Zenon
        <5> QED
          BY <3>3, <5>1, <5>2 DEF Earlier
      <4> QED
        BY <3>2, <4>2
    <3> QED
      BY <2>2, <3>4, <3>6
  <2> QED
    BY <2>3, <2>4, <2>5
\* And after the expense they change.
<1>18. ASSUME NEW i \in DOMAIN outbox', NEW j \in DOMAIN outbox',
              outbox'[i].kind = "expense", outbox'[j].kind = "change",
              outbox'[i].about = outbox'[j].about
       PROVE  i < j
  <2>1. CASE i \in DOMAIN outbox /\ j \in DOMAIN outbox
    BY <1>2, <1>18, <2>1 DEF EntriesLineUp
  <2>2. CASE i \in DOMAIN outbox /\ j \notin DOMAIN outbox
    BY <1>2, <1>7, <2>2
  <2>3. CASE i \notin DOMAIN outbox
    <3>1. PICK x \in expenses : /\ outbox'[i].about = x.id /\ ~HasEntry("expense", x.id)
                               /\ order[i - n].at = x.at /\ order[i - n].ord = 0
      BY <1>7, <1>18, <2>3, DueIs
    <3>2. /\ outbox'[j].id \in DOMAIN changes /\ changes[outbox'[j].id].expense = x.id
      BY <1>11, <1>18, <3>1
    <3>3. CASE j \in DOMAIN outbox
      <4>1. HasEntry("change", outbox'[j].id)
        BY <1>2, <1>18, <3>3 DEF HasEntry
      <4> QED
        BY <3>1, <3>2, <4>1 DEF EntriesLineUp
    <3>4. CASE j \notin DOMAIN outbox
      <4>1. /\ order[j - n].at = changes[outbox'[j].id].at
            /\ order[j - n].ord = outbox'[j].id
        BY <1>18, <1>16, <3>4
      <4>2. /\ outbox'[j].id \in Nat \ {0} /\ changes[outbox'[j].id].at \in Nat
        BY <3>2, ChangeTyped
      <4>3. x.at \in Nat /\ x.at <= changes[outbox'[j].id].at
        BY <3>2 DEF BookLinesUp, TypeOK
      <4>4. Earlier(order[i - n], order[j - n])
        <5>1. x.at < changes[outbox'[j].id].at \/ (x.at = changes[outbox'[j].id].at /\ 0 < outbox'[j].id)
          BY <4>2, <4>3
        <5> QED
          BY <3>1, <4>1, <5>1 DEF Earlier
      <4>5. i - n \in DOMAIN order /\ j - n \in DOMAIN order
        BY <1>7, <2>3, <3>4
      <4>6. ~(j - n < i - n)
        BY <1>3, <4>4, <4>5
      <4>7. i # j
        BY <1>18
      <4> QED
        BY <1>2, <4>6, <4>7
    <3> QED
      BY <3>3, <3>4
  <2> QED
    BY <2>1, <2>2, <2>3
<1> QED
  BY <1>5, <1>10, <1>11, <1>12, <1>13, <1>15, <1>17, <1>18 DEF EntriesLineUp, AllFiled

-----------------------------------------------------------------------------
(* What the entries read as.                                               *)

\* Of numbers up to some n there is a greatest.
LEMMA GreatestOf ==
    ASSUME NEW n \in Nat, NEW T, T \subseteq 1..n, T # {}
    PROVE  \E k \in T : \A l \in T : l <= k
<1> DEFINE R == OpToRel(<, Nat)
           U == {u \in Nat : \A l \in T : l <= u}
<1>1. \A x, y \in Nat : x < y => <<x, y>> \in R
  BY DEF OpToRel
<1>2. IsWellFoundedOn(R, Nat)
  BY NatLessThanWellFounded
<1>3. n \in U /\ U \subseteq Nat
  OBVIOUS
<1> HIDE DEF R
<1>4. PICK k \in U : \A u \in U : ~(<<u, k>> \in R)
  BY <1>2, <1>3, WFMin
<1>5. k \in Nat /\ \A l \in T : l \in Nat /\ l # 0 /\ l <= k
  OBVIOUS
<1>6. k \in T
  <2> SUFFICES ASSUME k \notin T PROVE FALSE
    OBVIOUS
  <2>1. k # 0
    <3>1. PICK l \in T : TRUE
      OBVIOUS
    <3>2. l \in Nat /\ l # 0 /\ l <= k
      BY <1>5, <3>1
    <3> QED
      BY <1>5, <3>2
  <2>2. k - 1 \in Nat /\ k - 1 < k
    BY <1>5, <2>1
  <2>3. \A l \in T : l <= k - 1
    BY <1>5
  <2>4. k - 1 \in U
    BY <2>2, <2>3
  <2>5. <<k - 1, k>> \in R
    BY <1>1, <1>5, <2>2
  <2> QED
    BY <1>4, <2>4, <2>5
<1> QED
  BY <1>5, <1>6

\* What is changed has a last change.
LEMMA HasLatest ==
    ASSUME TypeOK, NEW e, ~Untouched(e)
    PROVE  \E k \in DOMAIN changes : changes[k].expense = e /\ Latest(k)
<1> DEFINE T == {k \in DOMAIN changes : changes[k].expense = e}
           n == Len(changes)
<1>1. n \in Nat /\ DOMAIN changes = 1..n
  BY DEF TypeOK
<1>2. T # {} /\ T \subseteq 1..n
  BY <1>1 DEF Untouched
<1> HIDE DEF T, n
<1>3. PICK k \in T : \A l \in T : l <= k
  BY <1>1, <1>2, GreatestOf
<1> QED
  BY <1>3 DEF T, Latest

\* The last of the entries about x is the last word on it.
LEMMA LastWordIs ==
    ASSUME TypeOK, NEW x, NEW i \in EntriesAbout(DOMAIN outbox, x),
           \A j \in EntriesAbout(DOMAIN outbox, x) : j <= i
    PROVE  LastWord(DOMAIN outbox, x) = i
<1> DEFINE A == EntriesAbout(DOMAIN outbox, x)
<1>1. A \subseteq Nat
  BY DEF EntriesAbout, TypeOK
<1> HIDE DEF A
<1>2. \A j \in A : (\A l \in A : l <= j) => j = i
  BY <1>1 DEF A
<1>3. i \in A /\ \A j \in A : j <= i
  BY DEF A
<1> QED
  BY <1>2, <1>3 DEF LastWord, A

\* What an entry is about, by its kind.
LEMMA AboutWhat ==
    ASSUME TypeOK, EntriesLineUp, NEW i \in DOMAIN outbox
    PROVE  \/ /\ outbox[i].kind = "expense" /\ outbox[i].about \in Expenses
              /\ outbox[i].about = outbox[i].id
           \/ /\ outbox[i].kind = "change" /\ outbox[i].about \in Expenses
              /\ outbox[i].id \in DOMAIN changes
              /\ changes[outbox[i].id].expense = outbox[i].about
           \/ /\ outbox[i].kind = "settlement" /\ outbox[i].about \in Settlements
              /\ outbox[i].about = outbox[i].id
<1>1. outbox[i] \in Entry
  BY DEF TypeOK
<1>2. outbox[i].kind \in {"expense", "change", "settlement"}
  BY <1>1 DEF Entry
<1>3. CASE outbox[i].kind = "expense"
  BY <1>3 DEF EntriesLineUp
<1>4. CASE outbox[i].kind = "change"
  <2>1. /\ outbox[i].id \in DOMAIN changes
        /\ outbox[i].about = changes[outbox[i].id].expense
    BY <1>4 DEF EntriesLineUp
  <2> QED
    BY <1>4, <2>1, ChangeTyped
<1>5. CASE outbox[i].kind = "settlement"
  <2>1. outbox[i].about = outbox[i].id /\ \E x \in settled : x.id = outbox[i].id
    BY <1>5 DEF EntriesLineUp
  <2> QED
    BY <1>5, <2>1 DEF TypeOK
<1> QED
  BY <1>2, <1>3, <1>4, <1>5

\* A group ledger has at most one row of an id.
LedgerSays(x, says) ==
    \/ \E e \in expenses : e.id = x /\ e.says = says
    \/ says = 0 /\ \E s \in settled : s.id = x

LEMMA ReadsSettlement ==
    ASSUME TypeOK, EntriesLineUp, AllFiled, NEW x \in Settlements
    PROVE  \/ EntriesAbout(DOMAIN outbox, x) = {} /\ \A s : ~LedgerSays(x, s)
           \/ /\ EntriesAbout(DOMAIN outbox, x) # {}
              /\ outbox[LastWord(DOMAIN outbox, x)].says = 0
              /\ \A s : LedgerSays(x, s) <=> s = 0
<1> DEFINE A == EntriesAbout(DOMAIN outbox, x)
<1>1. x \notin Expenses /\ \A e \in expenses : e.id # x
  BY OutboxAssumption DEF TypeOK
<1>2. \A i \in A : /\ i \in DOMAIN outbox /\ outbox[i].kind = "settlement" /\ outbox[i].id = x
                   /\ outbox[i].says = 0 /\ \E s \in settled : s.id = x
  <2> TAKE i \in A
  <2>1. i \in DOMAIN outbox /\ outbox[i].about = x
    BY DEF EntriesAbout
  <2>2. outbox[i].kind = "settlement" /\ outbox[i].id = x
    BY <1>1, <2>1, AboutWhat
  <2> QED
    BY <2>1, <2>2 DEF EntriesLineUp
<1>3. CASE A = {}
  <2>1. \A s \in settled : s.id # x
    <3> SUFFICES ASSUME NEW s \in settled, s.id = x PROVE FALSE
      OBVIOUS
    <3>1. PICK i \in DOMAIN outbox : outbox[i].kind = "settlement" /\ outbox[i].id = x
      BY DEF AllFiled, HasEntry
    <3>2. outbox[i].about = x
      BY <3>1 DEF EntriesLineUp
    <3> QED
      BY <1>3, <3>1, <3>2 DEF EntriesAbout
  <2> QED
    BY <1>1, <1>3, <2>1 DEF LedgerSays
<1>4. CASE A # {}
  <2>1. PICK i \in A : TRUE
    BY <1>4
  <2>2. \A j \in A : j = i
    BY <1>2, <2>1 DEF EntriesLineUp
  <2>3. i \in Nat
    BY <1>2, <2>1 DEF TypeOK
  <2>4. \A j \in A : j <= i
    BY <2>2, <2>3
  <2>5. LastWord(DOMAIN outbox, x) = i
    BY <2>1, <2>4, LastWordIs
  <2> QED
    BY <1>1, <1>2, <1>4, <2>1, <2>5 DEF LedgerSays
<1> QED
  BY <1>3, <1>4

LEMMA ReadsUntouched ==
    ASSUME TypeOK, BookLinesUp, EntriesLineUp, AllFiled, NEW x \in Expenses, Untouched(x)
    PROVE  \/ EntriesAbout(DOMAIN outbox, x) = {} /\ \A s : ~LedgerSays(x, s)
           \/ /\ EntriesAbout(DOMAIN outbox, x) # {}
              /\ outbox[LastWord(DOMAIN outbox, x)].says = 0
              /\ \A s : LedgerSays(x, s) <=> s = 0
<1> DEFINE A == EntriesAbout(DOMAIN outbox, x)
<1>1. x \notin Settlements /\ \A s \in settled : s.id # x
  BY OutboxAssumption DEF TypeOK
<1>2. \A i \in A : /\ i \in DOMAIN outbox /\ outbox[i].kind = "expense" /\ outbox[i].id = x
                   /\ outbox[i].says = 0 /\ \E e \in expenses : e.id = x
  <2> TAKE i \in A
  <2>1. i \in DOMAIN outbox /\ outbox[i].about = x
    BY DEF EntriesAbout
  <2>2. outbox[i].kind = "expense" /\ outbox[i].id = x
    BY <1>1, <2>1, AboutWhat DEF Untouched
  <2> QED
    BY <2>1, <2>2 DEF EntriesLineUp
<1>3. \A e \in expenses : e.id = x => e.says = 0
  BY DEF BookLinesUp
<1>4. CASE A = {}
  <2>1. \A e \in expenses : e.id # x
    <3> SUFFICES ASSUME NEW e \in expenses, e.id = x PROVE FALSE
      OBVIOUS
    <3>1. PICK i \in DOMAIN outbox : outbox[i].kind = "expense" /\ outbox[i].id = x
      BY DEF AllFiled, HasEntry
    <3>2. outbox[i].about = x
      BY <3>1 DEF EntriesLineUp
    <3> QED
      BY <1>4, <3>1, <3>2 DEF EntriesAbout
  <2> QED
    BY <1>1, <1>4, <2>1 DEF LedgerSays
<1>5. CASE A # {}
  <2>1. PICK i \in A : TRUE
    BY <1>5
  <2>2. \A j \in A : j = i
    BY <1>2, <2>1 DEF EntriesLineUp
  <2>3. i \in Nat
    BY <1>2, <2>1 DEF TypeOK
  <2>4. \A j \in A : j <= i
    BY <2>2, <2>3
  <2>5. LastWord(DOMAIN outbox, x) = i
    BY <2>1, <2>4, LastWordIs
  <2> QED
    BY <1>1, <1>2, <1>3, <1>5, <2>1, <2>5 DEF LedgerSays
<1> QED
  BY <1>4, <1>5

\* The last change on it is the last word.
LEMMA ReadsChanged ==
    ASSUME TypeOK, BookLinesUp, EntriesLineUp, AllFiled, NEW x \in Expenses, ~Untouched(x)
    PROVE  /\ EntriesAbout(DOMAIN outbox, x) # {}
           /\ \A s : LedgerSays(x, s) <=>
                 s = outbox[LastWord(DOMAIN outbox, x)].says /\ s # Removed
<1> DEFINE A == EntriesAbout(DOMAIN outbox, x)
<1>1. x \notin Settlements /\ \A s \in settled : s.id # x
  BY OutboxAssumption DEF TypeOK
<1>2. PICK k \in DOMAIN changes : changes[k].expense = x /\ Latest(k)
  BY HasLatest
<1>3. PICK i \in DOMAIN outbox : outbox[i].kind = "change" /\ outbox[i].id = k
  BY DEF AllFiled, HasEntry
<1>4. outbox[i].about = x /\ outbox[i].says = changes[k].says /\ i \in A
  BY <1>2, <1>3 DEF EntriesLineUp, EntriesAbout
<1>5. ASSUME NEW j \in A PROVE j <= i
  <2>1. j \in DOMAIN outbox /\ outbox[j].about = x /\ j \in Nat /\ i \in Nat
    BY DEF EntriesAbout, TypeOK
  <2>2. CASE outbox[j].kind = "expense"
    <3>1. j < i
      BY <1>3, <1>4, <2>1, <2>2 DEF EntriesLineUp
    <3> QED
      BY <2>1, <3>1
  <2>3. CASE outbox[j].kind = "change"
    <3>1. outbox[j].id \in DOMAIN changes /\ changes[outbox[j].id].expense = x
      BY <2>1, <2>3, AboutWhat
    <3>2. outbox[j].id <= k
      BY <1>2, <3>1 DEF Latest
    <3>3. outbox[j].id \in Nat /\ k \in Nat
      BY <3>1, ChangeTyped
    <3>4. i < j => k < outbox[j].id
      BY <1>3, <2>1, <2>3 DEF EntriesLineUp
    <3> QED
      BY <2>1, <3>2, <3>3, <3>4
  <2>4. CASE outbox[j].kind = "settlement"
    BY <1>1, <2>1, <2>4, AboutWhat
  <2> QED
    BY <2>1, <2>2, <2>3, <2>4, AboutWhat
<1>6. LastWord(DOMAIN outbox, x) = i
  BY <1>4, <1>5, LastWordIs
<1>7. CASE changes[k].says = Removed
  <2>1. \A e \in expenses : e.id # x
    BY <1>2, <1>7 DEF BookLinesUp
  <2> QED
    BY <1>1, <1>4, <1>6, <1>7, <2>1 DEF LedgerSays
<1>8. CASE changes[k].says # Removed
  <2>1. changes[k].says = k
    BY <1>8 DEF BookLinesUp
  <2>2. PICK e \in expenses : e.id = x /\ e.says = k
    BY <1>2, <1>8 DEF BookLinesUp
  <2>3. \A f \in expenses : f.id = x => f = e
    BY <2>2 DEF BookLinesUp
  <2> QED
    BY <1>1, <1>4, <1>6, <1>8, <2>1, <2>2, <2>3 DEF LedgerSays
<1> QED
  BY <1>7, <1>8

\* After a sync, reading the entries gives the ledger as it is.
LEMMA Reads ==
    ASSUME TypeOK, BookLinesUp, EntriesLineUp, AllFiled
    PROVE  ReadLedger(DOMAIN outbox) = LedgerNow
<1> DEFINE Row(x, s) == [id |-> x, says |-> s]
           S == DOMAIN outbox
           Said(x) == outbox[LastWord(S, x)].says
<1>1. ASSUME NEW x \in Expenses \cup Settlements
      PROVE  \A s : LedgerSays(x, s) <=>
                       EntriesAbout(S, x) # {} /\ s = Said(x) /\ Said(x) # Removed
  <2>1. CASE x \in Settlements
    BY <2>1, ReadsSettlement DEF Removed
  <2>2. CASE x \in Expenses /\ Untouched(x)
    BY <2>2, ReadsUntouched DEF Removed
  <2>3. CASE x \in Expenses /\ ~Untouched(x)
    BY <2>3, ReadsChanged
  <2> QED
    BY <2>1, <2>2, <2>3
<1>2. ASSUME NEW r
      PROVE  r \in LedgerNow <=>
                \E x \in Expenses \cup Settlements : \E s : LedgerSays(x, s) /\ r = Row(x, s)
  <2>1. /\ \A e \in expenses : e.id \in Expenses
        /\ \A e \in settled : e.id \in Settlements
    BY DEF TypeOK
  <2>2. r \in LedgerNow <=> \/ \E e \in expenses : r = Row(e.id, e.says)
                           \/ \E e \in settled : r = Row(e.id, 0)
    BY DEF LedgerNow
  <2> HIDE DEF Row
  <2> QED
    BY <2>1, <2>2 DEF LedgerSays
<1>3. ASSUME NEW r
      PROVE  r \in ReadLedger(S) <=>
                \E x \in Expenses \cup Settlements :
                    EntriesAbout(S, x) # {} /\ Said(x) # Removed /\ r = Row(x, Said(x))
  BY DEF ReadLedger
<1> HIDE DEF Row, S, Said
<1>4. \A r : r \in ReadLedger(S) <=> r \in LedgerNow
  BY <1>1, <1>2, <1>3
<1>5. ReadLedger(S) = LedgerNow
  BY <1>4
<1> QED
  BY <1>5 DEF S

-----------------------------------------------------------------------------
(* The invariant is inductive.                                             *)

LEMMA InitHolds == Init => IInv
<1> SUFFICES ASSUME Init PROVE IInv
  OBVIOUS
<1> USE DEF Init
<1>1. 1..0 = {} /\ Len(outbox) = 0 /\ Len(queue) = 0 /\ DOMAIN outbox = {} /\ DOMAIN changes = {}
  OBVIOUS
<1>2. TypeOK
  <2>1. \A S : <<>> \in Seq(S)
    OBVIOUS
  <2>2. Len(changes) <= MaxChanges
    BY OutboxAssumption
  <2> QED
    BY <2>1, <2>2 DEF TypeOK
<1>3. InTurn
  <2>1. 0 \in 0..Len(outbox) /\ published = 1..0 /\ sent \subseteq 1..(0 + 1)
    BY <1>1
  <2>2. 0 + Len(queue) <= Len(outbox) /\ \A i \in 1..Len(queue) : queue[i] = 0 + i
    BY <1>1
  <2> QED
    BY <2>1, <2>2 DEF InTurn
<1>4. OnSomeRelay
  BY DEF OnSomeRelay
<1>5. BookLinesUp
  BY <1>1, FS_EmptySet DEF BookLinesUp
<1>6. EntriesLineUp
  BY <1>1 DEF EntriesLineUp, HasEntry
<1> QED
  BY <1>2, <1>3, <1>4, <1>5, <1>6 DEF IInv

\* Requests leave the outbox and its publishing alone.
LEMMA OutboxAlone ==
    ASSUME UNCHANGED <<outbox, published, queue, sent, relay>>, InTurn, OnSomeRelay
    PROVE  InTurn' /\ OnSomeRelay'
<1>1. InTurn'
  BY DEF InTurn
<1>2. OnSomeRelay'
  BY DEF OnSomeRelay, OnRelays
<1> QED
  BY <1>1, <1>2

LEMMA TimeGoesOn ==
    ASSUME TypeOK, NEW t, At(t)
    PROVE  t \in Nat /\ now' = t /\ now <= t /\ \A u \in Nat : u <= now => u <= t
BY DEF TypeOK, At

LEMMA AddKeeps ==
    ASSUME IInv, NEW e \in Expenses, NEW t, AddExpense(e, t)
    PROVE  IInv'
<1> DEFINE r == [id |-> e, says |-> 0, at |-> t]
<1>1. /\ TypeOK /\ BookLinesUp /\ EntriesLineUp
      /\ t \in Nat /\ now' = t /\ now <= t /\ \A u \in Nat : u <= now => u <= t
  BY TimeGoesOn DEF IInv, AddExpense
<1>2. /\ expenses' = expenses \cup {r}
      /\ \A x \in expenses : x.id # e
      /\ \A k \in DOMAIN changes : changes[k].expense # e
      /\ UNCHANGED <<changes, settled, outbox, published, queue, sent, relay>>
  BY DEF AddExpense, UnusedExpense
<1>3. r.id = e /\ r.says = 0 /\ r.at = t /\ r \in [id: Expenses, says: 0 .. MaxChanges, at: Nat]
  BY <1>1, OutboxAssumption
<1> HIDE DEF r
<1>4. TypeOK'
  BY <1>1, <1>2, <1>3 DEF TypeOK
<1>5. \A k \in DOMAIN changes : changes[k].at \in Nat
  BY <1>1, ChangeTyped
<1>6. \A x \in expenses : x.at \in Nat
  BY <1>1 DEF TypeOK
<1>7. BookLinesUp'
  <2>1. IsFiniteSet(expenses') /\ IsFiniteSet(settled')
    BY <1>1, <1>2, FS_AddElement DEF BookLinesUp
  <2>2. \A x, y \in expenses' : x.id = y.id => x = y
    BY <1>1, <1>2, <1>3 DEF BookLinesUp
  <2>3. \A x \in expenses' : x.at <= now'
    BY <1>1, <1>2, <1>3, <1>6 DEF BookLinesUp
  <2>4. \A k \in DOMAIN changes : changes[k].at <= now' /\ changes[k].says \in {k, Removed}
    BY <1>1, <1>5 DEF BookLinesUp
  <2>5. \A x \in expenses', k \in DOMAIN changes : changes[k].expense = x.id => x.at <= changes[k].at
    BY <1>1, <1>2, <1>3 DEF BookLinesUp
  <2>6. \A x \in expenses' : Untouched(x.id) => x.says = 0
    BY <1>1, <1>2, <1>3 DEF BookLinesUp
  <2>7. \A k \in DOMAIN changes : Latest(k) =>
          IF changes[k].says = Removed THEN \A x \in expenses' : x.id # changes[k].expense
          ELSE \E x \in expenses' : x.id = changes[k].expense /\ x.says = k
    BY <1>1, <1>2, <1>3 DEF BookLinesUp
  <2> QED
    BY <1>1, <1>2, <2>1, <2>2, <2>3, <2>4, <2>5, <2>6, <2>7 DEF BookLinesUp, Untouched, Latest
<1>8. EntriesLineUp'
  BY <1>1, <1>2, <1>3 DEF EntriesLineUp, Untouched, HasEntry
<1> QED
  BY <1>2, <1>4, <1>7, <1>8, OutboxAlone DEF IInv

LEMMA SettleKeeps ==
    ASSUME IInv, NEW s \in Settlements, NEW t, Settle(s, t)
    PROVE  IInv'
<1> DEFINE r == [id |-> s, at |-> t]
<1>1. /\ TypeOK /\ BookLinesUp /\ EntriesLineUp
      /\ t \in Nat /\ now' = t /\ now <= t /\ \A u \in Nat : u <= now => u <= t
  BY TimeGoesOn DEF IInv, Settle
<1>2. /\ settled' = settled \cup {r}
      /\ \A x \in settled : x.id # s
      /\ UNCHANGED <<expenses, changes, outbox, published, queue, sent, relay>>
  BY DEF Settle
<1>3. r.id = s /\ r \in [id: Settlements, at: Nat]
  BY <1>1
<1> HIDE DEF r
<1>4. TypeOK'
  BY <1>1, <1>2, <1>3 DEF TypeOK
<1>5. \A k \in DOMAIN changes : changes[k].at \in Nat
  BY <1>1, ChangeTyped
<1>6. \A x \in expenses : x.at \in Nat
  BY <1>1 DEF TypeOK
<1>7. BookLinesUp'
  <2>1. IsFiniteSet(expenses') /\ IsFiniteSet(settled')
    BY <1>1, <1>2, FS_AddElement DEF BookLinesUp
  <2>2. \A x, y \in settled' : x.id = y.id => x = y
    BY <1>1, <1>2, <1>3 DEF BookLinesUp
  <2>3. \A x \in expenses : x.at <= now'
    BY <1>1, <1>6 DEF BookLinesUp
  <2>4. \A k \in DOMAIN changes : changes[k].at <= now' /\ changes[k].says \in {k, Removed}
    BY <1>1, <1>5 DEF BookLinesUp
  <2> QED
    BY <1>1, <1>2, <2>1, <2>2, <2>3, <2>4 DEF BookLinesUp, Untouched, Latest
<1>8. EntriesLineUp'
  BY <1>1, <1>2, <1>3 DEF EntriesLineUp, Untouched, HasEntry
<1> QED
  BY <1>2, <1>4, <1>7, <1>8, OutboxAlone DEF IInv

\* An edit and a removal note a change, and the row reads as it says.
Notes(x, says, t) ==
    /\ Len(changes) < MaxChanges /\ At(t)
    /\ changes' = Append(changes, [expense |-> x.id, says |-> says, at |-> t])
    /\ expenses' = (expenses \ {x})
                       \cup (IF says = Removed THEN {} ELSE {[id |-> x.id, says |-> says, at |-> x.at]})
    /\ UNCHANGED <<settled, outbox, published, queue, sent, relay>>

LEMMA NotesKeeps ==
    ASSUME IInv, NEW x \in expenses, NEW says \in {Len(changes) + 1, Removed}, NEW t, Notes(x, says, t)
    PROVE  IInv'
<1> DEFINE n == Len(changes)
           c == [expense |-> x.id, says |-> says, at |-> t]
           y == [id |-> x.id, says |-> says, at |-> x.at]
           R == [expense: Expenses, says: Says, at: Nat]
<1>1. /\ TypeOK /\ BookLinesUp /\ EntriesLineUp
      /\ t \in Nat /\ now' = t /\ now <= t /\ \A u \in Nat : u <= now => u <= t
  BY TimeGoesOn DEF IInv, Notes
<1>2. x.id \in Expenses /\ x.at \in Nat /\ x.at <= now /\ x.at <= t
  BY <1>1 DEF TypeOK, BookLinesUp
<1>3. changes \in Seq(R) /\ n \in Nat /\ n < MaxChanges /\ DOMAIN changes = 1..n
  BY <1>1 DEF TypeOK, Notes
<1>4. c \in R /\ c.expense = x.id /\ c.says = says /\ c.at = t
  BY <1>1, <1>2, <1>3, OutboxAssumption DEF Says
<1>5. y.id = x.id /\ y.says = says /\ y.at = x.at
  OBVIOUS
<1>6. says # Removed => says = n + 1 /\ y \in [id: Expenses, says: 0 .. MaxChanges, at: Nat]
  BY <1>2, <1>3, OutboxAssumption
<1>7. changes' = Append(changes, c) /\ UNCHANGED <<settled, outbox, published, queue, sent, relay>>
  BY DEF Notes
<1>8. \A z : z \in expenses' <=> (z \in expenses /\ z # x) \/ (says # Removed /\ z = y)
  BY DEF Notes
<1> HIDE DEF c, y, n, R
<1>9. /\ changes' \in Seq(R) /\ Len(changes') = n + 1 /\ DOMAIN changes' = 1..(n + 1)
      /\ changes'[n + 1] = c /\ \A k \in 1..n : changes'[k] = changes[k]
  <2>1. Len(changes) = n
    BY DEF n
  <2> QED
    BY <1>3, <1>4, <1>7, <2>1
<1>10. \A k \in 1..(n + 1) : k \in 1..n \/ k = n + 1
  BY <1>3
<1>11. n + 1 \notin 1..n /\ \A k \in 1..n : k \in 1..(n + 1) /\ k <= n + 1 /\ ~(n + 1 <= k)
  BY <1>3
<1>12. \A k \in 1..n : changes[k].at \in Nat /\ changes[k].at <= now /\ changes[k].at <= t
  BY <1>1, <1>3, ChangeTyped DEF BookLinesUp
<1>13. \A z \in expenses : z.at \in Nat /\ z.at <= now /\ z.at <= t
  BY <1>1 DEF BookLinesUp, TypeOK
<1>14. \A z \in expenses : z.id = x.id => z = x
  BY <1>1 DEF BookLinesUp
<1>15. TypeOK'
  <2>1. expenses' \subseteq [id: Expenses, says: 0 .. MaxChanges, at: Nat]
    BY <1>1, <1>6, <1>8 DEF TypeOK
  <2>2. changes' \in Seq([expense: Expenses, says: Says, at: Nat]) /\ Len(changes') <= MaxChanges
    BY <1>3, <1>9, OutboxAssumption DEF R
  <2> QED
    BY <1>1, <1>7, <2>1, <2>2 DEF TypeOK
<1>16. \A e : Untouched(e)' => Untouched(e) /\ e # x.id
  BY <1>3, <1>4, <1>9, <1>11 DEF Untouched
<1>17. \A k \in 1..n : Latest(k)' => Latest(k) /\ changes[k].expense # x.id
  <2> SUFFICES ASSUME NEW k \in 1..n, Latest(k)' PROVE Latest(k) /\ changes[k].expense # x.id
    OBVIOUS
  <2>1. \A l \in 1..(n + 1) : changes'[l].expense = changes[k].expense => l <= k
    BY <1>9 DEF Latest
  <2> QED
    BY <1>3, <1>4, <1>9, <1>11, <2>1 DEF Latest
<1>18. BookLinesUp'
  <2>1. IsFiniteSet(expenses') /\ IsFiniteSet(settled')
    <3>1. IsFiniteSet(expenses) /\ IsFiniteSet(settled)
      BY <1>1 DEF BookLinesUp
    <3>2. IsFiniteSet(expenses \cup {y})
      BY <3>1, FS_AddElement
    <3>3. expenses' \subseteq expenses \cup {y}
      BY <1>8
    <3> QED
      BY <1>7, <3>1, <3>2, <3>3, FS_Subset
  <2>2. \A z, w \in expenses' : z.id = w.id => z = w
    BY <1>1, <1>5, <1>8, <1>14 DEF BookLinesUp
  <2>3. \A k \in 1..(n + 1) : changes'[k].at <= now' /\ changes'[k].says \in {k, Removed}
    <3> TAKE k \in 1..(n + 1)
    <3>1. CASE k \in 1..n
      BY <1>1, <1>3, <1>9, <1>12, <3>1 DEF BookLinesUp
    <3>2. CASE k = n + 1
      BY <1>1, <1>4, <1>6, <1>9, <3>2
    <3> QED
      BY <1>10, <3>1, <3>2
  <2>4. \A k, l \in 1..(n + 1) : k <= l => changes'[k].at <= changes'[l].at
    <3> SUFFICES ASSUME NEW k \in 1..(n + 1), NEW l \in 1..(n + 1), k <= l
                 PROVE  changes'[k].at <= changes'[l].at
      OBVIOUS
    <3>1. CASE l \in 1..n
      <4>1. k \in 1..n
        BY <1>10, <1>11, <3>1
      <4> QED
        BY <1>1, <1>3, <1>9, <3>1, <4>1 DEF BookLinesUp
    <3>2. CASE l = n + 1 /\ k \in 1..n
      BY <1>4, <1>9, <1>12, <3>2
    <3>3. CASE l = n + 1 /\ k = n + 1
      BY <1>1, <1>4, <1>9, <3>3
    <3> QED
      BY <1>10, <3>1, <3>2, <3>3
  <2>5. \A z \in expenses' : z.at <= now'
    BY <1>1, <1>2, <1>5, <1>8, <1>13
  <2>6. \A z \in expenses', k \in 1..(n + 1) : changes'[k].expense = z.id => z.at <= changes'[k].at
    <3> SUFFICES ASSUME NEW z \in expenses', NEW k \in 1..(n + 1), changes'[k].expense = z.id
                 PROVE  z.at <= changes'[k].at
      OBVIOUS
    <3>1. PICK w \in expenses : w.id = z.id /\ w.at = z.at
      BY <1>5, <1>8
    <3>2. CASE k \in 1..n
      BY <1>1, <1>3, <1>9, <3>1, <3>2 DEF BookLinesUp
    <3>3. CASE k = n + 1
      BY <1>4, <1>9, <1>13, <3>1, <3>3
    <3> QED
      BY <1>10, <3>2, <3>3
  <2>7. \A z \in expenses' : Untouched(z.id)' => z.says = 0
    BY <1>1, <1>5, <1>8, <1>16 DEF BookLinesUp
  <2>8. ASSUME NEW k \in 1..(n + 1), Latest(k)'
        PROVE  IF changes'[k].says = Removed THEN \A z \in expenses' : z.id # changes'[k].expense
               ELSE \E z \in expenses' : z.id = changes'[k].expense /\ z.says = k
    <3>1. CASE k \in 1..n
      <4>1. Latest(k) /\ changes[k].expense # x.id /\ changes'[k] = changes[k]
        BY <1>9, <1>17, <2>8, <3>1
      <4>2. IF changes[k].says = Removed THEN \A z \in expenses : z.id # changes[k].expense
            ELSE \E z \in expenses : z.id = changes[k].expense /\ z.says = k
        BY <1>1, <1>3, <3>1, <4>1 DEF BookLinesUp
      <4> QED
        BY <1>5, <1>8, <4>1, <4>2
    <3>2. CASE k = n + 1
      BY <1>4, <1>5, <1>6, <1>8, <1>9, <1>14, <3>2
    <3> QED
      BY <1>10, <3>1, <3>2
  <2> QED
    BY <1>9, <2>1, <2>2, <2>3, <2>4, <2>5, <2>6, <2>7, <2>8, <1>1, <1>7 DEF BookLinesUp
<1>19. EntriesLineUp'
  <2>1. \A id : HasEntry("change", id) => id \in 1..n
    BY <1>1, <1>3 DEF HasEntry, EntriesLineUp
  <2>2. \A kind, id : HasEntry(kind, id)' <=> HasEntry(kind, id)
    BY <1>7 DEF HasEntry
  <2>3. \A i \in DOMAIN outbox : outbox[i].kind = "change" =>
          /\ outbox[i].id \in DOMAIN changes'
          /\ outbox[i].about = changes'[outbox[i].id].expense
          /\ outbox[i].says = changes'[outbox[i].id].says
    BY <1>1, <1>3, <1>9, <1>11 DEF EntriesLineUp
  <2>4. \A i \in DOMAIN outbox : outbox[i].kind = "expense" =>
          /\ outbox[i].about = outbox[i].id /\ outbox[i].id \in Expenses
          /\ Untouched(outbox[i].id)' =>
                outbox[i].says = 0 /\ \E z \in expenses' : z.id = outbox[i].id
    <3> SUFFICES ASSUME NEW i \in DOMAIN outbox, outbox[i].kind = "expense"
                 PROVE  /\ outbox[i].about = outbox[i].id /\ outbox[i].id \in Expenses
                        /\ Untouched(outbox[i].id)' =>
                              outbox[i].says = 0 /\ \E z \in expenses' : z.id = outbox[i].id
      OBVIOUS
    <3>1. /\ outbox[i].about = outbox[i].id /\ outbox[i].id \in Expenses
          /\ Untouched(outbox[i].id) =>
                outbox[i].says = 0 /\ \E z \in expenses : z.id = outbox[i].id
      BY <1>1 DEF EntriesLineUp
    <3>2. ASSUME Untouched(outbox[i].id)'
          PROVE  outbox[i].says = 0 /\ \E z \in expenses' : z.id = outbox[i].id
      <4>1. Untouched(outbox[i].id) /\ outbox[i].id # x.id
        BY <1>7, <1>16, <3>2
      <4>2. PICK z \in expenses : z.id = outbox[i].id
        BY <3>1, <4>1
      <4>3. z \in expenses'
        BY <1>8, <4>1, <4>2
      <4> QED
        BY <3>1, <4>1, <4>2, <4>3
    <3> QED
      BY <3>1, <3>2
  <2>5. \A k, l \in 1..(n + 1) : k <= l /\ HasEntry("change", l) => HasEntry("change", k)
    BY <1>1, <1>3, <1>10, <1>11, <2>1 DEF EntriesLineUp
  <2>6. \A z \in expenses', k \in 1..(n + 1) :
          changes'[k].expense = z.id /\ HasEntry("change", k) => HasEntry("expense", z.id)
    <3> SUFFICES ASSUME NEW z \in expenses', NEW k \in 1..(n + 1), changes'[k].expense = z.id,
                        HasEntry("change", k)
                 PROVE  HasEntry("expense", z.id)
      OBVIOUS
    <3>1. PICK w \in expenses : w.id = z.id
      BY <1>5, <1>8
    <3>2. k \in 1..n /\ changes[k].expense = w.id
      BY <1>9, <2>1, <3>1
    <3> QED
      BY <1>1, <1>3, <3>1, <3>2 DEF EntriesLineUp
  <2> QED
    BY <1>1, <1>7, <1>9, <2>2, <2>3, <2>4, <2>5, <2>6 DEF EntriesLineUp
<1> QED
  BY <1>7, <1>15, <1>18, <1>19, OutboxAlone DEF IInv

\* So does every request.
LEMMA EditNotes ==
    ASSUME NEW x, NEW t, TypeOK, EditExpense(x, t)
    PROVE  Notes(x, Len(changes) + 1, t)
<1>1. Len(changes) + 1 # Removed
  BY DEF TypeOK, Removed
<1> QED
  BY <1>1 DEF EditExpense, Notes

LEMMA RemoveNotes ==
    ASSUME NEW x, NEW t, RemoveExpense(x, t)
    PROVE  Notes(x, Removed, t)
BY DEF RemoveExpense, Notes

\* Sending the next of what comes next.
LEMMA SendKeeps ==
    ASSUME NEW p \in Nat, NEW m \in Nat, NEW q \in Seq(1..m), Send(q),
           p + Len(q) <= m, \A i \in 1..Len(q) : q[i] = p + i,
           sent \subseteq 1..(p + 1), sent \subseteq 1..m
    PROVE  sent' \subseteq 1..(p + 1) /\ sent' \subseteq 1..m /\ sent \subseteq sent' /\ queue' = q
<1>1. CASE q = <<>>
  BY <1>1 DEF Send
<1>2. CASE q # <<>>
  <2>1. 1 \in 1..Len(q) /\ Head(q) = q[1] /\ Len(q) \in Nat
    BY <1>2
  <2>2. Head(q) = p + 1 /\ p + 1 \in 1..(p + 1) /\ p + 1 \in 1..m
    BY <2>1
  <2> QED
    BY <1>2, <2>2 DEF Send
<1> QED
  BY <1>1, <1>2

LEMMA RelaysHold ==
    ASSUME TypeOK, sent \subseteq sent', relay' = relay
    PROVE  relay' \in [Relays -> SUBSET sent']
BY DEF TypeOK

LEMMA TickKeeps ==
    ASSUME IInv, Tick
    PROVE  IInv' /\ AllFiled'
<1>1. TypeOK /\ InTurn /\ OnSomeRelay /\ BookLinesUp /\ EntriesLineUp
  BY DEF IInv
<1>2. PICK order \in Orders : /\ outbox' = outbox \o Filed(order)
                              /\ Send(Unsent(outbox'))
  BY DEF Tick, Filed
<1>3. queue = <<>> /\ UNCHANGED book /\ published' = published /\ relay' = relay
  BY DEF Tick
<1>4. EntriesLineUp' /\ AllFiled'
  BY <1>1, <1>2, <1>3, SyncKeeps
<1>5. BookLinesUp'
  BY <1>1, <1>3 DEF BookLinesUp, book, Untouched, Latest
<1> DEFINE m == Len(outbox')
<1>6. /\ outbox' \in Seq(Entry) /\ m \in Nat /\ DOMAIN outbox' = 1..m
      /\ DOMAIN outbox = 1..Len(outbox) /\ Len(outbox) \in Nat /\ Len(outbox) <= m
  <2>1. IsFiniteSet(Due)
    BY <1>1, DueIsFinite
  <2>2. /\ outbox' \in Seq(Entry) /\ Len(outbox') = Len(outbox) + Len(order)
        /\ DOMAIN outbox' = 1..(Len(outbox) + Len(order)) /\ DOMAIN outbox = 1..Len(outbox)
        /\ Len(outbox) \in Nat /\ Len(order) \in Nat
    BY <1>1, <1>2, <2>1, Appended
  <2> QED
    BY <2>2
<1> HIDE DEF m
<1>7. PICK p \in 0..Len(outbox) : published = 1..p /\ sent \subseteq 1..(p + 1)
  BY <1>1 DEF InTurn
<1>8. p \in Nat /\ p <= m
  BY <1>6, <1>7
<1> DEFINE q == Unsent(outbox')
<1>9. /\ q \in Seq((p + 1)..m) /\ p + Len(q) <= m
      /\ \A i \in 1..Len(q) : q[i] = p + i
  <2>1. DOMAIN outbox' \ published = (p + 1)..m
    BY <1>6, <1>7, <1>8
  <2>2. q = Batch((p + 1)..m)
    BY <2>1 DEF Unsent
  <2> HIDE DEF q
  <2> QED
    BY <1>6, <1>8, <2>2, BatchOfInterval
<1>10. Send(q)
  BY <1>2
<1> HIDE DEF q
<1>11. (p + 1)..m \subseteq 1..m
  BY <1>8
<1>12. q \in Seq(1..m)
  <2>1. \A S, T : S \subseteq T => Seq(S) \subseteq Seq(T)
    OBVIOUS
  <2> QED
    BY <1>9, <1>11, <2>1
<1>13. sent \subseteq 1..m
  BY <1>1, <1>6 DEF TypeOK
<1>14. sent' \subseteq 1..(p + 1) /\ sent' \subseteq 1..m /\ sent \subseteq sent' /\ queue' = q
  BY <1>6, <1>7, <1>8, <1>9, <1>10, <1>12, <1>13, SendKeeps
<1>15. TypeOK'
  <2>1. published' \subseteq 1..m
    <3>1. 1..p \subseteq 1..m
      BY <1>6, <1>8
    <3> QED
      BY <1>3, <1>7, <3>1
  <2>2. relay' \in [Relays -> SUBSET sent']
    BY <1>1, <1>3, <1>14, RelaysHold
  <2>3. UNCHANGED <<now, expenses, changes, settled>>
    BY <1>3 DEF book
  <2> QED
    BY <1>1, <1>6, <1>12, <1>14, <2>1, <2>2, <2>3 DEF TypeOK
<1>16. InTurn'
  <2>1. p \in 0..m
    BY <1>8
  <2> QED
    BY <1>3, <1>7, <1>9, <1>14, <2>1 DEF InTurn, m
<1>17. OnSomeRelay'
  BY <1>1, <1>3 DEF OnSomeRelay, OnRelays
<1> QED
  BY <1>4, <1>5, <1>15, <1>16, <1>17 DEF IInv

\* Publishing leaves the book and the entries alone.
LEMMA BookAlone ==
    ASSUME UNCHANGED book, outbox' = outbox, BookLinesUp, EntriesLineUp
    PROVE  BookLinesUp' /\ EntriesLineUp'
<1>1. BookLinesUp'
  BY DEF book, BookLinesUp, Untouched, Latest
<1>2. EntriesLineUp'
  BY DEF book, EntriesLineUp, Untouched, HasEntry
<1> QED
  BY <1>1, <1>2

LEMMA DeliverKeeps ==
    ASSUME IInv, NEW r \in Relays, NEW i \in sent, Deliver(r, i)
    PROVE  IInv'
<1>1. /\ relay' = [relay EXCEPT ![r] = @ \cup {i}] /\ UNCHANGED book
      /\ UNCHANGED <<outbox, published, queue, sent>>
  BY DEF Deliver
<1>2. /\ relay' \in [Relays -> SUBSET sent]
      /\ \A s \in Relays : relay[s] \subseteq relay'[s]
  BY <1>1 DEF IInv, TypeOK
<1>3. TypeOK'
  BY <1>1, <1>2 DEF IInv, TypeOK, book
<1>4. OnSomeRelay'
  BY <1>1, <1>2 DEF IInv, OnSomeRelay, OnRelays
<1>5. InTurn'
  BY <1>1 DEF IInv, InTurn
<1> QED
  BY <1>1, <1>3, <1>4, <1>5, BookAlone DEF IInv

LEMMA AcceptedKeeps ==
    ASSUME IInv, Accepted
    PROVE  IInv'
<1>1. /\ queue # <<>> /\ published' = published \cup {Head(queue)} /\ Send(Tail(queue))
      /\ UNCHANGED book /\ outbox' = outbox /\ relay' = relay
  BY DEF Accepted
<1>2. PICK r \in Relays : Head(queue) \in relay[r]
  BY DEF Accepted
<1> DEFINE m == Len(outbox)
           q == Tail(queue)
<1>3. m \in Nat /\ DOMAIN outbox = 1..m /\ queue \in Seq(1..m) /\ sent \subseteq 1..m
  BY DEF IInv, TypeOK
<1>4. PICK p \in 0..m : /\ published = 1..p /\ sent \subseteq 1..(p + 1)
                        /\ p + Len(queue) <= m
                        /\ \A i \in 1..Len(queue) : queue[i] = p + i
  BY DEF IInv, InTurn
<1> HIDE DEF m
<1>5. /\ Len(queue) \in Nat \ {0} /\ Head(queue) = queue[1]
      /\ q \in Seq(1..m) /\ Len(q) = Len(queue) - 1
      /\ \A i \in 1..Len(q) : q[i] = queue[i + 1]
  BY <1>1, <1>3
<1> HIDE DEF q
<1>6. p \in Nat /\ p + 1 \in 0..m /\ p + 1 \in Nat
  BY <1>3, <1>4, <1>5
<1>7. Head(queue) = p + 1
  BY <1>4, <1>5
<1>8. published' = 1..(p + 1)
  BY <1>1, <1>4, <1>6, <1>7
<1>9. (p + 1) + Len(q) <= m
  BY <1>3, <1>4, <1>5, <1>6
<1>10. \A i \in 1..Len(q) : q[i] = (p + 1) + i
  <2> TAKE i \in 1..Len(q)
  <2>1. i + 1 \in 1..Len(queue) /\ i \in Nat
    BY <1>5
  <2> QED
    BY <1>4, <1>5, <1>6, <2>1
<1>11. sent \subseteq 1..((p + 1) + 1)
  BY <1>4, <1>6
<1>12. /\ sent' \subseteq 1..((p + 1) + 1) /\ sent' \subseteq 1..m
       /\ sent \subseteq sent' /\ queue' = q
  BY <1>1, <1>3, <1>5, <1>6, <1>9, <1>10, <1>11, SendKeeps DEF q
<1>13. TypeOK'
  <2>1. published' \subseteq 1..m
    BY <1>3, <1>6, <1>8
  <2>2. relay' \in [Relays -> SUBSET sent']
    BY <1>1, <1>12, RelaysHold DEF IInv
  <2>3. UNCHANGED <<now, expenses, changes, settled>>
    BY <1>1 DEF book
  <2> QED
    BY <1>1, <1>3, <1>5, <1>12, <2>1, <2>2, <2>3 DEF IInv, TypeOK
<1>14. InTurn'
  <2>1. Len(outbox') = m
    BY <1>1 DEF m
  <2> QED
    BY <1>6, <1>8, <1>9, <1>10, <1>12, <2>1 DEF InTurn
<1>15. OnSomeRelay'
  BY <1>1, <1>2 DEF IInv, OnSomeRelay, OnRelays
<1> QED
  BY <1>1, <1>13, <1>14, <1>15, BookAlone DEF IInv

\* The rest of a queue is dropped.
LEMMA DropKeeps ==
    ASSUME IInv, queue' = <<>>, UNCHANGED book, UNCHANGED <<outbox, published, sent, relay>>
    PROVE  IInv'
<1>1. \A S : <<>> \in Seq(S)
  OBVIOUS
<1>2. TypeOK'
  BY <1>1 DEF IInv, TypeOK, book
<1>3. OnSomeRelay'
  BY DEF IInv, OnSomeRelay, OnRelays
<1>4. InTurn'
  <2>1. PICK p \in 0..Len(outbox) : published = 1..p /\ sent \subseteq 1..(p + 1)
    BY DEF IInv, InTurn
  <2>2. /\ Len(queue') = 0 /\ Len(outbox) \in Nat /\ p + 0 <= Len(outbox)
        /\ \A i \in 1..0 : queue'[i] = p + i
    BY <2>1 DEF IInv, TypeOK
  <2> QED
    BY <2>1, <2>2 DEF InTurn
<1> QED
  BY <1>2, <1>3, <1>4, BookAlone DEF IInv

LEMMA StepKeeps == IInv /\ [Next]_vars => IInv'
<1> SUFFICES ASSUME IInv, [Next]_vars PROVE IInv'
  OBVIOUS
<1>1. CASE \E t \in {now, now + 1}, e \in Expenses : AddExpense(e, t)
  BY <1>1, AddKeeps
<1>2. CASE \E t \in {now, now + 1}, x \in expenses : EditExpense(x, t)
  BY <1>2, EditNotes, NotesKeeps DEF IInv
<1>3. CASE \E t \in {now, now + 1}, x \in expenses : RemoveExpense(x, t)
  BY <1>3, RemoveNotes, NotesKeeps
<1>4. CASE \E t \in {now, now + 1}, s \in Settlements : Settle(s, t)
  BY <1>4, SettleKeeps
<1>5. CASE Tick
  BY <1>5, TickKeeps
<1>6. CASE \E r \in Relays, i \in sent : Deliver(r, i)
  BY <1>6, DeliverKeeps
<1>7. CASE Accepted
  BY <1>7, AcceptedKeeps
<1>8. CASE Refused \/ Restart
  BY <1>8, DropKeeps DEF Refused, Restart
<1>9. CASE UNCHANGED vars
  BY <1>9, BookAlone DEF vars, book, IInv, TypeOK, InTurn, OnSomeRelay, OnRelays
<1> QED
  BY <1>1, <1>2, <1>3, <1>4, <1>5, <1>6, <1>7, <1>8, <1>9 DEF Next

\* The lines of the book, of the outbox and of the wire stay as they should be.
THEOREM Inductive == Spec => []IInv
BY InitHolds, StepKeeps, PTL DEF Spec

-----------------------------------------------------------------------------
(* What the relays together keep.                                          *)

LEMMA NoneMissing ==
    ASSUME NEW q \in Nat
    PROVE  MissingSaid(1..q) = {}
<1>1. ASSUME NEW j \in 1..q PROVE Cardinality({k \in 1..q : k <= j}) = j
  <2>1. {k \in 1..q : k <= j} = 1..j
    OBVIOUS
  <2>2. 1 \in Int /\ j \in Int /\ ~(1 > j)
    OBVIOUS
  <2>3. Cardinality(1..j) = j - 1 + 1
    BY <2>2, FS_Interval
  <2>4. j - 1 + 1 = j
    BY <2>2
  <2> QED
    BY <2>1, <2>3, <2>4
<1> QED
  BY <1>1 DEF MissingSaid

LEMMA Readable == IInv => ReadableInOrder
<1> SUFFICES ASSUME IInv PROVE ReadableInOrder
  OBVIOUS
<1>1. PICK p \in 0..Len(outbox) : published = 1..p /\ sent \subseteq 1..(p + 1)
  BY DEF IInv, InTurn
<1>2. p \in Nat /\ p + 1 \in Nat
  BY <1>1 DEF IInv, TypeOK
<1>3. 1..p \subseteq OnRelays /\ OnRelays \subseteq 1..(p + 1)
  BY <1>1 DEF IInv, OnSomeRelay, OnRelays, TypeOK
<1>4. OnRelays = 1..p \/ OnRelays = 1..(p + 1)
  <2>1. \A i \in 1..(p + 1) : i \in 1..p \/ i = p + 1
    BY <1>2
  <2> QED
    BY <1>2, <1>3, <2>1
<1>5. NoGapOnRelays
  BY <1>2, <1>4, NoneMissing DEF NoGapOnRelays
<1>6. PublishedCanBeRead
  <2>1. \A i \in 1..p : 1..i \subseteq 1..p
    BY <1>2
  <2> QED
    BY <1>1, <1>3, <2>1 DEF PublishedCanBeRead
<1> QED
  BY <1>5, <1>6 DEF IInv, ReadableInOrder

\* Whatever requests, ticks, relays, failures and stops do, what the relays keep
\* can be followed back from its newest entry, and what is published is there.
THEOREM AlwaysReadable == Spec => []ReadableInOrder
BY Inductive, Readable, PTL

-----------------------------------------------------------------------------
(* The outbox is the record a group is promised (GroupRecord).             *)

LEMMA ReadsNow == TypeOK /\ BookLinesUp /\ EntriesLineUp /\ AllFiled => ReadLedger(DOMAIN outbox) = LedgerNow
BY Reads

LEMMA ReadsAfter ==
    (TypeOK /\ BookLinesUp /\ EntriesLineUp /\ AllFiled)' => (ReadLedger(DOMAIN outbox) = LedgerNow)'
BY ReadsNow, PTL

LEMMA RecordInit == Init => Record!Init
<1> SUFFICES ASSUME Init PROVE Record!Init
  OBVIOUS
<1>1. LedgerNow = {}
  BY DEF Init, LedgerNow
<1>2. DOMAIN outbox = {}
  BY DEF Init
<1>3. ReadLedger(DOMAIN outbox) = {}
  BY <1>2 DEF ReadLedger, EntriesAbout
<1> QED
  BY <1>1, <1>3 DEF Record!Init

LEMMA RecordStep ==
    IInv /\ [Next]_vars => [Record!Next]_<<LedgerNow, ReadLedger(DOMAIN outbox)>>
<1> SUFFICES ASSUME IInv, [Next]_vars
             PROVE  [Record!Next]_<<LedgerNow, ReadLedger(DOMAIN outbox)>>
  OBVIOUS
<1>1. CASE Tick
  <2>1. LedgerNow' = LedgerNow
    BY <1>1 DEF Tick, LedgerNow, book
  <2>2. ReadLedger(DOMAIN outbox)' = LedgerNow'
    BY <1>1, TickKeeps, ReadsAfter DEF IInv
  <2> QED
    BY <2>1, <2>2 DEF Record!Next, Record!WriteDown
<1>2. CASE outbox' = outbox
  <2>1. ReadLedger(DOMAIN outbox)' = ReadLedger(DOMAIN outbox)
    BY <1>2 DEF ReadLedger, EntriesAbout, LastWord
  <2> QED
    BY <2>1 DEF Record!Next, Record!Change
<1>3. Tick \/ outbox' = outbox
  BY DEF Next, AddExpense, EditExpense, RemoveExpense, Settle, Deliver, Accepted, Refused,
         Restart, vars
<1> QED
  BY <1>1, <1>2, <1>3

\* Every tick writes the whole ledger down, as it is then; nothing else changes
\* what the entries read as.
THEOREM RecordIsKept == Spec => KeepsRecord
<1>1. Spec => []IInv
  BY Inductive
<1> QED
  BY <1>1, RecordInit, RecordStep, PTL DEF Spec, KeepsRecord, Record!Spec
=============================================================================
