--------------------------- MODULE ExpenseSyncProofs ---------------------------
(***************************************************************************)
(* TLAPS proofs about ExpenseSync: the server does each change once, the   *)
(* screen counts right, and no change is lost, for any numbers of changes, *)
(* tries, stops and changes made elsewhere.                                *)
(***************************************************************************)
EXTENDS ExpenseSync, FiniteSetTheorems, SequenceTheorems, TLAPS

-----------------------------------------------------------------------------
(* Lists.                                                                  *)

\* Nothing is on a list twice.
Once(s) == \A i, j \in DOMAIN s : s[i] = s[j] => i = j

LEMMA OnAppend ==
    ASSUME NEW T, NEW s \in Seq(T), NEW e \in T
    PROVE  /\ Append(s, e) \in Seq(T) /\ ToSet(Append(s, e)) = ToSet(s) \cup {e}
           /\ Append(s, e) # <<>> /\ Len(Append(s, e)) = Len(s) + 1
           /\ s # <<>> => Head(Append(s, e)) = Head(s)
           /\ Once(s) /\ e \notin ToSet(s) => Once(Append(s, e))
<1> DEFINE a == Append(s, e)
           n == Len(s)
<1>1. n \in Nat /\ DOMAIN s = 1..n
  OBVIOUS
<1>2. /\ a \in Seq(T) /\ a # <<>> /\ Len(a) = n + 1
      /\ \A i \in 1..n : a[i] = s[i]
      /\ a[n + 1] = e
  BY AppendProperties
<1>3. s # <<>> => Head(a) = Head(s)
  BY HeadTailAppend
<1> HIDE DEF a
<1>4. DOMAIN a = 1..(n + 1) /\ \A i \in 1..(n + 1) : i \in 1..n \/ i = n + 1
  BY <1>1, <1>2
<1>5. ToSet(a) = ToSet(s) \cup {e}
  <2>1. \A x \in ToSet(a) : x \in ToSet(s) \cup {e}
    BY <1>1, <1>2, <1>4 DEF ToSet
  <2>2. \A x \in ToSet(s) : x \in ToSet(a)
    BY <1>1, <1>2, <1>4 DEF ToSet
  <2>3. e \in ToSet(a)
    BY <1>1, <1>2, <1>4 DEF ToSet
  <2> QED
    BY <2>1, <2>2, <2>3
<1>6. ASSUME Once(s), e \notin ToSet(s) PROVE Once(a)
  <2> SUFFICES ASSUME NEW i \in 1..(n + 1), NEW j \in 1..(n + 1), a[i] = a[j] PROVE i = j
    BY <1>4 DEF Once
  <2>1. \A k \in 1..n : s[k] # e
    BY <1>1, <1>6 DEF ToSet
  <2> QED
    BY <1>1, <1>2, <1>4, <1>6, <2>1 DEF Once
<1> QED
  BY <1>2, <1>3, <1>5, <1>6 DEF a

LEMMA OnTail ==
    ASSUME NEW T, NEW s \in Seq(T), s # <<>>
    PROVE  /\ Tail(s) \in Seq(T) /\ Head(s) \in ToSet(s)
           /\ Once(s) => Once(Tail(s)) /\ ToSet(Tail(s)) = ToSet(s) \ {Head(s)}
<1> DEFINE a == Tail(s)
           n == Len(s)
<1>1. n \in Nat \ {0} /\ DOMAIN s = 1..n /\ Head(s) = s[1] /\ 1 \in 1..n
  OBVIOUS
<1>2. a \in Seq(T) /\ Len(a) = n - 1 /\ \A i \in 1..(n - 1) : a[i] = s[i + 1]
  BY HeadTailProperties
<1> HIDE DEF a
<1>3. DOMAIN a = 1..(n - 1) /\ \A i \in 1..(n - 1) : i + 1 \in 1..n /\ i + 1 # 1
  BY <1>1, <1>2
<1>4. Head(s) \in ToSet(s)
  BY <1>1 DEF ToSet
<1>5. ASSUME Once(s) PROVE Once(a)
  <2> SUFFICES ASSUME NEW i \in 1..(n - 1), NEW j \in 1..(n - 1), a[i] = a[j] PROVE i = j
    BY <1>3 DEF Once
  <2>1. i + 1 = j + 1
    BY <1>1, <1>2, <1>3, <1>5 DEF Once
  <2> QED
    BY <2>1
<1>6. ASSUME Once(s) PROVE ToSet(a) = ToSet(s) \ {Head(s)}
  <2>1. ASSUME NEW x \in ToSet(a) PROVE x \in ToSet(s) \ {Head(s)}
    <3>1. PICK i \in 1..(n - 1) : x = s[i + 1]
      BY <1>2, <1>3 DEF ToSet
    <3> QED
      BY <1>1, <1>3, <1>6, <3>1 DEF Once, ToSet
  <2>2. ASSUME NEW x \in ToSet(s), x # Head(s) PROVE x \in ToSet(a)
    <3>1. PICK i \in 1..n : x = s[i]
      BY <1>1 DEF ToSet
    <3>2. i # 1
      BY <1>1, <2>2, <3>1
    <3>3. i - 1 \in 1..(n - 1) /\ (i - 1) + 1 = i
      BY <1>1, <3>2
    <3>4. x = a[i - 1]
      BY <1>2, <3>1, <3>3
    <3> QED
      BY <1>3, <3>3, <3>4 DEF ToSet
  <2> QED
    BY <2>1, <2>2
<1> QED
  BY <1>2, <1>4, <1>5, <1>6 DEF a

LEMMA OnConcat ==
    ASSUME NEW T, NEW s \in Seq(T), NEW u \in Seq(T)
    PROVE  /\ s \o u \in Seq(T) /\ ToSet(s \o u) = ToSet(s) \cup ToSet(u)
           /\ s # <<>> => s \o u # <<>> /\ Head(s \o u) = Head(s)
           /\ Once(s) /\ Once(u) /\ ToSet(s) \cap ToSet(u) = {} => Once(s \o u)
<1> DEFINE a == s \o u
           n == Len(s)
           m == Len(u)
<1>1. n \in Nat /\ m \in Nat /\ DOMAIN s = 1..n /\ DOMAIN u = 1..m
  OBVIOUS
<1>2. /\ a \in Seq(T) /\ Len(a) = n + m
      /\ \A i \in 1..(n + m) : a[i] = IF i <= n THEN s[i] ELSE u[i - n]
  BY ConcatProperties
<1> HIDE DEF a
<1>3. /\ DOMAIN a = 1..(n + m)
      /\ \A i \in 1..n : i \in 1..(n + m) /\ a[i] = s[i]
      /\ \A i \in 1..m : n + i \in 1..(n + m) /\ a[n + i] = u[i]
      /\ \A i \in 1..(n + m) : i \in 1..n \/ (i - n \in 1..m /\ i = n + (i - n))
  <2>1. \A i \in 1..m : n + i \in 1..(n + m) /\ ~(n + i <= n) /\ (n + i) - n = i
    BY <1>1
  <2>2. \A i \in 1..n : i \in 1..(n + m) /\ i <= n
    BY <1>1
  <2>3. \A i \in 1..(n + m) : i \in 1..n \/ (i - n \in 1..m /\ i = n + (i - n))
    BY <1>1
  <2>4. DOMAIN a = 1..(n + m)
    BY <1>2
  <2> HIDE DEF n, m
  <2> QED
    BY <1>2, <2>1, <2>2, <2>3, <2>4
<1>4. ToSet(a) = ToSet(s) \cup ToSet(u)
  <2>1. \A x \in ToSet(a) : x \in ToSet(s) \cup ToSet(u)
    <3> SUFFICES ASSUME NEW i \in 1..(n + m) PROVE a[i] \in ToSet(s) \cup ToSet(u)
      BY <1>3 DEF ToSet
    <3> HIDE DEF n, m
    <3> QED
      BY <1>1, <1>3 DEF ToSet
  <2>2. \A x \in ToSet(s) : x \in ToSet(a)
    <3> HIDE DEF n, m
    <3> QED
      BY <1>1, <1>3 DEF ToSet
  <2>3. \A x \in ToSet(u) : x \in ToSet(a)
    <3> HIDE DEF n, m
    <3> QED
      BY <1>1, <1>3 DEF ToSet
  <2> QED
    BY <2>1, <2>2, <2>3
<1>5. ASSUME s # <<>> PROVE a # <<>> /\ Head(a) = Head(s)
  <2>1. n # 0 /\ Head(s) = s[1] /\ 1 \in 1..n
    BY <1>5
  <2>2. Len(a) # 0
    BY <1>1, <1>2, <2>1
  <2>3. a # <<>>
    BY <2>2
  <2>4. Head(a) = a[1]
    BY <1>2, <2>3
  <2> QED
    BY <1>3, <2>1, <2>3, <2>4
<1>6. ASSUME Once(s), Once(u), ToSet(s) \cap ToSet(u) = {} PROVE Once(a)
  <2> SUFFICES ASSUME NEW i \in 1..(n + m), NEW j \in 1..(n + m), a[i] = a[j] PROVE i = j
    BY <1>3 DEF Once
  <2> HIDE DEF n, m
  <2>1. CASE i \in 1..n /\ j \in 1..n
    BY <1>1, <1>3, <1>6, <2>1 DEF Once
  <2>2. CASE i - n \in 1..m /\ j - n \in 1..m /\ i = n + (i - n) /\ j = n + (j - n)
    <3>1. u[i - n] = u[j - n]
      BY <1>3, <2>2
    <3>2. i - n = j - n
      BY <1>1, <1>6, <2>2, <3>1 DEF Once
    <3> QED
      BY <2>2, <3>2
  <2>3. CASE i \in 1..n /\ j - n \in 1..m /\ j = n + (j - n)
    <3>1. a[i] \in ToSet(s) /\ a[j] \in ToSet(u)
      BY <1>1, <1>3, <2>3 DEF ToSet
    <3> QED
      BY <1>6, <3>1
  <2>4. CASE j \in 1..n /\ i - n \in 1..m /\ i = n + (i - n)
    <3>1. a[j] \in ToSet(s) /\ a[i] \in ToSet(u)
      BY <1>1, <1>3, <2>4 DEF ToSet
    <3> QED
      BY <1>6, <3>1
  <2> QED
    BY <1>3, <2>1, <2>2, <2>3, <2>4
<1> QED
  BY <1>2, <1>4, <1>5, <1>6 DEF a

\* A set of numbers in order is all of them, each once.
LEMMA OnOrder ==
    ASSUME NEW S, S \subseteq Nat, IsFiniteSet(S)
    PROVE  /\ InOrder(S) \in Seq(S) /\ ToSet(InOrder(S)) = S /\ Once(InOrder(S))
<1> DEFINE n == Cardinality(S)
           Upto(i) == {j \in S : j <= i}
           f == [i \in S |-> Cardinality(Upto(i))]
           q == InOrder(S)
<1>1. n \in Nat
  BY FS_CardinalityType
<1>2. ASSUME NEW i \in S PROVE IsFiniteSet(Upto(i)) /\ f[i] = Cardinality(Upto(i)) /\ f[i] \in 1..n
  <2>1. Upto(i) \subseteq S /\ i \in Upto(i)
    OBVIOUS
  <2> HIDE DEF Upto
  <2>2. /\ IsFiniteSet(Upto(i)) /\ Cardinality(Upto(i)) <= n
        /\ Cardinality(Upto(i)) \in Nat /\ Cardinality(Upto(i)) # 0
    BY <2>1, FS_Subset, FS_CardinalityType, FS_EmptySet
  <2> HIDE DEF n
  <2> QED
    BY <1>1, <2>2
<1>3. ASSUME NEW i \in S, NEW k \in S, i < k PROVE f[i] < f[k]
  <2>1. k \notin Upto(i) /\ Upto(i) \cup {k} \subseteq Upto(k)
    <3>1. i \in Nat /\ k \in Nat /\ ~(k <= i) /\ k <= k
      BY <1>3
    <3>2. \A j \in S : j \in Nat /\ (j <= i => j <= k)
      BY <1>3, <3>1
    <3> QED
      BY <3>1, <3>2
  <2>2. /\ IsFiniteSet(Upto(i)) /\ IsFiniteSet(Upto(k))
        /\ f[i] = Cardinality(Upto(i)) /\ f[k] = Cardinality(Upto(k))
    BY <1>2
  <2> HIDE DEF Upto, f
  <2>3. Cardinality(Upto(i) \cup {k}) = Cardinality(Upto(i)) + 1
    BY <2>1, <2>2, FS_AddElement
  <2>4. Cardinality(Upto(i) \cup {k}) <= Cardinality(Upto(k))
    BY <2>1, <2>2, FS_Subset
  <2>5. Cardinality(Upto(i)) \in Nat /\ Cardinality(Upto(k)) \in Nat
    BY <2>2, FS_CardinalityType
  <2> QED
    BY <2>2, <2>3, <2>4, <2>5
<1> HIDE DEF f
<1>4. f \in [S -> 1..n]
  <2>1. f = [i \in S |-> f[i]]
    BY DEF f
  <2> QED
    BY <1>2, <2>1
<1>5. f \in Injection(S, 1..n)
  <2>1. \A i, k \in S : i < k \/ k < i \/ i = k
    OBVIOUS
  <2>2. \A i \in S : f[i] \in Nat
    <3>1. \A k \in 1..n : k \in Nat
      OBVIOUS
    <3>2. \A i \in S : f[i] \in 1..n
      BY <1>2
    <3> HIDE DEF n
    <3> QED
      BY <3>1, <3>2
  <2>3. \A i, k \in S : f[i] = f[k] => i = k
    BY <1>3, <2>1, <2>2
  <2> QED
    BY <1>4, <2>3 DEF Injection, IsInjective
<1>6. IsFiniteSet(1..n) /\ Cardinality(1..n) = n
  <2>1. 1 \in Int /\ n \in Int
    BY <1>1
  <2>2. IsFiniteSet(1..n) /\ Cardinality(1..n) = IF 1 > n THEN 0 ELSE n - 1 + 1
    BY <2>1, FS_Interval
  <2> HIDE DEF n
  <2> QED
    BY <1>1, <2>2
<1>7. f \in Surjection(S, 1..n)
  BY <1>5, <1>6, FS_Injection
<1>8. \A k \in 1..n : \E i \in S : f[i] = k
  BY <1>7 DEF Surjection
<1>9. q = [k \in 1..n |-> CHOOSE i \in S : Cardinality(Upto(i)) = k]
  BY DEF InOrder
<1> HIDE DEF q, n, Upto
<1>10. DOMAIN q = 1..n /\ \A k \in 1..n : q[k] \in S /\ f[q[k]] = k
  <2>1. \A k \in 1..n : \E i \in S : Cardinality(Upto(i)) = k
    BY <1>2, <1>8
  <2>2. \A k \in 1..n : q[k] \in S /\ Cardinality(Upto(q[k])) = k
    BY <1>9, <2>1
  <2> QED
    BY <1>2, <1>9, <2>2
<1>11. q \in [1..n -> S]
  BY <1>9, <1>10
<1>12. q \in Seq(S)
  BY <1>1, <1>11
<1>13. Once(q)
  BY <1>10 DEF Once
<1>14. ASSUME NEW i \in S PROVE i \in ToSet(q)
  <2>1. f[i] \in 1..n /\ q[f[i]] \in S /\ f[q[f[i]]] = f[i]
    BY <1>2, <1>10
  <2>2. q[f[i]] = i
    BY <1>5, <2>1 DEF Injection, IsInjective
  <2> QED
    BY <1>10, <2>1, <2>2 DEF ToSet
<1>15. \A x \in ToSet(q) : x \in S
  BY <1>10 DEF ToSet
<1> QED
  BY <1>12, <1>13, <1>14, <1>15 DEF q

\* What is let go is gone, and the rest stays.
LEMMA OnDrop ==
    ASSUME NEW T, NEW q \in Seq(T), NEW S
    PROVE  Drop(q, S) \in Seq(T) /\ ToSet(Drop(q, S)) = {c \in ToSet(q) : c.key \notin S}
<1> DEFINE K == {i \in DOMAIN q : q[i].key \notin S}
           o == Kept(q, S)
           d == Drop(q, S)
<1>1. K \subseteq Nat /\ IsFiniteSet(K)
  <2>1. DOMAIN q = 1..Len(q) /\ 1 \in Int /\ Len(q) \in Int /\ Len(q) \in Nat
    OBVIOUS
  <2>2. IsFiniteSet(1..Len(q))
    BY <2>1, FS_Interval
  <2>3. K \subseteq 1..Len(q) /\ 1..Len(q) \subseteq Nat
    BY <2>1
  <2> HIDE DEF K
  <2>4. IsFiniteSet(K)
    BY <2>2, <2>3, FS_Subset
  <2> QED
    BY <2>3, <2>4
<1>2. o = InOrder(K)
  BY DEF Kept
<1> HIDE DEF o
<1>3. o \in Seq(K) /\ ToSet(o) = K
  <2> HIDE DEF K
  <2> QED
    BY <1>1, <1>2, OnOrder
<1>4. d = [n \in DOMAIN o |-> q[o[n]]]
  BY DEF Drop, o
<1> HIDE DEF d
<1>5. Len(o) \in Nat /\ DOMAIN o = 1..Len(o) /\ \A n \in 1..Len(o) : o[n] \in K
  <2> HIDE DEF K
  <2> QED
    BY <1>3
<1>6. \A i \in K : q[i] \in T /\ i \in DOMAIN q /\ q[i].key \notin S
  OBVIOUS
<1>7. d \in [1..Len(o) -> T] /\ DOMAIN d = 1..Len(o) /\ \A n \in 1..Len(o) : d[n] = q[o[n]]
  <2> HIDE DEF K
  <2> QED
    BY <1>4, <1>5, <1>6
<1>8. d \in Seq(T)
  BY <1>5, <1>7
<1>9. ASSUME NEW c \in ToSet(d) PROVE c \in ToSet(q) /\ c.key \notin S
  <2>1. PICK n \in 1..Len(o) : c = q[o[n]]
    BY <1>7 DEF ToSet
  <2>2. o[n] \in K
    BY <1>5
  <2> QED
    BY <1>6, <2>1, <2>2 DEF ToSet
<1>10. ASSUME NEW c \in ToSet(q), c.key \notin S PROVE c \in ToSet(d)
  <2>1. PICK i \in DOMAIN q : c = q[i]
    BY DEF ToSet
  <2>2. i \in K
    BY <1>10, <2>1
  <2>3. PICK n \in 1..Len(o) : o[n] = i
    BY <1>3, <1>5, <2>2 DEF ToSet
  <2>4. d[n] = c
    BY <1>7, <2>1, <2>3
  <2> QED
    BY <1>7, <2>4 DEF ToSet
<1> QED
  BY <1>8, <1>9, <1>10 DEF d

States == {"sending", "lost", "unsaved", "done"}

\* What moves keeps its key and its tries.
LEMMA OnBecome ==
    ASSUME NEW c \in Change, NEW state \in States
    PROVE  /\ Become(c, state) \in Change /\ Become(c, state).key = c.key
           /\ Become(c, state).state = state /\ Become(c, state).tries = c.tries
BY DEF Become, Change, States

Moved(c, S, state) == IF c.key \in S THEN Become(c, state) ELSE c

LEMMA OnMove ==
    ASSUME NEW q \in Seq(Change), NEW S, NEW state \in States
    PROVE  /\ Move(q, S, state) \in Seq(Change)
           /\ \A c \in ToSet(q) : Moved(c, S, state) \in ToSet(Move(q, S, state))
           /\ \A d \in ToSet(Move(q, S, state)) : \E c \in ToSet(q) : d = Moved(c, S, state)
           /\ \A c \in ToSet(q) :
                 /\ Moved(c, S, state).key = c.key /\ Moved(c, S, state).tries = c.tries
                 /\ Moved(c, S, state).state = IF c.key \in S THEN state ELSE c.state
<1> DEFINE m == Move(q, S, state)
<1>1. Len(q) \in Nat /\ DOMAIN q = 1..Len(q) /\ \A i \in 1..Len(q) : q[i] \in Change
  OBVIOUS
<1>2. \A c \in Change : /\ Moved(c, S, state) \in Change
                        /\ Moved(c, S, state).key = c.key /\ Moved(c, S, state).tries = c.tries
                        /\ Moved(c, S, state).state = IF c.key \in S THEN state ELSE c.state
  BY OnBecome DEF Moved
<1>3. m = [i \in DOMAIN q |-> Moved(q[i], S, state)]
  BY DEF Move, Moved
<1> HIDE DEF m
<1>4. /\ m \in [1..Len(q) -> Change] /\ DOMAIN m = DOMAIN q
      /\ \A i \in DOMAIN q : m[i] = Moved(q[i], S, state)
  BY <1>1, <1>2, <1>3
<1>5. m \in Seq(Change)
  BY <1>1, <1>4
<1>6. /\ \A c \in ToSet(q) : Moved(c, S, state) \in ToSet(m)
      /\ \A d \in ToSet(m) : \E c \in ToSet(q) : d = Moved(c, S, state)
  BY <1>4 DEF ToSet
<1>7. \A c \in ToSet(q) : c \in Change
  BY DEF ToSet
<1> QED
  BY <1>2, <1>5, <1>6, <1>7 DEF m

-----------------------------------------------------------------------------
(* The changes on a list, by their keys.                                   *)

KeysOf(q) == {c.key : c \in ToSet(q)}

Waiting(q) == KeysIn(q, "sending") \cup KeysIn(q, "lost")

LEMMA KeysMoved ==
    ASSUME NEW q \in Seq(Change), NEW S, NEW state \in States
    PROVE  /\ Move(q, S, state) \in Seq(Change)
           /\ KeysOf(Move(q, S, state)) = KeysOf(q)
           /\ \A k, s : k \in KeysIn(Move(q, S, state), s) <=>
                 \/ k \in S /\ k \in KeysOf(q) /\ s = state
                 \/ k \notin S /\ k \in KeysIn(q, s)
           /\ \A d \in ToSet(Move(q, S, state)) : \E c \in ToSet(q) :
                 /\ d = Moved(c, S, state)
                 /\ d.key = c.key /\ d.tries = c.tries
                 /\ d.state = IF c.key \in S THEN state ELSE c.state
<1> DEFINE m == Move(q, S, state)
<1>1. /\ m \in Seq(Change)
      /\ \A c \in ToSet(q) : Moved(c, S, state) \in ToSet(m)
      /\ \A d \in ToSet(m) : \E c \in ToSet(q) : d = Moved(c, S, state)
      /\ \A c \in ToSet(q) :
            /\ Moved(c, S, state).key = c.key /\ Moved(c, S, state).tries = c.tries
            /\ Moved(c, S, state).state = IF c.key \in S THEN state ELSE c.state
  BY OnMove
<1> HIDE DEF m
<1>4. \A d \in ToSet(m) : \E c \in ToSet(q) :
          /\ d = Moved(c, S, state)
          /\ d.key = c.key /\ d.tries = c.tries
          /\ d.state = IF c.key \in S THEN state ELSE c.state
  BY <1>1
<1>5. \A c \in ToSet(q) : \E d \in ToSet(m) :
          /\ d.key = c.key /\ d.state = IF c.key \in S THEN state ELSE c.state
  BY <1>1
<1>6. KeysOf(m) = KeysOf(q)
  BY <1>4, <1>5 DEF KeysOf
<1>7. ASSUME NEW k, NEW s
      PROVE  k \in KeysIn(m, s) <=> \/ k \in S /\ k \in KeysOf(q) /\ s = state
                                    \/ k \notin S /\ k \in KeysIn(q, s)
  BY <1>4, <1>5 DEF KeysOf, KeysIn
<1> QED
  BY <1>1, <1>4, <1>6, <1>7 DEF m

LEMMA KeysDropped ==
    ASSUME NEW q \in Seq(Change), NEW S
    PROVE  /\ Drop(q, S) \in Seq(Change)
           /\ KeysOf(Drop(q, S)) = KeysOf(q) \ S
           /\ \A s : KeysIn(Drop(q, S), s) = KeysIn(q, s) \ S
           /\ ToSet(Drop(q, S)) = {c \in ToSet(q) : c.key \notin S}
<1> DEFINE d == Drop(q, S)
<1>1. d \in Seq(Change) /\ ToSet(d) = {c \in ToSet(q) : c.key \notin S}
  BY OnDrop
<1> HIDE DEF d
<1>2. KeysOf(d) = KeysOf(q) \ S /\ \A s : KeysIn(d, s) = KeysIn(q, s) \ S
  BY <1>1 DEF KeysOf, KeysIn
<1> QED
  BY <1>1, <1>2 DEF d

LEMMA KeysAdded ==
    ASSUME NEW q \in Seq(Change), NEW c \in Change
    PROVE  /\ Append(q, c) \in Seq(Change)
           /\ ToSet(Append(q, c)) = ToSet(q) \cup {c}
           /\ KeysOf(Append(q, c)) = KeysOf(q) \cup {c.key}
           /\ \A s : KeysIn(Append(q, c), s) =
                        KeysIn(q, s) \cup (IF s = c.state THEN {c.key} ELSE {})
<1> DEFINE a == Append(q, c)
<1>1. a \in Seq(Change) /\ ToSet(a) = ToSet(q) \cup {c}
  BY OnAppend
<1> HIDE DEF a
<1>2. KeysOf(a) = KeysOf(q) \cup {c.key}
  BY <1>1 DEF KeysOf
<1>3. \A s : KeysIn(a, s) = KeysIn(q, s) \cup (IF s = c.state THEN {c.key} ELSE {})
  BY <1>1 DEF KeysIn
<1> QED
  BY <1>1, <1>2, <1>3 DEF a

LEMMA KeysTyped ==
    ASSUME NEW q \in Seq(Change)
    PROVE  /\ \A c \in ToSet(q) : c \in Change
           /\ KeysOf(q) \subseteq Keys
           /\ \A s : KeysIn(q, s) \subseteq KeysOf(q)
           /\ \A k \in KeysOf(q) : \E s \in States : k \in KeysIn(q, s)
<1>1. \A c \in ToSet(q) : c \in Change
  BY DEF ToSet
<1>2. \A c \in ToSet(q) : c.key \in Keys /\ c.state \in States
  BY <1>1 DEF Change, States
<1> QED
  BY <1>1, <1>2 DEF KeysOf, KeysIn

-----------------------------------------------------------------------------
(* The invariant.                                                          *)

\* What a change made is about has been there.
MadeOf == DOMAIN made \subseteq Keys /\ \A k \in DOMAIN made : ~IsAdd(k) => made[k].of \in DOMAIN log

\* Only what was made is on the lists q and d, in the lines w, in a request, late,
\* known to the server, or told.
OnlyMade(q, d, w, r, l, t) ==
    \A k \in Keys : k \notin DOMAIN made =>
        /\ k \notin KeysOf(q) /\ k \notin KeysOf(d) /\ \A x \in Targets : k \notin ToSet(w[x])
        /\ r[k] = "none" /\ k \notin l /\ key[k] = "free"
        /\ k \notin t.done /\ k \notin t.refused

\* The server does a key's change once.
DoneOnce ==
    /\ \A i, j \in DOMAIN log : log[i].key = log[j].key /\ log[i].key # Elsewhere => i = j
    /\ \A k \in Keys : key[k] \in {"free", "claimed"} => EntriesOf(k) = {}

\* What is sent waits once, in the line of the expense it is about, and whose
\* request is under way is at the head.
InLine(q, w, r) ==
    /\ \A x \in Targets :
          /\ Once(w[x])
          /\ \A k \in ToSet(w[x]) : Target(k) = x /\ k \in KeysIn(q, "sending")
    /\ \A k \in Keys : r[k] # "none" =>
          \E x \in Targets : Target(k) = x /\ w[x] # <<>> /\ Head(w[x]) = k

\* What is done, or found gone, is so for good.
ForGood(k) == key[k] = "stored" \/ (~IsAdd(k) /\ ~Live(made[k].of, Now))

DoneStays(r, t) ==
    /\ \A k \in t.done : ForGood(k)
    /\ \A k \in Keys : r[k] = "ok" => key[k] = "stored"
    /\ \A k \in Keys : r[k] = "gone" => ForGood(k)

\* On a list q, when a person was told t: a key is one change, what is done was
\* told and stays done, and what is left to the person was given up or refused.
OneEach(q, t) ==
    /\ \A c, d \in ToSet(q) : c.key = d.key => c = d
    /\ \A c \in ToSet(q) : c.state = "done" <=> c.key \in t.done
    /\ \A c \in ToSet(q) : c.state = "unsaved" => c.tries >= GiveUpAfter \/ c.key \in t.refused

\* What is done is laid over copy n, or in it.
Covers(q, n, t) ==
    \A k \in t.done, i \in DOMAIN log : log[i].key = k => k \in KeysIn(q, "done") \/ i <= n

InCopy(k, n) == \E x \in EntriesOf(k) : x <= n /\ Live(x, n)

\* No add that waits is in copy n, but one that was left to the person before.
NoneTwice(q, n, t) ==
    \A c \in ToSet(q) : IsAdd(c.key) /\ c.state \in {"sending", "lost"} /\ InCopy(c.key, n)
        => c.tries >= GiveUpAfter \/ c.key \in t.refused

Fine(q, n, t) == OneEach(q, t) /\ NoneTwice(q, n, t) /\ (n # 0 => Covers(q, n, t))

\* The answer of sync s, with changes q and copy n: nothing done is lost by using it.
SyncLinesUp(q, n, s, t) ==
    /\ s.after \subseteq t.done
    /\ s.at = "back" =>
          /\ n <= s.answer
          /\ Covers(q, s.answer, t)
          /\ \A k \in s.after, i \in DOMAIN log : log[i].key = k => i <= s.answer

\* A change was done, or told of, or given up for a newer one.
Newer(j, k) == j > k /\ ~IsAdd(j) /\ ~IsAdd(k) /\ made[j].of = made[k].of

Accounted(k, t) ==
    \/ EntriesOf(k) # {} \/ k \in t.done \cup t.refused
    \/ \E j \in DOMAIN made : Newer(j, k)

\* If not, it is on both lists.
NoneLost(q, d, t) == \A k \in DOMAIN made : Accounted(k, t) \/ (k \in KeysOf(q) /\ k \in KeysOf(d))

IInv ==
    /\ TypeOK /\ MadeOf /\ DoneOnce
    /\ OnlyMade(changes, disk.changes, chain, request, late, told)
    /\ InLine(changes, chain, request)
    /\ DoneStays(request, told)
    /\ SyncLinesUp(changes, copy, sync, told)
    /\ Fine(changes, copy, told) /\ Fine(disk.changes, disk.copy, told)
    /\ NoneLost(changes, disk.changes, told)

-----------------------------------------------------------------------------
(* Lists that stay fine.                                                   *)

\* t2 says what t says, and more of what was refused.
Says(t, t2) == t2.done = t.done /\ t.refused \subseteq t2.refused

\* Changes that are not done move.
LEMMA FineMove ==
    ASSUME NEW q \in Seq(Change), NEW n, NEW t, NEW t2, NEW S, NEW state \in States, state # "done",
           Fine(q, n, t), Says(t, t2), S \cap t.done = {},
           state = "unsaved" =>
              \A c \in ToSet(q) : c.key \in S => c.tries >= GiveUpAfter \/ c.key \in t2.refused
    PROVE  Fine(Move(q, S, state), n, t2)
<1> DEFINE m == Move(q, S, state)
<1>1. \A d \in ToSet(m) : \E c \in ToSet(q) :
          /\ d = Moved(c, S, state)
          /\ d.key = c.key /\ d.tries = c.tries
          /\ d.state = IF c.key \in S THEN state ELSE c.state
  BY KeysMoved DEF States
<1>2. \A k, s : k \in KeysIn(m, s) <=> \/ k \in S /\ k \in KeysOf(q) /\ s = state
                                       \/ k \notin S /\ k \in KeysIn(q, s)
  BY KeysMoved DEF States
<1> HIDE DEF m
<1>3. OneEach(q, t) /\ NoneTwice(q, n, t) /\ (n # 0 => Covers(q, n, t))
  BY DEF Fine
<1>4. OneEach(m, t2)
  <2>1. \A c, d \in ToSet(m) : c.key = d.key => c = d
    BY <1>1, <1>3 DEF OneEach
  <2>2. \A c \in ToSet(m) : c.state = "done" <=> c.key \in t2.done
    BY <1>1, <1>3 DEF OneEach, Says
  <2>3. \A c \in ToSet(m) : c.state = "unsaved" => c.tries >= GiveUpAfter \/ c.key \in t2.refused
    BY <1>1, <1>3 DEF OneEach, Says
  <2> QED
    BY <2>1, <2>2, <2>3 DEF OneEach
<1>5. NoneTwice(m, n, t2)
  <2> SUFFICES ASSUME NEW d \in ToSet(m), IsAdd(d.key), d.state \in {"sending", "lost"}, InCopy(d.key, n)
               PROVE  d.tries >= GiveUpAfter \/ d.key \in t2.refused
    BY DEF NoneTwice
  <2>1. PICK c \in ToSet(q) : /\ d.key = c.key /\ d.tries = c.tries
                              /\ d.state = IF c.key \in S THEN state ELSE c.state
    BY <1>1
  <2>2. c \in Change
    BY KeysTyped
  <2>3. c.state \in {"sending", "lost", "unsaved"}
    BY <1>3, <2>1, <2>2 DEF OneEach, Change
  <2>4. CASE c.state = "unsaved"
    BY <1>3, <2>1, <2>4 DEF OneEach, Says
  <2>5. CASE c.state \in {"sending", "lost"}
    BY <1>3, <2>1, <2>5 DEF NoneTwice, Says
  <2> QED
    BY <2>3, <2>4, <2>5
<1>6. Covers(q, n, t) => Covers(m, n, t2)
  BY <1>2 DEF Covers, Says
<1> QED
  BY <1>3, <1>4, <1>5, <1>6 DEF Fine, m

LEMMA CoversMove ==
    ASSUME NEW q \in Seq(Change), NEW n, NEW t, NEW t2, NEW S, NEW state \in States, state # "done",
           Covers(q, n, t), Says(t, t2), S \cap t.done = {}
    PROVE  Covers(Move(q, S, state), n, t2)
<1>1. \A k : k \in KeysIn(q, "done") /\ k \notin S => k \in KeysIn(Move(q, S, state), "done")
  BY KeysMoved DEF States
<1> QED
  BY <1>1 DEF Covers, Says

\* Changes that are not done are let go.
LEMMA FineDrop ==
    ASSUME NEW q \in Seq(Change), NEW n, NEW t, NEW t2, NEW S,
           Fine(q, n, t), Says(t, t2), S \cap t.done = {}
    PROVE  Fine(Drop(q, S), n, t2)
<1> DEFINE d == Drop(q, S)
<1>1. ToSet(d) = {c \in ToSet(q) : c.key \notin S} /\ \A s : KeysIn(d, s) = KeysIn(q, s) \ S
  BY KeysDropped
<1> HIDE DEF d
<1>2. OneEach(q, t) /\ NoneTwice(q, n, t) /\ (n # 0 => Covers(q, n, t))
  BY DEF Fine
<1>3. OneEach(d, t2)
  BY <1>1, <1>2 DEF OneEach, Says
<1>4. NoneTwice(d, n, t2)
  BY <1>1, <1>2 DEF NoneTwice, Says
<1>5. Covers(q, n, t) => Covers(d, n, t2)
  BY <1>1 DEF Covers, Says
<1> QED
  BY <1>2, <1>3, <1>4, <1>5 DEF Fine, d

LEMMA CoversDrop ==
    ASSUME NEW q \in Seq(Change), NEW n, NEW t, NEW t2, NEW S,
           Covers(q, n, t), Says(t, t2), S \cap t.done = {}
    PROVE  Covers(Drop(q, S), n, t2)
BY KeysDropped DEF Covers, Says

\* One change is done.
LEMMA FineDone ==
    ASSUME NEW q \in Seq(Change), NEW n, NEW t, NEW t2, NEW k,
           Fine(q, n, t), t2.done = t.done \cup {k}, t2.refused = t.refused, k \in KeysOf(q)
    PROVE  Fine(Move(q, {k}, "done"), n, t2)
<1> DEFINE m == Move(q, {k}, "done")
<1>1. \A d \in ToSet(m) : \E c \in ToSet(q) :
          /\ d = Moved(c, {k}, "done")
          /\ d.key = c.key /\ d.tries = c.tries
          /\ d.state = IF c.key \in {k} THEN "done" ELSE c.state
  BY KeysMoved DEF States
<1>2. \A j, s : j \in KeysIn(m, s) <=> \/ j \in {k} /\ j \in KeysOf(q) /\ s = "done"
                                       \/ j \notin {k} /\ j \in KeysIn(q, s)
  BY KeysMoved DEF States
<1> HIDE DEF m
<1>3. OneEach(q, t) /\ NoneTwice(q, n, t) /\ (n # 0 => Covers(q, n, t))
  BY DEF Fine
<1>4. OneEach(m, t2)
  <2>1. \A c, d \in ToSet(m) : c.key = d.key => c = d
    BY <1>1, <1>3 DEF OneEach
  <2>2. \A c \in ToSet(m) : c.state = "done" <=> c.key \in t2.done
    BY <1>1, <1>3 DEF OneEach
  <2>3. \A c \in ToSet(m) : c.state = "unsaved" => c.tries >= GiveUpAfter \/ c.key \in t2.refused
    BY <1>1, <1>3 DEF OneEach
  <2> QED
    BY <2>1, <2>2, <2>3 DEF OneEach
<1>5. NoneTwice(m, n, t2)
  BY <1>1, <1>3 DEF NoneTwice
<1>6. Covers(q, n, t) => Covers(m, n, t2)
  BY <1>2 DEF Covers
<1> QED
  BY <1>3, <1>4, <1>5, <1>6 DEF Fine, m

LEMMA CoversDone ==
    ASSUME NEW q \in Seq(Change), NEW n, NEW t, NEW t2, NEW k,
           Covers(q, n, t), t2.done = t.done \cup {k}, k \in KeysOf(q)
    PROVE  Covers(Move(q, {k}, "done"), n, t2)
<1>1. \A j, s : j \in KeysIn(Move(q, {k}, "done"), s) <=>
                    \/ j \in {k} /\ j \in KeysOf(q) /\ s = "done"
                    \/ j \notin {k} /\ j \in KeysIn(q, s)
  BY KeysMoved DEF States
<1> QED
  BY <1>1 DEF Covers

\* What is kept on the device: the same changes, those on their way as lost.
LEMMA FineHydrated ==
    ASSUME NEW q \in Seq(Change), NEW n, NEW t, Fine(q, n, t)
    PROVE  Hydrated(q) \in Seq(Change) /\ KeysOf(Hydrated(q)) = KeysOf(q) /\ Fine(Hydrated(q), n, t)
<1>1. KeysIn(q, "sending") \cap t.done = {}
  BY DEF Fine, OneEach, KeysIn
<1>2. Says(t, t)
  BY DEF Says
<1> DEFINE S == KeysIn(q, "sending")
<1>3. Hydrated(q) = Move(q, S, "lost")
  BY DEF Hydrated
<1> HIDE DEF S
<1>4. Move(q, S, "lost") \in Seq(Change) /\ KeysOf(Move(q, S, "lost")) = KeysOf(q)
  <2>1. "lost" \in States
    BY DEF States
  <2> QED
    BY <2>1, KeysMoved
<1>5. Fine(Move(q, S, "lost"), n, t)
  <2>1. S \cap t.done = {}
    BY <1>1 DEF S
  <2>2. "lost" \in States /\ "lost" # "done" /\ "lost" # "unsaved"
    BY DEF States
  <2> QED
    BY <1>2, <2>1, <2>2, FineMove
<1> QED
  BY <1>3, <1>4, <1>5

-----------------------------------------------------------------------------
(* Steps of the server.                                                    *)

\* A step of the server's keys and of the requests that the app does not see.
LEMMA KeyStep ==
    ASSUME IInv, UNCHANGED <<log, app>>, TypeOK',
           \A k \in Keys : k \notin DOMAIN made => key'[k] = "free" /\ request'[k] = "none" /\ k \notin late',
           \A k \in Keys : key'[k] \in {"free", "claimed"} => EntriesOf(k) = {},
           \A k \in Keys : key[k] = "stored" => key'[k] = "stored",
           \A k \in Keys : request'[k] # "none" => request[k] # "none",
           \A k \in Keys : request'[k] = "ok" => key'[k] = "stored",
           \A k \in Keys : request'[k] = "gone" => ForGood(k)
    PROVE  IInv'
<1>1. /\ log' = log /\ made' = made /\ changes' = changes /\ chain' = chain /\ sync' = sync
      /\ copy' = copy /\ disk' = disk /\ told' = told
  BY DEF app
<1>2. told.done \subseteq Keys
  BY DEF IInv, TypeOK
<1>3. MadeOf'
  BY <1>1 DEF IInv, MadeOf, IsAdd, Kind
<1>4. DoneOnce'
  BY <1>1 DEF IInv, DoneOnce, EntriesOf
<1>5. OnlyMade(changes, disk.changes, chain, request, late, told)'
  BY <1>1 DEF IInv, OnlyMade, KeysOf
<1>6. InLine(changes, chain, request)'
  BY <1>1 DEF IInv, InLine, Target, IsAdd, Kind, KeysIn
<1>7. DoneStays(request, told)'
  BY <1>1, <1>2 DEF IInv, DoneStays, ForGood, IsAdd, Kind, Live, Now
<1>8. SyncLinesUp(changes, copy, sync, told)'
  BY <1>1 DEF IInv, SyncLinesUp, Covers, KeysIn
<1>9. Fine(changes, copy, told)' /\ Fine(disk.changes, disk.copy, told)'
  BY <1>1 DEF IInv, Fine, OneEach, NoneTwice, Covers, InCopy, EntriesOf, Live, IsAdd, Kind, KeysIn
<1>10. NoneLost(changes, disk.changes, told)'
  BY <1>1 DEF IInv, NoneLost, Accounted, Newer, EntriesOf, IsAdd, Kind, KeysOf
<1> QED
  BY <1>3, <1>4, <1>5, <1>6, <1>7, <1>8, <1>9, <1>10 DEF IInv

LEMMA ArriveKeeps == ASSUME IInv, NEW k \in Keys, Arrive(k) PROVE IInv'
<1>1. UNCHANGED <<log, app>> /\ late' = late /\ crashes' = crashes
  BY DEF Arrive
<1>2. /\ key' = [key EXCEPT ![k] = Claim(k)] /\ request[k] = "out"
      /\ request' = [request EXCEPT ![k] =
            IF key[k] = "free" THEN "working" ELSE IF key[k] = "stored" THEN "ok" ELSE "busy"]
  BY DEF Arrive
<1>3. TypeOK
  BY DEF IInv
<1>4. TypeOK'
  BY <1>1, <1>2, <1>3 DEF TypeOK, Claim, app, Now
<1>5. /\ key \in [Keys -> {"free", "claimed", "executed", "stored", "stuck"}]
      /\ request \in [Keys -> {"none", "out", "working", "ok", "busy", "no", "gone"}]
  BY <1>3 DEF TypeOK
<1>6. \A j \in Keys : j \notin DOMAIN made => key'[j] = "free" /\ request'[j] = "none" /\ j \notin late'
  BY <1>1, <1>2, <1>5 DEF IInv, OnlyMade
<1>7. \A j \in Keys : key'[j] \in {"free", "claimed"} => EntriesOf(j) = {}
  BY <1>2, <1>5 DEF IInv, DoneOnce, Claim
<1>8. \A j \in Keys : key[j] = "stored" => key'[j] = "stored"
  BY <1>2, <1>5 DEF Claim
<1>9. \A j \in Keys : request'[j] # "none" => request[j] # "none"
  BY <1>2, <1>5
<1>10. \A j \in Keys : request'[j] = "ok" => key'[j] = "stored"
  BY <1>2, <1>5, <1>8 DEF IInv, DoneStays
<1>11. \A j \in Keys : request'[j] = "gone" => ForGood(j)
  BY <1>2, <1>5 DEF IInv, DoneStays
<1> QED
  BY <1>1, <1>4, <1>6, <1>7, <1>8, <1>9, <1>10, <1>11, KeyStep

LEMMA ArriveLateKeeps == ASSUME IInv, NEW k \in Keys, ArriveLate(k) PROVE IInv'
<1>1. UNCHANGED <<log, app>> /\ request' = request /\ crashes' = crashes
  BY DEF ArriveLate
<1>2. key' = [key EXCEPT ![k] = Claim(k)] /\ k \in late /\ late' = late \ {k}
  BY DEF ArriveLate
<1>3. TypeOK
  BY DEF IInv
<1>4. TypeOK'
  BY <1>1, <1>2, <1>3 DEF TypeOK, Claim, app, Now
<1>5. /\ key \in [Keys -> {"free", "claimed", "executed", "stored", "stuck"}]
      /\ request \in [Keys -> {"none", "out", "working", "ok", "busy", "no", "gone"}]
  BY <1>3 DEF TypeOK
<1>6. \A j \in Keys : j \notin DOMAIN made => key'[j] = "free" /\ request'[j] = "none" /\ j \notin late'
  BY <1>1, <1>2, <1>5 DEF IInv, OnlyMade
<1>7. \A j \in Keys : key'[j] \in {"free", "claimed"} => EntriesOf(j) = {}
  BY <1>2, <1>5 DEF IInv, DoneOnce, Claim
<1>8. \A j \in Keys : key[j] = "stored" => key'[j] = "stored"
  BY <1>2, <1>5 DEF Claim
<1>9. \A j \in Keys : request'[j] # "none" => request[j] # "none"
  BY <1>1
<1>10. \A j \in Keys : request'[j] = "ok" => key'[j] = "stored"
  BY <1>1, <1>8 DEF IInv, DoneStays
<1>11. \A j \in Keys : request'[j] = "gone" => ForGood(j)
  BY <1>1 DEF IInv, DoneStays
<1> QED
  BY <1>1, <1>4, <1>6, <1>7, <1>8, <1>9, <1>10, <1>11, KeyStep

LEMMA StoreKeeps == ASSUME IInv, NEW k \in Keys, Store(k) PROVE IInv'
<1>1. UNCHANGED <<log, app>> /\ late' = late /\ crashes' = crashes
  BY DEF Store
<1>2. /\ key' = [key EXCEPT ![k] = "stored"] /\ key[k] = "executed"
      /\ request' = [request EXCEPT ![k] = IF @ = "working" THEN "ok" ELSE @]
  BY DEF Store
<1>3. TypeOK
  BY DEF IInv
<1>4. TypeOK'
  BY <1>1, <1>2, <1>3 DEF TypeOK, app, Now
<1>5. /\ key \in [Keys -> {"free", "claimed", "executed", "stored", "stuck"}]
      /\ request \in [Keys -> {"none", "out", "working", "ok", "busy", "no", "gone"}]
  BY <1>3 DEF TypeOK
<1>6. \A j \in Keys : j \notin DOMAIN made => key'[j] = "free" /\ request'[j] = "none" /\ j \notin late'
  BY <1>1, <1>2, <1>5 DEF IInv, OnlyMade
<1>7. \A j \in Keys : key'[j] \in {"free", "claimed"} => EntriesOf(j) = {}
  BY <1>2, <1>5 DEF IInv, DoneOnce
<1>8. \A j \in Keys : key[j] = "stored" => key'[j] = "stored"
  BY <1>2, <1>5
<1>9. \A j \in Keys : request'[j] # "none" => request[j] # "none"
  BY <1>2, <1>5
<1>10. \A j \in Keys : request'[j] = "ok" => key'[j] = "stored"
  BY <1>2, <1>5, <1>8 DEF IInv, DoneStays
<1>11. \A j \in Keys : request'[j] = "gone" => ForGood(j)
  BY <1>2, <1>5 DEF IInv, DoneStays
<1> QED
  BY <1>1, <1>4, <1>6, <1>7, <1>8, <1>9, <1>10, <1>11, KeyStep

LEMMA RefuseKeeps == ASSUME IInv, NEW k \in Keys, Refuse(k) PROVE IInv'
<1>1. UNCHANGED <<log, app>> /\ late' = late /\ crashes' = crashes
  BY DEF Refuse
<1>2. PICK no \in {"no", "gone"} :
          /\ no = "gone" <=> (~IsAdd(k) /\ ~Live(made[k].of, Now))
          /\ request' = [request EXCEPT ![k] = IF @ = "working" THEN no ELSE @]
  BY DEF Refuse
<1>3. key' = [key EXCEPT ![k] = "free"] /\ key[k] = "claimed"
  BY DEF Refuse
<1>4. TypeOK
  BY DEF IInv
<1>5. TypeOK'
  BY <1>1, <1>2, <1>3, <1>4 DEF TypeOK, app, Now
<1>6. /\ key \in [Keys -> {"free", "claimed", "executed", "stored", "stuck"}]
      /\ request \in [Keys -> {"none", "out", "working", "ok", "busy", "no", "gone"}]
  BY <1>4 DEF TypeOK
<1>7. \A j \in Keys : j \notin DOMAIN made => key'[j] = "free" /\ request'[j] = "none" /\ j \notin late'
  BY <1>1, <1>2, <1>3, <1>6 DEF IInv, OnlyMade
<1>8. \A j \in Keys : key'[j] \in {"free", "claimed"} => EntriesOf(j) = {}
  BY <1>3, <1>6 DEF IInv, DoneOnce
<1>9. \A j \in Keys : key[j] = "stored" => key'[j] = "stored"
  BY <1>3, <1>6
<1>10. \A j \in Keys : request'[j] # "none" => request[j] # "none"
  BY <1>2, <1>6
<1>11. \A j \in Keys : request'[j] = "ok" => key'[j] = "stored"
  BY <1>2, <1>6, <1>9 DEF IInv, DoneStays
<1>12. \A j \in Keys : request'[j] = "gone" => ForGood(j)
  BY <1>2, <1>6 DEF IInv, DoneStays, ForGood
<1> QED
  BY <1>1, <1>5, <1>7, <1>8, <1>9, <1>10, <1>11, <1>12, KeyStep

LEMMA CrashKeeps == ASSUME IInv, Crash PROVE IInv'
<1>1. UNCHANGED <<log, app>> /\ late' = late /\ request' = request
  BY DEF Crash
<1>2. key' = [k \in Keys |-> IF key[k] \in {"claimed", "executed"} THEN "stuck" ELSE key[k]]
  BY DEF Crash
<1>3. TypeOK
  BY DEF IInv
<1>4. TypeOK'
  BY <1>1, <1>2, <1>3 DEF TypeOK, app, Now
<1>5. key \in [Keys -> {"free", "claimed", "executed", "stored", "stuck"}]
  BY <1>3 DEF TypeOK
<1>6. \A j \in Keys : j \notin DOMAIN made => key'[j] = "free" /\ request'[j] = "none" /\ j \notin late'
  BY <1>1, <1>2, <1>5 DEF IInv, OnlyMade
<1>7. \A j \in Keys : key'[j] \in {"free", "claimed"} => EntriesOf(j) = {}
  BY <1>2, <1>5 DEF IInv, DoneOnce
<1>8. \A j \in Keys : key[j] = "stored" => key'[j] = "stored"
  BY <1>2, <1>5
<1>9. \A j \in Keys : request'[j] = "ok" => key'[j] = "stored"
  BY <1>1, <1>8 DEF IInv, DoneStays
<1>10. \A j \in Keys : request'[j] = "gone" => ForGood(j)
  BY <1>1 DEF IInv, DoneStays
<1>11. \A j \in Keys : request'[j] # "none" => request[j] # "none"
  BY <1>1
<1> QED
  BY <1>1, <1>4, <1>6, <1>7, <1>8, <1>9, <1>10, <1>11, KeyStep

\* The server does one thing more: what was there before is as it was.
LEMMA LogGrows ==
    ASSUME TypeOK, NEW e, e \in [kind: {"add", "edit", "delete"}, key: Keys \cup {Elsewhere}, of: Nat],
           log' = Append(log, e)
    PROVE  /\ log' \in Seq([kind: {"add", "edit", "delete"}, key: Keys \cup {Elsewhere}, of: Nat])
           /\ Now \in Nat /\ Now' = Now + 1 /\ DOMAIN log = 1..Now /\ DOMAIN log' = DOMAIN log \cup {Now + 1}
           /\ \A i \in DOMAIN log : log'[i] = log[i]
           /\ log'[Now + 1] = e
<1> DEFINE R == [kind: {"add", "edit", "delete"}, key: Keys \cup {Elsewhere}, of: Nat]
<1>1. log \in Seq(R) /\ e \in R
  BY DEF TypeOK
<1> HIDE DEF R
<1>2. /\ Append(log, e) \in Seq(R) /\ Len(Append(log, e)) = Len(log) + 1
      /\ \A i \in 1..Len(log) : Append(log, e)[i] = log[i]
      /\ Append(log, e)[Len(log) + 1] = e
  BY <1>1, AppendProperties
<1>3. Len(log) \in Nat /\ DOMAIN log = 1..Len(log)
  BY <1>1
<1>4. log' \in Seq(R) /\ Len(log') = Len(log) + 1
  BY <1>2
<1>5. DOMAIN log' = 1..(Len(log) + 1)
  BY <1>4
<1>6. 1..(Len(log) + 1) = (1..Len(log)) \cup {Len(log) + 1}
  BY <1>3
<1> QED
  BY <1>2, <1>3, <1>4, <1>5, <1>6 DEF Now, R

\* One more entry, of a key that has none and isn't done, or from elsewhere.
LEMMA LogStep ==
    ASSUME IInv, NEW e, e \in [kind: {"add", "edit", "delete"}, key: Keys \cup {Elsewhere}, of: Nat],
           log' = Append(log, e), UNCHANGED <<crashes, request, late, app>>,
           key' \in [Keys -> {"free", "claimed", "executed", "stored", "stuck"}],
           e.key # Elsewhere => EntriesOf(e.key) = {} /\ key'[e.key] = "executed",
           \A k \in Keys : k # e.key => key'[k] = key[k],
           e.key \notin told.done,
           e.key # Elsewhere => key[e.key] \notin {"free", "stored"}
    PROVE  IInv'
<1>1. /\ made' = made /\ changes' = changes /\ chain' = chain /\ sync' = sync /\ again' = again
      /\ copy' = copy /\ disk' = disk /\ told' = told /\ request' = request /\ late' = late
  BY DEF app
<1> TypeOK
  BY DEF IInv
<1>2. /\ log' \in Seq([kind: {"add", "edit", "delete"}, key: Keys \cup {Elsewhere}, of: Nat])
      /\ Now \in Nat /\ Now' = Now + 1 /\ DOMAIN log = 1..Now /\ DOMAIN log' = DOMAIN log \cup {Now + 1}
      /\ \A i \in DOMAIN log : log'[i] = log[i]
      /\ log'[Now + 1] = e
  BY LogGrows
<1>3. Now + 1 \notin DOMAIN log
  BY <1>2
<1>4. Elsewhere \notin Keys /\ e.key \in Keys \cup {Elsewhere}
  BY DEF Elsewhere, Keys
<1>5. /\ told.done \subseteq Keys /\ sync.after \subseteq Keys /\ sync.answer \in 0..Now /\ copy \in 0..Now
      /\ disk.copy \in 0..Now
  BY DEF TypeOK
<1>6. /\ \A k \in Keys : k # e.key => EntriesOf(k)' = EntriesOf(k)
      /\ \A k \in Keys : EntriesOf(k) \subseteq EntriesOf(k)'
      /\ \A k : \A x \in EntriesOf(k)' : x \in EntriesOf(k) \/ x = Now + 1
      /\ \A k : EntriesOf(k) \subseteq DOMAIN log
  BY <1>2 DEF EntriesOf
<1>8. \A x \in DOMAIN log : (Live(x, Now))' => Live(x, Now)
  <2> SUFFICES ASSUME NEW x \in DOMAIN log, (Live(x, Now))' PROVE Live(x, Now)
    OBVIOUS
  <2>1. x <= Now /\ \A i \in 1..Now : i \in 1..Now'
    BY <1>2
  <2> QED
    BY <1>2, <2>1 DEF Live
<1>9. \A n \in 0..Now : n \in 0..Now'
  BY <1>2
<1>10. TypeOK'
  BY <1>1, <1>2, <1>9 DEF TypeOK
<1>11. MadeOf'
  BY <1>1, <1>2 DEF IInv, MadeOf, IsAdd, Kind
<1>12. DoneOnce'
  <2>1. ASSUME NEW i \in DOMAIN log', NEW j \in DOMAIN log', log'[i].key = log'[j].key, log'[i].key # Elsewhere
        PROVE  i = j
    <3>1. CASE i \in DOMAIN log /\ j \in DOMAIN log
      BY <1>2, <2>1, <3>1 DEF IInv, DoneOnce
    <3>2. \A x \in DOMAIN log : e.key # Elsewhere => log'[x].key # e.key
      BY <1>2 DEF EntriesOf
    <3> QED
      BY <1>2, <2>1, <3>1, <3>2
  <2>2. ASSUME NEW k \in Keys, key'[k] \in {"free", "claimed"} PROVE EntriesOf(k)' = {}
    <3>1. k # e.key
      BY <1>4, <2>2
    <3> QED
      BY <1>6, <2>2, <3>1 DEF IInv, DoneOnce
  <2> QED
    BY <2>1, <2>2 DEF DoneOnce
<1>13. OnlyMade(changes, disk.changes, chain, request, late, told)'
  BY <1>1, <1>4 DEF IInv, OnlyMade, KeysOf
<1>14. InLine(changes, chain, request)'
  BY <1>1 DEF IInv, InLine, Target, IsAdd, Kind, KeysIn
<1>15. DoneStays(request, told)'
  <2>1. \A k \in Keys : key[k] = "stored" => key'[k] = "stored"
    BY <1>4
  <2>2. ASSUME NEW k \in Keys, k \in DOMAIN made, ForGood(k) PROVE ForGood(k)'
    <3>1. CASE key[k] = "stored"
      BY <2>1, <3>1 DEF ForGood
    <3>2. CASE ~IsAdd(k) /\ ~Live(made[k].of, Now)
      <4>1. made[k].of \in DOMAIN log
        BY <2>2, <3>2 DEF IInv, MadeOf
      <4>2. ~(Live(made[k].of, Now))'
        BY <1>1, <1>8, <3>2, <4>1
      <4> QED
        BY <1>1, <3>2, <4>2 DEF ForGood, IsAdd, Kind
    <3> QED
      BY <2>2, <3>1, <3>2 DEF ForGood
  <2>3. /\ \A k \in told.done : k \in DOMAIN made
        /\ \A k \in Keys : request[k] # "none" => k \in DOMAIN made
    BY <1>5 DEF IInv, OnlyMade
  <2>4. \A k \in told.done : ForGood(k)'
    BY <1>5, <2>2, <2>3 DEF IInv, DoneStays
  <2>5. \A k \in Keys : request[k] = "ok" => key'[k] = "stored"
    BY <2>1 DEF IInv, DoneStays
  <2>6. \A k \in Keys : request[k] = "gone" => ForGood(k)'
    BY <2>2, <2>3 DEF IInv, DoneStays
  <2> QED
    BY <1>1, <2>4, <2>5, <2>6 DEF DoneStays
<1>16. ASSUME NEW q, NEW n, Covers(q, n, told) PROVE Covers(q, n, told)'
  <2> SUFFICES ASSUME NEW k \in told.done, NEW i \in DOMAIN log', log'[i].key = k
               PROVE  k \in KeysIn(q, "done") \/ i <= n
    BY <1>1 DEF Covers
  <2> QED
    BY <1>2, <1>16 DEF Covers
<1>17. Fine(changes, copy, told)'
  <2>1. Fine(changes, copy, told)
    BY DEF IInv
  <2>2. OneEach(changes, told)'
    BY <1>1, <2>1 DEF Fine, OneEach
  <2>3. ASSUME NEW k, (InCopy(k, copy))' PROVE InCopy(k, copy)
    <3>1. PICK x \in EntriesOf(k)' : x <= copy /\ (Live(x, copy))'
      BY <1>1, <2>3 DEF InCopy
    <3>2. x # Now + 1
      BY <1>2, <1>5, <3>1
    <3>3. x \in EntriesOf(k) /\ x \in DOMAIN log
      BY <1>6, <3>1, <3>2
    <3>4. Live(x, copy)
      <4> DEFINE n == copy
      <4>1. n \in 0..Now /\ \A i \in 1..n : i \in DOMAIN log
        BY <1>2, <1>5
      <4> QED
        BY <1>1, <1>2, <3>1, <3>3, <4>1 DEF Live
    <3> QED
      BY <3>1, <3>3, <3>4 DEF InCopy
  <2>4. NoneTwice(changes, copy, told)'
    BY <1>1, <2>1, <2>3 DEF Fine, NoneTwice, IsAdd, Kind
  <2>5. copy # 0 => Covers(changes, copy, told)'
    <3>1. ASSUME copy # 0, NEW k \in told.done, NEW i \in DOMAIN log', log'[i].key = k
          PROVE  k \in KeysIn(changes, "done") \/ i <= copy
      BY <1>2, <2>1, <3>1 DEF Fine, Covers
    <3> QED
      BY <1>1, <3>1 DEF Covers, KeysIn
  <2> QED
    BY <1>1, <2>2, <2>4, <2>5 DEF Fine
<1>18. Fine(disk.changes, disk.copy, told)'
  <2>1. Fine(disk.changes, disk.copy, told)
    BY DEF IInv
  <2>2. OneEach(disk.changes, told)'
    BY <1>1, <2>1 DEF Fine, OneEach
  <2>3. ASSUME NEW k, (InCopy(k, disk.copy))' PROVE InCopy(k, disk.copy)
    <3>1. PICK x \in EntriesOf(k)' : x <= disk.copy /\ (Live(x, disk.copy))'
      BY <1>1, <2>3 DEF InCopy
    <3>2. x # Now + 1
      BY <1>2, <1>5, <3>1
    <3>3. x \in EntriesOf(k) /\ x \in DOMAIN log
      BY <1>6, <3>1, <3>2
    <3>4. Live(x, disk.copy)
      <4> DEFINE n == disk.copy
      <4>1. n \in 0..Now /\ \A i \in 1..n : i \in DOMAIN log
        BY <1>2, <1>5
      <4> QED
        BY <1>1, <1>2, <3>1, <3>3, <4>1 DEF Live
    <3> QED
      BY <3>1, <3>3, <3>4 DEF InCopy
  <2>4. NoneTwice(disk.changes, disk.copy, told)'
    BY <1>1, <2>1, <2>3 DEF Fine, NoneTwice, IsAdd, Kind
  <2>5. disk.copy # 0 => Covers(disk.changes, disk.copy, told)'
    <3>1. ASSUME disk.copy # 0, NEW k \in told.done, NEW i \in DOMAIN log', log'[i].key = k
          PROVE  k \in KeysIn(disk.changes, "done") \/ i <= disk.copy
      BY <1>2, <2>1, <3>1 DEF Fine, Covers
    <3> QED
      BY <1>1, <3>1 DEF Covers, KeysIn
  <2> QED
    BY <1>1, <2>2, <2>4, <2>5 DEF Fine
<1>19. SyncLinesUp(changes, copy, sync, told)'
  <2>1. sync.after \subseteq told.done /\ (sync.at = "back" => Covers(changes, sync.answer, told) /\ copy <= sync.answer)
    BY DEF IInv, SyncLinesUp
  <2>2. sync.at = "back" => \A k \in sync.after, i \in DOMAIN log' : log'[i].key = k => i <= sync.answer
    BY <1>2, <2>1 DEF IInv, SyncLinesUp
  <2>3. sync.at = "back" => Covers(changes, sync.answer, told)'
    BY <1>1, <1>16, <2>1 DEF Covers, KeysIn
  <2> QED
    BY <1>1, <2>1, <2>2, <2>3 DEF SyncLinesUp
<1>20. NoneLost(changes, disk.changes, told)'
  <2>1. \A k \in DOMAIN made : k \in Keys
    BY DEF IInv, MadeOf
  <2>2. \A k \in DOMAIN made : Accounted(k, told) => Accounted(k, told)'
    BY <1>1, <1>6, <2>1 DEF Accounted, Newer, IsAdd, Kind
  <2> QED
    BY <1>1, <2>2 DEF IInv, NoneLost, KeysOf
<1> QED
  BY <1>10, <1>11, <1>12, <1>13, <1>14, <1>15, <1>17, <1>18, <1>19, <1>20 DEF IInv

LEMMA ExecuteKeeps == ASSUME IInv, NEW k \in Keys, Execute(k) PROVE IInv'
<1> DEFINE x == IF IsAdd(k) THEN Now + 1 ELSE made[k].of
           e == [kind |-> Kind(k), key |-> k, of |-> x]
           T == {"free", "claimed", "executed", "stored", "stuck"}
<1>1. /\ key[k] = "claimed" /\ (~IsAdd(k) => Live(made[k].of, Now))
      /\ log' = Append(log, e) /\ key' = [key EXCEPT ![k] = "executed"]
      /\ UNCHANGED <<crashes, request, late, app>>
  BY DEF Execute, Write
<1>2. key \in [Keys -> T] /\ made \in Seq([kind: {"add", "edit", "delete"}, of: Nat]) /\ Now \in Nat
  BY DEF IInv, TypeOK, Now
<1>3. k \in DOMAIN made
  BY <1>1 DEF IInv, OnlyMade
<1>4. made[k] \in [kind: {"add", "edit", "delete"}, of: Nat]
  <2>1. \A R : made \in Seq(R) => \A j \in DOMAIN made : made[j] \in R
    OBVIOUS
  <2> QED
    BY <1>2, <1>3, <2>1
<1>5. Kind(k) \in {"add", "edit", "delete"} /\ x \in Nat
  BY <1>2, <1>4 DEF Kind
<1>6. e.key = k /\ k # Elsewhere /\ k \in Keys \cup {Elsewhere}
  BY DEF Keys, Elsewhere
<1>7. e \in [kind: {"add", "edit", "delete"}, key: Keys \cup {Elsewhere}, of: Nat]
  <2> HIDE DEF x
  <2> QED
    BY <1>5, <1>6
<1>8. k \notin told.done
  BY <1>1 DEF IInv, DoneStays, ForGood
<1>9. key' \in [Keys -> T] /\ key'[k] = "executed" /\ \A j \in Keys : j # k => key'[j] = key[j]
  BY <1>1, <1>2
<1>10. EntriesOf(k) = {}
  BY <1>1 DEF IInv, DoneOnce
<1> HIDE DEF e, x
<1> QED
  BY <1>1, <1>6, <1>7, <1>8, <1>9, <1>10, LogStep

LEMMA OtherKeeps ==
    ASSUME IInv, NEW kind \in {"edit", "delete"}, NEW x \in DOMAIN log, Other(kind, x) PROVE IInv'
<1> DEFINE e == [kind |-> kind, key |-> Elsewhere, of |-> x]
<1>1. log' = Append(log, e) /\ UNCHANGED <<key, crashes, request, late, app>>
  BY DEF Other, Write
<1>2. /\ key \in [Keys -> {"free", "claimed", "executed", "stored", "stuck"}]
      /\ told.done \subseteq Keys /\ Elsewhere \notin Keys /\ x \in Nat
  BY DEF IInv, TypeOK, Keys, Elsewhere
<1>3. kind \in {"add", "edit", "delete"} /\ e.key = Elsewhere
  OBVIOUS
<1>4. e \in [kind: {"add", "edit", "delete"}, key: Keys \cup {Elsewhere}, of: Nat]
  BY <1>2, <1>3
<1> HIDE DEF e
<1> QED
  BY <1>1, <1>2, <1>3, <1>4, LogStep

-----------------------------------------------------------------------------
(* Steps of the app.                                                       *)

\* A step of the app that makes no change, and keeps each part of the invariant.
LEMMA AppStep ==
    ASSUME IInv, UNCHANGED <<server, made>>, TypeOK',
           OnlyMade(changes', disk'.changes, chain', request', late', told'),
           InLine(changes', chain', request'),
           DoneStays(request', told'),
           SyncLinesUp(changes', copy', sync', told'),
           Fine(changes', copy', told'), Fine(disk'.changes, disk'.copy, told'),
           NoneLost(changes', disk'.changes, told')
    PROVE  IInv'
<1>1. log' = log /\ key' = key /\ made' = made
  BY DEF server
<1>2. MadeOf'
  BY <1>1 DEF IInv, MadeOf, IsAdd, Kind
<1>3. DoneOnce'
  BY <1>1 DEF IInv, DoneOnce, EntriesOf
<1>4. OnlyMade(changes, disk.changes, chain, request, late, told)'
  BY <1>1 DEF OnlyMade, KeysOf
<1>5. InLine(changes, chain, request)'
  BY <1>1 DEF InLine, Target, IsAdd, Kind, KeysIn
<1>6. DoneStays(request, told)'
  BY <1>1 DEF DoneStays, ForGood, IsAdd, Kind, Live, Now
<1>7. SyncLinesUp(changes, copy, sync, told)'
  BY <1>1 DEF SyncLinesUp, Covers, KeysIn
<1>8. Fine(changes, copy, told)'
  BY <1>1 DEF Fine, OneEach, NoneTwice, Covers, InCopy, EntriesOf, Live, IsAdd, Kind, KeysIn
<1>9. Fine(disk.changes, disk.copy, told)'
  BY <1>1 DEF Fine, OneEach, NoneTwice, Covers, InCopy, EntriesOf, Live, IsAdd, Kind, KeysIn
<1>10. NoneLost(changes, disk.changes, told)'
  BY <1>1 DEF NoneLost, Accounted, Newer, EntriesOf, IsAdd, Kind, KeysOf
<1> QED
  BY <1>2, <1>3, <1>4, <1>5, <1>6, <1>7, <1>8, <1>9, <1>10 DEF IInv

\* What a step that doesn't save needs to show.
LEMMA Unsaved ==
    ASSUME IInv, UNCHANGED <<server, made, disk>>, TypeOK', told' = told, NEW gone,
           \A k \in Keys : k \notin DOMAIN made =>
               /\ k \notin KeysOf(changes') /\ \A x \in Targets : k \notin ToSet(chain'[x])
               /\ request'[k] = "none" /\ k \notin late',
           InLine(changes', chain', request'),
           \A k \in Keys : request'[k] \in {"ok", "gone"} => request'[k] = request[k],
           SyncLinesUp(changes', copy', sync', told),
           Fine(changes', copy', told),
           KeysOf(changes) \subseteq KeysOf(changes') \cup gone,
           \A k \in gone \cap DOMAIN made : Accounted(k, told)
    PROVE  IInv'
<1>1. OnlyMade(changes', disk'.changes, chain', request', late', told')
  BY DEF IInv, OnlyMade
<1>2. DoneStays(request', told')
  BY DEF IInv, DoneStays
<1>3. NoneLost(changes', disk'.changes, told')
  BY DEF IInv, NoneLost
<1>4. Fine(disk'.changes, disk'.copy, told')
  BY DEF IInv
<1> QED
  BY <1>1, <1>2, <1>3, <1>4, AppStep

\* What one that saves needs to show: what is kept is what is in hand.
LEMMA Saved ==
    ASSUME IInv, UNCHANGED <<server, made>>, Save, TypeOK', NEW gone,
           changes' \in Seq(Change),
           \A k \in Keys : k \notin DOMAIN made =>
               /\ k \notin KeysOf(changes') /\ \A x \in Targets : k \notin ToSet(chain'[x])
               /\ request'[k] = "none" /\ k \notin late' /\ k \notin told'.done /\ k \notin told'.refused,
           InLine(changes', chain', request'),
           DoneStays(request', told'),
           SyncLinesUp(changes', copy', sync', told'),
           Fine(changes', copy', told'),
           KeysOf(changes) \subseteq KeysOf(changes') \cup gone,
           told.done \subseteq told'.done, told.refused \subseteq told'.refused,
           \A k \in gone \cap DOMAIN made : Accounted(k, told')
    PROVE  IInv'
<1>1. /\ Hydrated(changes') \in Seq(Change) /\ KeysOf(Hydrated(changes')) = KeysOf(changes')
      /\ Fine(Hydrated(changes'), copy', told')
  BY FineHydrated
<1>2. disk'.changes = Hydrated(changes') /\ disk'.copy = copy'
  BY DEF Save
<1>3. KeysOf(disk'.changes) = KeysOf(changes') /\ Fine(disk'.changes, disk'.copy, told')
  BY <1>1, <1>2
<1>4. OnlyMade(changes', disk'.changes, chain', request', late', told')
  BY <1>3 DEF IInv, OnlyMade, server
<1>5. NoneLost(changes', disk'.changes, told')
  <2>1. ASSUME NEW k \in DOMAIN made, Accounted(k, told) PROVE Accounted(k, told')
    BY <2>1 DEF Accounted
  <2> QED
    BY <1>3, <2>1 DEF IInv, NoneLost, server
<1> QED
  BY <1>3, <1>4, <1>5, AppStep

\* A sync that starts, or none, lines up.
LEMMA SyncStarts ==
    ASSUME NEW q \in Seq(Change), NEW n, NEW t, OneEach(q, t), Now \in Nat
    PROVE  /\ SyncLinesUp(q, n, StartOf(q), t) /\ SyncLinesUp(q, n, NoSync, t)
           /\ StartOf(q) \in [at: {"idle", "out", "back"}, after: SUBSET Keys, answer: 0..Now]
           /\ NoSync \in [at: {"idle", "out", "back"}, after: SUBSET Keys, answer: 0..Now]
<1>1. KeysIn(q, "done") \subseteq t.done /\ KeysIn(q, "done") \subseteq Keys
  BY KeysTyped DEF OneEach, KeysIn
<1>2. StartOf(q).after = KeysIn(q, "done") /\ StartOf(q).at = "out" /\ NoSync.after = {} /\ NoSync.at = "idle"
  BY DEF StartOf, NoSync
<1>3. StartOf(q) \in [at: {"idle", "out", "back"}, after: SUBSET Keys, answer: 0..Now]
  <2> DEFINE K == KeysIn(q, "done")
  <2>1. K \in SUBSET Keys /\ 0 \in 0..Now
    BY <1>1
  <2>2. StartOf(q) = [at |-> "out", after |-> K, answer |-> 0]
    BY DEF StartOf
  <2> HIDE DEF K
  <2> QED
    BY <2>1, <2>2
<1>4. NoSync \in [at: {"idle", "out", "back"}, after: SUBSET Keys, answer: 0..Now]
  BY DEF NoSync
<1> QED
  BY <1>1, <1>2, <1>3, <1>4 DEF SyncLinesUp

LEMMA AskLinesUp ==
    ASSUME TypeOK, AskSync, changes' \in Seq(Change), NEW n, NEW t, OneEach(changes', t),
           SyncLinesUp(changes', n, sync, t)
    PROVE  /\ SyncLinesUp(changes', n, sync', t) /\ again' \in BOOLEAN
           /\ sync' \in [at: {"idle", "out", "back"}, after: SUBSET Keys, answer: 0..Now]
<1>1. sync \in [at: {"idle", "out", "back"}, after: SUBSET Keys, answer: 0..Now] /\ again \in BOOLEAN
  BY DEF TypeOK
<1>2. Now \in Nat
  BY DEF TypeOK, Now
<1>3. /\ SyncLinesUp(changes', n, StartOf(changes'), t)
      /\ StartOf(changes') \in [at: {"idle", "out", "back"}, after: SUBSET Keys, answer: 0..Now]
  BY <1>2, SyncStarts
<1>4. (sync' = StartOf(changes') /\ again' = again) \/ (sync' = sync /\ again' = TRUE)
  BY DEF AskSync
<1>5. CASE sync' = StartOf(changes') /\ again' = again
  BY <1>1, <1>3, <1>5
<1>6. CASE sync' = sync /\ again' = TRUE
  BY <1>1, <1>6
<1> QED
  BY <1>4, <1>5, <1>6

LEMMA OverLinesUp ==
    ASSUME TypeOK, SyncOver, changes' \in Seq(Change), NEW n, NEW t, OneEach(changes', t)
    PROVE  /\ SyncLinesUp(changes', n, sync', t) /\ again' \in BOOLEAN
           /\ sync' \in [at: {"idle", "out", "back"}, after: SUBSET Keys, answer: 0..Now]
<1>1. Now \in Nat
  BY DEF TypeOK, Now
<1>2. /\ SyncLinesUp(changes', n, StartOf(changes'), t) /\ SyncLinesUp(changes', n, NoSync, t)
      /\ StartOf(changes') \in [at: {"idle", "out", "back"}, after: SUBSET Keys, answer: 0..Now]
      /\ NoSync \in [at: {"idle", "out", "back"}, after: SUBSET Keys, answer: 0..Now]
  BY <1>1, SyncStarts
<1>3. (sync' = StartOf(changes') \/ sync' = NoSync) /\ again' = FALSE
  BY DEF SyncOver
<1>4. CASE sync' = StartOf(changes')
  BY <1>2, <1>3, <1>4
<1>5. CASE sync' = NoSync
  BY <1>2, <1>3, <1>5
<1> QED
  BY <1>3, <1>4, <1>5

\* What is sent again joins the lines.
LEMMA OnSendAfter ==
    ASSUME NEW w \in [Targets -> Seq(Keys)], NEW S, S \subseteq Keys,
           \A x \in Targets : Once(w[x]) /\ S \cap ToSet(w[x]) = {}
    PROVE  /\ SendAfter(w, S) \in [Targets -> Seq(Keys)]
           /\ \A x \in Targets :
                 /\ Once(SendAfter(w, S)[x])
                 /\ ToSet(SendAfter(w, S)[x]) = ToSet(w[x]) \cup {k \in S : Target(k) = x}
                 /\ w[x] # <<>> => SendAfter(w, S)[x] # <<>> /\ Head(SendAfter(w, S)[x]) = Head(w[x])
<1> DEFINE a == SendAfter(w, S)
           Of(x) == {k \in S : Target(k) = x}
<1>1. a = [x \in Targets |-> w[x] \o InOrder(Of(x))]
  BY DEF SendAfter
<1>2. ASSUME NEW x \in Targets
      PROVE  /\ a[x] = w[x] \o InOrder(Of(x)) /\ a[x] \in Seq(Keys)
             /\ Once(a[x]) /\ ToSet(a[x]) = ToSet(w[x]) \cup Of(x)
             /\ w[x] # <<>> => a[x] # <<>> /\ Head(a[x]) = Head(w[x])
  <2>1. Of(x) \subseteq Keys /\ Keys \subseteq Nat /\ Of(x) \subseteq S
    <3>1. Of(x) \subseteq S
      OBVIOUS
    <3>2. Keys \subseteq Nat
      BY SyncAssumption DEF Keys
    <3> QED
      BY <3>1, <3>2
  <2>2. IsFiniteSet(Keys)
    <3>1. 1 \in Int /\ MaxChanges \in Int
      BY SyncAssumption
    <3> QED
      BY <3>1, FS_Interval DEF Keys
  <2>3. a[x] = w[x] \o InOrder(Of(x))
    BY <1>1
  <2> HIDE DEF a, Of
  <2>4. IsFiniteSet(Of(x)) /\ Of(x) \subseteq Nat
    BY <2>1, <2>2, FS_Subset
  <2>5. InOrder(Of(x)) \in Seq(Of(x)) /\ ToSet(InOrder(Of(x))) = Of(x) /\ Once(InOrder(Of(x)))
    BY <2>4, OnOrder
  <2>6. \A A, B : A \subseteq B => Seq(A) \subseteq Seq(B)
    OBVIOUS
  <2>7. InOrder(Of(x)) \in Seq(Keys) /\ w[x] \in Seq(Keys)
    BY <2>1, <2>5, <2>6
  <2>8. ToSet(w[x]) \cap ToSet(InOrder(Of(x))) = {} /\ Once(w[x])
    BY <2>1, <2>5
  <2> DEFINE o == InOrder(Of(x))
             s == w[x]
  <2>9. o \in Seq(Keys) /\ s \in Seq(Keys) /\ Once(s) /\ Once(o) /\ ToSet(s) \cap ToSet(o) = {}
    BY <2>5, <2>7, <2>8
  <2> HIDE DEF o, s
  <2>10. /\ s \o o \in Seq(Keys) /\ ToSet(s \o o) = ToSet(s) \cup ToSet(o)
         /\ s # <<>> => s \o o # <<>> /\ Head(s \o o) = Head(s)
         /\ Once(s \o o)
    BY <2>9, OnConcat
  <2> QED
    BY <2>3, <2>5, <2>10 DEF o, s
<1>3. a \in [Targets -> Seq(Keys)]
  <2>1. DOMAIN a = Targets /\ a = [x \in DOMAIN a |-> a[x]]
    BY <1>1
  <2> HIDE DEF a
  <2> QED
    BY <1>2, <2>1
<1> QED
  BY <1>2, <1>3 DEF a

\* One at the head is over: it waits nowhere, and the rest as before.
Popped(w, k) == [x \in Targets |-> IF w[x] # <<>> /\ Head(w[x]) = k THEN Tail(w[x]) ELSE w[x]]

LEMMA OnPopped ==
    ASSUME NEW w \in [Targets -> Seq(Keys)], NEW r \in [Keys -> {"none", "out", "working", "ok", "busy", "no", "gone"}],
           NEW q, NEW k \in Keys, InLine(q, w, r), r[k] # "none",
           NEW p, \A j \in Keys : j # k /\ j \in KeysIn(q, "sending") => j \in KeysIn(p, "sending")
    PROVE  /\ k \in KeysIn(q, "sending")
           /\ Popped(w, k) \in [Targets -> Seq(Keys)]
           /\ \A x \in Targets : ToSet(Popped(w, k)[x]) \subseteq ToSet(w[x])
           /\ InLine(p, Popped(w, k), [r EXCEPT ![k] = "none"])
<1> DEFINE a == Popped(w, k)
<1>1. PICK z \in Targets : Target(k) = z /\ w[z] # <<>> /\ Head(w[z]) = k
  BY DEF InLine
<1>2. \A x \in Targets : w[x] \in Seq(Keys)
  OBVIOUS
<1>3. \A x \in Targets : Once(w[x]) /\ \A j \in ToSet(w[x]) : Target(j) = x /\ j \in KeysIn(q, "sending")
  BY DEF InLine
<1>4. k \in KeysIn(q, "sending")
  <2>1. k \in ToSet(w[z])
    BY <1>1, <1>2, OnTail
  <2> QED
    BY <1>3, <2>1
<1>5. \A x \in Targets : a[x] = IF w[x] # <<>> /\ Head(w[x]) = k THEN Tail(w[x]) ELSE w[x]
  BY DEF Popped
<1>6. DOMAIN a = Targets /\ a = [x \in Targets |-> a[x]]
  BY DEF Popped
<1> HIDE DEF a
<1>7. ASSUME NEW x \in Targets
      PROVE  /\ a[x] \in Seq(Keys) /\ Once(a[x]) /\ ToSet(a[x]) \subseteq ToSet(w[x]) /\ k \notin ToSet(a[x])
             /\ \A j \in Keys : j # k /\ w[x] # <<>> /\ Head(w[x]) = j => a[x] = w[x]
  <2>1. CASE w[x] # <<>> /\ Head(w[x]) = k
    <3> DEFINE s == w[x]
    <3>1. s \in Seq(Keys) /\ s # <<>> /\ Once(s) /\ Head(s) = k /\ a[x] = Tail(s)
      BY <1>2, <1>3, <1>5, <2>1
    <3> HIDE DEF s
    <3>2. /\ Tail(s) \in Seq(Keys) /\ Head(s) \in ToSet(s)
          /\ Once(Tail(s)) /\ ToSet(Tail(s)) = ToSet(s) \ {Head(s)}
      BY <3>1, OnTail
    <3>3. ToSet(a[x]) \subseteq ToSet(s) /\ k \notin ToSet(a[x])
      BY <3>1, <3>2
    <3> QED
      BY <3>1, <3>2, <3>3 DEF s
  <2>2. CASE ~(w[x] # <<>> /\ Head(w[x]) = k)
    <3>1. x # z
      BY <1>1, <2>2
    <3>2. k \notin ToSet(w[x])
      BY <1>1, <1>3, <3>1
    <3> QED
      BY <1>2, <1>3, <1>5, <2>2, <3>2
  <2> QED
    BY <2>1, <2>2
<1>8. a \in [Targets -> Seq(Keys)]
  BY <1>6, <1>7
<1> DEFINE s == [r EXCEPT ![k] = "none"]
<1>9. \A j \in Keys : s[j] # "none" => j # k /\ r[j] # "none"
  OBVIOUS
<1> HIDE DEF s
<1>10. \A j \in Keys : r[j] # "none" =>
          \E x \in Targets : Target(j) = x /\ w[x] # <<>> /\ Head(w[x]) = j
  BY DEF InLine
<1>11. \A x \in Targets : \A j \in ToSet(a[x]) : j \in Keys
  <2>1. \A x \in Targets : \A j \in ToSet(w[x]) : j \in Keys
    BY <1>2 DEF ToSet
  <2> QED
    BY <1>7, <2>1
<1>12. InLine(p, a, s)
  <2>1. ASSUME NEW x \in Targets, NEW j \in ToSet(a[x]) PROVE Target(j) = x /\ j \in KeysIn(p, "sending")
    BY <1>3, <1>7, <1>11, <2>1
  <2>2. ASSUME NEW j \in Keys, s[j] # "none"
        PROVE  \E x \in Targets : Target(j) = x /\ a[x] # <<>> /\ Head(a[x]) = j
    BY <1>7, <1>9, <1>10, <2>2
  <2> QED
    BY <1>7, <2>1, <2>2 DEF InLine
<1> QED
  BY <1>4, <1>7, <1>8, <1>12 DEF a, s

\* One more try changes nothing but the count.
LEMMA OnTried ==
    ASSUME NEW q \in Seq(Change), NEW k
    PROVE  /\ Tried(q, k) \in Seq(Change) /\ KeysOf(Tried(q, k)) = KeysOf(q)
           /\ \A s : KeysIn(Tried(q, k), s) = KeysIn(q, s)
           /\ \A n, t : Fine(q, n, t) => Fine(Tried(q, k), n, t)
<1> DEFINE m == Tried(q, k)
           New(c) == IF c.key = k THEN OneMore(c) ELSE c
<1>1. Len(q) \in Nat /\ DOMAIN q = 1..Len(q) /\ \A i \in 1..Len(q) : q[i] \in Change
  OBVIOUS
<1>2. ASSUME NEW c \in Change
      PROVE  New(c) \in Change /\ New(c).key = c.key /\ New(c).state = c.state /\ New(c).tries >= c.tries
  <2>1. GiveUpAfter \in Nat
    BY SyncAssumption
  <2> QED
    BY <2>1 DEF Change, OneMore
<1>3. m = [i \in DOMAIN q |-> New(q[i])]
  BY DEF Tried
<1> HIDE DEF m, New
<1>4. m \in [1..Len(q) -> Change] /\ DOMAIN m = DOMAIN q /\ \A i \in DOMAIN q : m[i] = New(q[i])
  BY <1>1, <1>2, <1>3
<1>5. m \in Seq(Change)
  BY <1>1, <1>4
<1>6. \A c \in ToSet(q) : c \in Change
  BY DEF ToSet
<1>7. /\ \A c \in ToSet(q) : New(c) \in ToSet(m)
      /\ \A d \in ToSet(m) : \E c \in ToSet(q) : d = New(c)
  BY <1>4 DEF ToSet
<1>8. KeysOf(m) = KeysOf(q)
  BY <1>2, <1>6, <1>7 DEF KeysOf
<1>9. \A s : KeysIn(m, s) = KeysIn(q, s)
  BY <1>2, <1>6, <1>7 DEF KeysIn
<1>10. ASSUME NEW n, NEW t, Fine(q, n, t) PROVE Fine(m, n, t)
  <2>1. OneEach(q, t) /\ NoneTwice(q, n, t) /\ (n # 0 => Covers(q, n, t))
    BY <1>10 DEF Fine
  <2>2. \A c \in ToSet(q) : c.tries \in Nat /\ New(c).tries \in Nat /\ GiveUpAfter \in Nat
    BY <1>2, <1>6, SyncAssumption DEF Change
  <2>3. \A c \in ToSet(q) : c.tries >= GiveUpAfter => New(c).tries >= GiveUpAfter
    BY <1>2, <1>6, <2>2
  <2>4. OneEach(m, t)
    BY <1>2, <1>6, <1>7, <2>1, <2>3 DEF OneEach
  <2>5. NoneTwice(m, n, t)
    BY <1>2, <1>6, <1>7, <2>1, <2>3 DEF NoneTwice
  <2>6. Covers(q, n, t) => Covers(m, n, t)
    BY <1>9 DEF Covers
  <2> QED
    BY <2>1, <2>4, <2>5, <2>6 DEF Fine
<1> QED
  BY <1>5, <1>8, <1>9, <1>10 DEF m

LEMMA AppTyped ==
    ASSUME TypeOK, UNCHANGED <<server, made>>,
           request' \in [Keys -> {"none", "out", "working", "ok", "busy", "no", "gone"}], late' \subseteq Keys,
           changes' \in Seq(Change), chain' \in [Targets -> Seq(Keys)],
           sync' \in [at: {"idle", "out", "back"}, after: SUBSET Keys, answer: 0 .. Now], again' \in BOOLEAN,
           copy' \in 0 .. Now, disk' \in [changes: Seq(Change), copy: 0 .. Now],
           told' \in [done: SUBSET Keys, refused: SUBSET Keys]
    PROVE  TypeOK'
<1>1. log' = log /\ key' = key /\ made' = made
  BY DEF server
<1> QED
  BY <1>1 DEF TypeOK, Now

\* What is saved is of the right type.
LEMMA SaveTyped ==
    ASSUME TypeOK, Save, changes' \in Seq(Change), copy' \in 0..Now, NEW n, NEW t, Fine(changes', n, t)
    PROVE  disk' \in [changes: Seq(Change), copy: 0 .. Now]
<1>1. Hydrated(changes') \in Seq(Change)
  BY FineHydrated
<1>2. disk' = [changes |-> Hydrated(changes'), copy |-> copy']
  BY DEF Save
<1> QED
  BY <1>1, <1>2

\* The parts of the invariant, for lists that are there.
LEMMA Parts ==
    ASSUME IInv
    PROVE  /\ TypeOK /\ Now \in Nat
           /\ request \in [Keys -> {"none", "out", "working", "ok", "busy", "no", "gone"}] /\ late \subseteq Keys
           /\ changes \in Seq(Change) /\ chain \in [Targets -> Seq(Keys)]
           /\ sync \in [at: {"idle", "out", "back"}, after: SUBSET Keys, answer: 0 .. Now]
           /\ again \in BOOLEAN /\ copy \in 0 .. Now
           /\ disk \in [changes: Seq(Change), copy: 0 .. Now] /\ disk.changes \in Seq(Change) /\ disk.copy \in 0 .. Now
           /\ told \in [done: SUBSET Keys, refused: SUBSET Keys]
           /\ told.done \subseteq Keys /\ told.refused \subseteq Keys
           /\ OneEach(changes, told) /\ NoneTwice(changes, copy, told) /\ (copy # 0 => Covers(changes, copy, told))
           /\ \A s, z : s # z => KeysIn(changes, s) \cap KeysIn(changes, z) = {}
           /\ KeysIn(changes, "done") = told.done \cap KeysOf(changes)
<1>1. TypeOK /\ Now \in Nat
  BY DEF IInv, TypeOK, Now
<1>2. /\ request \in [Keys -> {"none", "out", "working", "ok", "busy", "no", "gone"}] /\ late \subseteq Keys
      /\ changes \in Seq(Change) /\ chain \in [Targets -> Seq(Keys)]
      /\ sync \in [at: {"idle", "out", "back"}, after: SUBSET Keys, answer: 0 .. Now]
      /\ again \in BOOLEAN /\ copy \in 0 .. Now
      /\ disk \in [changes: Seq(Change), copy: 0 .. Now]
      /\ told \in [done: SUBSET Keys, refused: SUBSET Keys]
  BY <1>1 DEF TypeOK
<1>3. disk.changes \in Seq(Change) /\ disk.copy \in 0 .. Now
  BY <1>2
<1>4. told.done \subseteq Keys /\ told.refused \subseteq Keys
  BY <1>2
<1>5. OneEach(changes, told) /\ NoneTwice(changes, copy, told) /\ (copy # 0 => Covers(changes, copy, told))
  BY DEF IInv, Fine
<1>6. \A s, z : s # z => KeysIn(changes, s) \cap KeysIn(changes, z) = {}
  BY <1>5 DEF OneEach, KeysIn
<1>7. KeysIn(changes, "done") = told.done \cap KeysOf(changes)
  BY <1>5 DEF OneEach, KeysIn, KeysOf
<1> QED
  BY <1>1, <1>2, <1>3, <1>4, <1>5, <1>6, <1>7

\* Each step of the app.
LEMMA SaveCopyKeeps == ASSUME IInv, SaveCopy PROVE IInv'
<1>1. /\ UNCHANGED <<server, made>> /\ Save
      /\ request' = request /\ late' = late /\ changes' = changes /\ chain' = chain
      /\ sync' = sync /\ again' = again /\ copy' = copy /\ told' = told
  BY DEF SaveCopy, syncing
<1>2. TypeOK /\ Fine(changes, copy, told)
  BY DEF IInv
<1>3. TypeOK'
  <2>1. disk' \in [changes: Seq(Change), copy: 0 .. Now]
    BY <1>1, <1>2, Parts, SaveTyped
  <2> QED
    BY <1>1, <1>2, <2>1, Parts, AppTyped
<1>4. \A k \in Keys : k \notin DOMAIN made =>
        /\ k \notin KeysOf(changes) /\ \A x \in Targets : k \notin ToSet(chain[x])
        /\ request[k] = "none" /\ k \notin late /\ k \notin told.done /\ k \notin told.refused
  BY DEF IInv, OnlyMade
<1>5. InLine(changes, chain, request) /\ DoneStays(request, told) /\ SyncLinesUp(changes, copy, sync, told)
  BY DEF IInv
<1> DEFINE gone == {}
<1>6. KeysOf(changes) \subseteq KeysOf(changes) \cup gone /\ \A k \in gone \cap DOMAIN made : Accounted(k, told)
  OBVIOUS
<1> HIDE DEF gone
<1> QED
  BY <1>1, <1>2, <1>3, <1>4, <1>5, <1>6, Parts, Saved

LEMMA BeginKeeps == ASSUME IInv, NEW k \in Keys, Begin(k) PROVE IInv'
<1>1. /\ UNCHANGED <<server, made, disk>> /\ late' = late /\ chain' = chain /\ told' = told
      /\ sync' = sync /\ again' = again /\ copy' = copy
      /\ request' = [request EXCEPT ![k] = "out"] /\ changes' = Tried(changes, k)
      /\ \E x \in Targets : chain[x] # <<>> /\ Head(chain[x]) = k
  BY DEF Begin, syncing
<1>2. /\ changes' \in Seq(Change) /\ KeysOf(changes') = KeysOf(changes)
      /\ \A s : KeysIn(changes', s) = KeysIn(changes, s)
      /\ Fine(changes', copy, told)
  BY <1>1, Parts, OnTried DEF IInv
<1>3. PICK z \in Targets : chain[z] # <<>> /\ Head(chain[z]) = k
  BY <1>1
<1>4. k \in ToSet(chain[z]) /\ Target(k) = z
  <2>1. chain[z] \in Seq(Keys)
    BY Parts
  <2>2. k \in ToSet(chain[z])
    BY <1>3, <2>1, OnTail
  <2> QED
    BY <2>2 DEF IInv, InLine
<1>5. k \in DOMAIN made
  BY <1>4 DEF IInv, OnlyMade
<1>6. request' \in [Keys -> {"none", "out", "working", "ok", "busy", "no", "gone"}]
  BY <1>1, Parts
<1>7. TypeOK'
  BY <1>1, <1>2, <1>6, Parts, AppTyped
<1>8. \A j \in Keys : j # k => request'[j] = request[j]
  BY <1>1, Parts
<1>9. request'[k] = "out"
  BY <1>1, Parts
<1>10. \A j \in Keys : j \notin DOMAIN made =>
          /\ j \notin KeysOf(changes') /\ \A x \in Targets : j \notin ToSet(chain'[x])
          /\ request'[j] = "none" /\ j \notin late'
  BY <1>1, <1>2, <1>5, <1>8 DEF IInv, OnlyMade
<1>11. InLine(changes', chain', request')
  BY <1>1, <1>2, <1>3, <1>4, <1>8 DEF IInv, InLine
<1>12. \A j \in Keys : request'[j] \in {"ok", "gone"} => request'[j] = request[j]
  BY <1>8, <1>9
<1>13. SyncLinesUp(changes', copy', sync', told)
  BY <1>1, <1>2 DEF IInv, SyncLinesUp, Covers
<1> DEFINE gone == {}
<1>14. KeysOf(changes) \subseteq KeysOf(changes') \cup gone /\ \A j \in gone \cap DOMAIN made : Accounted(j, told)
  BY <1>2
<1> HIDE DEF gone
<1> QED
  BY <1>1, <1>2, <1>7, <1>10, <1>11, <1>12, <1>13, <1>14, Unsaved

\* A step of the syncs alone.
LEMMA SyncStep ==
    ASSUME IInv, UNCHANGED <<server, request, late, made, changes, chain, copy, disk, kills, told>>,
           sync' \in [at: {"idle", "out", "back"}, after: SUBSET Keys, answer: 0 .. Now], again' \in BOOLEAN,
           SyncLinesUp(changes, copy, sync', told)
    PROVE  IInv'
<1>1. TypeOK'
  BY Parts, AppTyped
<1>2. \A j \in Keys : j \notin DOMAIN made =>
          /\ j \notin KeysOf(changes) /\ \A x \in Targets : j \notin ToSet(chain[x])
          /\ request[j] = "none" /\ j \notin late
  BY DEF IInv, OnlyMade
<1>3. InLine(changes, chain, request) /\ Fine(changes, copy, told)
  BY DEF IInv
<1> DEFINE gone == {}
<1>4. KeysOf(changes) \subseteq KeysOf(changes) \cup gone /\ \A j \in gone \cap DOMAIN made : Accounted(j, told)
  OBVIOUS
<1> HIDE DEF gone
<1> QED
  BY <1>1, <1>2, <1>3, <1>4, Unsaved

LEMMA PollKeeps == ASSUME IInv, Poll PROVE IInv'
<1>1. UNCHANGED <<server, request, late, made, changes, chain, copy, disk, kills, told>> /\ AskSync
  BY DEF Poll
<1>2. /\ TypeOK /\ SyncLinesUp(changes, copy, sync, told) /\ OneEach(changes, told) /\ changes \in Seq(Change)
  BY Parts DEF IInv
<1>3. /\ SyncLinesUp(changes', copy, sync', told) /\ again' \in BOOLEAN
      /\ sync' \in [at: {"idle", "out", "back"}, after: SUBSET Keys, answer: 0..Now]
  BY <1>1, <1>2, AskLinesUp
<1> QED
  BY <1>1, <1>3, SyncStep

LEMMA ServeSyncKeeps == ASSUME IInv, ServeSync PROVE IInv'
<1>1. UNCHANGED <<server, request, late, made, changes, chain, again, copy, disk, kills, told>>
  BY DEF ServeSync
<1>2. sync' = [at |-> "back", after |-> sync.after, answer |-> Now]
  BY DEF ServeSync
<1>3. DOMAIN log = 1..Now /\ Now \in Nat
  BY DEF IInv, TypeOK, Now
<1>4. sync.after \in SUBSET Keys /\ Now \in 0..Now /\ copy <= Now /\ again \in BOOLEAN
  <2>1. sync \in [at: {"idle", "out", "back"}, after: SUBSET Keys, answer: 0..Now] /\ copy \in 0..Now /\ again \in BOOLEAN
    BY Parts
  <2> QED
    BY <1>3, <2>1
<1>5. sync' \in [at: {"idle", "out", "back"}, after: SUBSET Keys, answer: 0..Now]
  BY <1>2, <1>4
<1>6. sync'.after = sync.after /\ sync'.answer = Now
  BY <1>2
<1>7. SyncLinesUp(changes, copy, sync', told)
  BY <1>3, <1>4, <1>6 DEF IInv, SyncLinesUp, Covers
<1> QED
  BY <1>1, <1>4, <1>5, <1>7, SyncStep

LEMMA SyncLostKeeps == ASSUME IInv, SyncLost PROVE IInv'
<1>1. UNCHANGED <<server, request, late, made, changes, chain, copy, disk, kills, told>> /\ SyncOver
  BY DEF SyncLost
<1>2. TypeOK /\ OneEach(changes, told) /\ changes \in Seq(Change)
  BY Parts
<1>3. /\ SyncLinesUp(changes', copy, sync', told) /\ again' \in BOOLEAN
      /\ sync' \in [at: {"idle", "out", "back"}, after: SUBSET Keys, answer: 0..Now]
  BY <1>1, <1>2, OverLinesUp
<1> QED
  BY <1>1, <1>3, SyncStep

\* Those in S, none of them waiting yet, are sent again.
LEMMA SentAgain ==
    ASSUME IInv, NEW q, NEW S, S \subseteq KeysOf(changes),
           \A x \in Targets : S \cap ToSet(chain[x]) = {},
           S \subseteq KeysIn(q, "sending"),
           \A x \in Targets : \A k \in ToSet(chain[x]) : k \in KeysIn(q, "sending")
    PROVE  /\ SendAfter(chain, S) \in [Targets -> Seq(Keys)]
           /\ InLine(q, SendAfter(chain, S), request)
           /\ \A k \in Keys : k \notin DOMAIN made => \A x \in Targets : k \notin ToSet(SendAfter(chain, S)[x])
<1>1. S \subseteq Keys /\ chain \in [Targets -> Seq(Keys)] /\ \A x \in Targets : Once(chain[x])
  BY Parts, KeysTyped DEF IInv, InLine
<1> DEFINE a == SendAfter(chain, S)
<1>2. /\ a \in [Targets -> Seq(Keys)]
      /\ \A x \in Targets :
            /\ Once(a[x])
            /\ ToSet(a[x]) = ToSet(chain[x]) \cup {k \in S : Target(k) = x}
            /\ chain[x] # <<>> => a[x] # <<>> /\ Head(a[x]) = Head(chain[x])
  BY <1>1, OnSendAfter
<1> HIDE DEF a
<1>3. \A x \in Targets : \A k \in ToSet(a[x]) : Target(k) = x /\ k \in KeysIn(q, "sending")
  BY <1>2 DEF IInv, InLine
<1>4. \A k \in Keys : request[k] # "none" => \E x \in Targets : Target(k) = x /\ a[x] # <<>> /\ Head(a[x]) = k
  <2>1. \A k \in Keys : request[k] # "none" =>
            \E x \in Targets : Target(k) = x /\ chain[x] # <<>> /\ Head(chain[x]) = k
    BY DEF IInv, InLine
  <2> QED
    BY <1>2, <2>1
<1>5. InLine(q, a, request)
  BY <1>2, <1>3, <1>4 DEF InLine
<1>6. \A k \in Keys : k \notin DOMAIN made => k \notin KeysOf(changes) /\ \A x \in Targets : k \notin ToSet(chain[x])
  BY DEF IInv, OnlyMade
<1>7. \A k \in Keys : k \notin DOMAIN made => \A x \in Targets : k \notin ToSet(a[x])
  BY <1>2, <1>6
<1> QED
  BY <1>2, <1>5, <1>7 DEF a

LEMMA SetAsideKeeps == ASSUME IInv, SetAside PROVE IInv'
<1> DEFINE U == Unsure
           S == Unsure \cap KeysIn(changes, "lost")
<1>1. /\ UNCHANGED <<server, request, late, made, copy, disk, kills, told>> /\ SyncOver
      /\ changes' = Move(changes, U, "sending") /\ chain' = SendAfter(chain, S)
  BY DEF SetAside
<1>2. /\ U \subseteq KeysIn(changes, "sending") \cup KeysIn(changes, "lost")
      /\ U \subseteq KeysOf(changes)
  BY Parts, KeysTyped DEF Unsure
<1>3. U \cap told.done = {}
  <2>1. /\ KeysIn(changes, "done") = told.done \cap KeysOf(changes)
        /\ KeysIn(changes, "sending") \cap KeysIn(changes, "done") = {}
        /\ KeysIn(changes, "lost") \cap KeysIn(changes, "done") = {}
    BY Parts
  <2> QED
    BY <1>2, <2>1
<1>4. S \subseteq KeysIn(changes, "lost") /\ S \subseteq U
  OBVIOUS
<1>5. "sending" \in States /\ "sending" # "done" /\ "sending" # "unsaved"
  BY DEF States
<1> HIDE DEF U, S
<1>6. /\ changes' \in Seq(Change) /\ KeysOf(changes') = KeysOf(changes)
      /\ \A k, s : k \in KeysIn(changes', s) <=>
            \/ k \in U /\ k \in KeysOf(changes) /\ s = "sending"
            \/ k \notin U /\ k \in KeysIn(changes, s)
  BY <1>1, <1>5, Parts, KeysMoved
<1>7. Fine(changes', copy, told)
  <2>1. Says(told, told) /\ Fine(changes, copy, told) /\ changes \in Seq(Change)
    BY Parts DEF Says, IInv
  <2> QED
    BY <1>1, <1>3, <1>5, <2>1, FineMove
<1>8. OneEach(changes', told)
  BY <1>7 DEF Fine
<1>9. /\ SyncLinesUp(changes', copy, sync', told) /\ again' \in BOOLEAN
      /\ sync' \in [at: {"idle", "out", "back"}, after: SUBSET Keys, answer: 0..Now]
  BY <1>1, <1>6, <1>8, Parts, OverLinesUp
<1>10. \A x \in Targets : \A k \in ToSet(chain[x]) : k \in KeysIn(changes, "sending")
  BY DEF IInv, InLine
<1>11. /\ \A x \in Targets : S \cap ToSet(chain[x]) = {}
       /\ S \subseteq KeysIn(changes', "sending") /\ S \subseteq KeysOf(changes)
       /\ \A x \in Targets : \A k \in ToSet(chain[x]) : k \in KeysIn(changes', "sending")
  <2>1. KeysIn(changes, "sending") \cap KeysIn(changes, "lost") = {}
    BY Parts
  <2>2. KeysIn(changes, "sending") \subseteq KeysOf(changes)
    BY Parts, KeysTyped
  <2> QED
    BY <1>2, <1>4, <1>6, <1>10, <2>1, <2>2
<1>12. /\ chain' \in [Targets -> Seq(Keys)] /\ InLine(changes', chain', request)
       /\ \A k \in Keys : k \notin DOMAIN made => \A x \in Targets : k \notin ToSet(chain'[x])
  BY <1>1, <1>11, SentAgain
<1>13. TypeOK'
  BY <1>1, <1>6, <1>9, <1>12, Parts, AppTyped
<1>14. \A j \in Keys : j \notin DOMAIN made =>
          /\ j \notin KeysOf(changes') /\ \A x \in Targets : j \notin ToSet(chain'[x])
          /\ request[j] = "none" /\ j \notin late
  BY <1>6, <1>12 DEF IInv, OnlyMade
<1> DEFINE gone == {}
<1>15. KeysOf(changes) \subseteq KeysOf(changes') \cup gone /\ \A j \in gone \cap DOMAIN made : Accounted(j, told)
  BY <1>6
<1> HIDE DEF gone
<1> QED
  BY <1>1, <1>7, <1>9, <1>12, <1>13, <1>14, <1>15, Unsaved

\* A change let go for a newer one is accounted for.
LEMMA SupersededIsAccounted ==
    ASSUME IInv, NEW k \in DOMAIN made, Supersedes(k), NEW t PROVE Accounted(k, t)
<1>1. PICK c \in ToSet(changes) : c.key > k /\ Target(c.key) = Target(k)
  BY DEF Supersedes
<1>2. ~IsAdd(k)
  BY DEF Supersedes
<1>3. c.key \in Keys /\ c.key \in KeysOf(changes)
  BY Parts, KeysTyped DEF KeysOf
<1>4. c.key \in DOMAIN made
  BY <1>3 DEF IInv, OnlyMade
<1>5. made[k].of \in Nat /\ c.key \in Nat \ {0}
  <2>1. made[k].of \in DOMAIN log
    BY <1>2 DEF IInv, MadeOf
  <2>2. \A i \in DOMAIN log : i \in Nat
    BY DEF IInv, TypeOK
  <2>3. c.key \in Nat \ {0}
    BY <1>3, SyncAssumption DEF Keys
  <2> QED
    BY <2>1, <2>2, <2>3
<1>6. ~IsAdd(c.key) /\ made[c.key].of = made[k].of
  <2>1. Target(k) = made[k].of
    BY <1>2 DEF Target
  <2>2. Target(c.key) = IF IsAdd(c.key) THEN -(c.key) ELSE made[c.key].of
    BY DEF Target
  <2>3. -(c.key) # made[k].of
    BY <1>5
  <2> QED
    BY <1>1, <2>1, <2>2, <2>3
<1> QED
  BY <1>1, <1>2, <1>4, <1>6 DEF Accounted, Newer

\* The answer is as good as the copy: what is done is on the list or in it, and
\* no add that waits is.
LEMMA AnswerIsFine ==
    ASSUME IInv, sync.at = "back", Unsure = {} \/ Unchanged
    PROVE  Fine(Drop(changes, DropDone), sync.answer, told)
<1> DEFINE d == Drop(changes, DropDone)
           n == sync.answer
<1>1. /\ ToSet(d) = {c \in ToSet(changes) : c.key \notin sync.after}
      /\ \A s : KeysIn(d, s) = KeysIn(changes, s) \ sync.after
  BY Parts, KeysDropped DEF DropDone
<1>2. OneEach(changes, told) /\ NoneTwice(changes, copy, told)
  BY Parts
<1>3. /\ sync.after \subseteq told.done /\ Covers(changes, n, told)
      /\ \A k \in sync.after, i \in DOMAIN log : log[i].key = k => i <= n
  BY DEF IInv, SyncLinesUp
<1> HIDE DEF d, n
<1>4. OneEach(d, told)
  BY <1>1, <1>2 DEF OneEach
<1>5. Covers(d, n, told)
  BY <1>1, <1>3 DEF Covers
<1>6. NoneTwice(d, n, told)
  <2> SUFFICES ASSUME NEW c \in ToSet(changes), IsAdd(c.key), c.state \in {"sending", "lost"}, InCopy(c.key, n)
               PROVE  c.tries >= GiveUpAfter \/ c.key \in told.refused
    BY <1>1 DEF NoneTwice
  <2>1. c.key \in Unsure
    BY DEF Unsure, KeysIn
  <2>2. Unchanged
    BY <2>1
  <2>3. PICK x \in EntriesOf(c.key) : x <= n /\ Live(x, n)
    BY DEF InCopy
  <2>4. copy # 0 /\ Content(copy) = Content(n)
    BY <2>2 DEF Unchanged, n
  <2>5. x \in 1..n
    <3>1. n \in 0..Now /\ DOMAIN log = 1..Now /\ Now \in Nat
      <4>1. DOMAIN log = 1..Now
        BY DEF IInv, TypeOK, Now
      <4> QED
        BY <4>1, Parts DEF n
    <3>2. x \in 1..Now
      BY <3>1 DEF EntriesOf
    <3> QED
      BY <2>3, <3>1, <3>2
  <2>6. <<x, LastOn(x, n)>> \in Content(n)
    BY <2>3, <2>5 DEF Content
  <2>7. x \in 1..copy /\ Live(x, copy)
    BY <2>4, <2>6 DEF Content
  <2>8. InCopy(c.key, copy)
    BY <2>7, Parts DEF InCopy
  <2> QED
    BY <1>2, <2>8 DEF NoneTwice
<1> QED
  BY <1>4, <1>5, <1>6 DEF Fine, d, n

LEMMA UseAnswerKeeps == ASSUME IInv, NEW S, UseAnswer(S) PROVE IInv'
<1> DEFINE kept == Drop(changes, DropDone)
           old  == {k \in KeysIn(kept, "lost") : Supersedes(k)}
           rest == Drop(kept, old)
<1>1. /\ UNCHANGED <<server, request, late, made, disk, kills, told>> /\ SyncOver
      /\ sync.at = "back" /\ (Unsure = {} \/ Unchanged)
      /\ S \subseteq KeysIn(kept, "lost") \ old
      /\ copy' = sync.answer
      /\ changes' = Move(rest, S, "sending") /\ chain' = SendAfter(chain, S)
  BY DEF UseAnswer
<1>2. Fine(kept, copy', told)
  BY <1>1, AnswerIsFine
<1>3. \A k \in old : k \in KeysIn(kept, "lost") /\ Supersedes(k)
  OBVIOUS
<1> HIDE DEF old
<1>4. /\ kept \in Seq(Change)
      /\ KeysOf(kept) = KeysOf(changes) \ DropDone
      /\ \A s : KeysIn(kept, s) = KeysIn(changes, s) \ DropDone
  BY Parts, KeysDropped
<1>5. DropDone \subseteq told.done
  BY <1>1 DEF IInv, SyncLinesUp, DropDone
<1> HIDE DEF kept
<1>6. /\ rest \in Seq(Change)
      /\ KeysOf(rest) = KeysOf(kept) \ old
      /\ \A s : KeysIn(rest, s) = KeysIn(kept, s) \ old
  BY <1>4, KeysDropped
<1>7. KeysIn(kept, "lost") \cap told.done = {}
  <2>1. OneEach(kept, told)
    BY <1>2 DEF Fine
  <2> QED
    BY <2>1 DEF OneEach, KeysIn
<1>8. Fine(rest, copy', told)
  <2>1. Says(told, told) /\ old \cap told.done = {}
    BY <1>3, <1>7 DEF Says
  <2> QED
    BY <1>2, <1>4, <2>1, FineDrop
<1> HIDE DEF rest
<1>9. "sending" \in States /\ "sending" # "done" /\ "sending" # "unsaved"
  BY DEF States
<1>10. /\ changes' \in Seq(Change) /\ KeysOf(changes') = KeysOf(rest)
       /\ \A k, s : k \in KeysIn(changes', s) <=>
            \/ k \in S /\ k \in KeysOf(rest) /\ s = "sending"
            \/ k \notin S /\ k \in KeysIn(rest, s)
  BY <1>1, <1>6, <1>9, KeysMoved
<1>11. Fine(changes', copy', told)
  <2>1. Says(told, told) /\ S \cap told.done = {}
    BY <1>1, <1>7 DEF Says
  <2> QED
    BY <1>1, <1>6, <1>8, <1>9, <2>1, FineMove
<1>12. OneEach(changes', told)
  BY <1>11 DEF Fine
<1>13. /\ SyncLinesUp(changes', copy', sync', told) /\ again' \in BOOLEAN
       /\ sync' \in [at: {"idle", "out", "back"}, after: SUBSET Keys, answer: 0..Now]
  BY <1>1, <1>10, <1>12, Parts, OverLinesUp
<1>14. /\ S \subseteq KeysIn(changes, "lost") /\ S \subseteq KeysIn(rest, "lost")
       /\ S \subseteq KeysOf(rest) /\ S \subseteq KeysOf(changes)
  <2>1. KeysIn(rest, "lost") \subseteq KeysOf(rest) /\ KeysIn(changes, "lost") \subseteq KeysOf(changes)
    BY <1>6, Parts, KeysTyped
  <2> QED
    BY <1>1, <1>4, <1>6, <2>1
<1>15. \A x \in Targets : \A k \in ToSet(chain[x]) : k \in KeysIn(changes, "sending")
  BY DEF IInv, InLine
<1>16. KeysIn(changes, "sending") \cap KeysIn(changes, "lost") = {}
  BY Parts
<1>17. KeysIn(changes, "sending") \subseteq KeysIn(rest, "sending")
  <2>1. KeysIn(changes, "sending") \cap KeysIn(changes, "done") = {}
    BY Parts
  <2>2. KeysIn(changes, "sending") \subseteq KeysOf(changes)
    BY Parts, KeysTyped
  <2>3. KeysIn(changes, "sending") \cap DropDone = {}
    BY <1>5, <2>1, <2>2, Parts
  <2> QED
    BY <1>3, <1>4, <1>6, <1>16, <2>3
<1>18. /\ \A x \in Targets : S \cap ToSet(chain[x]) = {}
       /\ S \subseteq KeysIn(changes', "sending")
       /\ \A x \in Targets : \A k \in ToSet(chain[x]) : k \in KeysIn(changes', "sending")
  BY <1>10, <1>14, <1>15, <1>16, <1>17
<1>19. /\ chain' \in [Targets -> Seq(Keys)] /\ InLine(changes', chain', request)
       /\ \A k \in Keys : k \notin DOMAIN made => \A x \in Targets : k \notin ToSet(chain'[x])
  BY <1>1, <1>14, <1>18, SentAgain
<1>20. copy' \in 0..Now
  <2>1. \A s \in [at: {"idle", "out", "back"}, after: SUBSET Keys, answer: 0..Now] : s.answer \in 0..Now
    OBVIOUS
  <2> QED
    BY <1>1, <2>1, Parts
<1>21. TypeOK'
  BY <1>1, <1>10, <1>13, <1>19, <1>20, Parts, AppTyped
<1>22. \A j \in Keys : j \notin DOMAIN made =>
          /\ j \notin KeysOf(changes') /\ \A x \in Targets : j \notin ToSet(chain'[x])
          /\ request[j] = "none" /\ j \notin late
  BY <1>4, <1>6, <1>10, <1>19 DEF IInv, OnlyMade
<1> DEFINE gone == DropDone \cup old
<1>23. KeysOf(changes) \subseteq KeysOf(changes') \cup gone
  BY <1>4, <1>6, <1>10
<1>24. \A j \in gone \cap DOMAIN made : Accounted(j, told)
  <2> SUFFICES ASSUME NEW j \in gone, j \in DOMAIN made PROVE Accounted(j, told)
    OBVIOUS
  <2>1. CASE j \in DropDone
    BY <1>5, <2>1 DEF Accounted
  <2>2. CASE j \in old
    BY <1>3, <2>2, SupersededIsAccounted
  <2> QED
    BY <2>1, <2>2
<1> HIDE DEF gone
<1> QED
  BY <1>1, <1>11, <1>13, <1>19, <1>21, <1>22, <1>23, <1>24, Unsaved

\* The change of a key that is on the list.
LEMMA TheChange ==
    ASSUME IInv, NEW k, HasChange(k)
    PROVE  /\ k \in KeysOf(changes) /\ k \in Keys /\ k \in DOMAIN made
           /\ k \in KeysIn(changes, StateOf(k))
           /\ \A c \in ToSet(changes) : c.key = k => c.tries = TriesOf(k)
<1> DEFINE x == CHOOSE c \in ToSet(changes) : c.key = k
<1>1. x \in ToSet(changes) /\ x.key = k
  BY DEF HasChange
<1>2. x.state = StateOf(k) /\ x.tries = TriesOf(k)
  BY DEF StateOf, TriesOf
<1> HIDE DEF x
<1>3. k \in KeysOf(changes) /\ k \in KeysIn(changes, StateOf(k))
  BY <1>1, <1>2 DEF KeysOf, KeysIn
<1>4. k \in Keys
  BY <1>3, Parts, KeysTyped
<1>5. k \in DOMAIN made
  BY <1>3, <1>4 DEF IInv, OnlyMade
<1>6. \A c \in ToSet(changes) : c.key = k => c.tries = TriesOf(k)
  BY <1>1, <1>2, Parts DEF OneEach
<1> QED
  BY <1>3, <1>4, <1>5, <1>6

LEMMA RetryKeeps == ASSUME IInv, NEW k \in Keys, Retry(k) PROVE IInv'
<1>1. /\ UNCHANGED <<server, made>> /\ Save
      /\ request' = request /\ late' = late /\ sync' = sync /\ again' = again /\ copy' = copy /\ told' = told
      /\ HasChange(k) /\ StateOf(k) = "unsaved"
      /\ changes' = Move(changes, {k}, "sending") /\ chain' = SendAfter(chain, {k})
  BY DEF Retry, syncing
<1>2. k \in KeysOf(changes) /\ k \in KeysIn(changes, "unsaved")
  BY <1>1, TheChange
<1>3. k \notin told.done /\ k \notin KeysIn(changes, "sending")
  <2>1. /\ KeysIn(changes, "done") = told.done \cap KeysOf(changes)
        /\ KeysIn(changes, "unsaved") \cap KeysIn(changes, "done") = {}
        /\ KeysIn(changes, "unsaved") \cap KeysIn(changes, "sending") = {}
    BY Parts
  <2> QED
    BY <1>2, <2>1
<1>4. "sending" \in States /\ "sending" # "done" /\ "sending" # "unsaved"
  BY DEF States
<1> DEFINE S == {k}
<1>5. /\ changes' = Move(changes, S, "sending") /\ chain' = SendAfter(chain, S)
      /\ S \subseteq KeysOf(changes) /\ S \cap told.done = {} /\ S \cap KeysIn(changes, "sending") = {}
  BY <1>1, <1>2, <1>3
<1> HIDE DEF S
<1>6. /\ changes' \in Seq(Change) /\ KeysOf(changes') = KeysOf(changes)
      /\ \A j, s : j \in KeysIn(changes', s) <=>
            \/ j \in S /\ j \in KeysOf(changes) /\ s = "sending"
            \/ j \notin S /\ j \in KeysIn(changes, s)
  BY <1>4, <1>5, Parts, KeysMoved
<1>7. Says(told, told) /\ Fine(changes, copy, told)
  BY DEF Says, IInv
<1>8. Fine(changes', copy, told)
  BY <1>4, <1>5, <1>7, Parts, FineMove
<1>9. SyncLinesUp(changes', copy, sync, told)
  <2>1. ASSUME sync.at = "back" PROVE Covers(changes', sync.answer, told)
    <3>1. Covers(changes, sync.answer, told)
      BY <2>1 DEF IInv, SyncLinesUp
    <3> QED
      BY <1>4, <1>5, <1>7, <3>1, Parts, CoversMove
  <2> QED
    BY <2>1 DEF IInv, SyncLinesUp
<1>10. \A x \in Targets : \A j \in ToSet(chain[x]) : j \in KeysIn(changes, "sending")
  BY DEF IInv, InLine
<1>11. /\ \A x \in Targets : S \cap ToSet(chain[x]) = {}
       /\ S \subseteq KeysIn(changes', "sending")
       /\ \A x \in Targets : \A j \in ToSet(chain[x]) : j \in KeysIn(changes', "sending")
  BY <1>5, <1>6, <1>10
<1>12. /\ chain' \in [Targets -> Seq(Keys)] /\ InLine(changes', chain', request)
       /\ \A j \in Keys : j \notin DOMAIN made => \A x \in Targets : j \notin ToSet(chain'[x])
  BY <1>5, <1>11, SentAgain
<1>13. TypeOK'
  <2>1. disk' \in [changes: Seq(Change), copy: 0 .. Now]
    BY <1>1, <1>6, <1>8, Parts, SaveTyped
  <2> QED
    BY <1>1, <1>6, <1>12, <2>1, Parts, AppTyped
<1>14. \A j \in Keys : j \notin DOMAIN made =>
          /\ j \notin KeysOf(changes') /\ \A x \in Targets : j \notin ToSet(chain'[x])
          /\ request[j] = "none" /\ j \notin late /\ j \notin told.done /\ j \notin told.refused
  BY <1>6, <1>12 DEF IInv, OnlyMade
<1> DEFINE gone == {}
<1>15. KeysOf(changes) \subseteq KeysOf(changes') \cup gone /\ \A j \in gone \cap DOMAIN made : Accounted(j, told)
  BY <1>6
<1> HIDE DEF gone
<1>16. DoneStays(request, told)
  BY DEF IInv
<1> QED
  BY <1>1, <1>6, <1>8, <1>9, <1>12, <1>13, <1>14, <1>15, <1>16, Saved

\* One that isn't done is let go, and said, or given up for a newer one.
LEMMA SomeDropped ==
    ASSUME IInv, NEW S, S \cap told.done = {}, changes' = Drop(changes, S), NEW t, Says(told, t)
    PROVE  /\ changes' \in Seq(Change) /\ KeysOf(changes') = KeysOf(changes) \ S
           /\ \A z : KeysIn(changes', z) = KeysIn(changes, z) \ S
           /\ Fine(changes', copy, t)
           /\ SyncLinesUp(changes', copy, sync, t)
<1>1. changes \in Seq(Change)
  BY Parts
<1>2. /\ changes' \in Seq(Change) /\ KeysOf(changes') = KeysOf(changes) \ S
      /\ \A z : KeysIn(changes', z) = KeysIn(changes, z) \ S
  BY <1>1, KeysDropped
<1>3. Fine(changes', copy, t)
  <2>1. Fine(changes, copy, told)
    BY DEF IInv
  <2> QED
    BY <1>1, <2>1, FineDrop
<1>4. ASSUME sync.at = "back" PROVE Covers(changes', sync.answer, t)
  <2>1. Covers(changes, sync.answer, told)
    BY <1>4 DEF IInv, SyncLinesUp
  <2> QED
    BY <1>1, <2>1, CoversDrop
<1>5. SyncLinesUp(changes', copy, sync, t)
  BY <1>4 DEF IInv, SyncLinesUp, Says
<1> QED
  BY <1>2, <1>3, <1>5

LEMMA DiscardKeeps == ASSUME IInv, NEW k \in Keys, Discard(k) PROVE IInv'
<1>1. /\ UNCHANGED <<server, made>> /\ Save
      /\ request' = request /\ late' = late /\ sync' = sync /\ again' = again /\ copy' = copy /\ chain' = chain
      /\ HasChange(k) /\ StateOf(k) = "unsaved"
      /\ changes' = Drop(changes, {k}) /\ told' = [told EXCEPT !.refused = @ \cup {k}]
  BY DEF Discard, syncing
<1>2. k \in KeysOf(changes) /\ k \in KeysIn(changes, "unsaved") /\ k \in DOMAIN made
  BY <1>1, TheChange
<1>3. k \notin told.done /\ k \notin KeysIn(changes, "sending")
  <2>1. /\ KeysIn(changes, "done") = told.done \cap KeysOf(changes)
        /\ KeysIn(changes, "unsaved") \cap KeysIn(changes, "done") = {}
        /\ KeysIn(changes, "unsaved") \cap KeysIn(changes, "sending") = {}
    BY Parts
  <2> QED
    BY <1>2, <2>1
<1>4. told'.done = told.done /\ told'.refused = told.refused \cup {k}
      /\ told' \in [done: SUBSET Keys, refused: SUBSET Keys]
  <2>1. told \in [done: SUBSET Keys, refused: SUBSET Keys]
    BY Parts
  <2> QED
    BY <1>1, <2>1
<1>5. Says(told, told')
  BY <1>4 DEF Says
<1>6. /\ changes' \in Seq(Change) /\ KeysOf(changes') = KeysOf(changes) \ {k}
      /\ \A z : KeysIn(changes', z) = KeysIn(changes, z) \ {k}
      /\ Fine(changes', copy, told') /\ SyncLinesUp(changes', copy, sync, told')
  <2>1. {k} \cap told.done = {}
    BY <1>3
  <2> QED
    BY <1>1, <1>5, <2>1, SomeDropped
<1>7. InLine(changes', chain', request')
  <2>1. \A j : j \in KeysIn(changes, "sending") => j \in KeysIn(changes', "sending")
    BY <1>3, <1>6
  <2> QED
    BY <1>1, <2>1 DEF IInv, InLine
<1>8. DoneStays(request', told')
  BY <1>1, <1>4 DEF IInv, DoneStays
<1>9. TypeOK'
  <2>1. disk' \in [changes: Seq(Change), copy: 0 .. Now]
    BY <1>1, <1>6, Parts, SaveTyped
  <2> QED
    BY <1>1, <1>4, <1>6, <2>1, Parts, AppTyped
<1>10. \A j \in Keys : j \notin DOMAIN made =>
          /\ j \notin KeysOf(changes') /\ \A x \in Targets : j \notin ToSet(chain'[x])
          /\ request'[j] = "none" /\ j \notin late' /\ j \notin told'.done /\ j \notin told'.refused
  BY <1>1, <1>2, <1>4, <1>6 DEF IInv, OnlyMade
<1> DEFINE gone == {k}
<1>11. KeysOf(changes) \subseteq KeysOf(changes') \cup gone /\ \A j \in gone \cap DOMAIN made : Accounted(j, told')
  BY <1>4, <1>6 DEF Accounted
<1> HIDE DEF gone
<1> QED
  BY <1>1, <1>4, <1>6, <1>7, <1>8, <1>9, <1>10, <1>11, Saved

\* A change whose request is under way is on the list, as sending.
LEMMA AtWork ==
    ASSUME IInv, NEW k \in Keys, request[k] # "none"
    PROVE  /\ k \in DOMAIN made /\ k \in KeysIn(changes, "sending") /\ k \in KeysOf(changes) /\ k \notin told.done
           /\ Popped(chain, k) \in [Targets -> Seq(Keys)]
           /\ \A x \in Targets : ToSet(Popped(chain, k)[x]) \subseteq ToSet(chain[x])
           /\ \A p : (\A j \in Keys : j # k /\ j \in KeysIn(changes, "sending") => j \in KeysIn(p, "sending"))
                 => InLine(p, Popped(chain, k), [request EXCEPT ![k] = "none"])
<1>1. k \in DOMAIN made
  BY DEF IInv, OnlyMade
<1>2. /\ chain \in [Targets -> Seq(Keys)] /\ InLine(changes, chain, request)
      /\ request \in [Keys -> {"none", "out", "working", "ok", "busy", "no", "gone"}]
  BY Parts DEF IInv
<1>3. /\ k \in KeysIn(changes, "sending")
      /\ Popped(chain, k) \in [Targets -> Seq(Keys)]
      /\ \A x \in Targets : ToSet(Popped(chain, k)[x]) \subseteq ToSet(chain[x])
  BY <1>2, OnPopped
<1>4. ASSUME NEW p, \A j \in Keys : j # k /\ j \in KeysIn(changes, "sending") => j \in KeysIn(p, "sending")
      PROVE  InLine(p, Popped(chain, k), [request EXCEPT ![k] = "none"])
  BY <1>2, <1>4, OnPopped
<1>5. k \in KeysOf(changes) /\ k \notin told.done
  <2>1. k \in KeysOf(changes)
    BY <1>3, Parts, KeysTyped
  <2>2. /\ KeysIn(changes, "done") = told.done \cap KeysOf(changes)
        /\ KeysIn(changes, "sending") \cap KeysIn(changes, "done") = {}
    BY Parts
  <2> QED
    BY <1>3, <2>1, <2>2
<1> QED
  BY <1>1, <1>3, <1>4, <1>5

\* A request is over.
LEMMA Ends ==
    ASSUME IInv, NEW k \in Keys, request[k] # "none", Over(k), Save, late' \subseteq late \cup {k},
           changes' \in Seq(Change), NEW gone,
           KeysOf(changes') \subseteq KeysOf(changes), KeysOf(changes) \subseteq KeysOf(changes') \cup gone,
           \A j \in Keys : j # k /\ j \in KeysIn(changes, "sending") => j \in KeysIn(changes', "sending"),
           Fine(changes', copy, told'), SyncLinesUp(changes', copy, sync', told'),
           sync' \in [at: {"idle", "out", "back"}, after: SUBSET Keys, answer: 0..Now], again' \in BOOLEAN,
           told.done \subseteq told'.done, told'.done \subseteq told.done \cup {k},
           told.refused \subseteq told'.refused, told'.refused \subseteq told.refused \cup {k},
           told' \in [done: SUBSET Keys, refused: SUBSET Keys],
           k \in told'.done => ForGood(k),
           \A j \in gone \cap DOMAIN made : Accounted(j, told')
    PROVE  IInv'
<1>1. /\ UNCHANGED <<server, made>> /\ copy' = copy
      /\ request' = [request EXCEPT ![k] = "none"] /\ chain' = Popped(chain, k)
  BY DEF Over, Popped
<1>2. /\ k \in DOMAIN made
      /\ chain' \in [Targets -> Seq(Keys)]
      /\ \A x \in Targets : ToSet(chain'[x]) \subseteq ToSet(chain[x])
      /\ InLine(changes', chain', request')
  BY <1>1, AtWork
<1>3. request \in [Keys -> {"none", "out", "working", "ok", "busy", "no", "gone"}] /\ late \subseteq Keys
  BY Parts
<1>4. /\ request' \in [Keys -> {"none", "out", "working", "ok", "busy", "no", "gone"}] /\ late' \subseteq Keys
      /\ \A j \in Keys : request'[j] # "none" => request'[j] = request[j]
      /\ \A j \in Keys : request[j] = "none" => request'[j] = "none"
  BY <1>1, <1>3
<1>5. TypeOK'
  <2>1. disk' \in [changes: Seq(Change), copy: 0 .. Now]
    BY <1>1, Parts, SaveTyped
  <2> QED
    BY <1>1, <1>2, <1>4, <2>1, Parts, AppTyped
<1>6. \A j \in Keys : j \notin DOMAIN made =>
          /\ j \notin KeysOf(changes') /\ \A x \in Targets : j \notin ToSet(chain'[x])
          /\ request'[j] = "none" /\ j \notin late' /\ j \notin told'.done /\ j \notin told'.refused
  BY <1>2, <1>4 DEF IInv, OnlyMade
<1>7. DoneStays(request', told')
  BY <1>4 DEF IInv, DoneStays
<1>8. Fine(changes', copy', told') /\ SyncLinesUp(changes', copy', sync', told')
  BY <1>1
<1>9. UNCHANGED <<server, made>> /\ InLine(changes', chain', request')
  BY <1>1, <1>2
<1> QED
  BY <1>5, <1>6, <1>7, <1>8, <1>9, Saved

LEMMA LetGoEnds ==
    ASSUME IInv, NEW k \in Keys, request[k] # "none", LetGo(k), late' \subseteq late \cup {k} PROVE IInv'
<1>1. /\ changes' = Drop(changes, {k}) /\ Over(k) /\ Save /\ Supersedes(k)
      /\ sync' = sync /\ again' = again /\ told' = told
  BY DEF LetGo
<1>2. k \in DOMAIN made /\ k \notin told.done
  BY AtWork
<1>3. Says(told, told) /\ {k} \cap told.done = {}
  BY <1>2 DEF Says
<1>4. /\ changes' \in Seq(Change) /\ KeysOf(changes') = KeysOf(changes) \ {k}
      /\ \A z : KeysIn(changes', z) = KeysIn(changes, z) \ {k}
      /\ Fine(changes', copy, told) /\ SyncLinesUp(changes', copy, sync, told)
  BY <1>1, <1>3, SomeDropped
<1> DEFINE gone == {k}
<1>5. KeysOf(changes) \subseteq KeysOf(changes') \cup gone
  BY <1>4
<1>6. \A j \in gone \cap DOMAIN made : Accounted(j, told)
  BY <1>1, SupersededIsAccounted
<1> HIDE DEF gone
<1>7. /\ KeysOf(changes') \subseteq KeysOf(changes)
      /\ \A j \in Keys : j # k /\ j \in KeysIn(changes, "sending") => j \in KeysIn(changes', "sending")
  BY <1>4
<1>8. /\ told.done \subseteq told'.done /\ told'.done \subseteq told.done \cup {k} /\ k \notin told'.done
      /\ told.refused \subseteq told'.refused /\ told'.refused \subseteq told.refused \cup {k}
  BY <1>1, <1>2
<1>9. /\ sync' \in [at: {"idle", "out", "back"}, after: SUBSET Keys, answer: 0..Now] /\ again' \in BOOLEAN
      /\ told' \in [done: SUBSET Keys, refused: SUBSET Keys]
  BY <1>1, Parts
<1>10. /\ Fine(changes', copy, told') /\ SyncLinesUp(changes', copy, sync', told')
       /\ \A j \in gone \cap DOMAIN made : Accounted(j, told')
  BY <1>1, <1>4, <1>6
<1> QED
  BY <1>1, <1>4, <1>5, <1>7, <1>8, <1>9, <1>10, Ends

LEMMA AnsweredKeeps == ASSUME IInv, NEW k \in Keys, Answered(k) PROVE IInv'
<1>1. /\ request[k] \in {"ok", "gone"}
      /\ changes' = Move(changes, {k}, "done") /\ told' = [told EXCEPT !.done = @ \cup {k}]
      /\ AskSync /\ Over(k) /\ Save /\ late' = late
  BY DEF Answered
<1>2. k \in DOMAIN made /\ k \in KeysOf(changes) /\ k \notin told.done /\ request[k] # "none"
  BY <1>1, AtWork
<1>3. told'.done = told.done \cup {k} /\ told'.refused = told.refused
      /\ told' \in [done: SUBSET Keys, refused: SUBSET Keys]
  <2>1. told \in [done: SUBSET Keys, refused: SUBSET Keys]
    BY Parts
  <2> QED
    BY <1>1, <2>1
<1>4. ForGood(k)
  BY <1>1 DEF IInv, DoneStays, ForGood
<1> DEFINE S == {k}
<1>5. changes' = Move(changes, S, "done") /\ \A j : j \in S <=> j = k
  BY <1>1
<1> HIDE DEF S
<1>6. /\ changes' \in Seq(Change) /\ KeysOf(changes') = KeysOf(changes)
      /\ \A j, s : j \in KeysIn(changes', s) <=>
            \/ j \in S /\ j \in KeysOf(changes) /\ s = "done"
            \/ j \notin S /\ j \in KeysIn(changes, s)
  <2>1. "done" \in States
    BY DEF States
  <2> QED
    BY <1>5, <2>1, Parts, KeysMoved
<1>7. Fine(changes', copy, told')
  <2>1. Fine(changes, copy, told)
    BY DEF IInv
  <2> QED
    BY <1>1, <1>2, <1>3, <2>1, Parts, FineDone
<1>8. SyncLinesUp(changes', copy, sync, told')
  <2>1. ASSUME sync.at = "back" PROVE Covers(changes', sync.answer, told')
    <3>1. Covers(changes, sync.answer, told)
      BY <2>1 DEF IInv, SyncLinesUp
    <3> QED
      BY <1>1, <1>2, <1>3, <3>1, Parts, CoversDone
  <2> QED
    BY <1>3, <2>1 DEF IInv, SyncLinesUp
<1>9. OneEach(changes', told')
  BY <1>7 DEF Fine
<1>10. /\ SyncLinesUp(changes', copy, sync', told') /\ again' \in BOOLEAN
       /\ sync' \in [at: {"idle", "out", "back"}, after: SUBSET Keys, answer: 0..Now]
  <2>1. TypeOK
    BY Parts
  <2> QED
    BY <1>1, <1>6, <1>8, <1>9, <2>1, AskLinesUp
<1> DEFINE gone == {}
<1>11. /\ KeysOf(changes') \subseteq KeysOf(changes) /\ KeysOf(changes) \subseteq KeysOf(changes') \cup gone
       /\ \A j \in gone \cap DOMAIN made : Accounted(j, told')
       /\ \A j \in Keys : j # k /\ j \in KeysIn(changes, "sending") => j \in KeysIn(changes', "sending")
  BY <1>5, <1>6
<1> HIDE DEF gone
<1>12. /\ told.done \subseteq told'.done /\ told'.done \subseteq told.done \cup {k}
       /\ told.refused \subseteq told'.refused /\ told'.refused \subseteq told.refused \cup {k}
       /\ late' \subseteq late \cup {k}
  BY <1>1, <1>3
<1> QED
  BY <1>1, <1>2, <1>3, <1>4, <1>6, <1>7, <1>10, <1>11, <1>12, Ends

\* One whose request is under way becomes lost, or is left to the person.
LEMMA MovedEnds ==
    ASSUME IInv, NEW k \in Keys, request[k] # "none", Over(k), Save, late' \subseteq late \cup {k},
           NEW state \in States, state # "done",
           changes' = Move(changes, {k}, state), Says(told, told'), told'.refused \subseteq told.refused \cup {k},
           told' \in [done: SUBSET Keys, refused: SUBSET Keys],
           state = "unsaved" => TriesOf(k) >= GiveUpAfter \/ k \in told'.refused,
           AskSync \/ (sync' = sync /\ again' = again)
    PROVE  IInv'
<1>1. k \in DOMAIN made /\ k \in KeysOf(changes) /\ k \notin told.done
  BY AtWork
<1> DEFINE S == {k}
<1>2. changes' = Move(changes, S, state) /\ (\A j : j \in S <=> j = k) /\ S \cap told.done = {}
  BY <1>1
<1> HIDE DEF S
<1>3. /\ changes' \in Seq(Change) /\ KeysOf(changes') = KeysOf(changes)
      /\ \A j, s : j \in KeysIn(changes', s) <=>
            \/ j \in S /\ j \in KeysOf(changes) /\ s = state
            \/ j \notin S /\ j \in KeysIn(changes, s)
  <2>1. changes \in Seq(Change)
    BY Parts
  <2> QED
    BY <1>2, <2>1, KeysMoved
<1>4. state = "unsaved" => \A c \in ToSet(changes) : c.key \in S => c.tries >= GiveUpAfter \/ c.key \in told'.refused
  <2>1. HasChange(k)
    BY <1>1 DEF HasChange, KeysOf
  <2>2. \A c \in ToSet(changes) : c.key = k => c.tries = TriesOf(k)
    BY <2>1, TheChange
  <2> QED
    BY <1>2, <2>2
<1>5. Fine(changes', copy, told')
  <2>1. Fine(changes, copy, told) /\ changes \in Seq(Change)
    BY Parts DEF IInv
  <2> QED
    BY <1>2, <1>4, <2>1, FineMove
<1>6. SyncLinesUp(changes', copy, sync, told')
  <2>1. ASSUME sync.at = "back" PROVE Covers(changes', sync.answer, told')
    <3>1. Covers(changes, sync.answer, told) /\ changes \in Seq(Change)
      BY <2>1, Parts DEF IInv, SyncLinesUp
    <3> QED
      BY <1>2, <3>1, CoversMove
  <2> QED
    BY <2>1 DEF IInv, SyncLinesUp, Says
<1>7. OneEach(changes', told')
  BY <1>5 DEF Fine
<1>8. /\ SyncLinesUp(changes', copy, sync', told') /\ again' \in BOOLEAN
      /\ sync' \in [at: {"idle", "out", "back"}, after: SUBSET Keys, answer: 0..Now]
  <2>1. CASE AskSync
    BY <1>3, <1>6, <1>7, <2>1, Parts, AskLinesUp
  <2>2. CASE sync' = sync /\ again' = again
    BY <1>6, <2>2, Parts
  <2> QED
    BY <2>1, <2>2
<1> DEFINE gone == {}
<1>9. /\ KeysOf(changes') \subseteq KeysOf(changes) /\ KeysOf(changes) \subseteq KeysOf(changes') \cup gone
      /\ \A j \in gone \cap DOMAIN made : Accounted(j, told')
      /\ \A j \in Keys : j # k /\ j \in KeysIn(changes, "sending") => j \in KeysIn(changes', "sending")
  BY <1>2, <1>3
<1> HIDE DEF gone
<1>10. /\ told.done \subseteq told'.done /\ told'.done \subseteq told.done \cup {k}
       /\ told.refused \subseteq told'.refused /\ k \notin told'.done
  BY <1>1 DEF Says
<1> QED
  BY <1>3, <1>5, <1>8, <1>9, <1>10, Ends

LEMMA RefusedKeeps == ASSUME IInv, NEW k \in Keys, Refused(k) PROVE IInv'
<1>1. request[k] # "none" /\ late' = late
  BY DEF Refused
<1>2. late' \subseteq late \cup {k}
  BY <1>1
<1>3. CASE LetGo(k)
  BY <1>1, <1>2, <1>3, LetGoEnds
<1>4. CASE /\ changes' = IF IsAdd(k) THEN Move(changes, {k}, "unsaved") ELSE Drop(changes, {k})
           /\ told' = [told EXCEPT !.refused = @ \cup {k}]
           /\ AskSync /\ Over(k) /\ Save
  <2>1. told'.done = told.done /\ told'.refused = told.refused \cup {k}
        /\ told' \in [done: SUBSET Keys, refused: SUBSET Keys]
    <3>1. told \in [done: SUBSET Keys, refused: SUBSET Keys]
      BY Parts
    <3> QED
      BY <1>4, <3>1
  <2>2. Says(told, told') /\ told'.refused \subseteq told.refused \cup {k} /\ k \in told'.refused
    BY <2>1 DEF Says
  <2>3. CASE IsAdd(k)
    <3>1. changes' = Move(changes, {k}, "unsaved") /\ AskSync /\ Over(k) /\ Save
      BY <1>4, <2>3
    <3>2. "unsaved" \in States /\ "unsaved" # "done"
      BY DEF States
    <3> QED
      BY <1>1, <1>2, <2>1, <2>2, <3>1, <3>2, MovedEnds
  <2>4. CASE ~IsAdd(k)
    <3>1. changes' = Drop(changes, {k}) /\ AskSync /\ Over(k) /\ Save
      BY <1>4, <2>4
    <3>2. k \in DOMAIN made /\ k \notin told.done
      BY <1>1, AtWork
    <3>3. {k} \cap told.done = {}
      BY <3>2
    <3>4. /\ changes' \in Seq(Change) /\ KeysOf(changes') = KeysOf(changes) \ {k}
          /\ \A z : KeysIn(changes', z) = KeysIn(changes, z) \ {k}
          /\ Fine(changes', copy, told') /\ SyncLinesUp(changes', copy, sync, told')
      BY <2>2, <3>1, <3>3, SomeDropped
    <3>5. OneEach(changes', told')
      BY <3>4 DEF Fine
    <3>6. /\ SyncLinesUp(changes', copy, sync', told') /\ again' \in BOOLEAN
          /\ sync' \in [at: {"idle", "out", "back"}, after: SUBSET Keys, answer: 0..Now]
      BY <3>1, <3>4, <3>5, Parts, AskLinesUp
    <3> DEFINE gone == {k}
    <3>7. /\ KeysOf(changes) \subseteq KeysOf(changes') \cup gone
          /\ \A j \in gone \cap DOMAIN made : Accounted(j, told')
      BY <2>2, <3>4 DEF Accounted
    <3> HIDE DEF gone
    <3>8. /\ KeysOf(changes') \subseteq KeysOf(changes)
          /\ \A j \in Keys : j # k /\ j \in KeysIn(changes, "sending") => j \in KeysIn(changes', "sending")
      BY <3>4
    <3>9. /\ told.done \subseteq told'.done /\ told'.done \subseteq told.done \cup {k}
          /\ told.refused \subseteq told'.refused /\ k \notin told'.done
      BY <2>1, <3>2
    <3> QED
      BY <1>1, <1>2, <2>1, <2>2, <3>1, <3>4, <3>6, <3>7, <3>8, <3>9, Ends
  <2> QED
    BY <2>3, <2>4
<1> QED
  BY <1>3, <1>4 DEF Refused

LEMMA LostKeeps == ASSUME IInv, NEW k \in Keys, Lost(k) PROVE IInv'
<1>1. request[k] # "none" /\ late' \subseteq late \cup {k}
  BY DEF Lost
<1>2. CASE LetGo(k)
  BY <1>1, <1>2, LetGoEnds
<1>3. CASE /\ changes' = Move(changes, {k}, IF IsAdd(k) /\ TriesOf(k) >= GiveUpAfter THEN "unsaved" ELSE "lost")
           /\ UNCHANGED <<sync, again, told>> /\ Over(k) /\ Save
  <2> DEFINE state == IF IsAdd(k) /\ TriesOf(k) >= GiveUpAfter THEN "unsaved" ELSE "lost"
  <2>1. state \in States /\ state # "done" /\ (state = "unsaved" => TriesOf(k) >= GiveUpAfter)
    BY DEF States
  <2>2. changes' = Move(changes, {k}, state) /\ Over(k) /\ Save /\ sync' = sync /\ again' = again /\ told' = told
    BY <1>3
  <2>3. Says(told, told') /\ told'.refused \subseteq told.refused \cup {k}
    BY <2>2 DEF Says
  <2> HIDE DEF state
  <2>4. told' \in [done: SUBSET Keys, refused: SUBSET Keys]
    BY <2>2, Parts
  <2> QED
    BY <1>1, <2>1, <2>2, <2>3, <2>4, MovedEnds
<1> QED
  BY <1>2, <1>3 DEF Lost

LEMMA KillKeeps == ASSUME IInv, Kill PROVE IInv'
<1>1. /\ UNCHANGED <<server, made>> /\ told' = told
      /\ changes' = disk.changes /\ copy' \in {disk.copy, 0} /\ disk' = [disk EXCEPT !.copy = copy']
      /\ chain' = [x \in Targets |-> <<>>] /\ sync' = NoSync /\ again' = FALSE
      /\ late' = late \cup {k \in Keys : request[k] = "out"}
      /\ request' = [k \in Keys |-> "none"]
  BY DEF Kill
<1>2. disk \in [changes: Seq(Change), copy: 0 .. Now] /\ disk.changes \in Seq(Change) /\ disk.copy \in 0..Now
  BY Parts
<1>3. disk'.changes = disk.changes /\ disk'.copy = copy'
  BY <1>1, <1>2
<1>4. copy' \in 0..Now /\ disk' \in [changes: Seq(Change), copy: 0 .. Now]
  <2>1. 0 \in 0..Now
    BY Parts
  <2>2. copy' \in 0..Now
    BY <1>1, <1>2, <2>1
  <2> QED
    BY <1>1, <1>2, <2>2
<1>5. \A k \in Keys : request'[k] = "none"
  BY <1>1
<1>6. /\ chain' \in [Targets -> Seq(Keys)]
      /\ \A x \in Targets : chain'[x] = <<>> /\ ToSet(chain'[x]) = {} /\ Once(chain'[x])
  <2>1. <<>> \in Seq(Keys) /\ DOMAIN <<>> = {}
    OBVIOUS
  <2>2. ToSet(<<>>) = {} /\ Once(<<>>)
    BY <2>1 DEF ToSet, Once
  <2> QED
    BY <1>1, <2>1, <2>2
<1>7. Fine(disk.changes, disk.copy, told)
  BY DEF IInv
<1>8. Fine(changes', copy', told')
  <2>1. CASE copy' = disk.copy
    BY <1>1, <1>7, <2>1
  <2>2. CASE copy' = 0
    <3>1. \A k : ~InCopy(k, 0)
      <4>1. \A k : \A x \in EntriesOf(k) : ~(x <= 0)
        BY DEF IInv, TypeOK, EntriesOf
      <4> QED
        BY <4>1 DEF InCopy
    <3>2. Fine(disk.changes, 0, told)
      BY <1>7, <3>1 DEF Fine, NoneTwice
    <3> QED
      BY <1>1, <2>2, <3>2
  <2> QED
    BY <1>1, <2>1, <2>2
<1>9. SyncLinesUp(changes', copy', sync', told') /\ sync' \in [at: {"idle", "out", "back"}, after: SUBSET Keys, answer: 0..Now]
  <2>1. OneEach(changes', told') /\ changes' \in Seq(Change) /\ Now \in Nat
    BY <1>1, <1>2, <1>8, Parts DEF Fine
  <2> QED
    BY <1>1, <2>1, SyncStarts
<1>10. /\ request' \in [Keys -> {"none", "out", "working", "ok", "busy", "no", "gone"}]
       /\ late' \subseteq Keys /\ again' \in BOOLEAN
  BY <1>1, Parts
<1>11. TypeOK'
  BY <1>1, <1>2, <1>4, <1>6, <1>9, <1>10, Parts, AppTyped
<1>12. InLine(changes', chain', request')
  BY <1>5, <1>6 DEF InLine
<1>13. OnlyMade(changes', disk'.changes, chain', request', late', told')
  BY <1>1, <1>3, <1>5, <1>6 DEF IInv, OnlyMade
<1>14. DoneStays(request', told')
  BY <1>1, <1>5 DEF IInv, DoneStays
<1>15. NoneLost(changes', disk'.changes, told')
  BY <1>1, <1>3 DEF IInv, NoneLost
<1>16. Fine(disk'.changes, disk'.copy, told')
  BY <1>1, <1>3, <1>8
<1> QED
  BY <1>1, <1>8, <1>9, <1>11, <1>12, <1>13, <1>14, <1>15, <1>16, AppStep

-----------------------------------------------------------------------------
(* A new change.                                                           *)

LEMMA PushKeeps ==
    ASSUME IInv, NEW kind \in {"add", "edit", "delete"}, NEW x \in Nat, kind # "add" => x \in DOMAIN log,
           Push(kind, x), NEW k \in Keys, k = Len(made) + 1
    PROVE  IInv'
<1> DEFINE past == {b \in KeysIn(changes, "lost") : kind # "add" /\ ~IsAdd(b) /\ made[b].of = x}
           c    == [key |-> k, state |-> "sending", tries |-> 0]
           e    == [kind |-> kind, of |-> x]
           z    == IF kind = "add" THEN -k ELSE x
           d    == Drop(changes, past)
           R    == [kind: {"add", "edit", "delete"}, of: Nat]
<1>1. /\ made' = Append(made, e) /\ changes' = Append(d, c)
      /\ chain' = [chain EXCEPT ![z] = Append(@, k)] /\ Save
      /\ log' = log /\ key' = key /\ request' = request /\ late' = late /\ told' = told
      /\ sync' = sync /\ again' = again /\ copy' = copy
  BY DEF Push, syncing, server
<1>2. /\ Len(made) \in Nat /\ DOMAIN made = 1..Len(made)
      /\ made' \in Seq(R) /\ DOMAIN made' = DOMAIN made \cup {k} /\ k \notin DOMAIN made
      /\ \A j \in DOMAIN made : made'[j] = made[j] /\ j < k
      /\ made'[k] = e
  <2>1. made \in Seq(R) /\ e \in R
    BY DEF IInv, TypeOK
  <2> HIDE DEF R, e
  <2>2. /\ Append(made, e) \in Seq(R) /\ Len(Append(made, e)) = Len(made) + 1
        /\ \A j \in 1..Len(made) : Append(made, e)[j] = made[j]
        /\ Append(made, e)[Len(made) + 1] = e
    BY <2>1, AppendProperties
  <2>3. Len(made) \in Nat /\ DOMAIN made = 1..Len(made)
    BY <2>1
  <2>4. DOMAIN made' = 1..(Len(made) + 1)
    BY <1>1, <2>2
  <2>5. 1..(Len(made) + 1) = 1..Len(made) \cup {Len(made) + 1} /\ Len(made) + 1 \notin 1..Len(made)
        /\ \A j \in 1..Len(made) : j < Len(made) + 1
    BY <2>3
  <2> QED
    BY <1>1, <2>2, <2>3, <2>4, <2>5
<1>3. /\ \A j \in DOMAIN made : (IsAdd(j)' <=> IsAdd(j)) /\ Target(j)' = Target(j)
      /\ IsAdd(k)' <=> kind = "add"
      /\ Target(k)' = z
  <2>1. \A j \in DOMAIN made : (IsAdd(j)' <=> IsAdd(j)) /\ made'[j] = made[j]
    BY <1>2 DEF IsAdd, Kind
  <2>2. \A j \in DOMAIN made : Target(j)' = Target(j)
    BY <2>1 DEF Target
  <2>3. made'[k].kind = kind /\ made'[k].of = x
    BY <1>2
  <2> HIDE DEF e
  <2>4. IsAdd(k)' <=> kind = "add"
    BY <2>3 DEF IsAdd, Kind
  <2>5. Target(k)' = z
    BY <2>3, <2>4 DEF Target
  <2> QED
    BY <2>1, <2>2, <2>4, <2>5
<1> HIDE DEF e, R
<1>4. /\ k \notin KeysOf(changes) /\ k \notin KeysOf(disk.changes) /\ \A y \in Targets : k \notin ToSet(chain[y])
      /\ request[k] = "none" /\ k \notin late /\ key[k] = "free" /\ k \notin told.done /\ k \notin told.refused
  BY <1>2 DEF IInv, OnlyMade
<1>5. EntriesOf(k) = {}
  BY <1>4 DEF IInv, DoneOnce
<1>6. c \in Change /\ c.key = k /\ c.state = "sending"
  BY SyncAssumption DEF Change
<1>7. past \subseteq KeysIn(changes, "lost") /\ past \cap told.done = {}
  <2>1. past \subseteq KeysIn(changes, "lost")
    OBVIOUS
  <2>2. /\ KeysIn(changes, "done") = told.done \cap KeysOf(changes)
        /\ KeysIn(changes, "lost") \cap KeysIn(changes, "done") = {}
        /\ KeysIn(changes, "lost") \subseteq KeysOf(changes)
    BY Parts, KeysTyped
  <2> HIDE DEF past
  <2> QED
    BY <2>1, <2>2
<1>8. \A b \in past : kind # "add" /\ ~IsAdd(b) /\ made[b].of = x
  OBVIOUS
<1> HIDE DEF past, c
<1>9. changes \in Seq(Change)
  BY Parts
<1>10. /\ d \in Seq(Change) /\ KeysOf(d) = KeysOf(changes) \ past
       /\ \A s : KeysIn(d, s) = KeysIn(changes, s) \ past
  BY <1>9, KeysDropped
<1>11. Fine(d, copy, told)
  <2>1. Fine(changes, copy, told) /\ Says(told, told)
    BY DEF IInv, Says
  <2> QED
    BY <1>7, <1>9, <2>1, FineDrop
<1>12. sync.at = "back" => Covers(d, sync.answer, told)
  <2>1. ASSUME sync.at = "back" PROVE Covers(d, sync.answer, told)
    <3>1. Covers(changes, sync.answer, told) /\ Says(told, told)
      BY <2>1 DEF IInv, SyncLinesUp, Says
    <3> QED
      BY <1>7, <1>9, <3>1, CoversDrop
  <2> QED
    BY <2>1
<1> HIDE DEF d
<1>13. /\ changes' \in Seq(Change) /\ ToSet(changes') = ToSet(d) \cup {c}
       /\ KeysOf(changes') = KeysOf(d) \cup {k}
       /\ \A s : KeysIn(changes', s) = KeysIn(d, s) \cup (IF s = c.state THEN {c.key} ELSE {})
  BY <1>1, <1>6, <1>10, KeysAdded
<1>14. Fine(changes', copy', told')
  <2>1. OneEach(d, told) /\ NoneTwice(d, copy, told) /\ (copy # 0 => Covers(d, copy, told))
    BY <1>11 DEF Fine
  <2>2. OneEach(changes', told)
    <3>1. \A b \in ToSet(d) : b.key # k
      BY <1>4, <1>10 DEF KeysOf
    <3> QED
      BY <1>4, <1>6, <1>13, <2>1, <3>1 DEF OneEach
  <2>3. NoneTwice(changes', copy, told)
    <3>1. ~InCopy(k, copy)
      BY <1>5 DEF InCopy
    <3> QED
      BY <1>6, <1>13, <2>1, <3>1 DEF NoneTwice
  <2>4. Covers(d, copy, told) => Covers(changes', copy, told)
    BY <1>13 DEF Covers
  <2> QED
    BY <1>1, <2>1, <2>2, <2>3, <2>4 DEF Fine
<1>15. /\ disk'.changes = Hydrated(changes') /\ disk'.copy = copy'
       /\ disk'.changes \in Seq(Change) /\ KeysOf(disk'.changes) = KeysOf(changes')
       /\ Fine(disk'.changes, disk'.copy, told')
  <2>1. disk'.changes = Hydrated(changes') /\ disk'.copy = copy'
    BY <1>1 DEF Save
  <2> QED
    BY <1>13, <1>14, <2>1, FineHydrated
<1>16. KeysOf(changes') \subseteq DOMAIN made' /\ \A y \in Targets : ToSet(chain[y]) \subseteq DOMAIN made
  <2>1. KeysOf(changes) \subseteq Keys /\ \A y \in Targets : ToSet(chain[y]) \subseteq Keys
    <3>1. \A y \in Targets : chain[y] \in Seq(Keys)
      BY Parts
    <3>2. \A y \in Targets : ToSet(chain[y]) \subseteq Keys
      BY <3>1 DEF ToSet
    <3> QED
      BY <1>9, <3>2, KeysTyped
  <2> QED
    BY <1>2, <1>10, <1>13, <2>1 DEF IInv, OnlyMade
<1>17. ASSUME NEW y \in Targets
       PROVE  /\ chain'[y] \in Seq(Keys) /\ Once(chain'[y])
              /\ \A j \in ToSet(chain'[y]) : j \in ToSet(chain[y]) \/ (j = k /\ y = z)
              /\ chain[y] # <<>> => chain'[y] # <<>> /\ Head(chain'[y]) = Head(chain[y])
  <2> DEFINE s == chain[y]
  <2>1. chain'[y] = IF y = z THEN Append(s, k) ELSE s
    <3>1. chain \in [Targets -> Seq(Keys)]
      BY Parts
    <3> HIDE DEF z
    <3> QED
      BY <1>1, <3>1
  <2>2. s \in Seq(Keys) /\ Once(s) /\ k \notin ToSet(s)
    BY <1>4, Parts DEF IInv, InLine
  <2> HIDE DEF s, z
  <2>3. /\ Append(s, k) \in Seq(Keys) /\ ToSet(Append(s, k)) = ToSet(s) \cup {k}
        /\ Append(s, k) # <<>>
        /\ s # <<>> => Head(Append(s, k)) = Head(s)
        /\ Once(Append(s, k))
    BY <2>2, OnAppend
  <2>4. CASE y = z
    BY <2>1, <2>3, <2>4 DEF s
  <2>5. CASE y # z
    BY <2>1, <2>2, <2>5 DEF s
  <2> QED
    BY <2>4, <2>5
<1>18. chain' \in [Targets -> Seq(Keys)]
  <2>1. chain' = [y \in Targets |-> chain'[y]]
    <3>1. chain \in [Targets -> Seq(Keys)]
      BY Parts
    <3> HIDE DEF z
    <3> QED
      BY <1>1, <3>1
  <2> QED
    BY <1>17, <2>1
<1>19. TypeOK'
  <2>1. disk' \in [changes: Seq(Change), copy: 0 .. Now]
    BY <1>1, <1>13, <1>14, Parts, SaveTyped
  <2> QED
    BY <1>1, <1>2, <1>13, <1>18, <2>1 DEF IInv, TypeOK, Now, R
<1>20. MadeOf'
  <2>1. DOMAIN made \subseteq Keys /\ \A j \in DOMAIN made : ~IsAdd(j) => made[j].of \in DOMAIN log
    BY DEF IInv, MadeOf
  <2>2. ~IsAdd(k)' => made'[k].of \in DOMAIN log
    BY <1>2, <1>3 DEF e
  <2>3. ASSUME NEW j \in DOMAIN made, ~IsAdd(j)' PROVE made'[j].of \in DOMAIN log
    BY <1>2, <1>3, <2>1, <2>3
  <2>4. DOMAIN made' \subseteq Keys /\ \A j \in DOMAIN made' : ~IsAdd(j)' => made'[j].of \in DOMAIN log'
    BY <1>1, <1>2, <2>1, <2>2, <2>3
  <2> QED
    BY <2>4 DEF MadeOf
<1>21. DoneOnce'
  BY <1>1 DEF IInv, DoneOnce, EntriesOf
<1>22. OnlyMade(changes, disk.changes, chain, request, late, told)'
  <2>1. ASSUME NEW j \in Keys, j \notin DOMAIN made'
        PROVE  /\ j \notin KeysOf(changes') /\ j \notin KeysOf(disk'.changes)
               /\ \A y \in Targets : j \notin ToSet(chain'[y])
    BY <1>2, <1>15, <1>16, <1>17, <2>1
  <2>2. ASSUME NEW j \in Keys, j \notin DOMAIN made'
        PROVE  /\ request'[j] = "none" /\ j \notin late' /\ key'[j] = "free"
               /\ j \notin told'.done /\ j \notin told'.refused
    BY <1>1, <1>2, <2>2 DEF IInv, OnlyMade
  <2> QED
    BY <2>1, <2>2 DEF OnlyMade, KeysOf
<1>23. InLine(changes, chain, request)'
  <2>1. ASSUME NEW y \in Targets, NEW j \in ToSet(chain'[y])
        PROVE  Target(j)' = y /\ j \in KeysIn(changes', "sending")
    <3>1. CASE j \in ToSet(chain[y])
      <4>1. Target(j) = y /\ j \in KeysIn(changes, "sending") /\ j \in DOMAIN made
        BY <1>16, <3>1 DEF IInv, InLine
      <4>2. j \notin past
        <5>1. KeysIn(changes, "lost") \cap KeysIn(changes, "sending") = {}
          BY Parts
        <5> QED
          BY <1>7, <4>1, <5>1
      <4>3. j \in KeysIn(d, "sending")
        BY <1>10, <4>1, <4>2
      <4>4. j \in KeysIn(changes', "sending")
        BY <1>13, <4>3
      <4>5. Target(j)' = y
        BY <1>3, <4>1
      <4> QED
        BY <4>4, <4>5
    <3>2. CASE j = k /\ y = z
      BY <1>3, <1>6, <1>13, <3>2
    <3> QED
      BY <1>17, <3>1, <3>2
  <2>2. ASSUME NEW j \in Keys, request[j] # "none"
        PROVE  \E y \in Targets : Target(j)' = y /\ chain'[y] # <<>> /\ Head(chain'[y]) = j
    <3>1. PICK y \in Targets : Target(j) = y /\ chain[y] # <<>> /\ Head(chain[y]) = j
      BY <2>2 DEF IInv, InLine
    <3>2. j \in DOMAIN made
      BY <2>2 DEF IInv, OnlyMade
    <3> QED
      BY <1>3, <1>17, <3>1, <3>2
  <2> QED
    BY <1>1, <1>17, <2>1, <2>2 DEF InLine, KeysIn
<1>24. DoneStays(request, told)'
  <2>1. ASSUME NEW j \in Keys, j \in DOMAIN made, ForGood(j) PROVE ForGood(j)'
    BY <1>1, <1>2, <1>3, <2>1 DEF ForGood, Live, Now
  <2>2. /\ \A j \in told.done : j \in Keys /\ j \in DOMAIN made /\ ForGood(j)
        /\ \A j \in Keys : request[j] = "gone" => j \in DOMAIN made /\ ForGood(j)
        /\ \A j \in Keys : request[j] = "ok" => key[j] = "stored"
    <3>1. told.done \subseteq Keys
      BY Parts
    <3> QED
      BY <3>1 DEF IInv, OnlyMade, DoneStays
  <2>3. \A j \in told.done : ForGood(j)'
    BY <2>1, <2>2
  <2>4. \A j \in Keys : request[j] = "gone" => ForGood(j)'
    BY <2>1, <2>2
  <2> QED
    BY <1>1, <2>2, <2>3, <2>4 DEF DoneStays
<1>25. SyncLinesUp(changes, copy, sync, told)'
  <2>1. sync.at = "back" => Covers(changes', sync.answer, told)
    BY <1>12, <1>13 DEF Covers
  <2>2. SyncLinesUp(changes', copy', sync', told')
    BY <1>1, <2>1 DEF IInv, SyncLinesUp
  <2> QED
    BY <1>1, <2>2 DEF SyncLinesUp, Covers, KeysIn
<1>26. \A j \in Keys : EntriesOf(j) # {} => (IsAdd(j)' <=> IsAdd(j))
  <2>1. \A j \in Keys : EntriesOf(j) # {} => j \in DOMAIN made
    BY DEF IInv, OnlyMade, DoneOnce
  <2> QED
    BY <1>3, <2>1
<1>27. \A b \in ToSet(changes') : b.key \in Keys
  BY <1>13, KeysTyped DEF Change
<1>28. \A b \in ToSet(disk'.changes) : b.key \in Keys
  BY <1>15, KeysTyped DEF Change
<1>29. Fine(changes, copy, told)'
  <2>1. OneEach(changes, told)' /\ (copy # 0 => Covers(changes, copy, told))'
    BY <1>1, <1>14 DEF Fine, OneEach, Covers, KeysIn
  <2>2. ASSUME NEW b \in ToSet(changes'), IsAdd(b.key)', b.state \in {"sending", "lost"}, InCopy(b.key, copy)'
        PROVE  b.tries >= GiveUpAfter \/ b.key \in told'.refused
    <3>1. InCopy(b.key, copy')
      BY <1>1, <2>2 DEF InCopy, EntriesOf, Live
    <3>2. EntriesOf(b.key) # {}
      BY <3>1 DEF InCopy
    <3>3. IsAdd(b.key)
      BY <1>26, <1>27, <2>2, <3>2
    <3> QED
      BY <1>14, <2>2, <3>1, <3>3 DEF Fine, NoneTwice
  <2>3. NoneTwice(changes, copy, told)'
    BY <2>2 DEF NoneTwice
  <2> QED
    BY <2>1, <2>3 DEF Fine
<1>30. Fine(disk.changes, disk.copy, told)'
  <2>1. OneEach(disk.changes, told)' /\ (disk.copy # 0 => Covers(disk.changes, disk.copy, told))'
    BY <1>1, <1>15 DEF Fine, OneEach, Covers, KeysIn
  <2>2. ASSUME NEW b \in ToSet(disk'.changes), IsAdd(b.key)', b.state \in {"sending", "lost"}, InCopy(b.key, disk.copy)'
        PROVE  b.tries >= GiveUpAfter \/ b.key \in told'.refused
    <3>1. InCopy(b.key, disk'.copy)
      BY <1>1, <2>2 DEF InCopy, EntriesOf, Live
    <3>2. EntriesOf(b.key) # {}
      BY <3>1 DEF InCopy
    <3>3. IsAdd(b.key)
      BY <1>26, <1>28, <2>2, <3>2
    <3> QED
      BY <1>15, <2>2, <3>1, <3>3 DEF Fine, NoneTwice
  <2>3. NoneTwice(disk.changes, disk.copy, told)'
    BY <2>2 DEF NoneTwice
  <2> QED
    BY <2>1, <2>3 DEF Fine
<1>31. NoneLost(changes, disk.changes, told)'
  <2>1. ASSUME NEW j \in DOMAIN made, Accounted(j, told) PROVE Accounted(j, told)'
    BY <1>1, <1>2, <1>3, <2>1 DEF Accounted, Newer, EntriesOf
  <2>2. ASSUME NEW j \in DOMAIN made, j \in past PROVE Accounted(j, told)'
    <3>1. k > j /\ ~IsAdd(k)' /\ ~IsAdd(j)' /\ made'[k].of = made'[j].of /\ k \in DOMAIN made'
      BY <1>2, <1>3, <1>8, <2>2 DEF e
    <3> QED
      BY <3>1 DEF Accounted, Newer, IsAdd, Kind
  <2>3. ASSUME NEW j \in DOMAIN made, j \notin past
        PROVE  Accounted(j, told)' \/ (j \in KeysOf(changes') /\ j \in KeysOf(disk'.changes))
    BY <1>10, <1>13, <1>15, <2>1, <2>3 DEF IInv, NoneLost
  <2>4. k \in KeysOf(changes') /\ k \in KeysOf(disk'.changes)
    BY <1>13, <1>15
  <2>5. \A j \in DOMAIN made' : Accounted(j, told)' \/ (j \in KeysOf(changes') /\ j \in KeysOf(disk'.changes))
    BY <1>2, <2>2, <2>3, <2>4
  <2> QED
    BY <2>5 DEF NoneLost, KeysOf
<1> QED
  BY <1>19, <1>20, <1>21, <1>22, <1>23, <1>24, <1>25, <1>29, <1>30, <1>31 DEF IInv

-----------------------------------------------------------------------------
(* The invariant holds.                                                    *)

LEMMA InitHolds == Init => IInv
<1> SUFFICES ASSUME Init PROVE IInv
  OBVIOUS
<1> DEFINE e == [kind |-> "add", key |-> Elsewhere, of |-> 1]
<1>1. /\ log = <<e>> /\ key = [k \in Keys |-> "free"] /\ request = [k \in Keys |-> "none"] /\ late = {}
      /\ made = <<>> /\ changes = <<>> /\ chain = [t \in Targets |-> <<>>]
      /\ sync = NoSync /\ again = FALSE /\ copy = 1 /\ disk = [changes |-> <<>>, copy |-> 1]
      /\ told = [done |-> {}, refused |-> {}]
  BY DEF Init
<1>2. /\ told.done = {} /\ told.refused = {} /\ disk.changes = <<>> /\ disk.copy = 1
      /\ sync.at = "idle" /\ sync.after = {}
  BY <1>1 DEF NoSync
<1>3. DOMAIN log = {1} /\ Len(log) = 1 /\ log[1] = e /\ \A i \in DOMAIN log : log[i].key = 0
  BY <1>1 DEF Elsewhere
<1>4. /\ \A T : <<>> \in Seq(T)
      /\ DOMAIN <<>> = {}
  OBVIOUS
<1>5. ToSet(<<>>) = {} /\ Once(<<>>) /\ KeysOf(<<>>) = {} /\ \A s : KeysIn(<<>>, s) = {}
  BY <1>4 DEF ToSet, Once, KeysOf, KeysIn
<1>6. \A k \in Keys : k # 0 /\ EntriesOf(k) = {}
  BY <1>3, SyncAssumption DEF Keys, EntriesOf
<1>7. TypeOK
  <2>1. log \in Seq([kind: {"add", "edit", "delete"}, key: Keys \cup {Elsewhere}, of: Nat])
    <3>1. e \in [kind: {"add", "edit", "delete"}, key: Keys \cup {Elsewhere}, of: Nat]
      OBVIOUS
    <3>2. \A T : e \in T => <<e>> \in Seq(T)
      OBVIOUS
    <3> QED
      BY <1>1, <3>1, <3>2
  <2>2. 0 \in 0..Now /\ 1 \in 0..Now
    BY <1>3 DEF Now
  <2>3. sync \in [at: {"idle", "out", "back"}, after: SUBSET Keys, answer: 0 .. Now]
    BY <1>1, <2>2 DEF NoSync
  <2>4. disk \in [changes: Seq(Change), copy: 0 .. Now]
    BY <1>1, <1>4, <2>2
  <2>5. chain \in [Targets -> Seq(Keys)] /\ made \in Seq([kind: {"add", "edit", "delete"}, of: Nat])
        /\ changes \in Seq(Change)
    BY <1>1, <1>4
  <2>6. key \in [Keys -> {"free", "claimed", "executed", "stored", "stuck"}]
        /\ request \in [Keys -> {"none", "out", "working", "ok", "busy", "no", "gone"}] /\ late \subseteq Keys
    BY <1>1
  <2>7. again \in BOOLEAN /\ copy \in 0..Now /\ told \in [done: SUBSET Keys, refused: SUBSET Keys]
    BY <1>1, <2>2
  <2> QED
    BY <2>1, <2>3, <2>4, <2>5, <2>6, <2>7 DEF TypeOK
<1>8. DOMAIN made = {}
  BY <1>1, <1>4
<1>9. MadeOf
  BY <1>8 DEF MadeOf
<1>10. DoneOnce
  BY <1>3, <1>6 DEF DoneOnce
<1>11. OnlyMade(changes, disk.changes, chain, request, late, told)
  BY <1>1, <1>2, <1>5 DEF OnlyMade
<1>12. InLine(changes, chain, request)
  BY <1>1, <1>5 DEF InLine
<1>13. DoneStays(request, told)
  BY <1>1, <1>2 DEF DoneStays
<1>14. SyncLinesUp(changes, copy, sync, told)
  BY <1>2 DEF SyncLinesUp
<1>15. Fine(changes, copy, told) /\ Fine(disk.changes, disk.copy, told)
  BY <1>1, <1>2, <1>5 DEF Fine, OneEach, NoneTwice, Covers
<1>16. NoneLost(changes, disk.changes, told)
  BY <1>8 DEF NoneLost
<1> QED
  BY <1>7, <1>9, <1>10, <1>11, <1>12, <1>13, <1>14, <1>15, <1>16 DEF IInv

LEMMA PersonKeeps == ASSUME IInv, Person PROVE IInv'
<1>1. \A kind \in {"add", "edit", "delete"}, x \in Nat : Push(kind, x) => Len(made) + 1 \in Keys
  BY DEF Push
<1>2. \A x \in DOMAIN log : x \in Nat
  BY DEF IInv, TypeOK
<1>3. CASE AddExpense
  <2>1. Push("add", 0) /\ Len(made) + 1 \in Keys
    BY <1>1, <1>3 DEF AddExpense
  <2> QED
    BY <2>1, PushKeeps
<1>4. ASSUME NEW x \in DOMAIN log, EditExpense(x) PROVE IInv'
  <2>1. Push("edit", x) /\ Len(made) + 1 \in Keys /\ x \in Nat
    BY <1>1, <1>2, <1>4 DEF EditExpense
  <2> QED
    BY <2>1, PushKeeps
<1>5. ASSUME NEW x \in DOMAIN log, DeleteExpense(x) PROVE IInv'
  <2>1. Push("delete", x) /\ Len(made) + 1 \in Keys /\ x \in Nat
    BY <1>1, <1>2, <1>5 DEF DeleteExpense
  <2> QED
    BY <2>1, PushKeeps
<1>6. ASSUME NEW k \in Keys, Retry(k) \/ Discard(k) PROVE IInv'
  BY <1>6, RetryKeeps, DiscardKeeps
<1> QED
  BY <1>3, <1>4, <1>5, <1>6 DEF Person

\* A step that changes nothing.
LEMMA StutterKeeps == ASSUME IInv, UNCHANGED vars PROVE IInv'
<1>1. UNCHANGED <<server, request, late, made, changes, chain, copy, disk, kills, told>> /\ sync' = sync /\ again' = again
  BY DEF vars, server
<1>2. SyncLinesUp(changes, copy, sync, told)
  BY DEF IInv
<1> QED
  BY <1>1, <1>2, Parts, SyncStep

LEMMA StepKeeps == IInv /\ [Next]_vars => IInv'
<1> SUFFICES ASSUME IInv, [Next]_vars PROVE IInv'
  OBVIOUS
<1>1. CASE Person
  BY <1>1, PersonKeeps
<1>2. ASSUME NEW k \in Keys, Begin(k) \/ Arrive(k) \/ ArriveLate(k) PROVE IInv'
  BY <1>2, BeginKeeps, ArriveKeeps, ArriveLateKeeps
<1>3. ASSUME NEW k \in Keys, Execute(k) \/ Store(k) \/ Refuse(k) PROVE IInv'
  BY <1>3, ExecuteKeeps, StoreKeeps, RefuseKeeps
<1>4. ASSUME NEW k \in Keys, Answered(k) \/ Refused(k) \/ Lost(k) PROVE IInv'
  BY <1>4, AnsweredKeeps, RefusedKeeps, LostKeeps
<1>5. ASSUME NEW kind \in {"edit", "delete"}, NEW x \in DOMAIN log, Other(kind, x) PROVE IInv'
  BY <1>5, OtherKeeps
<1>6. CASE Poll \/ ServeSync \/ SyncLost \/ SetAside
  BY <1>6, PollKeeps, ServeSyncKeeps, SyncLostKeeps, SetAsideKeeps
<1>7. CASE UseSome
  BY <1>7, UseAnswerKeeps DEF UseSome
<1>8. CASE SaveCopy \/ Kill \/ Crash
  BY <1>8, SaveCopyKeeps, KillKeeps, CrashKeeps
<1>9. CASE UNCHANGED vars
  BY <1>9, StutterKeeps
<1> QED
  BY <1>1, <1>2, <1>3, <1>4, <1>5, <1>6, <1>7, <1>8, <1>9 DEF Next

\* The invariant is inductive: every step of the phone, the server and the syncs
\* between them keeps all its parts.
THEOREM Inductive == Spec => []IInv
BY InitHolds, StepKeeps, PTL DEF Spec

\* The server never does a change twice, however often its request is sent, answered
\* into nothing, or arrives after it was given up (middleware.ts, changes.ts:24).
THEOREM DoneAtMostOnce == Spec => []NeverTwice
<1>1. IInv => NeverTwice
  <2> SUFFICES ASSUME IInv, NEW k \in Keys PROVE Cardinality(EntriesOf(k)) <= 1
    BY DEF NeverTwice
  <2>1. k # Elsewhere
    BY SyncAssumption DEF Keys, Elsewhere
  <2>2. \A i, j \in EntriesOf(k) : i = j
    BY <2>1 DEF IInv, DoneOnce, EntriesOf
  <2>3. CASE EntriesOf(k) = {}
    BY <2>3, FS_EmptySet
  <2>4. CASE EntriesOf(k) # {}
    <3>1. PICK i : i \in EntriesOf(k)
      BY <2>4
    <3>2. EntriesOf(k) = {i}
      BY <2>2, <3>1
    <3> QED
      BY <3>2, FS_Singleton
  <2> QED
    BY <2>3, <2>4
<1> QED
  BY <1>1, Inductive, PTL

\* The screen counts right: what was answered is laid over the copy or in it, and an
\* add that waits is not in it, until it has been left to the person (rules 1 and 2 of
\* AppData.ts).
THEOREM ScreenCountsRight == Spec => []CountedRight
<1>1. IInv => CountedRight
  <2> SUFFICES ASSUME IInv PROVE CountedRight
    OBVIOUS
  <2>1. TypeOK /\ OneEach(changes, told) /\ NoneTwice(changes, copy, told) /\ (copy # 0 => Covers(changes, copy, told))
    BY Parts
  <2>2. OnceUntilUnsaved
    <3> SUFFICES ASSUME NEW c \in ToSet(changes), ShownTwice(c.key)
                 PROVE  c.tries >= GiveUpAfter \/ c.key \in told.refused
      BY DEF OnceUntilUnsaved
    <3>1. /\ IsAdd(c.key) /\ InCopy(c.key, copy)
          /\ c.key \in KeysIn(changes, "sending") \cup KeysIn(changes, "lost")
      BY DEF ShownTwice, InCopy
    <3>2. c.state \in {"sending", "lost"}
      BY <2>1, <3>1 DEF OneEach, KeysIn
    <3> QED
      BY <2>1, <3>1, <3>2 DEF NoneTwice
  <2>3. AnsweredIsShown
    BY <2>1 DEF AnsweredIsShown, Covers
  <2> QED
    BY <2>1, <2>2, <2>3 DEF CountedRight
<1> QED
  BY <1>1, Inductive, PTL

\* No change is lost without a word: it was done, waits in the app and on the device,
\* was told of, or gave way to a newer one (AppData.ts push, hydrate).
THEOREM NoChangeIsLost == Spec => []NothingLost
<1>1. IInv => NothingLost
  BY DEF IInv, NoneLost, Accounted, Newer, NothingLost, HasChange, KeysOf
<1> QED
  BY <1>1, Inductive, PTL
=============================================================================
