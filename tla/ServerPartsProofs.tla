--------------------------- MODULE ServerPartsProofs ---------------------------
(***************************************************************************)
(* TLAPS proofs about the parts of ServerParts, for any constants they may *)
(* have.  Each part has its inductive invariant (Inv of its module, KeyInv *)
(* for SignIn, whose lemmas are used through the instance), shown to hold  *)
(* at the start and to be kept by each of its steps; from these follow the *)
(* properties of all of them, of which a behaviour takes one.              *)
(***************************************************************************)
EXTENDS ServerParts, FiniteSetTheorems, SequenceTheorems, TLAPS

-----------------------------------------------------------------------------
(* Sets and numbers.                                                       *)

\* How many there are is the same in every part.
LEMMA SameSize ==
    /\ \A x : N!Cardinality(x) = Cardinality(x)
    /\ \A x : U!Cardinality(x) = Cardinality(x)
    /\ \A x : Q!Cardinality(x) = Cardinality(x)
    /\ \A x : O!Cardinality(x) = Cardinality(x)
    /\ \A x : V!Cardinality(x) = Cardinality(x)
    /\ \A x : F!Cardinality(x) = Cardinality(x)
BY DEF Cardinality, N!Cardinality, U!Cardinality, Q!Cardinality, O!Cardinality, V!Cardinality,
       F!Cardinality

LEMMA Interval ==
    ASSUME NEW a \in Nat, NEW b \in Nat
    PROVE  IsFiniteSet(a..b) /\ (a <= b => Cardinality(a..b) = b - a + 1)
<1>1. a \in Int /\ b \in Int
  OBVIOUS
<1>2. IsFiniteSet(a..b) /\ Cardinality(a..b) = IF a > b THEN 0 ELSE b - a + 1
  BY <1>1, FS_Interval
<1>3. a <= b => ~(a > b)
  BY <1>1
<1> QED
  BY <1>2, <1>3

\* A set of natural numbers has a least one.
LEMMA LeastOf ==
    ASSUME NEW T, T \subseteq Nat, T # {}
    PROVE  \E n \in T : \A k \in T : n <= k
<1> DEFINE Less == OpToRel(<, Nat)
<1>1. \A x, y \in Nat : x < y => <<x, y>> \in Less
  BY DEF OpToRel
<1>2. IsWellFoundedOn(Less, Nat)
  BY NatLessThanWellFounded
<1> HIDE DEF Less
<1>3. PICK n \in T : \A k \in T : ~(<<k, n>> \in Less)
  BY <1>2, WFMin
<1>4. ASSUME NEW k \in T PROVE n <= k
  <2>1. k \in Nat /\ n \in Nat /\ ~(<<k, n>> \in Less)
    BY <1>3
  <2>2. ~(k < n)
    BY <1>1, <2>1
  <2> QED
    BY <2>1, <2>2
<1> QED
  BY <1>4

-----------------------------------------------------------------------------
(* Signing in with a Nostr key.                                            *)

LEMMA NostrInit ==
    ASSUME N!NostrSignInAssumption, N!Init
    PROVE  N!Inv
BY DEF N!Init, N!Inv, N!TypeOK, N!ChallengeOnce, N!UnusedYet, N!LinkedOnce

\* A challenge that can be used was not, so it is used once.
LEMMA NostrUse ==
    ASSUME N!NostrSignInAssumption, N!Inv, NEW c \in Challenges, c \in challenges, N!TakeChallenge(c),
           N!Used(c), UNCHANGED <<late, handedOut, proofs>>
    PROVE  N!ChallengeOnce' /\ N!UnusedYet' /\ uses' \in [Challenges -> Nat]
           /\ challenges' \subseteq handedOut'
<1>1. uses[c] = 0
  BY DEF N!Inv, N!UnusedYet
<1> QED
  BY <1>1 DEF N!Inv, N!TypeOK, N!ChallengeOnce, N!UnusedYet, N!TakeChallenge, N!Used

LEMMA NostrStep ==
    ASSUME N!NostrSignInAssumption, N!Inv, [N!Next]_N!vars
    PROVE  N!Inv'
<1> USE DEF N!NostrSignInAssumption
<1>1. ASSUME NEW c \in Challenges, N!NewChallenge(c) PROVE N!Inv'
  BY <1>1 DEF N!NewChallenge, N!Inv, N!TypeOK, N!ChallengeOnce, N!UnusedYet, N!LinkedOnce
<1>2. ASSUME NEW c \in Challenges, N!GetsLate(c) PROVE N!Inv'
  BY <1>2 DEF N!GetsLate, N!Inv, N!TypeOK, N!ChallengeOnce, N!UnusedYet, N!LinkedOnce
<1>3. ASSUME NEW proof \in N!Proof, N!Sign(proof) PROVE N!Inv'
  BY <1>3 DEF N!Sign, N!Inv, N!TypeOK, N!ChallengeOnce, N!UnusedYet, N!LinkedOnce
<1>4. ASSUME NEW proof \in proofs, N!SignInWithNostr(proof) PROVE N!Inv'
  <2>1. proof.challenge \in Challenges /\ proof.challenge \in challenges
    BY <1>4 DEF N!SignInWithNostr, N!Holds, N!Inv, N!TypeOK, N!Proof
  <2>2. N!ChallengeOnce' /\ N!UnusedYet' /\ uses' \in [Challenges -> Nat]
        /\ challenges' \subseteq handedOut'
    BY <1>4, <2>1, NostrUse DEF N!SignInWithNostr
  <2> QED
    BY <1>4, <2>2 DEF N!SignInWithNostr, N!Inv, N!TypeOK, N!LinkedOnce
<1>5. ASSUME NEW account \in Accounts, NEW proof \in proofs, N!LinkNostr(account, proof)
      PROVE  N!Inv'
  <2>1. /\ proof.challenge \in Challenges /\ proof.challenge \in challenges
        /\ proof.signer \in Signers
    BY <1>5 DEF N!LinkNostr, N!Holds, N!Inv, N!TypeOK, N!Proof
  <2>2. N!ChallengeOnce' /\ N!UnusedYet' /\ uses' \in [Challenges -> Nat]
        /\ challenges' \subseteq handedOut'
    BY <1>5, <2>1, NostrUse DEF N!LinkNostr
  <2>3. N!LinkedOnce'
    <3>1. \A a \in Accounts : linked[a] = proof.signer => a = account
      BY <1>5 DEF N!LinkNostr, N!FreeFor, N!OpenedBy
    <3> QED
      BY <1>5, <2>1, <3>1 DEF N!LinkNostr, N!LinkedOnce, N!Inv, N!TypeOK
  <2> QED
    BY <1>5, <2>1, <2>2, <2>3 DEF N!LinkNostr, N!Inv, N!TypeOK
<1>6. ASSUME NEW account \in Accounts, N!UnlinkNostr(account) PROVE N!Inv'
  BY <1>6 DEF N!UnlinkNostr, N!Inv, N!TypeOK, N!ChallengeOnce, N!UnusedYet, N!LinkedOnce
<1>7. CASE UNCHANGED N!vars
  BY <1>7 DEF N!vars, N!Inv, N!TypeOK, N!ChallengeOnce, N!UnusedYet, N!LinkedOnce
<1> QED
  BY <1>1, <1>2, <1>3, <1>4, <1>5, <1>6, <1>7 DEF N!Next

LEMMA NostrOpensOne ==
    ASSUME N!NostrSignInAssumption, N!Inv
    PROVE  N!OneAccountPerNostr
<1> SUFFICES ASSUME NEW signer \in Signers PROVE Cardinality(N!OpenedBy(signer)) <= 1
  BY SameSize DEF N!OneAccountPerNostr
<1>1. CASE N!OpenedBy(signer) = {}
  BY <1>1, FS_EmptySet
<1>2. CASE N!OpenedBy(signer) # {}
  <2> PICK a : a \in N!OpenedBy(signer)
    BY <1>2
  <2>1. N!OpenedBy(signer) = {a}
    BY DEF N!OpenedBy, N!Inv, N!LinkedOnce, N!NostrSignInAssumption
  <2>2. Cardinality({a}) = 1
    BY FS_Singleton
  <2>3. Cardinality(N!OpenedBy(signer)) = Cardinality({a})
    BY <2>1
  <2> QED
    BY <2>2, <2>3
<1> QED
  BY <1>1, <1>2

-----------------------------------------------------------------------------
(* Receiving: the accounts that are a member, in order.                    *)

\* One more, or one fewer, of them.
LEMMA ReceivingAppends ==
    ASSUME NEW K, NEW s \in Seq(K), NEW a \in K, a \notin R!ToSet(s), R!IsInjective(s)
    PROVE  /\ Append(s, a) \in Seq(K) /\ R!IsInjective(Append(s, a))
           /\ R!ToSet(Append(s, a)) = R!ToSet(s) \cup {a} /\ Append(s, a) # <<>>
<1>1. /\ Len(s) \in Nat /\ DOMAIN s = 1..Len(s)
      /\ Append(s, a) \in Seq(K) /\ DOMAIN Append(s, a) = 1..(Len(s) + 1)
      /\ \A i \in 1..Len(s) : Append(s, a)[i] = s[i]
      /\ Append(s, a)[Len(s) + 1] = a /\ Append(s, a) # <<>>
  OBVIOUS
<1>2. ASSUME NEW i \in 1..(Len(s) + 1), i # Len(s) + 1
      PROVE  i \in 1..Len(s)
  BY <1>1, <1>2
<1>3. Len(s) + 1 \in 1..(Len(s) + 1) /\ 1..Len(s) \subseteq 1..(Len(s) + 1)
  BY <1>1
<1> DEFINE t == Append(s, a)  L == Len(s)
<1>4. \A i \in 1..L : s[i] # a
  BY <1>1 DEF R!ToSet
<1> HIDE DEF t, L
<1>5. R!IsInjective(t)
  BY <1>1, <1>2, <1>4 DEF R!IsInjective, t, L
<1>6. R!ToSet(t) = R!ToSet(s) \cup {a}
  BY <1>1, <1>2, <1>3 DEF R!ToSet, t, L
<1> QED
  BY <1>1, <1>5, <1>6 DEF t

LEMMA ReceivingRemoves ==
    ASSUME NEW K, NEW s \in Seq(K), NEW n \in DOMAIN s, R!IsInjective(s)
    PROVE  /\ R!RemoveAt(s, n) \in Seq(K) /\ R!IsInjective(R!RemoveAt(s, n))
           /\ R!ToSet(R!RemoveAt(s, n)) = R!ToSet(s) \ {s[n]}
           /\ Len(R!RemoveAt(s, n)) = Len(s) - 1
<1>1. s \in Seq(K) /\ n \in 1..Len(s) /\ Len(s) \in Nat /\ DOMAIN s = 1..Len(s)
  OBVIOUS
<1> DEFINE a == SubSeq(s, 1, n - 1)  b == SubSeq(s, n + 1, Len(s))
<1>2. /\ a \in Seq(K) /\ Len(a) = n - 1 /\ \A i \in 1..(n - 1) : a[i] = s[i]
      /\ b \in Seq(K) /\ Len(b) = Len(s) - n
      /\ \A i \in 1..(Len(s) - n) : b[i] = s[n + i]
  BY <1>1
<1>3. R!RemoveAt(s, n) = a \o b
  BY DEF R!RemoveAt
<1> HIDE DEF a, b
<1> DEFINE t == a \o b
<1>4. /\ t \in Seq(K) /\ Len(t) = Len(s) - 1 /\ DOMAIN t = 1..(Len(s) - 1)
      /\ \A i \in 1..(Len(s) - 1) : t[i] = s[IF i < n THEN i ELSE i + 1]
  <2>1. /\ t \in Seq(K) /\ Len(t) = Len(a) + Len(b)
        /\ \A i \in 1..(Len(a) + Len(b)) :
             t[i] = IF i <= Len(a) THEN a[i] ELSE b[i - Len(a)]
    BY <1>2, ConcatProperties
  <2>2. Len(a) + Len(b) = Len(s) - 1
    BY <1>1, <1>2
  <2>3. ASSUME NEW i \in 1..(Len(s) - 1)
        PROVE  t[i] = s[IF i < n THEN i ELSE i + 1]
    <3>1. CASE i < n
      <4>1. i \in 1..(n - 1) /\ i <= Len(a) /\ i \in 1..(Len(a) + Len(b))
        BY <1>1, <1>2, <2>2, <3>1
      <4>2. t[i] = a[i] /\ a[i] = s[i]
        BY <1>2, <2>1, <4>1
      <4> QED
        BY <3>1, <4>2
    <3>2. CASE ~(i < n)
      <4>1. ~(i <= Len(a)) /\ i - (n - 1) \in 1..(Len(s) - n) /\ n + (i - (n - 1)) = i + 1
        BY <1>1, <1>2, <3>2
      <4>2. t[i] = b[i - (n - 1)] /\ b[i - (n - 1)] = s[n + (i - (n - 1))]
        BY <1>2, <2>1, <2>2, <4>1
      <4> QED
        BY <3>2, <4>1, <4>2
    <3> QED
      BY <3>1, <3>2
  <2>4. DOMAIN t = 1..Len(t)
    BY <2>1
  <2> HIDE DEF t
  <2> QED
    BY <2>1, <2>2, <2>3, <2>4
<1> HIDE DEF t
<1>5. R!IsInjective(t)
  <2> SUFFICES ASSUME NEW i \in 1..(Len(s) - 1), NEW j \in 1..(Len(s) - 1), t[i] = t[j]
               PROVE  i = j
    BY <1>4 DEF R!IsInjective
  <2> DEFINE k(x) == IF x < n THEN x ELSE x + 1
  <2>1. k(i) \in 1..Len(s) /\ k(j) \in 1..Len(s)
    BY <1>1
  <2>2. s[k(i)] = s[k(j)]
    BY <1>4
  <2>3. k(i) = k(j)
    <3> HIDE DEF k
    <3> QED
      BY <1>1, <2>1, <2>2 DEF R!IsInjective
  <2> QED
    BY <1>1, <2>3
<1>6. R!ToSet(t) = R!ToSet(s) \ {s[n]}
  <2>1. ASSUME NEW i \in 1..(Len(s) - 1)
        PROVE  t[i] \in R!ToSet(s) /\ t[i] # s[n]
    <3> DEFINE k == IF i < n THEN i ELSE i + 1
    <3>1. k \in 1..Len(s) /\ k # n
      BY <1>1
    <3>2. t[i] = s[k]
      BY <1>4
    <3> HIDE DEF k
    <3> QED
      BY <1>1, <3>1, <3>2 DEF R!ToSet, R!IsInjective
  <2>2. ASSUME NEW k \in 1..Len(s), k # n
        PROVE  \E i \in 1..(Len(s) - 1) : t[i] = s[k]
    <3>1. CASE k < n
      <4>1. k \in 1..(Len(s) - 1)
        BY <1>1, <3>1
      <4> QED
        BY <1>4, <3>1, <4>1
    <3>2. CASE k > n
      <4>1. k - 1 \in 1..(Len(s) - 1) /\ ~(k - 1 < n) /\ (k - 1) + 1 = k
        BY <1>1, <3>2
      <4>2. t[k - 1] = s[(k - 1) + 1]
        BY <1>4, <4>1
      <4> QED
        BY <4>1, <4>2
    <3>3. k < n \/ k > n
      BY <1>1, <2>2
    <3> QED
      BY <3>1, <3>2, <3>3
  <2>3. R!ToSet(t) \subseteq R!ToSet(s) \ {s[n]}
    BY <1>4, <2>1 DEF R!ToSet
  <2>4. ASSUME NEW k \in 1..Len(s), s[k] # s[n]
        PROVE  s[k] \in R!ToSet(t)
    <3>1. k # n
      BY <2>4
    <3>2. PICK i \in 1..(Len(s) - 1) : t[i] = s[k]
      BY <2>2, <3>1
    <3> QED
      BY <1>4, <3>2 DEF R!ToSet
  <2> QED
    BY <1>1, <2>3, <2>4 DEF R!ToSet
<1> QED
  BY <1>3, <1>4, <1>5, <1>6 DEF t

\* Only which accounts are a member matters for most of what follows.
LEMMA ReceivingWithout ==
    ASSUME NEW a \in Accounts, NEW m \in Members, heldBy \in [Members -> Seq(Accounts)],
           R!IsInjective(heldBy[m])
    PROVE  /\ R!Without(a, m) \in Seq(Accounts) /\ R!IsInjective(R!Without(a, m))
           /\ R!ToSet(R!Without(a, m)) = R!ToSet(heldBy[m]) \ {a}
           /\ R!Without(a, m) = <<>> <=> R!ToSet(heldBy[m]) \subseteq {a}
           /\ R!Holds(a, m) => Len(R!Without(a, m)) = Len(heldBy[m]) - 1
<1>1. heldBy[m] \in Seq(Accounts)
  OBVIOUS
<1>2. ASSUME R!Holds(a, m)
      PROVE  R!Place(a, m) \in DOMAIN heldBy[m] /\ heldBy[m][R!Place(a, m)] = a
  <2>1. \E n \in DOMAIN heldBy[m] : heldBy[m][n] = a
    BY <1>2 DEF R!Holds, R!ToSet
  <2> QED
    BY <2>1, Zenon DEF R!Place
<1> DEFINE w == R!Without(a, m)
<1>3. /\ w \in Seq(Accounts) /\ R!IsInjective(w)
      /\ R!ToSet(w) = R!ToSet(heldBy[m]) \ {a}
      /\ R!Holds(a, m) => Len(w) = Len(heldBy[m]) - 1
  <2>1. CASE R!Holds(a, m)
    <3>1. w = R!RemoveAt(heldBy[m], R!Place(a, m))
      BY <2>1 DEF R!Without
    <3> HIDE DEF w
    <3> QED
      BY <1>1, <1>2, <2>1, <3>1, ReceivingRemoves
  <2>2. CASE ~R!Holds(a, m)
    <3>1. w = heldBy[m]
      BY <2>2 DEF R!Without
    <3> HIDE DEF w
    <3> QED
      BY <1>1, <2>2, <3>1 DEF R!Holds
  <2> QED
    BY <2>1, <2>2
<1> HIDE DEF w
<1>4. w = <<>> <=> R!ToSet(w) = {}
  <2>1. w \in Seq(Accounts) /\ DOMAIN w = 1..Len(w) /\ Len(w) \in Nat
    BY <1>3
  <2>2. w # <<>> => 1 \in DOMAIN w
    BY <2>1
  <2>3. w = <<>> => DOMAIN w = {}
    OBVIOUS
  <2> QED
    BY <2>2, <2>3 DEF R!ToSet
<1> QED
  BY <1>3, <1>4 DEF w

\* The first of them that has something does have it.
LEMMA ReceivingFirst ==
    ASSUME NEW m \in Members, heldBy \in [Members -> Seq(Accounts)], NEW has,
           R!ToSet(heldBy[m]) \cap has # {}
    PROVE  R!FirstWith(m, has) \in R!ToSet(heldBy[m]) \cap has
<1> DEFINE T == {n \in DOMAIN heldBy[m] : heldBy[m][n] \in has}
<1>1. heldBy[m] \in Seq(Accounts) /\ DOMAIN heldBy[m] \subseteq Nat
  OBVIOUS
<1>2. T # {} /\ T \subseteq Nat
  BY <1>1 DEF R!ToSet
<1>3. \E n \in T : \A k \in T : n <= k
  <2> HIDE DEF T
  <2> QED
    BY <1>2, LeastOf
<1>4. R!Min(T) \in T
  <2> HIDE DEF T
  <2> QED
    BY <1>3, Zenon DEF R!Min
<1> QED
  BY <1>4 DEF R!FirstWith, R!ToSet

LEMMA ReceivingSeq ==
    ASSUME NEW K, NEW T, NEW s \in Seq(K)
    PROVE  s \in Seq(T) <=> R!ToSet(s) \subseteq T
<1>1. s \in [1..Len(s) -> K] /\ Len(s) \in Nat
  OBVIOUS
<1>2. ASSUME R!ToSet(s) \subseteq T
      PROVE  s \in Seq(T)
  <2>1. \A i \in 1..Len(s) : s[i] \in T
    BY <1>1, <1>2 DEF R!ToSet
  <2>2. s \in [1..Len(s) -> T]
    BY <1>1, <2>1
  <2> QED
    BY <1>1, <2>2, SeqDef
<1>3. ASSUME s \in Seq(T)
      PROVE  R!ToSet(s) \subseteq T
  BY <1>3 DEF R!ToSet
<1> QED
  BY <1>2, <1>3

ReceivingTyped ==
    /\ alive \subseteq Accounts /\ there \subseteq Members /\ askingWallet \subseteq Accounts
    /\ heldBy \in [Members -> Seq(Accounts)]
    /\ \A m \in Members : R!ToSet(heldBy[m]) \subseteq alive /\ R!IsInjective(heldBy[m])
    /\ status \in [Members -> {"ghost", "joined", "nwc_linked"}]
    /\ wallets \subseteq alive /\ upiIds \subseteq alive /\ hidden \subseteq alive
    /\ connected \in [Accounts -> Wallets \cup {NoWallet}]
    /\ \A a \in Accounts : a \in wallets <=> connected[a] # NoWallet
    /\ choice \in [Members -> R!OnLink] /\ chosenBy \in [Members -> Accounts \cup {NoAccount}]
    /\ heldSince \in [Members -> SUBSET Accounts]
    /\ minter \in [Members -> Accounts \cup {NoAccount}]
    /\ linkOf \in [Members -> SUBSET (Accounts \cup {NoAccount})]
    /\ \A m \in Members : linkOf[m] \subseteq alive \cup {NoAccount}
    /\ changes \in 0..MaxChanges

\* One member, as a formula about who they are.
ReceivingIs(of, m) ==
    /\ m \in there =>
        /\ status[m] = "ghost" <=> of = {}
        /\ status[m] = "nwc_linked" <=> of \cap wallets # {}
    /\ m \notin there => of = {}
    /\ minter[m] # NoAccount => minter[m] \in wallets /\ minter[m] \in of
    /\ of \subseteq heldSince[m]
    /\ choice[m] # "follow" => chosenBy[m] \in heldSince[m]

LEMMA ReceivingGhost ==
    ASSUME NEW K, NEW s \in Seq(K)
    PROVE  s = <<>> <=> R!ToSet(s) = {}
<1>1. DOMAIN s = 1..Len(s) /\ Len(s) \in Nat
  OBVIOUS
<1>2. s # <<>> => 1 \in DOMAIN s
  BY <1>1
<1>3. s = <<>> => DOMAIN s = {}
  OBVIOUS
<1> QED
  BY <1>2, <1>3 DEF R!ToSet

LEMMA ReceivingParts ==
    R!Inv <=> ReceivingTyped /\ \A m \in Members : ReceivingIs(R!ToSet(heldBy[m]), m)
<1>1. ASSUME heldBy \in [Members -> Seq(Accounts)], NEW m \in Members
      PROVE  /\ heldBy[m] = <<>> <=> R!ToSet(heldBy[m]) = {}
             /\ heldBy[m] \in Seq(alive) <=> R!ToSet(heldBy[m]) \subseteq alive
  <2>1. heldBy[m] \in Seq(Accounts)
    BY <1>1
  <2> QED
    BY <2>1, ReceivingGhost, ReceivingSeq
<1>2. ASSUME R!Inv
      PROVE  ReceivingTyped /\ \A m \in Members : ReceivingIs(R!ToSet(heldBy[m]), m)
  <2>1. ReceivingTyped
    BY <1>1, <1>2 DEF R!Inv, R!TypeOK, ReceivingTyped
  <2>2. ASSUME NEW m \in Members
        PROVE  ReceivingIs(R!ToSet(heldBy[m]), m)
    <3>1. heldBy[m] = <<>> <=> R!ToSet(heldBy[m]) = {}
      BY <1>1, <2>1 DEF ReceivingTyped
    <3>2. minter[m] # NoAccount =>
            minter[m] \in wallets /\ minter[m] \in R!ToSet(heldBy[m]) /\ m \in there
      BY <1>2 DEF R!Inv, R!MinterStays, R!Holds
    <3>3. m \in there => /\ status[m] = "ghost" <=> heldBy[m] = <<>>
                         /\ status[m] = "nwc_linked" <=> R!ToSet(heldBy[m]) \cap wallets # {}
      BY <1>2 DEF R!Inv, R!LinkedMeansWallet, R!Ghost
    <3>4. /\ R!ToSet(heldBy[m]) \subseteq heldSince[m]
          /\ m \notin there => heldBy[m] = <<>>
          /\ choice[m] # "follow" => chosenBy[m] \in heldSince[m]
      BY <1>2 DEF R!Inv, R!Ghost
    <3> QED
      BY <3>1, <3>2, <3>3, <3>4 DEF ReceivingIs
  <2> QED
    BY <2>1, <2>2
<1>3. ASSUME ReceivingTyped, \A m \in Members : ReceivingIs(R!ToSet(heldBy[m]), m)
      PROVE  R!Inv
  <2>1. R!TypeOK
    BY <1>1, <1>3 DEF R!TypeOK, ReceivingTyped
  <2>2. R!LinkedMeansWallet
    BY <1>1, <1>3 DEF R!LinkedMeansWallet, R!Ghost, ReceivingIs, ReceivingTyped
  <2>3. R!MinterStays
    BY <1>3 DEF R!MinterStays, R!Holds, ReceivingIs, ReceivingTyped
  <2>4. R!ChoiceIsTheirs
    <3>1. \A m \in there : choice[m] # "follow" => chosenBy[m] \in heldSince[m]
      BY <1>3 DEF ReceivingIs, ReceivingTyped
    <3> QED
      BY <3>1, Zenon DEF R!ChoiceIsTheirs
  <2>5. /\ heldBy \in [Members -> Seq(Accounts)]
        /\ linkOf \in [Members -> SUBSET (Accounts \cup {NoAccount})]
    BY <1>3 DEF ReceivingTyped
  <2>6. \A m \in Members :
           /\ R!ToSet(heldBy[m]) \subseteq heldSince[m]
           /\ m \notin there => R!Ghost(m)
           /\ choice[m] # "follow" => chosenBy[m] \in heldSince[m]
    BY <1>1, <1>3 DEF R!Ghost, ReceivingIs, ReceivingTyped
  <2> QED
    BY <2>1, <2>2, <2>3, <2>4, <2>5, <2>6 DEF R!Inv
<1> QED
  BY <1>2, <1>3

LEMMA ReceivingInit ==
    ASSUME R!ReceivingAssumption, R!Init
    PROVE  R!Inv
<1>1. <<>> \in Seq(Accounts) /\ R!ToSet(<<>>) = {} /\ R!IsInjective(<<>>)
  BY DEF R!ToSet, R!IsInjective
<1>2. ReceivingTyped
  BY <1>1 DEF R!Init, R!ReceivingAssumption, ReceivingTyped, R!OnLink
<1>3. \A m \in Members : ReceivingIs(R!ToSet(heldBy[m]), m)
  BY <1>1 DEF R!Init, ReceivingIs
<1> QED
  BY <1>2, <1>3, ReceivingParts

\* Steps that leave the members as they are.
ReceivingPeople == UNCHANGED <<alive, there, heldBy, heldSince>>

LEMMA ReceivingStep ==
    ASSUME R!ReceivingAssumption, R!Inv, [R!Next]_(R!vars)
    PROVE  R!Inv' /\ R!LinksOutlive
<1> DEFINE Of(m) == R!ToSet(heldBy[m])
<1>1. ReceivingTyped /\ \A m \in Members : ReceivingIs(Of(m), m)
  BY ReceivingParts
<1>2. SUFFICES /\ ReceivingTyped' /\ R!LinksOutlive
               /\ \A m \in Members : ReceivingIs(R!ToSet(heldBy[m]), m)'
  <2>1. (R!Inv <=> ReceivingTyped /\ \A m \in Members : ReceivingIs(R!ToSet(heldBy[m]), m))'
    BY ReceivingParts, PTL
  <2> QED
    BY <1>2, <2>1
<1>3. NoAccount \notin Accounts /\ MaxChanges \in Nat
  BY DEF R!ReceivingAssumption
<1> HIDE DEF Of
<1>4. ASSUME NEW m \in Members
      PROVE  /\ heldBy[m] \in Seq(Accounts) /\ R!IsInjective(heldBy[m])
             /\ R!Ghost(m) <=> Of(m) = {}
             /\ \A a : R!Holds(a, m) <=> a \in Of(m)
             /\ ReceivingIs(Of(m), m)
  <2>1. heldBy[m] \in Seq(Accounts) /\ R!IsInjective(heldBy[m]) /\ ReceivingIs(Of(m), m)
    BY <1>1 DEF ReceivingTyped
  <2>2. heldBy[m] = <<>> <=> Of(m) = {}
    BY <2>1, ReceivingGhost DEF Of
  <2> QED
    BY <2>1, <2>2 DEF R!Ghost, R!Holds, Of
\* What is left to show of such a step.
<1>5. ASSUME ReceivingPeople, ReceivingTyped', \A m \in Members : linkOf[m] # {} => linkOf'[m] # {},
             \A m \in Members : ReceivingIs(Of(m), m)'
      PROVE  /\ ReceivingTyped' /\ R!LinksOutlive
             /\ \A m \in Members : ReceivingIs(R!ToSet(heldBy[m]), m)'
  BY <1>5 DEF R!LinksOutlive, Of
<1>6. ASSUME NEW a \in Accounts, R!AskWallet(a) \/ R!WalletRefused(a)
      PROVE  ReceivingTyped' /\ R!LinksOutlive /\ \A m \in Members : ReceivingIs(R!ToSet(heldBy[m]), m)'
  <2>1. ReceivingPeople /\ UNCHANGED <<linkOf, status, wallets, connected, upiIds, hidden, choice, chosenBy, minter>>
    BY <1>6 DEF R!AskWallet, R!WalletRefused, ReceivingPeople, R!people, R!paid
  <2>2. ReceivingTyped'
    BY <1>1, <1>3, <1>6, <2>1 DEF ReceivingTyped, ReceivingPeople, R!AskWallet, R!WalletRefused, R!Change
  <2>3. \A m \in Members : ReceivingIs(Of(m), m)'
    BY <1>1, <2>1 DEF ReceivingIs, ReceivingPeople, Of
  <2> QED
    BY <1>5, <2>1, <2>2, <2>3
<1>7. ASSUME NEW a \in Accounts, NEW w \in Wallets, R!WalletConnected(a, w)
      PROVE  ReceivingTyped' /\ R!LinksOutlive /\ \A m \in Members : ReceivingIs(R!ToSet(heldBy[m]), m)'
  <2>1. ReceivingPeople /\ UNCHANGED <<linkOf, upiIds, hidden, choice, chosenBy, minter, changes>>
    BY <1>7 DEF R!WalletConnected, ReceivingPeople, R!people
  <2>2. ReceivingTyped'
    <3>1. NoWallet \notin Wallets
      BY DEF R!ReceivingAssumption
    <3>2. /\ connected' \in [Accounts -> Wallets \cup {NoWallet}]
          /\ \A b \in Accounts : b \in wallets' <=> connected'[b] # NoWallet
      BY <1>1, <1>7, <3>1 DEF ReceivingTyped, R!WalletConnected
    <3> QED
      BY <1>1, <1>7, <2>1, <3>2 DEF ReceivingTyped, ReceivingPeople, R!WalletConnected
  <2>3. ASSUME NEW m \in Members
        PROVE  ReceivingIs(Of(m), m)'
    <3>1. (Of(m))' = Of(m)
      BY <2>1 DEF ReceivingPeople, Of
    <3>2. status'[m] = (IF a \in Of(m) THEN "nwc_linked" ELSE status[m]) /\ wallets' = wallets \cup {a}
      BY <1>4, <1>7 DEF R!WalletConnected, R!Links
    <3> QED
      BY <1>4, <2>1, <3>1, <3>2 DEF ReceivingIs, ReceivingPeople
  <2> QED
    BY <1>5, <2>1, <2>2, <2>3
<1>8. ASSUME NEW a \in Accounts, R!Disconnect(a)
      PROVE  ReceivingTyped' /\ R!LinksOutlive /\ \A m \in Members : ReceivingIs(R!ToSet(heldBy[m]), m)'
  <2>1. ReceivingPeople /\ UNCHANGED <<linkOf, upiIds, hidden, choice, chosenBy, minter, askingWallet, changes>>
    BY <1>8 DEF R!Disconnect, ReceivingPeople, R!people
  <2>2. ReceivingTyped'
    <3>1. /\ connected' \in [Accounts -> Wallets \cup {NoWallet}]
          /\ \A b \in Accounts : b \in wallets' <=> connected'[b] # NoWallet
      BY <1>1, <1>8 DEF ReceivingTyped, R!Disconnect
    <3> QED
      BY <1>1, <1>8, <2>1, <3>1 DEF ReceivingTyped, ReceivingPeople, R!Disconnect
  <2>3. ASSUME NEW m \in Members
        PROVE  ReceivingIs(Of(m), m)'
    <3>1. (Of(m))' = Of(m)
      BY <2>1 DEF ReceivingPeople, Of
    <3>2. /\ status'[m] = IF a \in Of(m) /\ Of(m) \cap (wallets \ {a}) = {} THEN "joined" ELSE status[m]
          /\ wallets' = wallets \ {a} /\ a \in wallets
      BY <1>4, <1>8 DEF R!Disconnect, R!Unlinks, Of
    <3>3. m \in there /\ a \in Of(m) => minter[m] = NoAccount
      BY <1>4, <1>8 DEF R!Disconnect, R!NothingIncoming
    <3> QED
      BY <1>4, <2>1, <3>1, <3>2, <3>3 DEF ReceivingIs, ReceivingPeople
  <2> QED
    BY <1>5, <2>1, <2>2, <2>3
<1>9. ASSUME NEW a \in Accounts, R!SetUpi(a) \/ R!SetOnLinks(a)
      PROVE  ReceivingTyped' /\ R!LinksOutlive /\ \A m \in Members : ReceivingIs(R!ToSet(heldBy[m]), m)'
  <2>1. ReceivingPeople /\ UNCHANGED <<linkOf, status, wallets, connected, choice, chosenBy, minter, askingWallet>>
    BY <1>9 DEF R!SetUpi, R!SetOnLinks, ReceivingPeople, R!people
  <2>2. changes' \in 0..MaxChanges /\ upiIds' \subseteq alive /\ hidden' \subseteq alive
    BY <1>1, <1>3, <1>9 DEF ReceivingTyped, R!SetUpi, R!SetOnLinks, R!Change
  <2>3. ReceivingTyped'
    BY <1>1, <2>1, <2>2 DEF ReceivingTyped, ReceivingPeople
  <2>4. \A m \in Members : ReceivingIs(Of(m), m)'
    BY <1>1, <2>1 DEF ReceivingIs, ReceivingPeople, Of
  <2> QED
    BY <1>5, <2>1, <2>3, <2>4
<1>10. ASSUME NEW a \in Accounts, NEW m \in Members, NEW c \in R!OnLink, R!Choose(a, m, c)
       PROVE  ReceivingTyped' /\ R!LinksOutlive /\ \A k \in Members : ReceivingIs(R!ToSet(heldBy[k]), k)'
  <2>1. ReceivingPeople /\ UNCHANGED <<linkOf, status, wallets, connected, upiIds, hidden, minter, askingWallet>>
    BY <1>10 DEF R!Choose, ReceivingPeople, R!people, R!paid
  <2>2. ReceivingTyped'
    BY <1>1, <1>3, <1>10, <2>1 DEF ReceivingTyped, ReceivingPeople, R!Choose, R!Change
  <2>3. ASSUME NEW k \in Members
        PROVE  ReceivingIs(Of(k), k)'
    <3>1. (Of(k))' = Of(k)
      BY <2>1 DEF ReceivingPeople, Of
    <3>2. /\ choice'[k] = (IF k = m THEN c ELSE choice[k])
          /\ chosenBy'[k] = (IF k = m THEN a ELSE chosenBy[k])
      BY <1>1, <1>10 DEF R!Choose, ReceivingTyped
    <3>3. a \in Of(m)
      BY <1>4, <1>10 DEF R!Choose
    <3> QED
      BY <1>4, <2>1, <3>1, <3>2, <3>3 DEF ReceivingIs, ReceivingPeople
  <2> QED
    BY <1>5, <2>1, <2>2, <2>3
<1>11. ASSUME NEW m \in Members, R!PaymentStarts(m) \/ R!PaymentEnds(m)
       PROVE  ReceivingTyped' /\ R!LinksOutlive /\ \A k \in Members : ReceivingIs(R!ToSet(heldBy[k]), k)'
  <2>1. ReceivingPeople /\ UNCHANGED <<linkOf, status, wallets, connected, upiIds, hidden, choice, chosenBy, askingWallet, changes>>
    BY <1>11 DEF R!PaymentStarts, R!PaymentEnds, ReceivingPeople, R!people, R!paid
  <2>2. \/ minter' = [minter EXCEPT ![m] = NoAccount]
        \/ /\ minter' = [minter EXCEPT ![m] = R!FirstWith(m, wallets)]
           /\ R!FirstWith(m, wallets) \in Of(m) \cap wallets
    <3>1. CASE R!PaymentStarts(m)
      <4>1. /\ minter' = [minter EXCEPT ![m] = R!FirstWith(m, wallets)]
            /\ Of(m) \cap wallets # {}
        BY <3>1 DEF R!PaymentStarts, Of
      <4>2. R!FirstWith(m, wallets) \in Of(m) \cap wallets
        BY <1>1, <4>1, ReceivingFirst DEF Of, ReceivingTyped
      <4> QED
        BY <4>1, <4>2
    <3>2. CASE R!PaymentEnds(m)
      BY <3>2 DEF R!PaymentEnds
    <3> QED
      BY <1>11, <3>1, <3>2
  <2>3. Of(m) \subseteq Accounts
    BY <1>1 DEF ReceivingTyped, Of
  <2>4. ReceivingTyped'
    BY <1>1, <2>1, <2>2, <2>3 DEF ReceivingTyped, ReceivingPeople
  <2>5. ASSUME NEW k \in Members
        PROVE  ReceivingIs(Of(k), k)'
    <3>1. (Of(k))' = Of(k)
      BY <2>1 DEF ReceivingPeople, Of
    <3>2. minter'[k] = minter[k] \/ minter'[k] = NoAccount \/ minter'[k] \in Of(k) \cap wallets
      BY <1>1, <2>2 DEF ReceivingTyped
    <3> QED
      BY <1>4, <2>1, <3>1, <3>2 DEF ReceivingIs, ReceivingPeople
  <2> QED
    BY <1>5, <2>1, <2>4, <2>5
<1>12. ASSUME NEW m \in Members, R!MakeLink(m)
       PROVE  ReceivingTyped' /\ R!LinksOutlive /\ \A k \in Members : ReceivingIs(R!ToSet(heldBy[k]), k)'
  <2>1. ReceivingPeople /\ UNCHANGED <<status, wallets, connected, upiIds, hidden, choice, chosenBy, minter, askingWallet, changes>>
    BY <1>12 DEF R!MakeLink, ReceivingPeople, R!people, R!paid
  <2> DEFINE o == IF R!Ghost(m) THEN NoAccount ELSE heldBy[m][1]
  <2>2. linkOf' = [linkOf EXCEPT ![m] = {o}] /\ linkOf[m] = {}
    BY <1>12 DEF R!MakeLink
  <2>3. o \in alive \cup {NoAccount}
    <3>1. ~R!Ghost(m) => heldBy[m][1] \in Of(m)
      <4>1. heldBy[m] \in Seq(Accounts)
        BY <1>4
      <4>2. heldBy[m] # <<>> => 1 \in DOMAIN heldBy[m]
        BY <4>1
      <4> QED
        BY <4>2 DEF R!Ghost, Of, R!ToSet
    <3>2. Of(m) \subseteq alive
      BY <1>1 DEF ReceivingTyped, Of
    <3> QED
      BY <3>1, <3>2
  <2> HIDE DEF o
  <2>4. ReceivingTyped' /\ \A k \in Members : linkOf[k] # {} => linkOf'[k] # {}
    BY <1>1, <2>1, <2>2, <2>3 DEF ReceivingTyped, ReceivingPeople
  <2>5. \A k \in Members : ReceivingIs(Of(k), k)'
    BY <1>1, <2>1 DEF ReceivingIs, ReceivingPeople, Of
  <2> QED
    BY <1>5, <2>1, <2>4, <2>5
<1>13. ASSUME NEW a \in Accounts, NEW m \in Members, R!Join(a, m)
       PROVE  ReceivingTyped' /\ R!LinksOutlive /\ \A k \in Members : ReceivingIs(R!ToSet(heldBy[k]), k)'
  <2>1. UNCHANGED <<alive, there, wallets, connected, upiIds, hidden, choice, chosenBy, minter, linkOf, askingWallet>>
    BY <1>13 DEF R!Join, R!paid
  <2>2. heldBy' = [heldBy EXCEPT ![m] = Append(heldBy[m], a)]
    BY <1>13 DEF R!Join
  <2>3. /\ a \in alive /\ m \in there /\ a \notin Of(m) /\ changes' \in 0..MaxChanges
        /\ heldSince' = [heldSince EXCEPT ![m] = heldSince[m] \cup {a}]
        /\ status' = [status EXCEPT ![m] =
              IF a \in wallets THEN "nwc_linked"
              ELSE IF status[m] = "ghost" THEN "joined" ELSE status[m]]
    BY <1>1, <1>3, <1>4, <1>13 DEF R!Join, R!Change, ReceivingTyped
  <2>4. /\ Append(heldBy[m], a) \in Seq(Accounts) /\ R!IsInjective(Append(heldBy[m], a))
        /\ R!ToSet(Append(heldBy[m], a)) = Of(m) \cup {a}
    BY <1>4, <2>3, ReceivingAppends DEF Of
  <2>5. ASSUME NEW k \in Members
        PROVE  /\ heldBy'[k] = IF k = m THEN Append(heldBy[m], a) ELSE heldBy[k]
               /\ (Of(k))' = IF k = m THEN Of(m) \cup {a} ELSE Of(k)
    BY <1>1, <2>2, <2>4 DEF ReceivingTyped, Of
  <2>6. ReceivingTyped'
    <3>1. heldBy' \in [Members -> Seq(Accounts)]
      BY <1>1, <2>2, <2>4 DEF ReceivingTyped
    <3>2. \A k \in Members : R!ToSet(heldBy'[k]) \subseteq alive /\ R!IsInjective(heldBy'[k])
      BY <1>1, <1>4, <2>3, <2>4, <2>5 DEF ReceivingTyped, Of
    <3> QED
      BY <1>1, <2>1, <2>3, <3>1, <3>2 DEF ReceivingTyped
  <2>7. ASSUME NEW k \in Members
        PROVE  ReceivingIs(Of(k), k)'
    <3>1. CASE k = m
      <4>1. (Of(k))' = Of(m) \cup {a} /\ heldSince'[k] = heldSince[m] \cup {a}
            /\ status'[k] = IF a \in wallets THEN "nwc_linked"
                            ELSE IF status[m] = "ghost" THEN "joined" ELSE status[m]
        BY <1>1, <2>3, <2>5, <3>1 DEF ReceivingTyped
      <4>2. status[m] \in {"ghost", "joined", "nwc_linked"}
        BY <1>1 DEF ReceivingTyped
      <4> QED
        BY <1>4, <2>1, <2>3, <3>1, <4>1, <4>2 DEF ReceivingIs
    <3>2. CASE k # m
      <4>1. (Of(k))' = Of(k) /\ heldSince'[k] = heldSince[k] /\ status'[k] = status[k]
        BY <1>1, <2>3, <2>5, <3>2 DEF ReceivingTyped
      <4> QED
        BY <1>4, <2>1, <4>1 DEF ReceivingIs
    <3> QED
      BY <3>1, <3>2
  <2>8. R!LinksOutlive
    BY <2>1 DEF R!LinksOutlive
  <2> QED
    BY <2>6, <2>7, <2>8 DEF Of
\* Whoever leaves, and one by one the members of whoever goes.
<1>14. ASSUME NEW a \in Accounts, NEW m \in Members
       PROVE  /\ R!Without(a, m) \in Seq(Accounts) /\ R!IsInjective(R!Without(a, m))
              /\ R!ToSet(R!Without(a, m)) = Of(m) \ {a}
              /\ R!Without(a, m) = <<>> <=> Of(m) \subseteq {a}
              /\ a \in Of(m) => Len(R!Without(a, m)) = Len(heldBy[m]) - 1
              /\ R!LeavesGhost(a, m) <=> a \in Of(m) /\ Of(m) \subseteq {a}
  <2>1. /\ R!Without(a, m) \in Seq(Accounts) /\ R!IsInjective(R!Without(a, m))
        /\ R!ToSet(R!Without(a, m)) = Of(m) \ {a}
        /\ R!Without(a, m) = <<>> <=> Of(m) \subseteq {a}
        /\ R!Holds(a, m) => Len(R!Without(a, m)) = Len(heldBy[m]) - 1
    BY <1>1, <1>4, ReceivingWithout DEF ReceivingTyped, Of
  <2> QED
    BY <1>4, <2>1 DEF R!LeavesGhost
<1>15. ASSUME NEW a \in Accounts, NEW ms \in SUBSET Members, R!Drop(a, ms),
              \A m \in ms : a \in Of(m)
       PROVE  /\ heldBy' \in [Members -> Seq(Accounts)]
              /\ choice' \in [Members -> R!OnLink] /\ heldSince' \in [Members -> SUBSET Accounts]
              /\ \A m \in Members :
                    /\ R!IsInjective(heldBy'[m])
                    /\ heldBy'[m] = <<>> <=> (Of(m))' = {}
                    /\ m \in ms =>
                        /\ heldBy'[m] = R!Without(a, m) /\ (Of(m))' = Of(m) \ {a}
                        /\ \/ Of(m) = {a} /\ choice'[m] = "follow" /\ heldSince'[m] = {}
                           \/ /\ Of(m) # {a}
                              /\ choice'[m] = choice[m] /\ heldSince'[m] = heldSince[m]
                    /\ m \notin ms =>
                        /\ heldBy'[m] = heldBy[m] /\ (Of(m))' = Of(m)
                        /\ choice'[m] = choice[m] /\ heldSince'[m] = heldSince[m]
  <2>1. \A m \in Members : heldBy'[m] = IF m \in ms THEN R!Without(a, m) ELSE heldBy[m]
    BY <1>15 DEF R!Drop
  <2>2. heldBy' \in [Members -> Seq(Accounts)]
    BY <1>4, <1>14, <1>15 DEF R!Drop
  <2>3. /\ choice' = [m \in Members |-> IF m \in ms /\ R!LeavesGhost(a, m) THEN "follow" ELSE choice[m]]
        /\ heldSince' = [m \in Members |-> IF m \in ms /\ R!LeavesGhost(a, m) THEN {} ELSE heldSince[m]]
    BY <1>15 DEF R!Drop, R!Unclaimed
  <2>4. /\ choice' \in [Members -> R!OnLink] /\ heldSince' \in [Members -> SUBSET Accounts]
    BY <1>1, <2>3 DEF ReceivingTyped, R!OnLink
  <2>5. ASSUME NEW m \in Members
        PROVE  R!IsInjective(heldBy'[m]) /\ (heldBy'[m] = <<>> <=> (Of(m))' = {})
    <3>1. heldBy'[m] \in Seq(Accounts) /\ R!IsInjective(heldBy'[m])
      BY <1>4, <1>14, <2>1
    <3>2. heldBy'[m] = <<>> <=> R!ToSet(heldBy'[m]) = {}
      BY <3>1, ReceivingGhost
    <3> QED
      BY <3>1, <3>2 DEF Of
  <2>6. ASSUME NEW m \in ms
        PROVE  /\ heldBy'[m] = R!Without(a, m) /\ (Of(m))' = Of(m) \ {a}
               /\ \/ Of(m) = {a} /\ choice'[m] = "follow" /\ heldSince'[m] = {}
                  \/ Of(m) # {a} /\ choice'[m] = choice[m] /\ heldSince'[m] = heldSince[m]
    <3>1. m \in Members /\ a \in Of(m) /\ (R!LeavesGhost(a, m) <=> Of(m) = {a})
      BY <1>14, <1>15
    <3>2. heldBy'[m] = R!Without(a, m) /\ (Of(m))' = Of(m) \ {a}
      BY <1>14, <2>1, <3>1 DEF Of
    <3> QED
      BY <2>3, <3>1, <3>2
  <2>7. ASSUME NEW m \in Members, m \notin ms
        PROVE  /\ heldBy'[m] = heldBy[m] /\ (Of(m))' = Of(m)
               /\ choice'[m] = choice[m] /\ heldSince'[m] = heldSince[m]
    BY <2>1, <2>3, <2>7 DEF Of
  <2> QED
    BY <2>2, <2>4, <2>5, <2>6, <2>7
\* What becomes of the links to pay a member.
<1>16. ASSUME NEW a \in Accounts, NEW m \in Members
       PROVE  /\ R!HandedOn(a, m) \subseteq linkOf[m] \cup Of(m)
              /\ linkOf[m] # {} => R!HandedOn(a, m) # {}
              /\ Len(heldBy[m]) > 1 /\ linkOf[m] = {heldBy[m][1]} => R!HandedOn(a, m) \ {a} # {}
  <2>1. /\ heldBy[m] \in Seq(Accounts) /\ Len(heldBy[m]) \in Nat
        /\ DOMAIN heldBy[m] = 1..Len(heldBy[m])
    BY <1>4
  <2>2. Len(heldBy[m]) > 1 =>
            1 \in DOMAIN heldBy[m] /\ 2 \in DOMAIN heldBy[m]
    BY <2>1
  <2>3. Len(heldBy[m]) > 1 => heldBy[m][2] \in Of(m) /\ heldBy[m][2] # heldBy[m][1]
    <3> SUFFICES ASSUME Len(heldBy[m]) > 1
                 PROVE  heldBy[m][2] \in Of(m) /\ heldBy[m][2] # heldBy[m][1]
      OBVIOUS
    <3>1. R!IsInjective(heldBy[m])
      BY <1>4
    <3>2. heldBy[m][2] # heldBy[m][1]
      BY <2>2, <3>1 DEF R!IsInjective
    <3>3. heldBy[m][2] \in Of(m)
      BY <2>2 DEF Of, R!ToSet
    <3> QED
      BY <3>2, <3>3
  <2>4. CASE Len(heldBy[m]) > 1 /\ heldBy[m][1] = a
    <3>1. R!HandedOn(a, m) = {IF o = a THEN heldBy[m][2] ELSE o : o \in linkOf[m]}
      BY <2>4, Zenon DEF R!HandedOn
    <3> QED
      BY <2>3, <2>4, <3>1
  <2>5. CASE ~(Len(heldBy[m]) > 1 /\ heldBy[m][1] = a)
    <3>1. R!HandedOn(a, m) = linkOf[m]
      BY <2>5, Zenon DEF R!HandedOn
    <3> QED
      BY <2>5, <3>1
  <2> QED
    BY <2>4, <2>5
<1>17. ASSUME NEW a \in Accounts, NEW m \in Members, R!Leave(a, m)
       PROVE  ReceivingTyped' /\ R!LinksOutlive /\ \A k \in Members : ReceivingIs(R!ToSet(heldBy[k]), k)'
  <2>1. /\ UNCHANGED <<alive, there, wallets, connected, upiIds, hidden, chosenBy, minter, askingWallet, changes>>
        /\ m \in there /\ a \in Of(m) /\ minter[m] = NoAccount /\ R!Drop(a, {m})
        /\ linkOf' = [linkOf EXCEPT ![m] = R!HandedOn(a, m)]
    BY <1>4, <1>17 DEF R!Leave, R!paid, R!NothingIncoming
  <2>2. status' = [status EXCEPT ![m] =
            IF Of(m) = {a} THEN "ghost"
            ELSE IF (Of(m) \ {a}) \cap wallets # {} THEN "nwc_linked" ELSE "joined"]
    <3>1. (R!Without(a, m) = <<>> <=> Of(m) = {a}) /\ R!ToSet(R!Without(a, m)) = Of(m) \ {a}
      BY <1>14, <2>1
    <3>2. R!StatusWithout(a, m, wallets) =
             IF Of(m) = {a} THEN "ghost"
             ELSE IF (Of(m) \ {a}) \cap wallets # {} THEN "nwc_linked" ELSE "joined"
      BY <3>1 DEF R!StatusWithout, R!Linked
    <3>3. status' = [status EXCEPT ![m] = R!StatusWithout(a, m, wallets)]
      BY <1>17 DEF R!Leave
    <3> QED
      BY <3>2, <3>3
  <2> DEFINE ms == {m}
  <2>3. ms \in SUBSET Members /\ R!Drop(a, ms) /\ \A k \in ms : a \in Of(k)
    BY <2>1
  <2>4. /\ heldBy' \in [Members -> Seq(Accounts)]
        /\ choice' \in [Members -> R!OnLink] /\ heldSince' \in [Members -> SUBSET Accounts]
        /\ \A k \in Members :
              /\ R!IsInjective(heldBy'[k])
              /\ heldBy'[k] = <<>> <=> (Of(k))' = {}
              /\ k \in ms =>
                  /\ heldBy'[k] = R!Without(a, k) /\ (Of(k))' = Of(k) \ {a}
                  /\ \/ Of(k) = {a} /\ choice'[k] = "follow" /\ heldSince'[k] = {}
                     \/ /\ Of(k) # {a}
                        /\ choice'[k] = choice[k] /\ heldSince'[k] = heldSince[k]
              /\ k \notin ms =>
                  /\ heldBy'[k] = heldBy[k] /\ (Of(k))' = Of(k)
                  /\ choice'[k] = choice[k] /\ heldSince'[k] = heldSince[k]
    <3> HIDE DEF ms
    <3> QED
      BY <1>15, <2>3
  <2>5. \A k \in Members : (Of(k))' \subseteq Of(k) /\ Of(k) \subseteq alive
    <3>1. \A k \in Members : Of(k) \subseteq alive
      BY <1>1 DEF ReceivingTyped, Of
    <3> QED
      BY <2>4, <3>1
  <2>6. ReceivingTyped'
    <3>1. linkOf' \in [Members -> SUBSET (Accounts \cup {NoAccount})]
          /\ \A k \in Members : linkOf'[k] \subseteq alive \cup {NoAccount}
      BY <1>1, <1>16, <2>1, <2>5 DEF ReceivingTyped
    <3>2. \A k \in Members : R!ToSet(heldBy'[k]) \subseteq alive
      BY <2>5 DEF Of
    <3>3. status' \in [Members -> {"ghost", "joined", "nwc_linked"}]
      BY <1>1, <2>2 DEF ReceivingTyped
    <3> QED
      BY <1>1, <2>1, <2>4, <3>1, <3>2, <3>3 DEF ReceivingTyped
  <2>7. ASSUME NEW k \in Members
        PROVE  ReceivingIs(Of(k), k)'
    <3>1. CASE k = m
      <4>1. status'[k] = IF Of(m) = {a} THEN "ghost"
                         ELSE IF (Of(m) \ {a}) \cap wallets # {} THEN "nwc_linked" ELSE "joined"
        BY <1>1, <2>2, <3>1 DEF ReceivingTyped
      <4>2. (Of(k))' = Of(k) \ {a} /\ (Of(k) = {a} <=> (Of(k))' = {})
        BY <2>1, <2>4, <3>1
      <4>3. \/ choice'[k] = "follow"
            \/ choice'[k] = choice[k] /\ heldSince'[k] = heldSince[k]
        BY <2>4, <3>1
      <4>4. (Of(k))' \subseteq heldSince'[k]
        BY <1>4, <2>4, <3>1, <4>2 DEF ReceivingIs
      <4> QED
        BY <1>4, <2>1, <3>1, <4>1, <4>2, <4>3, <4>4 DEF ReceivingIs
    <3>2. CASE k # m
      <4>1. /\ (Of(k))' = Of(k) /\ heldSince'[k] = heldSince[k] /\ status'[k] = status[k]
            /\ choice'[k] = choice[k]
        BY <1>1, <2>2, <2>4, <3>2 DEF ReceivingTyped
      <4> QED
        BY <1>4, <2>1, <4>1 DEF ReceivingIs
    <3> QED
      BY <3>1, <3>2
  <2>8. R!LinksOutlive
    <3>1. \A k \in Members : linkOf[k] # {} => linkOf'[k] # {}
      BY <1>1, <1>16, <2>1 DEF ReceivingTyped
    <3> QED
      BY <3>1 DEF R!LinksOutlive
  <2> QED
    BY <2>6, <2>7, <2>8 DEF Of
<1>18. ASSUME NEW a \in Accounts, R!DeleteAccount(a)
       PROVE  ReceivingTyped' /\ R!LinksOutlive /\ \A k \in Members : ReceivingIs(R!ToSet(heldBy[k]), k)'
  <2> DEFINE ms == {m \in there : R!Holds(a, m)}
             gone_ == {m \in ms : R!AccountCount(m) = 1}
  <2>1. /\ a \in alive /\ R!NothingIncoming(ms) /\ alive' = alive \ {a} /\ there' = there \ gone_
        /\ R!Drop(a, ms) /\ wallets' = wallets \ {a}
        /\ connected' = [connected EXCEPT ![a] = NoWallet] /\ upiIds' = upiIds \ {a}
        /\ hidden' = hidden \ {a} /\ UNCHANGED <<chosenBy, minter, askingWallet, changes>>
    BY <1>18 DEF R!DeleteAccount
  <2>2. \A m \in Members : linkOf'[m] =
            (IF m \in gone_ THEN {} ELSE IF m \in ms THEN R!HandedOn(a, m) ELSE linkOf[m]) \ {a}
    BY <1>18 DEF R!DeleteAccount
  <2>3. ms \in SUBSET Members /\ \A m \in Members : m \in ms <=> m \in there /\ a \in Of(m)
    BY <1>1, <1>4 DEF ReceivingTyped
  <2>4. DOMAIN linkOf' = Members /\ linkOf' = [m \in Members |-> linkOf'[m]]
    BY <1>18 DEF R!DeleteAccount
  <2>5. status' = [m \in Members |->
            IF m \in ms THEN R!StatusWithout(a, m, wallets \ {a}) ELSE status[m]]
    BY <1>18 DEF R!DeleteAccount
  <2>6. gone_ \subseteq ms /\ \A m \in gone_ : Len(heldBy[m]) = 1
    <3>1. ASSUME NEW m \in gone_
          PROVE  Len(heldBy[m]) = 1
      <4>1. m \in Members /\ a \in Of(m) /\ R!AccountCount(m) = 1
        BY <2>3, <3>1
      <4>2. heldBy[m] # <<>> /\ heldBy[m] \in Seq(Accounts)
        BY <1>4, <4>1 DEF R!Ghost
      <4>3. Len(heldBy[m]) \in Nat /\ Len(heldBy[m]) # 0
        BY <4>2
      <4> QED
        <5>1. R!AccountCount(m) = Len(heldBy[m]) + (IF m \in Shared THEN 1 ELSE 0)
          BY Zenon DEF R!AccountCount
        <5> DEFINE L == Len(heldBy[m])
        <5>2. L \in Nat /\ L # 0 /\ L + (IF m \in Shared THEN 1 ELSE 0) = 1
          BY <4>1, <4>3, <5>1
        <5> HIDE DEF L
        <5>3. L = 1
          BY <5>2
        <5> QED
          BY <5>3 DEF L
    <3> QED
      BY <3>1
  <2> HIDE DEF ms, gone_
  <2>7. \A m \in Members : m \in ms => status'[m] =
            IF Of(m) = {a} THEN "ghost"
            ELSE IF (Of(m) \ {a}) \cap (wallets \ {a}) # {} THEN "nwc_linked" ELSE "joined"
    <3> SUFFICES ASSUME NEW m \in Members, m \in ms
                 PROVE  status'[m] =
                        IF Of(m) = {a} THEN "ghost"
                        ELSE IF (Of(m) \ {a}) \cap (wallets \ {a}) # {} THEN "nwc_linked" ELSE "joined"
      OBVIOUS
    <3>1. (R!Without(a, m) = <<>> <=> Of(m) = {a}) /\ R!ToSet(R!Without(a, m)) = Of(m) \ {a}
      BY <1>14, <2>3
    <3>2. status'[m] = R!StatusWithout(a, m, wallets \ {a})
      BY <2>5
    <3> QED
      BY <3>1, <3>2 DEF R!StatusWithout, R!Linked
  <2>8. \A m \in Members : m \notin ms => status'[m] = status[m]
    BY <2>5
  <2>9. /\ heldBy' \in [Members -> Seq(Accounts)]
        /\ choice' \in [Members -> R!OnLink] /\ heldSince' \in [Members -> SUBSET Accounts]
        /\ \A k \in Members :
              /\ R!IsInjective(heldBy'[k])
              /\ heldBy'[k] = <<>> <=> (Of(k))' = {}
              /\ k \in ms =>
                  /\ heldBy'[k] = R!Without(a, k) /\ (Of(k))' = Of(k) \ {a}
                  /\ \/ Of(k) = {a} /\ choice'[k] = "follow" /\ heldSince'[k] = {}
                     \/ /\ Of(k) # {a}
                        /\ choice'[k] = choice[k] /\ heldSince'[k] = heldSince[k]
              /\ k \notin ms =>
                  /\ heldBy'[k] = heldBy[k] /\ (Of(k))' = Of(k)
                  /\ choice'[k] = choice[k] /\ heldSince'[k] = heldSince[k]
    BY <1>15, <2>1, <2>3
\* A group that goes with them has them alone as this member.
  <2>10. \A m \in gone_ : m \in Members /\ Of(m) = {a}
    <3> SUFFICES ASSUME NEW m \in gone_
                 PROVE  m \in Members /\ Of(m) = {a}
      OBVIOUS
    <3>1. m \in Members /\ a \in Of(m) /\ Len(heldBy[m]) = 1 /\ heldBy[m] \in Seq(Accounts)
      BY <1>4, <2>3, <2>6
    <3>2. DOMAIN heldBy[m] = {1}
      BY <3>1
    <3> QED
      BY <3>1, <3>2 DEF Of, R!ToSet
\* Nobody else's member is held by them.
  <2>11. \A m \in Members : m \notin ms => a \notin Of(m)
    BY <1>4, <2>3 DEF ReceivingIs
  <2>12. \A m \in Members : /\ Of(m) \subseteq alive /\ (Of(m))' \subseteq alive'
                            /\ (Of(m))' = Of(m) \ {a}
    <3>1. \A m \in Members : Of(m) \subseteq alive
      BY <1>1 DEF ReceivingTyped, Of
    <3> QED
      BY <2>1, <2>9, <2>11, <3>1
  <2>13. \A m \in Members : m \in ms => minter[m] = NoAccount
    BY <2>1, <2>3 DEF R!NothingIncoming
  <2>14. ReceivingTyped'
    <3>1. \A m \in Members : linkOf'[m] \subseteq alive' \cup {NoAccount}
      BY <1>1, <1>16, <2>1, <2>2, <2>12 DEF ReceivingTyped
    <3>2. linkOf' \in [Members -> SUBSET (Accounts \cup {NoAccount})]
      BY <1>1, <2>1, <2>4, <3>1 DEF ReceivingTyped
    <3>3. \A m \in Members : R!ToSet(heldBy'[m]) \subseteq alive'
      BY <2>12 DEF Of
    <3>4. status' \in [Members -> {"ghost", "joined", "nwc_linked"}]
      <4>1. \A m \in Members : status'[m] \in {"ghost", "joined", "nwc_linked"}
        BY <1>1, <2>7, <2>8 DEF ReceivingTyped
      <4> QED
        BY <2>5, <4>1
    <3>5. /\ connected' \in [Accounts -> Wallets \cup {NoWallet}]
          /\ \A b \in Accounts : b \in wallets' <=> connected'[b] # NoWallet
      BY <1>1, <2>1 DEF ReceivingTyped
    <3> QED
      BY <1>1, <2>1, <2>9, <3>1, <3>2, <3>3, <3>4, <3>5 DEF ReceivingTyped
  <2>15. ASSUME NEW m \in Members
         PROVE  ReceivingIs(Of(m), m)'
    <3>1. m \notin gone_ => (m \in there' <=> m \in there)
      BY <2>1
    <3>2. (Of(m))' \subseteq heldSince'[m]
      BY <1>4, <2>9, <2>12 DEF ReceivingIs
    <3>3. choice'[m] # "follow" => chosenBy'[m] \in heldSince'[m]
      BY <1>4, <2>1, <2>9 DEF ReceivingIs
    <3>4. minter'[m] # NoAccount => minter'[m] \in wallets' /\ minter'[m] \in (Of(m))'
      <4>1. minter'[m] # NoAccount => m \notin ms
        BY <2>1, <2>13
      <4> QED
        BY <1>4, <2>1, <2>9, <2>11, <4>1 DEF ReceivingIs
    <3>5. m \notin there' => (Of(m))' = {}
      BY <1>4, <2>10, <2>12, <3>1 DEF ReceivingIs
    <3>6. m \in there' => /\ status'[m] = "ghost" <=> (Of(m))' = {}
                          /\ status'[m] = "nwc_linked" <=> (Of(m))' \cap wallets' # {}
      <4>1. m \in there' => m \in there
        BY <2>1
      <4>2. CASE m \in ms
        BY <2>1, <2>3, <2>7, <2>12, <4>2
      <4>3. CASE m \notin ms
        BY <1>4, <2>1, <2>8, <2>11, <2>12, <4>1, <4>3 DEF ReceivingIs
      <4> QED
        BY <4>2, <4>3
    <3> QED
      BY <3>2, <3>3, <3>4, <3>5, <3>6 DEF ReceivingIs
  <2>16. R!LinksOutlive
    <3> SUFFICES ASSUME NEW m \in Members, linkOf[m] # {}, ~R!Ghost(m), linkOf[m] = {heldBy[m][1]},
                        heldBy'[m] # <<>>
                 PROVE  linkOf'[m] # {}
      BY DEF R!LinksOutlive
    <3>1. (Of(m))' # {}
      BY <2>9
    <3>2. m \notin gone_
      BY <2>10, <2>12, <3>1
    <3>3. CASE m \in ms
      <4>1. /\ Len(R!Without(a, m)) = Len(heldBy[m]) - 1 /\ R!Without(a, m) # <<>>
            /\ R!Without(a, m) \in Seq(Accounts) /\ heldBy[m] \in Seq(Accounts)
        BY <1>4, <1>14, <2>3, <2>9, <3>3
      <4>2. Len(heldBy[m]) > 1
        BY <4>1
      <4> QED
        BY <1>16, <2>2, <3>2, <3>3, <4>2
    <3>4. CASE m \notin ms
      <4>1. heldBy[m][1] \in Of(m)
        <5>1. heldBy[m] \in Seq(Accounts) /\ heldBy[m] # <<>>
          BY <1>4 DEF R!Ghost
        <5>2. 1 \in DOMAIN heldBy[m]
          BY <5>1
        <5> QED
          BY <5>2 DEF Of, R!ToSet
      <4>2. linkOf'[m] = linkOf[m] \ {a}
        BY <2>2, <3>2, <3>4
      <4>3. heldBy[m][1] # a
        BY <2>11, <3>4, <4>1
      <4> QED
        BY <4>2, <4>3
    <3> QED
      BY <3>3, <3>4
  <2> QED
    BY <2>14, <2>15, <2>16 DEF Of
<1>19. ASSUME UNCHANGED R!vars
       PROVE  ReceivingTyped' /\ R!LinksOutlive /\ \A k \in Members : ReceivingIs(R!ToSet(heldBy[k]), k)'
  <2>1. /\ UNCHANGED <<alive, there, heldBy, status, wallets, connected, upiIds, hidden, choice, chosenBy>>
        /\ UNCHANGED <<heldSince, minter, linkOf, askingWallet, changes>>
    BY <1>19 DEF R!vars
  <2>2. ReceivingTyped'
    BY <1>1, <2>1 DEF ReceivingTyped
  <2>3. \A k \in Members : ReceivingIs(Of(k), k)'
    BY <1>1, <2>1 DEF ReceivingIs, Of
  <2> QED
    BY <1>5, <2>1, <2>2, <2>3 DEF ReceivingPeople
<1> QED
  BY <1>6, <1>7, <1>8, <1>9, <1>10, <1>11, <1>12, <1>13, <1>17, <1>18, <1>19 DEF R!Next

\* The wallet a payment is made with goes only for another its account connected:
\* an account is not disconnected or deleted while a payment to it is under way.
LEMMA ReceivingReplaces ==
    ASSUME R!ReceivingAssumption, R!Inv, [R!Next]_(R!vars)
    PROVE  R!OnlyTheyReplace
<1>1. /\ \A m \in Members : minter[m] # NoAccount => R!Holds(minter[m], m) /\ m \in there
      /\ connected \in [Accounts -> Wallets \cup {NoWallet}]
      /\ minter \in [Members -> Accounts \cup {NoAccount}]
  BY DEF R!Inv, R!MinterStays, R!TypeOK
<1>2. ASSUME UNCHANGED connected
      PROVE  R!OnlyTheyReplace
  BY <1>2 DEF R!OnlyTheyReplace
<1>3. ASSUME NEW a \in Accounts, NEW w \in Wallets, R!WalletConnected(a, w)
      PROVE  R!OnlyTheyReplace
  <2>1. /\ a \in askingWallet /\ askingWallet' = askingWallet \ {a}
        /\ connected' = [connected EXCEPT ![a] = w]
    BY <1>3 DEF R!WalletConnected
  <2> QED
    BY <1>1, <2>1 DEF R!OnlyTheyReplace
<1>4. ASSUME NEW a \in Accounts, R!Disconnect(a) \/ R!DeleteAccount(a)
      PROVE  R!OnlyTheyReplace
  <2>1. /\ connected' = [connected EXCEPT ![a] = NoWallet]
        /\ R!NothingIncoming({m \in there : R!Holds(a, m)})
    BY <1>4 DEF R!Disconnect, R!DeleteAccount
  <2>2. \A m \in Members : minter[m] # NoAccount => minter[m] # a
    BY <1>1, <2>1 DEF R!NothingIncoming
  <2>3. \A b : b # a => connected'[b] = connected[b]
    BY <1>1, <2>1
  <2> QED
    BY <2>2, <2>3 DEF R!OnlyTheyReplace
<1>5. ASSUME UNCHANGED R!vars
      PROVE  UNCHANGED connected
  BY <1>5 DEF R!vars
<1>6. ASSUME NEW a \in Accounts,
             \/ R!AskWallet(a) \/ R!WalletRefused(a) \/ R!SetUpi(a) \/ R!SetOnLinks(a)
             \/ \E m \in Members : \/ R!Join(a, m) \/ R!Leave(a, m)
                                  \/ \E c \in R!OnLink : R!Choose(a, m, c)
      PROVE  UNCHANGED connected
  BY <1>6 DEF R!AskWallet, R!WalletRefused, R!SetUpi, R!SetOnLinks, R!Join, R!Leave, R!Choose, R!paid
<1>7. ASSUME NEW m \in Members, R!PaymentStarts(m) \/ R!PaymentEnds(m) \/ R!MakeLink(m)
      PROVE  UNCHANGED connected
  BY <1>7 DEF R!PaymentStarts, R!PaymentEnds, R!MakeLink, R!paid
<1> QED
  BY <1>2, <1>3, <1>4, <1>5, <1>6, <1>7 DEF R!Next

-----------------------------------------------------------------------------
(* What the app reports of how it is used.                                 *)

\* The events of a sequence are in the order they happened.
UsageRising(s) == \A i, j \in 1..Len(s) : i < j => s[i] < s[j]

\* The batch being sent, and what waits behind it, of n events.
UsageInOrder(p, q, n) ==
    /\ p \in Seq(1..n) /\ q \in Seq(1..n) /\ UsageRising(p) /\ UsageRising(q)
    /\ \A x \in U!ToSet(p), y \in U!ToSet(q) : x < y

LEMMA UsageJoined ==
    ASSUME NEW n \in Nat, NEW p \in Seq(1..n), NEW q \in Seq(1..n)
    PROVE  /\ p \o q \in Seq(1..n)
           /\ UsageInOrder(p, q, n) <=> UsageRising(p \o q)
           /\ U!ToSet(p \o q) = U!ToSet(p) \cup U!ToSet(q)
<1> DEFINE a == p \o q
<1>1. /\ a \in Seq(1..n) /\ Len(a) = Len(p) + Len(q)
      /\ \A i \in 1..(Len(p) + Len(q)) : a[i] = IF i <= Len(p) THEN p[i] ELSE q[i - Len(p)]
  BY ConcatProperties
<1>2. /\ Len(p) \in Nat /\ Len(q) \in Nat /\ DOMAIN p = 1..Len(p) /\ DOMAIN q = 1..Len(q)
      /\ DOMAIN a = 1..(Len(p) + Len(q))
  BY <1>1
<1> HIDE DEF a
<1>3. \A i \in 1..Len(p) : i \in 1..(Len(p) + Len(q)) /\ a[i] = p[i]
  BY <1>1, <1>2
<1>4. ASSUME NEW i \in 1..Len(q)
      PROVE  /\ i + Len(p) \in 1..(Len(p) + Len(q)) /\ ~(i + Len(p) <= Len(p))
             /\ a[i + Len(p)] = q[i]
  <2>1. i + Len(p) \in 1..(Len(p) + Len(q)) /\ ~(i + Len(p) <= Len(p)) /\ i + Len(p) - Len(p) = i
    BY <1>2
  <2> QED
    BY <1>1, <2>1
<1>5. ASSUME NEW i \in 1..(Len(p) + Len(q))
      PROVE  \/ i \in 1..Len(p) /\ a[i] = p[i]
             \/ i > Len(p) /\ i - Len(p) \in 1..Len(q) /\ a[i] = q[i - Len(p)]
  BY <1>1, <1>2
<1>6. U!ToSet(a) = U!ToSet(p) \cup U!ToSet(q)
  <2>1. ASSUME NEW x \in U!ToSet(a)
        PROVE  x \in U!ToSet(p) \cup U!ToSet(q)
    <3>1. PICK i \in 1..(Len(p) + Len(q)) : x = a[i]
      BY <1>2 DEF U!ToSet
    <3> QED
      BY <1>2, <1>5, <3>1 DEF U!ToSet
  <2>2. ASSUME NEW x \in U!ToSet(p)
        PROVE  x \in U!ToSet(a)
    <3>1. PICK i \in 1..Len(p) : x = p[i]
      BY <1>2 DEF U!ToSet
    <3> QED
      BY <1>2, <1>3, <3>1 DEF U!ToSet
  <2>3. ASSUME NEW x \in U!ToSet(q)
        PROVE  x \in U!ToSet(a)
    <3>1. PICK i \in 1..Len(q) : x = q[i]
      BY <1>2 DEF U!ToSet
    <3> QED
      BY <1>2, <1>4, <3>1 DEF U!ToSet
  <2> QED
    BY <2>1, <2>2, <2>3
<1>7. /\ \A i \in 1..Len(p) : p[i] \in Nat
      /\ \A i \in 1..Len(q) : q[i] \in Nat
  OBVIOUS
<1>8. ASSUME UsageInOrder(p, q, n)
      PROVE  UsageRising(a)
  <2>1. SUFFICES ASSUME NEW i \in 1..(Len(p) + Len(q)), NEW j \in 1..(Len(p) + Len(q)), i < j
                 PROVE  a[i] < a[j]
    BY <1>1 DEF UsageRising
  <2>2. CASE j \in 1..Len(p)
    <3>1. i \in 1..Len(p)
      BY <1>2, <2>1, <2>2
    <3> QED
      BY <1>3, <1>8, <2>1, <2>2, <3>1 DEF UsageInOrder, UsageRising
  <2>3. CASE i \in 1..Len(p) /\ j > Len(p) /\ j - Len(p) \in 1..Len(q) /\ a[j] = q[j - Len(p)]
    <3>1. a[i] \in U!ToSet(p) /\ a[j] \in U!ToSet(q)
      BY <1>2, <1>3, <2>3 DEF U!ToSet
    <3> QED
      BY <1>8, <3>1 DEF UsageInOrder
  <2>4. CASE /\ i > Len(p) /\ i - Len(p) \in 1..Len(q) /\ a[i] = q[i - Len(p)]
             /\ j > Len(p) /\ j - Len(p) \in 1..Len(q) /\ a[j] = q[j - Len(p)]
    <3>1. i - Len(p) < j - Len(p)
      BY <1>2, <2>1
    <3> QED
      BY <1>8, <2>4, <3>1 DEF UsageInOrder, UsageRising
  <2>5. CASE i > Len(p) /\ j \in 1..Len(p)
    BY <1>2, <2>1, <2>5
  <2> QED
    BY <1>5, <2>2, <2>3, <2>4, <2>5
<1>9. ASSUME UsageRising(a)
      PROVE  UsageInOrder(p, q, n)
  <2>1. UsageRising(p)
    BY <1>1, <1>3, <1>9 DEF UsageRising
  <2>2. UsageRising(q)
    <3>1. SUFFICES ASSUME NEW i \in 1..Len(q), NEW j \in 1..Len(q), i < j
                   PROVE  q[i] < q[j]
      BY DEF UsageRising
    <3>2. i + Len(p) < j + Len(p)
      BY <1>2, <3>1
    <3>3. a[i + Len(p)] < a[j + Len(p)]
      BY <1>1, <1>4, <1>9, <3>2 DEF UsageRising
    <3> QED
      BY <1>4, <3>3
  <2>3. ASSUME NEW x \in U!ToSet(p), NEW y \in U!ToSet(q)
        PROVE  x < y
    <3>1. PICK i \in 1..Len(p) : x = p[i]
      BY <1>2 DEF U!ToSet
    <3>2. PICK j \in 1..Len(q) : y = q[j]
      BY <1>2 DEF U!ToSet
    <3>3. i < j + Len(p)
      BY <1>2
    <3>4. a[i] < a[j + Len(p)]
      BY <1>1, <1>3, <1>4, <1>9, <3>3 DEF UsageRising
    <3> QED
      BY <1>3, <1>4, <3>1, <3>2, <3>4
  <2> QED
    BY <2>1, <2>2, <2>3 DEF UsageInOrder
<1> QED
  BY <1>1, <1>6, <1>8, <1>9 DEF a

\* A sequence cut in two is in order on both sides.
LEMMA UsageCut ==
    ASSUME NEW n \in Nat, NEW s \in Seq(1..n), UsageRising(s), NEW k \in 0..Len(s)
    PROVE  /\ UsageInOrder(SubSeq(s, 1, k), SubSeq(s, k + 1, Len(s)), n)
           /\ U!ToSet(s) = U!ToSet(SubSeq(s, 1, k)) \cup U!ToSet(SubSeq(s, k + 1, Len(s)))
           /\ Len(SubSeq(s, 1, k)) = k /\ Len(SubSeq(s, k + 1, Len(s))) = Len(s) - k
<1> DEFINE a == SubSeq(s, 1, k)  b == SubSeq(s, k + 1, Len(s))
<1>0. s \in Seq(1..n) /\ Len(s) \in Nat /\ k \in Nat /\ k <= Len(s)
  OBVIOUS
<1>1. /\ a \in Seq(1..n) /\ Len(a) = k
      /\ b \in Seq(1..n) /\ Len(b) = Len(s) - k
  <2>1. a \in Seq(1..n) /\ b \in Seq(1..n)
    BY <1>0
  <2>2. Len(a) = k
    BY <1>0
  <2>3. Len(b) = Len(s) - k
    BY <1>0
  <2> QED
    BY <2>1, <2>2, <2>3
<1>2. a \o b = s
  <2>1. SubSeq(s, 1, Len(s)) = s
    BY SubSeqFull
  <2>2. 1 \in 1..(Len(s) + 1) /\ k \in (1 - 1)..Len(s) /\ Len(s) \in k..Len(s)
    OBVIOUS
  <2>3. a \o b = SubSeq(s, 1, Len(s))
    BY <2>2, ConcatAdjacentSubSeq
  <2> QED
    BY <2>1, <2>3, Zenon
<1> HIDE DEF a, b
<1>3. UsageInOrder(a, b, n) /\ U!ToSet(s) = U!ToSet(a) \cup U!ToSet(b)
  BY <1>1, <1>2, UsageJoined
<1> QED
  BY <1>1, <1>3 DEF a, b

\* One more event is the latest.
LEMMA UsageAppends ==
    ASSUME NEW n \in Nat, NEW p, NEW q, UsageInOrder(p, q, n)
    PROVE  /\ UsageInOrder(p, Append(q, n + 1), n + 1)
           /\ U!ToSet(Append(q, n + 1)) = U!ToSet(q) \cup {n + 1}
<1> DEFINE a == Append(q, n + 1)
<1>1. p \in Seq(1..n) /\ q \in Seq(1..n)
  BY DEF UsageInOrder
<1>2. p \in Seq(1..(n + 1)) /\ q \in Seq(1..(n + 1))
  BY <1>1
<1>3. /\ a \in Seq(1..(n + 1)) /\ Len(a) = Len(q) + 1 /\ a[Len(q) + 1] = n + 1
      /\ \A i \in 1..Len(q) : a[i] = q[i]
  BY <1>2, AppendProperties
<1>4. /\ Len(q) \in Nat /\ DOMAIN q = 1..Len(q) /\ DOMAIN a = 1..(Len(q) + 1)
      /\ DOMAIN p = 1..Len(p)
      /\ \A i \in 1..Len(q) : q[i] \in 1..n
      /\ \A i \in 1..Len(p) : p[i] \in 1..n
  BY <1>1, <1>3
<1> HIDE DEF a
<1>5. U!ToSet(a) = U!ToSet(q) \cup {n + 1}
  <2>1. \A i \in 1..(Len(q) + 1) : i \in 1..Len(q) \/ i = Len(q) + 1
    BY <1>4
  <2>2. \A i \in 1..Len(q) : i \in 1..(Len(q) + 1)
    BY <1>4
  <2>3. Len(q) + 1 \in 1..(Len(q) + 1)
    BY <1>4
  <2> QED
    BY <1>3, <1>4, <2>1, <2>2, <2>3 DEF U!ToSet
<1>6. UsageRising(a)
  <2>1. SUFFICES ASSUME NEW i \in 1..(Len(q) + 1), NEW j \in 1..(Len(q) + 1), i < j
                 PROVE  a[i] < a[j]
    BY <1>3 DEF UsageRising
  <2>2. i \in 1..Len(q)
    BY <1>4, <2>1
  <2>3. CASE j = Len(q) + 1
    BY <1>3, <1>4, <2>2, <2>3
  <2>4. CASE j \in 1..Len(q)
    BY <1>3, <2>1, <2>2, <2>4 DEF UsageInOrder, UsageRising
  <2> QED
    BY <1>4, <2>3, <2>4
<1>7. ASSUME NEW x \in U!ToSet(p), NEW y \in U!ToSet(a)
      PROVE  x < y
  <2>1. x \in 1..n
    BY <1>4 DEF U!ToSet
  <2>2. CASE y = n + 1
    BY <2>1, <2>2
  <2>3. CASE y \in U!ToSet(q)
    BY <2>3 DEF UsageInOrder
  <2> QED
    BY <1>5, <2>2, <2>3
<1> QED
  BY <1>2, <1>3, <1>5, <1>6, <1>7 DEF UsageInOrder, a

LEMMA UsageTrims ==
    ASSUME U!UsageAssumption, NEW n \in Nat, NEW p, NEW q, UsageInOrder(p, q, n)
    PROVE  /\ UsageInOrder(p, U!Trimmed(q), n)
           /\ U!ToSet(q) = U!Trims(q) \cup U!ToSet(U!Trimmed(q))
           /\ q # <<>> => U!Trimmed(q) # <<>>
<1>1. q \in Seq(1..n) /\ UsageRising(q) /\ Len(q) \in Nat /\ MaxQueued \in Nat \ {0}
  BY DEF UsageInOrder, U!UsageAssumption
<1>2. U!Over(q) \in 0..Len(q) /\ (q # <<>> => Len(q) - U!Over(q) > 0)
  BY <1>1 DEF U!Over
<1> DEFINE k == U!Over(q)  a == SubSeq(q, 1, k)  b == SubSeq(q, k + 1, Len(q))
<1>3. UsageInOrder(a, b, n) /\ U!ToSet(q) = U!ToSet(a) \cup U!ToSet(b) /\ Len(b) = Len(q) - k
  BY <1>1, <1>2, UsageCut
<1>4. U!Trimmed(q) = b /\ U!Trims(q) = U!ToSet(a)
  BY DEF U!Trimmed, U!Trims
<1> HIDE DEF a, b, k
<1>6. UsageInOrder(p, b, n)
  BY <1>3 DEF UsageInOrder
<1>7. q # <<>> => b # <<>>
  <2>1. q # <<>> => Len(b) > 0
    BY <1>2, <1>3 DEF k
  <2> QED
    BY <2>1
<1> QED
  BY <1>3, <1>4, <1>6, <1>7

\* What was there to send waits or is being sent, on its way.
UsageGoesOn(q, n) ==
    /\ UsageInOrder(posting', queue', n)
    /\ U!ToSet(q) = U!ToSet(queue') \cup U!ToSet(posting')
    /\ queue' # <<>> => flushTimer' \/ posting' # <<>>
    /\ flushTimer' => posting' = <<>>
    /\ post'.stage # "none" <=> posting' # <<>>
    /\ post' \in [who : Reporters \cup {Guest},
                  stage : {"none", "sent", "taken", "full", "refused"}]
    /\ post'.stage # "taken"
    /\ flushTimer' \in BOOLEAN

LEMMA UsagePosts ==
    ASSUME U!UsageAssumption, NEW n \in Nat, NEW q \in Seq(1..n), UsageRising(q), q # <<>>,
           signed \in Reporters \cup {Guest}, U!Posts(q)
    PROVE  UsageGoesOn(q, n)
<1>1. BatchEvents \in Nat \ {0} /\ Len(q) \in Nat /\ Len(q) > 0
  BY DEF U!UsageAssumption
<1> DEFINE k == IF Len(q) < BatchEvents THEN Len(q) ELSE BatchEvents
           a == SubSeq(q, 1, k)  b == SubSeq(q, k + 1, Len(q))
<1>2. k \in 0..Len(q) /\ k > 0
  BY <1>1
<1>3. U!Batch(q) = a
  BY DEF U!Batch
<1> HIDE DEF k
<1>4. /\ UsageInOrder(a, b, n) /\ U!ToSet(q) = U!ToSet(a) \cup U!ToSet(b) /\ Len(a) = k
  BY <1>2, UsageCut
<1>5. U!Rest(q) = b
  BY <1>3, <1>4 DEF U!Rest
<1> HIDE DEF a, b
<1>6. a # <<>>
  BY <1>2, <1>4
<1>7. /\ posting' = a /\ queue' = b /\ flushTimer' = FALSE
      /\ post' = [who |-> signed, stage |-> "sent"]
  BY <1>3, <1>5 DEF U!Posts
<1>8. post' \in [who : Reporters \cup {Guest},
                 stage : {"none", "sent", "taken", "full", "refused"}] /\ post'.stage = "sent"
  BY <1>7
<1>9. flushTimer' \in BOOLEAN
  BY <1>7
<1> QED
  BY <1>4, <1>6, <1>7, <1>8, <1>9 DEF UsageGoesOn

LEMMA UsageWaits ==
    ASSUME U!UsageAssumption, NEW n \in Nat, NEW q \in Seq(1..n), UsageRising(q),
           posting = <<>>, post.stage = "none",
           post \in [who : Reporters \cup {Guest},
                     stage : {"none", "sent", "taken", "full", "refused"}],
           U!Waits(q)
    PROVE  UsageGoesOn(q, n)
<1>1. queue' = q /\ posting' = <<>> /\ post' = post /\ flushTimer' = (q # <<>>)
  BY DEF U!Waits, U!Due
<1>2. U!ToSet(<<>>) = {} /\ <<>> \in Seq(1..n) /\ Len(<<>>) = 0
  BY DEF U!ToSet
<1>3. UsageRising(<<>>)
  BY <1>2 DEF UsageRising
<1>4. UsageInOrder(<<>>, q, n)
  BY <1>2, <1>3 DEF UsageInOrder
<1>5. flushTimer' \in BOOLEAN
  BY <1>1
<1>6. queue' # <<>> => flushTimer'
  BY <1>1
<1> QED
  BY <1>1, <1>2, <1>4, <1>5, <1>6 DEF UsageGoesOn

LEMMA UsageFlush ==
    ASSUME U!UsageAssumption, NEW n \in Nat, NEW q \in Seq(1..n), UsageRising(q),
           posting = <<>>, post.stage = "none", signed \in Reporters \cup {Guest},
           post \in [who : Reporters \cup {Guest},
                     stage : {"none", "sent", "taken", "full", "refused"}],
           U!Flush(q)
    PROVE  UsageGoesOn(q, n)
<1>1. CASE q = <<>>
  <2>1. U!Waits(q)
    BY <1>1 DEF U!Flush
  <2> QED
    BY <2>1, UsageWaits
<1>2. CASE q # <<>>
  <2>1. U!Posts(q)
    BY <1>2 DEF U!Flush
  <2> QED
    BY <1>2, <2>1, UsagePosts
<1> QED
  BY <1>1, <1>2

\* The invariant in parts: the tracker's, and the server's.
UsageTracker ==
    /\ signed \in Reporters \cup {Guest}
    /\ by \in Seq(Reporters \cup {Guest}) /\ Len(by) <= MaxEvents
    /\ UsageInOrder(posting, queue, Len(by))
    /\ failures \in 0..MaxFailures /\ flushTimer \in BOOLEAN /\ inBackground \in BOOLEAN
    /\ after \subseteq {"flush", "leaving"}
    /\ post \in [who : Reporters \cup {Guest},
                 stage : {"none", "sent", "taken", "full", "refused"}]
    /\ 1..Len(by) = U!ToSet(queue) \cup U!ToSet(posting) \cup ever \cup dropped
    /\ queue # <<>> => flushTimer \/ posting # <<>>
    /\ flushTimer => posting = <<>>
    /\ post.stage # "none" <=> posting # <<>>
    /\ post.stage = "taken" => U!ToSet(posting) \subseteq ever

UsageServer ==
    /\ accounts \subseteq Reporters
    /\ events \in [1..MaxEvents -> Reporters \cup {Guest, U!NoRow}]
    /\ counted \in Nat /\ keptToday \subseteq 1..Len(by) /\ ever \subseteq 1..Len(by)
    /\ counted <= DailyRoom /\ (accounts = Reporters => counted = Cardinality(keptToday))
    /\ accounts = Reporters => \A n \in keptToday : events[n] # U!NoRow

LEMMA UsageParts ==
    U!Inv <=> UsageTracker /\ UsageServer
<1>1. U!Events = 1..Len(by) \/ ~(by \in Seq(Reporters \cup {Guest}))
  BY DEF U!Events
<1>2. ASSUME by \in Seq(Reporters \cup {Guest}), queue \in Seq(1..Len(by)),
             posting \in Seq(1..Len(by))
      PROVE  U!OldestFirst <=> UsageInOrder(posting, queue, Len(by))
  <2> DEFINE all == posting \o queue
  <2>1. Len(by) \in Nat
    BY <1>2
  <2>2. all \in Seq(1..Len(by)) /\ (UsageInOrder(posting, queue, Len(by)) <=> UsageRising(all))
    BY <1>2, <2>1, UsageJoined
  <2>3. DOMAIN all = 1..Len(all)
    BY <2>2
  <2>4. U!OldestFirst <=> \A i, j \in DOMAIN all : i < j => all[i] < all[j]
    BY DEF U!OldestFirst
  <2> HIDE DEF all
  <2> QED
    BY <2>2, <2>3, <2>4 DEF UsageRising
<1>3. U!Inv => UsageTracker /\ UsageServer
  <2> SUFFICES ASSUME U!Inv
               PROVE  UsageTracker /\ UsageServer
    OBVIOUS
  <2>1. /\ U!TypeOK /\ U!NoneMislaid /\ U!OldestFirst /\ U!AlwaysOnItsWay /\ U!CostsOnce
        /\ post.stage # "none" <=> posting # <<>>
        /\ flushTimer => posting = <<>>
        /\ post.stage = "taken" => U!ToSet(posting) \subseteq ever
        /\ accounts = Reporters => \A n \in keptToday : events[n] # U!NoRow
    BY DEF U!Inv, U!Sending
  <2>2. by \in Seq(Reporters \cup {Guest}) /\ U!Events = 1..Len(by)
    BY <1>1, <2>1 DEF U!TypeOK
  <2>3. UsageInOrder(posting, queue, Len(by))
    BY <1>2, <2>1, <2>2 DEF U!TypeOK
  <2>4. UsageTracker
    BY <2>1, <2>2, <2>3 DEF UsageTracker, U!TypeOK, U!NoneMislaid, U!AlwaysOnItsWay, U!Sending
  <2>5. UsageServer
    BY <2>1, <2>2, SameSize DEF UsageServer, U!TypeOK, U!CostsOnce
  <2> QED
    BY <2>4, <2>5
<1>4. UsageTracker /\ UsageServer => U!Inv
  <2> SUFFICES ASSUME UsageTracker, UsageServer
               PROVE  U!Inv
    OBVIOUS
  <2>1. by \in Seq(Reporters \cup {Guest}) /\ U!Events = 1..Len(by)
    BY <1>1 DEF UsageTracker
  <2>2. queue \in Seq(1..Len(by)) /\ posting \in Seq(1..Len(by))
    BY DEF UsageTracker, UsageInOrder
  <2>3. U!OldestFirst
    BY <1>2, <2>1, <2>2 DEF UsageTracker
  <2>4. dropped \subseteq 1..Len(by)
    BY DEF UsageTracker
  <2>5. U!TypeOK
    BY <2>1, <2>2, <2>4 DEF UsageTracker, UsageServer, U!TypeOK
  <2>6. U!NoneMislaid /\ U!AlwaysOnItsWay
    BY <2>1 DEF UsageTracker, U!NoneMislaid, U!AlwaysOnItsWay, U!Sending
  <2>7. U!CostsOnce
    BY SameSize DEF UsageServer, U!CostsOnce
  <2> QED
    BY <2>3, <2>5, <2>6, <2>7 DEF UsageTracker, UsageServer, U!Inv, U!Sending
<1> QED
  BY <1>3, <1>4

LEMMA UsageInit ==
    ASSUME U!UsageAssumption, U!Init
    PROVE  U!Inv
<1>1. /\ U!ToSet(<<>>) = {} /\ Len(<<>>) = 0 /\ <<>> \in Seq(1..0)
      /\ <<>> \in Seq(Reporters \cup {Guest})
  BY DEF U!ToSet
<1>2. UsageRising(<<>>)
  BY <1>1 DEF UsageRising
<1>3. UsageInOrder(<<>>, <<>>, 0)
  BY <1>1, <1>2 DEF UsageInOrder
<1>4. /\ by = <<>> /\ queue = <<>> /\ posting = <<>> /\ keptToday = {} /\ ever = {} /\ dropped = {}
      /\ counted = 0 /\ failures = 0 /\ after = {} /\ accounts = Reporters
      /\ signed \in Reporters \cup {Guest}
      /\ post = [who |-> Guest, stage |-> "none"]
      /\ events = [n \in 1..MaxEvents |-> U!NoRow]
  BY DEF U!Init, U!NoPost
<1>5. flushTimer \in BOOLEAN /\ inBackground \in BOOLEAN
  BY DEF U!Init
<1>6. MaxEvents \in Nat /\ MaxFailures \in Nat /\ DailyRoom \in Nat
  BY DEF U!UsageAssumption
<1>7. Len(by) = 0 /\ 1..0 = {}
  BY <1>1, <1>4
<1>8. UsageTracker
  BY <1>1, <1>3, <1>4, <1>5, <1>6, <1>7 DEF UsageTracker
<1>9. Cardinality(keptToday) = 0
  BY <1>4, FS_EmptySet, Zenon
<1>10. UsageServer
  BY <1>4, <1>6, <1>7, <1>9 DEF UsageServer
<1> QED
  BY <1>8, <1>10, UsageParts

LEMMA UsageStep ==
    ASSUME U!UsageAssumption, U!Inv, [U!Next]_U!vars
    PROVE  U!Inv' /\ U!BacksOff
<1> DEFINE n == Len(by)
           Stages == {"none", "sent", "taken", "full", "refused"}
           People == Reporters \cup {Guest}
<1>0. /\ Guest \notin Reporters /\ U!NoRow \notin People
      /\ MaxEvents \in Nat /\ MaxFailures \in Nat /\ DailyRoom \in Nat
  BY DEF U!UsageAssumption
<1>1. UsageTracker /\ UsageServer
  BY UsageParts
<1>2. /\ signed \in People /\ by \in Seq(People) /\ n \in Nat /\ n <= MaxEvents
      /\ UsageInOrder(posting, queue, n) /\ failures \in 0..MaxFailures
      /\ flushTimer \in BOOLEAN /\ inBackground \in BOOLEAN
      /\ after \subseteq {"flush", "leaving"}
      /\ post \in [who : People, stage : Stages]
      /\ 1..n = U!ToSet(queue) \cup U!ToSet(posting) \cup ever \cup dropped
      /\ (queue # <<>> => flushTimer \/ posting # <<>>)
      /\ (flushTimer => posting = <<>>)
      /\ (post.stage # "none" <=> posting # <<>>)
      /\ (post.stage = "taken" => U!ToSet(posting) \subseteq ever)
  BY <1>1 DEF UsageTracker
<1>3. /\ queue \in Seq(1..n) /\ UsageRising(queue) /\ posting \in Seq(1..n)
  BY <1>2 DEF UsageInOrder
<1>4. U!ToSet(<<>>) = {}
  BY DEF U!ToSet
<1>5. SUFFICES UsageTracker' /\ UsageServer' /\ U!BacksOff
  <2>1. UsageTracker' /\ UsageServer' => U!Inv'
    BY UsageParts, PTL
  <2> QED
    BY <2>1
<1>6. ASSUME post' = post, failures' = failures
      PROVE  U!BacksOff
  BY <1>6 DEF U!BacksOff
<1>7. ASSUME post'.stage = "sent" => failures' = 0
      PROVE  U!BacksOff
  BY <1>7 DEF U!BacksOff
<1>8. ASSUME UNCHANGED <<accounts, events, counted, keptToday, ever>>, Len(by') \in Nat,
             n <= Len(by')
      PROVE  UsageServer'
  <2>1. 1..n \subseteq 1..Len(by')
    BY <1>2, <1>8
  <2> QED
    BY <1>1, <1>8, <2>1 DEF UsageServer
<1>9. ASSUME NEW q, UsageGoesOn(q, Len(by')),
             signed' \in People, by' \in Seq(People), Len(by') <= MaxEvents,
             failures' \in 0..MaxFailures, inBackground' \in BOOLEAN,
             after' \subseteq {"flush", "leaving"},
             1..Len(by') = U!ToSet(q) \cup ever' \cup dropped'
      PROVE  UsageTracker'
  BY <1>9 DEF UsageGoesOn, UsageTracker
<1>10. ASSUME U!Happens, inBackground' \in BOOLEAN
       PROVE  UsageTracker' /\ UsageServer' /\ U!BacksOff
  <2> DEFINE q == Append(queue, n + 1)  t == U!Trimmed(q)
  <2>1. /\ n + 1 <= MaxEvents /\ by' = Append(by, signed) /\ dropped' = dropped \cup U!Trims(q)
        /\ UNCHANGED <<signed, accounts, events, counted, keptToday, ever, failures, after>>
    BY <1>10 DEF U!Happens, U!server
  <2>2. Len(by') = n + 1 /\ by' \in Seq(People)
    BY <1>2, <2>1
  <2>3. UsageInOrder(posting, q, n + 1) /\ U!ToSet(q) = U!ToSet(queue) \cup {n + 1}
    BY <1>2, UsageAppends
  <2>4. UsageInOrder(posting, t, n + 1) /\ U!ToSet(q) = U!Trims(q) \cup U!ToSet(t)
    <3>1. n + 1 \in Nat
      BY <1>2
    <3> HIDE DEF q
    <3> QED
      BY <2>3, <3>1, UsageTrims
  <2>5. 1..(n + 1) = (1..n) \cup {n + 1}
    BY <1>2
  <2>6. 1..(n + 1) = U!ToSet(t) \cup U!ToSet(posting) \cup ever' \cup dropped'
    BY <1>2, <2>1, <2>3, <2>4, <2>5
  <2>7. UsageServer'
    BY <1>2, <1>8, <2>1, <2>2
  <2>8. t \in Seq(1..(n + 1)) /\ UsageRising(t)
    BY <2>4 DEF UsageInOrder
  <2> HIDE DEF t
  <2>9. CASE posting # <<>>
    <3>1. queue' = t /\ UNCHANGED <<posting, flushTimer, post>>
      BY <1>10, <2>9 DEF U!Happens, U!Sending, t
    <3>2. UsageInOrder(posting', queue', Len(by'))
      BY <2>2, <2>4, <3>1
    <3>3. 1..Len(by') = U!ToSet(queue') \cup U!ToSet(posting') \cup ever' \cup dropped'
      BY <2>2, <2>6, <3>1
    <3>4. UsageTracker'
      BY <1>2, <1>10, <2>1, <2>2, <2>9, <3>1, <3>2, <3>3 DEF UsageTracker
    <3> QED
      BY <1>6, <2>1, <2>7, <3>1, <3>4
  <2>10. CASE posting = <<>>
    <3>1. (U!Flush(t) /\ failures = 0) \/ U!Waits(t)
      BY <1>10, <2>10 DEF U!Happens, U!Sending, t
    <3>2. post.stage = "none"
      BY <1>2, <2>10
    <3>3. UsageGoesOn(t, n + 1)
      BY <1>2, <2>8, <2>10, <3>1, <3>2, UsageFlush, UsageWaits
    <3>4. 1..Len(by') = U!ToSet(t) \cup ever' \cup dropped'
      BY <1>4, <2>2, <2>6, <2>10
    <3>5. UsageTracker'
      BY <1>2, <1>9, <1>10, <2>1, <2>2, <3>3, <3>4
    <3>6. failures' = 0 \/ post' = post
      BY <2>1, <3>1 DEF U!Waits
    <3> QED
      BY <1>6, <1>7, <2>1, <2>7, <3>5, <3>6
  <2> QED
    BY <2>9, <2>10
<1>11. CASE U!Track
  BY <1>2, <1>10, <1>11 DEF U!Track
<1>12. CASE U!Foreground
  <2>1. U!Happens /\ inBackground' \in BOOLEAN
    BY <1>12 DEF U!Foreground
  <2> QED
    BY <1>10, <2>1
<1>13. ASSUME by' = by, signed' = signed, NEW q, UsageGoesOn(q, n), failures' \in 0..MaxFailures,
              inBackground' \in BOOLEAN, after' \subseteq {"flush", "leaving"},
              1..n = U!ToSet(q) \cup ever \cup dropped',
              UNCHANGED <<accounts, events, counted, keptToday, ever>>
       PROVE  UsageTracker' /\ UsageServer'
  <2>1. UsageTracker'
    BY <1>2, <1>9, <1>13
  <2>2. UsageServer'
    BY <1>2, <1>8, <1>13
  <2> QED
    BY <2>1, <2>2
<1>14. CASE U!TimerFires
  <2>1. /\ flushTimer /\ U!Flush(queue)
        /\ UNCHANGED <<signed, accounts, events, counted, keptToday, ever, by, failures,
                       inBackground, after, dropped>>
    BY <1>14 DEF U!TimerFires, U!server
  <2>2. posting = <<>> /\ post.stage = "none"
    BY <1>2, <2>1
  <2>3. UsageGoesOn(queue, n)
    BY <1>2, <1>3, <2>1, <2>2, UsageFlush
  <2>4. 1..n = U!ToSet(queue) \cup ever \cup dropped'
    BY <1>2, <1>4, <2>1, <2>2
  <2>5. U!BacksOff
    BY <2>1 DEF U!BacksOff
  <2> QED
    BY <1>2, <1>13, <2>1, <2>3, <2>4, <2>5
<1>15. CASE U!Background
  <2> DEFINE q == Append(queue, n + 1)  t == U!Trimmed(q)
  <2>1. /\ n < MaxEvents /\ by' = Append(by, signed) /\ dropped' = dropped \cup U!Trims(q)
        /\ inBackground' = TRUE
        /\ UNCHANGED <<signed, accounts, events, counted, keptToday, ever, failures>>
    BY <1>15 DEF U!Background, U!server
  <2>2. Len(by') = n + 1 /\ by' \in Seq(People) /\ n + 1 <= MaxEvents
    BY <1>0, <1>2, <2>1
  <2>3. UsageInOrder(posting, q, n + 1) /\ U!ToSet(q) = U!ToSet(queue) \cup {n + 1}
    BY <1>2, UsageAppends
  <2>4. UsageInOrder(posting, t, n + 1) /\ U!ToSet(q) = U!Trims(q) \cup U!ToSet(t)
    <3>1. n + 1 \in Nat
      BY <1>2
    <3> HIDE DEF q
    <3> QED
      BY <2>3, <3>1, UsageTrims
  <2>5. 1..(n + 1) = (1..n) \cup {n + 1}
    BY <1>2
  <2>6. 1..(n + 1) = U!ToSet(t) \cup U!ToSet(posting) \cup ever' \cup dropped'
    BY <1>2, <2>1, <2>3, <2>4, <2>5
  <2>7. UsageServer'
    BY <1>2, <1>8, <2>1, <2>2
  <2>8. t \in Seq(1..(n + 1)) /\ UsageRising(t)
    BY <2>4 DEF UsageInOrder
  <2>9. U!BacksOff /\ inBackground' \in BOOLEAN
    BY <2>1 DEF U!BacksOff
  <2> HIDE DEF t
  <2>10. CASE posting # <<>>
    <3>1. /\ queue' = t /\ after' = after \cup {"leaving"} /\ flushTimer' = FALSE
          /\ UNCHANGED <<posting, post>>
      BY <1>15, <2>10 DEF U!Background, U!Sending, t
    <3>2. UsageInOrder(posting', queue', Len(by'))
      BY <2>2, <2>4, <3>1
    <3>3. 1..Len(by') = U!ToSet(queue') \cup U!ToSet(posting') \cup ever' \cup dropped'
      BY <2>2, <2>6, <3>1
    <3>4. flushTimer' \in BOOLEAN /\ ~flushTimer'
      BY <3>1
    <3>5. UsageTracker'
      BY <1>2, <2>1, <2>2, <2>9, <2>10, <3>1, <3>2, <3>3, <3>4 DEF UsageTracker
    <3> QED
      BY <2>7, <2>9, <3>5
  <2>11. CASE posting = <<>>
    <3>1. U!Flush(t) /\ after' = after
      BY <1>15, <2>11 DEF U!Background, U!Sending, t
    <3>2. post.stage = "none"
      BY <1>2, <2>11
    <3>3. UsageGoesOn(t, n + 1)
      BY <1>2, <2>8, <2>11, <3>1, <3>2, UsageFlush
    <3>4. 1..Len(by') = U!ToSet(t) \cup ever' \cup dropped'
      BY <1>4, <2>2, <2>6, <2>11
    <3>5. UsageTracker'
      BY <1>2, <1>9, <2>1, <2>2, <2>9, <3>1, <3>3, <3>4
    <3> QED
      BY <2>7, <2>9, <3>5
  <2> QED
    BY <2>10, <2>11
<1>16. CASE U!Inactive
  <2>1. UNCHANGED <<signed, accounts, events, counted, keptToday, ever, by, failures,
                    inBackground, dropped>>
    BY <1>16 DEF U!Inactive, U!server
  <2>2. CASE posting # <<>>
    <3>1. /\ after' = after \cup {"flush"} /\ flushTimer' = FALSE
          /\ UNCHANGED <<queue, posting, post>>
      BY <1>16, <2>2 DEF U!Inactive, U!Sending
    <3>2. flushTimer' \in BOOLEAN /\ ~flushTimer'
      BY <3>1
    <3>3. UsageTracker'
      BY <1>2, <2>1, <2>2, <3>1, <3>2 DEF UsageTracker
    <3>4. UsageServer'
      BY <1>2, <1>8, <2>1
    <3> QED
      BY <1>6, <2>1, <3>1, <3>3, <3>4
  <2>3. CASE posting = <<>>
    <3>1. /\ after' = after
          /\ (failures > 0 /\ U!Waits(queue)) \/ (~(failures > 0) /\ U!Flush(queue))
      BY <1>16, <2>3 DEF U!Inactive, U!Sending
    <3>2. post.stage = "none"
      BY <1>2, <2>3
    <3>3. UsageGoesOn(queue, n)
      BY <1>2, <1>3, <2>3, <3>1, <3>2, UsageFlush, UsageWaits
    <3>4. 1..n = U!ToSet(queue) \cup ever \cup dropped'
      BY <1>2, <1>4, <2>1, <2>3
    <3>5. UsageTracker' /\ UsageServer'
      BY <1>2, <1>13, <2>1, <3>1, <3>3, <3>4
    <3>6. post' = post \/ failures' = 0
      BY <1>2, <2>1, <3>1 DEF U!Waits
    <3> QED
      BY <1>6, <1>7, <2>1, <3>5, <3>6
  <2> QED
    BY <2>2, <2>3
<1>17. CASE U!Failed
  <2> DEFINE q == posting \o queue  t == U!Trimmed(q)
  <2>1. /\ post.stage \in {"sent", "taken", "full"} /\ failures < MaxFailures
        /\ failures' = failures + 1 /\ after' = {} /\ dropped' = dropped \cup U!Trims(q)
        /\ UNCHANGED <<signed, accounts, events, counted, keptToday, ever, by, inBackground>>
    BY <1>17 DEF U!Failed, U!PutBack, U!server
  <2>2. posting # <<>>
    BY <1>2, <2>1
  <2>3. /\ q \in Seq(1..n) /\ UsageRising(q) /\ U!ToSet(q) = U!ToSet(posting) \cup U!ToSet(queue)
    BY <1>2, <1>3, UsageJoined
  <2>4. q # <<>>
    BY <1>3, <2>2, ConcatEqualIffEmpty
  <2> HIDE DEF q
  <2>5. UsageInOrder(<<>>, q, n)
    <3>1. <<>> \in Seq(1..n) /\ Len(<<>>) = 0
      OBVIOUS
    <3>2. UsageRising(<<>>)
      BY <3>1 DEF UsageRising
    <3> QED
      BY <1>4, <2>3, <3>1, <3>2 DEF UsageInOrder
  <2>6. /\ UsageInOrder(<<>>, t, n) /\ U!ToSet(q) = U!Trims(q) \cup U!ToSet(t) /\ t # <<>>
    BY <1>2, <2>4, <2>5, UsageTrims
  <2>7. t \in Seq(1..n) /\ UsageRising(t)
    BY <2>6 DEF UsageInOrder
  <2>8. 1..n = U!ToSet(t) \cup ever \cup dropped'
    BY <1>2, <2>1, <2>3, <2>6
  <2>9. failures' \in 0..MaxFailures /\ after' \subseteq {"flush", "leaving"}
    <3>1. failures + 1 \in 0..MaxFailures
      BY <1>0, <1>2, <2>1
    <3> QED
      BY <2>1, <3>1
  <2>10. CASE U!TriesAgain(after)
    <3>1. U!Posts(t)
      BY <1>17, <2>10 DEF U!Failed, U!PutBack, q
    <3>2. UsageGoesOn(t, n)
      BY <1>2, <2>6, <2>7, <3>1, UsagePosts
    <3>3. U!BacksOff
      BY <2>10 DEF U!BacksOff, U!TriesAgain
    <3> HIDE DEF t
    <3> QED
      BY <1>2, <1>13, <2>1, <2>8, <2>9, <3>2, <3>3
  <2>11. CASE ~U!TriesAgain(after)
    <3>1. /\ queue' = t /\ posting' = <<>> /\ post' = [who |-> Guest, stage |-> "none"]
          /\ flushTimer' = (t # <<>>)
      BY <1>17, <2>11 DEF U!Failed, U!PutBack, U!NoPost, U!Due, q
    <3> HIDE DEF t
    <3>2. flushTimer' \in BOOLEAN /\ (queue' # <<>> => flushTimer')
      BY <3>1
    <3>3. post' \in [who : People, stage : Stages] /\ post'.stage = "none"
      BY <3>1
    <3>4. UsageGoesOn(t, n)
      BY <1>4, <2>6, <3>1, <3>2, <3>3 DEF UsageGoesOn
    <3> QED
      BY <1>2, <1>7, <1>13, <2>1, <2>8, <2>9, <3>3, <3>4
  <2> QED
    BY <2>10, <2>11
<1>18. CASE U!Sent
  <2>1. /\ post.stage \in {"taken", "refused"} /\ failures' = 0
        /\ after' = (IF queue = <<>> THEN {} ELSE after)
        /\ dropped' = (IF post.stage = "refused" THEN dropped \cup U!ToSet(posting) ELSE dropped)
        /\ UNCHANGED <<signed, accounts, events, counted, keptToday, ever, by, inBackground>>
    BY <1>18 DEF U!Sent, U!server
  <2>2. /\ failures' \in 0..MaxFailures /\ after' \subseteq {"flush", "leaving"}
    <3>1. 0 \in 0..MaxFailures
      BY <1>0
    <3>2. after' \subseteq after
      BY <2>1
    <3> QED
      BY <1>2, <2>1, <3>1, <3>2
  <2>3. 1..n = U!ToSet(queue) \cup ever \cup dropped'
    <3>1. CASE post.stage = "refused"
      BY <1>2, <2>1, <3>1
    <3>2. CASE post.stage = "taken"
      BY <1>2, <2>1, <3>2
    <3> QED
      BY <2>1, <3>1, <3>2
  <2>4. UsageGoesOn(queue, n)
    <3>1. CASE queue # <<>>
      <4>1. U!Posts(queue)
        BY <1>18, <3>1 DEF U!Sent
      <4> QED
        BY <1>2, <1>3, <3>1, <4>1, UsagePosts
    <3>2. CASE queue = <<>>
      <4>1. /\ posting' = <<>> /\ post' = [who |-> Guest, stage |-> "none"]
            /\ UNCHANGED <<queue, flushTimer>>
        BY <1>18, <3>2 DEF U!Sent, U!NoPost
      <4>2. <<>> \in Seq(1..n) /\ Len(<<>>) = 0
        OBVIOUS
      <4>3. UsageRising(<<>>)
        BY <4>2 DEF UsageRising
      <4>4. UsageInOrder(posting', queue', n)
        BY <1>3, <1>4, <4>1, <4>2, <4>3 DEF UsageInOrder
      <4>5. post' \in [who : People, stage : Stages] /\ post'.stage = "none"
        BY <4>1
      <4> QED
        BY <1>2, <1>4, <3>2, <4>1, <4>4, <4>5 DEF UsageGoesOn
    <3> QED
      BY <3>1, <3>2
  <2> QED
    BY <1>2, <1>7, <1>13, <2>1, <2>2, <2>3, <2>4
<1>19. CASE U!Take
  <2> DEFINE these == U!ToSet(posting)  new == U!New(these)
  <2>1. /\ post.stage = "sent"
        /\ UNCHANGED <<signed, accounts, by, queue, posting, failures, flushTimer, inBackground,
                       after, dropped>>
    BY <1>19 DEF U!Take, U!tracker
  <2>2. CASE counted + U!Counts(these) > DailyRoom
    <3>1. /\ post' = [post EXCEPT !.stage = "full"]
          /\ UNCHANGED <<events, counted, keptToday, ever>>
      BY <1>19, <2>2 DEF U!Take
    <3>2. post' \in [who : People, stage : Stages] /\ post'.stage = "full"
      BY <1>2, <3>1
    <3>3. UsageTracker'
      BY <1>2, <2>1, <3>1, <3>2 DEF UsageTracker
    <3>4. UsageServer'
      BY <1>2, <1>8, <2>1, <3>1
    <3> QED
      BY <1>7, <3>2, <3>3, <3>4
  <2>3. CASE ~(counted + U!Counts(these) > DailyRoom)
    <3>1. /\ post' = [post EXCEPT !.stage = "taken"]
          /\ events' = [m \in DOMAIN events |-> IF m \in new THEN U!Whose(post.who) ELSE events[m]]
          /\ counted' = counted + U!Counts(these) /\ keptToday' = keptToday \cup new
          /\ ever' = ever \cup these
      BY <1>19, <2>3 DEF U!Take
    <3>2. post' \in [who : People, stage : Stages] /\ post'.stage = "taken"
      BY <1>2, <3>1
    <3>3. these \subseteq 1..n /\ new \subseteq these
      BY <1>3 DEF U!ToSet, U!New
    <3>4. 1..n = U!ToSet(queue) \cup U!ToSet(posting) \cup ever' \cup dropped
      BY <1>2, <3>1
    <3>5. UsageTracker'
      BY <1>2, <2>1, <3>1, <3>2, <3>4 DEF UsageTracker
    <3>6. IsFiniteSet(1..n)
      BY <1>2, Interval
    <3>7. IsFiniteSet(new) /\ IsFiniteSet(keptToday)
      <4>1. new \subseteq 1..n /\ keptToday \subseteq 1..n
        BY <1>1, <3>3 DEF UsageServer
      <4> QED
        BY <3>6, <4>1, FS_Subset
    <3>8. Cardinality(new) \in Nat /\ U!Counts(these) = Cardinality(new)
      BY <3>7, FS_CardinalityType, SameSize DEF U!Counts
    <3>9. /\ counted \in Nat /\ counted <= DailyRoom
          /\ (accounts = Reporters => counted = Cardinality(keptToday))
          /\ (accounts = Reporters => \A m \in keptToday : events[m] # U!NoRow)
          /\ keptToday \subseteq 1..n /\ ever \subseteq 1..n /\ accounts \subseteq Reporters
          /\ events \in [1..MaxEvents -> Reporters \cup {Guest, U!NoRow}]
      BY <1>1 DEF UsageServer
    <3>10. counted' \in Nat /\ counted' <= DailyRoom
      BY <1>0, <2>3, <3>1, <3>8, <3>9
    <3>11. U!Whose(post.who) \in People
      BY <3>9 DEF U!Whose
    <3>12. events' \in [1..MaxEvents -> Reporters \cup {Guest, U!NoRow}]
      BY <3>1, <3>9, <3>11
    <3>13. ASSUME accounts = Reporters
           PROVE  counted' = Cardinality(keptToday')
      <4>1. \A m \in new : events[m] = U!NoRow
        BY DEF U!New
      <4>2. keptToday \cap new = {}
        BY <3>9, <3>13, <4>1
      <4>3. Cardinality(keptToday \cap new) = 0
        BY <4>2, FS_EmptySet, Zenon
      <4>4. Cardinality(keptToday) \in Nat
        BY <3>7, FS_CardinalityType
      <4> HIDE DEF new
      <4>5. Cardinality(keptToday \cup new) =
              Cardinality(keptToday) + Cardinality(new) - Cardinality(keptToday \cap new)
        BY <3>7, FS_Union
      <4> QED
        BY <3>1, <3>8, <3>9, <3>13, <4>3, <4>4, <4>5
    <3>14. ASSUME accounts = Reporters, NEW m \in keptToday'
           PROVE  events'[m] # U!NoRow
      <4>1. m \in 1..MaxEvents
        BY <1>0, <1>2, <3>1, <3>3, <3>9
      <4>2. CASE m \in new
        BY <1>0, <3>1, <3>9, <3>11, <4>1, <4>2
      <4>3. CASE m \notin new
        BY <3>1, <3>9, <3>14, <4>1, <4>3
      <4> QED
        BY <4>2, <4>3
    <3>15. keptToday' \subseteq 1..n /\ ever' \subseteq 1..n
      BY <3>1, <3>3, <3>9
    <3> HIDE DEF new, these
    <3>16. UsageServer'
      BY <2>1, <3>9, <3>10, <3>12, <3>13, <3>14, <3>15 DEF UsageServer
    <3> QED
      BY <1>7, <3>2, <3>5, <3>16
  <2> QED
    BY <2>2, <2>3
<1>20. CASE U!Refuse
  <2>1. /\ post.stage = "sent" /\ post' = [post EXCEPT !.stage = "refused"]
        /\ UNCHANGED <<signed, accounts, events, counted, keptToday, ever, by, queue, posting,
                       failures, flushTimer, inBackground, after, dropped>>
    BY <1>20 DEF U!Refuse, U!server, U!tracker
  <2>2. post' \in [who : People, stage : Stages] /\ post'.stage = "refused"
    BY <1>2, <2>1
  <2>3. UsageTracker'
    BY <1>2, <2>1, <2>2 DEF UsageTracker
  <2>4. UsageServer'
    BY <1>2, <1>8, <2>1
  <2> QED
    BY <1>7, <2>2, <2>3, <2>4
<1>21. CASE U!NewDay
  <2>1. /\ counted' = 0 /\ keptToday' = {}
        /\ UNCHANGED <<signed, accounts, by, queue, posting, failures, flushTimer, inBackground,
                       after, post, events, ever, dropped>>
    BY <1>21 DEF U!NewDay, U!tracker
  <2>2. Cardinality(keptToday') = 0
    BY <2>1, FS_EmptySet, Zenon
  <2>3. UsageServer'
    BY <1>0, <1>1, <2>1, <2>2 DEF UsageServer
  <2>4. UsageTracker'
    BY <1>1, <2>1 DEF UsageTracker
  <2> QED
    BY <1>6, <2>1, <2>3, <2>4
<1>22. CASE U!DeleteAccount
  <2>1. /\ signed \in accounts /\ accounts' = accounts \ {signed}
        /\ events' = [m \in DOMAIN events |-> IF m \in U!Its(signed) THEN U!NoRow ELSE events[m]]
        /\ UNCHANGED <<signed, by, queue, posting, failures, flushTimer, inBackground, after, post,
                       counted, keptToday, ever, dropped>>
    BY <1>22 DEF U!DeleteAccount, U!tracker
  <2>2. accounts' \subseteq Reporters /\ accounts' # Reporters
    BY <1>1, <2>1 DEF UsageServer
  <2>3. events' \in [1..MaxEvents -> Reporters \cup {Guest, U!NoRow}]
    BY <1>1, <2>1 DEF UsageServer
  <2>4. UsageServer'
    BY <1>1, <2>1, <2>2, <2>3 DEF UsageServer
  <2>5. UsageTracker'
    BY <1>1, <2>1 DEF UsageTracker
  <2> QED
    BY <1>6, <2>1, <2>4, <2>5
<1>23. ASSUME signed' \in People,
              UNCHANGED <<accounts, events, counted, keptToday, ever, by, queue, posting, failures,
                          flushTimer, inBackground, after, post, dropped>>
       PROVE  UsageTracker' /\ UsageServer' /\ U!BacksOff
  BY <1>1, <1>6, <1>23 DEF UsageTracker, UsageServer
<1>24. CASE U!SignOut
  BY <1>23, <1>24 DEF U!SignOut, U!server, U!tracker
<1>25. CASE \E a \in Reporters : U!SignIn(a)
  BY <1>23, <1>25 DEF U!SignIn, U!server, U!tracker
<1>26. CASE UNCHANGED U!vars
  BY <1>2, <1>23, <1>26 DEF U!vars
<1> QED
  BY <1>11, <1>12, <1>14, <1>15, <1>16, <1>17, <1>18, <1>19, <1>20, <1>21, <1>22, <1>24, <1>25,
     <1>26 DEF U!Next

-----------------------------------------------------------------------------
(* The server's log of requests.                                           *)

LEMMA RequestsInit ==
    ASSUME Q!RequestLogAssumption, Q!Init
    PROVE  Q!Inv
<1>1. DOMAIN named = {}
  BY DEF Q!Init, Q!NoneNamed
<1>2. Cardinality(DOMAIN named) = 0 /\ IsFiniteSet(DOMAIN named)
  BY <1>1, FS_EmptySet, Zenon
<1>3. Q!Cardinality(DOMAIN named) <= Remembered
  BY <1>2, SameSize DEF Q!RequestLogAssumption
<1>4. Q!IsFiniteSet(DOMAIN named)
  BY <1>2 DEF IsFiniteSet, Q!IsFiniteSet
<1> QED
  BY <1>1, <1>3, <1>4 DEF Q!Init, Q!Inv, Q!TypeOK, Q!DeletedStaysOut, Q!FewAreNamed,
     Q!AlwaysWritten, Q!RequestLogAssumption

\* What is remembered of tokens: few, each typed, and none names an account that is gone.
RequestsFit(map, those) ==
    /\ DOMAIN map \subseteq Q!Tokens
    /\ Q!IsFiniteSet(DOMAIN map) /\ Q!Cardinality(DOMAIN map) <= Remembered
    /\ \A t \in DOMAIN map :
        map[t] \in [id : Askers \cup {NoUser}, until : Nat] /\ map[t].id \in those \cup {NoUser}

\* A request names the account it was let in for, or one that is there.
LEMMA RequestsWho ==
    ASSUME Q!RequestLogAssumption, Q!Inv, NEW q \in Q!Request
    PROVE  /\ RequestsFit(Q!Who(named, q).map, users)
           /\ Q!Who(named, q).id \in Askers \cup {NoUser}
           /\ Q!Who(named, q).id \in users \cup {NoUser} \/ Q!Who(named, q).id = q.user
<1> DEFINE w == Q!Who(named, q)
<1>1. RequestsFit(named, users)
  BY DEF Q!Inv, Q!TypeOK, Q!FewAreNamed, RequestsFit
<1>2. /\ q.user \in Askers \cup {NoUser} /\ q.token \in Q!Tokens \cup {NoUser}
      /\ users \subseteq Askers /\ now \in Nat /\ Memory \in Nat
  BY DEF Q!Request, Q!Inv, Q!TypeOK, Q!RequestLogAssumption
<1>3. CASE q.user # NoUser \/ q.token = NoUser
  BY <1>1, <1>2, <1>3 DEF Q!Who
<1>4. CASE ~(q.user # NoUser \/ q.token = NoUser) /\ Q!Knows(named, q.token)
  BY <1>1, <1>2, <1>4 DEF Q!Who, Q!Knows, RequestsFit
<1>5. CASE ~(q.user # NoUser \/ q.token = NoUser) /\ ~Q!Knows(named, q.token)
  <2> DEFINE room == Q!MadeRoom(named)
             id == Q!UserByToken(q.token)
             D == DOMAIN room \cup {q.token}
             map == [t \in D |-> IF t = q.token THEN [id |-> id, until |-> now + Memory]
                                 ELSE room[t]]
  <2>1. w = [id |-> id, map |-> map]
    BY <1>5 DEF Q!Who
  <2>2. id \in users \cup {NoUser}
    BY DEF Q!UserByToken
  <2>3. RequestsFit(room, users) /\ Cardinality(DOMAIN room) < Remembered
    <3>1. CASE Q!Cardinality(DOMAIN named) >= Remembered
      <4>1. DOMAIN room = {}
        BY <3>1 DEF Q!MadeRoom, Q!NoneNamed
      <4>2. Cardinality(DOMAIN room) = 0 /\ IsFiniteSet(DOMAIN room)
        BY <4>1, FS_EmptySet, Zenon
      <4>3. Q!IsFiniteSet(DOMAIN room)
        BY <4>2 DEF IsFiniteSet, Q!IsFiniteSet
      <4>4. 0 < Remembered /\ 0 <= Remembered
        BY DEF Q!RequestLogAssumption
      <4> HIDE DEF room
      <4> QED
        BY <4>1, <4>2, <4>3, <4>4, SameSize DEF RequestsFit
    <3>2. CASE ~(Q!Cardinality(DOMAIN named) >= Remembered)
      <4>1. room = named
        BY <3>2 DEF Q!MadeRoom
      <4>2. IsFiniteSet(DOMAIN named)
        BY <1>1 DEF RequestsFit, IsFiniteSet, Q!IsFiniteSet
      <4>3. Cardinality(DOMAIN named) \in Nat
        BY <4>2, FS_CardinalityType
      <4>4. Remembered \in Nat
        BY DEF Q!RequestLogAssumption
      <4> QED
        BY <1>1, <3>2, <4>1, <4>3, <4>4, SameSize
    <3> QED
      BY <3>1, <3>2
  <2> HIDE DEF room, id
  <2>4. IsFiniteSet(DOMAIN room)
    BY <2>3 DEF RequestsFit, IsFiniteSet, Q!IsFiniteSet
  <2>5. /\ IsFiniteSet(D)
        /\ Cardinality(D) = IF q.token \in DOMAIN room THEN Cardinality(DOMAIN room)
                            ELSE Cardinality(DOMAIN room) + 1
    BY <2>4, FS_AddElement
  <2>6. Cardinality(DOMAIN room) \in Nat /\ Remembered \in Nat
    BY <2>4, FS_CardinalityType DEF Q!RequestLogAssumption
  <2>7. Cardinality(D) <= Remembered
    BY <2>3, <2>5, <2>6
  <2>8. Q!IsFiniteSet(D) /\ Q!Cardinality(D) <= Remembered
    BY <2>5, <2>7, SameSize DEF IsFiniteSet, Q!IsFiniteSet
  <2>9. D \subseteq Q!Tokens
    BY <1>2, <1>5, <2>3 DEF RequestsFit
  <2>10. \A t \in D : /\ map[t] \in [id : Askers \cup {NoUser}, until : Nat]
                      /\ map[t].id \in users \cup {NoUser}
    <3> TAKE t \in D
    <3>1. CASE t = q.token
      BY <1>2, <2>2, <3>1
    <3>2. CASE t # q.token
      BY <2>3, <3>2 DEF RequestsFit
    <3> QED
      BY <3>1, <3>2
  <2>11. DOMAIN map = D
    OBVIOUS
  <2> HIDE DEF map, D
  <2>12. RequestsFit(map, users)
    BY <2>8, <2>9, <2>10, <2>11 DEF RequestsFit
  <2> QED
    BY <1>2, <2>1, <2>2, <2>12
<1> QED
  BY <1>3, <1>4, <1>5

\* The row pushed is no other account's, and has a write coming.
LEMMA RequestsPush ==
    ASSUME Q!RequestLogAssumption, Q!Inv, NEW q \in Q!Request, NEW list \in SUBSET waiting,
           NEW user \in Askers \cup {NoUser}, Q!Push(list, q, user)
    PROVE  /\ waiting' \subseteq Q!Row /\ scheduled' \in Nat
           /\ waiting' # {} => scheduled' > 0
           /\ \A rec \in waiting' : rec \in list \/ (rec.user = user /\ rec.r = q.r)
<1>1. /\ waiting \subseteq Q!Row /\ scheduled \in Nat
      /\ waiting # {} => scheduled > 0
  BY DEF Q!Inv, Q!TypeOK, Q!AlwaysWritten
<1>2. CASE user = NoUser /\ q.device = NoUser
  <2>1. waiting' = list /\ scheduled' = scheduled
    BY <1>2 DEF Q!Push
  <2> QED
    BY <1>1, <2>1
<1>3. CASE ~(user = NoUser /\ q.device = NoUser)
  <2> DEFINE new == [r |-> q.r, user |-> user, device |-> q.device]
  <2>1. new \in Q!Row
    BY DEF Q!Row, Q!Request
  <2>2. waiting' = list \cup {new} /\ scheduled' = IF list = {} THEN scheduled + 1 ELSE scheduled
    BY <1>3 DEF Q!Push
  <2>3. scheduled' \in Nat /\ scheduled' > 0
    <3>1. CASE list = {}
      BY <1>1, <2>2, <3>1
    <3>2. CASE list # {}
      BY <1>1, <2>2, <3>2
    <3> QED
      BY <3>1, <3>2
  <2> QED
    BY <1>1, <2>1, <2>2, <2>3
<1> QED
  BY <1>2, <1>3

LEMMA RequestsStep ==
    ASSUME Q!RequestLogAssumption, Q!Inv, [Q!Next]_Q!vars
    PROVE  Q!Inv'
<1> USE DEF Q!RequestLogAssumption
<1> DEFINE Ins(q, those, way) == /\ q \in Q!Request
                                 /\ q.user \in those \cup {NoUser} \/ q.r \in way
                                 /\ q.route = "deleteMe" => q.user # NoUser
           Out(rec, those, way) == rec.user \in those \cup {NoUser} \/ rec.r \in way
<1>1. /\ \A q \in inside : Ins(q, users, underWay)
      /\ \A rec \in requestRows \cup waiting : Out(rec, users, underWay)
      /\ RequestsFit(named, users)
      /\ users \subseteq Askers /\ requestRows \subseteq Q!Row /\ came \in 0..MaxRequests
      /\ waiting \subseteq Q!Row /\ scheduled \in Nat /\ now \in 0..LogTime
      /\ underWay \subseteq Q!Requests /\ (waiting # {} => scheduled > 0)
  BY DEF Q!Inv, Q!TypeOK, Q!DeletedStaysOut, Q!FewAreNamed, Q!AlwaysWritten, RequestsFit
<1>2. ASSUME \A q \in inside' : Ins(q, users', underWay'),
             \A rec \in requestRows' \cup waiting' : Out(rec, users', underWay'),
             RequestsFit(named', users'),
             users' \subseteq Askers, requestRows' \subseteq Q!Row, came' \in 0..MaxRequests,
             waiting' \subseteq Q!Row, scheduled' \in Nat, now' \in 0..LogTime,
             underWay' \subseteq Q!Requests, waiting' # {} => scheduled' > 0
      PROVE  Q!Inv'
  BY <1>2 DEF Q!Inv, Q!TypeOK, Q!DeletedStaysOut, Q!FewAreNamed, Q!AlwaysWritten, RequestsFit
<1>3. ASSUME NEW q \in Q!Request, q.user \in users \cup {NoUser} \/ q.r \in underWay, Q!Log(q)
      PROVE  /\ \A rec \in waiting' : Out(rec, users, underWay)
             /\ RequestsFit(named', users) /\ waiting' \subseteq Q!Row /\ scheduled' \in Nat
             /\ waiting' # {} => scheduled' > 0
  <2> DEFINE w == Q!Who(named, q)
  <2>1. /\ RequestsFit(w.map, users) /\ w.id \in Askers \cup {NoUser}
        /\ w.id \in users \cup {NoUser} \/ w.id = q.user
    BY RequestsWho
  <2>2. Q!Push(waiting, q, w.id) /\ named' = w.map
    BY <1>3 DEF Q!Log
  <2> HIDE DEF w
  <2>3. /\ waiting' \subseteq Q!Row /\ scheduled' \in Nat
        /\ waiting' # {} => scheduled' > 0
        /\ \A rec \in waiting' : rec \in waiting \/ (rec.user = w.id /\ rec.r = q.r)
    BY <2>1, <2>2, RequestsPush
  <2> QED
    BY <1>1, <1>3, <2>1, <2>2, <2>3
<1>4. CASE Q!Arrive
  <2>1. PICK route \in Q!Routes, t \in Q!Tokens \cup {NoUser}, d \in AskersDevices \cup {NoUser} :
          LET q == [r |-> came + 1, route |-> route, token |-> t, device |-> d,
                    user |-> IF route = "public" THEN NoUser ELSE Q!UserByToken(t)]
          IN  /\ came < MaxRequests /\ came' = came + 1
              /\ IF route # "public" /\ q.user = NoUser THEN Q!Log(q) /\ UNCHANGED inside
                 ELSE inside' = inside \cup {q} /\ UNCHANGED <<named, waiting, scheduled>>
              /\ UNCHANGED <<users, requestRows, now, underWay>>
    BY <1>4 DEF Q!Arrive
  <2> DEFINE q == [r |-> came + 1, route |-> route, token |-> t, device |-> d,
                   user |-> IF route = "public" THEN NoUser ELSE Q!UserByToken(t)]
  <2>2. q \in Q!Request /\ came' \in 0..MaxRequests
    BY <1>1, <2>1 DEF Q!Request, Q!Requests, Q!UserByToken
  <2>3. q.user \in users \cup {NoUser}
    BY DEF Q!UserByToken
  <2>4. CASE route # "public" /\ q.user = NoUser
    <3>1. Q!Log(q) /\ UNCHANGED <<inside, users, requestRows, now, underWay>>
      BY <2>1, <2>4
    <3> HIDE DEF q
    <3> QED
      BY <1>1, <1>2, <1>3, <2>2, <2>3, <3>1
  <2>5. CASE ~(route # "public" /\ q.user = NoUser)
    <3>1. /\ inside' = inside \cup {q}
          /\ UNCHANGED <<named, waiting, scheduled, users, requestRows, now, underWay>>
      BY <2>1, <2>5
    <3>2. Ins(q, users, underWay)
      BY <2>2, <2>3, <2>5
    <3> HIDE DEF q
    <3> QED
      BY <1>1, <1>2, <2>2, <3>1, <3>2
  <2> QED
    BY <2>4, <2>5
<1>5. CASE Q!Answer
  <2>1. PICK q \in inside : /\ inside' = inside \ {q} /\ Q!Log(q)
                            /\ UNCHANGED <<users, requestRows, came, now, underWay>>
    BY <1>5 DEF Q!Answer
  <2> QED
    BY <1>1, <1>2, <1>3, <2>1
<1>6. CASE Q!DeleteMe
  <2>1. PICK q \in inside :
          /\ q.route = "deleteMe"
          /\ inside' = inside \ {q}
          /\ users' = users \ {q.user}
          /\ requestRows' = {rec \in requestRows : rec.user # q.user}
          /\ underWay' = underWay \cup {p.r : p \in {p \in inside : p.user = q.user}}
          /\ named' = Q!NamedWithout(q.user)
          /\ Q!Push(Q!WaitingWithout(q.user), q, NoUser)
          /\ UNCHANGED <<came, now>>
    BY <1>6 DEF Q!DeleteMe
  <2>2. q \in Q!Request /\ Ins(q, users, underWay) /\ q.user # NoUser
    BY <1>1, <2>1
  <2>3. Q!WaitingWithout(q.user) \subseteq waiting
    BY DEF Q!WaitingWithout
  <2>4. /\ waiting' \subseteq Q!Row /\ scheduled' \in Nat /\ (waiting' # {} => scheduled' > 0)
        /\ \A rec \in waiting' :
             rec \in Q!WaitingWithout(q.user) \/ (rec.user = NoUser /\ rec.r = q.r)
    BY <2>1, <2>2, <2>3, RequestsPush
  <2>5. \A p \in inside' : Ins(p, users', underWay')
    BY <1>1, <2>1
  <2>6. \A rec \in requestRows' \cup waiting' : Out(rec, users', underWay')
    BY <1>1, <2>1, <2>4 DEF Q!WaitingWithout
  <2>7. underWay' \subseteq Q!Requests
    BY <1>1, <2>1 DEF Q!Request
  <2>8. RequestsFit(named', users')
    <3>1. DOMAIN named' = {t \in DOMAIN named : named[t].id # q.user}
      BY <2>1 DEF Q!NamedWithout
    <3>2. \A t \in DOMAIN named' : named'[t] = named[t] /\ named[t].id # q.user
      BY <2>1 DEF Q!NamedWithout
    <3>3. DOMAIN named' \subseteq DOMAIN named
      BY <3>1
    <3>4. IsFiniteSet(DOMAIN named)
      BY <1>1 DEF RequestsFit, IsFiniteSet, Q!IsFiniteSet
    <3>5. IsFiniteSet(DOMAIN named') /\ Cardinality(DOMAIN named') <= Cardinality(DOMAIN named)
      BY <3>3, <3>4, FS_Subset
    <3>6. Cardinality(DOMAIN named) \in Nat /\ Cardinality(DOMAIN named') \in Nat
      BY <3>4, <3>5, FS_CardinalityType
    <3>7. Q!IsFiniteSet(DOMAIN named')
      BY <3>5 DEF IsFiniteSet, Q!IsFiniteSet
    <3>8. Q!Cardinality(DOMAIN named') <= Remembered
      BY <1>1, <3>5, <3>6, SameSize DEF RequestsFit
    <3> QED
      BY <1>1, <2>1, <3>2, <3>3, <3>7, <3>8 DEF RequestsFit
  <2> QED
    BY <1>1, <1>2, <2>1, <2>4, <2>5, <2>6, <2>7, <2>8
<1>7. CASE Q!Write
  <2>1. /\ waiting' = {} /\ scheduled' \in Nat
        /\ requestRows' \subseteq requestRows \cup waiting
        /\ UNCHANGED <<users, came, inside, named, now, underWay>>
    BY <1>1, <1>7 DEF Q!Write, Q!Left
  <2> QED
    BY <1>1, <1>2, <2>1
<1>8. CASE Q!Tick
  BY <1>1, <1>2, <1>8 DEF Q!Tick
<1>9. CASE UNCHANGED Q!vars
  BY <1>1, <1>2, <1>9 DEF Q!vars
<1> QED
  BY <1>4, <1>5, <1>6, <1>7, <1>8, <1>9 DEF Q!Next

-----------------------------------------------------------------------------
(* How the usage records are kept short.                                   *)

LEMMA PruneInit ==
    ASSUME O!UsagePruneAssumption, O!Init
    PROVE  O!Inv
<1>1. IsFiniteSet({})
  BY FS_EmptySet
<1>2. O!IsFiniteSet(usageRows)
  BY <1>1 DEF O!Init, IsFiniteSet, O!IsFiniteSet
<1> QED
  BY <1>2 DEF O!Init, O!Inv, O!TypeOK, O!UsagePruneAssumption, O!Passes

LEMMA PruneStep ==
    ASSUME O!UsagePruneAssumption, O!Inv, [O!Next]_O!vars
    PROVE  O!Inv' /\ O!OwnHistoryStays /\ O!NothingOldIsLeft
<1> USE DEF O!Inv, O!TypeOK
<1>0. /\ MaxRows \in Nat /\ MaxDays \in Nat /\ RequestDays \in Nat /\ GuestDays \in Nat
      /\ AccountDays \in Nat /\ PruneChunk \in Nat \ {0}
  BY DEF O!UsagePruneAssumption
<1>1. \A rec \in usageRows : rec.day \in 0..MaxDays
  BY DEF O!Row
<1>2. IsFiniteSet(usageRows)
  BY DEF IsFiniteSet, O!IsFiniteSet
<1>3. \A K \in SUBSET usageRows : O!IsFiniteSet(K)
  BY <1>2, FS_Subset DEF IsFiniteSet, O!IsFiniteSet
<1>4. CASE O!Take
  <2>1. PICK k \in O!Kinds, u \in {User, Guest}, d \in Installs :
          usageRows' = usageRows \cup
            {[id |-> rowsTaken', kind |-> k, user |-> u, device |-> d, day |-> day]}
    BY <1>4 DEF O!Take
  <2> DEFINE new == [id |-> rowsTaken', kind |-> k, user |-> u, device |-> d, day |-> day]
  <2>2. /\ rowsTaken' \in 1..MaxRows /\ rowsTaken' \in 0..MaxRows
        /\ UNCHANGED <<day, pass, began, signedIn, atStart>>
    BY <1>0, <1>4 DEF O!Take
  <2>3. new \in O!Row /\ new.day = day
    BY <2>2 DEF O!Row
  <2> HIDE DEF new
  <2>4. usageRows' = usageRows \cup {new}
    BY <2>1 DEF new
  <2>5. IsFiniteSet(usageRows')
    BY <1>2, <2>4, FS_AddElement
  <2>6. O!IsFiniteSet(usageRows')
    BY <2>5 DEF IsFiniteSet, O!IsFiniteSet
  <2>7. \A rec : \A p \in O!Passes : rec.day = day => ~O!Goes(rec, p)'
    BY <1>0, <2>2 DEF O!Goes, O!Older
  <2>8. ASSUME NEW p \in O!Passes, p < pass', NEW rec \in usageRows'
        PROVE  ~O!Goes(rec, p)'
    <3>1. CASE rec = new
      BY <2>3, <2>7, <3>1
    <3>2. CASE rec \in usageRows
      <4>1. ~O!Goes(rec, p)
        BY <2>2, <2>8, <3>2
      <4> QED
        BY <2>2, <4>1 DEF O!Goes, O!Older, O!GuestsOnly
    <3> QED
      BY <2>4, <2>8, <3>1, <3>2
  <2>9. (O!TypeOK)'
    BY <2>2, <2>3, <2>4
  <2>10. usageRows \ usageRows' = {}
    BY <2>4
  <2> QED
    BY <2>2, <2>6, <2>8, <2>9, <2>10 DEF O!OwnHistoryStays, O!NothingOldIsLeft
<1>5. CASE O!NextDay
  BY <1>0, <1>5 DEF O!NextDay, O!OwnHistoryStays, O!NothingOldIsLeft, O!Goes, O!Older, O!GuestsOnly
<1>6. CASE O!Start
  <2>1. /\ pass' = 1 /\ began' = day /\ atStart' = usageRows
        /\ signedIn' = {rec.device : rec \in {r \in usageRows : r.user = User}}
        /\ UNCHANGED <<usageRows, rowsTaken, day>> /\ pass = 0
    BY <1>6 DEF O!Start
  <2>2. signedIn' \subseteq Installs
    BY <2>1 DEF O!Row
  <2>3. \A r \in atStart' : r.user = User => r.device \in signedIn'
    BY <2>1
  <2>4. \A p \in O!Passes : ~(p < pass')
    BY <2>1 DEF O!Passes
  <2> QED
    BY <2>1, <2>2, <2>3, <2>4 DEF O!OwnHistoryStays, O!NothingOldIsLeft
<1>7. CASE O!DropChunk
  <2> DEFINE old == {rec \in usageRows : O!Goes(rec, pass)}
             n == IF O!Cardinality(old) < PruneChunk THEN O!Cardinality(old) ELSE PruneChunk
  <2>1. /\ pass \in O!Passes
        /\ pass' = IF ~O!Last(n) THEN pass ELSE (pass + 1) % 4
        /\ UNCHANGED <<rowsTaken, day, began, signedIn, atStart>>
    BY <1>7 DEF O!DropChunk
  <2>2. PICK some \in SUBSET old : O!Cardinality(some) = n /\ usageRows' = usageRows \ some
    BY <1>7 DEF O!DropChunk
  <2>3. ASSUME O!Last(n)
        PROVE  some = old
    <3>1. IsFiniteSet(old)
      BY <1>2, FS_Subset
    <3>2. Cardinality(old) \in Nat
      BY <3>1, FS_CardinalityType
    <3>3. O!Cardinality(old) = Cardinality(old) /\ O!Cardinality(some) = Cardinality(some)
      BY SameSize
    <3> HIDE DEF old
    <3>4. Cardinality(some) = Cardinality(old)
      BY <1>0, <2>2, <2>3, <3>2, <3>3 DEF O!Last
    <3> QED
      BY <3>1, <3>4, FS_Subset
  <2>4. usageRows' \subseteq usageRows /\ O!IsFiniteSet(usageRows')
    BY <1>3, <2>2
  <2>5. \A rec : \A p \in O!Passes : O!Goes(rec, p)' <=> O!Goes(rec, p)
    BY <2>1 DEF O!Goes, O!Older, O!GuestsOnly
  <2>6. ASSUME O!Last(n)
        PROVE  \A rec \in usageRows' : ~O!Goes(rec, pass)
    BY <2>2, <2>3, <2>6
  <2>7. (O!Last(n) /\ pass' = (pass + 1) % 4) \/ (~O!Last(n) /\ pass' = pass)
    BY <2>1
  <2>8. pass' = pass \/ (O!Last(n) /\ ((pass \in 1..2 /\ pass' = pass + 1) \/ (pass = 3 /\ pass' = 0)))
    BY <2>1, <2>7 DEF O!Passes
  <2>9. \A p \in O!Passes : p < pass' => \A rec \in usageRows' : ~O!Goes(rec, p)
    <3> TAKE p \in O!Passes
    <3>1. CASE p < pass
      BY <2>4, <3>1
    <3>2. CASE ~(p < pass)
      <4>1. ASSUME p < pass'
            PROVE  p = pass /\ O!Last(n)
        BY <2>1, <2>8, <3>2, <4>1 DEF O!Passes
      <4> QED
        BY <2>6, <4>1
    <3> QED
      BY <3>1, <3>2
  <2>10. (O!TypeOK)'
    BY <2>1, <2>4, <2>8 DEF O!Passes
  <2>11. O!Inv'
    BY <2>1, <2>4, <2>5, <2>9, <2>10
  <2>12. O!OwnHistoryStays
    <3>1. SUFFICES ASSUME NEW rec \in usageRows \ usageRows', rec.kind = "event",
                          NEW r \in atStart, r.user = User, r.device = rec.device
                   PROVE  rec.day + AccountDays < day
      BY DEF O!OwnHistoryStays
    <3>2. O!Goes(rec, pass) /\ rec \in usageRows
      BY <2>2, <3>1
    <3>3. rec.device \in signedIn
      BY <3>1
    <3>4. O!Older(rec, AccountDays)
      BY <3>1, <3>2, <3>3 DEF O!Goes, O!GuestsOnly
    <3> QED
      BY <1>0, <1>1, <3>2, <3>4 DEF O!Older
  <2>13. O!NothingOldIsLeft
    <3>1. SUFFICES ASSUME pass = 3, pass' = 0
                   PROVE  \A rec \in usageRows' : \A p \in O!Passes : ~O!Goes(rec, p)
      BY DEF O!NothingOldIsLeft
    <3>2. O!Last(n)
      BY <2>8, <3>1
    <3>3. \A p \in O!Passes : p = 3 \/ p < pass
      BY <3>1 DEF O!Passes
    <3> QED
      BY <2>4, <2>6, <3>1, <3>2, <3>3
  <2> QED
    BY <2>11, <2>12, <2>13
<1>8. CASE O!Stop
  <2>1. \A p \in O!Passes : ~(p < pass')
    BY <1>8 DEF O!Stop, O!Passes
  <2> QED
    BY <1>8, <2>1 DEF O!Stop, O!OwnHistoryStays, O!NothingOldIsLeft
<1>9. CASE UNCHANGED O!vars
  BY <1>9 DEF O!vars, O!OwnHistoryStays, O!NothingOldIsLeft, O!Goes, O!Older, O!GuestsOnly
<1> QED
  BY <1>4, <1>5, <1>6, <1>7, <1>8, <1>9 DEF O!Next

-----------------------------------------------------------------------------
(* The price of Bitcoin.                                                   *)

LEMMA RatesInit ==
    ASSUME E!RatesAssumption, E!Init
    PROVE  E!Inv
BY DEF E!RatesAssumption, E!Init, E!Inv, E!TypeOK, E!MarketIsFresh, E!OneLookup, E!KnownIsLast,
       E!None, E!Rate, E!Nothing, E!Resting, E!Free

LEMMA RatesAsk ==
    ASSUME E!RatesAssumption, E!Inv, NEW c \in Callers, E!Ask(c)
    PROVE  E!Inv' /\ E!LastKnownIsSaid
<1> USE DEF E!RatesAssumption
<1>1. CASE E!Fresh(last) /\ said' = [said EXCEPT ![c] = E!Says("market", last)]
           /\ UNCHANGED <<ratesClock, last, pending, lookup, caller>>
  BY <1>1 DEF E!Fresh, E!Says, E!Inv, E!TypeOK, E!MarketIsFresh, E!OneLookup, E!KnownIsLast,
              E!LastKnownIsSaid, E!Rate
<1>2. CASE /\ caller' = [caller EXCEPT ![c] = [on |-> E!Joins(c), cached |-> last]]
           /\ pending' = E!Joins(c)
           /\ lookup' = IF E!Joins(c) = c
                        THEN [lookup EXCEPT ![c] = [source |-> 1, since |-> ratesClock]]
                        ELSE lookup
           /\ UNCHANGED <<ratesClock, last, said>>
  BY <1>2 DEF E!Joins, E!Inv, E!TypeOK, E!MarketIsFresh, E!OneLookup, E!KnownIsLast,
              E!LastKnownIsSaid, E!Rate
<1> QED
  BY <1>1, <1>2 DEF E!Ask

Answers == [kind : {"nothing", "market", "stale", "fallback", "unavailable"},
            rate : E!Rate, at : 0..RatesTime]

\* A lookup that ends, whatever rate is the last by then, and is said to those who waited.
LEMMA RatesEnd ==
    ASSUME E!RatesAssumption, E!Inv, NEW l \in Callers, lookup[l].source > 0,
           NEW told, E!Ends(l, told), UNCHANGED ratesClock, last' \in E!Rate,
           last'.known \/ last' = E!None, last'.at <= ratesClock, last'.at - last'.rate <= RateTimeout,
           \A c \in Callers :
               /\ told[c] \in Answers
               /\ told[c].kind = "market" => told[c].at - told[c].rate.rate <= Ttl + RateTimeout
    PROVE  E!Inv'
<1> USE DEF E!RatesAssumption
<1>1. pending = l /\ pending' = Nobody
  BY DEF E!Inv, E!OneLookup, E!Ends
<1>2. \A c \in Callers : caller[c].on \in {Nobody, l}
  BY <1>1 DEF E!Inv, E!OneLookup
<1>3. /\ lookup' = [lookup EXCEPT ![l] = E!Resting]
      /\ said' = [c \in Callers |-> IF c \in E!Waiting(l) THEN told[c] ELSE said[c]]
      /\ caller' = [c \in Callers |-> IF c \in E!Waiting(l) THEN E!Free ELSE caller[c]]
  BY DEF E!Ends
<1>4. \A c \in Callers : caller'[c].on = Nobody
  BY <1>2, <1>3 DEF E!Waiting, E!Free
<1>5. \A k \in Callers : lookup'[k].source = 0
  BY <1>1, <1>3 DEF E!Resting, E!Inv, E!TypeOK, E!OneLookup
<1>6. said' \in [Callers -> Answers]
  BY <1>3 DEF E!Inv, E!TypeOK, Answers
<1>7. E!Resting \in [source : 0..Sources, since : 0..RatesTime]
  BY DEF E!Resting
<1>8. E!None \in E!Rate
  BY DEF E!None, E!Rate
<1>9. E!Free \in [on : Callers \cup {Nobody}, cached : E!Rate]
  BY <1>8 DEF E!Free
<1>10. caller' \in [Callers -> [on : Callers \cup {Nobody}, cached : E!Rate]]
  BY <1>3, <1>9 DEF E!Inv, E!TypeOK
<1>11. lookup' \in [Callers -> [source : 0..Sources, since : 0..RatesTime]]
  BY <1>3, <1>7 DEF E!Inv, E!TypeOK
<1>12. E!TypeOK'
  BY <1>1, <1>6, <1>10, <1>11 DEF E!Inv, E!TypeOK, Answers
<1>13. E!MarketIsFresh'
  BY <1>3 DEF E!Inv, E!MarketIsFresh
<1>14. E!OneLookup'
  BY <1>4, <1>5 DEF E!OneLookup
<1>15. E!KnownIsLast'
  BY <1>4 DEF E!KnownIsLast
<1> QED
  BY <1>12, <1>13, <1>14, <1>15 DEF E!Inv

LEMMA RatesPriced ==
    ASSUME E!RatesAssumption, E!Inv, NEW l \in Callers, E!Priced(l)
    PROVE  E!Inv' /\ E!LastKnownIsSaid
<1> DEFINE told == [c \in Callers |-> E!Says("market", last')]
<1>1. /\ lookup[l].source > 0 /\ UNCHANGED ratesClock /\ E!Ends(l, told)
      /\ last' = [rate |-> lookup[l].since, at |-> ratesClock, known |-> TRUE]
  BY DEF E!Priced
<1>2. /\ lookup[l].since \in 0..RatesTime /\ ratesClock \in 0..RatesTime
      /\ ratesClock - lookup[l].since <= RateTimeout
  BY <1>1 DEF E!Inv, E!TypeOK, E!OneLookup
<1>3. last' \in E!Rate
  BY <1>1, <1>2 DEF E!Rate
<1>4. last'.known /\ last'.at <= ratesClock /\ last'.at - last'.rate <= RateTimeout
  BY <1>1, <1>2
<1>5. \A c \in Callers :
          /\ told[c] \in Answers
          /\ told[c].kind = "market" => told[c].at - told[c].rate.rate <= Ttl + RateTimeout
  BY <1>1, <1>2, <1>3 DEF E!Says, Answers, E!RatesAssumption
<1>6. E!LastKnownIsSaid
  <2>1. \A c \in Callers : said'[c] = said[c] \/ said'[c] = told[c]
    BY <1>1 DEF E!Ends
  <2>2. \A c \in Callers : told[c].kind = "market"
    BY DEF E!Says
  <2> HIDE DEF told
  <2> QED
    BY <2>1, <2>2 DEF E!LastKnownIsSaid
<1> HIDE DEF told
<1> QED
  BY <1>1, <1>3, <1>4, <1>5, <1>6, RatesEnd

LEMMA RatesNoPrice ==
    ASSUME E!RatesAssumption, E!Inv, NEW l \in Callers, E!NoPrice(l)
    PROVE  E!Inv' /\ E!LastKnownIsSaid
<1> USE DEF E!RatesAssumption
<1>1. CASE /\ lookup[l].source > 0 /\ lookup[l].source < Sources
           /\ lookup' = [lookup EXCEPT ![l] = [source |-> @.source + 1, since |-> ratesClock]]
           /\ UNCHANGED <<pending, said, caller, ratesClock, last>>
  BY <1>1 DEF E!Inv, E!TypeOK, E!MarketIsFresh, E!OneLookup, E!KnownIsLast, E!LastKnownIsSaid
<1>2. CASE /\ lookup[l].source > 0 /\ E!Ends(l, [c \in Callers |-> E!Down(c)])
           /\ UNCHANGED <<ratesClock, last>>
  <2> DEFINE told == [c \in Callers |-> E!Down(c)]
  <2>1. E!None \in E!Rate
    BY DEF E!None, E!Rate
  <2>2. \A c \in Callers : /\ told[c] \in Answers /\ told[c].kind # "market"
    BY <2>1 DEF E!Down, E!Says, Answers, E!Inv, E!TypeOK
  <2>3. \A c \in Callers : c \in E!Waiting(l) => told[c].rate = last
    BY DEF E!Waiting, E!Inv, E!KnownIsLast, E!Down, E!Says
  <2>4. E!LastKnownIsSaid
    <3>1. \A c \in Callers : said'[c] = said[c] \/ (c \in E!Waiting(l) /\ said'[c] = told[c])
      BY <1>2 DEF E!Ends
    <3> HIDE DEF told
    <3> QED
      BY <2>3, <3>1 DEF E!LastKnownIsSaid
  <2>5. /\ last' \in E!Rate /\ (last'.known \/ last' = E!None)
        /\ last'.at <= ratesClock /\ last'.at - last'.rate <= RateTimeout
    BY <1>2 DEF E!Inv, E!TypeOK, E!KnownIsLast
  <2>6. E!Ends(l, told)
    BY <1>2
  <2> HIDE DEF told
  <2> QED
    BY <1>2, <2>2, <2>4, <2>5, <2>6, RatesEnd
<1> QED
  BY <1>1, <1>2 DEF E!NoPrice

LEMMA RatesTick ==
    ASSUME E!RatesAssumption, E!Inv, E!Tick
    PROVE  E!Inv' /\ E!LastKnownIsSaid
<1> USE DEF E!RatesAssumption
<1>1. \A l \in Callers : lookup[l].source > 0 => ratesClock - lookup[l].since < RateTimeout
  BY DEF E!Tick, E!GivenUp, E!Inv, E!TypeOK
<1> QED
  BY <1>1 DEF E!Tick, E!Inv, E!TypeOK, E!MarketIsFresh, E!OneLookup, E!KnownIsLast, E!LastKnownIsSaid,
              E!Rate

LEMMA RatesStep ==
    ASSUME E!RatesAssumption, E!Inv, [E!Next]_E!vars
    PROVE  E!Inv' /\ E!LastKnownIsSaid
<1>1. CASE UNCHANGED E!vars
  BY <1>1 DEF E!vars, E!Inv, E!TypeOK, E!MarketIsFresh, E!OneLookup, E!KnownIsLast,
              E!LastKnownIsSaid
<1> QED
  BY <1>1, RatesAsk, RatesPriced, RatesNoPrice, RatesTick DEF E!Next

-----------------------------------------------------------------------------
(* The loop that asks verify links.                                        *)

LEMMA VerifyInit ==
    ASSUME V!LoopAssumption, V!Init
    PROVE  V!Inv
<1>1. V!TypeOK
  BY DEF V!Init, V!TypeOK, V!LoopAssumption
<1> QED
  BY <1>1 DEF V!Init, V!Inv, V!MintsInOrder, V!MintsPerMinute, V!LoopLives

\* One taken out of a sequence leaves a sequence.
LEMMA VerifyRemoves ==
    ASSUME NEW K, NEW s \in Seq(K), NEW n \in DOMAIN s
    PROVE  V!RemoveAt(s, n) \in Seq(K)
<1>1. n \in 1..Len(s) /\ Len(s) \in Nat
  OBVIOUS
<1>2. SubSeq(s, 1, n - 1) \in Seq(K) /\ SubSeq(s, n + 1, Len(s)) \in Seq(K)
  BY <1>1
<1> QED
  BY <1>2 DEF V!RemoveAt

\* When a mint is let through, the one PerMinute before it is a minute old.
LEMMA VerifyMintLimit ==
    ASSUME V!LoopAssumption, V!Inv, ~(V!Cardinality(V!Recent) >= PerMinute),
           NEW n \in DOMAIN requests, n + PerMinute = Len(requests) + 1
    PROVE  loopClock - requests[n] >= Minute
<1> DEFINE L == Len(requests)
<1>1. /\ L \in Nat /\ n \in 1..L /\ n \in Nat /\ PerMinute \in Nat /\ Minute \in Nat
      /\ loopClock \in Nat /\ \A m \in 1..L : requests[m] \in Nat
  BY DEF V!Inv, V!TypeOK, V!LoopAssumption
<1>2. SUFFICES ASSUME requests[n] + Minute > loopClock
               PROVE  FALSE
  BY <1>1
<1>3. ASSUME NEW m \in n..L
      PROVE  m \in V!Recent
  <2>1. m \in DOMAIN requests /\ n <= m
    BY <1>1
  <2>2. requests[n] <= requests[m]
    BY <2>1 DEF V!Inv, V!MintsInOrder
  <2>3. requests[m] + Minute > loopClock
    BY <1>1, <1>2, <2>1, <2>2
  <2> QED
    BY <2>1, <2>3 DEF V!Inv, V!MintsInOrder, V!Recent
<1>4. IsFiniteSet(V!Recent) /\ V!Recent \subseteq 1..L
  <2>1. V!Recent \subseteq 1..L
    BY DEF V!Recent, V!Inv, V!TypeOK
  <2>2. IsFiniteSet(1..L)
    BY <1>1, Interval
  <2> QED
    BY <2>1, <2>2, FS_Subset
<1>5. Cardinality(n..L) = PerMinute
  <2>1. n <= L
    BY <1>1
  <2>2. Cardinality(n..L) = L - n + 1
    BY <1>1, <2>1, Interval
  <2> QED
    BY <1>1, <2>2
<1>6. Cardinality(n..L) <= Cardinality(V!Recent)
  BY <1>3, <1>4, FS_Subset
<1>7. Cardinality(V!Recent) \in Nat
  BY <1>4, FS_CardinalityType
<1> QED
  BY <1>1, <1>5, <1>6, <1>7, SameSize

LEMMA VerifyStep ==
    ASSUME V!LoopAssumption, V!Inv, [V!Next]_V!vars
    PROVE  V!Inv'
<1> USE DEF V!LoopAssumption, V!Inv
<1>1. ASSUME NEW i \in Invoices, V!AllowMint(i)
      PROVE  V!Inv'
  <2>1. /\ requests \in Seq(0..LoopTime) /\ Len(requests) \in Nat /\ loopClock \in 0..LoopTime
        /\ mints \subseteq 1..Len(requests) /\ DOMAIN requests = 1..Len(requests)
        /\ PerMinute \in Nat \ {0} /\ Minute \in Nat
    BY DEF V!TypeOK
  <2>2. CASE V!Cardinality(V!Recent) >= PerMinute
    BY <1>1, <2>1, <2>2 DEF V!AllowMint, V!TypeOK, V!Recent, V!MintsInOrder, V!MintsPerMinute,
                            V!LoopLives
  <2>3. CASE ~(V!Cardinality(V!Recent) >= PerMinute)
    <3>1. /\ requests' = Append(requests, loopClock)
          /\ mints' = V!Recent \cup {Len(requests) + 1}
          /\ mint' = [mint EXCEPT ![i] = "counted"]
          /\ UNCHANGED <<loopClock, watched, mintedAt, askedAt, loop, firesAt, checking>>
      BY <1>1, <2>3 DEF V!AllowMint
    <3>2. /\ requests' \in Seq(0..LoopTime) /\ DOMAIN requests' = 1..(Len(requests) + 1)
          /\ \A n \in 1..Len(requests) : requests'[n] = requests[n]
          /\ requests'[Len(requests) + 1] = loopClock
      BY <2>1, <3>1
    <3>3. (V!TypeOK)'
      BY <2>1, <3>1, <3>2 DEF V!TypeOK, V!Recent
    <3>4. (V!MintsInOrder)'
      <4>1. ASSUME NEW n \in 1..(Len(requests) + 1), NEW m \in 1..(Len(requests) + 1), n <= m
            PROVE  requests'[n] <= requests'[m]
        <5>1. CASE m = Len(requests) + 1
          <6>1. requests'[m] = loopClock /\ loopClock \in Nat
            BY <2>1, <3>2, <5>1
          <6>2. n = Len(requests) + 1 \/ n \in 1..Len(requests)
            BY <2>1, <4>1
          <6>3. n \in 1..Len(requests) => requests'[n] <= loopClock
            BY <2>1, <3>2 DEF V!MintsInOrder
          <6> QED
            BY <3>2, <6>1, <6>2, <6>3
        <5>2. CASE m \in 1..Len(requests)
          <6>1. n \in 1..Len(requests)
            BY <2>1, <4>1, <5>2
          <6> QED
            BY <2>1, <3>2, <4>1, <5>2, <6>1 DEF V!MintsInOrder
        <5> QED
          BY <2>1, <5>1, <5>2
      <4>2. ASSUME NEW n \in 1..(Len(requests) + 1)
            PROVE  /\ requests'[n] <= loopClock
                   /\ requests'[n] + Minute > loopClock => n \in mints'
        BY <2>1, <3>1, <3>2 DEF V!MintsInOrder, V!Recent
      <4> QED
        BY <3>1, <3>2, <4>1, <4>2 DEF V!MintsInOrder
    <3>5. (V!MintsPerMinute)'
      <4>1. ASSUME NEW n \in 1..(Len(requests) + 1), n + PerMinute \in 1..(Len(requests) + 1)
            PROVE  requests'[n + PerMinute] - requests'[n] >= Minute
        <5>1. n \in 1..Len(requests)
          BY <2>1, <4>1
        <5>2. CASE n + PerMinute = Len(requests) + 1
          <6>1. loopClock - requests[n] >= Minute
            BY <2>1, <2>3, <5>1, <5>2, VerifyMintLimit
          <6>2. requests'[n] = requests[n] /\ requests'[n + PerMinute] = loopClock
            BY <3>2, <5>1, <5>2
          <6> QED
            BY <6>1, <6>2
        <5>3. CASE n + PerMinute \in 1..Len(requests)
          <6>1. requests[n + PerMinute] - requests[n] >= Minute
            BY <2>1, <5>1, <5>3 DEF V!MintsPerMinute
          <6>2. requests'[n] = requests[n] /\ requests'[n + PerMinute] = requests[n + PerMinute]
            BY <3>2, <5>1, <5>3
          <6> QED
            BY <6>1, <6>2
        <5>4. n + PerMinute = Len(requests) + 1 \/ n + PerMinute \in 1..Len(requests)
          BY <2>1, <4>1, <5>1
        <5> QED
          BY <5>2, <5>3, <5>4
      <4> QED
        BY <3>2, <4>1 DEF V!MintsPerMinute
    <3>6. (V!LoopLives)'
      BY <3>1 DEF V!LoopLives
    <3> QED
      BY <3>3, <3>4, <3>5, <3>6
  <2> QED
    BY <2>2, <2>3
<1> DEFINE Same == UNCHANGED <<mints, requests>>
<1>2. ASSUME Same, (V!TypeOK)', (V!LoopLives)', UNCHANGED loopClock
      PROVE  V!Inv'
  BY <1>2 DEF V!MintsInOrder, V!MintsPerMinute
<1>3. ASSUME NEW i \in Invoices, V!Minted(i)
      PROVE  V!Inv'
  <2>1. watched' \in Seq(Invoices) /\ watched' # <<>>
    <3>1. watched' = Append(watched, i) /\ watched \in Seq(Invoices)
      BY <1>3 DEF V!Minted, V!TypeOK
    <3> QED
      BY <3>1
  <2>2. (V!TypeOK)'
    <3>1. /\ mint' = [mint EXCEPT ![i] = "out"] /\ mintedAt' = [mintedAt EXCEPT ![i] = loopClock]
          /\ askedAt' = [askedAt EXCEPT ![i] = loopClock]
          /\ UNCHANGED <<mints, loopClock, requests, checking>>
      BY <1>3 DEF V!Minted
    <3>2. \/ loop' = "timer" /\ firesAt' = loopClock + 1
          \/ UNCHANGED <<loop, firesAt>>
      BY <1>3 DEF V!Minted, V!Schedule
    <3>3. /\ mint' \in [Invoices -> {"none", "counted", "out", "refused", "over"}]
          /\ mintedAt' \in [Invoices -> Nat] /\ askedAt' \in [Invoices -> Nat]
      BY <3>1 DEF V!TypeOK
    <3>4. loop' \in {"none", "timer", "run"} /\ firesAt' \in Nat
      BY <3>2 DEF V!TypeOK
    <3>5. /\ loopClock' \in 0..LoopTime /\ checking' \subseteq Invoices
          /\ requests' \in Seq(0..LoopTime) /\ mints' \subseteq DOMAIN requests'
      BY <3>1 DEF V!TypeOK
    <3> QED
      BY <2>1, <3>3, <3>4, <3>5 DEF V!TypeOK
  <2>3. (V!LoopLives)'
    BY <1>3, <2>1 DEF V!Minted, V!LoopLives, V!Schedule, V!Schedules, V!TypeOK
  <2> QED
    BY <1>2, <1>3, <2>2, <2>3 DEF V!Minted
<1>4. ASSUME NEW i \in Invoices, V!NotMinted(i)
      PROVE  V!Inv'
  BY <1>2, <1>4 DEF V!NotMinted, V!TypeOK, V!LoopLives
<1>5. ASSUME NEW i \in Invoices, V!Checked(i)
      PROVE  V!Inv'
  <2>1. watched' \in Seq(Invoices) /\ loop = "run" /\ UNCHANGED <<loop, loopClock, mints, requests>>
    BY <1>5, VerifyRemoves DEF V!Checked, V!TypeOK, V!LoopLives
  <2>2. (V!TypeOK)'
    BY <1>5, <2>1 DEF V!Checked, V!TypeOK
  <2>3. (V!LoopLives)'
    BY <2>1 DEF V!LoopLives
  <2> QED
    BY <1>2, <2>1, <2>2, <2>3
<1>6. CASE V!Run
  <2>1. V!Asked \subseteq Invoices
    <3>1. ASSUME NEW i \in V!Asked
          PROVE  i \in Invoices
      <4>1. PICK n \in DOMAIN watched : i = watched[n]
        BY DEF V!Asked, V!DueOnes
      <4>2. watched \in Seq(Invoices) /\ n \in 1..Len(watched)
        BY <4>1 DEF V!TypeOK
      <4> QED
        BY <4>1, <4>2
    <3> QED
      BY <3>1
  <2>2. (V!TypeOK)'
    BY <1>6, <2>1 DEF V!Run, V!TypeOK
  <2> QED
    BY <1>2, <1>6, <2>2 DEF V!Run, V!LoopLives
<1>7. CASE V!RunOver
  BY <1>2, <1>7 DEF V!RunOver, V!GoesOn, V!TypeOK, V!LoopLives
<1>8. CASE V!Tick
  <2>1. (V!TypeOK)'
    BY <1>8 DEF V!Tick, V!TypeOK
  <2>2. (V!MintsInOrder)'
    BY <1>8 DEF V!Tick, V!TypeOK, V!MintsInOrder
  <2> QED
    BY <1>8, <2>1, <2>2 DEF V!Tick, V!MintsPerMinute, V!LoopLives
<1>9. CASE UNCHANGED V!vars
  BY <1>9 DEF V!vars, V!TypeOK, V!MintsInOrder, V!MintsPerMinute, V!LoopLives
<1> QED
  BY <1>1, <1>3, <1>4, <1>5, <1>6, <1>7, <1>8, <1>9 DEF V!Next

-----------------------------------------------------------------------------
(* Calls to a connected wallet.                                            *)

\* A request whose time is up has expired, in whole seconds too.
LEMMA WalletExpired ==
    ASSUME NEW t \in Nat, NEW sent \in Nat, NEW s \in Nat \ {0}, NEW w \in Nat,
           t >= sent + w * s
    PROVE  ~(t \div s < sent \div s + w)
<1> DEFINE q == sent \div s  z == t \div s
<1>1. q \in Nat /\ z \in Nat
  OBVIOUS
<1>2. sent >= q * s /\ t < (z + 1) * s
  OBVIOUS
<1> HIDE DEF q, z
<1>3. SUFFICES ASSUME z + 1 <= q + w
               PROVE  FALSE
  BY <1>1
<1>4. (z + 1) * s <= (q + w) * s
  BY <1>1, <1>3
<1>5. (q + w) * s = q * s + w * s
  BY <1>1
<1>6. q * s \in Nat /\ w * s \in Nat /\ (z + 1) * s \in Nat
  BY <1>1
<1> QED
  BY <1>2, <1>4, <1>5, <1>6

LEMMA WalletInit ==
    ASSUME W!CallsAssumption, W!Init
    PROVE  W!Inv
<1>1. 0 \in 0..WalletTime
  BY DEF W!CallsAssumption
<1> QED
  BY <1>1 DEF W!Init, W!Inv, W!TypeOK, W!NothingBut, W!Results, W!Kinds, W!AnswerIsItsOwn,
              W!SettledWasPaid, W!Calls, W!Words

LEMMA WalletReads ==
    ASSUME W!CallsAssumption, W!Inv, NEW c \in W!Calls, NEW a \in walletAnswers, a.to = c
    PROVE  /\ W!Reads(c, a) \in W!Results
           /\ W!Reads(c, a).kind \in W!Kinds
           /\ c \in Makes /\ W!Reads(c, a).kind = "result" =>
                W!Reads(c, a).for = {c} /\ c \in made
           /\ c \in Lookups /\ (W!Reads(c, a).state = "settled" \/ W!Reads(c, a).preimage) =>
                invoicePaid
<1>1. /\ a \in [to : W!Calls, kind : W!Kinds, word : W!Words]
      /\ a.kind = "result" /\ a.to \in Makes => a.to \in made
      /\ a.word.state = "settled" \/ a.word.settledAt => invoicePaid
  BY DEF W!Inv
<1>2. /\ W!StateOf(a.word) \in {"settled", "expired", "pending"}
      /\ W!StateOf(a.word) = "settled" => invoicePaid
  BY <1>1 DEF W!StateOf
<1>3. (a.to \in Lookups <=> c \in Lookups) <=> TRUE
  OBVIOUS
<1>4. a.word.preimage \in BOOLEAN
  BY <1>1 DEF W!Words
<1> QED
  BY <1>1, <1>2, <1>3, <1>4 DEF W!Reads, W!Results, W!Kinds

LEMMA WalletStep ==
    ASSUME W!CallsAssumption, W!Inv, [W!Next]_W!vars
    PROVE  W!Inv' /\ W!NothingAfterTimeout
<1> USE DEF W!CallsAssumption, W!Inv, W!TypeOK, W!AnswerIsItsOwn, W!SettledWasPaid,
            W!NothingAfterTimeout
<1> DEFINE Rec == [stage : {"new", "info", "out", "done"}, sentAt : 0..WalletTime,
                   scheme : {"none", "nip44_v2", "nip04"}, result : W!Results]
           Fit(r, c) == /\ r.stage # "done" => r.result.kind = "none"
                        /\ r.result.kind = "TIMEOUT" => walletClock >= r.sentAt + Wait * Second
                        /\ c \in Makes /\ r.stage = "done" /\ r.result.kind = "result" =>
                             r.result.for = {c} /\ c \in made
                        /\ c \in Lookups /\ (r.result.state = "settled" \/ r.result.preimage) =>
                             invoicePaid
           Rest == UNCHANGED <<walletClock, handled, walletAnswers, made, invoicePaid>>
<1>0. \A c \in W!Calls : call[c] \in Rec /\ Fit(call[c], c)
  BY DEF W!Calls
<1>1. ASSUME NEW c \in W!Calls, NEW r \in Rec, Fit(r, c), call' = [call EXCEPT ![c] = r],
             Rest, onRelay' \subseteq W!Calls,
             encryption' \in {"unknown", "asking", "nip44_v2", "nip04"}
      PROVE  W!Inv' /\ W!NothingAfterTimeout
  <2>1. call' \in [W!Calls -> Rec]
    BY <1>1
  <2>2. \A d \in W!Calls : call'[d] \in Rec /\ Fit(call'[d], d)
    BY <1>0, <1>1
  <2>3. (W!TypeOK)'
    BY <1>1, <2>1, <2>2 DEF W!Results
  <2>4. (W!AnswerIsItsOwn)' /\ (W!SettledWasPaid)'
    BY <1>1, <2>2 DEF W!Calls
  <2> QED
    BY <1>1, <2>1, <2>2, <2>3, <2>4
<1>2. \A kind \in W!Kinds \cup {"none", "TIMEOUT", "RELAY"} :
        /\ W!NothingBut(kind) \in W!Results
        /\ W!NothingBut(kind).kind = kind
        /\ W!NothingBut(kind).state = "none" /\ W!NothingBut(kind).preimage = FALSE
  BY DEF W!NothingBut, W!Results
<1>3. ASSUME NEW c \in W!Calls, W!Begin(c)
      PROVE  W!Inv' /\ W!NothingAfterTimeout
  BY <1>0, <1>1, <1>3 DEF W!Begin, W!Sent
<1>4. ASSUME NEW c \in W!Calls, W!Published(c)
      PROVE  W!Inv' /\ W!NothingAfterTimeout
  BY <1>4 DEF W!Published
<1>5. ASSUME NEW c \in W!Calls, W!PublishFails(c)
      PROVE  W!Inv' /\ W!NothingAfterTimeout
  BY <1>0, <1>1, <1>2, <1>5 DEF W!PublishFails, W!Finish
<1>6. ASSUME NEW c \in W!Calls, W!TimesOut(c)
      PROVE  W!Inv' /\ W!NothingAfterTimeout
  BY <1>0, <1>1, <1>2, <1>6 DEF W!TimesOut, W!Finish, W!IsLate
<1>7. ASSUME NEW c \in W!Calls, NEW a \in walletAnswers, W!Arrives(c, a)
      PROVE  W!Inv' /\ W!NothingAfterTimeout
  BY <1>0, <1>1, <1>7, WalletReads DEF W!Arrives, W!Finish, W!IsAnswerTo, W!Kinds
<1>8. ASSUME NEW c \in W!Calls, W!WalletActs(c)
      PROVE  W!Inv' /\ W!NothingAfterTimeout
  <2>1. W!Word \in W!Words /\ W!NoWord \in W!Words
    BY DEF W!Word, W!NoWord, W!Words
  <2>2. /\ W!Word.state = "settled" \/ W!Word.settledAt => invoicePaid
        /\ ~(W!NoWord.state = "settled" \/ W!NoWord.settledAt)
    BY DEF W!Word, W!NoWord
  <2>3. call[c].result.kind # "TIMEOUT"
    BY <1>0, <1>8, WalletExpired DEF W!WalletActs, W!Expiration
  <2>4. CASE made' = made \cup ({c} \cap Makes)
             /\ walletAnswers' = walletAnswers \cup
                  {[to |-> c, kind |-> "result", word |-> W!Word]}
    BY <1>8, <2>1, <2>2, <2>3, <2>4 DEF W!WalletActs, W!Kinds
  <2>5. CASE made' = made /\ walletAnswers' = walletAnswers \cup
                  {[to |-> c, kind |-> "refused", word |-> W!NoWord]}
    BY <1>8, <2>1, <2>2, <2>5 DEF W!WalletActs, W!Kinds
  <2> QED
    BY <1>8, <2>4, <2>5 DEF W!WalletActs
<1>9. ASSUME NEW info \in BOOLEAN, W!InfoRead(info)
      PROVE  W!Inv' /\ W!NothingAfterTimeout
  <2>1. W!Offered(info) \in {"nip44_v2", "nip04"}
    BY DEF W!Offered
  <2>2. \A c \in W!Calls : call'[c] \in Rec /\ Fit(call'[c], c)
    BY <1>0, <1>9, <2>1 DEF W!InfoRead, W!Sent
  <2>3. call' \in [W!Calls -> Rec]
    BY <1>9, <2>2 DEF W!InfoRead
  <2>4. (W!TypeOK)'
    BY <1>9, <2>1, <2>2, <2>3 DEF W!InfoRead, W!Results
  <2>5. (W!AnswerIsItsOwn)' /\ (W!SettledWasPaid)'
    BY <1>9, <2>2 DEF W!Calls, W!InfoRead
  <2> QED
    BY <1>9, <2>2, <2>3, <2>4, <2>5 DEF W!InfoRead
<1>10. CASE W!Paid
  BY <1>10 DEF W!Paid
<1>11. CASE W!Tick
  BY <1>0, <1>11 DEF W!Tick
<1>12. CASE UNCHANGED W!vars
  BY <1>12 DEF W!vars
<1> QED
  BY <1>3, <1>4, <1>5, <1>6, <1>7, <1>8, <1>9, <1>10, <1>11, <1>12 DEF W!Next

-----------------------------------------------------------------------------
(* Invoices of a Lightning address.                                        *)

LEMMA AddressInit ==
    ASSUME A!AddressAssumption, A!Init
    PROVE  A!Inv
<1>1. A!TypeOK
  BY DEF A!Init, A!TypeOK, A!AddressAssumption, A!Stages, A!Hashes
<1> QED
  BY <1>1 DEF A!Init, A!Inv, A!CacheIsSmall, A!ParamsAreRecent, A!PaidWasPaid, A!Entries,
     A!AddressAssumption, A!Stages, A!Hashes, A!NoInvoice

\* What is read off an invoice is a hash.
LEMMA AddressHash ==
    ASSUME NEW fields \in {<<>>, <<0, 2>>, <<1, 2>>}
    PROVE  A!PaymentHash(fields) \in A!Hashes /\ A!WalletPays(fields) = A!PaymentHash(fields)
<1>1. A!WalletPays(fields) = A!PaymentHash(fields)
  BY DEF A!WalletPays, A!PaymentHash
<1>2. \A n \in DOMAIN fields : fields[n] \in A!Hashes
  BY DEF A!Hashes
<1>3. A!Good(fields) \subseteq DOMAIN fields /\ DOMAIN fields \subseteq {1, 2}
  BY DEF A!Good
<1>4. ASSUME A!Good(fields) # {}
      PROVE  A!Min(A!Good(fields)) \in A!Good(fields)
  <2>1. \E n \in A!Good(fields) : \A m \in A!Good(fields) : n <= m
    <3>1. CASE 1 \in A!Good(fields)
      BY <1>3, <3>1
    <3>2. CASE 1 \notin A!Good(fields)
      BY <1>3, <1>4, <3>2
    <3> QED
      BY <3>1, <3>2
  <2> QED
    BY <2>1 DEF A!Min
<1>5. 0 \in A!Hashes
  BY DEF A!Hashes
<1>6. CASE A!Good(fields) = {}
  BY <1>1, <1>5, <1>6 DEF A!PaymentHash
<1>7. CASE A!Good(fields) # {}
  BY <1>1, <1>2, <1>3, <1>4, <1>7 DEF A!PaymentHash
<1> QED
  BY <1>6, <1>7

\* The cache after an entry goes, or the oldest, or one comes.
AddressFits(entries) ==
    /\ entries \in Seq(A!Entries)
    /\ \A n \in DOMAIN entries : entries[n].until = entries[n].readAt + CacheTime

LEMMA AddressRemoves ==
    ASSUME NEW s, AddressFits(s), NEW n \in DOMAIN s
    PROVE  AddressFits(A!RemoveAt(s, n)) /\ Len(A!RemoveAt(s, n)) <= Len(s)
<1>1. s \in Seq(A!Entries) /\ n \in 1..Len(s) /\ Len(s) \in Nat
  BY DEF AddressFits
<1> DEFINE a == SubSeq(s, 1, n - 1)  b == SubSeq(s, n + 1, Len(s))
<1>2. /\ a \in Seq(A!Entries) /\ Len(a) = n - 1 /\ \A i \in 1..(n - 1) : a[i] = s[i]
      /\ b \in Seq(A!Entries) /\ Len(b) = Len(s) - n
      /\ \A i \in 1..(Len(s) - n) : b[i] = s[n + i]
  BY <1>1
<1>3. A!RemoveAt(s, n) = a \o b
  BY DEF A!RemoveAt
<1> HIDE DEF a, b
<1>4. /\ a \o b \in Seq(A!Entries) /\ Len(a \o b) = Len(s) - 1
      /\ \A i \in 1..(Len(s) - 1) : (a \o b)[i] = IF i < n THEN s[i] ELSE s[i + 1]
  <2>1. /\ a \o b \in Seq(A!Entries) /\ Len(a \o b) = Len(a) + Len(b)
        /\ \A i \in 1..(Len(a) + Len(b)) :
             (a \o b)[i] = IF i <= Len(a) THEN a[i] ELSE b[i - Len(a)]
    BY <1>2, ConcatProperties
  <2>2. Len(a) + Len(b) = Len(s) - 1
    BY <1>1, <1>2
  <2>3. ASSUME NEW i \in 1..(Len(s) - 1)
        PROVE  (a \o b)[i] = IF i < n THEN s[i] ELSE s[i + 1]
    <3>1. CASE i < n
      <4>1. i \in 1..(n - 1) /\ i <= Len(a) /\ i \in 1..(Len(a) + Len(b))
        BY <1>1, <1>2, <2>2, <3>1
      <4>2. (a \o b)[i] = a[i] /\ a[i] = s[i]
        BY <1>2, <2>1, <4>1
      <4> QED
        BY <3>1, <4>2
    <3>2. CASE ~(i < n)
      <4>1. ~(i <= Len(a)) /\ i - (n - 1) \in 1..(Len(s) - n) /\ n + (i - (n - 1)) = i + 1
        BY <1>1, <1>2, <3>2
      <4>2. (a \o b)[i] = b[i - (n - 1)] /\ b[i - (n - 1)] = s[n + (i - (n - 1))]
        BY <1>2, <2>1, <2>2, <4>1
      <4> QED
        BY <3>2, <4>1, <4>2
    <3> QED
      BY <3>1, <3>2
  <2> QED
    BY <2>1, <2>2, <2>3
<1>5. ASSUME NEW i \in DOMAIN (a \o b)
      PROVE  (a \o b)[i].until = (a \o b)[i].readAt + CacheTime
  <2>1. i \in 1..(Len(s) - 1)
    BY <1>1, <1>4
  <2>2. i \in DOMAIN s /\ i + 1 \in DOMAIN s
    BY <1>1, <2>1
  <2> QED
    BY <1>4, <2>1, <2>2 DEF AddressFits
<1> QED
  BY <1>1, <1>3, <1>4, <1>5 DEF AddressFits

LEMMA AddressRoom ==
    ASSUME A!AddressAssumption, A!Inv, NEW a
    PROVE  AddressFits(A!Room(a)) /\ Len(A!Room(a)) < CacheEntries
<1>1. AddressFits(cache) /\ Len(cache) <= CacheEntries /\ CacheEntries \in Nat \ {0}
  BY DEF A!Inv, AddressFits, A!CacheIsSmall, A!AddressAssumption
<1>2. CASE Len(cache) >= CacheEntries
  <2>1. cache # <<>> /\ cache \in Seq(A!Entries)
    BY <1>1, <1>2 DEF AddressFits
  <2>2. /\ Tail(cache) \in Seq(A!Entries) /\ Len(Tail(cache)) = Len(cache) - 1
        /\ \A i \in 1..(Len(cache) - 1) : Tail(cache)[i] = cache[i + 1]
    BY <2>1, HeadTailProperties
  <2>3. \A i \in 1..(Len(cache) - 1) : i + 1 \in DOMAIN cache
    BY <2>1
  <2>4. DOMAIN Tail(cache) = 1..(Len(cache) - 1)
    BY <2>2
  <2>5. AddressFits(Tail(cache))
    BY <1>1, <2>2, <2>3, <2>4 DEF AddressFits
  <2> QED
    BY <1>1, <1>2, <2>1, <2>2, <2>5 DEF A!Room
<1>3. CASE ~(Len(cache) >= CacheEntries)
  BY <1>1, <1>3 DEF A!Room, AddressFits
<1> QED
  BY <1>2, <1>3

LEMMA AddressKept ==
    ASSUME NEW s, AddressFits(s), NEW e \in A!Entries, e.until = e.readAt + CacheTime
    PROVE  AddressFits(A!Kept(s, e)) /\ Len(A!Kept(s, e)) <= Len(s) + 1
<1>1. s \in Seq(A!Entries) /\ Len(s) \in Nat /\ DOMAIN s = 1..Len(s)
  BY DEF AddressFits
<1>2. CASE \E n \in DOMAIN s : s[n].address = e.address
  <2> DEFINE t == [n \in 1..Len(s) |-> IF s[n].address = e.address THEN e ELSE s[n]]
  <2>1. A!Kept(s, e) = t
    BY <1>1, <1>2 DEF A!Kept
  <2>2. \A n \in 1..Len(s) : t[n] \in A!Entries /\ t[n].until = t[n].readAt + CacheTime
    BY <1>1 DEF AddressFits
  <2>3. t \in Seq(A!Entries) /\ Len(t) = Len(s) /\ DOMAIN t = 1..Len(s)
    BY <1>1, <2>2
  <2> HIDE DEF t
  <2> QED
    BY <1>1, <2>1, <2>2, <2>3 DEF AddressFits
<1>3. CASE ~\E n \in DOMAIN s : s[n].address = e.address
  <2>1. A!Kept(s, e) = Append(s, e)
    BY <1>3 DEF A!Kept
  <2>2. /\ Append(s, e) \in Seq(A!Entries) /\ Len(Append(s, e)) = Len(s) + 1
        /\ \A n \in 1..Len(s) : Append(s, e)[n] = s[n]
        /\ Append(s, e)[Len(s) + 1] = e
    BY <1>1, AppendProperties
  <2>3. ASSUME NEW n \in DOMAIN Append(s, e)
        PROVE  Append(s, e)[n].until = Append(s, e)[n].readAt + CacheTime
    <3>1. n \in 1..Len(s) \/ n = Len(s) + 1
      BY <1>1, <2>2
    <3> QED
      BY <1>1, <2>2, <3>1 DEF AddressFits
  <2> QED
    BY <2>1, <2>2, <2>3 DEF AddressFits
<1> QED
  BY <1>2, <1>3

LEMMA AddressStep ==
    ASSUME A!AddressAssumption, A!Inv, [A!Next]_A!vars
    PROVE  A!Inv'
<1> DEFINE Rec == [stage : A!Stages, version : 0..Versions, readAt : 0..AddressTime,
                   usedAt : 0..AddressTime]
           Inv1 == [hash : A!Hashes, pays : A!Hashes, verify : BOOLEAN]
           Says == {"notAsked", "unpaid", "paid"}
           Fit(a, g, v, hashes) ==
             /\ a.stage \in {"invoice", "given"} => a.usedAt - a.readAt <= CacheTime
             /\ a.stage = "given" => g.hash = g.pays /\ g.hash # 0
             /\ v = "paid" => a.stage = "given" /\ g.pays \in hashes
<1>0. /\ CacheTime \in Nat /\ AddressTime \in Nat /\ Versions \in Nat /\ Amount \in Nat
      /\ CacheEntries \in Nat
      /\ \A r \in AddressAsks : AddressOf[r] \in PayAddresses
  BY DEF A!AddressAssumption
<1>1. /\ addressClock \in 0..AddressTime /\ current \in [PayAddresses -> 1..Versions]
      /\ invoiceAsk \in [AddressAsks -> Rec] /\ given \in [AddressAsks -> Inv1] /\ verified \in [AddressAsks -> Says]
      /\ hashesPaid \subseteq A!Hashes
      /\ \A r \in AddressAsks : Fit(invoiceAsk[r], given[r], verified[r], hashesPaid)
      /\ AddressFits(cache) /\ Len(cache) <= CacheEntries
  BY DEF A!Inv, A!TypeOK, A!CacheIsSmall, A!ParamsAreRecent, A!PaidWasPaid, AddressFits
<1>2. ASSUME addressClock' \in 0..AddressTime, current' \in [PayAddresses -> 1..Versions],
             invoiceAsk' \in [AddressAsks -> Rec], given' \in [AddressAsks -> Inv1],
             verified' \in [AddressAsks -> Says], hashesPaid' \subseteq A!Hashes,
             \A r \in AddressAsks : Fit(invoiceAsk'[r], given'[r], verified'[r], hashesPaid'),
             AddressFits(cache'), Len(cache') <= CacheEntries
      PROVE  A!Inv'
  <2>1. cache' \in Seq(A!Entries)
    BY <1>2 DEF AddressFits
  <2>2. \A n \in DOMAIN cache' : cache'[n] \in A!Entries
    BY <2>1
  <2>3. \A n \in DOMAIN cache' : cache'[n].address \in PayAddresses /\ cache'[n].version \in 1..Versions
    BY <2>2 DEF A!Entries
  <2>4. \A r \in AddressAsks : invoiceAsk'[r].stage \in A!Stages /\ invoiceAsk'[r].version \in 0..Versions
    BY <1>2
  <2>5. (A!TypeOK)'
    BY <1>2, <2>3, <2>4 DEF A!TypeOK
  <2>6. (A!CacheIsSmall)' /\ (A!ParamsAreRecent)' /\ (A!PaidWasPaid)'
    BY <1>2 DEF A!CacheIsSmall, A!ParamsAreRecent, A!PaidWasPaid
  <2>7. \A n \in DOMAIN cache' : cache'[n].until = cache'[n].readAt + CacheTime
    BY <1>2 DEF AddressFits
  <2>8. \A r \in AddressAsks : /\ invoiceAsk'[r].stage = "given" => given'[r].hash # 0
                               /\ verified'[r] = "paid" => invoiceAsk'[r].stage = "given"
    BY <1>2
  <2> QED
    BY <1>2, <2>1, <2>5, <2>6, <2>7, <2>8 DEF A!Inv
<1>3. ASSUME NEW r \in AddressAsks, NEW a \in Rec,
             invoiceAsk' = [invoiceAsk EXCEPT ![r] = a], invoiceAsk[r].stage # "given",
             a.stage # "given",
             a.stage = "invoice" => a.usedAt - a.readAt <= CacheTime,
             AddressFits(cache'), Len(cache') <= CacheEntries,
             UNCHANGED <<addressClock, current, given, verified, hashesPaid>>
      PROVE  A!Inv'
  <2>1. invoiceAsk' \in [AddressAsks -> Rec]
    BY <1>1, <1>3
  <2>2. ASSUME NEW q \in AddressAsks
        PROVE  Fit(invoiceAsk'[q], given'[q], verified'[q], hashesPaid')
    <3>1. CASE q = r
      BY <1>1, <1>3, <3>1
    <3>2. CASE q # r
      BY <1>1, <1>3, <3>2
    <3> QED
      BY <3>1, <3>2
  <2> QED
    BY <1>1, <1>2, <1>3, <2>1, <2>2
<1>4. ASSUME NEW r \in AddressAsks, NEW phase \in A!Stages
      PROVE  A!At(r, phase) \in Rec /\ A!At(r, phase).stage = phase
             /\ A!At(r, phase).usedAt = invoiceAsk[r].usedAt
             /\ A!At(r, phase).readAt = invoiceAsk[r].readAt
  BY <1>1 DEF A!At
<1>5. ASSUME NEW version \in 1..Versions, NEW readAt \in 0..AddressTime
      PROVE  /\ A!GoesBy(version, readAt) \in Rec
             /\ A!GoesBy(version, readAt).stage # "given"
             /\ A!GoesBy(version, readAt).usedAt = addressClock
             /\ A!GoesBy(version, readAt).readAt = readAt
  BY <1>0, <1>1 DEF A!GoesBy, A!Stages
<1>6. ASSUME NEW r \in AddressAsks, A!Begin(r)
      PROVE  A!Inv'
  <2>1. /\ invoiceAsk[r].stage = "new"
        /\ UNCHANGED <<addressClock, current, given, verified, hashesPaid>>
    BY <1>6 DEF A!Begin
  <2>2. ASSUME NEW n \in A!Hit(AddressOf[r]), cache' = cache,
               invoiceAsk' = [invoiceAsk EXCEPT ![r] = A!GoesBy(cache[n].version, cache[n].readAt)]
        PROVE  A!Inv'
    <3>1. n \in DOMAIN cache /\ cache[n].until > addressClock /\ cache \in Seq(A!Entries)
      BY <1>1, <2>2 DEF A!Hit, A!Entry, AddressFits
    <3>2. cache[n] \in A!Entries /\ cache[n].until = cache[n].readAt + CacheTime
      BY <1>1, <3>1 DEF AddressFits
    <3>3. /\ cache[n].version \in 1..Versions /\ cache[n].readAt \in 0..AddressTime
          /\ addressClock - cache[n].readAt <= CacheTime
      BY <1>0, <1>1, <3>1, <3>2 DEF A!Entries
    <3> DEFINE b == A!GoesBy(cache[n].version, cache[n].readAt)
    <3>4. /\ b \in Rec /\ b.stage # "given" /\ b.usedAt - b.readAt <= CacheTime
      BY <1>5, <3>3
    <3>5. invoiceAsk' = [invoiceAsk EXCEPT ![r] = b] /\ invoiceAsk[r].stage # "given"
      BY <2>1, <2>2
    <3>6. AddressFits(cache') /\ Len(cache') <= CacheEntries
      BY <1>1, <2>2
    <3> HIDE DEF b
    <3> QED
      BY <1>3, <2>1, <3>4, <3>5, <3>6
  <2>3. ASSUME invoiceAsk' = [invoiceAsk EXCEPT ![r] = A!At(r, "params")],
               AddressFits(cache'), Len(cache') <= CacheEntries
        PROVE  A!Inv'
    BY <1>3, <1>4, <2>1, <2>3 DEF A!Stages
  <2>4. ASSUME NEW n \in A!Entry(AddressOf[r]), cache' = A!RemoveAt(cache, n)
        PROVE  AddressFits(cache') /\ Len(cache') <= CacheEntries
    <3>1. n \in DOMAIN cache
      BY <2>4 DEF A!Entry
    <3>2. AddressFits(cache') /\ Len(cache') <= Len(cache)
      BY <1>1, <2>4, <3>1, AddressRemoves
    <3>3. Len(cache) \in Nat /\ Len(cache') \in Nat
      BY <1>1, <3>2 DEF AddressFits
    <3> QED
      BY <1>0, <1>1, <3>2, <3>3
  <2> QED
    BY <1>1, <1>6, <2>2, <2>3, <2>4 DEF A!Begin
<1>7. ASSUME NEW r \in AddressAsks, A!ParamsCome(r)
      PROVE  A!Inv'
  <2> DEFINE a == AddressOf[r]
             e == [address |-> a, version |-> current[a],
                   readAt |-> addressClock, until |-> addressClock + CacheTime]
  <2>1. /\ invoiceAsk[r].stage = "params"
        /\ cache' = A!Kept(A!Room(a), e)
        /\ invoiceAsk' = [invoiceAsk EXCEPT ![r] = A!GoesBy(e.version, addressClock)]
        /\ UNCHANGED <<addressClock, current, given, verified, hashesPaid>>
    BY <1>7 DEF A!ParamsCome
  <2>2. e \in A!Entries /\ e.until = e.readAt + CacheTime /\ e.version \in 1..Versions
    BY <1>0, <1>1 DEF A!Entries
  <2> HIDE DEF e, a
  <2>3. AddressFits(A!Room(a)) /\ Len(A!Room(a)) < CacheEntries
    BY AddressRoom
  <2>4. AddressFits(cache') /\ Len(cache') <= Len(A!Room(a)) + 1
    BY <2>1, <2>2, <2>3, AddressKept
  <2>5. Len(A!Room(a)) \in Nat /\ Len(cache') \in Nat
    BY <2>3, <2>4 DEF AddressFits
  <2>6. Len(cache') <= CacheEntries
    BY <1>0, <2>3, <2>4, <2>5
  <2>7. addressClock - addressClock <= CacheTime
    BY <1>0, <1>1
  <2> DEFINE b == A!GoesBy(e.version, addressClock)
  <2>8. /\ b \in Rec /\ b.stage # "given" /\ b.usedAt - b.readAt <= CacheTime
    BY <1>1, <1>5, <2>2, <2>7
  <2>9. invoiceAsk' = [invoiceAsk EXCEPT ![r] = b] /\ invoiceAsk[r].stage # "given"
    BY <2>1
  <2> HIDE DEF b
  <2> QED
    BY <1>3, <2>1, <2>4, <2>6, <2>8, <2>9
<1>8. ASSUME NEW r \in AddressAsks, A!InvoiceComes(r)
      PROVE  A!Inv'
  <2>1. /\ invoiceAsk[r].stage = "invoice"
        /\ UNCHANGED <<addressClock, current, cache, verified, hashesPaid>>
    BY <1>8 DEF A!InvoiceComes
  <2>2. CASE /\ invoiceAsk' = [invoiceAsk EXCEPT ![r] = A!At(r, "refused")]
             /\ UNCHANGED given
    BY <1>1, <1>3, <1>4, <2>1, <2>2 DEF A!Stages
  <2>3. ASSUME NEW i \in A!AnyInvoice, A!Usable(r, i),
               invoiceAsk' = [invoiceAsk EXCEPT ![r] = A!At(r, "given")],
               given' = [given EXCEPT ![r] =
                   [hash |-> A!PaymentHash(i.fields), pays |-> A!WalletPays(i.fields),
                    verify |-> i.verify]]
        PROVE  A!Inv'
    <3> DEFINE h == A!PaymentHash(i.fields)
    <3>1. /\ h \in A!Hashes /\ A!WalletPays(i.fields) = h /\ h # 0
          /\ i.verify \in BOOLEAN
      BY <2>3, AddressHash DEF A!AnyInvoice, A!Usable
    <3> HIDE DEF h
    <3>2. given' = [given EXCEPT ![r] = [hash |-> h, pays |-> h, verify |-> i.verify]]
      BY <2>3, <3>1 DEF h
    <3>3. given' \in [AddressAsks -> Inv1]
      BY <1>1, <3>1, <3>2
    <3>4. invoiceAsk' \in [AddressAsks -> Rec]
      BY <1>1, <1>4, <2>3 DEF A!Stages
    <3>5. ASSUME NEW q \in AddressAsks
          PROVE  Fit(invoiceAsk'[q], given'[q], verified'[q], hashesPaid')
      <4>1. CASE q = r
        BY <1>1, <1>4, <2>1, <2>3, <3>1, <3>2, <4>1 DEF A!Stages
      <4>2. CASE q # r
        BY <1>1, <2>1, <2>3, <3>2, <4>2
      <4> QED
        BY <4>1, <4>2
    <3> QED
      BY <1>1, <1>2, <2>1, <3>3, <3>4, <3>5
  <2> QED
    BY <1>8, <2>2, <2>3 DEF A!InvoiceComes
<1>9. ASSUME NEW r \in AddressAsks, A!Refused(r)
      PROVE  A!Inv'
  BY <1>1, <1>3, <1>4, <1>9 DEF A!Refused, A!Stages
<1>10. ASSUME NEW r \in AddressAsks, A!Pay(r)
      PROVE  A!Inv'
  <2>1. given[r].pays \in A!Hashes
    BY <1>1
  <2> QED
    BY <1>1, <1>2, <1>10, <2>1 DEF A!Pay
<1>11. ASSUME NEW r \in AddressAsks, A!Verify(r)
      PROVE  A!Inv'
  <2>1. PICK settled \in BOOLEAN, preimage \in hashesPaid \cup {0} :
          verified' = [verified EXCEPT ![r] =
            IF A!TakenAsPaid(settled, preimage, given[r].hash) THEN "paid" ELSE "unpaid"]
    BY <1>11 DEF A!Verify
  <2>2. /\ invoiceAsk[r].stage = "given"
        /\ UNCHANGED <<addressClock, current, cache, invoiceAsk, given, hashesPaid>>
    BY <1>11 DEF A!Verify
  <2>3. A!TakenAsPaid(settled, preimage, given[r].hash) => given[r].pays \in hashesPaid
    BY <1>1, <2>2 DEF A!TakenAsPaid
  <2>4. verified' \in [AddressAsks -> Says]
    BY <1>1, <2>1
  <2>5. ASSUME NEW q \in AddressAsks
        PROVE  Fit(invoiceAsk'[q], given'[q], verified'[q], hashesPaid')
    BY <1>1, <2>1, <2>2, <2>3
  <2> QED
    BY <1>1, <1>2, <2>2, <2>4, <2>5
<1>12. ASSUME NEW a \in PayAddresses, A!Changes(a)
      PROVE  A!Inv'
  <2>1. current' \in [PayAddresses -> 1..Versions]
    BY <1>0, <1>1, <1>12 DEF A!Changes
  <2> QED
    BY <1>1, <1>2, <1>12, <2>1 DEF A!Changes
<1>13. CASE A!Tick
  <2>1. addressClock' \in 0..AddressTime
    BY <1>0, <1>1, <1>13 DEF A!Tick
  <2> QED
    BY <1>1, <1>2, <1>13, <2>1 DEF A!Tick
<1>14. CASE UNCHANGED A!vars
  BY <1>1, <1>2, <1>14 DEF A!vars
<1> QED
  BY <1>6, <1>7, <1>8, <1>9, <1>10, <1>11, <1>12, <1>13, <1>14 DEF A!Next

-----------------------------------------------------------------------------
(* One request at a link somebody typed.                                   *)

\* At most one socket: none, or one.
LEMMA FetchSockets ==
    /\ \A s : s = {} => F!Cardinality(s) <= 1
    /\ \A s, a : s = {a} => F!Cardinality(s) <= 1
<1>1. ASSUME NEW s, s = {} PROVE F!Cardinality(s) <= 1
  <2>1. F!Cardinality(s) = Cardinality({}) /\ Cardinality({}) = 0
    BY <1>1, SameSize, FS_EmptySet, Zenon
  <2> QED
    BY <2>1
<1>2. ASSUME NEW s, NEW a, s = {a} PROVE F!Cardinality(s) <= 1
  <2>1. F!Cardinality(s) = Cardinality({a}) /\ Cardinality({a}) = 1
    BY <1>2, SameSize, FS_Singleton, Zenon
  <2> QED
    BY <2>1
<1> QED
  BY <1>1, <1>2

LEMMA FetchInit ==
    ASSUME F!FetchAssumption, F!Init
    PROVE  F!Inv
<1>1. F!Cardinality(socket) <= 1
  BY FetchSockets DEF F!Init
<1>2. F!TypeOK
  <2>1. fetchClock = 0 /\ held = 0 /\ deadline = FALSE
    BY DEF F!Init
  <2>2. socket \subseteq F!Addresses /\ names \subseteq F!Addresses /\ link \in F!Links
    BY DEF F!Init
  <2>3. outcome \in F!Codes \cup {"none", "body"} /\ stage = "new"
    BY DEF F!Init
  <2> QED
    <3>1. fetchClock \in 0..FetchTimeout
      BY <2>1 DEF F!FetchAssumption
    <3>2. held \in Nat /\ deadline \in BOOLEAN
      BY <2>1
    <3>3. stage \in {"new", "resolving", "connecting", "waiting", "reading", "over"}
      BY <2>3
    <3> QED
      BY <1>1, <2>2, <2>3, <3>1, <3>2, <3>3 DEF F!TypeOK
<1> QED
  BY <1>2 DEF F!FetchAssumption, F!Init, F!Inv, F!ConnectsInPublic, F!HeldIsSmall,
              F!NothingLeftOpen, F!CheckedFirst

LEMMA FetchStep ==
    ASSUME F!FetchAssumption, F!Inv, [F!Next]_F!vars
    PROVE  F!Inv'
<1> USE DEF F!FetchAssumption, F!Inv, F!TypeOK, F!ConnectsInPublic, F!HeldIsSmall,
            F!NothingLeftOpen, F!CheckedFirst, F!Codes, F!Addresses, F!Allowed
<1>1. /\ socket' = {} => F!Cardinality(socket') <= 1
      /\ \A a : socket' = {a} => F!Cardinality(socket') <= 1
  BY FetchSockets
<1>2. CASE F!Begin
  <2>1. link.literal = {} \/ \E a \in F!Addresses : link.literal = {a}
    BY DEF F!Links
  <2> QED
    BY <1>2, <2>1 DEF F!Begin
<1>3. CASE F!LooksUp
  <2>1. CASE F!Fails("NETWORK") \/ F!Fails("BLOCKED_ADDRESS")
    BY <1>1, <1>3, <2>1 DEF F!LooksUp, F!Fails
  <2>2. CASE /\ F!Passes(names) /\ \E a \in names : socket' = {a}
             /\ stage' = "waiting" /\ UNCHANGED <<deadline, outcome>>
    BY <1>1, <1>3, <2>2 DEF F!LooksUp, F!Passes
  <2> QED
    BY <1>3, <2>1, <2>2 DEF F!LooksUp
<1>4. CASE F!Connects
  <2>1. link.literal = {} \/ \E a \in F!Addresses : link.literal = {a}
    BY DEF F!Links
  <2> QED
    BY <1>1, <1>4, <2>1 DEF F!Connects
<1>5. CASE F!AnswerBegins
  BY <1>1, <1>5 DEF F!AnswerBegins, F!Fails
<1>6. CASE F!Chunk
  <2>1. CASE F!Fails("TOO_LARGE") /\ UNCHANGED <<held, fetchClock, link, names>>
    BY <1>1, <2>1 DEF F!Fails
  <2>2. CASE /\ \E chunks \in 1..2 : ~F!TooMuch(chunks) /\ held' = held + chunks
             /\ UNCHANGED <<stage, socket, deadline, outcome, fetchClock, link, names>>
    BY <2>2 DEF F!TooMuch
  <2> QED
    BY <1>6, <2>1, <2>2 DEF F!Chunk
<1>7. CASE F!AnswerEnds
  BY <1>1, <1>7 DEF F!AnswerEnds
<1>8. CASE F!Drops
  BY <1>1, <1>8 DEF F!Drops, F!Fails
<1>9. CASE F!Deadline
  BY <1>1, <1>9 DEF F!Deadline, F!Fails
<1>10. CASE F!Tick
  BY <1>10 DEF F!Tick
<1>11. CASE F!NamesMove
  BY <1>11 DEF F!NamesMove
<1>12. CASE UNCHANGED F!vars
  BY <1>12 DEF F!vars
<1> QED
  BY <1>2, <1>3, <1>4, <1>5, <1>6, <1>7, <1>8, <1>9, <1>10, <1>11, <1>12 DEF F!Next

-----------------------------------------------------------------------------
(* Following a payment.                                                    *)

LEMMA UpdatesInit ==
    ASSUME P!PaymentUpdatesAssumption, P!Init
    PROVE  P!Inv
<1> USE DEF P!PaymentUpdatesAssumption, P!Init, P!AtRest, P!Nothing
<1>1. row = 0 /\ pipe = <<>> /\ answer = P!Nothing /\ heard = P!Nothing /\ drops = 0
  OBVIOUS
<1>2. P!TypeOK
  <2>1. server \in [runs : BOOLEAN, sent : P!Reading \cup {P!Nothing}, left : 0..MaxChecks]
    BY DEF P!Reading
  <2>2. pipe \in Seq(P!Reading \cup {P!Nothing})
    OBVIOUS
  <2>3. gone \in BOOLEAN /\ stopped \in BOOLEAN
    OBVIOUS
  <2> QED
    BY <2>1, <2>2, <2>3 DEF P!TypeOK, P!Reading
<1>3. P!OneWayToHear /\ P!OpenHasAnEnd /\ P!ClosedWhenHeard
  BY DEF P!OneWayToHear, P!OpenHasAnEnd, P!ClosedWhenHeard
<1>4. P!NewerFollows /\ P!Turns
  BY DEF P!NewerFollows, P!Turns
<1> QED
  BY <1>2, <1>3, <1>4 DEF P!Inv

\* What the numbers are: a reading is older than "no reading".
LEMMA UpdatesNumbers ==
    ASSUME P!PaymentUpdatesAssumption, P!Inv
    PROVE  /\ LastStatus \in Nat /\ StreamFinish \in Nat /\ row \in 0..LastStatus
           /\ P!Nothing = LastStatus + 1 /\ P!Reading = 0..LastStatus
           /\ heard \in 0..(LastStatus + 1) /\ answer \in 0..(LastStatus + 1) /\ server.sent \in 0..(LastStatus + 1)
BY DEF P!PaymentUpdatesAssumption, P!Inv, P!TypeOK, P!Reading, P!Nothing

\* What is on its way.
LEMMA UpdatesPipe ==
    ASSUME P!PaymentUpdatesAssumption, P!Inv
    PROVE  /\ pipe \in Seq(0..(LastStatus + 1)) /\ Len(pipe) \in Nat /\ DOMAIN pipe = 1..Len(pipe)
           /\ \A i \in 1..Len(pipe) : pipe[i] \in 0..(LastStatus + 1)
           /\ \A i, j \in 1..Len(pipe) : i < j => pipe[i] < pipe[j]
           /\ \A i \in 1..Len(pipe) : /\ heard # P!Nothing => heard < pipe[i]
                                      /\ pipe[i] # P!Nothing => pipe[i] <= row
<1>1. P!Reading \cup {P!Nothing} = 0..(LastStatus + 1)
  BY DEF P!PaymentUpdatesAssumption, P!Reading, P!Nothing
<1>2. pipe \in Seq(0..(LastStatus + 1))
  BY <1>1 DEF P!Inv, P!TypeOK
<1>3. Len(pipe) \in Nat /\ DOMAIN pipe = 1..Len(pipe)
  BY <1>2, LenProperties
<1>4. \A i \in 1..Len(pipe) : pipe[i] \in 0..(LastStatus + 1)
  BY <1>2, ElementOfSeq, Zenon
<1> QED
  BY <1>2, <1>3, <1>4, Zenon DEF P!Inv, P!NewerFollows

\* While the loop runs, it has sent the last of it.
LEMMA UpdatesSent ==
    ASSUME P!PaymentUpdatesAssumption, P!Inv, server.runs, NEW i \in 1..Len(pipe)
    PROVE  /\ pipe[i] \in 0..LastStatus /\ pipe[i] <= row /\ pipe[i] <= server.sent
           /\ server.sent # P!Nothing
<1>1. i \in DOMAIN pipe
  BY UpdatesPipe, Zenon
<1>2. pipe[i] <= server.sent /\ server.sent # P!Nothing
  BY <1>1, Zenon DEF P!Inv, P!NewerFollows
<1>3. pipe[i] \in 0..(LastStatus + 1) /\ (pipe[i] # P!Nothing => pipe[i] <= row)
  BY UpdatesPipe, Zenon
<1> QED
  BY <1>2, <1>3, UpdatesNumbers

UpdatesGoal == P!Inv' /\ P!OnlyForward

\* Whatever leaves the stream and what was sent by it alone.
LEMMA UpdatesRow ==
    ASSUME P!PaymentUpdatesAssumption, P!Inv, P!Change \/ P!Delete
    PROVE  UpdatesGoal
<1> USE DEF P!stream, P!polling
<1>1. /\ row' \in P!Reading /\ row <= row'
      /\ UNCHANGED <<source, server, pipe, poll, answer, stopped, heard, drops>>
  BY DEF P!Change, P!Delete, P!Inv, P!TypeOK, P!Reading, P!PaymentUpdatesAssumption
<1>2. P!TypeOK'
  <2>1. gone' = gone \/ gone' = TRUE
    BY DEF P!Change, P!Delete
  <2> QED
    BY <1>1, <2>1 DEF P!Inv, P!TypeOK
<1>3. P!OneWayToHear' /\ P!OpenHasAnEnd' /\ P!ClosedWhenHeard' /\ P!Turns' /\ P!OnlyForward
  BY <1>1 DEF P!Inv, P!OneWayToHear, P!OpenHasAnEnd, P!ClosedWhenHeard, P!Turns, P!OnlyForward
<1>4. P!NewerFollows'
  <2>1. ASSUME NEW i \in DOMAIN pipe, pipe[i] # P!Nothing PROVE pipe[i] <= row'
    <3>1. pipe[i] <= row /\ pipe[i] \in 0..(LastStatus + 1)
      BY <2>1, UpdatesPipe, Zenon
    <3> QED
      BY <1>1, <3>1, UpdatesNumbers
  <2>2. \A v \in {heard, answer, server.sent} : v # P!Nothing => v <= row'
    BY <1>1, UpdatesNumbers DEF P!Inv, P!NewerFollows, P!PaymentUpdatesAssumption, P!Reading
  <2> QED
    BY <1>1, <2>1, <2>2 DEF P!Inv, P!NewerFollows
<1> QED
  BY <1>2, <1>3, <1>4 DEF P!Inv, UpdatesGoal

LEMMA UpdatesConnect ==
    ASSUME P!PaymentUpdatesAssumption, P!Inv, P!Connect
    PROVE  UpdatesGoal
<1> USE DEF P!stream, P!polling, P!PaymentUpdatesAssumption
<1>1. CASE pipe' = <<P!Nothing>> /\ UNCHANGED <<source, server>>
  <2>1. UNCHANGED <<row, gone, poll, answer, stopped, heard, drops>> /\ source = "connecting"
    BY DEF P!Connect
  <2>2. Len(pipe') = 1 /\ pipe'[1] = P!Nothing /\ DOMAIN pipe' = {1}
        /\ pipe' \in Seq(P!Reading \cup {P!Nothing})
    BY <1>1
  <2>3. P!TypeOK'
    BY <1>1, <2>1, <2>2 DEF P!Inv, P!TypeOK
  <2>4. P!OneWayToHear' /\ P!OpenHasAnEnd' /\ P!ClosedWhenHeard' /\ P!Turns' /\ P!OnlyForward
    BY <1>1, <2>1 DEF P!Inv, P!OneWayToHear, P!OpenHasAnEnd, P!ClosedWhenHeard, P!Turns, P!OnlyForward
  <2>5. P!NewerFollows'
    BY <1>1, <2>1, <2>2 DEF P!Inv, P!NewerFollows, P!Turns
  <2> QED
    BY <2>3, <2>4, <2>5 DEF P!Inv, UpdatesGoal
<1>2. CASE /\ source' = "open" /\ UNCHANGED pipe
           /\ server' = [runs |-> TRUE, sent |-> P!Nothing, left |-> MaxChecks]
  <2>1. UNCHANGED <<row, gone, poll, answer, stopped, heard, drops>> /\ source = "connecting"
        /\ pipe = <<>>
    BY DEF P!Connect
  <2>2. server' \in [runs : BOOLEAN, sent : P!Reading \cup {P!Nothing}, left : 0..MaxChecks]
    BY <1>2
  <2>3. P!TypeOK'
    BY <1>2, <2>1, <2>2 DEF P!Inv, P!TypeOK
  <2>4. P!OneWayToHear' /\ P!OpenHasAnEnd' /\ P!ClosedWhenHeard' /\ P!Turns' /\ P!OnlyForward
    BY <1>2, <2>1 DEF P!Inv, P!OneWayToHear, P!OpenHasAnEnd, P!ClosedWhenHeard, P!Turns, P!OnlyForward
  <2>5. P!NewerFollows'
    BY <1>2, <2>1 DEF P!Inv, P!NewerFollows, P!Turns
  <2> QED
    BY <2>3, <2>4, <2>5 DEF P!Inv, UpdatesGoal
<1> QED
  BY <1>1, <1>2 DEF P!Connect

\* What an element at the end leaves as it was.
LEMMA UpdatesAppend ==
    ASSUME NEW old \in Seq(0..(LastStatus + 1)), NEW v \in 0..(LastStatus + 1), NEW next, next = Append(old, v)
    PROVE  /\ next \in Seq(0..(LastStatus + 1)) /\ Len(next) = Len(old) + 1
           /\ DOMAIN next = 1..(Len(old) + 1)
           /\ \A i \in 1..Len(old) : next[i] = old[i]
           /\ next[Len(old) + 1] = v
BY AppendProperties

\* An order that goes on.
LEMMA UpdatesOrder ==
    ASSUME NEW n \in Nat, NEW p, NEW q, NEW v \in Int,
           \A i \in 1..n : p[i] \in Int /\ q[i] = p[i] /\ p[i] < v, q[n + 1] = v,
           \A i, j \in 1..n : i < j => p[i] < p[j]
    PROVE  \A i, j \in 1..(n + 1) : i < j => q[i] < q[j]
<1> SUFFICES ASSUME NEW i \in 1..(n + 1), NEW j \in 1..(n + 1), i < j PROVE q[i] < q[j]
  OBVIOUS
<1>1. i \in 1..n
  OBVIOUS
<1>2. CASE j = n + 1
  BY <1>1, <1>2
<1>3. CASE j \in 1..n
  BY <1>1, <1>3
<1> QED
  BY <1>2, <1>3

\* The sequence p with v after it is as the pipe must be, if p is and v is newer.
LEMMA UpdatesNewer ==
    ASSUME NEW old \in Seq(0..(LastStatus + 1)), NEW v \in 0..(LastStatus + 1), NEW next, next = Append(old, v),
           \A i \in 1..Len(old) : old[i] < v, \A i, j \in 1..Len(old) : i < j => old[i] < old[j],
           LastStatus \in Nat
    PROVE  \A i, j \in 1..Len(next) : i < j => next[i] < next[j]
<1>1. /\ Len(next) = Len(old) + 1 /\ next[Len(old) + 1] = v /\ Len(old) \in Nat
      /\ \A i \in 1..Len(old) : next[i] = old[i]
  BY UpdatesAppend, LenProperties
<1>2. \A i \in 1..Len(old) : old[i] \in 0..(LastStatus + 1)
  BY ElementOfSeq, Zenon
<1>3. \A i \in 1..Len(old) : old[i] \in Int /\ next[i] = old[i] /\ old[i] < v
  BY <1>1, <1>2
<1>4. v \in Int
  OBVIOUS
<1>5. \A i, j \in 1..(Len(old) + 1) : i < j => next[i] < next[j]
  BY <1>1, <1>3, <1>4, UpdatesOrder, Zenon
<1> QED
  BY <1>1, <1>5, Zenon

\* What holds of every one there was and of one more holds of all.
LEMMA UpdatesEach ==
    ASSUME NEW old \in Seq(0..(LastStatus + 1)), NEW v \in 0..(LastStatus + 1), NEW next, next = Append(old, v),
           NEW good, v \in good, \A i \in 1..Len(old) : old[i] \in good
    PROVE  \A i \in 1..Len(next) : next[i] \in good
<1>1. /\ Len(next) = Len(old) + 1 /\ next[Len(old) + 1] = v /\ Len(old) \in Nat
      /\ \A i \in 1..Len(old) : next[i] = old[i]
  BY UpdatesAppend, LenProperties
<1> SUFFICES ASSUME NEW i \in 1..Len(next) PROVE next[i] \in good
  OBVIOUS
<1>2. i \in 1..Len(old) \/ i = Len(old) + 1
  BY <1>1
<1> QED
  BY <1>1, <1>2, Zenon

LEMMA UpdatesCheck ==
    ASSUME P!PaymentUpdatesAssumption, P!Inv, P!Check
    PROVE  UpdatesGoal
<1> USE DEF P!stream, P!polling
<1>0. /\ server.runs
      /\ UNCHANGED <<row, gone, source, poll, answer, stopped, heard, drops>>
  BY DEF P!Check
<1>a. P!AtRest \in [runs : BOOLEAN, sent : P!Reading \cup {P!Nothing}, left : 0..MaxChecks]
  BY DEF P!AtRest, P!PaymentUpdatesAssumption
<1>n. P!Reading \cup {P!Nothing} = 0..(LastStatus + 1)
  BY DEF P!PaymentUpdatesAssumption, P!Reading, P!Nothing
<1>k. source = "open" => answer = P!Nothing
  BY DEF P!Inv, P!Turns
<1>m. /\ P!Nothing \in 0..(LastStatus + 1) /\ row \in 0..(LastStatus + 1) /\ row # P!Nothing
      /\ pipe \in Seq(0..(LastStatus + 1)) /\ LastStatus \in Nat
  BY UpdatesNumbers, UpdatesPipe
<1> DEFINE Good == {n \in 0..(LastStatus + 1) :
           /\ heard # P!Nothing => heard < n
           /\ n # P!Nothing => n <= row}
<1>g. \A i \in 1..Len(pipe) : pipe[i] \in Good
  BY UpdatesPipe, Zenon
<1>h. P!Nothing \in Good
  BY <1>m, UpdatesNumbers
<1>l. \A i \in 1..Len(pipe) : pipe[i] < P!Nothing
  BY UpdatesSent, UpdatesNumbers, <1>0
<1> HIDE DEF Good
<1>1. CASE P!Ends
  <2>1. server' = P!AtRest /\ ~server'.runs /\ server'.sent = P!Nothing
    BY <1>1 DEF P!Ends, P!AtRest
  <2>2. CASE source # "open"
    <3>1. pipe' = pipe
      BY <1>1, <2>2 DEF P!Ends
    <3>2. P!TypeOK'
      BY <1>0, <1>a, <2>1, <3>1 DEF P!Inv, P!TypeOK
    <3>3. P!OneWayToHear' /\ P!OpenHasAnEnd' /\ P!ClosedWhenHeard' /\ P!Turns' /\ P!OnlyForward
      BY <1>0, <2>1, <2>2, <3>1
         DEF P!Inv, P!OneWayToHear, P!OpenHasAnEnd, P!ClosedWhenHeard, P!Turns, P!OnlyForward
    <3>4. P!NewerFollows'
      BY <1>0, <2>1, <2>2, <3>1 DEF P!Inv, P!NewerFollows
    <3> QED
      BY <3>2, <3>3, <3>4 DEF P!Inv, UpdatesGoal
  <2>3. CASE source = "open"
    <3>1. pipe' = Append(pipe, P!Nothing)
      BY <1>1, <2>3 DEF P!Ends
    <3>2. /\ pipe' \in Seq(0..(LastStatus + 1)) /\ DOMAIN pipe' = 1..Len(pipe')
          /\ Len(pipe) + 1 \in DOMAIN pipe' /\ pipe'[Len(pipe) + 1] = P!Nothing
      BY <1>m, <3>1, AppendProperties
    <3>3. P!TypeOK'
      BY <1>0, <1>a, <1>n, <2>1, <3>2, Zenon DEF P!Inv, P!TypeOK
    <3>4. P!OpenHasAnEnd'
      BY <3>2, Zenon DEF P!OpenHasAnEnd
    <3>5. P!OneWayToHear' /\ P!ClosedWhenHeard' /\ P!Turns' /\ P!OnlyForward
      BY <1>0, <2>1, <2>3 DEF P!Inv, P!OneWayToHear, P!ClosedWhenHeard, P!Turns, P!OnlyForward
    <3>6. P!NewerFollows'
      <4>1. \A i, j \in 1..Len(pipe') : i < j => pipe'[i] < pipe'[j]
        BY <1>m, <1>l, <3>1, UpdatesPipe, UpdatesNewer, Zenon
      <4>2. \A i \in 1..Len(pipe') : pipe'[i] \in Good
        BY <1>g, <1>h, <1>m, <3>1, UpdatesEach, Zenon
      <4> QED
        <5>1. \A i, j \in DOMAIN pipe' : i < j => pipe'[i] < pipe'[j]
          BY <3>2, <4>1, Zenon
        <5>2. \A i \in DOMAIN pipe' : /\ heard # P!Nothing => heard < pipe'[i]
                                      /\ pipe'[i] # P!Nothing => pipe'[i] <= row
          BY <3>2, <4>2, Zenon DEF Good
        <5>3. \A v \in {heard, answer, server'.sent} : v # P!Nothing => v <= row
          BY <2>1 DEF P!Inv, P!NewerFollows
        <5> QED
          BY <1>0, <1>k, <2>1, <2>3, <5>1, <5>2, <5>3 DEF P!NewerFollows
    <3> QED
      BY <3>3, <3>4, <3>5, <3>6 DEF P!Inv, UpdatesGoal
  <2> QED
    BY <2>2, <2>3
<1>s. P!IsNews(row) => (server.sent # P!Nothing => server.sent < row)
  BY UpdatesNumbers DEF P!Inv, P!NewerFollows, P!IsNews
<1>t. source = "open" /\ P!IsNews(row) => row \in Good /\ \A i \in 1..Len(pipe) : pipe[i] < row
  <2> SUFFICES ASSUME source = "open", P!IsNews(row)
               PROVE  row \in Good /\ \A i \in 1..Len(pipe) : pipe[i] < row
    OBVIOUS
  <2>1. heard # P!Nothing => server.sent # P!Nothing /\ heard <= server.sent
    BY <1>0 DEF P!Inv, P!NewerFollows
  <2>2. row \in Good
    BY <1>s, <2>1, UpdatesNumbers DEF Good
  <2>3. ASSUME NEW i \in 1..Len(pipe) PROVE pipe[i] < row
    BY <1>0, <1>s, <2>3, UpdatesSent, UpdatesNumbers
  <2> QED
    BY <2>2, <2>3
<1>2. CASE /\ source = "open" /\ P!IsNews(row) /\ P!Done(row) /\ server' = P!AtRest
           /\ pipe' = Append(Append(pipe, row), P!Nothing)
  <2>1. ~server'.runs /\ server'.sent = P!Nothing
    BY <1>2 DEF P!AtRest
  <2> DEFINE mid == Append(pipe, row)
  <2>a. mid = Append(pipe, row) /\ pipe' = Append(mid, P!Nothing)
    BY <1>2
  <2> HIDE DEF mid
  <2>b. mid \in Seq(0..(LastStatus + 1))
    BY <1>m, <2>a, UpdatesAppend, Zenon
  <2>c. \A i, j \in 1..Len(mid) : i < j => mid[i] < mid[j]
    BY <1>m, <1>t, <1>2, <2>a, UpdatesPipe, UpdatesNewer, Zenon
  <2>d. \A i \in 1..Len(mid) : mid[i] \in Good
    BY <1>m, <1>t, <1>2, <1>g, <2>a, UpdatesEach, Zenon
  <2>e. \A i \in 1..Len(mid) : mid[i] < P!Nothing
    <3> DEFINE Low == {n \in 0..(LastStatus + 1) : n < P!Nothing}
    <3>1. row \in Low /\ \A i \in 1..Len(pipe) : pipe[i] \in Low
      BY <1>l, UpdatesNumbers, UpdatesPipe
    <3> HIDE DEF Low
    <3>2. \A i \in 1..Len(mid) : mid[i] \in Low
      BY <1>m, <2>a, <3>1, UpdatesEach, Zenon
    <3> QED
      BY <3>2 DEF Low
  <2>2. /\ pipe' \in Seq(0..(LastStatus + 1)) /\ DOMAIN pipe' = 1..Len(pipe')
        /\ Len(mid) + 1 \in DOMAIN pipe' /\ pipe'[Len(mid) + 1] = P!Nothing
    BY <1>m, <2>a, <2>b, AppendProperties
  <2>3. P!TypeOK'
    BY <1>0, <1>2, <1>a, <1>n, <2>2, Zenon DEF P!Inv, P!TypeOK
  <2>4. P!OpenHasAnEnd'
    BY <2>2, Zenon DEF P!OpenHasAnEnd
  <2>5. P!OneWayToHear' /\ P!ClosedWhenHeard' /\ P!Turns' /\ P!OnlyForward
    BY <1>0, <1>2, <2>1 DEF P!Inv, P!OneWayToHear, P!ClosedWhenHeard, P!Turns, P!OnlyForward
  <2>6. P!NewerFollows'
    <3>1. \A i, j \in 1..Len(pipe') : i < j => pipe'[i] < pipe'[j]
      BY <1>m, <2>a, <2>b, <2>c, <2>e, UpdatesNewer, Zenon
    <3>2. \A i \in 1..Len(pipe') : pipe'[i] \in Good
      BY <1>h, <1>m, <2>a, <2>b, <2>d, UpdatesEach, Zenon
    <3> QED
      <4>1. \A i, j \in DOMAIN pipe' : i < j => pipe'[i] < pipe'[j]
        BY <2>2, <3>1, Zenon
      <4>2. \A i \in DOMAIN pipe' : /\ heard # P!Nothing => heard < pipe'[i]
                                    /\ pipe'[i] # P!Nothing => pipe'[i] <= row
        BY <2>2, <3>2, Zenon DEF Good
      <4>3. \A v \in {heard, answer, server'.sent} : v # P!Nothing => v <= row
        BY <2>1, UpdatesNumbers DEF P!Inv, P!NewerFollows
      <4> QED
        BY <1>0, <1>2, <1>k, <2>1, <4>1, <4>2, <4>3 DEF P!NewerFollows
  <2> QED
    BY <2>3, <2>4, <2>5, <2>6 DEF P!Inv, UpdatesGoal
<1>3. CASE /\ source = "open" /\ ~P!Expired
           /\ server' = [runs |-> TRUE, sent |-> row, left |-> server.left - 1]
           /\ pipe' = IF P!IsNews(row) THEN Append(pipe, row) ELSE pipe
  <2>1. server'.runs /\ server'.sent = row
    BY <1>3
  <2>2. server' \in [runs : BOOLEAN, sent : P!Reading \cup {P!Nothing}, left : 0..MaxChecks]
    BY <1>3 DEF P!Expired, P!Inv, P!TypeOK, P!PaymentUpdatesAssumption
  <2>3. P!OneWayToHear' /\ P!OpenHasAnEnd' /\ P!ClosedWhenHeard' /\ P!Turns' /\ P!OnlyForward
    BY <1>0, <1>3, <2>1
       DEF P!Inv, P!OneWayToHear, P!OpenHasAnEnd, P!ClosedWhenHeard, P!Turns, P!OnlyForward
  <2>4. heard # P!Nothing => heard <= row
    BY UpdatesNumbers DEF P!Inv, P!NewerFollows
  <2>5. CASE ~P!IsNews(row)
    <3>1. pipe' = pipe /\ server.sent = row
      BY <1>3, <2>5 DEF P!IsNews
    <3>2. P!TypeOK'
      BY <1>0, <2>2, <3>1 DEF P!Inv, P!TypeOK
    <3>3. P!NewerFollows'
      BY <1>0, <2>1, <3>1 DEF P!Inv, P!NewerFollows
    <3> QED
      BY <2>3, <3>2, <3>3 DEF P!Inv, UpdatesGoal
  <2>6. CASE P!IsNews(row)
    <3>1. pipe' = Append(pipe, row)
      BY <1>3, <2>6
    <3>2. pipe' \in Seq(0..(LastStatus + 1)) /\ DOMAIN pipe' = 1..Len(pipe')
      BY <1>m, <3>1, AppendProperties
    <3>3. P!TypeOK'
      BY <1>0, <1>n, <2>2, <3>2, Zenon DEF P!Inv, P!TypeOK
    <3>4. \A i, j \in 1..Len(pipe') : i < j => pipe'[i] < pipe'[j]
      BY <1>m, <1>t, <1>3, <2>6, <3>1, UpdatesPipe, UpdatesNewer, Zenon
    <3>5. \A i \in 1..Len(pipe') : pipe'[i] \in Good
      BY <1>g, <1>m, <1>t, <1>3, <2>6, <3>1, UpdatesEach, Zenon
    <3>6. \A i \in 1..Len(pipe') : pipe'[i] <= row
      <4> DEFINE Low == {n \in 0..(LastStatus + 1) : n <= row}
      <4>1. row \in Low /\ \A i \in 1..Len(pipe) : pipe[i] \in Low
        BY <1>0, UpdatesSent, UpdatesNumbers, UpdatesPipe
      <4> HIDE DEF Low
      <4>2. \A i \in 1..Len(pipe') : pipe'[i] \in Low
        BY <1>m, <3>1, <4>1, UpdatesEach, Zenon
      <4> QED
        BY <4>2 DEF Low
    <3>7. P!NewerFollows'
      <4>1. \A i, j \in DOMAIN pipe' : i < j => pipe'[i] < pipe'[j]
        BY <3>2, <3>4, Zenon
      <4>2. \A i \in DOMAIN pipe' : /\ heard # P!Nothing => heard < pipe'[i]
                                    /\ pipe'[i] # P!Nothing => pipe'[i] <= row
        BY <3>2, <3>5, Zenon DEF Good
      <4>3. \A v \in {heard, answer, server'.sent} : v # P!Nothing => v <= row
        BY <2>1, UpdatesNumbers DEF P!Inv, P!NewerFollows
      <4> QED
        BY <1>0, <1>3, <1>k, <1>m, <2>1, <2>4, <3>2, <3>6, <4>1, <4>2, <4>3 DEF P!NewerFollows
    <3> QED
      BY <2>3, <3>3, <3>7 DEF P!Inv, UpdatesGoal
  <2> QED
    BY <2>5, <2>6
<1> QED
  BY <1>1, <1>2, <1>3 DEF P!Check

LEMMA UpdatesHear ==
    ASSUME P!PaymentUpdatesAssumption, P!Inv, P!Hear
    PROVE  UpdatesGoal
<1> USE DEF P!stream, P!polling, P!PaymentUpdatesAssumption
<1>0. /\ source = "open" /\ pipe # <<>> /\ Head(pipe) # P!Nothing /\ heard' = Head(pipe)
      /\ UNCHANGED <<row, gone, server, poll, answer, stopped, drops>>
  BY DEF P!Hear
<1>1. /\ Len(pipe) > 0 /\ Head(pipe) = pipe[1] /\ 1 \in DOMAIN pipe
      /\ Tail(pipe) \in Seq(0..(LastStatus + 1)) /\ DOMAIN Tail(pipe) = 1..(Len(pipe) - 1)
      /\ \A i \in 1..(Len(pipe) - 1) : Tail(pipe)[i] = pipe[i + 1]
  BY <1>0, UpdatesPipe, HeadTailProperties
<1>2. /\ heard' \in 0..LastStatus /\ heard' <= row
      /\ heard # P!Nothing => heard < heard'
      /\ server.runs => server.sent # P!Nothing /\ heard' <= server.sent
  <2>1. /\ pipe[1] \in 0..(LastStatus + 1) /\ (heard # P!Nothing => heard < pipe[1])
        /\ (pipe[1] # P!Nothing => pipe[1] <= row)
    BY <1>1, UpdatesPipe, Zenon
  <2>2. server.runs => server.sent # P!Nothing /\ pipe[1] <= server.sent
    BY <1>1, Zenon DEF P!Inv, P!NewerFollows
  <2> QED
    BY <1>0, <1>1, <2>1, <2>2, UpdatesNumbers
<1>3. ~stopped /\ poll = "none" /\ answer = P!Nothing
  BY <1>0 DEF P!Inv, P!Turns
<1>4. P!OnlyForward
  BY <1>2, <1>3 DEF P!OnlyForward
<1>n. P!Reading \cup {P!Nothing} = 0..(LastStatus + 1)
  BY DEF P!Reading, P!Nothing
<1>5. CASE P!Closes(Head(pipe)) /\ P!Close
  <2>1. source' = "closed" /\ pipe' = <<>> /\ P!Done(heard')
    BY <1>0, <1>5 DEF P!Close, P!Closes
  <2>2. P!TypeOK'
    BY <1>0, <1>2, <1>n, <2>1 DEF P!Inv, P!TypeOK
  <2>3. P!OneWayToHear' /\ P!OpenHasAnEnd' /\ P!ClosedWhenHeard' /\ P!Turns'
    BY <1>0, <1>3, <2>1 DEF P!OneWayToHear, P!OpenHasAnEnd, P!ClosedWhenHeard, P!Turns, P!Done
  <2>4. P!NewerFollows'
    BY <1>0, <1>2, <1>3, <2>1 DEF P!Inv, P!NewerFollows
  <2> QED
    BY <1>4, <2>2, <2>3, <2>4 DEF P!Inv, UpdatesGoal
<1>6. CASE ~P!Closes(Head(pipe)) /\ pipe' = Tail(pipe) /\ UNCHANGED source
  <2>1. ~P!Done(heard')
    BY <1>0, <1>6 DEF P!Closes
  <2>2. P!TypeOK'
    BY <1>0, <1>1, <1>2, <1>6, <1>n DEF P!Inv, P!TypeOK
  <2>3. P!OpenHasAnEnd'
    <3>1. CASE server.runs
      BY <1>0, <3>1 DEF P!OpenHasAnEnd
    <3>2. CASE ~server.runs
      <4>1. PICK i \in DOMAIN pipe : pipe[i] = P!Nothing
        BY <1>0, <3>2 DEF P!Inv, P!OpenHasAnEnd
      <4>2. i \in 2..Len(pipe)
        <5>1. i \in 1..Len(pipe) /\ i # 1 /\ Len(pipe) \in Nat
          BY <1>0, <1>1, <4>1, UpdatesPipe, Zenon
        <5> QED
          BY <5>1
      <4>3. i - 1 \in DOMAIN pipe' /\ pipe'[i - 1] = P!Nothing
        <5>1. i - 1 \in 1..(Len(pipe) - 1) /\ (i - 1) + 1 = i
          BY <4>2, UpdatesPipe
        <5> QED
          BY <1>1, <1>6, <4>1, <5>1, Zenon
      <4> QED
        BY <4>3 DEF P!OpenHasAnEnd
    <3> QED
      BY <3>1, <3>2
  <2>4. P!OneWayToHear' /\ P!ClosedWhenHeard' /\ P!Turns'
    BY <1>0, <1>3, <1>6, <2>1 DEF P!OneWayToHear, P!ClosedWhenHeard, P!Turns
  <2>5. P!NewerFollows'
    <3>1. \A i, j \in DOMAIN pipe' : i < j => pipe'[i] < pipe'[j]
      <4> SUFFICES ASSUME NEW i \in DOMAIN pipe', NEW j \in DOMAIN pipe', i < j
                   PROVE  pipe'[i] < pipe'[j]
        OBVIOUS
      <4>1. i \in 1..(Len(pipe) - 1) /\ j \in 1..(Len(pipe) - 1) /\ Len(pipe) \in Nat
        BY <1>1, <1>6, UpdatesPipe
      <4>2. i + 1 \in DOMAIN pipe /\ j + 1 \in DOMAIN pipe /\ i + 1 < j + 1
        <5>1. DOMAIN pipe = 1..Len(pipe)
          BY UpdatesPipe
        <5>2. i + 1 \in 1..Len(pipe) /\ j + 1 \in 1..Len(pipe) /\ i + 1 < j + 1
          BY <4>1
        <5> QED
          BY <5>1, <5>2
      <4>3. pipe[i + 1] < pipe[j + 1]
        BY <4>2 DEF P!Inv, P!NewerFollows
      <4> QED
        BY <1>1, <1>6, <4>1, <4>3
    <3>2. \A i \in DOMAIN pipe' :
              /\ heard' < pipe'[i]
              /\ pipe'[i] # P!Nothing => pipe'[i] <= row
              /\ server.runs => server.sent # P!Nothing /\ pipe'[i] <= server.sent
      <4> SUFFICES ASSUME NEW i \in DOMAIN pipe'
                   PROVE  /\ heard' < pipe'[i]
                          /\ pipe'[i] # P!Nothing => pipe'[i] <= row
                          /\ server.runs => server.sent # P!Nothing /\ pipe'[i] <= server.sent
        OBVIOUS
      <4>1. i \in 1..(Len(pipe) - 1) /\ Len(pipe) \in Nat
        BY <1>1, <1>6, UpdatesPipe
      <4>2. i + 1 \in 1..Len(pipe) /\ 1 \in 1..Len(pipe) /\ 1 < i + 1
        BY <4>1
      <4>3. pipe'[i] = pipe[i + 1] /\ heard' = pipe[1]
        BY <1>0, <1>1, <1>6, <4>1, Zenon
      <4>4. pipe[1] < pipe[i + 1] /\ (pipe[i + 1] # P!Nothing => pipe[i + 1] <= row)
        BY <4>2, UpdatesPipe, Zenon
      <4>5. i + 1 \in DOMAIN pipe
        BY <4>2, UpdatesPipe, Zenon
      <4>6. server.runs => server.sent # P!Nothing /\ pipe[i + 1] <= server.sent
        BY <4>5, Zenon DEF P!Inv, P!NewerFollows
      <4> QED
        BY <4>3, <4>4, <4>6, Zenon
    <3> QED
      BY <1>0, <1>2, <1>3, <3>1, <3>2 DEF P!Inv, P!NewerFollows
  <2> QED
    BY <1>4, <2>2, <2>3, <2>4, <2>5 DEF P!Inv, UpdatesGoal
<1> QED
  BY <1>5, <1>6 DEF P!Hear

\* Whatever leaves a stream closed and its pipe empty, or both as they were.
LEMMA UpdatesLetGo ==
    ASSUME P!PaymentUpdatesAssumption, P!Inv, P!Error \/ P!Unsubscribe
    PROVE  UpdatesGoal
<1> USE DEF P!stream, P!polling, P!PaymentUpdatesAssumption
<1>1. /\ pipe' = <<>> /\ source' \in {"none", "closed"}
      /\ UNCHANGED <<row, gone, server, answer, heard>>
  BY DEF P!Error, P!Unsubscribe, P!HandsOver, P!Close, P!Inv, P!Turns
<1>2. drops' \in 0..MaxDrops
  BY DEF P!Error, P!Unsubscribe, P!Inv, P!TypeOK
<1>3. \/ P!Error /\ poll' = "waiting" /\ stopped' = stopped /\ ~stopped /\ poll = "none"
         /\ source \in {"connecting", "open"}
      \/ P!Unsubscribe /\ poll' = poll /\ stopped' = TRUE
  BY DEF P!Error, P!Unsubscribe, P!HandsOver, P!Inv, P!Turns
<1>4. poll' \in {"none", "waiting", "asking", "done"}
  BY <1>3 DEF P!Inv, P!TypeOK
<1>5. P!TypeOK'
  <2>1. stopped' = stopped \/ stopped' = TRUE
    BY <1>3
  <2>2. stopped' \in BOOLEAN
    BY <2>1 DEF P!Inv, P!TypeOK
  <2>3. pipe' \in Seq(P!Reading \cup {P!Nothing})
    BY <1>1
  <2> QED
    BY <1>1, <1>2, <1>4, <2>2, <2>3 DEF P!Inv, P!TypeOK
<1>6. P!OneWayToHear' /\ P!OpenHasAnEnd'
  BY <1>1, <1>3 DEF P!Inv, P!OneWayToHear, P!OpenHasAnEnd
<1>7. P!ClosedWhenHeard' /\ P!Turns' /\ P!OnlyForward
  BY <1>1, <1>3 DEF P!Inv, P!ClosedWhenHeard, P!Turns, P!OnlyForward, P!OneWayToHear
<1>8. P!NewerFollows'
  BY <1>1 DEF P!Inv, P!NewerFollows
<1> QED
  BY <1>5, <1>6, <1>7, <1>8 DEF P!Inv, UpdatesGoal

LEMMA UpdatesPolls ==
    ASSUME P!PaymentUpdatesAssumption, P!Inv, P!Ask \/ P!Read \/ P!Polled \/ P!PollFails
    PROVE  UpdatesGoal
<1> USE DEF P!stream, P!polling, P!PaymentUpdatesAssumption
<1>1. /\ UNCHANGED <<row, gone, source, server, pipe, stopped>> /\ poll \in {"waiting", "asking"}
  BY DEF P!Ask, P!Read, P!Polled, P!PollFails
<1>2. source \notin {"connecting", "open"} /\ pipe = <<>>
  BY <1>1 DEF P!Inv, P!Turns
<1>3. P!OpenHasAnEnd'
  BY <1>1, <1>2 DEF P!OpenHasAnEnd
<1>4. CASE P!Ask
  <2>1. /\ poll = "waiting" /\ poll' = "asking" /\ answer' = P!Nothing
        /\ UNCHANGED <<heard, drops>>
    BY <1>4 DEF P!Ask
  <2>2. P!TypeOK'
    BY <1>1, <2>1 DEF P!Inv, P!TypeOK
  <2>3. P!OneWayToHear' /\ P!ClosedWhenHeard' /\ P!Turns' /\ P!OnlyForward
    BY <1>1, <2>1 DEF P!Inv, P!OneWayToHear, P!ClosedWhenHeard, P!Turns, P!OnlyForward
  <2>4. P!NewerFollows'
    BY <1>1, <2>1 DEF P!Inv, P!NewerFollows
  <2> QED
    BY <1>3, <2>2, <2>3, <2>4 DEF P!Inv, UpdatesGoal
<1>5. CASE P!Read
  <2>1. poll = "asking" /\ poll' = poll /\ answer' = row /\ UNCHANGED <<heard, drops>>
    BY <1>5 DEF P!Read
  <2>2. P!TypeOK'
    BY <1>1, <2>1 DEF P!Inv, P!TypeOK
  <2>3. P!OneWayToHear' /\ P!ClosedWhenHeard' /\ P!Turns' /\ P!OnlyForward
    BY <1>1, <2>1 DEF P!Inv, P!OneWayToHear, P!ClosedWhenHeard, P!Turns, P!OnlyForward
  <2>4. P!NewerFollows'
    BY <1>1, <1>2, <2>1, UpdatesNumbers DEF P!Inv, P!NewerFollows
  <2> QED
    BY <1>3, <2>2, <2>3, <2>4 DEF P!Inv, UpdatesGoal
<1>6. CASE P!Polled
  <2>1. poll = "asking" /\ answer # P!Nothing /\ answer' = P!Nothing /\ UNCHANGED drops
    BY <1>6 DEF P!Polled
  <2>2. \/ ~stopped /\ heard' = answer /\ poll' = IF P!Done(answer) THEN "done" ELSE "waiting"
        \/ stopped /\ poll' = "done" /\ heard' = heard
    BY <1>6 DEF P!Polled, P!GivenOn, P!Inv, P!TypeOK
  <2>3. P!TypeOK'
    BY <1>1, <2>1, <2>2 DEF P!Inv, P!TypeOK
  <2>4. P!OneWayToHear'
    BY <1>1, <1>2, <2>1, <2>2 DEF P!Inv, P!OneWayToHear, P!Done
  <2>5. P!ClosedWhenHeard' /\ P!Turns'
    BY <1>1, <1>2, <2>1, <2>2 DEF P!Inv, P!ClosedWhenHeard, P!Turns, P!Done
  <2>6. P!OnlyForward
    BY <1>1, <2>1, <2>2, UpdatesNumbers DEF P!Inv, P!OnlyForward, P!NewerFollows
  <2>7. P!NewerFollows'
    BY <1>1, <1>2, <2>1, <2>2, UpdatesNumbers DEF P!Inv, P!NewerFollows
  <2> QED
    BY <1>3, <2>3, <2>4, <2>5, <2>6, <2>7 DEF P!Inv, UpdatesGoal
<1>7. CASE P!PollFails
  <2>1. /\ poll = "asking" /\ poll' = "waiting" /\ answer' = P!Nothing /\ UNCHANGED heard
        /\ drops' \in 0..MaxDrops
    BY <1>7 DEF P!PollFails, P!TriesAgain, P!Inv, P!TypeOK
  <2>2. P!TypeOK'
    BY <1>1, <2>1 DEF P!Inv, P!TypeOK
  <2>3. P!OneWayToHear' /\ P!ClosedWhenHeard' /\ P!Turns' /\ P!OnlyForward
    BY <1>1, <1>2, <2>1 DEF P!Inv, P!OneWayToHear, P!ClosedWhenHeard, P!Turns, P!OnlyForward
  <2>4. P!NewerFollows'
    BY <1>1, <2>1 DEF P!Inv, P!NewerFollows
  <2> QED
    BY <1>3, <2>2, <2>3, <2>4 DEF P!Inv, UpdatesGoal
<1> QED
  BY <1>4, <1>5, <1>6, <1>7

LEMMA UpdatesStep ==
    ASSUME P!PaymentUpdatesAssumption, P!Inv, [P!Next]_P!vars
    PROVE  P!Inv' /\ P!OnlyForward
<1>1. CASE UNCHANGED P!vars
  BY <1>1 DEF P!vars, P!stream, P!polling, P!Inv, P!TypeOK, P!OneWayToHear, P!OpenHasAnEnd,
              P!ClosedWhenHeard, P!NewerFollows, P!Turns, P!OnlyForward
<1>2. CASE P!Next
  BY <1>2, UpdatesRow, UpdatesConnect, UpdatesCheck, UpdatesHear, UpdatesLetGo, UpdatesPolls
     DEF P!Next, UpdatesGoal
<1> QED
  BY <1>1, <1>2

-----------------------------------------------------------------------------
(* The page of a group for guests.                                         *)

LEMMA PageInit ==
    ASSUME G!GroupPageAssumption, G!Init
    PROVE  G!Inv
<1>1. G!TypeOK
  <2>1. debt \in [Refs -> G!States] /\ reads \subseteq [Refs -> G!States]
    BY DEF G!Init, G!States
  <2>2. saying \in [kind : {"none", "upi", "other"}, ref : G!MaybeRef]
    BY DEF G!Init, G!MaybeRef, G!Silent
  <2>3. moved \in 0..PageChanges
    BY DEF G!Init, G!GroupPageAssumption
  <2> QED
    BY <2>1, <2>2, <2>3 DEF G!Init, G!TypeOK, G!MaybeRef
<1> QED
  BY <1>1 DEF G!Init, G!Inv, G!OneQuestion, G!AskedOfItsDebt, G!OneStart, G!Loaded

LEMMA PageData ==
    ASSUME G!Inv, G!Loaded
    PROVE  data \in [Refs -> G!States]
BY DEF G!Inv, G!TypeOK, G!Loaded

LEMMA PageStep ==
    ASSUME G!GroupPageAssumption, G!Inv, [G!Next]_G!vars
    PROVE  G!Inv' /\ G!PayPageIsNotSwapped
<1> USE DEF G!GroupPageAssumption, G!Inv, G!TypeOK, G!OneQuestion, G!AskedOfItsDebt, G!OneStart,
            G!PayPageIsNotSwapped, G!MaybeRef, G!Loaded, G!ByUpi, G!server, G!pay, G!panel, G!return
<1>1. CASE G!Refresh
  BY <1>1 DEF G!Refresh
<1>2. CASE G!ClosePay
  BY <1>2 DEF G!ClosePay
<1>3. CASE G!LeaveForUpi
  BY <1>3 DEF G!LeaveForUpi, G!Drawn
<1>4. CASE G!Background
  BY <1>4 DEF G!Background
<1>5. CASE G!Foreground
  BY <1>5 DEF G!Foreground
<1>6. CASE G!ReloadTab
  BY <1>6 DEF G!ReloadTab, G!Silent
<1>7. CASE G!CameBackFor
  <2>1. G!TypeOK'
    BY <1>7 DEF G!CameBackFor, G!OpensUpi, G!Answered
  <2>2. G!OneQuestion' /\ G!AskedOfItsDebt'
    BY <1>7 DEF G!CameBackFor, G!OpensUpi, G!Answered
  <2>3. G!OneStart' /\ G!PayPageIsNotSwapped
    BY <1>7 DEF G!CameBackFor, G!OpensUpi, G!Answered
  <2> QED
    BY <2>1, <2>2, <2>3
<1>8. CASE G!NotPaid
  BY <1>8 DEF G!NotPaid, G!Answered
<1>9. CASE \E read \in reads : G!Refreshed(read)
  <2>1. G!TypeOK'
    BY <1>9 DEF G!Refreshed
  <2>2. G!OneQuestion' /\ G!AskedOfItsDebt'
    BY <1>9 DEF G!Refreshed
  <2>3. G!OneStart' /\ G!PayPageIsNotSwapped
    BY <1>9 DEF G!Refreshed
  <2> QED
    BY <2>1, <2>2, <2>3
<1>10. CASE \E start \in starts : G!SettleAnswered(start)
  <2>1. G!TypeOK'
    BY <1>10 DEF G!SettleAnswered
  <2>2. G!OneQuestion' /\ G!AskedOfItsDebt'
    BY <1>10 DEF G!SettleAnswered
  <2>3. G!OneStart' /\ G!PayPageIsNotSwapped
    BY <1>10 DEF G!SettleAnswered
  <2> QED
    BY <2>1, <2>2, <2>3
<1>11. CASE \E r \in Refs : G!Settle(r)
  BY <1>11 DEF G!Settle, G!Drawn, G!MaySettle
<1>12. CASE \E r \in Refs : G!OpenUpi(r)
  <2>1. G!TypeOK'
    BY <1>12 DEF G!OpenUpi, G!Drawn, G!OpensUpi, G!MovesOn, G!Answered
  <2>2. G!OneQuestion' /\ G!AskedOfItsDebt'
    BY <1>12 DEF G!OpenUpi, G!Drawn, G!OpensUpi, G!MovesOn, G!Answered
  <2>3. G!OneStart' /\ G!PayPageIsNotSwapped
    BY <1>12 DEF G!OpenUpi, G!Drawn, G!OpensUpi, G!MovesOn, G!Answered
  <2> QED
    BY <2>1, <2>2, <2>3
<1>13. CASE \E r \in Refs : G!UpiAnswered(r)
  <2>1. G!TypeOK'
    BY <1>13 DEF G!UpiAnswered, G!Answered
  <2>2. G!OneQuestion' /\ G!AskedOfItsDebt'
    BY <1>13 DEF G!UpiAnswered, G!Answered
  <2>3. G!OneStart' /\ G!PayPageIsNotSwapped
    BY <1>13 DEF G!UpiAnswered, G!Answered
  <2> QED
    BY <2>1, <2>2, <2>3
<1>14. CASE \E r \in Refs : G!OpenMarking(r)
  <2>1. G!TypeOK'
    BY <1>14 DEF G!OpenMarking, G!Drawn, G!Answered
  <2>2. G!OneQuestion' /\ G!AskedOfItsDebt'
    BY <1>14 DEF G!OpenMarking, G!Drawn, G!Answered
  <2>3. G!OneStart' /\ G!PayPageIsNotSwapped
    BY <1>14 DEF G!OpenMarking, G!Drawn, G!Answered
  <2> QED
    BY <2>1, <2>2, <2>3
<1>15. CASE \E r \in Refs, kind \in {"upi", "other"} : G!Say(kind, r)
  BY <1>15 DEF G!Say, G!Drawn
<1>16. CASE \E r \in Refs, state \in G!States : G!DebtMoves(r, state)
  BY <1>16 DEF G!DebtMoves
<1>17. CASE \E told, aware \in BOOLEAN : G!Said(told, aware)
  <2> PICK told \in BOOLEAN, aware \in BOOLEAN : G!Said(told, aware)
    BY <1>17
  <2>1. debt' \in [Refs -> G!States]
    BY DEF G!Said, G!SayPaid, G!States
  <2>2. G!TypeOK'
    BY <2>1 DEF G!Said, G!Answered, G!Silent
  <2>3. G!OneQuestion' /\ G!AskedOfItsDebt'
    BY DEF G!Said, G!Answered
  <2>4. G!OneStart' /\ G!PayPageIsNotSwapped
    BY DEF G!Said, G!Answered
  <2> QED
    BY <2>2, <2>3, <2>4
<1>18. CASE UNCHANGED G!vars
  BY <1>18 DEF G!vars
<1> QED
  BY <1>1, <1>2, <1>3, <1>4, <1>5, <1>6, <1>7, <1>8, <1>9, <1>10, <1>11, <1>12, <1>13, <1>14,
     <1>15, <1>16, <1>17, <1>18 DEF G!Next

-----------------------------------------------------------------------------
(* Side by side: the invariant of the part a behaviour is of.              *)

PartsInv ==
    /\ part = "keys" => S!KeyInv
    /\ part = "nostr" => N!Inv
    /\ part = "receiving" => R!Inv
    /\ part = "usage" => U!Inv
    /\ part = "requests" => Q!Inv
    /\ part = "prune" => O!Inv
    /\ part = "rates" => E!Inv
    /\ part = "verify" => V!Inv
    /\ part = "wallet" => W!Inv
    /\ part = "address" => A!Inv
    /\ part = "fetch" => F!Inv
    /\ part = "updates" => P!Inv
    /\ part = "page" => G!Inv

LEMMA PartsInit == Init => PartsInv
<1> SUFFICES ASSUME Init PROVE PartsInv
  OBVIOUS
<1>1. part = "keys" => S!KeyInv
  BY PartsAssumption, S!InitKeys DEF Init
<1>2. part = "nostr" => N!Inv
  BY PartsAssumption, NostrInit DEF Init
<1>3. part = "receiving" => R!Inv
  BY PartsAssumption, ReceivingInit DEF Init
<1>4. part = "usage" => U!Inv
  BY PartsAssumption, UsageInit DEF Init
<1>5. part = "requests" => Q!Inv
  BY PartsAssumption, RequestsInit DEF Init
<1>6. part = "prune" => O!Inv
  BY PartsAssumption, PruneInit DEF Init
<1>7. part = "rates" => E!Inv
  BY PartsAssumption, RatesInit DEF Init
<1>8. part = "verify" => V!Inv
  BY PartsAssumption, VerifyInit DEF Init
<1>9. part = "wallet" => W!Inv
  BY PartsAssumption, WalletInit DEF Init
<1>10. part = "address" => A!Inv
  BY PartsAssumption, AddressInit DEF Init
<1>11. part = "fetch" => F!Inv
  BY PartsAssumption, FetchInit DEF Init
<1>12. part = "updates" => P!Inv
  BY PartsAssumption, UpdatesInit DEF Init
<1>13. part = "page" => G!Inv
  BY PartsAssumption, PageInit DEF Init
<1> QED
  BY <1>1, <1>2, <1>3, <1>4, <1>5, <1>6, <1>7, <1>8, <1>9, <1>10, <1>11, <1>12, <1>13 DEF PartsInv

\* A step is one of the part's, or none.
LEMMA PartsMove ==
    ASSUME [Next]_vars
    PROVE  /\ part' = part
           /\ part = "keys" => [S!Next]_S!vars
           /\ part = "nostr" => [N!Next]_N!vars
           /\ part = "receiving" => [R!Next]_R!vars
           /\ part = "usage" => [U!Next]_U!vars
           /\ part = "requests" => [Q!Next]_Q!vars
           /\ part = "prune" => [O!Next]_O!vars
           /\ part = "rates" => [E!Next]_E!vars
           /\ part = "verify" => [V!Next]_V!vars
           /\ part = "wallet" => [W!Next]_W!vars
           /\ part = "address" => [A!Next]_A!vars
           /\ part = "fetch" => [F!Next]_F!vars
           /\ part = "updates" => [P!Next]_P!vars
           /\ part = "page" => [G!Next]_G!vars
<1>1. CASE UNCHANGED vars
  <2>1. part' = part
    BY <1>1 DEF vars
  <2>2. UNCHANGED S!vars
    BY <1>1 DEF vars, S!vars
  <2>3. UNCHANGED N!vars
    BY <1>1 DEF vars, N!vars
  <2>4. UNCHANGED R!vars
    BY <1>1 DEF vars, R!vars
  <2>5. UNCHANGED U!vars
    BY <1>1 DEF vars, U!vars
  <2>6. UNCHANGED Q!vars
    BY <1>1 DEF vars, Q!vars
  <2>7. UNCHANGED O!vars
    BY <1>1 DEF vars, O!vars
  <2>8. UNCHANGED E!vars
    BY <1>1 DEF vars, E!vars
  <2>9. UNCHANGED V!vars
    BY <1>1 DEF vars, V!vars
  <2>10. UNCHANGED W!vars
    BY <1>1 DEF vars, W!vars
  <2>11. UNCHANGED A!vars
    BY <1>1 DEF vars, A!vars
  <2>12. UNCHANGED F!vars
    BY <1>1 DEF vars, F!vars
  <2>13. UNCHANGED P!vars
    BY <1>1 DEF vars, P!vars, P!stream, P!polling
  <2>14. UNCHANGED G!vars
    BY <1>1 DEF vars, G!vars, G!server, G!pay, G!panel, G!return
  <2> QED
    BY <2>1, <2>2, <2>3, <2>4, <2>5, <2>6, <2>7, <2>8, <2>9, <2>10, <2>11, <2>12, <2>13, <2>14
<1>2. CASE Next
  BY <1>2 DEF Next
<1> QED
  BY <1>1, <1>2

LEMMA PartsStep ==
    ASSUME PartsInv, [Next]_vars
    PROVE  /\ PartsInv'
           /\ part = "keys" => S!OnlyTheKeyReplaces /\ S!ReplayIsCurrent /\ S!LiveKeyIsKept
           /\ part = "receiving" => R!LinksOutlive /\ R!OnlyTheyReplace
           /\ part = "usage" => U!BacksOff
           /\ part = "prune" => O!OwnHistoryStays /\ O!NothingOldIsLeft
           /\ part = "rates" => E!LastKnownIsSaid
           /\ part = "wallet" => W!NothingAfterTimeout
           /\ part = "updates" => P!OnlyForward
           /\ part = "page" => G!PayPageIsNotSwapped
<1>1. ASSUME part = "keys"
      PROVE  S!KeyInv' /\ S!OnlyTheKeyReplaces /\ S!ReplayIsCurrent /\ S!LiveKeyIsKept
  <2>1. S!SignInAssumption
    BY PartsAssumption
  <2>2. S!KeyInv /\ [S!Next]_S!vars
    BY <1>1, PartsMove DEF PartsInv
  <2> QED
    BY <2>1, <2>2, S!KeyKept, S!StepsKeepKeys
<1>2. ASSUME part = "nostr"
      PROVE  N!Inv'
  <2>1. N!NostrSignInAssumption
    BY PartsAssumption
  <2>2. N!Inv /\ [N!Next]_N!vars
    BY <1>2, PartsMove DEF PartsInv
  <2> QED
    BY <2>1, <2>2, NostrStep
<1>3. ASSUME part = "receiving"
      PROVE  R!Inv' /\ R!LinksOutlive /\ R!OnlyTheyReplace
  <2>1. R!ReceivingAssumption
    BY PartsAssumption
  <2>2. R!Inv /\ [R!Next]_R!vars
    BY <1>3, PartsMove DEF PartsInv
  <2> QED
    BY <2>1, <2>2, ReceivingStep, ReceivingReplaces
<1>4. ASSUME part = "usage"
      PROVE  U!Inv' /\ U!BacksOff
  <2>1. U!UsageAssumption
    BY PartsAssumption
  <2>2. U!Inv /\ [U!Next]_U!vars
    BY <1>4, PartsMove DEF PartsInv
  <2> QED
    BY <2>1, <2>2, UsageStep
<1>5. ASSUME part = "requests"
      PROVE  Q!Inv'
  <2>1. Q!RequestLogAssumption
    BY PartsAssumption
  <2>2. Q!Inv /\ [Q!Next]_Q!vars
    BY <1>5, PartsMove DEF PartsInv
  <2> QED
    BY <2>1, <2>2, RequestsStep
<1>6. ASSUME part = "prune"
      PROVE  O!Inv' /\ O!OwnHistoryStays /\ O!NothingOldIsLeft
  <2>1. O!UsagePruneAssumption
    BY PartsAssumption
  <2>2. O!Inv /\ [O!Next]_O!vars
    BY <1>6, PartsMove DEF PartsInv
  <2> QED
    BY <2>1, <2>2, PruneStep
<1>7. ASSUME part = "rates"
      PROVE  E!Inv' /\ E!LastKnownIsSaid
  <2>1. E!RatesAssumption
    BY PartsAssumption
  <2>2. E!Inv /\ [E!Next]_E!vars
    BY <1>7, PartsMove DEF PartsInv
  <2> QED
    BY <2>1, <2>2, RatesStep
<1>8. ASSUME part = "verify"
      PROVE  V!Inv'
  <2>1. V!LoopAssumption
    BY PartsAssumption
  <2>2. V!Inv /\ [V!Next]_V!vars
    BY <1>8, PartsMove DEF PartsInv
  <2> QED
    BY <2>1, <2>2, VerifyStep
<1>9. ASSUME part = "wallet"
      PROVE  W!Inv' /\ W!NothingAfterTimeout
  <2>1. W!CallsAssumption
    BY PartsAssumption
  <2>2. W!Inv /\ [W!Next]_W!vars
    BY <1>9, PartsMove DEF PartsInv
  <2> QED
    BY <2>1, <2>2, WalletStep
<1>10. ASSUME part = "address"
      PROVE  A!Inv'
  <2>1. A!AddressAssumption
    BY PartsAssumption
  <2>2. A!Inv /\ [A!Next]_A!vars
    BY <1>10, PartsMove DEF PartsInv
  <2> QED
    BY <2>1, <2>2, AddressStep
<1>11. ASSUME part = "fetch"
      PROVE  F!Inv'
  <2>1. F!FetchAssumption
    BY PartsAssumption
  <2>2. F!Inv /\ [F!Next]_F!vars
    BY <1>11, PartsMove DEF PartsInv
  <2> QED
    BY <2>1, <2>2, FetchStep
<1>12. ASSUME part = "updates"
      PROVE  P!Inv' /\ P!OnlyForward
  <2>1. P!PaymentUpdatesAssumption
    BY PartsAssumption
  <2>2. P!Inv /\ [P!Next]_P!vars
    BY <1>12, PartsMove DEF PartsInv
  <2> QED
    BY <2>1, <2>2, UpdatesStep
<1>13. ASSUME part = "page"
      PROVE  G!Inv' /\ G!PayPageIsNotSwapped
  <2>1. G!GroupPageAssumption
    BY PartsAssumption
  <2>2. G!Inv /\ [G!Next]_G!vars
    BY <1>13, PartsMove DEF PartsInv
  <2> QED
    BY <2>1, <2>2, PageStep
<1>14. part' = part
  BY PartsMove
<1> QED
  BY <1>1, <1>2, <1>3, <1>4, <1>5, <1>6, <1>7, <1>8, <1>9, <1>10, <1>11, <1>12, <1>13, <1>14 DEF PartsInv

\* The inductive invariant of whichever part a behaviour is of holds throughout: what the
\* properties below say of the server's files and of GroupGuestScreen.tsx follows from it.
THEOREM PartsFit == Spec => []PartsInv
<1>1. PartsInv /\ [Next]_vars => PartsInv'
  BY PartsStep
<1> QED
  BY PartsInit, <1>1, PTL DEF Spec

-----------------------------------------------------------------------------
(* What the parts promise.                                                 *)

\* Whoever signs in, joins, leaves, connects or deletes in whatever order: a challenge is
\* good once and a Nostr key opens one account (nostrAuth.ts); a member offers Lightning
\* exactly while one of those who are it has a wallet, and shows a UPI ID by a choice of
\* somebody's who is or was it with them; and while a payment to it is under way, the
\* account whose wallet made the invoice stays the payee and has a wallet connected, that
\* one or another of its own choosing (walletStore.ts, repo.ts, groupRules.ts).
THEOREM AccountsStayTheirs == Spec => []AccountsAreTheirs
<1>1. PartsInv => AccountsAreTheirs
  <2> SUFFICES ASSUME PartsInv PROVE AccountsAreTheirs
    OBVIOUS
  <2>1. part = "keys" => S!TypeOK
    BY DEF PartsInv, S!KeyInv
  <2>2. part = "nostr" => N!TypeOK /\ N!ChallengeOnce /\ N!OneAccountPerNostr
    BY PartsAssumption, NostrOpensOne DEF PartsInv, N!Inv
  <2>3. part = "receiving" =>
            R!TypeOK /\ R!LinkedMeansWallet /\ R!ChoiceIsTheirs /\ R!MinterStays
    BY DEF PartsInv, R!Inv
  <2> QED
    BY <2>1, <2>2, <2>3 DEF AccountsAreTheirs
<1> QED
  BY PartsFit, <1>1, PTL

\* However sends fail, rows are taken in and pages close: what was recorded is sent,
\* oldest first, counted once, and always has a send coming (tracker.ts,
\* routes/analytics.ts); a log row that waits has a write coming, and none names an
\* account that was deleted meanwhile (middleware.ts).
THEOREM UsageStaysKept == Spec => []UsageIsKept
<1>1. PartsInv => UsageIsKept
  BY DEF PartsInv, UsageIsKept, U!Inv, Q!Inv, O!Inv
<1> QED
  BY PartsFit, <1>1, PTL

\* However many ask at once: no more invoices of an address in any minute than are allowed,
\* and the loop that watches them lives while there are any (lightning.ts); as many
\* parameters and tokens as are remembered (lnurl.ts, middleware.ts); and an outgoing
\* request connects to public addresses only, keeps no more than it may and leaves nothing
\* open (safeFetch.ts).
THEOREM LimitsAreKept == Spec => []LimitsHold
<1>1. PartsInv => LimitsHold
  BY DEF PartsInv, LimitsHold, V!Inv, A!Inv, Q!Inv, F!Inv
<1> QED
  BY PartsFit, <1>1, PTL

\* Whatever a wallet, a Lightning address, a rate source or a stream answers, and when: an
\* answer is of the call that asked, a payment said to be settled was paid, parameters and
\* rates are as recent as is said, and a screen that follows a payment has exactly one way
\* to hear its end (nwc.ts, lnurl.ts, rates.ts, ApiClient.ts).
THEOREM AnswersStayTrue == Spec => []AnswersAreTrue
<1>1. PartsInv => AnswersAreTrue
  BY DEF PartsInv, AnswersAreTrue, W!Inv, A!Inv, E!Inv, P!Inv
<1> QED
  BY PartsFit, <1>1, PTL

\* Whatever a guest presses and the server changes meanwhile: one question is open at a
\* time, and it is of the debt whose panel is open (GroupGuestScreen.tsx).
THEOREM AsksAboutItsDebtOnly == Spec => []AsksAboutItsDebt
<1>1. PartsInv => AsksAboutItsDebt
  BY DEF PartsInv, AsksAboutItsDebt, G!Inv
<1> QED
  BY PartsFit, <1>1, PTL

\* No step replaces a key but by the key that signs in, answers a repeated request with an
\* older key, or signs a device out that holds the key of now (routes/accounts.ts,
\* middleware.ts, App.tsx); none takes the link to pay somebody away with the device it was
\* made on, as long as they are on another (repo.ts); and none takes the wallet a payment
\* under way is made with from its account, but for another that account connects
\* (routes/wallet.ts, groupRules.ts).
THEOREM KeysStayTheirs == Spec => KeysAreCurrent
<1>1. PartsInv /\ [Next]_vars =>
        [/\ part = "keys" => S!OnlyTheKeyReplaces /\ S!ReplayIsCurrent /\ S!LiveKeyIsKept
         /\ part = "receiving" => R!LinksOutlive /\ R!OnlyTheyReplace]_vars
  BY PartsStep
<1> QED
  BY PartsFit, <1>1, PTL DEF Spec, KeysAreCurrent

\* What comes late does no harm: a screen hears of a payment only forward (ApiClient.ts), no
\* invoice is made for a call that was given up (nwc.ts), an outage answers the last known
\* rate (rates.ts), after a failed send the next waits for its timer (tracker.ts), pruning
\* leaves what an install did before its owner signed in, and nothing that is too old
\* (routes/analytics.ts), and the page to pay isn't swapped for another debt's
\* (GroupGuestScreen.tsx).
THEOREM LateStaysLeft == Spec => LateIsLeft
<1>1. PartsInv /\ [Next]_vars =>
        [/\ part = "updates" => P!OnlyForward
         /\ part = "wallet" => W!NothingAfterTimeout
         /\ part = "rates" => E!LastKnownIsSaid
         /\ part = "usage" => U!BacksOff
         /\ part = "prune" => O!OwnHistoryStays /\ O!NothingOldIsLeft
         /\ part = "page" => G!PayPageIsNotSwapped]_vars
  BY PartsStep
<1> QED
  BY PartsFit, <1>1, PTL DEF Spec, LateIsLeft
================================================================================
