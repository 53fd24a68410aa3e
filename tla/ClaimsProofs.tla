---------------------------- MODULE ClaimsProofs ----------------------------
(***************************************************************************)
(* TLAPS proofs about the ledger's arithmetic, for any number of members,  *)
(* expenses and payments, and about Claims, whatever a waiting request has *)
(* read of the group.                                                      *)
(*                                                                         *)
(* Sums are recursive functions, and the library's induction theorems take *)
(* an operator no prover here can instantiate; so induction is first       *)
(* stated about a set of numbers, from the order of the natural numbers    *)
(* being well founded.                                                     *)
(***************************************************************************)
EXTENDS Claims, FiniteSetTheorems, SequenceTheorems, TLAPS

-----------------------------------------------------------------------------
(* Induction.                                                              *)

\* A set of natural numbers has a least one.
LEMMA LeastOf ==
    ASSUME NEW T, T \subseteq Nat, T # {}
    PROVE  \E n \in T : \A k \in T : n <= k
<1> DEFINE R == OpToRel(<, Nat)
<1>1. \A x, y \in Nat : x < y => <<x, y>> \in R
  BY DEF OpToRel
<1>2. IsWellFoundedOn(R, Nat)
  BY NatLessThanWellFounded
<1> HIDE DEF R
<1>3. PICK n \in T : \A k \in T : ~(<<k, n>> \in R)
  BY <1>2, WFMin
<1>4. ASSUME NEW k \in T PROVE n <= k
  <2>1. k \in Nat /\ n \in Nat
    OBVIOUS
  <2>2. ~(<<k, n>> \in R)
    BY <1>3
  <2>3. ~(k < n)
    BY <1>1, <2>1, <2>2
  <2> QED
    BY <2>1, <2>3
<1> QED
  BY <1>4

\* Induction, for what a set of numbers can say.
LEMMA ByInduction ==
    ASSUME NEW S, 0 \in S, \A n \in Nat : n \in S => n + 1 \in S
    PROVE  Nat \subseteq S
<1> SUFFICES ASSUME Nat \ S # {} PROVE FALSE
  OBVIOUS
<1>1. PICK n \in Nat \ S : \A k \in Nat \ S : n <= k
  BY LeastOf
<1> QED
  BY <1>1

-----------------------------------------------------------------------------
(* Sums.                                                                   *)

IsUpTo(g, f, n) == g = [i \in 0..n |-> IF i = 0 THEN 0 ELSE g[i - 1] + f[i]]

\* The recursive function SumTo is defined by exists.
LEMMA UpToExists ==
    ASSUME NEW f, NEW n \in Nat
    PROVE  \E g : IsUpTo(g, f, n)
<1> DEFINE S == {k \in Nat : \E g : IsUpTo(g, f, k)}
<1>1. 0 \in S
  <2> DEFINE g == [i \in 0..0 |-> 0]
  <2>1. g = [i \in 0..0 |-> IF i = 0 THEN 0 ELSE g[i - 1] + f[i]]
    OBVIOUS
  <2>2. \E x : IsUpTo(x, f, 0)
    BY <2>1 DEF IsUpTo
  <2> QED
    BY <2>2
<1>2. ASSUME NEW k \in Nat, k \in S PROVE k + 1 \in S
  <2>1. PICK h : h = [i \in 0..k |-> IF i = 0 THEN 0 ELSE h[i - 1] + f[i]]
    BY <1>2 DEF IsUpTo
  <2> DEFINE g == [i \in 0..(k + 1) |-> IF i = k + 1 THEN h[k] + f[k + 1] ELSE h[i]]
  <2>2. \A i \in 0..k : h[i] = IF i = 0 THEN 0 ELSE h[i - 1] + f[i]
    BY <2>1
  <2>3. \A i \in 0..(k + 1) : g[i] = IF i = 0 THEN 0 ELSE g[i - 1] + f[i]
    BY <2>2
  <2>4. g = [i \in 0..(k + 1) |-> IF i = 0 THEN 0 ELSE g[i - 1] + f[i]]
    BY <2>3
  <2>5. \E x : IsUpTo(x, f, k + 1)
    <3> HIDE DEF g
    <3> QED
      BY <2>4 DEF IsUpTo
  <2> QED
    BY <2>5
<1>3. n \in S
  BY <1>1, <1>2, ByInduction
<1> QED
  BY <1>3

LEMMA SumIsLast ==
    ASSUME NEW f, NEW n \in Nat
    PROVE  \E g : IsUpTo(g, f, n) /\ SumTo(f, n) = g[n]
BY UpToExists DEF SumTo, IsUpTo

\* However far it goes, and for any terms that are the same so far.
LEMMA UpToAgree ==
    ASSUME NEW f, NEW e, NEW m \in Nat, NEW n \in Nat, NEW g, NEW h,
           IsUpTo(g, f, m), IsUpTo(h, e, n), \A i \in 1..n : f[i] = e[i], n <= m
    PROVE  \A i \in 0..n : g[i] = h[i]
<1> DEFINE S == {k \in Nat : k <= n => g[k] = h[k]}
<1>1. \A i \in 0..m : g[i] = IF i = 0 THEN 0 ELSE g[i - 1] + f[i]
  BY DEF IsUpTo
<1>2. \A i \in 0..n : h[i] = IF i = 0 THEN 0 ELSE h[i - 1] + e[i]
  BY DEF IsUpTo
<1>3. 0 \in S
  BY <1>1, <1>2
<1>4. ASSUME NEW k \in Nat, k \in S PROVE k + 1 \in S
  BY <1>1, <1>2, <1>4
<1>5. Nat \subseteq S
  BY <1>3, <1>4, ByInduction
<1> QED
  BY <1>5

\* How a sum is reckoned.
LEMMA SumUnfolds ==
    ASSUME NEW f
    PROVE  /\ SumTo(f, 0) = 0
           /\ \A n \in Nat : SumTo(f, n + 1) = SumTo(f, n) + f[n + 1]
<1>1. SumTo(f, 0) = 0
  BY SumIsLast DEF IsUpTo
<1>2. ASSUME NEW n \in Nat PROVE SumTo(f, n + 1) = SumTo(f, n) + f[n + 1]
  <2>1. PICK g : IsUpTo(g, f, n) /\ SumTo(f, n) = g[n]
    BY SumIsLast
  <2>2. PICK h : IsUpTo(h, f, n + 1) /\ SumTo(f, n + 1) = h[n + 1]
    BY SumIsLast
  <2>3. h[n] = g[n]
    BY <2>1, <2>2, UpToAgree
  <2>4. h[n + 1] = h[n] + f[n + 1]
    BY <2>2 DEF IsUpTo
  <2> QED
    BY <2>1, <2>2, <2>3, <2>4
<1> QED
  BY <1>1, <1>2

\* Only the terms matter.
LEMMA SumSame ==
    ASSUME NEW f, NEW e, NEW n \in Nat, \A i \in 1..n : f[i] = e[i]
    PROVE  SumTo(f, n) = SumTo(e, n)
<1>1. PICK g : IsUpTo(g, f, n) /\ SumTo(f, n) = g[n]
  BY SumIsLast
<1>2. PICK h : IsUpTo(h, e, n) /\ SumTo(e, n) = h[n]
  BY SumIsLast
<1> QED
  BY <1>1, <1>2, UpToAgree

LEMMA SumInt ==
    ASSUME NEW f, NEW n \in Nat, \A i \in 1..n : f[i] \in Int
    PROVE  SumTo(f, n) \in Int
<1> DEFINE S == {k \in Nat : k <= n => SumTo(f, k) \in Int}
<1>1. 0 \in S
  BY SumUnfolds
<1>2. ASSUME NEW k \in Nat, k \in S PROVE k + 1 \in S
  BY <1>2, SumUnfolds
<1>3. n \in S
  BY <1>1, <1>2, ByInduction
<1> QED
  BY <1>3

\* Term by term: at most, and so at least.
LEMMA SumAtMost ==
    ASSUME NEW f, NEW g, NEW n \in Nat,
           \A i \in 1..n : f[i] \in Int /\ g[i] \in Int /\ f[i] <= g[i]
    PROVE  SumTo(f, n) <= SumTo(g, n)
<1> DEFINE S == {k \in Nat : k <= n => /\ SumTo(f, k) \in Int /\ SumTo(g, k) \in Int
                                       /\ SumTo(f, k) <= SumTo(g, k)}
<1>1. 0 \in S
  BY SumUnfolds
<1>2. ASSUME NEW k \in Nat, k \in S PROVE k + 1 \in S
  BY <1>2, SumUnfolds
<1>3. n \in S
  BY <1>1, <1>2, ByInduction
<1> QED
  BY <1>3

LEMMA SumNat ==
    ASSUME NEW f, NEW n \in Nat, \A i \in 1..n : f[i] \in Nat
    PROVE  SumTo(f, n) \in Nat
<1> DEFINE S == {k \in Nat : k <= n => SumTo(f, k) \in Nat}
<1>1. 0 \in S
  BY SumUnfolds
<1>2. ASSUME NEW k \in Nat, k \in S PROVE k + 1 \in S
  BY <1>2, SumUnfolds
<1>3. n \in S
  BY <1>1, <1>2, ByInduction
<1> QED
  BY <1>3

\* A sum of sums.
LEMMA SumOfBoth ==
    ASSUME NEW f, NEW g, NEW h, NEW n \in Nat,
           \A i \in 1..n : f[i] \in Int /\ g[i] \in Int /\ h[i] = f[i] + g[i]
    PROVE  SumTo(h, n) = SumTo(f, n) + SumTo(g, n)
<1> DEFINE S == {k \in Nat : k <= n => /\ SumTo(f, k) \in Int /\ SumTo(g, k) \in Int
                                       /\ SumTo(h, k) = SumTo(f, k) + SumTo(g, k)}
<1>1. 0 \in S
  BY SumUnfolds
<1>2. ASSUME NEW k \in Nat, k \in S PROVE k + 1 \in S
  BY <1>2, SumUnfolds
<1>3. n \in S
  BY <1>1, <1>2, ByInduction
<1> QED
  BY <1>3

LEMMA SumOfDifference ==
    ASSUME NEW f, NEW g, NEW h, NEW n \in Nat,
           \A i \in 1..n : f[i] \in Int /\ g[i] \in Int /\ h[i] = f[i] - g[i]
    PROVE  SumTo(h, n) = SumTo(f, n) - SumTo(g, n)
<1> DEFINE S == {k \in Nat : k <= n => /\ SumTo(f, k) \in Int /\ SumTo(g, k) \in Int
                                       /\ SumTo(h, k) = SumTo(f, k) - SumTo(g, k)}
<1>1. 0 \in S
  BY SumUnfolds
<1>2. ASSUME NEW k \in Nat, k \in S PROVE k + 1 \in S
  BY <1>2, SumUnfolds
<1>3. n \in S
  BY <1>1, <1>2, ByInduction
<1> QED
  BY <1>3

\* The same for everybody.
LEMMA SumOfSame ==
    ASSUME NEW f, NEW c \in Int, NEW n \in Nat, \A i \in 1..n : f[i] = c
    PROVE  SumTo(f, n) = n * c
<1> DEFINE S == {k \in Nat : k <= n => SumTo(f, k) = k * c}
<1>1. 0 \in S
  BY SumUnfolds
<1>2. ASSUME NEW k \in Nat, k \in S PROVE k + 1 \in S
  <2>1. (k + 1) * c = k * c + c
    OBVIOUS
  <2> QED
    BY <1>2, <2>1, SumUnfolds
<1>3. n \in S
  BY <1>1, <1>2, ByInduction
<1> QED
  BY <1>3

\* One each for the first few.
LEMMA SumOfFirst ==
    ASSUME NEW f, NEW n \in Nat, NEW few \in 0..n,
           \A i \in 1..n : f[i] = IF i <= few THEN 1 ELSE 0
    PROVE  SumTo(f, n) = few
<1> DEFINE S == {k \in Nat : k <= n => SumTo(f, k) = IF k <= few THEN k ELSE few}
<1>1. 0 \in S
  BY SumUnfolds
<1>2. ASSUME NEW k \in Nat, k \in S PROVE k + 1 \in S
  BY <1>2, SumUnfolds
<1>3. n \in S
  BY <1>1, <1>2, ByInduction
<1> QED
  BY <1>3

\* Only one of the terms is not nothing.
LEMMA SumOfOne ==
    ASSUME NEW f, NEW n \in Nat, NEW one \in 1..n, NEW v \in Int,
           \A i \in 1..n : f[i] = IF i = one THEN v ELSE 0
    PROVE  SumTo(f, n) = v
<1> DEFINE S == {k \in Nat : k <= n => SumTo(f, k) = IF k < one THEN 0 ELSE v}
<1>1. 0 \in S
  BY SumUnfolds
<1>2. ASSUME NEW k \in Nat, k \in S PROVE k + 1 \in S
  BY <1>2, SumUnfolds
<1>3. n \in S
  BY <1>1, <1>2, ByInduction
<1> QED
  BY <1>3

LEMMA SumTimes ==
    ASSUME NEW f, NEW g, NEW c \in Int, NEW n \in Nat,
           \A i \in 1..n : f[i] \in Int /\ g[i] = c * f[i]
    PROVE  SumTo(g, n) = c * SumTo(f, n)
<1> DEFINE S == {k \in Nat : k <= n => /\ SumTo(f, k) \in Int
                                       /\ SumTo(g, k) = c * SumTo(f, k)}
<1>1. 0 \in S
  BY SumUnfolds
<1>2. ASSUME NEW k \in Nat, k \in S PROVE k + 1 \in S
  <2> SUFFICES ASSUME k + 1 <= n
               PROVE  SumTo(f, k + 1) \in Int /\ SumTo(g, k + 1) = c * SumTo(f, k + 1)
    OBVIOUS
  <2>1. /\ SumTo(f, k) \in Int /\ f[k + 1] \in Int
        /\ SumTo(g, k + 1) = c * SumTo(f, k) + c * f[k + 1]
        /\ SumTo(f, k + 1) = SumTo(f, k) + f[k + 1]
    BY <1>2, SumUnfolds
  <2>2. \A x, y \in Int : c * (x + y) = c * x + c * y
    OBVIOUS
  <2> QED
    BY <2>1, <2>2
<1>3. n \in S
  BY <1>1, <1>2, ByInduction
<1> QED
  BY <1>3

\* By rows or by columns.
LEMMA SumOfSums ==
    ASSUME NEW F, NEW m \in Nat, NEW n \in Nat,
           \A i \in 1..m, j \in 1..n : F[i][j] \in Int
    PROVE  SumTo([i \in 1..m |-> SumTo(F[i], n)], m)
             = SumTo([j \in 1..n |-> SumTo([i \in 1..m |-> F[i][j]], m)], n)
<1> DEFINE Rows(k) == [i \in 1..m |-> SumTo(F[i], k)]
           Column(j) == [i \in 1..m |-> F[i][j]]
           Columns == [j \in 1..n |-> SumTo(Column(j), m)]
           S == {k \in Nat : k <= n => SumTo(Rows(k), m) = SumTo(Columns, k)}
<1>1. \A i \in 1..m, k \in 0..n : SumTo(F[i], k) \in Int
  BY SumInt
<1>3. 0 \in S
  <2>1. \A i \in 1..m : Rows(0)[i] = 0
    BY SumUnfolds
  <2>2. SumTo(Rows(0), m) = m * 0
    <3> HIDE DEF Rows
    <3> QED
      BY <2>1, SumOfSame
  <2>3. SumTo(Columns, 0) = 0
    BY SumUnfolds
  <2> HIDE DEF Rows, Columns
  <2> QED
    BY <2>2, <2>3
<1>4. ASSUME NEW k \in Nat, k \in S PROVE k + 1 \in S
  <2> SUFFICES ASSUME k + 1 <= n PROVE SumTo(Rows(k + 1), m) = SumTo(Columns, k + 1)
    OBVIOUS
  <2>1. \A i \in 1..m : SumTo(F[i], k + 1) = SumTo(F[i], k) + F[i][k + 1]
    BY SumUnfolds
  <2>2. k + 1 \in 1..n /\ k \in 0..n
    OBVIOUS
  <2>3. \A i \in 1..m : /\ Rows(k)[i] \in Int /\ Column(k + 1)[i] \in Int
                        /\ Rows(k + 1)[i] = Rows(k)[i] + Column(k + 1)[i]
    BY <1>1, <2>1, <2>2
  <2>4. SumTo(Rows(k + 1), m) = SumTo(Rows(k), m) + SumTo(Column(k + 1), m)
    <3> HIDE DEF Rows, Column
    <3> QED
      BY <2>3, SumOfBoth
  <2>5. Columns[k + 1] = SumTo(Column(k + 1), m)
    BY <2>2
  <2>6. SumTo(Columns, k + 1) = SumTo(Columns, k) + Columns[k + 1]
    BY SumUnfolds
  <2>7. SumTo(Rows(k), m) = SumTo(Columns, k)
    BY <1>4, <2>2
  <2> HIDE DEF Rows, Column, Columns
  <2> QED
    BY <2>4, <2>5, <2>6, <2>7
<1>5. n \in S
  <2> HIDE DEF S
  <2> QED
    BY <1>3, <1>4, ByInduction
<1>6. SumTo(Rows(n), m) = SumTo(Columns, n)
  BY <1>5
<1> QED
  BY <1>6

-----------------------------------------------------------------------------
(* Splitting an expense.                                                   *)

LEMMA TotalIsSum ==
    ASSUME NEW f, NEW n \in Nat, f = [i \in 1..n |-> f[i]]
    PROVE  Total(f) = SumTo(f, n)
<1>1. Len(f) = n
  OBVIOUS
<1> QED
  BY <1>1 DEF Total

\* Dividing two numbers, and what is left over.
LEMMA Division ==
    ASSUME NEW a \in Nat, NEW n \in Nat \ {0}
    PROVE  /\ a \div n \in Nat /\ a % n \in 0..(n - 1)
           /\ n * (a \div n) + (a % n) = a
           /\ n * (a \div n) <= a
OBVIOUS

LEMMA Cancels ==
    ASSUME NEW a \in Int, NEW b \in Int, NEW n \in Nat \ {0}, n * a <= n * b
    PROVE  a <= b
<1> SUFFICES ASSUME a >= b + 1 PROVE FALSE
  OBVIOUS
<1>1. n * a >= n * (b + 1)
  OBVIOUS
<1>2. n * (b + 1) = n * b + n
  OBVIOUS
<1> QED
  BY <1>1, <1>2

\* Whatever the weights, shares are whole and add up: rounding down leaves
\* less than one unit for everybody, and that goes round.
LEMMA SharesAddUp ==
    ASSUME NEW input, input \in Input, Splittable(input), input.mode # "exact",
           input.mode = "shares" => Len(input.number) = Len(input.who)
    PROVE  /\ \A i \in DOMAIN input.who : Shares(input)[i] \in Nat
           /\ SumTo(Shares(input), Len(input.who)) = input.amount
<1> DEFINE n == Len(input.who)
           a == input.amount
           weight == Weight(input)
           whole == Total(weight)
           base == RoundedDown(input)
           over == a - Total(base)
           ones == [i \in 1..n |-> 1]
<1>1. /\ n \in Nat \ {0} /\ DOMAIN input.who = 1..n /\ a \in Nat
      /\ input.mode = "shares" => input.number \in [1..n -> Nat]
  BY DEF Input, Splittable
<1>2. weight \in [1..n -> Nat \ {0}]
  BY <1>1 DEF Weight, Splittable
<1>3. whole = SumTo(weight, n) /\ whole \in Nat \ {0}
  <2>1. whole = SumTo(weight, n)
    BY <1>1, <1>2, TotalIsSum
  <2>2. SumTo(ones, n) = n * 1
    BY <1>1, SumOfSame
  <2>3. SumTo(ones, n) <= SumTo(weight, n)
    <3>1. \A i \in 1..n : ones[i] \in Int /\ weight[i] \in Int /\ ones[i] <= weight[i]
      BY <1>2
    <3> HIDE DEF ones, weight
    <3> QED
      BY <1>1, <3>1, SumAtMost
  <2>4. SumTo(weight, n) \in Nat
    BY <1>1, <1>2, SumNat
  <2> QED
    BY <1>1, <2>1, <2>2, <2>3, <2>4
<1>4. base = [i \in 1..n |-> (a * weight[i]) \div whole]
  BY <1>1 DEF RoundedDown
<1> HIDE DEF weight, whole, base
<1>5. ASSUME NEW i \in 1..n
      PROVE  /\ a * weight[i] \in Nat /\ base[i] \in Nat
             /\ whole * base[i] <= a * weight[i]
  <2>1. a * weight[i] \in Nat
    BY <1>1, <1>2
  <2> QED
    BY <1>3, <1>4, <2>1, Division
<1>6. Total(base) = SumTo(base, n) /\ SumTo(base, n) \in Nat
  BY <1>1, <1>4, <1>5, TotalIsSum, SumNat
<1>7. SumTo(base, n) <= a
  <2> DEFINE f == [i \in 1..n |-> whole * base[i]]
             g == [i \in 1..n |-> a * weight[i]]
  <2>1. \A i \in 1..n : base[i] \in Int /\ f[i] = whole * base[i]
    BY <1>5
  <2>2. \A i \in 1..n : weight[i] \in Int /\ g[i] = a * weight[i]
    BY <1>2
  <2>3. \A i \in 1..n : f[i] \in Int /\ g[i] \in Int /\ f[i] <= g[i]
    BY <1>1, <1>2, <1>3, <1>5
  <2>4. n \in Nat /\ a \in Int /\ whole \in Int
    BY <1>1, <1>3
  <2> HIDE DEF f, g, n, a
  <2>5. SumTo(f, n) <= SumTo(g, n)
    BY <2>3, <2>4, SumAtMost
  <2>6. SumTo(f, n) = whole * SumTo(base, n)
    BY <2>1, <2>4, SumTimes
  <2>7. SumTo(g, n) = a * SumTo(weight, n)
    BY <2>2, <2>4, SumTimes
  <2>8. whole * SumTo(base, n) <= whole * a
    BY <1>3, <2>4, <2>5, <2>6, <2>7
  <2> QED
    BY <1>3, <1>6, <2>4, <2>8, Cancels
<1>8. over \in Nat /\ over = a - SumTo(base, n)
  BY <1>1, <1>6, <1>7
<1> HIDE DEF over
<1> DEFINE each == over \div n
           rest == over % n
<1>9. each \in Nat /\ rest \in 0..(n - 1) /\ n * each + rest = over
  BY <1>1, <1>8, Division
<1>10. Shares(input) = [i \in 1..n |-> base[i] + each + (IF i <= rest THEN 1 ELSE 0)]
  BY <1>1, <1>4 DEF Shares, over, base
<1> HIDE DEF each, rest
<1> DEFINE all == [i \in 1..n |-> each]
           few == [i \in 1..n |-> IF i <= rest THEN 1 ELSE 0]
           more == [i \in 1..n |-> all[i] + few[i]]
<1>11. \A i \in 1..n : all[i] = each
  OBVIOUS
<1>12. \A i \in 1..n : few[i] = IF i <= rest THEN 1 ELSE 0
  OBVIOUS
<1>13. \A i \in 1..n : all[i] \in Int /\ few[i] \in Int /\ more[i] = all[i] + few[i]
  BY <1>9
<1>14. \A i \in 1..n : base[i] \in Nat
  BY <1>5
<1>15. \A i \in 1..n : /\ base[i] \in Int /\ more[i] \in Int
                       /\ Shares(input)[i] = base[i] + more[i]
                       /\ Shares(input)[i] \in Nat
  <2> SUFFICES ASSUME NEW i \in 1..n
               PROVE  /\ base[i] \in Int /\ more[i] \in Int
                      /\ Shares(input)[i] = base[i] + more[i]
                      /\ Shares(input)[i] \in Nat
    OBVIOUS
  <2>1. Shares(input)[i] = base[i] + each + (IF i <= rest THEN 1 ELSE 0)
    BY <1>10
  <2>2. more[i] = each + (IF i <= rest THEN 1 ELSE 0)
    OBVIOUS
  <2> QED
    BY <1>9, <1>14, <2>1, <2>2
<1>16. n \in Nat /\ each \in Int /\ rest \in 0..n
  BY <1>1, <1>9
<1> HIDE DEF all, few, more, n, a
<1>17. SumTo(all, n) = n * each
  BY <1>11, <1>16, SumOfSame
<1>18. SumTo(few, n) = rest
  BY <1>12, <1>16, SumOfFirst
<1>19. SumTo(more, n) = SumTo(all, n) + SumTo(few, n)
  BY <1>13, <1>16, SumOfBoth
<1>20. SumTo(Shares(input), n) = SumTo(base, n) + SumTo(more, n)
  BY <1>15, <1>16, SumOfBoth
<1>21. SumTo(Shares(input), n) = a
  <2>1. SumTo(more, n) = over
    BY <1>9, <1>17, <1>18, <1>19
  <2> QED
    BY <1>1, <1>6, <1>8, <1>20, <2>1
<1> QED
  BY <1>1, <1>15, <1>21 DEF n, a

\* Nothing is lost or made up when an expense is split, however it is split.
LEMMA ResolvedAddsUp ==
    ASSUME NEW input, input \in Input, Splittable(input),
           input.mode # "equal" => Len(input.number) = Len(input.who)
    PROVE  /\ ResolveParts(input) \in [Members -> Nat]
           /\ SumTo(ResolveParts(input), HowMany) = input.amount
<1> DEFINE n == Len(input.who)
           share == IF input.mode = "exact" THEN input.number ELSE Shares(input)
           Of(m) == [i \in 1..n |-> IF input.who[i] = m THEN share[i] ELSE 0]
           F == [m \in Members |-> Of(m)]
           part == [m \in Members |-> SumTo(Of(m), n)]
<1>1. /\ n \in Nat /\ DOMAIN input.who = 1..n /\ \A i \in 1..n : input.who[i] \in Members
      /\ HowMany \in Nat /\ Members = 1..HowMany
  BY HowManyAssumption DEF Input, Members
<1>2. /\ \A i \in 1..n : share[i] \in Nat
      /\ SumTo(share, n) = input.amount
  <2>1. CASE input.mode = "exact"
    BY <1>1, <2>1 DEF Splittable, Total, Input
  <2>2. CASE input.mode # "exact"
    <3>1. /\ \A i \in DOMAIN input.who : Shares(input)[i] \in Nat
          /\ SumTo(Shares(input), Len(input.who)) = input.amount
      BY <2>2, SharesAddUp DEF Input
    <3> QED
      BY <1>1, <2>2, <3>1
  <2> QED
    BY <2>1, <2>2
<1>3. ResolveParts(input) = [m \in Members |-> Total(Of(m))]
  BY <1>1 DEF ResolveParts
<1> HIDE DEF share
<1>4. \A m \in Members : Total(Of(m)) = SumTo(Of(m), n)
  BY <1>1, TotalIsSum
<1>5. ResolveParts(input) = part
  BY <1>3, <1>4
<1>6. \A m \in Members : SumTo(Of(m), n) \in Nat
  <2> SUFFICES ASSUME NEW m \in Members PROVE SumTo(Of(m), n) \in Nat
    OBVIOUS
  <2>1. \A i \in 1..n : Of(m)[i] \in Nat
    BY <1>2
  <2> HIDE DEF Of
  <2> QED
    BY <1>1, <2>1, SumNat
<1> DEFINE Column(i) == [m \in 1..HowMany |-> F[m][i]]
           columns == [i \in 1..n |-> SumTo(Column(i), HowMany)]
<1>7. SumTo([m \in 1..HowMany |-> SumTo(F[m], n)], HowMany) = SumTo(columns, n)
  <2>1. \A m \in 1..HowMany, i \in 1..n : F[m][i] \in Int
    BY <1>1, <1>2
  <2> HIDE DEF F
  <2> QED
    BY <1>1, <2>1, SumOfSums
<1>8. [m \in 1..HowMany |-> SumTo(F[m], n)] = part
  BY <1>1
<1>9. ASSUME NEW i \in 1..n PROVE columns[i] = share[i]
  <2>1. \A m \in 1..HowMany : Column(i)[m] = IF m = input.who[i] THEN share[i] ELSE 0
    BY <1>1
  <2>2. input.who[i] \in 1..HowMany /\ share[i] \in Int
    BY <1>1, <1>2
  <2> HIDE DEF Column
  <2>3. SumTo(Column(i), HowMany) = share[i]
    BY <1>1, <2>1, <2>2, SumOfOne
  <2> QED
    BY <2>3
<1>10. SumTo(columns, n) = SumTo(share, n)
  <2> HIDE DEF columns
  <2> QED
    BY <1>1, <1>9, SumSame
<1> QED
  BY <1>2, <1>5, <1>6, <1>7, <1>8, <1>10

-----------------------------------------------------------------------------
(* Balances and debts.                                                     *)

LEMMA TableIsItself == \A f : Table(f) = f
BY DEF Table

\* Payments, as far as the ledger looks at them.
ArePayments(paid) ==
    /\ Len(paid) \in Nat /\ DOMAIN paid = 1..Len(paid)
    /\ \A s \in DOMAIN paid : Moved(paid[s]) \in Nat

LEMMA TotalInt ==
    ASSUME NEW f, NEW n \in Nat, f = [i \in 1..n |-> f[i]], \A i \in 1..n : f[i] \in Int
    PROVE  Total(f) \in Int /\ Total(f) = SumTo(f, n)
BY TotalIsSum, SumInt

LEMMA TotalNat ==
    ASSUME NEW f, NEW n \in Nat, f = [i \in 1..n |-> f[i]], \A i \in 1..n : f[i] \in Nat
    PROVE  Total(f) \in Nat /\ Total(f) = SumTo(f, n)
BY TotalIsSum, SumNat

LEMMA BalancesTyped ==
    ASSUME NEW spent \in Seq(Expense), NEW paid, ArePayments(paid)
    PROVE  ComputeBalances(spent, paid) \in [Members -> Int]
<1> SUFFICES ASSUME NEW m \in Members PROVE ComputeBalances(spent, paid)[m] \in Int
  BY DEF ComputeBalances
<1> DEFINE f == [e \in DOMAIN spent |->
                   (IF spent[e].paidBy = m THEN spent[e].amount ELSE 0) - spent[e].part[m]]
           g == [s \in DOMAIN paid |->
                   (IF paid[s].from = m THEN Moved(paid[s]) ELSE 0)
                   - (IF paid[s].to = m THEN Moved(paid[s]) ELSE 0)]
<1>1. Len(spent) \in Nat /\ DOMAIN spent = 1..Len(spent)
  OBVIOUS
<1>2. \A e \in 1..Len(spent) : f[e] \in Int
  <2>1. \A e \in 1..Len(spent) : spent[e] \in Expense
    BY <1>1
  <2>2. \A e \in 1..Len(spent) : spent[e].amount \in Nat /\ spent[e].part[m] \in Nat
    BY <2>1 DEF Expense
  <2> QED
    BY <1>1, <2>2
<1>3. \A s \in 1..Len(paid) : g[s] \in Int
  BY DEF ArePayments
<1>4. Total(f) \in Int
  <2>1. f = [i \in 1..Len(spent) |-> f[i]]
    BY <1>1
  <2> HIDE DEF f
  <2> QED
    BY <1>1, <1>2, <2>1, TotalInt
<1>5. Total(g) \in Int
  <2>1. g = [i \in 1..Len(paid) |-> g[i]] /\ Len(paid) \in Nat
    BY DEF ArePayments
  <2> HIDE DEF g
  <2> QED
    BY <1>3, <2>1, TotalInt
<1>6. ComputeBalances(spent, paid)[m] = Total(f) + Total(g)
  BY DEF ComputeBalances
<1> HIDE DEF f, g
<1> QED
  BY <1>4, <1>5, <1>6

LEMMA OwesTyped ==
    ASSUME NEW spent \in Seq(Expense), NEW paid, ArePayments(paid), NEW a \in Members, NEW b \in Members
    PROVE  Owes(spent, paid, a, b) \in Nat
<1> DEFINE f == [e \in DOMAIN spent |-> IF spent[e].paidBy = b THEN spent[e].part[a] ELSE 0]
           g == [s \in DOMAIN paid |->
                   IF paid[s].to = a /\ paid[s].from = b THEN Moved(paid[s]) ELSE 0]
<1>1. Len(spent) \in Nat /\ DOMAIN spent = 1..Len(spent)
  OBVIOUS
<1>2. \A e \in 1..Len(spent) : f[e] \in Nat
  <2>1. \A e \in 1..Len(spent) : spent[e] \in Expense
    BY <1>1
  <2>2. \A e \in 1..Len(spent) : spent[e].part[a] \in Nat
    BY <2>1 DEF Expense
  <2> QED
    BY <1>1, <2>2
<1>3. \A s \in 1..Len(paid) : g[s] \in Nat
  BY DEF ArePayments
<1>4. Total(f) \in Nat
  <2>1. f = [i \in 1..Len(spent) |-> f[i]]
    BY <1>1
  <2> HIDE DEF f
  <2> QED
    BY <1>1, <1>2, <2>1, TotalNat
<1>5. Total(g) \in Nat
  <2>1. g = [i \in 1..Len(paid) |-> g[i]] /\ Len(paid) \in Nat
    BY DEF ArePayments
  <2> HIDE DEF g
  <2> QED
    BY <1>3, <2>1, TotalNat
<1>6. Owes(spent, paid, a, b) = IF a = b THEN 0 ELSE Total(f) + Total(g)
  BY DEF Owes
<1> HIDE DEF f, g
<1> QED
  BY <1>4, <1>5, <1>6

LEMMA EarlierTyped ==
    ASSUME NEW amount \in [Members -> Nat]
    PROVE  Earlier(amount) \in [Members -> Nat]
<1> SUFFICES ASSUME NEW m \in Members PROVE Earlier(amount)[m] \in Nat
  BY DEF Earlier
<1> DEFINE f == [x \in Members |->
        IF amount[x] > amount[m] \/ (amount[x] = amount[m] /\ x < m) THEN amount[x] ELSE 0]
<1>1. HowMany \in Nat /\ \A i \in 1..HowMany : f[i] \in Nat
  BY HowManyAssumption DEF Members
<1>2. Earlier(amount)[m] = SumTo(f, HowMany)
  BY DEF Earlier
<1> HIDE DEF f
<1> QED
  BY <1>1, <1>2, SumNat

LEMMA SimplifiedTyped ==
    ASSUME NEW net \in [Members -> Int]
    PROVE  SimplifyDebts(net) \in [Pairs -> Nat]
<1> DEFINE owes == [m \in Members |-> AtLeastZero(-net[m])]
           due == [m \in Members |-> AtLeastZero(net[m])]
<1>1. owes \in [Members -> Nat] /\ due \in [Members -> Nat]
  BY DEF AtLeastZero
<1> HIDE DEF owes, due
<1>2. Earlier(owes) \in [Members -> Nat] /\ Earlier(due) \in [Members -> Nat]
  BY <1>1, EarlierTyped
<1>3. /\ Table(owes) = owes /\ Table(due) = due
      /\ Table(Earlier(owes)) = Earlier(owes) /\ Table(Earlier(due)) = Earlier(due)
  BY <1>1, <1>2, TableIsItself
<1>4. SimplifyDebts(net) =
        [p \in Pairs |-> AtLeastZero(Least(Earlier(owes)[p[1]] + owes[p[1]],
                                           Earlier(due)[p[2]] + due[p[2]])
                                     - Greatest(Earlier(owes)[p[1]], Earlier(due)[p[2]]))]
  BY <1>3 DEF SimplifyDebts, owes, due
<1>5. ASSUME NEW p \in Pairs
      PROVE  AtLeastZero(Least(Earlier(owes)[p[1]] + owes[p[1]], Earlier(due)[p[2]] + due[p[2]])
                         - Greatest(Earlier(owes)[p[1]], Earlier(due)[p[2]])) \in Nat
  <2>1. p[1] \in Members /\ p[2] \in Members
    BY DEF Pairs
  <2>2. \A x, y, z, w \in Nat : AtLeastZero(Least(x + y, z + w) - Greatest(x, z)) \in Nat
    BY DEF AtLeastZero, Least, Greatest
  <2> QED
    BY <1>1, <1>2, <2>1, <2>2
<1> QED
  BY <1>4, <1>5

LEMMA DirectTyped ==
    ASSUME NEW spent \in Seq(Expense), NEW paid, ArePayments(paid)
    PROVE  DirectDebts(spent, paid) \in [Pairs -> Nat]
<1>1. ASSUME NEW p \in Pairs
      PROVE  AtLeastZero(Owes(spent, paid, p[1], p[2]) - Owes(spent, paid, p[2], p[1])) \in Nat
  <2>1. p[1] \in Members /\ p[2] \in Members
    BY DEF Pairs
  <2>2. Owes(spent, paid, p[1], p[2]) \in Nat /\ Owes(spent, paid, p[2], p[1]) \in Nat
    BY <2>1, OwesTyped
  <2> QED
    BY <2>2 DEF AtLeastZero
<1> QED
  BY <1>1 DEF DirectDebts

LEMMA DebtsTyped ==
    ASSUME NEW mode \in BOOLEAN, NEW spent \in Seq(Expense), NEW paid, ArePayments(paid)
    PROVE  Table(GroupDebts(mode, spent, paid)) \in [Pairs -> Nat]
<1>1. ComputeBalances(spent, paid) \in [Members -> Int]
  BY BalancesTyped
<1>2. Table(ComputeBalances(spent, paid)) = ComputeBalances(spent, paid)
  BY <1>1, TableIsItself
<1>3. GroupDebts(mode, spent, paid) \in [Pairs -> Nat]
  BY <1>1, <1>2, SimplifiedTyped, DirectTyped DEF GroupDebts
<1> QED
  BY <1>3, TableIsItself

-----------------------------------------------------------------------------
(* Simplified debts.  The amounts of one side, largest first, lie end to   *)
(* end on a line, each from Earlier(amount)[m] on.                         *)

Before(amount, x, m) == amount[x] > amount[m] \/ (amount[x] = amount[m] /\ x < m)

Ahead(amount, m) == [x \in Members |-> IF Before(amount, x, m) THEN amount[x] ELSE 0]

LEMMA EarlierIsSum ==
    ASSUME NEW amount, NEW m \in Members
    PROVE  Earlier(amount)[m] = SumTo(Ahead(amount, m), HowMany)
BY DEF Earlier, Ahead, Before

\* One more than what is ahead of y is at most any f that has all that and y itself.
LEMMA AheadAndItself ==
    ASSUME NEW amount \in [Members -> Nat], NEW y \in Members, NEW f \in [Members -> Nat],
           f[y] >= amount[y], \A x \in Members : Before(amount, x, y) => f[x] >= amount[x]
    PROVE  Earlier(amount)[y] + amount[y] <= SumTo(f, HowMany)
<1> DEFINE a == Ahead(amount, y)
           itself == [x \in Members |-> IF x = y THEN amount[y] ELSE 0]
           both == [x \in Members |-> a[x] + itself[x]]
<1>1. HowMany \in Nat /\ Members = 1..HowMany
  BY HowManyAssumption DEF Members
<1>2. a \in [Members -> Nat] /\ itself \in [Members -> Nat]
  BY DEF Ahead
<1>3. \A x \in 1..HowMany : both[x] \in Int /\ f[x] \in Int /\ both[x] <= f[x]
  <2> TAKE x \in 1..HowMany
  <2>1. x \in Members /\ both[x] = a[x] + itself[x]
    BY <1>1
  <2>2. a[x] \in Nat /\ itself[x] \in Nat /\ f[x] \in Nat /\ amount[x] \in Nat /\ amount[y] \in Nat
    BY <1>2, <2>1
  <2>3. a[x] + itself[x] <= f[x]
    <3>1. CASE x = y
      BY <2>1, <2>2, <3>1 DEF Ahead, Before
    <3>2. CASE x # y
      BY <2>1, <2>2, <3>2 DEF Ahead
    <3> QED
      BY <3>1, <3>2
  <2> QED
    BY <2>1, <2>2, <2>3
<1>4. \A x \in 1..HowMany : a[x] \in Int /\ itself[x] \in Int /\ both[x] = a[x] + itself[x]
  BY <1>1, <1>2
<1>5. \A x \in 1..HowMany : itself[x] = IF x = y THEN amount[y] ELSE 0
  BY <1>1
<1>6. SumTo(a, HowMany) = Earlier(amount)[y]
  BY EarlierIsSum
<1> HIDE DEF a, itself, both
<1>7. SumTo(itself, HowMany) = amount[y]
  <2>1. y \in 1..HowMany /\ amount[y] \in Int
    BY <1>1
  <2> QED
    BY <1>1, <1>5, <2>1, SumOfOne
<1>8. SumTo(both, HowMany) = SumTo(a, HowMany) + SumTo(itself, HowMany)
  BY <1>1, <1>4, SumOfBoth
<1>9. SumTo(both, HowMany) <= SumTo(f, HowMany)
  BY <1>1, <1>3, SumAtMost
<1> QED
  BY <1>6, <1>7, <1>8, <1>9

LEMMA EndsBeforeNext ==
    ASSUME NEW amount \in [Members -> Nat], NEW y \in Members, NEW z \in Members,
           Before(amount, y, z)
    PROVE  Earlier(amount)[y] + amount[y] <= Earlier(amount)[z]
<1>1. Ahead(amount, z) \in [Members -> Nat]
  BY DEF Ahead
<1>2. Ahead(amount, z)[y] >= amount[y]
  BY DEF Ahead
<1>3. ASSUME NEW x \in Members, Before(amount, x, y) PROVE Ahead(amount, z)[x] >= amount[x]
  <2>1. Before(amount, x, z)
    BY <1>3 DEF Before, Members
  <2> QED
    BY <2>1 DEF Ahead
<1> QED
  BY <1>1, <1>2, <1>3, AheadAndItself, EarlierIsSum

LEMMA EndsOnTheLine ==
    ASSUME NEW amount \in [Members -> Nat], NEW y \in Members
    PROVE  Earlier(amount)[y] + amount[y] <= SumTo(amount, HowMany)
BY AheadAndItself

\* How much of y's stretch lies before t.
Done(amount, y, t) == Least(AtLeastZero(t - Earlier(amount)[y]), amount[y])
DoneAt(amount, t)  == [y \in Members |-> Done(amount, y, t)]
Covers(amount, y, t) == Earlier(amount)[y] <= t /\ t < Earlier(amount)[y] + amount[y]

LEMMA OnlyOneCovers ==
    ASSUME NEW amount \in [Members -> Nat], NEW t \in Nat, NEW y \in Members, NEW z \in Members,
           Covers(amount, y, t), Covers(amount, z, t)
    PROVE  y = z
<1> SUFFICES ASSUME y # z PROVE FALSE
  OBVIOUS
<1>1. Earlier(amount) \in [Members -> Nat]
  BY EarlierTyped
<1>2. Before(amount, y, z) \/ Before(amount, z, y)
  BY DEF Before, Members
<1>3. \/ Earlier(amount)[y] + amount[y] <= Earlier(amount)[z]
      \/ Earlier(amount)[z] + amount[z] <= Earlier(amount)[y]
  BY <1>2, EndsBeforeNext
<1> QED
  BY <1>1, <1>3 DEF Covers

LEMMA DoneTyped ==
    ASSUME NEW amount \in [Members -> Nat], NEW t \in Nat
    PROVE  DoneAt(amount, t) \in [Members -> Nat]
<1>1. Earlier(amount) \in [Members -> Nat]
  BY EarlierTyped
<1> QED
  BY <1>1 DEF DoneAt, Done, Least, AtLeastZero

LEMMA DoneStep ==
    ASSUME NEW amount \in [Members -> Nat], NEW t \in Nat
    PROVE  SumTo(DoneAt(amount, t + 1), HowMany) <= SumTo(DoneAt(amount, t), HowMany) + 1
<1> DEFINE f == DoneAt(amount, t + 1)
           g == DoneAt(amount, t)
           d == [y \in Members |-> IF Covers(amount, y, t) THEN 1 ELSE 0]
<1>1. HowMany \in Nat /\ Members = 1..HowMany
  BY HowManyAssumption DEF Members
<1>2. f \in [Members -> Nat] /\ g \in [Members -> Nat]
  BY DoneTyped
<1>3. d \in [Members -> Int]
  OBVIOUS
<1>4. \A y \in Members : f[y] = g[y] + d[y]
  <2>1. Earlier(amount) \in [Members -> Nat]
    BY EarlierTyped
  <2> QED
    BY <2>1 DEF DoneAt, Done, Covers, Least, AtLeastZero
<1>5. SumTo(d, HowMany) <= 1
  <2>1. CASE \E y \in Members : Covers(amount, y, t)
    <3> PICK y \in Members : Covers(amount, y, t)
      BY <2>1
    <3>1. \A x \in 1..HowMany : d[x] = IF x = y THEN 1 ELSE 0
      BY <1>1, OnlyOneCovers
    <3> HIDE DEF d
    <3>2. y \in 1..HowMany /\ 1 \in Int
      BY <1>1
    <3>3. SumTo(d, HowMany) = 1
      BY <1>1, <3>1, <3>2, SumOfOne
    <3> QED
      BY <3>3
  <2>2. CASE ~\E y \in Members : Covers(amount, y, t)
    <3>1. \A x \in 1..HowMany : d[x] = 0
      BY <1>1, <2>2
    <3> HIDE DEF d
    <3>2. SumTo(d, HowMany) = HowMany * 0
      BY <1>1, <3>1, SumOfSame
    <3> QED
      BY <1>1, <3>2
  <2> QED
    BY <2>1, <2>2
<1>6. SumTo(f, HowMany) = SumTo(g, HowMany) + SumTo(d, HowMany)
  <2>1. \A y \in 1..HowMany : g[y] \in Int /\ d[y] \in Int /\ f[y] = g[y] + d[y]
    <3> HIDE DEF f, g, d
    <3> QED
      BY <1>1, <1>2, <1>3, <1>4
  <2> HIDE DEF f, g, d
  <2> QED
    BY <1>1, <2>1, SumOfBoth
<1>7. SumTo(g, HowMany) \in Nat /\ SumTo(d, HowMany) \in Int
  <2>1. \A y \in 1..HowMany : g[y] \in Nat /\ d[y] \in Int
    <3> HIDE DEF f, g, d
    <3> QED
      BY <1>1, <1>2, <1>3
  <2> HIDE DEF f, g, d
  <2> QED
    BY <1>1, <2>1, SumNat, SumInt
<1> QED
  BY <1>5, <1>6, <1>7

\* The stretches leave no gap.
LEMMA NoGap ==
    ASSUME NEW amount \in [Members -> Nat], NEW t \in Nat, t <= SumTo(amount, HowMany)
    PROVE  SumTo(DoneAt(amount, t), HowMany) = t
<1> DEFINE Sum(u) == SumTo(DoneAt(amount, u), HowMany)
           T == SumTo(amount, HowMany)
<1>1. HowMany \in Nat /\ Members = 1..HowMany
  BY HowManyAssumption DEF Members
<1>2. T \in Nat
  BY <1>1, SumNat
<1>3. \A u \in Nat : Sum(u) \in Nat
  <2> TAKE u \in Nat
  <2>1. DoneAt(amount, u) \in [Members -> Nat]
    BY DoneTyped
  <2> QED
    BY <1>1, <2>1, SumNat
<1>4. Earlier(amount) \in [Members -> Nat]
  BY EarlierTyped
<1>5. \A u \in Nat : Sum(u + 1) <= Sum(u) + 1
  BY DoneStep
<1>6. Sum(0) = 0
  <2>1. \A y \in 1..HowMany : DoneAt(amount, 0)[y] = 0
    BY <1>1, <1>4 DEF DoneAt, Done, Least, AtLeastZero
  <2>2. Sum(0) = HowMany * 0
    BY <1>1, <2>1, SumOfSame
  <2> QED
    BY <1>1, <2>2
<1>7. Sum(T) = T
  <2>1. \A y \in 1..HowMany : DoneAt(amount, T)[y] = amount[y]
    <3> TAKE y \in 1..HowMany
    <3>1. Earlier(amount)[y] + amount[y] <= T
      BY <1>1, EndsOnTheLine
    <3>2. DoneAt(amount, T)[y] = Least(AtLeastZero(T - Earlier(amount)[y]), amount[y])
      BY <1>1 DEF DoneAt, Done
    <3> HIDE DEF T
    <3> QED
      BY <1>1, <1>2, <1>4, <3>1, <3>2 DEF Least, AtLeastZero
  <2> QED
    BY <1>1, <2>1, SumSame
<1> HIDE DEF Sum, T
<1>8. \A u \in Nat : Sum(u) <= u
  <2> DEFINE S == {u \in Nat : Sum(u) <= u}
  <2>1. 0 \in S
    BY <1>6
  <2>2. ASSUME NEW u \in Nat, u \in S PROVE u + 1 \in S
    BY <1>3, <1>5, <2>2
  <2>3. Nat \subseteq S
    <3> HIDE DEF S
    <3> QED
      BY <2>1, <2>2, ByInduction
  <2> QED
    BY <2>3
<1>9. \A k \in Nat : k <= T => Sum(T - k) >= T - k
  <2> DEFINE S == {k \in Nat : k <= T => Sum(T - k) >= T - k}
  <2>1. 0 \in S
    BY <1>2, <1>7
  <2>2. ASSUME NEW k \in Nat, k \in S PROVE k + 1 \in S
    <3> SUFFICES ASSUME k + 1 <= T PROVE Sum(T - (k + 1)) >= T - (k + 1)
      OBVIOUS
    <3>1. Sum(T - k) >= T - k
      BY <1>2, <2>2
    <3> DEFINE u == T - (k + 1)
    <3>2. u \in Nat /\ u + 1 = T - k
      BY <1>2
    <3>3. Sum(u + 1) <= Sum(u) + 1 /\ Sum(u) \in Nat /\ Sum(u + 1) \in Nat
      BY <1>3, <1>5, <3>2
    <3> QED
      BY <1>2, <3>1, <3>2, <3>3
  <2>3. Nat \subseteq S
    <3> HIDE DEF S
    <3> QED
      BY <2>1, <2>2, ByInduction
  <2> QED
    BY <2>3
<1>10. t <= T
  BY DEF T
<1>11. Sum(t) >= t
  <2>1. T - t \in Nat /\ T - t <= T /\ T - (T - t) = t
    BY <1>2, <1>10
  <2> QED
    BY <1>9, <2>1
<1>12. Sum(t) = t
  BY <1>3, <1>8, <1>11
<1> QED
  BY <1>12 DEF Sum

\* How much of each stretch lies between a and b.
LEMMA Overlaps ==
    ASSUME NEW amount \in [Members -> Nat], NEW a \in Nat, NEW b \in Nat,
           a <= b, b <= SumTo(amount, HowMany), NEW f,
           \A y \in Members : f[y] = AtLeastZero(Least(b, Earlier(amount)[y] + amount[y])
                                                - Greatest(a, Earlier(amount)[y]))
    PROVE  SumTo(f, HowMany) = b - a
<1>1. HowMany \in Nat /\ Members = 1..HowMany
  BY HowManyAssumption DEF Members
<1>2. Earlier(amount) \in [Members -> Nat]
  BY EarlierTyped
<1>3. DoneAt(amount, a) \in [Members -> Nat] /\ DoneAt(amount, b) \in [Members -> Nat]
  BY DoneTyped
<1>4. \A y \in Members : f[y] = DoneAt(amount, b)[y] - DoneAt(amount, a)[y]
  <2> TAKE y \in Members
  <2>1. \A e, w \in Nat : AtLeastZero(Least(b, e + w) - Greatest(a, e))
                          = Least(AtLeastZero(b - e), w) - Least(AtLeastZero(a - e), w)
    BY DEF Least, Greatest, AtLeastZero
  <2>2. /\ DoneAt(amount, b)[y] = Least(AtLeastZero(b - Earlier(amount)[y]), amount[y])
        /\ DoneAt(amount, a)[y] = Least(AtLeastZero(a - Earlier(amount)[y]), amount[y])
    BY DEF DoneAt, Done
  <2>3. Earlier(amount)[y] \in Nat /\ amount[y] \in Nat
    BY <1>2
  <2>4. AtLeastZero(Least(b, Earlier(amount)[y] + amount[y]) - Greatest(a, Earlier(amount)[y]))
          = Least(AtLeastZero(b - Earlier(amount)[y]), amount[y])
            - Least(AtLeastZero(a - Earlier(amount)[y]), amount[y])
    BY <2>1, <2>3
  <2>5. f[y] = AtLeastZero(Least(b, Earlier(amount)[y] + amount[y]) - Greatest(a, Earlier(amount)[y]))
    OBVIOUS
  <2> QED
    BY <2>2, <2>4, <2>5
<1>5. SumTo(f, HowMany) = SumTo(DoneAt(amount, b), HowMany) - SumTo(DoneAt(amount, a), HowMany)
  <2>1. \A y \in 1..HowMany : /\ DoneAt(amount, b)[y] \in Int /\ DoneAt(amount, a)[y] \in Int
                             /\ f[y] = DoneAt(amount, b)[y] - DoneAt(amount, a)[y]
    <3> TAKE y \in 1..HowMany
    <3>1. y \in Members
      BY <1>1
    <3>2. DoneAt(amount, b)[y] \in Nat /\ DoneAt(amount, a)[y] \in Nat
      BY <1>3, <3>1
    <3> QED
      BY <1>4, <3>1, <3>2
  <2> QED
    BY <1>1, <2>1, SumOfDifference
<1>6. SumTo(amount, HowMany) \in Nat
  BY <1>1, SumNat
<1>7. SumTo(DoneAt(amount, b), HowMany) = b /\ SumTo(DoneAt(amount, a), HowMany) = a
  BY <1>6, NoGap
<1> QED
  BY <1>5, <1>7

LEMMA SimplifiedIsExact ==
    ASSUME NEW net \in [Members -> Int], SumTo(net, HowMany) = 0, NEW m \in Members
    PROVE  net[m] = SumTo([x \in Members |-> SimplifyDebts(net)[<<x, m>>]
                                            - SimplifyDebts(net)[<<m, x>>]], HowMany)
<1> DEFINE owes == [x \in Members |-> AtLeastZero(-net[x])]
           due  == [x \in Members |-> AtLeastZero(net[x])]
           paid == [x \in Members |-> SimplifyDebts(net)[<<x, m>>]]
           pays == [x \in Members |-> SimplifyDebts(net)[<<m, x>>]]
           all  == [x \in Members |-> SimplifyDebts(net)[<<x, m>>] - SimplifyDebts(net)[<<m, x>>]]
<1>1. HowMany \in Nat /\ Members = 1..HowMany
  BY HowManyAssumption DEF Members
<1>2. owes \in [Members -> Nat] /\ due \in [Members -> Nat]
  BY DEF AtLeastZero
<1>3. \A x \in Members : net[x] = due[x] - owes[x]
  BY DEF AtLeastZero
<1> HIDE DEF owes, due
<1>4. Earlier(owes) \in [Members -> Nat] /\ Earlier(due) \in [Members -> Nat]
  BY <1>2, EarlierTyped
<1>5. SumTo(owes, HowMany) = SumTo(due, HowMany)
  <2>1. \A x \in 1..HowMany : due[x] \in Int /\ owes[x] \in Int /\ net[x] = due[x] - owes[x]
    BY <1>1, <1>2, <1>3
  <2>2. SumTo(net, HowMany) = SumTo(due, HowMany) - SumTo(owes, HowMany)
    BY <1>1, <2>1, SumOfDifference
  <2>3. SumTo(due, HowMany) \in Int /\ SumTo(owes, HowMany) \in Int
    BY <1>1, <2>1, SumInt
  <2> QED
    BY <2>2, <2>3
<1>6. ASSUME NEW x \in Members, NEW y \in Members
      PROVE  SimplifyDebts(net)[<<x, y>>]
               = AtLeastZero(Least(Earlier(owes)[x] + owes[x], Earlier(due)[y] + due[y])
                             - Greatest(Earlier(owes)[x], Earlier(due)[y]))
  <2>1. /\ Table(owes) = owes /\ Table(due) = due
        /\ Table(Earlier(owes)) = Earlier(owes) /\ Table(Earlier(due)) = Earlier(due)
    BY TableIsItself
  <2>2. SimplifyDebts(net) =
          [p \in Pairs |-> AtLeastZero(Least(Earlier(owes)[p[1]] + owes[p[1]],
                                             Earlier(due)[p[2]] + due[p[2]])
                                       - Greatest(Earlier(owes)[p[1]], Earlier(due)[p[2]]))]
    BY <2>1 DEF SimplifyDebts, owes, due
  <2>3. <<x, y>> \in Pairs /\ <<x, y>>[1] = x /\ <<x, y>>[2] = y
    BY DEF Pairs
  <2> QED
    BY <2>2, <2>3
<1>7. SumTo(paid, HowMany) = due[m]
  <2> DEFINE a == Earlier(due)[m]
             b == Earlier(due)[m] + due[m]
  <2>1. a \in Nat /\ b \in Nat /\ a <= b /\ b - a = due[m]
    BY <1>2, <1>4
  <2>2. b <= SumTo(owes, HowMany)
    BY <1>2, <1>5, EndsOnTheLine
  <2>3. \A y \in Members : paid[y] = AtLeastZero(Least(b, Earlier(owes)[y] + owes[y])
                                                 - Greatest(a, Earlier(owes)[y]))
    <3> TAKE y \in Members
    <3>1. paid[y] = AtLeastZero(Least(Earlier(owes)[y] + owes[y], b) - Greatest(Earlier(owes)[y], a))
      BY <1>6
    <3>2. Earlier(owes)[y] \in Nat /\ Earlier(owes)[y] + owes[y] \in Nat
      BY <1>2, <1>4
    <3>3. \A i, j \in Nat : Least(i, j) = Least(j, i) /\ Greatest(i, j) = Greatest(j, i)
      BY DEF Least, Greatest
    <3> HIDE DEF a, b, paid
    <3> QED
      BY <2>1, <3>1, <3>2, <3>3
  <2> HIDE DEF a, b, paid
  <2>4. SumTo(paid, HowMany) = b - a
    BY <1>2, <2>1, <2>2, <2>3, Overlaps
  <2> QED
    BY <2>1, <2>4
<1>8. SumTo(pays, HowMany) = owes[m]
  <2> DEFINE a == Earlier(owes)[m]
             b == Earlier(owes)[m] + owes[m]
  <2>1. a \in Nat /\ b \in Nat /\ a <= b /\ b - a = owes[m]
    BY <1>2, <1>4
  <2>2. b <= SumTo(due, HowMany)
    <3>1. b <= SumTo(owes, HowMany)
      BY <1>2, EndsOnTheLine
    <3> QED
      BY <1>5, <3>1
  <2>3. \A y \in Members : pays[y] = AtLeastZero(Least(b, Earlier(due)[y] + due[y])
                                                 - Greatest(a, Earlier(due)[y]))
    BY <1>6
  <2> HIDE DEF a, b, pays
  <2>4. SumTo(pays, HowMany) = b - a
    BY <1>2, <2>1, <2>2, <2>3, Overlaps
  <2> QED
    BY <2>1, <2>4
<1>9. SumTo(all, HowMany) = SumTo(paid, HowMany) - SumTo(pays, HowMany)
  <2>1. SimplifyDebts(net) \in [Pairs -> Nat]
    BY SimplifiedTyped
  <2>2. \A x \in Members : <<x, m>> \in Pairs /\ <<m, x>> \in Pairs
    BY DEF Pairs
  <2>3. \A x \in 1..HowMany : paid[x] \in Int /\ pays[x] \in Int /\ all[x] = paid[x] - pays[x]
    BY <1>1, <2>1, <2>2
  <2> HIDE DEF paid, pays, all
  <2> QED
    BY <1>1, <2>3, SumOfDifference
<1> QED
  BY <1>3, <1>7, <1>8, <1>9

-----------------------------------------------------------------------------
(* Balances.  What one expense and one payment do to a member's balance,   *)
(* and to what two members owe each other.                                 *)

Spent(e, m) == (IF e.paidBy = m THEN e.amount ELSE 0) - e.part[m]
Settled(s, m) == (IF s.from = m THEN Moved(s) ELSE 0) - (IF s.to = m THEN Moved(s) ELSE 0)

SpentBetween(e, x, m) ==
    (IF e.paidBy = m THEN e.part[x] ELSE 0) - (IF e.paidBy = x THEN e.part[m] ELSE 0)
SettledBetween(s, x, m) ==
    (IF s.to = x /\ s.from = m THEN Moved(s) ELSE 0) - (IF s.to = m /\ s.from = x THEN Moved(s) ELSE 0)

AddsUp(e) == SumTo(e.part, HowMany) = e.amount

LEMMA OfExpense ==
    ASSUME NEW spent \in Seq(Expense)
    PROVE  /\ Len(spent) \in Nat /\ DOMAIN spent = 1..Len(spent)
           /\ \A e \in 1..Len(spent) :
                 /\ spent[e].paidBy \in Members /\ spent[e].amount \in Nat
                 /\ spent[e].part \in [Members -> Nat]
<1>1. Len(spent) \in Nat /\ DOMAIN spent = 1..Len(spent)
  OBVIOUS
<1>2. \A e \in 1..Len(spent) : spent[e] \in Expense
  BY <1>1
<1> QED
  BY <1>1, <1>2 DEF Expense

LEMMA BalanceIsSum ==
    ASSUME NEW spent \in Seq(Expense), NEW paid, ArePayments(paid), NEW m \in Members
    PROVE  /\ \A e \in 1..Len(spent) : Spent(spent[e], m) \in Int
           /\ \A s \in 1..Len(paid) : Settled(paid[s], m) \in Int
           /\ ComputeBalances(spent, paid)[m]
                = SumTo([e \in 1..Len(spent) |-> Spent(spent[e], m)], Len(spent))
                  + SumTo([s \in 1..Len(paid) |-> Settled(paid[s], m)], Len(paid))
<1>1. /\ Len(spent) \in Nat /\ DOMAIN spent = 1..Len(spent)
      /\ \A e \in 1..Len(spent) : /\ spent[e].paidBy \in Members /\ spent[e].amount \in Nat
                                  /\ spent[e].part \in [Members -> Nat]
  BY OfExpense
<1>2. /\ Len(paid) \in Nat /\ DOMAIN paid = 1..Len(paid)
      /\ \A s \in 1..Len(paid) : Moved(paid[s]) \in Nat
  BY DEF ArePayments
<1>3. \A e \in 1..Len(spent) : Spent(spent[e], m) \in Int
  BY <1>1 DEF Spent
<1>4. \A s \in 1..Len(paid) : Settled(paid[s], m) \in Int
  BY <1>2 DEF Settled
<1> DEFINE f == [e \in 1..Len(spent) |-> Spent(spent[e], m)]
           g == [s \in 1..Len(paid) |-> Settled(paid[s], m)]
<1>5. ComputeBalances(spent, paid)[m] = Total(f) + Total(g)
  BY <1>1, <1>2 DEF ComputeBalances, Spent, Settled
<1>6. Total(f) = SumTo(f, Len(spent)) /\ Total(g) = SumTo(g, Len(paid))
  <2>1. f = [e \in 1..Len(spent) |-> f[e]] /\ g = [s \in 1..Len(paid) |-> g[s]]
    OBVIOUS
  <2> HIDE DEF f, g
  <2> QED
    BY <1>1, <1>2, <2>1, TotalIsSum
<1> QED
  BY <1>3, <1>4, <1>5, <1>6

\* What x owes m less what m owes x, in sums over the expenses and payments.
LEMMA BetweenIsSum ==
    ASSUME NEW spent \in Seq(Expense), NEW paid, ArePayments(paid),
           NEW x \in Members, NEW m \in Members
    PROVE  /\ \A e \in 1..Len(spent) : SpentBetween(spent[e], x, m) \in Int
           /\ \A s \in 1..Len(paid) : SettledBetween(paid[s], x, m) \in Int
           /\ Owes(spent, paid, x, m) - Owes(spent, paid, m, x)
                = SumTo([e \in 1..Len(spent) |-> SpentBetween(spent[e], x, m)], Len(spent))
                  + SumTo([s \in 1..Len(paid) |-> SettledBetween(paid[s], x, m)], Len(paid))
<1>1. /\ Len(spent) \in Nat /\ DOMAIN spent = 1..Len(spent)
      /\ \A e \in 1..Len(spent) : /\ spent[e].paidBy \in Members /\ spent[e].amount \in Nat
                                  /\ spent[e].part \in [Members -> Nat]
  BY OfExpense
<1>2. /\ Len(paid) \in Nat /\ DOMAIN paid = 1..Len(paid)
      /\ \A s \in 1..Len(paid) : Moved(paid[s]) \in Nat
  BY DEF ArePayments
<1>3. \A e \in 1..Len(spent) : SpentBetween(spent[e], x, m) \in Int
  BY <1>1 DEF SpentBetween
<1>4. \A s \in 1..Len(paid) : SettledBetween(paid[s], x, m) \in Int
  BY <1>2 DEF SettledBetween
<1> DEFINE f == [e \in 1..Len(spent) |-> SpentBetween(spent[e], x, m)]
           g == [s \in 1..Len(paid) |-> SettledBetween(paid[s], x, m)]
<1>5. CASE x = m
  <2>1. \A e \in 1..Len(spent) : f[e] = 0
    BY <1>1, <1>5 DEF SpentBetween
  <2>2. \A s \in 1..Len(paid) : g[s] = 0
    BY <1>2, <1>5 DEF SettledBetween
  <2>3. Owes(spent, paid, x, m) - Owes(spent, paid, m, x) = 0
    BY <1>5 DEF Owes
  <2> HIDE DEF f, g
  <2>4. SumTo(f, Len(spent)) = Len(spent) * 0 /\ SumTo(g, Len(paid)) = Len(paid) * 0
    BY <1>1, <1>2, <2>1, <2>2, SumOfSame
  <2>5. SumTo(f, Len(spent)) = 0 /\ SumTo(g, Len(paid)) = 0
    BY <1>1, <1>2, <2>4
  <2>6. Owes(spent, paid, x, m) - Owes(spent, paid, m, x) = SumTo(f, Len(spent)) + SumTo(g, Len(paid))
    BY <2>3, <2>5
  <2> QED
    BY <1>3, <1>4, <2>6 DEF f, g
<1>6. CASE x # m
  <2> DEFINE fx == [e \in 1..Len(spent) |-> IF spent[e].paidBy = m THEN spent[e].part[x] ELSE 0]
             fm == [e \in 1..Len(spent) |-> IF spent[e].paidBy = x THEN spent[e].part[m] ELSE 0]
             gx == [s \in 1..Len(paid) |->
                      IF paid[s].to = x /\ paid[s].from = m THEN Moved(paid[s]) ELSE 0]
             gm == [s \in 1..Len(paid) |->
                      IF paid[s].to = m /\ paid[s].from = x THEN Moved(paid[s]) ELSE 0]
  <2>1. /\ Owes(spent, paid, x, m) = Total(fx) + Total(gx)
        /\ Owes(spent, paid, m, x) = Total(fm) + Total(gm)
    BY <1>1, <1>2, <1>6 DEF Owes
  <2>2. /\ fx = [e \in 1..Len(spent) |-> fx[e]] /\ fm = [e \in 1..Len(spent) |-> fm[e]]
        /\ gx = [s \in 1..Len(paid) |-> gx[s]] /\ gm = [s \in 1..Len(paid) |-> gm[s]]
    OBVIOUS
  <2>3. \A e \in 1..Len(spent) : fx[e] \in Int /\ fm[e] \in Int /\ f[e] = fx[e] - fm[e]
    BY <1>1 DEF SpentBetween
  <2>4. \A s \in 1..Len(paid) : gx[s] \in Int /\ gm[s] \in Int /\ g[s] = gx[s] - gm[s]
    BY <1>2 DEF SettledBetween
  <2> HIDE DEF f, g, fx, fm, gx, gm
  <2>5. SumTo(f, Len(spent)) = SumTo(fx, Len(spent)) - SumTo(fm, Len(spent))
    BY <1>1, <2>3, SumOfDifference
  <2>6. SumTo(g, Len(paid)) = SumTo(gx, Len(paid)) - SumTo(gm, Len(paid))
    BY <1>2, <2>4, SumOfDifference
  <2>7. /\ Total(fx) \in Int /\ Total(fx) = SumTo(fx, Len(spent))
        /\ Total(fm) \in Int /\ Total(fm) = SumTo(fm, Len(spent))
    <3>1. (\A e \in 1..Len(spent) : fx[e] \in Int) /\ (\A e \in 1..Len(spent) : fm[e] \in Int)
      BY <2>3
    <3> QED
      BY <1>1, <2>2, <3>1, TotalInt
  <2>8. /\ Total(gx) \in Int /\ Total(gx) = SumTo(gx, Len(paid))
        /\ Total(gm) \in Int /\ Total(gm) = SumTo(gm, Len(paid))
    <3>1. (\A s \in 1..Len(paid) : gx[s] \in Int) /\ (\A s \in 1..Len(paid) : gm[s] \in Int)
      BY <2>4
    <3> QED
      BY <1>2, <2>2, <3>1, TotalInt
  <2>9. Owes(spent, paid, x, m) - Owes(spent, paid, m, x) = SumTo(f, Len(spent)) + SumTo(g, Len(paid))
    BY <2>1, <2>5, <2>6, <2>7, <2>8
  <2> QED
    BY <1>3, <1>4, <2>9 DEF f, g
<1> QED
  BY <1>5, <1>6

\* An expense, and a payment, is between its payer and each of the others.
LEMMA SpentOnAll ==
    ASSUME NEW e, e.paidBy \in Members, e.amount \in Nat, e.part \in [Members -> Nat],
           AddsUp(e), NEW m \in Members
    PROVE  /\ SumTo([x \in Members |-> SpentBetween(e, x, m)], HowMany) = Spent(e, m)
           /\ SumTo([x \in Members |-> Spent(e, x)], HowMany) = 0
<1>1. HowMany \in Nat /\ Members = 1..HowMany
  BY HowManyAssumption DEF Members
<1> DEFINE payer == e.paidBy
           f == [x \in Members |-> IF payer = m THEN e.part[x] ELSE 0]
           g == [x \in Members |-> IF x = payer THEN e.part[m] ELSE 0]
           h == [x \in Members |-> SpentBetween(e, x, m)]
           a == [x \in Members |-> IF x = payer THEN e.amount ELSE 0]
           d == [x \in Members |-> Spent(e, x)]
<1>2. \A x \in 1..HowMany : f[x] \in Int /\ g[x] \in Int /\ h[x] = f[x] - g[x]
  BY <1>1 DEF SpentBetween
<1>3. \A x \in 1..HowMany : a[x] \in Int /\ e.part[x] \in Int /\ d[x] = a[x] - e.part[x]
  BY <1>1 DEF Spent
<1>4. SumTo(f, HowMany) = IF payer = m THEN e.amount ELSE 0
  <2>1. CASE payer = m
    <3>1. \A x \in 1..HowMany : f[x] = e.part[x]
      BY <1>1, <2>1
    <3> HIDE DEF f
    <3>2. SumTo(f, HowMany) = SumTo(e.part, HowMany)
      BY <1>1, <3>1, SumSame
    <3> QED
      BY <2>1, <3>2 DEF AddsUp
  <2>2. CASE payer # m
    <3>1. \A x \in 1..HowMany : f[x] = 0
      BY <1>1, <2>2
    <3> HIDE DEF f
    <3>2. SumTo(f, HowMany) = HowMany * 0
      BY <1>1, <3>1, SumOfSame
    <3> QED
      BY <1>1, <2>2, <3>2
  <2> QED
    BY <2>1, <2>2
<1>5. SumTo(g, HowMany) = e.part[m]
  <2>1. \A x \in 1..HowMany : g[x] = IF x = payer THEN e.part[m] ELSE 0
    BY <1>1
  <2>2. payer \in 1..HowMany /\ e.part[m] \in Int
    BY <1>1
  <2> HIDE DEF g, payer
  <2> QED
    BY <1>1, <2>1, <2>2, SumOfOne
<1>6. SumTo(a, HowMany) = e.amount
  <2>1. \A x \in 1..HowMany : a[x] = IF x = payer THEN e.amount ELSE 0
    BY <1>1
  <2>2. payer \in 1..HowMany /\ e.amount \in Int
    BY <1>1
  <2> HIDE DEF a, payer
  <2> QED
    BY <1>1, <2>1, <2>2, SumOfOne
<1>7. SumTo(h, HowMany) = SumTo(f, HowMany) - SumTo(g, HowMany)
  <2> HIDE DEF f, g, h
  <2> QED
    BY <1>1, <1>2, SumOfDifference
<1>8. SumTo(d, HowMany) = SumTo(a, HowMany) - SumTo(e.part, HowMany)
  <2> HIDE DEF a, d
  <2> QED
    BY <1>1, <1>3, SumOfDifference
<1>9. Spent(e, m) = (IF payer = m THEN e.amount ELSE 0) - e.part[m]
  BY DEF Spent
<1>10. SumTo(h, HowMany) = Spent(e, m)
  BY <1>4, <1>5, <1>7, <1>9
<1>11. SumTo(d, HowMany) = 0
  BY <1>6, <1>8 DEF AddsUp
<1> QED
  BY <1>10, <1>11

LEMMA SettledWithAll ==
    ASSUME NEW s, s.from \in Members, s.to \in Members, Moved(s) \in Nat, NEW m \in Members
    PROVE  /\ SumTo([x \in Members |-> SettledBetween(s, x, m)], HowMany) = Settled(s, m)
           /\ SumTo([x \in Members |-> Settled(s, x)], HowMany) = 0
<1>1. HowMany \in Nat /\ Members = 1..HowMany
  BY HowManyAssumption DEF Members
<1> DEFINE v == Moved(s)
           payer == s.from
           payee == s.to
           out == IF payer = m THEN v ELSE 0
           in  == IF payee = m THEN v ELSE 0
           f == [x \in Members |-> IF x = payee THEN out ELSE 0]
           g == [x \in Members |-> IF x = payer THEN in ELSE 0]
           h == [x \in Members |-> SettledBetween(s, x, m)]
           a == [x \in Members |-> IF x = payer THEN v ELSE 0]
           b == [x \in Members |-> IF x = payee THEN v ELSE 0]
           d == [x \in Members |-> Settled(s, x)]
<1>2. \A x \in 1..HowMany : f[x] \in Int /\ g[x] \in Int /\ h[x] = f[x] - g[x]
  BY <1>1 DEF SettledBetween
<1>3. \A x \in 1..HowMany : a[x] \in Int /\ b[x] \in Int /\ d[x] = a[x] - b[x]
  BY <1>1 DEF Settled
<1>f. \A x \in 1..HowMany : f[x] = IF x = payee THEN out ELSE 0
  BY <1>1
<1>g. \A x \in 1..HowMany : g[x] = IF x = payer THEN in ELSE 0
  BY <1>1
<1>a. \A x \in 1..HowMany : a[x] = IF x = payer THEN v ELSE 0
  BY <1>1
<1>b. \A x \in 1..HowMany : b[x] = IF x = payee THEN v ELSE 0
  BY <1>1
<1>5. payer \in 1..HowMany /\ payee \in 1..HowMany /\ v \in Int /\ out \in Int /\ in \in Int
  BY <1>1
<1>6. Settled(s, m) = out - in
  BY DEF Settled
<1> HIDE DEF v, payer, payee, out, in, f, g, h, a, b, d
<1>7. /\ SumTo(f, HowMany) = out /\ SumTo(g, HowMany) = in
      /\ SumTo(a, HowMany) = v /\ SumTo(b, HowMany) = v
  <2>1. SumTo(f, HowMany) = out
    BY <1>1, <1>f, <1>5, SumOfOne
  <2>2. SumTo(g, HowMany) = in
    BY <1>1, <1>g, <1>5, SumOfOne
  <2>3. SumTo(a, HowMany) = v
    BY <1>1, <1>a, <1>5, SumOfOne
  <2>4. SumTo(b, HowMany) = v
    BY <1>1, <1>b, <1>5, SumOfOne
  <2> QED
    BY <2>1, <2>2, <2>3, <2>4
<1>8. SumTo(h, HowMany) = SumTo(f, HowMany) - SumTo(g, HowMany)
  BY <1>1, <1>2, SumOfDifference
<1>9. SumTo(d, HowMany) = SumTo(a, HowMany) - SumTo(b, HowMany)
  BY <1>1, <1>3, SumOfDifference
<1>10. SumTo(h, HowMany) = Settled(s, m)
  BY <1>6, <1>7, <1>8
<1>11. SumTo(d, HowMany) = 0
  BY <1>5, <1>7, <1>9
<1> QED
  BY <1>10, <1>11 DEF h, d

Transposed(F, C, n, k) == \A i \in 1..n, j \in 1..k : F[i][j] \in Int /\ C[j][i] = F[i][j]
AreSums(f, F, n, k) == \A i \in 1..n : f[i] = SumTo(F[i], k)

\* A table adds up by rows as it does by columns.
LEMMA ByColumns ==
    ASSUME NEW F, NEW C, NEW n \in Nat, NEW k \in Nat, NEW f, NEW c,
           Transposed(F, C, n, k), AreSums(f, F, n, k), AreSums(c, C, k, n)
    PROVE  SumTo(f, n) = SumTo(c, k)
<1> DEFINE rows == [i \in 1..n |-> SumTo(F[i], k)]
           columns == [j \in 1..k |-> SumTo([i \in 1..n |-> F[i][j]], n)]
<1>1. \A j \in 1..k : columns[j] = c[j]
  <2> TAKE j \in 1..k
  <2> DEFINE col == [i \in 1..n |-> F[i][j]]
  <2>1. \A i \in 1..n : col[i] = C[j][i]
    BY DEF Transposed
  <2>2. columns[j] = SumTo(col, n)
    OBVIOUS
  <2> HIDE DEF col, columns
  <2>3. SumTo(col, n) = SumTo(C[j], n)
    BY <2>1, SumSame
  <2> QED
    BY <2>2, <2>3 DEF AreSums
<1>2. SumTo(rows, n) = SumTo(columns, k)
  BY SumOfSums DEF Transposed
<1>3. \A i \in 1..n : f[i] = rows[i]
  BY DEF AreSums
<1> HIDE DEF rows, columns
<1>4. SumTo(columns, k) = SumTo(c, k)
  BY <1>1, SumSame
<1>5. SumTo(f, n) = SumTo(rows, n)
  BY <1>3, SumSame
<1> QED
  BY <1>2, <1>4, <1>5

AllAddUp(spent) == \A e \in DOMAIN spent : AddsUp(spent[e])

\* Nobody gains what another does not lose.
LEMMA BalancesEven ==
    ASSUME NEW spent \in Seq(Expense), AllAddUp(spent), NEW paid, ArePayments(paid),
           \A s \in DOMAIN paid : paid[s].from \in Members /\ paid[s].to \in Members
    PROVE  SumTo(ComputeBalances(spent, paid), HowMany) = 0
<1> DEFINE N == Len(spent)
           K == Len(paid)
           F == [x \in 1..HowMany |-> [e \in 1..N |-> Spent(spent[e], x)]]
           G == [x \in 1..HowMany |-> [s \in 1..K |-> Settled(paid[s], x)]]
           f == [x \in 1..HowMany |-> SumTo(F[x], N)]
           g == [x \in 1..HowMany |-> SumTo(G[x], K)]
           FC == [e \in 1..N |-> [x \in Members |-> Spent(spent[e], x)]]
           GC == [s \in 1..K |-> [x \in Members |-> Settled(paid[s], x)]]
           none == [i \in Nat |-> 0]
<1>1. HowMany \in Nat /\ Members = 1..HowMany
  BY HowManyAssumption DEF Members
<1>2. /\ N \in Nat /\ DOMAIN spent = 1..N
      /\ \A e \in 1..N : /\ spent[e].paidBy \in Members /\ spent[e].amount \in Nat
                         /\ spent[e].part \in [Members -> Nat] /\ AddsUp(spent[e])
  BY OfExpense DEF AllAddUp
<1>3. /\ K \in Nat /\ DOMAIN paid = 1..K
      /\ \A s \in 1..K : /\ Moved(paid[s]) \in Nat
                         /\ paid[s].from \in Members /\ paid[s].to \in Members
  BY DEF ArePayments
<1>4. \A x \in Members : ComputeBalances(spent, paid)[x] = f[x] + g[x]
  <2> TAKE x \in Members
  <2>1. F[x] = [e \in 1..N |-> Spent(spent[e], x)] /\ G[x] = [s \in 1..K |-> Settled(paid[s], x)]
    BY <1>1
  <2>2. f[x] = SumTo([e \in 1..N |-> Spent(spent[e], x)], N)
        /\ g[x] = SumTo([s \in 1..K |-> Settled(paid[s], x)], K)
    BY <1>1, <2>1
  <2> HIDE DEF f, g
  <2> QED
    BY <2>2, BalanceIsSum
<1>5. Transposed(F, FC, HowMany, N)
  BY <1>1, BalanceIsSum DEF Transposed
<1>6. Transposed(G, GC, HowMany, K)
  BY <1>1, BalanceIsSum DEF Transposed
<1>7. AreSums(none, FC, N, HowMany)
  <2> SUFFICES ASSUME NEW e \in 1..N PROVE none[e] = SumTo(FC[e], HowMany)
    BY DEF AreSums
  <2>1. FC[e] = [x \in Members |-> Spent(spent[e], x)]
    OBVIOUS
  <2>2. e \in Nat
    BY <1>2
  <2>3. none[e] = 0
    BY <2>2
  <2> HIDE DEF FC, none
  <2>4. SumTo([x \in Members |-> Spent(spent[e], x)], HowMany) = 0
    BY <1>1, <1>2, SpentOnAll
  <2> QED
    BY <2>1, <2>3, <2>4
<1>8. AreSums(none, GC, K, HowMany)
  <2> SUFFICES ASSUME NEW s \in 1..K PROVE none[s] = SumTo(GC[s], HowMany)
    BY DEF AreSums
  <2>1. GC[s] = [x \in Members |-> Settled(paid[s], x)]
    OBVIOUS
  <2>2. s \in Nat
    BY <1>3
  <2>3. none[s] = 0
    BY <2>2
  <2> HIDE DEF GC, none
  <2>4. SumTo([x \in Members |-> Settled(paid[s], x)], HowMany) = 0
    BY <1>1, <1>3, SettledWithAll
  <2> QED
    BY <2>1, <2>3, <2>4
<1>9. \A x \in 1..HowMany : f[x] \in Int /\ g[x] \in Int /\ ComputeBalances(spent, paid)[x] = f[x] + g[x]
  <2> TAKE x \in 1..HowMany
  <2>1. f[x] = SumTo(F[x], N) /\ g[x] = SumTo(G[x], K)
    OBVIOUS
  <2> HIDE DEF f, g, F, G
  <2>2. SumTo(F[x], N) \in Int /\ SumTo(G[x], K) \in Int
    BY <1>2, <1>3, <1>5, <1>6, SumInt DEF Transposed
  <2> QED
    BY <1>1, <1>4, <2>1, <2>2
<1>f. AreSums(f, F, HowMany, N)
  BY DEF AreSums
<1>g. AreSums(g, G, HowMany, K)
  BY DEF AreSums
<1> HIDE DEF F, G, FC, GC, N, K, none, f, g
<1>10. SumTo(f, HowMany) = SumTo(none, N) /\ SumTo(g, HowMany) = SumTo(none, K)
  <2>1. SumTo(f, HowMany) = SumTo(none, N)
    BY <1>1, <1>2, <1>5, <1>7, <1>f, ByColumns
  <2>2. SumTo(g, HowMany) = SumTo(none, K)
    BY <1>1, <1>3, <1>6, <1>8, <1>g, ByColumns
  <2> QED
    BY <2>1, <2>2
<1>11. SumTo(none, N) = N * 0 /\ SumTo(none, K) = K * 0
  <2>1. \A i \in Nat : none[i] = 0
    BY DEF none
  <2>2. (\A i \in 1..N : none[i] = 0) /\ (\A i \in 1..K : none[i] = 0)
    BY <1>2, <1>3, <2>1
  <2> QED
    BY <1>2, <1>3, <2>2, SumOfSame
<1>12. SumTo(ComputeBalances(spent, paid), HowMany) = SumTo(f, HowMany) + SumTo(g, HowMany)
  BY <1>1, <1>9, SumOfBoth
<1> QED
  BY <1>2, <1>3, <1>10, <1>11, <1>12

LEMMA DirectIsExact ==
    ASSUME NEW spent \in Seq(Expense), AllAddUp(spent), NEW paid, ArePayments(paid),
           \A s \in DOMAIN paid : paid[s].from \in Members /\ paid[s].to \in Members,
           NEW m \in Members
    PROVE  ComputeBalances(spent, paid)[m]
             = SumTo([x \in Members |-> DirectDebts(spent, paid)[<<x, m>>]
                                       - DirectDebts(spent, paid)[<<m, x>>]], HowMany)
<1> DEFINE N == Len(spent)
           K == Len(paid)
           F == [x \in 1..HowMany |-> [e \in 1..N |-> SpentBetween(spent[e], x, m)]]
           G == [x \in 1..HowMany |-> [s \in 1..K |-> SettledBetween(paid[s], x, m)]]
           f == [x \in 1..HowMany |-> SumTo(F[x], N)]
           g == [x \in 1..HowMany |-> SumTo(G[x], K)]
           FC == [e \in 1..N |-> [x \in Members |-> SpentBetween(spent[e], x, m)]]
           GC == [s \in 1..K |-> [x \in Members |-> SettledBetween(paid[s], x, m)]]
           c == [e \in 1..N |-> Spent(spent[e], m)]
           d == [s \in 1..K |-> Settled(paid[s], m)]
           all == [x \in Members |-> DirectDebts(spent, paid)[<<x, m>>]
                                    - DirectDebts(spent, paid)[<<m, x>>]]
<1>1. HowMany \in Nat /\ Members = 1..HowMany
  BY HowManyAssumption DEF Members
<1>2. /\ N \in Nat /\ DOMAIN spent = 1..N
      /\ \A e \in 1..N : /\ spent[e].paidBy \in Members /\ spent[e].amount \in Nat
                         /\ spent[e].part \in [Members -> Nat] /\ AddsUp(spent[e])
  BY OfExpense DEF AllAddUp
<1>3. /\ K \in Nat /\ DOMAIN paid = 1..K
      /\ \A s \in 1..K : /\ Moved(paid[s]) \in Nat
                         /\ paid[s].from \in Members /\ paid[s].to \in Members
  BY DEF ArePayments
<1>4. \A x \in Members : all[x] = f[x] + g[x]
  <2> TAKE x \in Members
  <2>1. F[x] = [e \in 1..N |-> SpentBetween(spent[e], x, m)]
        /\ G[x] = [s \in 1..K |-> SettledBetween(paid[s], x, m)]
    BY <1>1
  <2>2. f[x] = SumTo([e \in 1..N |-> SpentBetween(spent[e], x, m)], N)
        /\ g[x] = SumTo([s \in 1..K |-> SettledBetween(paid[s], x, m)], K)
    BY <1>1, <2>1
  <2> HIDE DEF f, g
  <2>3. Owes(spent, paid, x, m) - Owes(spent, paid, m, x) = f[x] + g[x]
    BY <2>2, BetweenIsSum
  <2>4. Owes(spent, paid, x, m) \in Nat /\ Owes(spent, paid, m, x) \in Nat
    BY OwesTyped
  <2>5. <<x, m>> \in Pairs /\ <<m, x>> \in Pairs
    BY DEF Pairs
  <2>6. /\ DirectDebts(spent, paid)[<<x, m>>]
             = AtLeastZero(Owes(spent, paid, x, m) - Owes(spent, paid, m, x))
        /\ DirectDebts(spent, paid)[<<m, x>>]
             = AtLeastZero(Owes(spent, paid, m, x) - Owes(spent, paid, x, m))
    BY <2>5 DEF DirectDebts
  <2>7. \A i, j \in Nat : AtLeastZero(i - j) - AtLeastZero(j - i) = i - j
    BY DEF AtLeastZero
  <2> QED
    BY <2>3, <2>4, <2>6, <2>7
<1>5. Transposed(F, FC, HowMany, N)
  BY <1>1, BetweenIsSum DEF Transposed
<1>6. Transposed(G, GC, HowMany, K)
  BY <1>1, BetweenIsSum DEF Transposed
<1>7. AreSums(c, FC, N, HowMany)
  <2> SUFFICES ASSUME NEW e \in 1..N PROVE c[e] = SumTo(FC[e], HowMany)
    BY DEF AreSums
  <2>1. FC[e] = [x \in Members |-> SpentBetween(spent[e], x, m)] /\ c[e] = Spent(spent[e], m)
    OBVIOUS
  <2> HIDE DEF FC, c
  <2>2. SumTo([x \in Members |-> SpentBetween(spent[e], x, m)], HowMany) = Spent(spent[e], m)
    BY <1>2, SpentOnAll
  <2> QED
    BY <2>1, <2>2
<1>8. AreSums(d, GC, K, HowMany)
  <2> SUFFICES ASSUME NEW s \in 1..K PROVE d[s] = SumTo(GC[s], HowMany)
    BY DEF AreSums
  <2>1. GC[s] = [x \in Members |-> SettledBetween(paid[s], x, m)] /\ d[s] = Settled(paid[s], m)
    OBVIOUS
  <2> HIDE DEF GC, d
  <2>2. SumTo([x \in Members |-> SettledBetween(paid[s], x, m)], HowMany) = Settled(paid[s], m)
    BY <1>3, SettledWithAll
  <2> QED
    BY <2>1, <2>2
<1>9. \A x \in 1..HowMany : f[x] \in Int /\ g[x] \in Int /\ all[x] = f[x] + g[x]
  <2> TAKE x \in 1..HowMany
  <2>1. f[x] = SumTo(F[x], N) /\ g[x] = SumTo(G[x], K)
    OBVIOUS
  <2> HIDE DEF f, g, F, G, all
  <2>2. SumTo(F[x], N) \in Int /\ SumTo(G[x], K) \in Int
    BY <1>2, <1>3, <1>5, <1>6, SumInt DEF Transposed
  <2> QED
    BY <1>1, <1>4, <2>1, <2>2
<1>10. ComputeBalances(spent, paid)[m] = SumTo(c, N) + SumTo(d, K)
  BY BalanceIsSum
<1>f. AreSums(f, F, HowMany, N)
  BY DEF AreSums
<1>g. AreSums(g, G, HowMany, K)
  BY DEF AreSums
<1> HIDE DEF F, G, FC, GC, N, K, c, d, f, g
<1>11. SumTo(f, HowMany) = SumTo(c, N) /\ SumTo(g, HowMany) = SumTo(d, K)
  <2>1. SumTo(f, HowMany) = SumTo(c, N)
    BY <1>1, <1>2, <1>5, <1>7, <1>f, ByColumns
  <2>2. SumTo(g, HowMany) = SumTo(d, K)
    BY <1>1, <1>3, <1>6, <1>8, <1>g, ByColumns
  <2> QED
    BY <2>1, <2>2
<1> HIDE DEF all
<1>12. SumTo(all, HowMany) = SumTo(f, HowMany) + SumTo(g, HowMany)
  BY <1>1, <1>9, SumOfBoth
<1>13. ComputeBalances(spent, paid)[m] = SumTo(all, HowMany)
  BY <1>10, <1>11, <1>12
<1> QED
  BY <1>13 DEF all

-----------------------------------------------------------------------------
(* How many pay.                                                           *)

\* Who pays whom, simplified, starts where one stretch meets the other.
Sides(net, owes, due) ==
    /\ owes \in [Members -> Nat] /\ due \in [Members -> Nat]
    /\ owes = [m \in Members |-> AtLeastZero(-net[m])]
    /\ due = [m \in Members |-> AtLeastZero(net[m])]

LEMMA SidesOf ==
    ASSUME NEW net \in [Members -> Int]
    PROVE  \E owes, due : Sides(net, owes, due)
<1>1. /\ [m \in Members |-> AtLeastZero(-net[m])] \in [Members -> Nat]
      /\ [m \in Members |-> AtLeastZero(net[m])] \in [Members -> Nat]
  BY DEF AtLeastZero
<1> QED
  BY <1>1 DEF Sides

LEMMA SimplifiedIs ==
    ASSUME NEW net \in [Members -> Int], NEW owes, NEW due, Sides(net, owes, due),
           NEW x \in Members, NEW y \in Members
    PROVE  SimplifyDebts(net)[<<x, y>>]
             = AtLeastZero(Least(Earlier(owes)[x] + owes[x], Earlier(due)[y] + due[y])
                           - Greatest(Earlier(owes)[x], Earlier(due)[y]))
<1>1. /\ Table(owes) = owes /\ Table(due) = due
      /\ Table(Earlier(owes)) = Earlier(owes) /\ Table(Earlier(due)) = Earlier(due)
  BY TableIsItself
<1>2. SimplifyDebts(net) =
        [p \in Pairs |-> AtLeastZero(Least(Earlier(owes)[p[1]] + owes[p[1]],
                                           Earlier(due)[p[2]] + due[p[2]])
                                     - Greatest(Earlier(owes)[p[1]], Earlier(due)[p[2]]))]
  BY <1>1 DEF SimplifyDebts, Sides
<1>3. <<x, y>> \in Pairs /\ <<x, y>>[1] = x /\ <<x, y>>[2] = y
  BY DEF Pairs
<1> QED
  BY <1>2, <1>3

LEMMA PaysWhereTheyMeet ==
    ASSUME NEW net \in [Members -> Int], NEW owes, NEW due, Sides(net, owes, due),
           NEW x \in Members, NEW y \in Members, SimplifyDebts(net)[<<x, y>>] > 0
    PROVE  LET t == Greatest(Earlier(owes)[x], Earlier(due)[y])
           IN /\ t \in Nat /\ Covers(owes, x, t) /\ Covers(due, y, t)
              /\ net[x] < 0 /\ net[y] > 0
<1>1. Earlier(owes) \in [Members -> Nat] /\ Earlier(due) \in [Members -> Nat]
  BY EarlierTyped DEF Sides
<1>2. owes[x] \in Nat /\ due[y] \in Nat /\ Earlier(owes)[x] \in Nat /\ Earlier(due)[y] \in Nat
  BY <1>1 DEF Sides
<1>3. owes[x] > 0 /\ due[y] > 0
      /\ Greatest(Earlier(owes)[x], Earlier(due)[y]) < Earlier(owes)[x] + owes[x]
      /\ Greatest(Earlier(owes)[x], Earlier(due)[y]) < Earlier(due)[y] + due[y]
  <2>1. \A a, w, b, v \in Nat : AtLeastZero(Least(a + w, b + v) - Greatest(a, b)) > 0 =>
            w > 0 /\ v > 0 /\ Greatest(a, b) < a + w /\ Greatest(a, b) < b + v
    BY DEF AtLeastZero, Least, Greatest
  <2>2. AtLeastZero(Least(Earlier(owes)[x] + owes[x], Earlier(due)[y] + due[y])
                    - Greatest(Earlier(owes)[x], Earlier(due)[y])) > 0
    BY SimplifiedIs
  <2> QED
    BY <1>2, <2>1, <2>2
<1>4. net[x] < 0 /\ net[y] > 0
  <2>1. owes[x] = AtLeastZero(-net[x]) /\ due[y] = AtLeastZero(net[y])
    BY DEF Sides
  <2>2. net[x] \in Int /\ net[y] \in Int
    OBVIOUS
  <2> QED
    BY <1>3, <2>1, <2>2 DEF AtLeastZero
<1>5. /\ Greatest(Earlier(owes)[x], Earlier(due)[y]) \in Nat
      /\ Earlier(owes)[x] <= Greatest(Earlier(owes)[x], Earlier(due)[y])
      /\ Earlier(due)[y] <= Greatest(Earlier(owes)[x], Earlier(due)[y])
  BY <1>2 DEF Greatest
<1> QED
  BY <1>3, <1>4, <1>5 DEF Covers

\* Somebody's stretch is the first.
LEMMA FirstStretch ==
    ASSUME NEW amount \in [Members -> Nat], NEW some \in Members, amount[some] > 0
    PROVE  \E y \in Members : Covers(amount, y, 0)
<1> SUFFICES ASSUME \A y \in Members : ~Covers(amount, y, 0) PROVE FALSE
  OBVIOUS
<1>1. HowMany \in Nat /\ Members = 1..HowMany
  BY HowManyAssumption DEF Members
<1>2. Earlier(amount) \in [Members -> Nat]
  BY EarlierTyped
<1>3. SumTo(amount, HowMany) \in Nat
  BY <1>1, SumNat
<1>4. 1 <= SumTo(amount, HowMany)
  <2>1. Earlier(amount)[some] + amount[some] <= SumTo(amount, HowMany)
    BY EndsOnTheLine
  <2> QED
    BY <1>2, <1>3, <2>1
<1>5. SumTo(DoneAt(amount, 1), HowMany) = 1
  BY <1>4, NoGap
<1>6. \A y \in 1..HowMany : DoneAt(amount, 1)[y] = 0
  <2> TAKE y \in 1..HowMany
  <2>1. y \in Members /\ Earlier(amount)[y] \in Nat /\ amount[y] \in Nat
    BY <1>1, <1>2
  <2>2. ~(Earlier(amount)[y] <= 0 /\ 0 < Earlier(amount)[y] + amount[y])
    BY <2>1 DEF Covers
  <2>3. DoneAt(amount, 1)[y] = Least(AtLeastZero(1 - Earlier(amount)[y]), amount[y])
    BY <2>1 DEF DoneAt, Done
  <2> QED
    BY <2>1, <2>2, <2>3 DEF Least, AtLeastZero
<1>7. SumTo(DoneAt(amount, 1), HowMany) = HowMany * 0
  BY <1>1, <1>6, SumOfSame
<1> QED
  BY <1>1, <1>5, <1>7

Paying(net) == {p \in Pairs : SimplifyDebts(net)[p] > 0}

LEMMA FewPay ==
    ASSUME NEW net \in [Members -> Int], Paying(net) # {}
    PROVE  Cardinality(Paying(net)) < Cardinality(Members)
<1> PICK owes, due : Sides(net, owes, due)
  BY SidesOf
<1> DEFINE Start(p) == Greatest(Earlier(owes)[p[1]], Earlier(due)[p[2]])
           starts == [p \in Paying(net) |-> IF Start(p) = Earlier(owes)[p[1]] THEN p[1] ELSE p[2]]
<1>1. Earlier(owes) \in [Members -> Nat] /\ Earlier(due) \in [Members -> Nat]
  BY EarlierTyped DEF Sides
<1>2. ASSUME NEW p \in Paying(net)
      PROVE  /\ p[1] \in Members /\ p[2] \in Members /\ p = <<p[1], p[2]>>
             /\ Start(p) \in Nat /\ Covers(owes, p[1], Start(p)) /\ Covers(due, p[2], Start(p))
             /\ net[p[1]] < 0 /\ net[p[2]] > 0
  <2>1. p[1] \in Members /\ p[2] \in Members /\ p = <<p[1], p[2]>>
    BY DEF Paying, Pairs
  <2>2. SimplifyDebts(net)[<<p[1], p[2]>>] > 0
    BY <2>1 DEF Paying
  <2> QED
    BY <2>1, <2>2, PaysWhereTheyMeet
<1>3. ASSUME NEW p \in Paying(net), NEW q \in Paying(net), Start(p) = Start(q) PROVE p = q
  <2>1. p[1] = q[1]
    BY <1>2, <1>3, OnlyOneCovers DEF Sides
  <2>2. p[2] = q[2]
    BY <1>2, <1>3, OnlyOneCovers DEF Sides
  <2> QED
    BY <1>2, <2>1, <2>2
<1>4. \A p \in Paying(net) : Start(p) = Earlier(owes)[p[1]] \/ Start(p) = Earlier(due)[p[2]]
  BY DEF Greatest
<1> HIDE DEF Start
<1>5. starts \in Injection(Paying(net), Members)
  <2>1. starts \in [Paying(net) -> Members]
    BY <1>2
  <2>2. ASSUME NEW p \in Paying(net), NEW q \in Paying(net), starts[p] = starts[q] PROVE p = q
    <3>1. Start(p) = Start(q)
      <4>1. CASE Start(p) = Earlier(owes)[p[1]] /\ Start(q) = Earlier(owes)[q[1]]
        BY <2>2, <4>1
      <4>2. CASE Start(p) # Earlier(owes)[p[1]] /\ Start(q) # Earlier(owes)[q[1]]
        BY <1>4, <2>2, <4>2
      <4>3. CASE Start(p) = Earlier(owes)[p[1]] /\ Start(q) # Earlier(owes)[q[1]]
        <5>1. p[1] = q[2]
          BY <2>2, <4>3
        <5>2. net[p[1]] < 0 /\ net[q[2]] > 0 /\ net[p[1]] \in Int
          BY <1>2
        <5> QED
          BY <5>1, <5>2
      <4>4. CASE Start(p) # Earlier(owes)[p[1]] /\ Start(q) = Earlier(owes)[q[1]]
        <5>1. p[2] = q[1]
          BY <2>2, <4>4
        <5>2. net[q[1]] < 0 /\ net[p[2]] > 0 /\ net[q[1]] \in Int
          BY <1>2
        <5> QED
          BY <5>1, <5>2
      <4> QED
        BY <4>1, <4>2, <4>3, <4>4
    <3> QED
      BY <1>3, <3>1
  <2> QED
    BY <2>1, <2>2 DEF Injection, IsInjective
\* Whoever is due most pays nobody, and is not the one a payment starts with.
<1>6. starts \notin Surjection(Paying(net), Members)
  <2> PICK p \in Paying(net) : TRUE
    OBVIOUS
  <2>1. due \in [Members -> Nat] /\ due[p[2]] > 0
    <3>1. due \in [Members -> Nat] /\ due[p[2]] = AtLeastZero(net[p[2]]) /\ net[p[2]] \in Int
      BY <1>2 DEF Sides
    <3> QED
      BY <1>2, <3>1 DEF AtLeastZero
  <2> PICK y \in Members : Covers(due, y, 0)
    BY <1>2, <2>1, FirstStretch
  <2>2. Earlier(due)[y] = 0 /\ due[y] > 0
    BY <1>1, <2>1 DEF Covers
  <2>3. net[y] > 0
    <3>1. due[y] = AtLeastZero(net[y]) /\ net[y] \in Int
      BY DEF Sides
    <3> QED
      BY <2>2, <3>1 DEF AtLeastZero
  <2>4. ASSUME NEW q \in Paying(net) PROVE starts[q] # y
    <3>1. CASE Start(q) = Earlier(owes)[q[1]]
      <4>1. starts[q] = q[1] /\ net[q[1]] < 0 /\ net[q[1]] \in Int
        BY <1>2, <3>1
      <4> QED
        BY <2>3, <4>1
    <3>2. CASE Start(q) # Earlier(owes)[q[1]]
      <4>1. starts[q] = q[2] /\ Start(q) = Earlier(due)[q[2]]
        BY <1>4, <3>2
      <4>2. SUFFICES ASSUME q[2] = y PROVE FALSE
        BY <4>1
      <4>3. Start(q) = 0
        BY <2>2, <4>1, <4>2
      <4>4. Earlier(owes)[q[1]] \in Nat /\ Earlier(owes)[q[1]] <= Start(q)
        BY <1>1, <1>2 DEF Covers
      <4> QED
        BY <3>2, <4>3, <4>4
    <3> QED
      BY <3>1, <3>2
  <2> HIDE DEF starts
  <2> QED
    BY <2>4 DEF Surjection
<1>7. IsFiniteSet(Members) /\ Cardinality(Members) \in Nat
  <2>1. HowMany \in Int /\ 1 \in Int
    BY HowManyAssumption
  <2>2. IsFiniteSet(Members)
    BY <2>1, FS_Interval DEF Members
  <2> QED
    BY <2>2, FS_CardinalityType
<1> HIDE DEF starts
<1>8. /\ IsFiniteSet(Paying(net)) /\ Cardinality(Paying(net)) <= Cardinality(Members)
      /\ Cardinality(Paying(net)) # Cardinality(Members)
  BY <1>5, <1>6, <1>7, FS_Injection
<1>9. Cardinality(Paying(net)) \in Nat
  BY <1>8, FS_CardinalityType
<1> QED
  BY <1>7, <1>8, <1>9

LEMMA NobodyPaysAndIsPaid ==
    ASSUME NEW net \in [Members -> Int], NEW p \in Paying(net), NEW q \in Paying(net)
    PROVE  p[2] # q[1]
<1> PICK owes, due : Sides(net, owes, due)
  BY SidesOf
<1>1. ASSUME NEW r \in Paying(net)
      PROVE  net[r[1]] < 0 /\ net[r[2]] > 0 /\ net[r[1]] \in Int
  <2>1. r[1] \in Members /\ r[2] \in Members /\ r = <<r[1], r[2]>>
    BY DEF Paying, Pairs
  <2>2. SimplifyDebts(net)[<<r[1], r[2]>>] > 0
    BY <2>1 DEF Paying
  <2> QED
    BY <2>1, <2>2, PaysWhereTheyMeet
<1>2. net[q[1]] < 0 /\ net[q[1]] \in Int /\ net[p[2]] > 0
  BY <1>1
<1> QED
  BY <1>2

\* For every member, what the debts say is the balance.
LEMMA DebtsAreExact ==
    ASSUME NEW spent \in Seq(Expense), AllAddUp(spent), NEW paid, ArePayments(paid),
           \A s \in DOMAIN paid : paid[s].from \in Members /\ paid[s].to \in Members,
           NEW mode \in BOOLEAN, NEW m \in Members
    PROVE  ComputeBalances(spent, paid)[m]
             = SumTo([x \in Members |-> Table(GroupDebts(mode, spent, paid))[<<x, m>>]
                                       - Table(GroupDebts(mode, spent, paid))[<<m, x>>]], HowMany)
<1>1. Table(GroupDebts(mode, spent, paid)) = GroupDebts(mode, spent, paid)
      /\ Table(ComputeBalances(spent, paid)) = ComputeBalances(spent, paid)
  BY TableIsItself
<1>2. CASE mode
  <2>1. GroupDebts(mode, spent, paid) = SimplifyDebts(ComputeBalances(spent, paid))
    BY <1>1, <1>2 DEF GroupDebts
  <2>2. ComputeBalances(spent, paid) \in [Members -> Int]
    BY BalancesTyped
  <2>3. SumTo(ComputeBalances(spent, paid), HowMany) = 0
    BY BalancesEven
  <2> QED
    BY <1>1, <2>1, <2>2, <2>3, SimplifiedIsExact
<1>3. CASE ~mode
  <2>1. GroupDebts(mode, spent, paid) = DirectDebts(spent, paid)
    BY <1>3 DEF GroupDebts
  <2> QED
    BY <1>1, <2>1, DirectIsExact
<1> QED
  BY <1>2, <1>3

-----------------------------------------------------------------------------
(* Payments that do not count.                                             *)

LEMMA SumPadded ==
    ASSUME NEW f, NEW g, NEW k \in Nat, NEW n \in {k, k + 1},
           \A i \in 1..k : f[i] \in Int /\ f[i] = g[i], n = k + 1 => f[n] = 0
    PROVE  SumTo(f, n) = SumTo(g, k)
<1>1. SumTo(f, k) = SumTo(g, k)
  BY SumSame
<1>2. SumTo(f, k) \in Int
  BY SumInt
<1>3. CASE n = k + 1
  <2>1. SumTo(f, k + 1) = SumTo(f, k) + f[k + 1]
    BY SumUnfolds
  <2> QED
    BY <1>1, <1>2, <1>3, <2>1
<1> QED
  BY <1>1, <1>3

\* `more` may have one more payment than `paid`, but nothing more was paid.
NothingMore(paid, more) ==
    /\ Len(more) \in {Len(paid), Len(paid) + 1}
    /\ \A s \in 1..Len(paid) : /\ more[s].from = paid[s].from /\ more[s].to = paid[s].to
                               /\ Moved(more[s]) = Moved(paid[s])
    /\ Len(more) = Len(paid) + 1 => Moved(more[Len(more)]) = 0

LEMMA SameBalances ==
    ASSUME NEW spent \in Seq(Expense), NEW paid, NEW more, ArePayments(paid), ArePayments(more),
           NothingMore(paid, more)
    PROVE  ComputeBalances(spent, more) = ComputeBalances(spent, paid)
<1>1. ASSUME NEW m \in Members
      PROVE  ComputeBalances(spent, more)[m] = ComputeBalances(spent, paid)[m]
  <2> DEFINE f == [s \in 1..Len(more) |-> Settled(more[s], m)]
             g == [s \in 1..Len(paid) |-> Settled(paid[s], m)]
  <2>1. Len(paid) \in Nat /\ Len(more) \in {Len(paid), Len(paid) + 1}
    BY DEF ArePayments, NothingMore
  <2>2. \A s \in 1..Len(paid) : Settled(paid[s], m) \in Int
    BY BalanceIsSum
  <2>3. \A s \in 1..Len(paid) : f[s] \in Int /\ f[s] = g[s]
    BY <2>1, <2>2 DEF NothingMore, Settled
  <2>4. Len(more) = Len(paid) + 1 => f[Len(more)] = 0
    BY <2>1 DEF NothingMore, Settled
  <2>5. /\ ComputeBalances(spent, more)[m]
             = SumTo([e \in 1..Len(spent) |-> Spent(spent[e], m)], Len(spent)) + SumTo(f, Len(more))
        /\ ComputeBalances(spent, paid)[m]
             = SumTo([e \in 1..Len(spent) |-> Spent(spent[e], m)], Len(spent)) + SumTo(g, Len(paid))
    BY BalanceIsSum
  <2> HIDE DEF f, g
  <2>6. SumTo(f, Len(more)) = SumTo(g, Len(paid))
    BY <2>1, <2>3, <2>4, SumPadded
  <2> QED
    BY <2>5, <2>6
<1>2. /\ ComputeBalances(spent, more) \in [Members -> Int]
      /\ ComputeBalances(spent, paid) \in [Members -> Int]
  BY BalancesTyped
<1> QED
  BY <1>1, <1>2

LEMMA SameDebts ==
    ASSUME NEW spent \in Seq(Expense), NEW paid, NEW more, ArePayments(paid), ArePayments(more),
           NothingMore(paid, more), NEW mode \in BOOLEAN
    PROVE  Table(GroupDebts(mode, spent, more)) = Table(GroupDebts(mode, spent, paid))
<1>1. ASSUME NEW x \in Members, NEW m \in Members
      PROVE  Owes(spent, more, x, m) - Owes(spent, more, m, x)
               = Owes(spent, paid, x, m) - Owes(spent, paid, m, x)
  <2> DEFINE f == [s \in 1..Len(more) |-> SettledBetween(more[s], x, m)]
             g == [s \in 1..Len(paid) |-> SettledBetween(paid[s], x, m)]
  <2>1. Len(paid) \in Nat /\ Len(more) \in {Len(paid), Len(paid) + 1}
    BY DEF ArePayments, NothingMore
  <2>2. \A s \in 1..Len(paid) : SettledBetween(paid[s], x, m) \in Int
    BY BetweenIsSum
  <2>3. \A s \in 1..Len(paid) : f[s] \in Int /\ f[s] = g[s]
    BY <2>1, <2>2 DEF NothingMore, SettledBetween
  <2>4. Len(more) = Len(paid) + 1 => f[Len(more)] = 0
    BY <2>1 DEF NothingMore, SettledBetween
  <2>5. /\ Owes(spent, more, x, m) - Owes(spent, more, m, x)
             = SumTo([e \in 1..Len(spent) |-> SpentBetween(spent[e], x, m)], Len(spent))
               + SumTo(f, Len(more))
        /\ Owes(spent, paid, x, m) - Owes(spent, paid, m, x)
             = SumTo([e \in 1..Len(spent) |-> SpentBetween(spent[e], x, m)], Len(spent))
               + SumTo(g, Len(paid))
    BY BetweenIsSum
  <2> HIDE DEF f, g
  <2>6. SumTo(f, Len(more)) = SumTo(g, Len(paid))
    BY <2>1, <2>3, <2>4, SumPadded
  <2> QED
    BY <2>5, <2>6
<1>2. DirectDebts(spent, more) = DirectDebts(spent, paid)
  <2>1. \A p \in Pairs : p[1] \in Members /\ p[2] \in Members
    BY DEF Pairs
  <2> QED
    BY <1>1, <2>1 DEF DirectDebts
<1>3. ComputeBalances(spent, more) = ComputeBalances(spent, paid)
  BY SameBalances
<1> QED
  BY <1>2, <1>3 DEF GroupDebts

-----------------------------------------------------------------------------
(* The tables and their handlers.                                          *)

\* The tables, and the debts made of them, are of their types.
TypeInv == TypeOK /\ debts \in [BOOLEAN -> [Pairs -> Nat]]

-----------------------------------------------------------------------------
(* What the parts of a handler make.                                       *)

LEMMA OwedTyped ==
    ASSUME TypeInv, NEW mode \in BOOLEAN, NEW f \in Members, NEW t \in Members
    PROVE  Owed(mode, f, t) \in Nat
<1>1. <<f, t>> \in Pairs
  BY DEF Pairs
<1> QED
  BY <1>1 DEF TypeInv, Owed

LEMMA RowsArePayments ==
    ASSUME NEW rows \in Seq(Row)
    PROVE  ArePayments(rows)
<1>1. Len(rows) \in Nat /\ DOMAIN rows = 1..Len(rows) /\ \A i \in DOMAIN rows : rows[i] \in Row
  OBVIOUS
<1>2. \A r \in Row : Moved(r) \in Nat
  BY DEF Row, Moved
<1> QED
  BY <1>1, <1>2 DEF ArePayments

LEMMA RecountTyped ==
    ASSUME TypeInv, TypeOK', Recount
    PROVE  TypeInv'
<1>1. CASE NothingMoved
  BY <1>1 DEF Recount, TypeInv
<1>2. CASE ~NothingMoved
  <2>1. debts' = [mode \in BOOLEAN |-> Table(GroupDebts(mode, expense', row'))]
    BY <1>2 DEF Recount, DebtsOf
  <2>2. expense' \in Seq(Expense) /\ row' \in Seq(Row)
    BY DEF TypeOK
  <2>3. \A mode \in BOOLEAN : Table(GroupDebts(mode, expense', row')) \in [Pairs -> Nat]
    BY <2>2, RowsArePayments, DebtsTyped
  <2> QED
    BY <2>1, <2>3 DEF TypeInv
<1> QED
  BY <1>1, <1>2

LEMMA InsertTyped ==
    ASSUME TypeInv, NEW f \in Members, NEW t \in Members, NEW amount \in Nat \ {0},
           NEW status \in {"open", "manually_confirmed"}, NEW link \in Nat,
           InsertSettlement(f, t, amount, status, link)
    PROVE  row' \in Seq(Row) /\ row' = Append(row, NewRow(f, t, amount, status, link))
<1>1. Len(payLinks) \in Nat
  BY DEF TypeInv, TypeOK
<1>2. NewRow(f, t, amount, status, link) \in Row
  BY <1>1 DEF NewRow, Row, LedgerStatuses
<1> QED
  BY <1>2 DEF InsertSettlement, TypeInv, TypeOK

LEMMA ReplaceTyped ==
    ASSUME TypeInv, NEW f \in Members, NEW t \in Members, NEW amount \in Nat \ {0},
           NEW link \in Nat, ReplaceUpiClaim(f, t, amount, link)
    PROVE  claims' \subseteq Claim
BY DEF ReplaceUpiClaim, ClaimsExcept, Claim, TypeInv, TypeOK

LEMMA RemovedTyped ==
    ASSUME NEW S, NEW s \in Seq(S), NEW i \in DOMAIN s
    PROVE  RemoveAt(s, i) \in Seq(S)
<1>1. i \in 1..Len(s) /\ Len(s) \in Nat
  OBVIOUS
<1>2. SubSeq(s, 1, i - 1) \in Seq(S) /\ SubSeq(s, i + 1, Len(s)) \in Seq(S)
  BY <1>1, SubSeqProperties
<1> QED
  BY <1>2, ConcatProperties DEF RemoveAt

\* An expense as it is stored: its parts add up.
LEMMA ResolvedTyped ==
    ASSUME NEW input \in Inputs, Splittable(input)
    PROVE  /\ Resolved(input) \in Expense
           /\ SumTo(Resolved(input).part, HowMany) = Resolved(input).amount
<1>1. input \in Input /\ (input.mode # "equal" => Len(input.number) = Len(input.who))
  BY ClaimsAssumption
<1>2. /\ ResolveParts(input) \in [Members -> Nat]
      /\ SumTo(ResolveParts(input), HowMany) = input.amount
  BY <1>1, ResolvedAddsUp
<1>3. input.paidBy \in Members /\ input.amount \in Nat
  BY <1>1 DEF Input
<1> QED
  BY <1>2, <1>3 DEF Resolved, Expense

-----------------------------------------------------------------------------
(* Types, of the tables and of what waiting requests read.                 *)

LEMMA InitTyped == Init => TypeInv
<1> SUFFICES ASSUME Init PROVE TypeInv
  OBVIOUS
<1>1. \A S : <<>> \in Seq(S)
  OBVIOUS
<1>2. upi \in [Joined -> UpiChoices]
  BY DEF Init, UpiChoices
<1>3. TypeOK
  BY <1>1, <1>2 DEF Init, TypeOK
<1>4. debts \in [BOOLEAN -> [Pairs -> Nat]]
  BY DEF Init
<1> QED
  BY <1>3, <1>4 DEF TypeInv

LEMMA ExpensesTyped ==
    ASSUME TypeInv,
           \/ \E input \in Inputs : PostExpense(input) \/ \E e \in DOMAIN expense : PutExpense(e, input)
           \/ \E e \in DOMAIN expense : DeleteExpense(e)
    PROVE  TypeInv'
<1> USE DEF TypeInv, TypeOK
<1>1. expense' \in Seq(Expense)
  <2>1. ASSUME NEW input \in Inputs, PostExpense(input) PROVE expense' \in Seq(Expense)
    BY <2>1, ResolvedTyped DEF PostExpense
  <2>2. ASSUME NEW input \in Inputs, NEW e \in DOMAIN expense, PutExpense(e, input)
        PROVE  expense' \in Seq(Expense)
    BY <2>2, ResolvedTyped DEF PutExpense
  <2>3. ASSUME NEW e \in DOMAIN expense, DeleteExpense(e) PROVE expense' \in Seq(Expense)
    BY <2>3, RemovedTyped DEF DeleteExpense
  <2> QED
    BY <2>1, <2>2, <2>3
<1>2. Recount /\ UNCHANGED <<row, claims, simplify, upi, payLinks, gone>>
  BY DEF PostExpense, PutExpense, DeleteExpense
<1>3. TypeOK'
  BY <1>1, <1>2
<1> QED
  BY <1>2, <1>3, RecountTyped

\* What an answer to a debt in the app is about.
LEMMA AmountTyped ==
    ASSUME TypeInv, NEW p \in Pairs, NEW mode \in BOOLEAN,
           NEW amount \in (Parts \cup {debts[mode][p]}) \ {0}
    PROVE  p[1] \in Members /\ p[2] \in Members /\ amount \in Nat \ {0}
BY ClaimsAssumption DEF Pairs, TypeInv

LEMMA PairsTyped ==
    ASSUME TypeInv, NEW f \in Members, NEW t \in Members, NEW amount \in Nat \ {0},
           NEW mode \in BOOLEAN,
           \/ PostSettlement(f, t, amount, mode) \/ PostManual(f, t, amount, mode)
           \/ PostUpiClaim(f, t, amount, mode) \/ PostUpiPayment(f, t, amount, mode)
    PROVE  TypeInv'
<1> USE DEF TypeInv, TypeOK
<1>0. NoLink \in Nat
  BY DEF NoLink
<1>1. CASE PostSettlement(f, t, amount, mode)
  <2>1. row' \in Seq(Row)
    BY <1>0, <1>1, InsertTyped DEF PostSettlement
  <2>2. TypeOK' /\ Recount
    BY <1>1, <2>1 DEF PostSettlement
  <2> QED
    BY <2>2, RecountTyped
<1>2. CASE PostManual(f, t, amount, mode)
  <2>1. row' \in Seq(Row)
    BY <1>0, <1>2, InsertTyped DEF PostManual
  <2>2. TypeOK' /\ Recount
    BY <1>2, <2>1 DEF PostManual, ClaimsExcept
  <2> QED
    BY <2>2, RecountTyped
<1>3. CASE PostUpiClaim(f, t, amount, mode)
  <2>1. claims' \subseteq Claim
    BY <1>0, <1>3, ReplaceTyped DEF PostUpiClaim
  <2> QED
    BY <1>3, <2>1 DEF PostUpiClaim
<1>4. CASE PostUpiPayment(f, t, amount, mode)
  <2>1. row' \in Seq(Row)
    BY <1>0, <1>4, InsertTyped DEF PostUpiPayment
  <2>2. TypeOK' /\ Recount
    BY <1>4, <2>1 DEF PostUpiPayment, ClaimsExcept
  <2> QED
    BY <2>2, RecountTyped
<1> QED
  BY <1>1, <1>2, <1>3, <1>4

LEMMA ClaimsTyped ==
    ASSUME TypeInv, NEW c \in claims, ConfirmClaim(c) \/ DeclineClaim(c) \/ WithdrawClaim(c)
    PROVE  TypeInv'
<1> USE DEF TypeInv, TypeOK
<1>0. c \in Claim /\ c.from \in Members /\ c.to \in Members /\ c.amount \in Nat \ {0} /\ c.link \in Nat
  BY DEF Claim
<1>1. CASE ConfirmClaim(c)
  <2>1. row' \in Seq(Row)
    BY <1>0, <1>1, InsertTyped DEF ConfirmClaim
  <2>2. TypeOK' /\ Recount
    BY <1>1, <2>1 DEF ConfirmClaim
  <2> QED
    BY <2>2, RecountTyped
<1>2. CASE DeclineClaim(c)
  <2>1. [c EXCEPT !.status = "declined"] \in Claim
    BY <1>0 DEF Claim
  <2> QED
    BY <1>2, <2>1 DEF DeclineClaim
<1>3. CASE WithdrawClaim(c)
  BY <1>3 DEF WithdrawClaim
<1> QED
  BY <1>1, <1>2, <1>3

LEMMA PageTyped ==
    ASSUME TypeInv, NEW f \in Members, NEW t \in Members, PostPayLink(f, t) \/ SayPaidOnPage(f, t)
    PROVE  TypeInv'
<1> USE DEF TypeInv, TypeOK
<1>0. Owed(simplify, f, t) \in Nat /\ NoLink \in Nat
  BY OwedTyped DEF NoLink
<1>1. CASE PostPayLink(f, t)
  <2>1. [from |-> f, to |-> t, amount |-> Owed(simplify, f, t)] \in PayLink
    BY <1>0, <1>1 DEF PostPayLink, PayLink
  <2> QED
    BY <1>1, <2>1 DEF PostPayLink
<1>2. CASE SayPaidOnPage(f, t)
  <2>1. claims' \subseteq Claim
    BY <1>0, <1>2, ReplaceTyped DEF SayPaidOnPage
  <2> QED
    BY <1>2, <2>1 DEF SayPaidOnPage
<1> QED
  BY <1>1, <1>2

LEMMA LinkTyped ==
    ASSUME TypeInv, NEW l \in DOMAIN payLinks
    PROVE  /\ l \in Nat \ {0} /\ payLinks[l] \in PayLink
           /\ payLinks[l].from \in Members /\ payLinks[l].to \in Members
           /\ payLinks[l].amount \in Nat \ {0}
<1>1. payLinks \in Seq(PayLink)
  BY DEF TypeInv, TypeOK
<1>2. payLinks[l] \in PayLink /\ l \in Nat \ {0}
  BY <1>1
<1> QED
  BY <1>2 DEF PayLink

LEMMA LinksTyped ==
    ASSUME TypeInv, NEW l \in DOMAIN payLinks,
           SayPaidOnLink(l) \/ \E chosen \in BOOLEAN : OpenPayLink(l, chosen)
    PROVE  TypeInv'
<1> USE DEF TypeInv, TypeOK
<1>1. CASE SayPaidOnLink(l)
  <2>1. claims' \subseteq Claim
    BY <1>1, LinkTyped, ReplaceTyped DEF SayPaidOnLink
  <2> QED
    BY <1>1, <2>1 DEF SayPaidOnLink
<1>2. ASSUME NEW chosen \in BOOLEAN, OpenPayLink(l, chosen) PROVE TypeInv'
  <2>1. row' \in Seq(Row)
    BY <1>2, LinkTyped, InsertTyped DEF OpenPayLink
  <2>2. TypeOK' /\ Recount
    BY <1>2, <2>1 DEF OpenPayLink
  <2> QED
    BY <2>2, RecountTyped
<1> QED
  BY <1>1, <1>2

LEMMA PaymentTyped ==
    ASSUME TypeInv, NEW i \in DOMAIN row, PaymentMoves(i)
    PROVE  TypeInv'
<1> USE DEF TypeInv, TypeOK
<1>1. PICK st \in {"closed", "confirmed"} : row' = [row EXCEPT ![i].status = st]
  BY DEF PaymentMoves
<1>2. [row[i] EXCEPT !.status = st] \in Row
  <2>1. row[i] \in Row
    OBVIOUS
  <2> QED
    BY <2>1 DEF Row, LedgerStatuses
<1>3. row' \in Seq(Row)
  BY <1>1, <1>2
<1>4. TypeOK' /\ Recount
  BY <1>3 DEF PaymentMoves
<1> QED
  BY <1>4, RecountTyped

LEMMA NextTyped == TypeInv /\ [Next]_vars => TypeInv'
<1> SUFFICES ASSUME TypeInv, [Next]_vars PROVE TypeInv'
  OBVIOUS
<1>1. CASE UNCHANGED vars
  BY <1>1 DEF vars, TypeInv, TypeOK
<1>2. ASSUME NEW mode \in BOOLEAN, NEW want \in BOOLEAN, PutGroup(mode, want) PROVE TypeInv'
  BY <1>2 DEF PutGroup, TypeInv, TypeOK
<1>3. CASE DeleteGroup
  BY <1>3 DEF DeleteGroup, TypeInv, TypeOK
<1>4. ASSUME NEW m \in Choosing, SetUpi(m) PROVE TypeInv'
  BY <1>4, ClaimsAssumption DEF SetUpi, TypeInv, TypeOK
<1>5. ASSUME NEW p \in Pairs, NEW mode \in BOOLEAN,
             NEW amount \in (Parts \cup {debts[mode][p]}) \ {0},
             \/ PostSettlement(p[1], p[2], amount, mode) \/ PostManual(p[1], p[2], amount, mode)
             \/ PostUpiClaim(p[1], p[2], amount, mode) \/ PostUpiPayment(p[1], p[2], amount, mode)
      PROVE  TypeInv'
  BY <1>5, AmountTyped, PairsTyped
<1>6. ASSUME NEW p \in Pairs, PostPayLink(p[1], p[2]) \/ SayPaidOnPage(p[1], p[2]) PROVE TypeInv'
  <2>1. p[1] \in Members /\ p[2] \in Members
    BY DEF Pairs
  <2> QED
    BY <1>6, <2>1, PageTyped
<1> QED
  BY <1>1, <1>2, <1>3, <1>4, <1>5, <1>6, ExpensesTyped, ClaimsTyped, LinksTyped, PaymentTyped
     DEF Next

\* Every reachable state is of the tables' types; what is owed is never less
\* than nothing, and whole (schema.ts, core/ledger.ts).
THEOREM TypeCorrect == Spec => []TypeOK
<1>1. TypeInv => TypeOK
  BY DEF TypeInv
<1> QED
  BY <1>1, InitTyped, NextTyped, PTL DEF Spec

-----------------------------------------------------------------------------
(* One claim for a debt.                                                   *)

\* A new claim takes the place of the one before.
LEMMA ReplacedAlone ==
    ASSUME TypeInv, OneClaimPerDebt, NEW f, NEW t, NEW amount, NEW link,
           ReplaceUpiClaim(f, t, amount, link)
    PROVE  OneClaimPerDebt'
BY DEF ReplaceUpiClaim, ClaimsExcept, OneClaimPerDebt

\* Fewer claims are no more for a debt.
LEMMA FewerClaims ==
    ASSUME OneClaimPerDebt, claims' \subseteq claims
    PROVE  OneClaimPerDebt'
BY DEF OneClaimPerDebt

LEMMA OneClaimStep == TypeInv /\ OneClaimPerDebt /\ [Next]_vars => OneClaimPerDebt'
<1> SUFFICES ASSUME TypeInv, OneClaimPerDebt, [Next]_vars PROVE OneClaimPerDebt'
  OBVIOUS
<1>1. ASSUME NEW f, NEW t, NEW amount, NEW mode,
             \/ PostSettlement(f, t, amount, mode) \/ PostManual(f, t, amount, mode)
             \/ PostUpiClaim(f, t, amount, mode) \/ PostUpiPayment(f, t, amount, mode)
      PROVE  OneClaimPerDebt'
  <2>1. CASE PostUpiClaim(f, t, amount, mode)
    BY <2>1, ReplacedAlone DEF PostUpiClaim
  <2>2. CASE ~PostUpiClaim(f, t, amount, mode)
    <3>1. claims' \subseteq claims
      BY <1>1, <2>2 DEF PostSettlement, PostManual, PostUpiPayment, ClaimsExcept
    <3> QED
      BY <3>1, FewerClaims
  <2> QED
    BY <2>1, <2>2
<1>2. ASSUME NEW c \in claims, ConfirmClaim(c) \/ WithdrawClaim(c) PROVE OneClaimPerDebt'
  BY <1>2, FewerClaims DEF ConfirmClaim, WithdrawClaim
<1>3. ASSUME NEW c \in claims, DeclineClaim(c) PROVE OneClaimPerDebt'
  <2>1. \A d \in claims : d \in Claim
    BY DEF TypeInv, TypeOK
  <2> DEFINE declined == [c EXCEPT !.status = "declined"]
  <2>2. declined.from = c.from /\ declined.to = c.to
    BY <2>1 DEF Claim
  <2>3. claims' = (claims \ {c}) \cup {declined}
    BY <1>3 DEF DeclineClaim
  <2> HIDE DEF declined
  <2> QED
    BY <2>2, <2>3 DEF OneClaimPerDebt
<1>4. ASSUME NEW f, NEW t, SayPaidOnPage(f, t) PROVE OneClaimPerDebt'
  BY <1>4, ReplacedAlone DEF SayPaidOnPage
<1>5. ASSUME NEW l, SayPaidOnLink(l) PROVE OneClaimPerDebt'
  BY <1>5, ReplacedAlone DEF SayPaidOnLink
<1>6. ASSUME NEW l, NEW chosen, OpenPayLink(l, chosen) PROVE claims' = claims
  BY <1>6 DEF OpenPayLink
<1>7. ASSUME NEW input, NEW e, PostExpense(input) \/ PutExpense(e, input) \/ DeleteExpense(e)
      PROVE  claims' = claims
  BY <1>7 DEF PostExpense, PutExpense, DeleteExpense
<1>8. ASSUME NEW mode, NEW want, NEW m, NEW f, NEW t, NEW i,
             PutGroup(mode, want) \/ DeleteGroup \/ SetUpi(m) \/ PostPayLink(f, t) \/ PaymentMoves(i)
      PROVE  claims' = claims
  BY <1>8 DEF PutGroup, DeleteGroup, SetUpi, PostPayLink, PaymentMoves
<1>9. CASE UNCHANGED vars
  BY <1>9, FewerClaims DEF vars
<1> QED
  BY <1>1, <1>2, <1>3, <1>4, <1>5, <1>6, <1>7, <1>8, <1>9, FewerClaims DEF Next

\* One claim waits or was declined for a debt at a time, from whichever of the
\* app, the group's page and a pay link it came (repo.replaceUpiClaim).
THEOREM OneClaimEach == Spec => []OneClaimPerDebt
<1>1. Init => OneClaimPerDebt
  BY DEF Init, OneClaimPerDebt
<1> QED
  BY <1>1, InitTyped, NextTyped, OneClaimStep, PTL DEF Spec

-----------------------------------------------------------------------------
(* The parts of an expense.                                                *)

LEMMA PartsStep == TypeInv /\ PartsAddUp /\ [Next]_vars => PartsAddUp'
<1> SUFFICES ASSUME TypeInv, PartsAddUp, [Next]_vars PROVE PartsAddUp'
  OBVIOUS
<1> DEFINE Whole == {e \in Expense : SumTo(e.part, HowMany) = e.amount}
<1>0. expense \in Seq(Whole)
  <2>1. expense \in Seq(Expense) /\ \A e \in DOMAIN expense : expense[e] \in Whole
    BY DEF TypeInv, TypeOK, PartsAddUp
  <2> HIDE DEF Whole
  <2> QED
    BY <2>1
<1>1. ASSUME expense' \in Seq(Whole) PROVE PartsAddUp'
  BY <1>1 DEF PartsAddUp
<1>2. ASSUME NEW input \in Inputs, Splittable(input) PROVE Resolved(input) \in Whole
  BY <1>2, ResolvedTyped
<1> HIDE DEF Whole
<1>3. ASSUME NEW input \in Inputs, PostExpense(input) PROVE PartsAddUp'
  BY <1>0, <1>1, <1>2, <1>3 DEF PostExpense
<1>4. ASSUME NEW input \in Inputs, NEW e \in DOMAIN expense, PutExpense(e, input) PROVE PartsAddUp'
  BY <1>0, <1>1, <1>2, <1>4 DEF PutExpense
<1>5. ASSUME NEW e \in DOMAIN expense, DeleteExpense(e) PROVE PartsAddUp'
  BY <1>0, <1>1, <1>5, RemovedTyped DEF DeleteExpense
<1>6. CASE expense' = expense
  BY <1>0, <1>1, <1>6
<1>7. ASSUME NEW f, NEW t, NEW amount, NEW mode, NEW want,
             \/ PostSettlement(f, t, amount, mode) \/ PostManual(f, t, amount, mode)
             \/ PostUpiClaim(f, t, amount, mode) \/ PostUpiPayment(f, t, amount, mode)
             \/ PostPayLink(f, t) \/ SayPaidOnPage(f, t)
             \/ PutGroup(mode, want) \/ DeleteGroup
      PROVE  expense' = expense
  BY <1>7 DEF PostSettlement, PostManual, PostUpiClaim, PostUpiPayment, PostPayLink, SayPaidOnPage,
              PutGroup, DeleteGroup
<1>8. ASSUME NEW c, NEW m, NEW l, NEW chosen, NEW i,
             \/ ConfirmClaim(c) \/ DeclineClaim(c) \/ WithdrawClaim(c)
             \/ SetUpi(m) \/ SayPaidOnLink(l) \/ OpenPayLink(l, chosen) \/ PaymentMoves(i)
      PROVE  expense' = expense
  BY <1>8 DEF ConfirmClaim, DeclineClaim, WithdrawClaim, SetUpi, SayPaidOnLink, OpenPayLink,
              PaymentMoves
<1>9. CASE UNCHANGED vars
  BY <1>6, <1>9 DEF vars
<1> QED
  BY <1>3, <1>4, <1>5, <1>6, <1>7, <1>8, <1>9 DEF Next

\* The parts of every expense add up to it, however it was split and whatever
\* rounding left over (core/ledger.ts resolveParts).
THEOREM PartsAlwaysAddUp == Spec => []PartsAddUp
<1>1. Init => PartsAddUp
  BY DEF Init, PartsAddUp
<1> QED
  BY <1>1, InitTyped, NextTyped, PartsStep, PTL DEF Spec

-----------------------------------------------------------------------------
(* Who owes whom is rearranged.                                            *)

\* The request may have read the group long ago, but it only changes what is
\* stored when what it read is what is stored still.
LEMMA RearrangedStep ==
    ASSUME TypeInv, [Next]_vars, simplify' # simplify
    PROVE  /\ \A i \in DOMAIN row : row[i].status # "open"
           /\ \A c \in claims : c.status = "pending" => c.amount > Owed(simplify, c.from, c.to)
<1>1. ASSUME NEW f, NEW t, NEW amount, NEW mode,
             \/ PostSettlement(f, t, amount, mode) \/ PostManual(f, t, amount, mode)
             \/ PostUpiClaim(f, t, amount, mode) \/ PostUpiPayment(f, t, amount, mode)
             \/ PostPayLink(f, t) \/ SayPaidOnPage(f, t) \/ DeleteGroup
      PROVE  simplify' = simplify
  BY <1>1 DEF PostSettlement, PostManual, PostUpiClaim, PostUpiPayment, PostPayLink, SayPaidOnPage,
              DeleteGroup
<1>2. ASSUME NEW c, NEW m, NEW l, NEW chosen, NEW i,
             \/ ConfirmClaim(c) \/ DeclineClaim(c) \/ WithdrawClaim(c)
             \/ SetUpi(m) \/ SayPaidOnLink(l) \/ OpenPayLink(l, chosen) \/ PaymentMoves(i)
      PROVE  simplify' = simplify
  BY <1>2 DEF ConfirmClaim, DeclineClaim, WithdrawClaim, SetUpi, SayPaidOnLink, OpenPayLink,
              PaymentMoves
<1>3. ASSUME NEW input, NEW e, PostExpense(input) \/ PutExpense(e, input) \/ DeleteExpense(e)
      PROVE  simplify' = simplify
  BY <1>3 DEF PostExpense, PutExpense, DeleteExpense
<1>4. \E mode \in BOOLEAN, want \in BOOLEAN : PutGroup(mode, want)
  BY <1>1, <1>2, <1>3 DEF Next, vars
<1>5. PICK mode \in BOOLEAN, want \in BOOLEAN : PutGroup(mode, want)
  BY <1>4
<1>6. mode = simplify
  BY <1>5 DEF PutGroup, TypeInv, TypeOK
<1>7. CheckDebtsCanChange(simplify)
  BY <1>5, <1>6 DEF PutGroup
<1>8. ASSUME NEW c \in claims, c.status = "pending" PROVE c.amount > Owed(simplify, c.from, c.to)
  <2>1. c.amount \in Nat /\ Owed(simplify, c.from, c.to) \in Nat
    BY OwedTyped DEF TypeInv, TypeOK, Claim
  <2>2. ~(Owed(simplify, c.from, c.to) >= c.amount)
    BY <1>7, <1>8 DEF CheckDebtsCanChange, LiveClaims, HasRoom
  <2> QED
    BY <2>1, <2>2
<1> QED
  BY <1>7, <1>8 DEF CheckDebtsCanChange, InProgress

\* No payment under way and no claim that can be answered is left about a debt
\* that has gone elsewhere (groupRules.ts checkDebtsCanChange).
THEOREM RearrangedWhenQuiet == Spec => RearrangedOnlyWhenQuiet
<1>1. TypeInv /\ [Next]_vars
        => [simplify' # simplify =>
             /\ \A i \in DOMAIN row : row[i].status # "open"
             /\ \A c \in claims : c.status = "pending" => c.amount > Owed(simplify, c.from, c.to)]_vars
  BY RearrangedStep
<1> QED
  BY <1>1, InitTyped, NextTyped, PTL DEF Spec, RearrangedOnlyWhenQuiet

-----------------------------------------------------------------------------
(* A pay link that shows its debt settled.                                 *)

LEMMA MaxIsLast ==
    ASSUME NEW n \in Nat, NEW S, S \subseteq 1..n, S # {}
    PROVE  Max(S) \in S /\ \A x \in S : x <= Max(S)
<1> DEFINE T == {k \in Nat : n - k \in S}
<1>1. T # {} /\ T \subseteq Nat
  <2>1. PICK x \in S : x \in 1..n
    OBVIOUS
  <2>2. n - x \in Nat /\ n - (n - x) = x
    BY <2>1
  <2> QED
    BY <2>2
<1>2. PICK k \in T : \A j \in T : k <= j
  <2> HIDE DEF T
  <2> QED
    BY <1>1, LeastOf
<1>3. ASSUME NEW x \in S PROVE n - k >= x
  <2>1. n - x \in T
    <3>1. x \in 1..n
      OBVIOUS
    <3> QED
      BY <3>1
  <2> QED
    BY <1>2, <2>1
<1>4. n - k \in S /\ \A x \in S : n - k >= x
  BY <1>2, <1>3
<1>5. Max(S) \in S /\ \A x \in S : Max(S) >= x
  BY <1>4 DEF Max
<1> QED
  BY <1>5

\* Rows are only added, and a counted one doesn't change; no invoice is made
\* for a link that shows its debt settled.
Adds(r) ==
    /\ row' = Append(row, r)
    /\ r.status \in {"open"} \cup LedgerStatuses
    /\ r.status = "open" => r.link = NoLink \/ (~LatestPaid(r.link) /\ ~SettledOutsideLink(r.link))

Changes(i) ==
    /\ ~Counts(row[i])
    /\ \E st \in {"closed", "confirmed"} : row' = [row EXCEPT ![i].status = st]

LEMMA RowMoves ==
    ASSUME TypeInv, [Next]_vars
    PROVE  \/ row' = row
           \/ \E r \in Row : Adds(r)
           \/ \E i \in DOMAIN row : Changes(i)
<1>0. NoLink \in Nat
  BY DEF NoLink
<1>1. ASSUME NEW f \in Members, NEW t \in Members, NEW amount \in Nat \ {0}, NEW link \in Nat,
             NEW status \in {"open", "manually_confirmed"},
             InsertSettlement(f, t, amount, status, link),
             \/ status = "manually_confirmed"
             \/ link = NoLink
             \/ ~LatestPaid(link) /\ ~SettledOutsideLink(link)
      PROVE  \E r \in Row : Adds(r)
  <2> DEFINE r == NewRow(f, t, amount, status, link)
  <2>1. r.status = status /\ r.link = link
    BY DEF NewRow
  <2>2. r \in Row
    <3>1. Len(payLinks) \in Nat
      BY DEF TypeInv, TypeOK
    <3> QED
      BY <3>1 DEF NewRow, Row, LedgerStatuses
  <2>3. row' = Append(row, r)
    BY <1>1 DEF InsertSettlement
  <2> HIDE DEF r
  <2>4. Adds(r)
    BY <1>1, <2>1, <2>3 DEF Adds, LedgerStatuses
  <2> QED
    BY <2>2, <2>4
<1>2. ASSUME NEW p \in Pairs, NEW mode \in BOOLEAN,
             NEW amount \in (Parts \cup {debts[mode][p]}) \ {0},
             \/ PostSettlement(p[1], p[2], amount, mode) \/ PostManual(p[1], p[2], amount, mode)
             \/ PostUpiPayment(p[1], p[2], amount, mode)
      PROVE  \E r \in Row : Adds(r)
  <2>1. p[1] \in Members /\ p[2] \in Members /\ amount \in Nat \ {0}
    BY AmountTyped
  <2>2. \/ InsertSettlement(p[1], p[2], amount, "open", NoLink)
        \/ InsertSettlement(p[1], p[2], amount, "manually_confirmed", NoLink)
    BY <1>2 DEF PostSettlement, PostManual, PostUpiPayment
  <2> QED
    BY <1>0, <1>1, <2>1, <2>2
<1>3. ASSUME NEW c \in claims, ConfirmClaim(c) PROVE \E r \in Row : Adds(r)
  <2>1. c.from \in Members /\ c.to \in Members /\ c.amount \in Nat \ {0} /\ c.link \in Nat
    BY DEF TypeInv, TypeOK, Claim
  <2> QED
    BY <1>1, <1>3, <2>1 DEF ConfirmClaim
<1>4. ASSUME NEW l \in DOMAIN payLinks, NEW chosen, OpenPayLink(l, chosen)
      PROVE  \E r \in Row : Adds(r)
  BY <1>1, <1>4, LinkTyped DEF OpenPayLink
<1>5. ASSUME NEW i \in DOMAIN row, PaymentMoves(i) PROVE Changes(i)
  BY <1>5 DEF PaymentMoves, Changes, Counts, LedgerStatuses
<1>6. ASSUME NEW f, NEW t, NEW amount, NEW mode, NEW want,
             \/ PostUpiClaim(f, t, amount, mode) \/ PostPayLink(f, t) \/ SayPaidOnPage(f, t)
             \/ PutGroup(mode, want) \/ DeleteGroup
      PROVE  row' = row
  BY <1>6 DEF PostUpiClaim, PostPayLink, SayPaidOnPage, PutGroup, DeleteGroup
<1>7. ASSUME NEW c, NEW m, NEW l, DeclineClaim(c) \/ WithdrawClaim(c) \/ SetUpi(m) \/ SayPaidOnLink(l)
      PROVE  row' = row
  BY <1>7 DEF DeclineClaim, WithdrawClaim, SetUpi, SayPaidOnLink
<1>8. ASSUME NEW input, NEW e, PostExpense(input) \/ PutExpense(e, input) \/ DeleteExpense(e)
      PROVE  row' = row
  BY <1>8 DEF PostExpense, PutExpense, DeleteExpense
<1>9. CASE UNCHANGED vars
  BY <1>9 DEF vars
<1> QED
  BY <1>2, <1>3, <1>4, <1>5, <1>6, <1>7, <1>8, <1>9 DEF Next

\* Links are only added.
LEMMA LinksStay ==
    ASSUME TypeInv, [Next]_vars, NEW l \in DOMAIN payLinks
    PROVE  payLinks'[l] = payLinks[l]
<1>1. ASSUME NEW f, NEW t, NEW amount, NEW mode, NEW want,
             \/ PostSettlement(f, t, amount, mode) \/ PostManual(f, t, amount, mode)
             \/ PostUpiClaim(f, t, amount, mode) \/ PostUpiPayment(f, t, amount, mode)
             \/ SayPaidOnPage(f, t) \/ PutGroup(mode, want) \/ DeleteGroup
      PROVE  payLinks' = payLinks
  BY <1>1 DEF PostSettlement, PostManual, PostUpiClaim, PostUpiPayment, SayPaidOnPage, PutGroup,
              DeleteGroup
<1>2. ASSUME NEW c, NEW m, NEW k, NEW chosen, NEW i,
             \/ ConfirmClaim(c) \/ DeclineClaim(c) \/ WithdrawClaim(c)
             \/ SetUpi(m) \/ SayPaidOnLink(k) \/ OpenPayLink(k, chosen) \/ PaymentMoves(i)
      PROVE  payLinks' = payLinks
  BY <1>2 DEF ConfirmClaim, DeclineClaim, WithdrawClaim, SetUpi, SayPaidOnLink, OpenPayLink,
              PaymentMoves
<1>3. ASSUME NEW input, NEW e, PostExpense(input) \/ PutExpense(e, input) \/ DeleteExpense(e)
      PROVE  payLinks' = payLinks
  BY <1>3 DEF PostExpense, PutExpense, DeleteExpense
<1>4. ASSUME NEW f, NEW t, PostPayLink(f, t) PROVE payLinks'[l] = payLinks[l]
  <2>1. PICK x : payLinks' = Append(payLinks, x)
    BY <1>4 DEF PostPayLink
  <2>2. payLinks \in Seq(PayLink)
    BY DEF TypeInv, TypeOK
  <2> QED
    BY <2>1, <2>2
<1>5. CASE UNCHANGED vars
  BY <1>5 DEF vars
<1> QED
  BY <1>1, <1>2, <1>3, <1>4, <1>5 DEF Next

LEMMA LinkStaysStep ==
    ASSUME TypeInv, [Next]_vars, NEW l \in DOMAIN payLinks, ShownSettled(l)
    PROVE  /\ ShownSettled(l)'
           /\ ~\E i \in DOMAIN row' : i \notin DOMAIN row /\ row'[i].link = l /\ row'[i].status = "open"
<1> DEFINE n == Len(row)
           Own == OwnRows(l)
           last == Max(Own)
<1>0. /\ row \in Seq(Row) /\ n \in Nat /\ DOMAIN row = 1..n /\ l # NoLink
      /\ payLinks'[l] = payLinks[l]
  BY LinkTyped, LinksStay DEF TypeInv, TypeOK, NoLink
<1>1. LatestPaid(l) => last \in Own /\ \A i \in Own : i <= last
  <2>1. LatestPaid(l) => Own # {} /\ Own \subseteq 1..n
    BY <1>0 DEF LatestPaid, OwnRows
  <2> HIDE DEF Own
  <2> QED
    BY <1>0, <2>1, MaxIsLast
\* Rows that settle it stay, and whatever stays the last for the link is last.
<1>2. ASSUME \A i \in DOMAIN row : Counts(row[i]) => i \in DOMAIN row' /\ row'[i] = row[i],
             SettledOutsideLink(l)
      PROVE  ShownSettled(l)'
  BY <1>0, <1>2 DEF SettledOutsideLink, ShownSettled, Counts
<1>3. ASSUME Own' = Own, LatestPaid(l), row'[last] = row[last]
      PROVE  ShownSettled(l)'
  BY <1>3 DEF LatestPaid, ShownSettled
<1>4. CASE row' = row
  <2>1. Own' = Own
    BY <1>4 DEF OwnRows
  <2> QED
    BY <1>2, <1>3, <1>4, <2>1 DEF ShownSettled
<1>5. ASSUME NEW r \in Row, Adds(r)
      PROVE  /\ ShownSettled(l)'
             /\ ~\E i \in DOMAIN row' : i \notin DOMAIN row /\ row'[i].link = l /\ row'[i].status = "open"
  <2>1. /\ DOMAIN row' = 1..(n + 1) /\ \A i \in 1..n : row'[i] = row[i] /\ row'[n + 1] = r
        /\ row'[n + 1] = r
    BY <1>0, <1>5 DEF Adds
  <2>2. r.link = l => Counts(r)
    BY <1>0, <1>5 DEF Adds, ShownSettled, Counts
  <2>3. CASE r.link = l
    <3>1. Own' = Own \cup {n + 1} /\ Own \subseteq 1..n
      BY <1>0, <2>1, <2>3 DEF OwnRows
    <3>2. Max(Own') = n + 1
      <4>1. Own' \subseteq 1..(n + 1) /\ Own' # {} /\ n + 1 \in Own'
        BY <1>0, <3>1
      <4>2. Max(Own') \in Own' /\ \A x \in Own' : x <= Max(Own')
        BY <1>0, <4>1, MaxIsLast
      <4> QED
        BY <1>0, <4>1, <4>2
    <3>3. LatestPaid(l)'
      BY <2>1, <2>2, <2>3, <3>1, <3>2 DEF LatestPaid, Counts
    <3> QED
      BY <1>0, <2>1, <2>2, <2>3, <3>3 DEF ShownSettled, Counts, LedgerStatuses
  <2>4. CASE r.link # l
    <3>1. Own' = Own
      BY <1>0, <2>1, <2>4 DEF OwnRows
    <3>2. LatestPaid(l) => last \in 1..n
      BY <1>0, <1>1 DEF OwnRows
    <3>3. ShownSettled(l)'
      BY <1>0, <1>2, <1>3, <2>1, <3>1, <3>2 DEF ShownSettled
    <3> QED
      BY <1>0, <2>1, <2>4, <3>3
  <2> QED
    BY <2>3, <2>4
<1>6. ASSUME NEW i \in DOMAIN row, Changes(i)
      PROVE  ShownSettled(l)' /\ DOMAIN row' = DOMAIN row
  <2>1. PICK st : row' = [row EXCEPT ![i].status = st]
    BY <1>6 DEF Changes
  <2>2. /\ DOMAIN row' = DOMAIN row /\ \A j \in DOMAIN row : row'[j].link = row[j].link
        /\ \A j \in DOMAIN row : j # i => row'[j] = row[j]
    <3>1. row[i] \in Row
      BY <1>0
    <3>2. row'[i] = [row[i] EXCEPT !.status = st]
      BY <1>0, <2>1
    <3>3. row'[i].link = row[i].link
      BY <3>1, <3>2 DEF Row
    <3> QED
      BY <1>0, <2>1, <3>3
  <2>3. Own' = Own
    BY <2>2 DEF OwnRows
  <2>4. LatestPaid(l) => last \in DOMAIN row /\ Counts(row[last])
    BY <1>1 DEF LatestPaid, OwnRows, Counts
  <2>5. ~Counts(row[i])
    BY <1>6 DEF Changes
  <2> QED
    BY <1>2, <1>3, <2>2, <2>3, <2>4, <2>5 DEF ShownSettled
<1> QED
  BY <1>4, <1>5, <1>6, RowMoves

\* A link that shows its debt settled shows it so for good, whatever is paid,
\* lapses or is owed later, and no invoice is made for it again (payLinks.ts).
THEOREM SettledStays == Spec => SettledLinkStays
<1>1. TypeInv /\ [Next]_vars
        => [\A l \in DOMAIN payLinks : ShownSettled(l) =>
              /\ ShownSettled(l)'
              /\ ~\E i \in DOMAIN row' :
                    i \notin DOMAIN row /\ row'[i].link = l /\ row'[i].status = "open"]_vars
  BY LinkStaysStep
<1> QED
  BY <1>1, InitTyped, NextTyped, PTL DEF Spec, SettledLinkStays

-----------------------------------------------------------------------------
(* What everybody is told they owe.                                        *)

\* Every request works the debts out anew: debts is what the tables make.
DebtsAreCurrent == \A mode \in BOOLEAN : debts[mode] = Table(GroupDebts(mode, expense, row))

\* The inductive invariant.
TrueInv == TypeInv /\ PartsAddUp /\ DebtsAreCurrent /\ GoneIsEven

LEMMA RowsOfMembers ==
    ASSUME TypeInv
    PROVE  /\ expense \in Seq(Expense) /\ row \in Seq(Row) /\ ArePayments(row)
           /\ \A s \in DOMAIN row : row[s].from \in Members /\ row[s].to \in Members
<1>1. expense \in Seq(Expense) /\ row \in Seq(Row)
  BY DEF TypeInv, TypeOK
<1>2. \A s \in DOMAIN row : row[s] \in Row
  BY <1>1
<1> QED
  BY <1>1, <1>2, RowsArePayments DEF Row

LEMMA Balanced ==
    ASSUME TrueInv
    PROVE  DebtsAreBalances
<1>1. /\ expense \in Seq(Expense) /\ ArePayments(row)
      /\ \A s \in DOMAIN row : row[s].from \in Members /\ row[s].to \in Members
  BY RowsOfMembers DEF TrueInv
<1>2. AllAddUp(expense)
  BY DEF TrueInv, PartsAddUp, AllAddUp, AddsUp
<1>3. ASSUME NEW mode \in BOOLEAN, NEW m \in Members
      PROVE  ComputeBalances(expense, row)[m]
               = SumTo([x \in Members |-> Owed(mode, x, m) - Owed(mode, m, x)], HowMany)
  <2>1. debts[mode] = Table(GroupDebts(mode, expense, row))
    BY DEF TrueInv, DebtsAreCurrent
  <2>2. [x \in Members |-> Owed(mode, x, m) - Owed(mode, m, x)]
          = [x \in Members |-> Table(GroupDebts(mode, expense, row))[<<x, m>>]
                               - Table(GroupDebts(mode, expense, row))[<<m, x>>]]
    BY <2>1 DEF Owed
  <2>3. ComputeBalances(expense, row)[m]
          = SumTo([x \in Members |-> Table(GroupDebts(mode, expense, row))[<<x, m>>]
                                     - Table(GroupDebts(mode, expense, row))[<<m, x>>]], HowMany)
    BY <1>1, <1>2, DebtsAreExact
  <2> QED
    BY <2>2, <2>3
<1> QED
  BY <1>3 DEF DebtsAreBalances

LEMMA Short ==
    ASSUME TrueInv
    PROVE  SimplifiedIsShort
<1> DEFINE net == ComputeBalances(expense, row)
<1>1. net \in [Members -> Int]
  BY RowsOfMembers, BalancesTyped DEF TrueInv
<1>2. debts[TRUE] = SimplifyDebts(net)
  <2>1. debts[TRUE] = Table(GroupDebts(TRUE, expense, row))
    BY DEF TrueInv, DebtsAreCurrent
  <2>2. Table(GroupDebts(TRUE, expense, row)) = GroupDebts(TRUE, expense, row) /\ Table(net) = net
    BY TableIsItself
  <2> QED
    BY <2>1, <2>2 DEF GroupDebts
<1> HIDE DEF net
<1>3. {p \in Pairs : debts[TRUE][p] > 0} = Paying(net)
  BY <1>2 DEF Paying
<1> QED
  BY <1>1, <1>3, FewPay, NobodyPaysAndIsPaid DEF SimplifiedIsShort

LEMMA NothingOwedToOneself ==
    ASSUME TrueInv, NEW mode \in BOOLEAN, NEW m \in Members
    PROVE  Owed(mode, m, m) = 0
<1> DEFINE net == ComputeBalances(expense, row)
<1>1. /\ expense \in Seq(Expense) /\ ArePayments(row) /\ net \in [Members -> Int]
  BY RowsOfMembers, BalancesTyped DEF TrueInv
<1>2. /\ debts[mode] = Table(GroupDebts(mode, expense, row)) /\ Table(net) = net
      /\ Table(GroupDebts(mode, expense, row)) = GroupDebts(mode, expense, row)
  BY TableIsItself DEF TrueInv, DebtsAreCurrent
<1>3. <<m, m>> \in Pairs
  BY DEF Pairs
<1>4. CASE ~mode
  <2>1. debts[mode][<<m, m>>] = AtLeastZero(Owes(expense, row, m, m) - Owes(expense, row, m, m))
    BY <1>2, <1>3, <1>4 DEF GroupDebts, DirectDebts
  <2>2. Owes(expense, row, m, m) = 0
    BY DEF Owes
  <2> QED
    BY <2>1, <2>2 DEF Owed, AtLeastZero
<1>5. CASE mode
  <2>1. debts[mode] = SimplifyDebts(net)
    BY <1>2, <1>5 DEF GroupDebts
  <2>2. SimplifyDebts(net) \in [Pairs -> Nat]
    BY <1>1, SimplifiedTyped
  <2> HIDE DEF net
  <2>3. ~(SimplifyDebts(net)[<<m, m>>] > 0)
    <3> SUFFICES ASSUME SimplifyDebts(net)[<<m, m>>] > 0 PROVE FALSE
      OBVIOUS
    <3>1. <<m, m>> \in Paying(net) /\ <<m, m>>[2] = <<m, m>>[1]
      BY <1>3 DEF Paying
    <3> QED
      BY <1>1, <3>1, NobodyPaysAndIsPaid
  <2> QED
    BY <1>3, <2>1, <2>2, <2>3 DEF Owed
<1> QED
  BY <1>4, <1>5

LEMMA Offered ==
    ASSUME TrueInv
    PROVE  OfferedIsTaken
<1> SUFFICES ASSUME NEW p \in Pairs, p[1] \in Joined, debts[simplify][p] > 0, ~InProgressFor(p[1], p[2]),
                    NEW r \in RailsOffered(PayeeOf(p[2]), TRUE, Rupees, FALSE, {"lightning", "upi"})
             PROVE  \/ r = "invoice" /\ MayStart(p[1], p[2], debts[simplify][p], simplify)
                    \/ r = "upi" /\ MaySayPaid(p[1], p[2], debts[simplify][p], simplify)
                    \/ r = "manual" /\ MayMark(p[1], p[2], debts[simplify][p], simplify) /\ p[2] \notin Joined
  BY DEF OfferedIsTaken
<1> DEFINE f == p[1]
           t == p[2]
           owed == debts[simplify][p]
<1>1. f \in Members /\ t \in Members /\ p = <<f, t>> /\ simplify \in BOOLEAN
  BY DEF Pairs, TrueInv, TypeInv, TypeOK
<1>2. Owed(simplify, f, t) = owed /\ owed \in Nat
  BY <1>1, OwedTyped DEF Owed, TrueInv
<1>3. f # t
  <2> SUFFICES ASSUME f = t PROVE FALSE
    OBVIOUS
  <2>1. Owed(simplify, f, f) = 0
    BY <1>1, NothingOwedToOneself
  <2> QED
    BY <1>2, <2>1
<1>4. CheckSettlement(f, t, owed, simplify) /\ CheckPayer(f) /\ CheckManualRecorder(f, t)
  BY <1>2, <1>3 DEF CheckSettlement, CheckPayer, CheckManualRecorder
<1>5. \/ r = "invoice" /\ t \in Receivable
      \/ r = "upi" /\ TakesUpi(t)
      \/ r = "manual" /\ t \notin Joined
  <2> DEFINE ways == {"lightning", "upi"}
             payee == PayeeOf(t)
  <2>1. /\ payee.claimed <=> t \in Joined
        /\ payee.receivable <=> t \in Receivable
        /\ payee.upi <=> TakesUpi(t)
    BY DEF PayeeOf
  <2>2. "lightning" \in ways /\ "upi" \in ways
    OBVIOUS
  <2> HIDE DEF payee, ways
  <2> DEFINE lightning == "lightning" \in ways
             offers == [
                in_app            |-> lightning /\ ~TRUE /\ FALSE /\ payee.claimed /\ ~payee.linked,
                invoice           |-> lightning /\ (IF TRUE THEN CanReceive(payee, TRUE) ELSE payee.claimed),
                lightning_address |-> lightning /\ ~TRUE /\ FALSE /\ ~payee.claimed /\ payee.address,
                upi               |-> "upi" \in ways /\ Rupees /\ payee.upi /\ payee.claimed,
                manual            |-> ~payee.claimed]
  <2>3. r \in DOMAIN offers /\ offers[r]
    BY DEF RailsOffered, payee, ways
  <2>4. r \in {"in_app", "invoice", "lightning_address", "upi", "manual"}
    BY <2>3
  <2>5. ~offers["in_app"] /\ ~offers["lightning_address"]
    OBVIOUS
  <2>6. offers["invoice"] => CanReceive(payee, TRUE)
    OBVIOUS
  <2>7. offers["upi"] => payee.upi
    OBVIOUS
  <2>8. offers["manual"] => ~payee.claimed
    OBVIOUS
  <2>9. CanReceive(payee, TRUE) => payee.receivable
    BY DEF CanReceive
  <2> HIDE DEF offers
  <2> QED
    BY <2>1, <2>3, <2>4, <2>5, <2>6, <2>7, <2>8, <2>9
<1> QED
  BY <1>4, <1>5 DEF MayStart, MaySayPaid, MayMark

LEMMA NothingMovedNothingMore ==
    ASSUME TypeInv, TypeInv', [Next]_vars, NothingMoved
    PROVE  NothingMore(row, row')
<1>1. /\ row \in Seq(Row) /\ Len(row) \in Nat /\ DOMAIN row = 1..Len(row)
  BY DEF TypeInv, TypeOK
<1>0. \A n \in Nat : n # n + 1
  OBVIOUS
<1>2. CASE row' = row
  <2>1. Len(row') = Len(row)
    BY <1>2
  <2>2. Len(row') \in {Len(row), Len(row) + 1}
    BY <2>1
  <2>3. Len(row') # Len(row) + 1
    BY <1>0, <1>1, <2>1, Zenon
  <2>4. \A s \in 1..Len(row) : /\ row'[s].from = row[s].from /\ row'[s].to = row[s].to
                                /\ Moved(row'[s]) = Moved(row[s])
    BY <1>2
  <2> QED
    BY <2>2, <2>3, <2>4 DEF NothingMore
<1>3. ASSUME NEW r \in Row, Adds(r) PROVE NothingMore(row, row')
  <2>1. row' = Append(row, r)
    BY <1>3 DEF Adds
  <2>2. /\ Len(row') = Len(row) + 1 /\ row'[Len(row) + 1] = r
        /\ DOMAIN row' = 1..Len(row) + 1
        /\ \A s \in 1..Len(row) : row'[s] = row[s]
    BY <1>1, <2>1
  <2>3. ~Counts(row'[Len(row) + 1])
    BY <1>1, <2>2 DEF NothingMoved
  <2> QED
    BY <2>2, <2>3 DEF NothingMore, Moved
<1>4. ASSUME NEW i \in DOMAIN row, Changes(i) PROVE NothingMore(row, row')
  <2> PICK st : row' = [row EXCEPT ![i].status = st]
    BY <1>4 DEF Changes
  <2>1. Len(row') = Len(row) /\ DOMAIN row' = DOMAIN row
    BY <1>1
  <2>2. \A s \in 1..Len(row) : row[s] \in Row
    BY <1>1
  <2>3. ASSUME NEW s \in 1..Len(row)
        PROVE  /\ row'[s].from = row[s].from /\ row'[s].to = row[s].to
               /\ Moved(row'[s]) = Moved(row[s])
    <3>1. CASE s = i
      <4>1. row'[s].from = row[s].from /\ row'[s].to = row[s].to
        BY <1>1, <2>2, <3>1 DEF Row
      <4>2. ~Counts(row[s]) /\ ~Counts(row'[s])
        BY <1>1, <1>4, <2>1, <3>1 DEF Changes, NothingMoved
      <4> QED
        BY <4>1, <4>2 DEF Moved
    <3>2. CASE s # i
      <4>1. row'[s] = row[s]
        BY <1>1, <3>2
      <4> QED
        BY <4>1
    <3> QED
      BY <3>1, <3>2
  <2>4. Len(row') \in {Len(row), Len(row) + 1}
    BY <2>1
  <2>5. Len(row') # Len(row) + 1
    BY <1>0, <1>1, <2>1, Zenon
  <2> QED
    BY <2>3, <2>4, <2>5 DEF NothingMore
<1> QED
  BY <1>2, <1>3, <1>4, RowMoves

LEMMA CurrentAfter ==
    ASSUME TypeInv, TypeInv', [Next]_vars, DebtsAreCurrent,
           Recount \/ (debts' = debts /\ expense' = expense /\ row' = row)
    PROVE  DebtsAreCurrent'
<1>1. ArePayments(row) /\ expense \in Seq(Expense) /\ ArePayments(row')
  <2>1. row' \in Seq(Row)
    BY DEF TypeInv, TypeOK
  <2> QED
    BY <2>1, RowsOfMembers, RowsArePayments
<1>2. CASE Recount /\ NothingMoved
  <2>1. debts' = debts /\ expense' = expense
    BY <1>2 DEF Recount, NothingMoved
  <2>2. NothingMore(row, row')
    BY <1>2, NothingMovedNothingMore
  <2>3. \A mode \in BOOLEAN : Table(GroupDebts(mode, expense, row')) = Table(GroupDebts(mode, expense, row))
    BY <1>1, <2>2, SameDebts
  <2> QED
    BY <2>1, <2>3 DEF DebtsAreCurrent
<1>3. CASE Recount /\ ~NothingMoved
  BY <1>3 DEF Recount, DebtsOf, DebtsAreCurrent
<1>4. CASE debts' = debts /\ expense' = expense /\ row' = row
  BY <1>4 DEF DebtsAreCurrent
<1> QED
  BY <1>2, <1>3, <1>4

LEMMA CurrentStep ==
    ASSUME TypeInv, TypeInv', [Next]_vars, DebtsAreCurrent
    PROVE  DebtsAreCurrent'
<1>1. Recount \/ (debts' = debts /\ expense' = expense /\ row' = row)
  <2>1. ASSUME NEW f, NEW t, NEW amount, NEW mode, NEW want,
               \/ PostSettlement(f, t, amount, mode) \/ PostManual(f, t, amount, mode)
               \/ PostUpiClaim(f, t, amount, mode) \/ PostUpiPayment(f, t, amount, mode)
               \/ PostPayLink(f, t) \/ SayPaidOnPage(f, t)
               \/ PutGroup(mode, want) \/ DeleteGroup
        PROVE  Recount \/ (debts' = debts /\ expense' = expense /\ row' = row)
    BY <2>1 DEF PostSettlement, PostManual, PostUpiClaim, PostUpiPayment, PostPayLink, SayPaidOnPage,
                PutGroup, DeleteGroup
  <2>2. ASSUME NEW c, NEW m, NEW l, NEW chosen, NEW i,
               \/ ConfirmClaim(c) \/ DeclineClaim(c) \/ WithdrawClaim(c)
               \/ SetUpi(m) \/ SayPaidOnLink(l) \/ OpenPayLink(l, chosen) \/ PaymentMoves(i)
        PROVE  Recount \/ (debts' = debts /\ expense' = expense /\ row' = row)
    BY <2>2 DEF ConfirmClaim, DeclineClaim, WithdrawClaim, SetUpi, SayPaidOnLink, OpenPayLink,
                PaymentMoves
  <2>3. ASSUME NEW input, NEW e, PostExpense(input) \/ PutExpense(e, input) \/ DeleteExpense(e)
        PROVE  Recount
    BY <2>3 DEF PostExpense, PutExpense, DeleteExpense
  <2>4. CASE UNCHANGED vars
    BY <2>4 DEF vars
  <2> QED
    BY <2>1, <2>2, <2>3, <2>4 DEF Next
<1> QED
  BY <1>1, CurrentAfter

\* The last that happens in a group is its deletion.
LEMMA GoneStep ==
    ASSUME TrueInv, [Next]_vars
    PROVE  GoneIsEven'
<1>1. CASE UNCHANGED vars
  BY <1>1 DEF vars, TrueInv, GoneIsEven, InProgress
<1>2. CASE DeleteGroup
  <2>1. expense' = expense /\ row' = row /\ CheckGroupCanGo
    BY <1>2 DEF DeleteGroup
  <2>2. ASSUME NEW m \in Members PROVE ComputeBalances(expense, row)[m] = 0
    <3> DEFINE f == [x \in Members |-> Owed(simplify, x, m) - Owed(simplify, m, x)]
    <3>1. HowMany \in Nat /\ Members = 1..HowMany /\ simplify \in BOOLEAN
      BY HowManyAssumption DEF Members, TrueInv, TypeInv, TypeOK
    <3>2. \A x \in 1..HowMany : f[x] = 0
      <4> TAKE x \in 1..HowMany
      <4>1. <<x, m>> \in Pairs /\ <<m, x>> \in Pairs
        BY <3>1 DEF Pairs
      <4>2. debts[simplify][<<x, m>>] = 0 /\ debts[simplify][<<m, x>>] = 0
        BY <2>1, <4>1 DEF CheckGroupCanGo
      <4> QED
        BY <3>1, <4>2 DEF Owed
    <3>3. ComputeBalances(expense, row)[m] = SumTo(f, HowMany)
      BY <3>1, Balanced DEF DebtsAreBalances
    <3> HIDE DEF f
    <3>4. SumTo(f, HowMany) = HowMany * 0
      BY <3>1, <3>2, SumOfSame
    <3> QED
      BY <3>1, <3>3, <3>4
  <2>3. \A i \in DOMAIN row : ~InProgress(i)
    BY <2>1 DEF CheckGroupCanGo
  <2> QED
    BY <2>1, <2>2, <2>3 DEF GoneIsEven, InProgress
<1>3. CASE ~gone /\ ~gone'
  BY <1>3 DEF GoneIsEven
<1>4. Next => ~gone
  BY DEF Next
<1>5. ASSUME NEW f, NEW t, NEW amount, NEW mode, NEW want,
             \/ PostSettlement(f, t, amount, mode) \/ PostManual(f, t, amount, mode)
             \/ PostUpiClaim(f, t, amount, mode) \/ PostUpiPayment(f, t, amount, mode)
             \/ PostPayLink(f, t) \/ SayPaidOnPage(f, t) \/ PutGroup(mode, want)
      PROVE  gone' = gone
  BY <1>5 DEF PostSettlement, PostManual, PostUpiClaim, PostUpiPayment, PostPayLink, SayPaidOnPage,
              PutGroup
<1>6. ASSUME NEW c, NEW m, NEW l, NEW chosen, NEW i,
             \/ ConfirmClaim(c) \/ DeclineClaim(c) \/ WithdrawClaim(c)
             \/ SetUpi(m) \/ SayPaidOnLink(l) \/ OpenPayLink(l, chosen) \/ PaymentMoves(i)
      PROVE  gone' = gone
  BY <1>6 DEF ConfirmClaim, DeclineClaim, WithdrawClaim, SetUpi, SayPaidOnLink, OpenPayLink,
              PaymentMoves
<1>7. ASSUME NEW input, NEW e, PostExpense(input) \/ PutExpense(e, input) \/ DeleteExpense(e)
      PROVE  gone' = gone
  BY <1>7 DEF PostExpense, PutExpense, DeleteExpense
<1> QED
  BY <1>1, <1>2, <1>3, <1>4, <1>5, <1>6, <1>7 DEF Next

LEMMA InitTrue == Init => TrueInv
<1> SUFFICES ASSUME Init PROVE TrueInv
  OBVIOUS
<1>1. TypeInv
  BY InitTyped
<1>2. expense = <<>> /\ row = <<>> /\ gone = FALSE /\ debts = [mode \in BOOLEAN |-> [p \in Pairs |-> 0]]
  BY DEF Init
<1>3. PartsAddUp /\ GoneIsEven
  BY <1>2 DEF PartsAddUp, GoneIsEven
<1>4. \A x, m \in Members : Owes(<<>>, <<>>, x, m) = 0
  <2> TAKE x, m \in Members
  <2>1. \A f : f = <<>> => Total(f) = 0
    BY SumUnfolds DEF Total
  <2>2. Owes(<<>>, <<>>, x, m) = IF x = m THEN 0 ELSE Total(<<>>) + Total(<<>>)
    BY DEF Owes
  <2> QED
    BY <2>1, <2>2
<1>5. ASSUME NEW m \in Members PROVE ComputeBalances(<<>>, <<>>)[m] = 0
  <2>1. \A f : f = <<>> => Total(f) = 0
    BY SumUnfolds DEF Total
  <2>2. ComputeBalances(<<>>, <<>>)[m] = Total(<<>>) + Total(<<>>)
    BY DEF ComputeBalances
  <2> QED
    BY <2>1, <2>2
<1>6. DirectDebts(<<>>, <<>>) = [p \in Pairs |-> 0]
  <2>1. \A p \in Pairs : p[1] \in Members /\ p[2] \in Members
    BY DEF Pairs
  <2> QED
    BY <1>4, <2>1 DEF DirectDebts, AtLeastZero
<1>7. SimplifyDebts(ComputeBalances(<<>>, <<>>)) = [p \in Pairs |-> 0]
  <2> DEFINE net == ComputeBalances(<<>>, <<>>)
  <2>1. net \in [Members -> Int]
    BY <1>1, <1>2, RowsOfMembers, BalancesTyped
  <2>2. \A m \in Members : net[m] = 0
    BY <1>5
  <2> HIDE DEF net
  <2>3. SimplifyDebts(net) \in [Pairs -> Nat]
    BY <2>1, SimplifiedTyped
  <2>4. ASSUME NEW p \in Pairs PROVE SimplifyDebts(net)[p] = 0
    <3>1. p[1] \in Members /\ p[2] \in Members /\ p = <<p[1], p[2]>>
      BY DEF Pairs
    <3>2. PICK owes, due : Sides(net, owes, due)
      BY <2>1, SidesOf
    <3>3. ~(SimplifyDebts(net)[<<p[1], p[2]>>] > 0)
      BY <2>1, <2>2, <3>1, <3>2, PaysWhereTheyMeet
    <3> QED
      BY <2>3, <3>1, <3>3
  <2> QED
    BY <2>3, <2>4 DEF net
<1>8. DebtsAreCurrent
  <2>1. \A f : Table(f) = f
    BY TableIsItself
  <2> QED
    BY <1>2, <1>6, <1>7, <2>1 DEF DebtsAreCurrent, GroupDebts
<1> QED
  BY <1>1, <1>3, <1>8 DEF TrueInv

LEMMA TrueStep == TrueInv /\ [Next]_vars => TrueInv'
<1> SUFFICES ASSUME TrueInv, [Next]_vars PROVE TrueInv'
  OBVIOUS
<1>1. TypeInv'
  BY NextTyped DEF TrueInv
<1>2. PartsAddUp'
  BY PartsStep DEF TrueInv
<1>3. DebtsAreCurrent'
  BY <1>1, CurrentStep DEF TrueInv
<1>4. GoneIsEven'
  BY GoneStep
<1> QED
  BY <1>1, <1>2, <1>3, <1>4 DEF TrueInv

\* For any members, expenses and payments: simplified or direct, what everybody
\* is told they owe is what the balances say, in fewer payments than there are
\* members when simplified; the parts of an expense add up to it, what the app
\* offers the server takes, and a group that was deleted was even
\* (core/ledger.ts, settlementOptions.ts, groupRules.ts checkGroupCanGo).
THEOREM DebtsStayTrue == Spec => []DebtsAreTrue
<1>1. TrueInv => DebtsAreTrue
  BY Balanced, Short, Offered DEF DebtsAreTrue, TrueInv, TypeInv
<1> QED
  BY <1>1, InitTrue, TrueStep, PTL DEF Spec
=============================================================================
