------------------------- MODULE GroupMembersProofs -------------------------
(***************************************************************************)
(* TLAPS proofs about GroupMembers, for any accounts, members, expenses    *)
(* and waiting requests.                                                   *)
(***************************************************************************)
EXTENDS GroupMembers, FiniteSetTheorems, SequenceTheorems, TLAPS

\* What every action keeps, and needs of the state it starts from.
IInv == EachIsOne /\ DoorIsKept /\ PayersStay

-----------------------------------------------------------------------------
(* The accounts of a member: one more, one less.                           *)

LEMMA OneMoreDevice ==
    ASSUME NEW S, NEW s \in Seq(S), IsInjective(s), NEW u \in S, u \notin ToSet(s)
    PROVE  /\ Append(s, u) \in Seq(S)
           /\ IsInjective(Append(s, u))
           /\ ToSet(Append(s, u)) = ToSet(s) \cup {u}
<1>1. /\ Append(s, u) \in Seq(S)
      /\ Len(s) \in Nat
      /\ DOMAIN s = 1..Len(s) /\ DOMAIN Append(s, u) = 1..(Len(s) + 1)
      /\ \A i \in 1..Len(s) : Append(s, u)[i] = s[i]
      /\ Append(s, u)[Len(s) + 1] = u
  BY AppendProperties
<1>2. \A i \in DOMAIN Append(s, u) : i \in DOMAIN s \/ i = Len(s) + 1
  BY <1>1
<1>3. \A i \in DOMAIN s : s[i] # u /\ i # Len(s) + 1
  BY <1>1 DEF ToSet
<1>4. IsInjective(Append(s, u))
  BY <1>1, <1>2, <1>3 DEF IsInjective
<1>5. ToSet(Append(s, u)) = ToSet(s) \cup {u}
  BY <1>1, <1>2 DEF ToSet
<1> QED
  BY <1>1, <1>4, <1>5

LEMMA OneDeviceLess ==
    ASSUME NEW S, NEW s \in Seq(S), IsInjective(s), NEW i \in DOMAIN s
    PROVE  /\ RemoveAt(s, i) \in Seq(S)
           /\ IsInjective(RemoveAt(s, i))
           /\ ToSet(RemoveAt(s, i)) = ToSet(s) \ {s[i]}
<1> DEFINE a == SubSeq(s, 1, i - 1)
           b == SubSeq(s, i + 1, Len(s))
           r == a \o b
<1>1. i \in 1..Len(s) /\ Len(s) \in Nat /\ DOMAIN s = 1..Len(s)
  OBVIOUS
<1>2. /\ a \in Seq(S) /\ Len(a) = i - 1
      /\ \A j \in 1..(i - 1) : a[j] = s[j]
  BY <1>1, SubSeqProperties
<1>3. /\ b \in Seq(S) /\ Len(b) = Len(s) - i
      /\ \A j \in 1..(Len(s) - i) : b[j] = s[i + j]
  BY <1>1, SubSeqProperties
<1>4. /\ r \in Seq(S) /\ DOMAIN r = 1..(Len(s) - 1)
      /\ \A j \in 1..(Len(s) - 1) : r[j] = IF j <= i - 1 THEN a[j] ELSE b[j - (i - 1)]
  <2> HIDE DEF a, b
  <2>1. /\ a \o b \in Seq(S) /\ Len(a \o b) = Len(a) + Len(b)
        /\ \A j \in 1..(Len(a) + Len(b)) :
              (a \o b)[j] = IF j <= Len(a) THEN a[j] ELSE b[j - Len(a)]
    BY <1>2, <1>3, ConcatProperties
  <2>2. Len(a) + Len(b) = Len(s) - 1
    BY <1>1, <1>2, <1>3
  <2>3. DOMAIN (a \o b) = 1..Len(a \o b)
    BY <2>1
  <2> QED
    BY <1>2, <2>1, <2>2, <2>3
<1>5. \A j \in 1..(Len(s) - 1) : r[j] = s[IF j < i THEN j ELSE j + 1]
  <2> TAKE j \in 1..(Len(s) - 1)
  <2>1. CASE j < i
    BY <1>1, <1>2, <1>4, <2>1
  <2>2. CASE ~(j < i)
    <3>1. j - (i - 1) \in 1..(Len(s) - i) /\ ~(j <= i - 1) /\ i + (j - (i - 1)) = j + 1
      BY <1>1, <2>2
    <3> QED
      BY <1>3, <1>4, <2>2, <3>1
  <2> QED
    BY <2>1, <2>2
<1> HIDE DEF a, b, r
<1>6. RemoveAt(s, i) = r
  BY DEF RemoveAt, a, b, r
<1>7. IsInjective(r)
  <2> SUFFICES ASSUME NEW j \in DOMAIN r, NEW k \in DOMAIN r, r[j] = r[k] PROVE j = k
    BY DEF IsInjective
  <2> DEFINE At(x) == IF x < i THEN x ELSE x + 1
  <2>1. j \in 1..(Len(s) - 1) /\ k \in 1..(Len(s) - 1)
    BY <1>4
  <2>2. At(j) \in DOMAIN s /\ At(k) \in DOMAIN s
    BY <1>1, <2>1
  <2>3. s[At(j)] = s[At(k)]
    BY <1>5, <2>1
  <2>4. At(j) = At(k)
    <3> HIDE DEF At
    <3> QED
      BY <2>2, <2>3 DEF IsInjective
  <2> QED
    BY <1>1, <2>1, <2>4
<1>8. ToSet(r) \subseteq ToSet(s) \ {s[i]}
  <2> SUFFICES ASSUME NEW j \in DOMAIN r PROVE r[j] \in ToSet(s) /\ r[j] # s[i]
    BY DEF ToSet
  <2>1. PICK k \in DOMAIN s : k # i /\ r[j] = s[k]
    <3>1. j \in 1..(Len(s) - 1)
      BY <1>4
    <3>2. CASE j < i
      BY <1>1, <1>5, <3>1, <3>2
    <3>3. CASE ~(j < i)
      <4>1. j + 1 \in DOMAIN s /\ j + 1 # i
        BY <1>1, <3>1, <3>3
      <4>2. r[j] = s[j + 1]
        BY <1>5, <3>1, <3>3
      <4> QED
        BY <4>1, <4>2
    <3> QED
      BY <3>2, <3>3
  <2> QED
    BY <2>1 DEF ToSet, IsInjective
<1>9. ToSet(s) \ {s[i]} \subseteq ToSet(r)
  <2> SUFFICES ASSUME NEW k \in DOMAIN s, s[k] # s[i] PROVE \E j \in DOMAIN r : r[j] = s[k]
    BY DEF ToSet
  <2>1. CASE k < i
    <3>1. k \in 1..(Len(s) - 1)
      BY <1>1, <2>1
    <3> QED
      BY <1>4, <1>5, <2>1, <3>1
  <2>2. CASE ~(k < i)
    <3>1. k - 1 \in 1..(Len(s) - 1) /\ ~(k - 1 < i) /\ (k - 1) + 1 = k
      BY <1>1, <2>2
    <3> QED
      BY <1>4, <1>5, <3>1
  <2> QED
    BY <2>1, <2>2
<1> QED
  BY <1>4, <1>6, <1>7, <1>8, <1>9

LEMMA OldestDevice ==
    ASSUME NEW S, NEW s \in Seq(S), IsInjective(s), s # <<>>
    PROVE  /\ Tail(s) \in Seq(S) /\ Head(s) \in S
           /\ IsInjective(Tail(s))
           /\ Head(s) \in ToSet(s)
           /\ ToSet(Tail(s)) = ToSet(s) \ {Head(s)}
<1>1. /\ Tail(s) \in Seq(S) /\ Head(s) \in S /\ Head(s) = s[1]
      /\ Len(s) \in Nat \ {0} /\ DOMAIN s = 1..Len(s) /\ DOMAIN Tail(s) = 1..(Len(s) - 1)
      /\ \A i \in 1..(Len(s) - 1) : Tail(s)[i] = s[i + 1]
  BY HeadTailProperties, EmptySeq
<1>2. IsInjective(Tail(s))
  <2> SUFFICES ASSUME NEW j \in DOMAIN Tail(s), NEW k \in DOMAIN Tail(s), Tail(s)[j] = Tail(s)[k]
               PROVE  j = k
    BY DEF IsInjective
  <2>1. s[j + 1] = s[k + 1] /\ j + 1 \in DOMAIN s /\ k + 1 \in DOMAIN s
    BY <1>1
  <2>2. j + 1 = k + 1
    BY <2>1 DEF IsInjective
  <2> QED
    BY <1>1, <2>2
<1>3. 1 \in DOMAIN s
  BY <1>1
<1>4. \A j \in DOMAIN Tail(s) : j + 1 \in DOMAIN s /\ j + 1 # 1 /\ Tail(s)[j] = s[j + 1]
  BY <1>1
<1>5. \A k \in DOMAIN s : k # 1 => k - 1 \in DOMAIN Tail(s) /\ Tail(s)[k - 1] = s[k]
  BY <1>1
<1>6. ToSet(Tail(s)) \subseteq ToSet(s) \ {s[1]}
  <2> SUFFICES ASSUME NEW j \in DOMAIN Tail(s)
               PROVE  Tail(s)[j] \in ToSet(s) /\ Tail(s)[j] # s[1]
    BY DEF ToSet
  <2>1. j + 1 \in DOMAIN s /\ j + 1 # 1 /\ Tail(s)[j] = s[j + 1]
    BY <1>4
  <2> QED
    BY <1>3, <2>1 DEF ToSet, IsInjective
<1>7. ToSet(s) \ {s[1]} \subseteq ToSet(Tail(s))
  BY <1>5 DEF ToSet
<1> QED
  BY <1>1, <1>2, <1>3, <1>6, <1>7 DEF ToSet

-----------------------------------------------------------------------------
(* Who is who, as accounts come and go.                                    *)

\* People, as one member's two tables say it.
Held(f, o) == IF f = Nobody THEN {} ELSE {f} \cup ToSet(o)

InOneRow(f, o) == /\ f = Nobody => o = <<>>
                  /\ f \notin ToSet(o) /\ IsInjective(o)

PeopleTyped ==
    /\ seat \in [Members -> {"unused", "in", "removed"}]
    /\ first \in [Members -> Accounts \cup {Nobody}]
    /\ others \in [Members -> Seq(Accounts)]
    /\ address \in [Members -> {"none", "typed", "own", "late"}]

\* Account u becomes one of those that are member m.
LEMMA Admitted ==
    ASSUME PeopleTyped, OneMemberPerAccount, AccountsLineUp,
           NEW u \in Accounts, u \in accounts, accounts' = accounts,
           \A n \in Members : u \notin AccountsOf(n),
           NEW m \in Members, Admit(u, m) \/ AdmitNew(u, m)
    PROVE  /\ PeopleTyped' /\ OneMemberPerAccount' /\ AccountsLineUp'
           /\ \A n \in Members : AccountsOf(n)' = AccountsOf(n) \cup (IF n = m THEN {u} ELSE {})
           /\ \A n \in Members : n # m => seat'[n] = seat[n] /\ address'[n] = address[n]
           /\ seat'[m] = "in"
           /\ seat[m] \in {"in", "unused"}
           /\ address'[m] = "none" \/ ~IsGhost(m) \/ seat[m] = "unused"
           /\ address'[m] \in {"none", address[m]}
<1>1. u # Nobody /\ Nobody \notin Accounts
  BY MembersAssumption
<1>2. first[m] = Nobody => others[m] = <<>>
  BY DEF AccountsLineUp
<1>3. CASE first[m] = Nobody
  <2>1. AccountsOf(m) = {}
    BY <1>3 DEF AccountsOf
  <2>2. first' = [first EXCEPT ![m] = u] /\ others' = others
    <3>1. CASE Admit(u, m)
      BY <1>3, <3>1 DEF Admit, IsGhost
    <3>2. CASE AdmitNew(u, m)
      BY <3>2 DEF AdmitNew
    <3> QED
      BY <3>1, <3>2
  <2>3. seat' \in [Members -> {"unused", "in", "removed"}] /\ seat'[m] = "in"
        /\ \A n \in Members : n # m => seat'[n] = seat[n] /\ address'[n] = address[n]
    BY <1>3 DEF Admit, AdmitNew, PeopleTyped, InGroup, IsGhost
  <2>4. address' \in [Members -> {"none", "typed", "own", "late"}]
    BY <1>3 DEF Admit, AdmitNew, PeopleTyped, InGroup, IsGhost
  <2>5. PeopleTyped'
    BY <2>2, <2>3, <2>4 DEF PeopleTyped
  <2>6. ToSet(<<>>) = {}
    BY DEF ToSet
  <2>7. \A n \in Members : AccountsOf(n)' = AccountsOf(n) \cup (IF n = m THEN {u} ELSE {})
    BY <1>1, <1>2, <1>3, <2>1, <2>2, <2>6 DEF AccountsOf, PeopleTyped
  <2>8. OneMemberPerAccount'
    BY <2>7 DEF OneMemberPerAccount
  <2>9. AccountsLineUp'
    <3> SUFFICES ASSUME NEW n \in Members
                 PROVE  (/\ first[n] = Nobody => others[n] = <<>>
                         /\ first[n] \notin ToSet(others[n]) /\ IsInjective(others[n])
                         /\ AccountsOf(n) \subseteq accounts
                         /\ AccountsOf(n) # {} => seat[n] = "in")'
      BY DEF AccountsLineUp
    <3>1. CASE n # m
      BY <2>2, <2>3, <2>7, <3>1 DEF AccountsLineUp, PeopleTyped
    <3>2. CASE n = m
      BY <1>1, <1>2, <1>3, <2>1, <2>2, <2>3, <2>6, <2>7, <3>2 DEF AccountsLineUp, PeopleTyped
    <3> QED
      BY <3>1, <3>2
  <2> QED
    BY <2>3, <2>5, <2>7, <2>8, <2>9, <1>3 DEF Admit, AdmitNew, InGroup, IsGhost, PeopleTyped
<1>4. CASE first[m] # Nobody
  <2>1. AccountsOf(m) = {first[m]} \cup ToSet(others[m])
    BY <1>4 DEF AccountsOf
  <2>2. seat[m] = "in"
    BY <2>1 DEF AccountsLineUp
  <2>3. /\ others' = [others EXCEPT ![m] = Append(others[m], u)]
        /\ UNCHANGED <<seat, first, address>>
    BY <1>4, <2>2 DEF Admit, AdmitNew, IsGhost
  <2>4. others[m] \in Seq(Accounts) /\ IsInjective(others[m]) /\ u \notin ToSet(others[m])
    BY <2>1 DEF AccountsLineUp, PeopleTyped
  <2>5. /\ Append(others[m], u) \in Seq(Accounts)
        /\ IsInjective(Append(others[m], u))
        /\ ToSet(Append(others[m], u)) = ToSet(others[m]) \cup {u}
    BY <2>4, OneMoreDevice
  <2>6. PeopleTyped'
    BY <2>3, <2>5 DEF PeopleTyped
  <2>7. others'[m] = Append(others[m], u) /\ \A n \in Members : n # m => others'[n] = others[n]
    BY <2>3 DEF PeopleTyped
  <2>8. \A n \in Members : AccountsOf(n)' = AccountsOf(n) \cup (IF n = m THEN {u} ELSE {})
    BY <1>4, <2>3, <2>5, <2>7 DEF AccountsOf
  <2>9. OneMemberPerAccount'
    BY <2>8 DEF OneMemberPerAccount
  <2>10. AccountsLineUp'
    <3> SUFFICES ASSUME NEW n \in Members
                 PROVE  (/\ first[n] = Nobody => others[n] = <<>>
                         /\ first[n] \notin ToSet(others[n]) /\ IsInjective(others[n])
                         /\ AccountsOf(n) \subseteq accounts
                         /\ AccountsOf(n) # {} => seat[n] = "in")'
      BY DEF AccountsLineUp
    <3>1. CASE n # m
      BY <2>3, <2>7, <2>8, <3>1 DEF AccountsLineUp
    <3>2. CASE n = m
      <4>1. first[m] # u
        BY <1>4 DEF AccountsOf
      <4> QED
        BY <1>4, <2>1, <2>2, <2>3, <2>5, <2>7, <2>8, <3>2, <4>1 DEF AccountsLineUp
    <3> QED
      BY <3>1, <3>2
  <2> QED
    BY <1>4, <2>2, <2>3, <2>6, <2>8, <2>9, <2>10 DEF IsGhost
<1> QED
  BY <1>3, <1>4

\* Account u is no longer one of those that are member m.
LEMMA AccountGone ==
    ASSUME PeopleTyped, OneMemberPerAccount, AccountsLineUp,
           NEW u \in Accounts, NEW m \in Members, IsHeldBy(m, u), RemoveAccount(u, m)
    PROVE  /\ PeopleTyped' /\ UNCHANGED <<seat, address>>
           /\ \A n \in Members : AccountsOf(n)' = AccountsOf(n) \ {u}
           /\ \A n \in Members :
                 /\ first'[n] = Nobody => others'[n] = <<>>
                 /\ first'[n] \notin ToSet(others'[n]) /\ IsInjective(others'[n])
<1>1. Nobody \notin Accounts
  BY MembersAssumption
<1>2. /\ others[m] \in Seq(Accounts) /\ IsInjective(others[m])
      /\ first[m] \in Accounts \cup {Nobody} /\ first[m] \notin ToSet(others[m])
      /\ first[m] = Nobody => others[m] = <<>>
  BY DEF AccountsLineUp, PeopleTyped
<1>3. first[m] # Nobody /\ u \in {first[m]} \cup ToSet(others[m])
  BY DEF IsHeldBy, AccountsOf
<1>4. \A n \in Members : n # m => u \notin AccountsOf(n)
  BY DEF OneMemberPerAccount, IsHeldBy
<1>5. UNCHANGED <<seat, address>>
  BY DEF RemoveAccount
<1>6. \E f \in Accounts \cup {Nobody}, o \in Seq(Accounts) :
        /\ first' = [first EXCEPT ![m] = f] /\ others' = [others EXCEPT ![m] = o]
        /\ InOneRow(f, o) /\ Held(f, o) = ({first[m]} \cup ToSet(others[m])) \ {u}
  <2>1. ASSUME first[m] # u, NEW i \in DOMAIN others[m], others[m][i] = u,
               others' = [others EXCEPT ![m] = RemoveAt(others[m], i)], UNCHANGED first
        PROVE  <1>6!:
    <3>1. /\ RemoveAt(others[m], i) \in Seq(Accounts)
          /\ IsInjective(RemoveAt(others[m], i))
          /\ ToSet(RemoveAt(others[m], i)) = ToSet(others[m]) \ {u}
      BY <1>2, <2>1, OneDeviceLess
    <3>2. first' = [first EXCEPT ![m] = first[m]]
      BY <2>1 DEF PeopleTyped
    <3>3. InOneRow(first[m], RemoveAt(others[m], i))
      BY <1>2, <1>3, <3>1 DEF InOneRow
    <3>4. Held(first[m], RemoveAt(others[m], i)) = ({first[m]} \cup ToSet(others[m])) \ {u}
      BY <1>3, <2>1, <3>1 DEF Held
    <3> QED
      BY <1>2, <2>1, <3>1, <3>2, <3>3, <3>4
  <2>2. ASSUME first[m] = u, others[m] # <<>>,
               first' = [first EXCEPT ![m] = Head(others[m])],
               others' = [others EXCEPT ![m] = Tail(others[m])]
        PROVE  <1>6!:
    <3>1. /\ Tail(others[m]) \in Seq(Accounts) /\ Head(others[m]) \in Accounts
          /\ IsInjective(Tail(others[m]))
          /\ Head(others[m]) \in ToSet(others[m])
          /\ ToSet(Tail(others[m])) = ToSet(others[m]) \ {Head(others[m])}
      BY <1>2, <2>2, OldestDevice
    <3>2. InOneRow(Head(others[m]), Tail(others[m]))
      BY <1>1, <3>1 DEF InOneRow
    <3>3. Held(Head(others[m]), Tail(others[m])) = ({first[m]} \cup ToSet(others[m])) \ {u}
      BY <1>1, <1>2, <2>2, <3>1 DEF Held
    <3> QED
      BY <2>2, <3>1, <3>2, <3>3
  <2>3. ASSUME first[m] = u, others[m] = <<>>, first' = [first EXCEPT ![m] = Nobody], UNCHANGED others
        PROVE  <1>6!:
    <3>1. ToSet(<<>>) = {}
      BY DEF ToSet
    <3>2. others' = [others EXCEPT ![m] = others[m]]
      BY <2>3 DEF PeopleTyped
    <3>3. InOneRow(Nobody, others[m])
      BY <1>2, <2>3, <3>1 DEF InOneRow
    <3>4. Held(Nobody, others[m]) = ({first[m]} \cup ToSet(others[m])) \ {u}
      BY <2>3, <3>1 DEF Held
    <3> QED
      BY <1>2, <2>3, <3>2, <3>3, <3>4
  <2> QED
    BY <2>1, <2>2, <2>3 DEF RemoveAccount
<1>7. PICK f \in Accounts \cup {Nobody}, o \in Seq(Accounts) :
        /\ first' = [first EXCEPT ![m] = f] /\ others' = [others EXCEPT ![m] = o]
        /\ InOneRow(f, o) /\ Held(f, o) = ({first[m]} \cup ToSet(others[m])) \ {u}
  BY <1>6
<1>8. /\ first'[m] = f /\ others'[m] = o
      /\ \A n \in Members : n # m => first'[n] = first[n] /\ others'[n] = others[n]
  BY <1>7 DEF PeopleTyped
<1>9. PeopleTyped'
  BY <1>5, <1>7 DEF PeopleTyped
<1>10. \A n \in Members : AccountsOf(n)' = AccountsOf(n) \ {u}
  <2> SUFFICES ASSUME NEW n \in Members PROVE AccountsOf(n)' = AccountsOf(n) \ {u}
    OBVIOUS
  <2>1. CASE n = m
    BY <1>3, <1>7, <1>8, <2>1 DEF AccountsOf, Held
  <2>2. CASE n # m
    BY <1>4, <1>8, <2>2 DEF AccountsOf
  <2> QED
    BY <2>1, <2>2
<1>11. \A n \in Members :
         /\ first'[n] = Nobody => others'[n] = <<>>
         /\ first'[n] \notin ToSet(others'[n]) /\ IsInjective(others'[n])
  BY <1>7, <1>8 DEF InOneRow, AccountsLineUp
<1> QED
  BY <1>5, <1>9, <1>10, <1>11

\* Whoever is not in an open group is none of its members.
LEMMA NotIn ==
    ASSUME AccountsLineUp, NEW u, ~IsIn(u), group = "open"
    PROVE  \A n \in Members : u \notin AccountsOf(n)
BY DEF IsIn, IsHeldBy, InGroup, AccountsLineUp

\* A group that is gone has nobody.
LEMMA GoneIsEmpty ==
    ASSUME TypeOK, RowsLineUp, group # "open"
    PROVE  \A n \in Members : AccountsOf(n) = {} /\ \A u : ~IsIn(u)
BY DEF TypeOK, RowsLineUp, AccountsOf, IsIn

\* A group counts more than one account only if one goes and another is left.
LEMMA SomebodyIsLeft ==
    ASSUME EachIsOne, NEW u, IsIn(u), AccountCount > 1
    PROVE  \E v \in accounts \ {u} : IsIn(v)
<1> SUFFICES ASSUME \A v \in accounts : IsIn(v) => v = u PROVE FALSE
  OBVIOUS
<1>1. PICK m \in InGroup : u \in AccountsOf(m)
  BY DEF IsIn, IsHeldBy
<1>2. m \in Members /\ InGroup \subseteq Members /\ group = "open"
  BY DEF InGroup, IsIn
<1>3. \A n \in InGroup : AccountsOf(n) \subseteq {u}
  BY <1>2 DEF IsIn, IsHeldBy, EachIsOne, AccountsLineUp
<1>4. \A n \in InGroup : first[n] # Nobody => n = m
  <2> SUFFICES ASSUME NEW n \in InGroup, first[n] # Nobody PROVE n = m
    OBVIOUS
  <2>1. first[n] \in AccountsOf(n)
    BY DEF AccountsOf
  <2> QED
    BY <1>1, <1>2, <1>3, <2>1 DEF EachIsOne, OneMemberPerAccount
<1>5. first[m] = u
  BY <1>1, <1>3 DEF AccountsOf
<1>6. first[m] # Nobody
  BY <1>1 DEF AccountsOf
<1>7. \A n \in InGroup : others[n] = <<>>
  <2> SUFFICES ASSUME NEW n \in InGroup PROVE others[n] = <<>>
    OBVIOUS
  <2>1. CASE n # m
    BY <1>2, <1>4, <2>1 DEF EachIsOne, AccountsLineUp
  <2>2. CASE n = m
    <3>1. ToSet(others[m]) \subseteq {u} /\ first[m] \notin ToSet(others[m])
      BY <1>2, <1>3, <1>6 DEF AccountsOf, EachIsOne, AccountsLineUp
    <3>2. ToSet(others[m]) = {}
      BY <1>5, <3>1
    <3>3. others[m] \in Seq(Accounts)
      BY <1>2 DEF EachIsOne, TypeOK
    <3>4. DOMAIN others[m] = {}
      BY <3>2 DEF ToSet
    <3>5. Len(others[m]) \in Nat /\ DOMAIN others[m] = 1..Len(others[m])
      BY <3>3
    <3>6. \A k \in Nat : k # 0 => 1 \in 1..k
      OBVIOUS
    <3>7. Len(others[m]) = 0
      BY <3>4, <3>5, <3>6
    <3> QED
      BY <2>2, <3>3, <3>7, EmptySeq
  <2> QED
    BY <2>1, <2>2
<1>8. {n \in InGroup : first[n] # Nobody} = {m}
  BY <1>1, <1>4, <1>6
<1>9. UNION {{n} \X DOMAIN others[n] : n \in InGroup} = {}
  <2>1. \A n \in InGroup : DOMAIN others[n] = {}
    BY <1>7
  <2>2. \A n \in InGroup : {n} \X DOMAIN others[n] = {}
    BY <2>1
  <2> QED
    BY <2>2
<1>10. AccountCount = 1 + 0
  <2>1. Cardinality({m}) = 1
    BY FS_Singleton
  <2>2. Cardinality({}) = 0
    BY FS_EmptySet
  <2> QED
    BY <1>8, <1>9, <2>1, <2>2 DEF AccountCount
<1> QED
  BY <1>10

-----------------------------------------------------------------------------
(* Each action keeps it.                                                   *)

\* Requests that wait, with one more.
LEMMA OneAsks ==
    ASSUME IsFiniteSet(PendingOf), NEW u \in Accounts, HasPlace(u), PendingCapped,
           PendingOf' = PendingOf \cup {u}
    PROVE  IsFiniteSet(PendingOf)' /\ PendingCapped'
<1>1. CASE u \in PendingOf
  <2>1. PendingOf' = PendingOf
    BY <1>1
  <2> QED
    BY <2>1 DEF PendingCapped
<1>2. CASE u \notin PendingOf
  <2>1. Cardinality(PendingOf) < MaxPending
    BY <1>2 DEF HasPlace
  <2>2. /\ IsFiniteSet(PendingOf \cup {u}) /\ Cardinality(PendingOf) \in Nat
        /\ Cardinality(PendingOf \cup {u}) = Cardinality(PendingOf) + 1
    BY <1>2, FS_AddElement, FS_CardinalityType
  <2>3. MaxPending \in Nat
    BY MembersAssumption
  <2>4. Cardinality(PendingOf') <= MaxPending
    BY <2>1, <2>2, <2>3
  <2> QED
    BY <2>2, <2>4 DEF PendingCapped
<1> QED
  BY <1>1, <1>2

\* And with fewer.
LEMMA FewerAsk ==
    ASSUME IsFiniteSet(PendingOf), PendingCapped, PendingOf' \subseteq PendingOf
    PROVE  IsFiniteSet(PendingOf)' /\ PendingCapped'
<1>1. /\ IsFiniteSet(PendingOf') /\ Cardinality(PendingOf') <= Cardinality(PendingOf)
      /\ Cardinality(PendingOf') \in Nat /\ Cardinality(PendingOf) \in Nat
  BY FS_Subset, FS_CardinalityType
<1>2. MaxPending \in Nat
  BY MembersAssumption
<1> QED
  BY <1>1, <1>2 DEF PendingCapped

\* What changes neither the people nor what they ask for.
LEMMA PeopleStay ==
    ASSUME IInv, TypeOK', UNCHANGED <<accounts, group, people, request>>,
           PayersStay', incoming' \subseteq named',
           \A m \in Members : seat[m] = "unused" => address'[m] = "none"
    PROVE  IInv'
<1>1. InGroup' = InGroup /\ PendingOf' = PendingOf
  BY DEF InGroup, PendingOf, people
<1>2. \A m \in Members : AccountsOf(m)' = AccountsOf(m)
  BY DEF AccountsOf, people
<1>3. \A u \in Accounts : IsIn(u)' <=> IsIn(u)
  BY <1>1, <1>2 DEF IsIn, IsHeldBy, InGroup
<1>4. EachIsOne'
  BY <1>1, <1>2 DEF IInv, EachIsOne, OneMemberPerAccount, AccountsLineUp, RowsLineUp, people
<1>5. DoorIsKept'
  BY <1>1, <1>3 DEF IInv, EachIsOne, DoorIsKept, GroupReachable, RequestsCanBeAnswered, PendingCapped,
     TypeOK
<1> QED
  BY <1>4, <1>5 DEF IInv

\* What only changes who asks.
LEMMA AskingKeeps ==
    ASSUME IInv, UNCHANGED <<accounts, group, people, address, ledger>>, TypeOK',
           NEW u \in Accounts, \A v \in Accounts : v # u => request'[v] = request[v],
           \/ request'[u] = NoRequest
           \/ /\ u \in accounts /\ ~IsIn(u)
              /\ request'[u].status # "none"
              /\ request'[u].status = "pending" =>
                    HasPlace(u) /\ request'[u].as \in InGroup \cup {"new"}
    PROVE  IInv'
<1>1. \A m \in Members : AccountsOf(m)' = AccountsOf(m)
  BY DEF AccountsOf, people
<1>2. InGroup' = InGroup
  BY DEF InGroup, people
<1>3. \A v \in Accounts : IsIn(v)' <=> IsIn(v)
  BY <1>1, <1>2 DEF IsIn, IsHeldBy, InGroup
<1>4. GroupReachable'
  BY <1>3 DEF IInv, EachIsOne, DoorIsKept, GroupReachable, TypeOK
<1>5. IsFiniteSet(PendingOf)' /\ PendingCapped'
  <2>1. IsFiniteSet(PendingOf) /\ PendingCapped
    BY DEF IInv, EachIsOne, RowsLineUp, DoorIsKept
  <2>2. CASE request'[u].status = "pending"
    <3>1. PendingOf' = PendingOf \cup {u} /\ HasPlace(u)
      BY <2>2 DEF PendingOf, NoRequest
    <3> QED
      BY <2>1, <3>1, OneAsks
  <2>3. CASE request'[u].status # "pending"
    <3>1. PendingOf' \subseteq PendingOf
      BY <2>3 DEF PendingOf
    <3> QED
      BY <2>1, <3>1, FewerAsk
  <2> QED
    BY <2>2, <2>3
<1>6. \A v \in Accounts : request'[v].status = "none" => request'[v] = NoRequest
  BY DEF IInv, EachIsOne, RowsLineUp
<1>7. EachIsOne'
  BY <1>1, <1>2, <1>5, <1>6
  DEF IInv, EachIsOne, OneMemberPerAccount, AccountsLineUp, RowsLineUp, people, ledger
<1>8. RequestsCanBeAnswered'
  <2> SUFFICES ASSUME NEW v \in Accounts, request'[v].status # "none"
               PROVE  /\ v \in accounts /\ ~IsIn(v)
                      /\ request'[v].status = "pending" => request'[v].as \in InGroup \cup {"new"}
    BY <1>2, <1>3 DEF RequestsCanBeAnswered
  <2>1. CASE v = u
    BY <2>1 DEF NoRequest
  <2>2. CASE v # u
    BY <2>2 DEF IInv, DoorIsKept, RequestsCanBeAnswered
  <2> QED
    BY <2>1, <2>2
<1>9. PayersStay'
  BY <1>2 DEF IInv, PayersStay, ledger
<1> QED
  BY <1>4, <1>5, <1>7, <1>8, <1>9 DEF IInv, DoorIsKept

\* Joining: account u becomes member m, and asks no more.
LEMMA ComingInKeeps ==
    ASSUME IInv, TypeOK', NEW u \in Accounts, u \in accounts, ~IsIn(u), NEW m \in Members,
           group = "open", Admit(u, m) \/ AdmitNew(u, m),
           request' = [request EXCEPT ![u] = NoRequest],
           UNCHANGED <<accounts, group, ledger>>
    PROVE  IInv'
<1>1. PeopleTyped /\ OneMemberPerAccount /\ AccountsLineUp /\ RowsLineUp
  BY DEF IInv, EachIsOne, TypeOK, PeopleTyped
<1>2. \A n \in Members : u \notin AccountsOf(n)
  BY <1>1, NotIn
<1>3. /\ OneMemberPerAccount' /\ AccountsLineUp'
      /\ \A n \in Members : AccountsOf(n)' = AccountsOf(n) \cup (IF n = m THEN {u} ELSE {})
      /\ \A n \in Members : n # m => seat'[n] = seat[n] /\ address'[n] = address[n]
      /\ seat'[m] = "in"
  BY <1>1, <1>2, Admitted
<1>4. InGroup' = InGroup \cup {m}
  BY <1>3 DEF InGroup
<1>5. \A v \in Accounts : v # u => (IsIn(v)' <=> IsIn(v))
  BY <1>1, <1>3, <1>4 DEF IsIn, IsHeldBy, AccountsLineUp, InGroup
<1>6. GroupReachable'
  BY <1>3, <1>4 DEF GroupReachable, IsIn, IsHeldBy
<1>7. \A v \in Accounts : request'[v] = IF v = u THEN NoRequest ELSE request[v]
  BY DEF IInv, EachIsOne, TypeOK
<1>8. IsFiniteSet(PendingOf)' /\ PendingCapped'
  <2>1. PendingOf' \subseteq PendingOf
    BY <1>7 DEF PendingOf, NoRequest
  <2> QED
    BY <1>1, <2>1, FewerAsk DEF RowsLineUp, IInv, DoorIsKept
<1>9. RowsLineUp'
  <2>1. \A n \in Members : seat'[n] = "unused" => address'[n] = "none"
    BY <1>1, <1>3 DEF RowsLineUp
  <2>2. \A v \in Accounts : request'[v].status = "none" => request'[v] = NoRequest
    BY <1>1, <1>7 DEF RowsLineUp
  <2> QED
    BY <1>1, <1>8, <2>1, <2>2 DEF RowsLineUp, ledger
<1>10. RequestsCanBeAnswered'
  BY <1>4, <1>5, <1>7 DEF IInv, DoorIsKept, RequestsCanBeAnswered, NoRequest
<1>11. PayersStay'
  BY <1>4 DEF IInv, PayersStay, ledger
<1> QED
  BY <1>3, <1>6, <1>8, <1>9, <1>10, <1>11 DEF IInv, EachIsOne, DoorIsKept

\* Leaving: account u is no longer member m, and somebody is left.
LEMMA GoingKeeps ==
    ASSUME IInv, TypeOK', NEW u \in Accounts, IsIn(u), AccountCount > 1,
           NEW m \in InGroup, IsHeldBy(m, u), RemoveAccount(u, m),
           accounts' \in {accounts, accounts \ {u}},
           request' \in {request, [request EXCEPT ![u] = NoRequest]},
           UNCHANGED <<group, ledger>>
    PROVE  IInv'
<1>1. PeopleTyped /\ OneMemberPerAccount /\ AccountsLineUp /\ RowsLineUp /\ m \in Members
  BY DEF IInv, EachIsOne, TypeOK, PeopleTyped, InGroup
<1>2. /\ UNCHANGED <<seat, address>>
      /\ \A n \in Members : AccountsOf(n)' = AccountsOf(n) \ {u}
      /\ \A n \in Members :
            /\ first'[n] = Nobody => others'[n] = <<>>
            /\ first'[n] \notin ToSet(others'[n]) /\ IsInjective(others'[n])
  BY <1>1, AccountGone
<1>3. InGroup' = InGroup
  BY <1>2 DEF InGroup
<1>4. \A v \in Accounts : v # u => (IsIn(v)' <=> IsIn(v))
  BY <1>2, <1>3 DEF IsIn, IsHeldBy, InGroup
<1>5. ~IsIn(u)'
  BY <1>2, <1>3 DEF IsIn, IsHeldBy, InGroup
<1>6. GroupReachable'
  <2>1. PICK v \in accounts \ {u} : IsIn(v)
    BY SomebodyIsLeft DEF IInv
  <2>2. v \in accounts' /\ v \in Accounts
    BY DEF IInv, EachIsOne, TypeOK
  <2> QED
    BY <1>4, <2>1, <2>2 DEF GroupReachable
<1>7. \A v \in Accounts : request'[v] = request[v] \/ (v = u /\ request'[v] = NoRequest)
  BY DEF IInv, EachIsOne, TypeOK
<1>8. \A v \in Accounts : request[v].status # "none" => v # u
  BY DEF IInv, DoorIsKept, RequestsCanBeAnswered
<1>9. IsFiniteSet(PendingOf)' /\ PendingCapped'
  <2>1. PendingOf' \subseteq PendingOf
    BY <1>7 DEF PendingOf, NoRequest
  <2> QED
    BY <1>1, <2>1, FewerAsk DEF RowsLineUp, IInv, DoorIsKept
<1>10. OneMemberPerAccount'
  BY <1>1, <1>2 DEF OneMemberPerAccount
<1>11. AccountsLineUp'
  BY <1>1, <1>2 DEF AccountsLineUp
<1>12. RowsLineUp'
  <2>1. group = "open"
    BY DEF IsIn
  <2> QED
    BY <1>1, <1>2, <1>7, <1>9, <2>1 DEF RowsLineUp, ledger
<1>13. RequestsCanBeAnswered'
  BY <1>3, <1>4, <1>7, <1>8 DEF IInv, DoorIsKept, RequestsCanBeAnswered, NoRequest
<1>14. PayersStay'
  BY <1>3 DEF IInv, PayersStay, ledger
<1> QED
  BY <1>6, <1>9, <1>10, <1>11, <1>12, <1>13, <1>14 DEF IInv, EachIsOne, DoorIsKept

\* The group goes, with everything in it.
LEMMA DroppingKeeps ==
    ASSUME IInv, TypeOK', DropGroup, request' = [v \in Accounts |-> NoRequest]
    PROVE  IInv'
<1> USE DEF DropGroup
<1>1. \A n \in Members : first'[n] = Nobody /\ others'[n] = <<>> /\ address'[n] = "none"
  OBVIOUS
<1>2. \A n \in Members : AccountsOf(n)' = {}
  BY <1>1 DEF AccountsOf
<1>3. ToSet(<<>>) = {} /\ IsInjective(<<>>)
  BY DEF ToSet, IsInjective
<1>4. OneMemberPerAccount' /\ AccountsLineUp'
  BY <1>1, <1>2, <1>3 DEF OneMemberPerAccount, AccountsLineUp
<1>5. GroupReachable'
  BY DEF GroupReachable
<1>6. \A v \in Accounts : request'[v] = NoRequest
  OBVIOUS
<1>7. PendingOf' = {}
  BY <1>6 DEF PendingOf, NoRequest
<1>8. RowsLineUp' /\ PendingCapped'
  <2>1. IsFiniteSet({}) /\ Cardinality({}) = 0
    BY FS_EmptySet
  <2>2. 0 <= MaxPending
    BY MembersAssumption
  <2> QED
    BY <1>1, <1>6, <1>7, <2>1, <2>2 DEF RowsLineUp, PendingCapped
<1>9. RequestsCanBeAnswered'
  BY <1>6 DEF RequestsCanBeAnswered, NoRequest
<1>10. PayersStay'
  <2>1. \A e \in Expenses : expense'[e].payer = "none"
    BY DEF NoExpense
  <2> QED
    BY <2>1, MembersAssumption DEF PayersStay
<1> QED
  BY <1>4, <1>5, <1>8, <1>9, <1>10 DEF IInv, EachIsOne, DoorIsKept

-----------------------------------------------------------------------------
(* What is true of every state.                                            *)

LEMMA InitKeeps == Init => IInv
<1> SUFFICES ASSUME Init PROVE IInv
  OBVIOUS
<1> USE MembersAssumption DEF Init
<1>1. \A S : <<>> \in Seq(S)
  OBVIOUS
<1>2. TypeOK
  BY <1>1 DEF TypeOK, NoExpense, NoRequest, NoCall
<1>3. ToSet(<<>>) = {} /\ IsInjective(<<>>)
  BY DEF ToSet, IsInjective
<1>4. \A m \in Members : AccountsOf(m) = IF m = FirstMember THEN {Creator} ELSE {}
  BY <1>3 DEF AccountsOf
<1>5. OneMemberPerAccount /\ AccountsLineUp
  BY <1>3, <1>4 DEF OneMemberPerAccount, AccountsLineUp
<1>6. FirstMember \in InGroup
  BY DEF InGroup
<1>7. GroupReachable
  BY <1>4, <1>6 DEF GroupReachable, IsIn, IsHeldBy
<1>8. PendingOf = {}
  BY DEF PendingOf, NoRequest
<1>9. RowsLineUp /\ PendingCapped
  <2>1. IsFiniteSet({}) /\ Cardinality({}) = 0
    BY FS_EmptySet
  <2>2. 0 <= MaxPending
    OBVIOUS
  <2> QED
    BY <1>8, <2>1, <2>2 DEF RowsLineUp, PendingCapped
<1>10. RequestsCanBeAnswered
  BY DEF RequestsCanBeAnswered, NoRequest
<1>11. PayersStay
  BY DEF PayersStay, NoExpense
<1> QED
  BY <1>2, <1>5, <1>7, <1>9, <1>10, <1>11 DEF IInv, EachIsOne, DoorIsKept

LEMMA NextTyped == IInv /\ [Next]_vars => TypeOK'
<1> SUFFICES ASSUME IInv, [Next]_vars PROVE TypeOK'
  OBVIOUS
<1>1. TypeOK /\ PeopleTyped
  BY DEF IInv, EachIsOne, TypeOK, PeopleTyped
<1>2. CASE UNCHANGED vars
  BY <1>1, <1>2 DEF vars, TypeOK
<1> USE DEF people, ledger
<1>3. ASSUME NEW u \in Accounts, Door(u) PROVE TypeOK'
  <2>1. ASSUME NEW m \in Members, Join(u, m) PROVE TypeOK'
    <3>1. PeopleTyped'
      BY <1>1, <2>1, NotIn, Admitted DEF Join, IInv, EachIsOne
    <3> QED
      BY <1>1, <2>1, <3>1 DEF Join, TypeOK, PeopleTyped, NoRequest
  <2>2. ASSUME NEW as \in Members \cup {"new"}, AskToJoin(u, as) PROVE TypeOK'
    BY <1>1, <2>2 DEF AskToJoin, TypeOK
  <2>3. CASE Withdraw(u)
    BY <1>1, <2>3 DEF Withdraw, TypeOK, NoRequest
  <2>4. ASSUME NEW v \in Accounts, Approve(u, v) PROVE TypeOK'
    <3>1. v \in accounts /\ group = "open"
      BY <2>4 DEF IInv, DoorIsKept, RequestsCanBeAnswered, Approve, IsIn
    <3>2. PICK m \in Members : Admit(v, m) \/ AdmitNew(v, m)
      BY <2>4 DEF Approve, Admit, InGroup
    <3>3. PeopleTyped'
      BY <1>1, <2>4, <3>1, <3>2, NotIn, Admitted DEF Approve, IInv, EachIsOne
    <3> QED
      BY <1>1, <2>4, <3>3 DEF Approve, TypeOK, PeopleTyped, NoRequest
  <2>5. ASSUME NEW v \in Accounts, Decline(u, v) PROVE TypeOK'
    <3>1. request' = [request EXCEPT ![v] = [status |-> "declined", as |-> request[v].as]]
      BY <2>5 DEF Decline
    <3>2. request[v].as \in Members \cup {"none", "new"}
      BY <1>1 DEF TypeOK
    <3>3. request' \in [Accounts -> [status: {"none", "pending", "declined"},
                                    as: Members \cup {"none", "new"}]]
      BY <1>1, <3>1, <3>2 DEF TypeOK
    <3> QED
      BY <1>1, <2>5, <3>3 DEF Decline, TypeOK
  <2>6. CASE ChangeApproval(u)
    BY <1>1, <2>6 DEF ChangeApproval, TypeOK, NoCall
  <2>7. CASE ChangeLink(u)
    BY <1>1, <2>7 DEF ChangeLink, TypeOK
  <2>8. ASSUME NEW m \in InGroup, IsHeldBy(m, u), RemoveAccount(u, m) PROVE PeopleTyped'
    BY <1>1, <2>8, AccountGone DEF IInv, EachIsOne, InGroup
  <2>9. CASE Leave(u)
    <3>1. PeopleTyped'
      BY <2>8, <2>9 DEF Leave
    <3> QED
      BY <1>1, <2>9, <3>1 DEF Leave, TypeOK, PeopleTyped
  <2>10. ASSUME DropGroup
         PROVE  /\ PeopleTyped' /\ group' = "deleted" /\ link' = "off"
                /\ expense' \in [Expenses -> [payer: Members \cup {"none"}, parts: SUBSET Members]]
                /\ named' = {} /\ incoming' = {}
    <3>1. \A S : <<>> \in Seq(S)
      OBVIOUS
    <3> QED
      BY <1>1, <2>10, <3>1 DEF DropGroup, PeopleTyped, NoExpense
  <2>11. CASE DeleteGroup(u)
    BY <1>1, <2>10, <2>11 DEF DeleteGroup, TypeOK, PeopleTyped, NoRequest
  <2>12. CASE DeleteAccount(u)
    <3> USE <1>1, <2>12 DEF TypeOK, PeopleTyped, NoRequest
    <3>1. CASE DropGroup /\ request' = [v \in Accounts |-> NoRequest]
      BY <2>10, <3>1 DEF DeleteAccount
    <3>2. ASSUME NEW m \in InGroup, IsHeldBy(m, u), RemoveAccount(u, m),
                 request' = [request EXCEPT ![u] = NoRequest], UNCHANGED <<group, link, ledger>>
          PROVE  TypeOK'
      <4>1. PeopleTyped'
        BY <2>8, <3>2
      <4> QED
        BY <3>2, <4>1 DEF DeleteAccount
    <3>3. CASE request' = [request EXCEPT ![u] = NoRequest]
               /\ UNCHANGED <<group, link, people, address, ledger>>
      BY <3>3 DEF DeleteAccount
    <3> QED
      BY <3>1, <3>2, <3>3 DEF DeleteAccount
  <2> QED
    BY <1>3, <2>1, <2>2, <2>3, <2>4, <2>5, <2>6, <2>7, <2>9, <2>11, <2>12 DEF Door
<1>4. ASSUME NEW u \in Accounts, Ledger(u) PROVE TypeOK'
  <2> USE <1>1 DEF TypeOK, NoCall, InGroup
  <2>1. ASSUME NEW m \in Members, AddMember(u, m) PROVE TypeOK'
    BY <2>1 DEF AddMember
  <2>2. ASSUME NEW m \in Members, RemoveMember(u, m) PROVE TypeOK'
    BY <2>2 DEF RemoveMember
  <2>3. ASSUME NEW m \in Members, BeginAddress(u, m) PROVE TypeOK'
    BY <2>3 DEF BeginAddress
  <2>4. CASE SetAddress(u)
    <3>1. \A m \in Members : SetBy(u, m) \in {"none", "typed", "own", "late"}
      BY DEF SetBy
    <3>2. address' \in [Members -> {"none", "typed", "own", "late"}]
      BY <2>4, <3>1 DEF SetAddress
    <3> QED
      BY <2>4, <3>2 DEF SetAddress
  <2>5. ASSUME NEW op \in {"member", "expense", "approval"}, ReadGroup(u, op) PROVE TypeOK'
    BY <2>5 DEF ReadGroup
  <2>6. ASSUME NEW e \in Expenses, DeleteExpense(u, e) PROVE TypeOK'
    BY <2>6 DEF DeleteExpense, NoExpense
  <2>7. ASSUME NEW e \in Expenses, NEW payer \in call[u].known, NEW parts \in SUBSET call[u].known,
               AddExpense(u, e, payer, parts) \/ EditExpense(u, e, payer, parts)
        PROVE  TypeOK'
    <3>1. payer \in Members /\ parts \subseteq Members
      OBVIOUS
    <3>2. [payer |-> payer, parts |-> parts] \in [payer: Members \cup {"none"}, parts: SUBSET Members]
      BY <3>1
    <3>3. expense' \in {expense, [expense EXCEPT ![e] = [payer |-> payer, parts |-> parts]]}
      BY <2>7 DEF AddExpense, EditExpense
    <3>4. expense' \in [Expenses -> [payer: Members \cup {"none"}, parts: SUBSET Members]]
      <4> HIDE DEF TypeOK
      <4>1. expense \in [Expenses -> [payer: Members \cup {"none"}, parts: SUBSET Members]]
        BY <1>1 DEF TypeOK
      <4> QED
        BY <3>2, <3>3, <4>1
    <3>5. call' = [call EXCEPT ![u] = NoCall]
          /\ UNCHANGED <<accounts, group, link, approve, people, address, named, incoming, request>>
      BY <2>7 DEF AddExpense, EditExpense
    <3> QED
      BY <3>4, <3>5
  <2> QED
    BY <1>4, <2>1, <2>2, <2>3, <2>4, <2>5, <2>6, <2>7 DEF Ledger
<1>5. ASSUME NEW from \in Members, NEW to \in Members, StartPayment(from, to) PROVE TypeOK'
  BY <1>1, <1>5 DEF StartPayment, TypeOK
<1>6. ASSUME NEW to \in Members, EndPayment(to) PROVE TypeOK'
  BY <1>1, <1>6 DEF EndPayment, TypeOK
<1> QED
  BY <1>2, <1>3, <1>4, <1>5, <1>6 DEF Next

\* An expense is written over nobody's in the group but the payer's.
LEMMA WritingKeeps ==
    ASSUME IInv, TypeOK', NEW e \in Expenses, NEW x,
           expense' = [expense EXCEPT ![e] = x], x.payer = "none" \/ x.payer \in InGroup,
           UNCHANGED <<accounts, group, link, approve, people, address, named, incoming, request>>
    PROVE  IInv'
<1>1. InGroup' = InGroup
  BY DEF InGroup, people
<1>2. \A d \in Expenses : expense'[d] = IF d = e THEN x ELSE expense[d]
  BY DEF IInv, EachIsOne, TypeOK
<1>3. PayersStay'
  BY <1>1, <1>2, MembersAssumption DEF IInv, PayersStay
<1> QED
  BY <1>3, PeopleStay DEF IInv, EachIsOne, RowsLineUp

LEMMA DoorKeeps ==
    ASSUME IInv, TypeOK', NEW u \in Accounts, Door(u)
    PROVE  IInv'
<1>1. TypeOK /\ AccountsLineUp /\ RowsLineUp /\ RequestsCanBeAnswered
  BY DEF IInv, EachIsOne, DoorIsKept
<1>2. ASSUME NEW m \in Members, Join(u, m) PROVE IInv'
  BY <1>2, ComingInKeeps DEF Join
<1>3. ASSUME NEW as \in Members \cup {"new"}, AskToJoin(u, as) PROVE IInv'
  <2>1. request'[u] = [status |-> "pending", as |-> as]
        /\ \A v \in Accounts : v # u => request'[v] = request[v]
    BY <1>1, <1>3 DEF AskToJoin, TypeOK
  <2>2. /\ u \in accounts /\ ~IsIn(u) /\ HasPlace(u) /\ as \in InGroup \cup {"new"}
        /\ UNCHANGED <<accounts, group, people, address, ledger>>
    BY <1>3 DEF AskToJoin
  <2>3. request'[u].status = "pending" /\ request'[u].as = as
    BY <2>1
  <2>4. request'[u].status # "none"
    BY <2>3
  <2> QED
    BY <2>1, <2>2, <2>3, <2>4, AskingKeeps
<1>4. CASE Withdraw(u)
  <2>1. request'[u] = NoRequest /\ \A v \in Accounts : v # u => request'[v] = request[v]
    BY <1>1, <1>4 DEF Withdraw, TypeOK
  <2> QED
    BY <1>4, <2>1, AskingKeeps DEF Withdraw
<1>5. ASSUME NEW v \in Accounts, Approve(u, v) PROVE IInv'
  <2>1. v \in accounts /\ group = "open" /\ ~IsIn(v)
    BY <1>1, <1>5 DEF RequestsCanBeAnswered, Approve, IsIn
  <2>2. PICK m \in Members : Admit(v, m) \/ AdmitNew(v, m)
    BY <1>5 DEF Approve, Admit, InGroup
  <2> QED
    BY <1>5, <2>1, <2>2, ComingInKeeps DEF Approve
<1>6. ASSUME NEW v \in Accounts, Decline(u, v) PROVE IInv'
  <2>1. request'[v].status = "declined" /\ \A w \in Accounts : w # v => request'[w] = request[w]
    BY <1>1, <1>6 DEF Decline, TypeOK
  <2>2. v \in accounts /\ ~IsIn(v)
    BY <1>1, <1>6 DEF RequestsCanBeAnswered, Decline
  <2> QED
    <3>1. UNCHANGED <<accounts, group, people, address, ledger>>
      BY <1>6 DEF Decline
    <3>2. /\ v \in accounts /\ ~IsIn(v)
          /\ request'[v].status # "none"
          /\ request'[v].status = "pending" =>
                HasPlace(v) /\ request'[v].as \in InGroup \cup {"new"}
      BY <2>1, <2>2
    <3>3. \A w \in Accounts : w # v => request'[w] = request[w]
      BY <2>1
    <3> QED
      BY <3>1, <3>2, <3>3, AskingKeeps
<1>7. CASE ChangeApproval(u) \/ ChangeLink(u)
  <2>1. UNCHANGED <<accounts, group, people, address, ledger, request>>
    BY <1>7 DEF ChangeApproval, ChangeLink
  <2>2. PayersStay'
    BY <2>1 DEF IInv, PayersStay, InGroup, people, ledger
  <2> QED
    BY <1>1, <2>1, <2>2, PeopleStay DEF RowsLineUp, ledger
<1>8. CASE Leave(u)
  BY <1>8, GoingKeeps DEF Leave
<1>9. CASE DeleteGroup(u)
  BY <1>9, DroppingKeeps DEF DeleteGroup
<1>10. CASE DeleteAccount(u)
  <2>1. CASE DropGroup /\ request' = [v \in Accounts |-> NoRequest]
    BY <2>1, DroppingKeeps
  <2>2. CASE /\ IsIn(u) /\ AccountCount > 1
             /\ \E m \in InGroup : IsHeldBy(m, u) /\ RemoveAccount(u, m)
             /\ request' = [request EXCEPT ![u] = NoRequest]
             /\ UNCHANGED <<group, link, ledger>>
    <3>1. accounts' = accounts \ {u}
      BY <1>10 DEF DeleteAccount
    <3> QED
      BY <2>2, <3>1, GoingKeeps
  <2>3. CASE /\ ~IsIn(u)
             /\ request' = [request EXCEPT ![u] = NoRequest]
             /\ UNCHANGED <<group, link, people, address, ledger>>
    <3>1. accounts' = accounts \ {u}
      BY <1>10 DEF DeleteAccount
    <3>2. \A n \in Members : u \notin AccountsOf(n)
      BY <1>1, <2>3, NotIn, GoneIsEmpty
    <3>3. InGroup' = InGroup /\ \A n \in Members : AccountsOf(n)' = AccountsOf(n)
      BY <2>3 DEF InGroup, AccountsOf, people
    <3>4. \A v \in Accounts : IsIn(v)' <=> IsIn(v)
      BY <2>3, <3>3 DEF IsIn, IsHeldBy, InGroup
    <3>5. \A v \in Accounts : request'[v] = IF v = u THEN NoRequest ELSE request[v]
      BY <1>1, <2>3 DEF TypeOK
    <3>6. IsFiniteSet(PendingOf)' /\ PendingCapped'
      <4>1. PendingOf' \subseteq PendingOf
        BY <3>5 DEF PendingOf, NoRequest
      <4> QED
        BY <4>1, FewerAsk DEF IInv, EachIsOne, RowsLineUp, DoorIsKept
    <3>7. GroupReachable'
      BY <1>1, <2>3, <3>1, <3>4 DEF IInv, DoorIsKept, GroupReachable, TypeOK
    <3>8. RequestsCanBeAnswered'
      BY <3>1, <3>3, <3>4, <3>5 DEF IInv, DoorIsKept, RequestsCanBeAnswered, NoRequest
    <3>9. RowsLineUp'
      BY <1>1, <2>3, <3>5, <3>6 DEF RowsLineUp, people, ledger
    <3>10. OneMemberPerAccount' /\ AccountsLineUp'
      BY <2>3, <3>1, <3>2, <3>3 DEF IInv, EachIsOne, OneMemberPerAccount, AccountsLineUp, people
    <3>11. PayersStay'
      BY <2>3, <3>3 DEF IInv, PayersStay, ledger
    <3> QED
      BY <3>6, <3>7, <3>8, <3>9, <3>10, <3>11 DEF IInv, EachIsOne, DoorIsKept
  <2> QED
    BY <1>10, <2>1, <2>2, <2>3 DEF DeleteAccount
<1> QED
  BY <1>2, <1>3, <1>4, <1>5, <1>6, <1>7, <1>8, <1>9, <1>10 DEF Door

LEMMA LedgerKeeps ==
    ASSUME IInv, TypeOK', NEW u \in Accounts, Ledger(u)
    PROVE  IInv'
<1>1. TypeOK /\ AccountsLineUp /\ RowsLineUp /\ RequestsCanBeAnswered /\ PayersStay
  BY DEF IInv, EachIsOne, DoorIsKept
<1>2. ASSUME NEW m \in Members, AddMember(u, m) PROVE IInv'
  <2>1. seat'[m] = "in" /\ \A n \in Members : n # m => seat'[n] = seat[n]
    BY <1>1, <1>2 DEF AddMember, TypeOK
  <2>2. InGroup' = InGroup \cup {m}
    BY <2>1 DEF InGroup
  <2>3. \A n \in Members : AccountsOf(n)' = AccountsOf(n)
    BY <1>2 DEF AddMember, AccountsOf
  <2>4. AccountsOf(m) = {}
    BY <1>1, <1>2 DEF AccountsLineUp, AddMember
  <2>5. \A v \in Accounts : IsIn(v)' <=> IsIn(v)
    BY <1>2, <2>2, <2>3, <2>4 DEF AddMember, IsIn, IsHeldBy, InGroup
  <2>6. EachIsOne'
    BY <1>1, <1>2, <2>1, <2>3 DEF IInv, EachIsOne, OneMemberPerAccount, AccountsLineUp, RowsLineUp,
       AddMember, PendingOf, ledger
  <2>7. DoorIsKept'
    BY <1>1, <1>2, <2>2, <2>5 DEF IInv, DoorIsKept, GroupReachable, RequestsCanBeAnswered,
       PendingCapped, PendingOf, AddMember, TypeOK
  <2>8. PayersStay'
    BY <1>1, <1>2, <2>2 DEF PayersStay, AddMember, ledger
  <2> QED
    BY <2>6, <2>7, <2>8 DEF IInv
<1>3. ASSUME NEW m \in Members, RemoveMember(u, m) PROVE IInv'
  <2>1. seat'[m] = "removed" /\ \A n \in Members : n # m => seat'[n] = seat[n]
    BY <1>1, <1>3 DEF RemoveMember, TypeOK
  <2>2. InGroup' = InGroup \ {m}
    BY <2>1 DEF InGroup
  <2>3. \A n \in Members : AccountsOf(n)' = AccountsOf(n)
    BY <1>3 DEF RemoveMember, AccountsOf
  <2>4. AccountsOf(m) = {}
    BY <1>3 DEF RemoveMember, AccountsOf, IsGhost
  <2>5. \A v \in Accounts : IsIn(v)' <=> IsIn(v)
    BY <1>3, <2>2, <2>3, <2>4 DEF RemoveMember, IsIn, IsHeldBy, InGroup
  <2>6. \A v \in Accounts : request'[v] = IF request[v].as = m
                                        THEN [status |-> "declined", as |-> "none"] ELSE request[v]
    BY <1>3 DEF RemoveMember
  <2>7. \A v \in Accounts : request[v].as = m => request[v].status # "none"
    BY <1>1, MembersAssumption DEF RowsLineUp, NoRequest
  <2>8. IsFiniteSet(PendingOf)' /\ PendingCapped'
    <3>1. PendingOf' \subseteq PendingOf
      BY <2>6 DEF PendingOf
    <3> QED
      BY <1>1, <3>1, FewerAsk DEF IInv, RowsLineUp, DoorIsKept
  <2>9. RowsLineUp'
    BY <1>1, <1>3, <2>1, <2>6, <2>7, <2>8 DEF RowsLineUp, RemoveMember, ledger
  <2>10. OneMemberPerAccount' /\ AccountsLineUp'
    BY <1>3, <2>1, <2>3, <2>4 DEF IInv, EachIsOne, OneMemberPerAccount, AccountsLineUp, RemoveMember
  <2>11. RequestsCanBeAnswered'
    <3> SUFFICES ASSUME NEW v \in Accounts, request'[v].status # "none"
                 PROVE  /\ v \in accounts /\ ~IsIn(v)
                        /\ request'[v].status = "pending" => request'[v].as \in (InGroup \ {m}) \cup {"new"}
      BY <1>3, <2>2, <2>5 DEF RequestsCanBeAnswered, RemoveMember
    <3>1. request[v].status # "none"
      BY <2>6, <2>7
    <3> QED
      BY <1>1, <2>6, <3>1 DEF RequestsCanBeAnswered
  <2>12. GroupReachable'
    BY <1>1, <1>3, <2>5 DEF IInv, DoorIsKept, GroupReachable, RemoveMember, TypeOK
  <2>13. PayersStay'
    <3>1. m \notin named /\ m \notin incoming /\ \A e \in Expenses : expense[e].payer # m
      BY <1>1, <1>3 DEF RemoveMember, HasHistory, RowsLineUp
    <3> QED
      BY <1>1, <1>3, <2>2, <3>1 DEF PayersStay, RemoveMember, ledger
  <2> QED
    BY <2>8, <2>9, <2>10, <2>11, <2>12, <2>13 DEF IInv, EachIsOne, DoorIsKept
<1>4. ASSUME NEW m \in Members, BeginAddress(u, m) PROVE IInv'
  <2>1. PayersStay'
    BY <1>1, <1>4 DEF BeginAddress, PayersStay, InGroup, people, ledger
  <2> QED
    BY <1>1, <1>4, <2>1, PeopleStay DEF BeginAddress, RowsLineUp, ledger
<1>5. CASE SetAddress(u)
  <2>1. PayersStay'
    BY <1>1, <1>5 DEF SetAddress, PayersStay, InGroup, people, ledger
  <2>2. \A m \in Members : seat[m] = "unused" => address'[m] = "none"
    BY <1>1, <1>5 DEF SetAddress, RowsLineUp, InGroup, TypeOK
  <2> QED
    BY <1>1, <1>5, <2>1, <2>2, PeopleStay DEF SetAddress, RowsLineUp, ledger
<1>6. ASSUME NEW op \in {"member", "expense", "approval"}, ReadGroup(u, op) PROVE IInv'
  <2>1. PayersStay'
    BY <1>1, <1>6 DEF ReadGroup, PayersStay, InGroup, people, ledger
  <2> QED
    BY <1>1, <1>6, <2>1, PeopleStay DEF ReadGroup, RowsLineUp, ledger
<1>7. ASSUME NEW e \in Expenses, DeleteExpense(u, e) PROVE IInv'
  BY <1>7, WritingKeeps DEF DeleteExpense, NoExpense
<1>8. ASSUME NEW e \in Expenses, NEW payer \in call[u].known, NEW parts \in SUBSET call[u].known,
             AddExpense(u, e, payer, parts) \/ EditExpense(u, e, payer, parts)
      PROVE  IInv'
  <2>1. UNCHANGED <<accounts, group, link, approve, people, address, named, incoming, request>>
    BY <1>8 DEF AddExpense, EditExpense
  <2>2. CASE expense' = [expense EXCEPT ![e] = [payer |-> payer, parts |-> parts]] /\ payer \in InGroup
    BY <2>1, <2>2, WritingKeeps
  <2>3. CASE expense' = expense
    <3>1. PayersStay'
      BY <1>1, <2>1, <2>3 DEF PayersStay, InGroup, people
    <3> QED
      BY <1>1, <2>1, <3>1, PeopleStay DEF RowsLineUp
  <2> QED
    BY <1>8, <2>2, <2>3 DEF AddExpense, EditExpense
<1> QED
  BY <1>2, <1>3, <1>4, <1>5, <1>6, <1>7, <1>8 DEF Ledger

\* IInv is inductive.
LEMMA NextKeeps == IInv /\ [Next]_vars => IInv'
<1> SUFFICES ASSUME IInv, [Next]_vars PROVE IInv'
  OBVIOUS
<1>1. TypeOK'
  BY NextTyped
<1>2. PayersStay /\ RowsLineUp
  BY DEF IInv, EachIsOne
<1>3. CASE UNCHANGED vars
  <2>1. PayersStay'
    BY <1>2, <1>3 DEF vars, PayersStay, InGroup
  <2> QED
    BY <1>1, <1>2, <1>3, <2>1, PeopleStay DEF vars, people, RowsLineUp
<1>4. ASSUME NEW u \in Accounts, Door(u) \/ Ledger(u) PROVE IInv'
  BY <1>1, <1>4, DoorKeeps, LedgerKeeps
<1>5. ASSUME NEW from \in Members, NEW to \in Members, StartPayment(from, to) PROVE IInv'
  <2>1. PayersStay'
    BY <1>2, <1>5 DEF StartPayment, PayersStay, InGroup, people
  <2> QED
    BY <1>1, <1>2, <1>5, <2>1, PeopleStay DEF StartPayment, RowsLineUp
<1>6. ASSUME NEW to \in Members, EndPayment(to) PROVE IInv'
  <2>1. PayersStay'
    BY <1>2, <1>6 DEF EndPayment, PayersStay, InGroup, people
  <2> QED
    BY <1>1, <1>2, <1>6, <2>1, PeopleStay DEF EndPayment, RowsLineUp
<1> QED
  BY <1>3, <1>4, <1>5, <1>6 DEF Next

THEOREM Inductive == Spec => []IInv
BY InitKeeps, NextKeeps, PTL DEF Spec

\* One account is one member, and the two tables that say so agree, whatever way
\* accounts came in, in whatever order, and left.
THEOREM EachStaysOne == Spec => []EachIsOne
<1>1. IInv => EachIsOne
  BY DEF IInv
<1> QED
  BY <1>1, Inductive, PTL

\* A group that is not deleted can be opened by some account, and whoever waits to
\* be let in can be, whoever left, was removed or was deleted meanwhile.
THEOREM DoorStaysKept == Spec => []DoorIsKept
<1>1. IInv => DoorIsKept
  BY DEF IInv
<1> QED
  BY <1>1, Inductive, PTL

\* Whom the ledger names as paying or paid stays in the group, also by what was
\* checked against a group read before its body arrived.
THEOREM PayersAlwaysStay == Spec => []PayersStay
<1>1. IInv => PayersStay
  BY DEF IInv
<1> QED
  BY <1>1, Inductive, PTL

-----------------------------------------------------------------------------
(* Who a payment is on its way to.                                         *)

KeepsPlace ==
    \A m \in incoming : group' = group /\ AccountsOf(m) \subseteq AccountsOf(m)' \cap accounts'

StartsWithout ==
    \A m \in Members : IsGhost(m) /\ ~IsGhost(m)' => address'[m] = "none"

LEMMA SamePeopleAreSafe ==
    ASSUME IInv, UNCHANGED <<accounts, group, first, others>>
    PROVE  KeepsPlace /\ StartsWithout
<1>1. \A m \in incoming : AccountsOf(m) \subseteq accounts
  BY DEF IInv, EachIsOne, TypeOK, AccountsLineUp
<1> QED
  BY <1>1 DEF KeepsPlace, StartsWithout, AccountsOf, IsGhost

LEMMA ComingInIsSafe ==
    ASSUME IInv, NEW u \in Accounts, u \in accounts, ~IsIn(u), NEW m \in Members,
           group = "open", Admit(u, m) \/ AdmitNew(u, m), UNCHANGED <<accounts, group>>
    PROVE  KeepsPlace /\ StartsWithout
<1>1. PeopleTyped /\ OneMemberPerAccount /\ AccountsLineUp /\ RowsLineUp /\ TypeOK
  BY DEF IInv, EachIsOne, TypeOK, PeopleTyped
<1>2. \A n \in Members : u \notin AccountsOf(n)
  BY <1>1, NotIn
<1>3. /\ \A n \in Members : AccountsOf(n)' = AccountsOf(n) \cup (IF n = m THEN {u} ELSE {})
      /\ address'[m] = "none" \/ ~IsGhost(m) \/ seat[m] = "unused"
      /\ address'[m] \in {"none", address[m]}
  BY <1>1, <1>2, Admitted
<1>4. KeepsPlace
  BY <1>1, <1>3 DEF KeepsPlace, TypeOK, AccountsLineUp
<1>5. \A n \in Members : n # m => AccountsOf(n)' = AccountsOf(n)
  BY <1>3
<1>6. \A n \in Members : (IsGhost(n) <=> AccountsOf(n) = {}) /\ (IsGhost(n)' <=> AccountsOf(n)' = {})
  BY DEF IsGhost, AccountsOf
<1>7. StartsWithout
  BY <1>1, <1>3, <1>5, <1>6 DEF StartsWithout, RowsLineUp
<1> QED
  BY <1>4, <1>7

\* Leaving, or being deleted.
LEMMA GoingIsSafe ==
    ASSUME IInv, NEW u \in Accounts, NothingIncoming(u), NEW m \in InGroup, IsHeldBy(m, u),
           RemoveAccount(u, m), UNCHANGED group, accounts' \in {accounts, accounts \ {u}}
    PROVE  KeepsPlace /\ StartsWithout
<1>1. PeopleTyped /\ OneMemberPerAccount /\ AccountsLineUp /\ TypeOK /\ m \in Members
  BY DEF IInv, EachIsOne, TypeOK, PeopleTyped, InGroup
<1>2. \A n \in Members : AccountsOf(n)' = AccountsOf(n) \ {u}
  BY <1>1, AccountGone
<1>3. \A n \in incoming : u \notin AccountsOf(n) /\ n \in Members /\ AccountsOf(n) \subseteq accounts
  BY <1>1 DEF NothingIncoming, IsHeldBy, TypeOK, AccountsLineUp
<1>4. KeepsPlace
  BY <1>2, <1>3 DEF KeepsPlace
<1>5. \A n \in Members : (IsGhost(n) <=> AccountsOf(n) = {}) /\ (IsGhost(n)' <=> AccountsOf(n)' = {})
  BY DEF IsGhost, AccountsOf
<1>6. StartsWithout
  BY <1>2, <1>5 DEF StartsWithout
<1> QED
  BY <1>4, <1>6

\* A group goes only while nobody in it is being paid.
LEMMA DroppingIsSafe ==
    ASSUME DropGroup, incoming = {}
    PROVE  KeepsPlace /\ StartsWithout
BY DEF DropGroup, KeepsPlace, StartsWithout, IsGhost

LEMMA StepIsSafe ==
    ASSUME IInv, [Next]_vars
    PROVE  KeepsPlace /\ StartsWithout
<1>1. CASE UNCHANGED vars
  BY <1>1, SamePeopleAreSafe DEF vars
<1>2. ASSUME NEW u \in Accounts, Door(u) PROVE KeepsPlace /\ StartsWithout
  <2>1. ASSUME NEW m \in Members, Join(u, m) PROVE KeepsPlace /\ StartsWithout
    BY <2>1, ComingInIsSafe DEF Join
  <2>2. ASSUME NEW v \in Accounts, Approve(u, v) PROVE KeepsPlace /\ StartsWithout
    <3>1. v \in accounts /\ group = "open" /\ ~IsIn(v)
      BY <2>2 DEF IInv, DoorIsKept, RequestsCanBeAnswered, Approve, IsIn
    <3>2. PICK m \in Members : Admit(v, m) \/ AdmitNew(v, m)
      BY <2>2 DEF Approve, Admit, InGroup
    <3> QED
      BY <2>2, <3>1, <3>2, ComingInIsSafe DEF Approve
  <2>3. CASE Leave(u)
    BY <2>3, GoingIsSafe DEF Leave
  <2>4. CASE DeleteGroup(u)
    BY <2>4, DroppingIsSafe DEF DeleteGroup
  <2>5. CASE DeleteAccount(u)
    <3>1. NothingIncoming(u) /\ accounts' = accounts \ {u}
      BY <2>5 DEF DeleteAccount
    <3>2. CASE IsIn(u) /\ DropGroup /\ incoming = {}
      BY <3>2, DroppingIsSafe
    <3>3. CASE /\ \E m \in InGroup : IsHeldBy(m, u) /\ RemoveAccount(u, m)
               /\ UNCHANGED group
      BY <3>1, <3>3, GoingIsSafe
    <3>4. CASE UNCHANGED <<group, people>>
      <4>1. \A m \in incoming : u \notin AccountsOf(m) /\ AccountsOf(m) \subseteq accounts
        BY <3>1 DEF IInv, EachIsOne, TypeOK, AccountsLineUp, NothingIncoming, IsHeldBy
      <4>2. \A m \in Members : AccountsOf(m)' = AccountsOf(m) /\ (IsGhost(m)' <=> IsGhost(m))
        BY <3>4 DEF people, AccountsOf, IsGhost
      <4> QED
        BY <3>1, <3>4, <4>1, <4>2 DEF KeepsPlace, StartsWithout, IInv, EachIsOne, TypeOK
    <3> QED
      BY <2>5, <3>2, <3>3, <3>4 DEF DeleteAccount
  <2>6. CASE UNCHANGED <<accounts, group, people>>
    BY <2>6, SamePeopleAreSafe DEF people
  <2> QED
    BY <1>2, <2>1, <2>2, <2>3, <2>4, <2>5, <2>6
    DEF Door, AskToJoin, Withdraw, Decline, ChangeApproval, ChangeLink
<1>3. ASSUME NEW u \in Accounts, Ledger(u)
      PROVE  UNCHANGED <<accounts, group, first, others>>
  BY <1>3 DEF Ledger, AddMember, RemoveMember, BeginAddress, SetAddress, ReadGroup, DeleteExpense,
     AddExpense, EditExpense, people
<1>4. ASSUME NEW from \in Members, NEW to \in Members, StartPayment(from, to) \/ EndPayment(to)
      PROVE  UNCHANGED <<accounts, group, first, others>>
  BY <1>4 DEF StartPayment, EndPayment, people
<1> QED
  BY <1>1, <1>2, <1>3, <1>4, SamePeopleAreSafe DEF Next

-----------------------------------------------------------------------------
(* What was typed for a ghost.                                             *)

\* Only PUT /members/:id/payout-address gives a member an address.
OnlySet ==
    \A m \in Members : \/ address'[m] \in {address[m], "none"}
                       \/ address'[m] = "typed" => IsGhost(m)'

LEMMA AdmittedOnlySets ==
    ASSUME TypeOK, NEW u, NEW m \in Members, Admit(u, m) \/ AdmitNew(u, m)
    PROVE  OnlySet
BY DEF TypeOK, Admit, AdmitNew, OnlySet

LEMMA StepOnlySets ==
    ASSUME IInv, [Next]_vars
    PROVE  OnlySet
<1>1. TypeOK
  BY DEF IInv, EachIsOne
<1>2. UNCHANGED address => OnlySet
  BY DEF OnlySet
<1>3. CASE UNCHANGED vars
  BY <1>2, <1>3 DEF vars
<1>4. ASSUME NEW u \in Accounts, Door(u) PROVE OnlySet
  <2>1. ASSUME NEW m \in Members, Join(u, m) PROVE OnlySet
    BY <1>1, <2>1, AdmittedOnlySets DEF Join
  <2>2. ASSUME NEW v \in Accounts, Approve(u, v) PROVE OnlySet
    <3>1. PICK m \in Members : Admit(v, m) \/ AdmitNew(v, m)
      BY <2>2 DEF Approve, Admit, InGroup
    <3> QED
      BY <1>1, <3>1, AdmittedOnlySets
  <2>3. CASE DropGroup
    BY <2>3 DEF DropGroup, OnlySet
  <2>4. CASE DeleteGroup(u) \/ DeleteAccount(u) \/ Leave(u)
    BY <1>2, <2>3, <2>4 DEF DeleteGroup, DeleteAccount, Leave, RemoveAccount
  <2> QED
    BY <1>2, <1>4, <2>1, <2>2, <2>4
    DEF Door, AskToJoin, Withdraw, Decline, ChangeApproval, ChangeLink
<1>5. ASSUME NEW u \in Accounts, Ledger(u) PROVE OnlySet
  <2>1. CASE SetAddress(u)
    BY <2>1 DEF SetAddress, SetBy, OnlySet, IsGhost, people
  <2> QED
    BY <1>2, <1>5, <2>1 DEF Ledger, AddMember, RemoveMember, BeginAddress, ReadGroup,
       DeleteExpense, AddExpense, EditExpense
<1>6. ASSUME NEW from \in Members, NEW to \in Members, StartPayment(from, to) \/ EndPayment(to)
      PROVE  OnlySet
  BY <1>2, <1>6 DEF StartPayment, EndPayment
<1> QED
  BY <1>3, <1>4, <1>5, <1>6 DEF Next

LEMMA TypedStays ==
    ASSUME IInv, TypedIsForGhosts, [Next]_vars
    PROVE  TypedIsForGhosts'
<1> SUFFICES ASSUME NEW m \in Members, address'[m] = "typed", ~IsGhost(m)' PROVE FALSE
  BY DEF TypedIsForGhosts
<1>1. address[m] = "typed"
  BY StepOnlySets DEF OnlySet
<1>2. IsGhost(m)
  BY <1>1 DEF TypedIsForGhosts
<1> QED
  BY <1>2, StepIsSafe DEF StartsWithout

\* Who is being paid stays who they are: nobody leaves, and no account or group is
\* deleted, under a payment on its way. Whoever joins starts without an address, and
\* what was typed for a ghost is never a joined member's.
THEOREM PayeeStaysSafe == Spec => PayeeIsSafe
<1>1. IInv /\ [Next]_vars => [KeepsPlace]_vars
  BY StepIsSafe
<1>2. IInv /\ [Next]_vars => [StartsWithout]_vars
  BY StepIsSafe
<1>3. Init => TypedIsForGhosts
  BY DEF Init, TypedIsForGhosts
<1>4. IInv /\ TypedIsForGhosts /\ [Next]_vars => TypedIsForGhosts'
  BY TypedStays
<1>5. Spec => [][KeepsPlace]_vars /\ [][StartsWithout]_vars /\ []TypedIsForGhosts
  BY <1>1, <1>2, <1>3, <1>4, Inductive, PTL DEF Spec
<1>6. PayeeIsSafe <=> [][KeepsPlace]_vars /\ [][StartsWithout]_vars /\ []TypedIsForGhosts
  BY DEF PayeeIsSafe, PayeeStays, JoiningClearsAddress, KeepsPlace, StartsWithout
<1> QED
  BY <1>5, <1>6
=============================================================================
