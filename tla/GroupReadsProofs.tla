-------------------------- MODULE GroupReadsProofs --------------------------
(***************************************************************************)
(* Proofs about GroupReads: that the server's "unchanged" is only ever     *)
(* said of what the copy has, and that the group's screen shows what the   *)
(* user was last told, for all groups, bounds and lengths of what waits.   *)
(***************************************************************************)
EXTENDS GroupReads, FiniteSetTheorems, WellFoundedInduction, TLAPS

-----------------------------------------------------------------------------
(* That versions are true for all groups and bounds.  The strengthening is *)
(* what AppData relies on without saying: the first sync is for everything *)
(* and an answer is of exactly what was asked.                             *)

ScopeOrNone == Scopes \cup {{}}

SyncInv ==
    /\ versions = [s \in Scopes |-> versions[s]]
    /\ copy = None \/ copy = [g \in Groups |-> copy[g]]
    /\ running = [scope |-> running.scope, sent |-> running.sent,
                  back |-> running.back, answer |-> running.answer]
    /\ running.scope \in ScopeOrNone /\ queued \in ScopeOrNone
    /\ running # Idle => running.scope # {}
    /\ running.back =>
          running.scope # {} /\ running.answer = [g \in running.scope |-> running.answer[g]]
    /\ copy = None => running.scope \in {{}, Groups} /\ \A s \in Scopes : versions[s] = None
    /\ VersionsAreTrue

\* Scopes add up to scopes, and nothing is mistaken for something.
LEMMA ScopeFacts ==
    /\ \A a, b \in ScopeOrNone : a \cup b \in ScopeOrNone
    /\ \A g \in Groups : {g} \cup {Here} \in Scopes
    /\ {Here} \in Scopes /\ Groups \in Scopes /\ {} \notin Scopes
    /\ \A s \in Scopes : s \subseteq Groups
    /\ \A v : [g \in Groups |-> v[g]] # None
BY DEF ScopeOrNone, Scopes, Groups, None

\* What is sent is of a scope, and everything while nothing is known.
LEMMA StartIsWhole ==
    ASSUME NEW scope \in Scopes, Start(scope)
    PROVE  /\ running' = [scope |-> running'.scope, sent |-> running'.sent,
                          back |-> running'.back, answer |-> running'.answer]
           /\ running'.scope \in ScopeOrNone /\ running'.scope # {}
           /\ running'.back = FALSE
           /\ copy' = None => running'.scope \in {{}, Groups}
BY ScopeFacts DEF Start, Idle, ScopeOrNone

\* Asking leaves the rest as it is.
LEMMA AskKeeps ==
    ASSUME SyncInv, NEW scope \in Scopes, Ask(scope), copy' = copy, versions' = versions
    PROVE  SyncInv'
<1>1. CASE running = Idle
  <2>1. Start(scope) /\ queued' = queued
    BY <1>1 DEF Ask
  <2>2. /\ running' = [scope |-> running'.scope, sent |-> running'.sent,
                       back |-> running'.back, answer |-> running'.answer]
        /\ running'.scope \in ScopeOrNone /\ running'.scope # {}
        /\ running'.back = FALSE
        /\ copy' = None => running'.scope \in {{}, Groups}
    BY <2>1, StartIsWhole
  <2> QED
    BY <2>1, <2>2 DEF SyncInv, VersionsAreTrue
<1>2. CASE running # Idle
  <2>1. running' = running /\ queued' = queued \cup scope
    BY <1>2 DEF Ask
  <2> QED
    BY <2>1, ScopeFacts DEF SyncInv, VersionsAreTrue, ScopeOrNone
<1> QED
  BY <1>1, <1>2

\* After a sync the next one starts, from a copy and versions that agree.
LEMMA FinishKeeps ==
    ASSUME SyncInv, NEW used, NEW failed, Finish(used, failed),
           versions' = [s \in Scopes |-> versions'[s]],
           copy' = None \/ copy' = [g \in Groups |-> copy'[g]],
           copy' = None => \A s \in Scopes : versions'[s] = None,
           VersionsAreTrue'
    PROVE  SyncInv'
<1>1. CASE queued = {}
  <2>1. running' = Idle /\ queued' = queued
    BY <1>1 DEF Finish
  <2> QED
    BY <1>1, <2>1 DEF SyncInv, Idle, ScopeOrNone
<1>2. CASE queued # {}
  <2>1. queued \in Scopes /\ Start(queued) /\ queued' = {}
    BY <1>2 DEF Finish, SyncInv, ScopeOrNone
  <2>2. /\ running' = [scope |-> running'.scope, sent |-> running'.sent,
                       back |-> running'.back, answer |-> running'.answer]
        /\ running'.scope \in ScopeOrNone /\ running'.scope # {}
        /\ running'.back = FALSE
        /\ copy' = None => running'.scope \in {{}, Groups}
    BY <2>1, StartIsWhole
  <2>3. queued' \in ScopeOrNone
    BY <2>1 DEF ScopeOrNone
  <2> QED
    BY <2>2, <2>3 DEF SyncInv
<1> QED
  BY <1>1, <1>2

LEMMA InitSync == Init => SyncInv
BY ScopeFacts DEF Init, SyncInv, VersionsAreTrue, Idle, ScopeOrNone

\* An answer replaces the copy of what it is about, and the versions with it.
LEMMA UseKeeps == SyncInv /\ UseAnswer => SyncInv'
<1> SUFFICES ASSUME SyncInv, UseAnswer PROVE SyncInv'
  OBVIOUS
<1>0. Finish(TRUE, FALSE)
  BY DEF UseAnswer
<1>1. CASE Unchanged
  <2>1. copy' = copy /\ versions' = versions
    BY <1>1 DEF UseAnswer
  <2> QED
    BY <1>0, <2>1, FinishKeeps DEF SyncInv, VersionsAreTrue
<1>2. CASE ~Unchanged
  <2> DEFINE scope == running.scope
             answer == running.answer
  <2>1. /\ copy' = Merge(answer)
        /\ versions' = [OtherVersions(copy') EXCEPT ![scope] = answer]
        /\ running.back
    BY <1>2 DEF UseAnswer
  <2>2. scope \in Scopes /\ answer = [g \in scope |-> answer[g]]
    BY <2>1 DEF SyncInv, ScopeOrNone
  <2>3. copy' = [g \in Groups |-> IF g \in scope THEN answer[g] ELSE copy[g]]
    BY <2>1, <2>2 DEF Merge
  <2>4. copy' # None /\ copy' = [g \in Groups |-> copy'[g]]
    BY <2>3, ScopeFacts
  <2>5. versions' = [s \in Scopes |-> versions'[s]]
    BY <2>1 DEF OtherVersions, SyncInv
  <2>6. answer = [g \in scope |-> copy'[g]]
    BY <2>2, <2>3, ScopeFacts
  <2>7. ASSUME NEW s \in Scopes, versions'[s] # None
        PROVE  versions'[s] = [g \in s |-> copy'[g]]
    <3>1. CASE s = scope
      BY <2>1, <2>2, <2>6, <3>1 DEF OtherVersions, SyncInv
    <3>2. CASE s # scope /\ copy' = copy
      BY <2>1, <2>7, <3>2 DEF OtherVersions, SyncInv, VersionsAreTrue
    <3>3. CASE s # scope /\ copy' # copy
      BY <2>1, <2>7, <3>3 DEF OtherVersions
    <3> QED
      BY <3>1, <3>2, <3>3
  <2>8. VersionsAreTrue'
    BY <2>7 DEF VersionsAreTrue
  <2> QED
    BY <1>0, <2>4, <2>5, <2>8, FinishKeeps
<1> QED
  BY <1>1, <1>2

\* Every step keeps it: those of the screen and of the server leave AppData
\* alone or ask for a sync.
LEMMA NextSync == SyncInv /\ [Next]_vars => SyncInv'
<1> SUFFICES ASSUME SyncInv, [Next]_vars PROVE SyncInv'
  OBVIOUS
<1> USE DEF appVars, screenVars, writeVars
<1>1. CASE UNCHANGED appVars
  BY <1>1 DEF SyncInv, VersionsAreTrue
<1>2. CASE ServeSync
  <2>1. /\ UNCHANGED <<copy, versions, queued>> /\ running # Idle
        /\ running' = [running EXCEPT !.back = TRUE, !.answer = Snapshot(running.scope)]
    BY <1>2 DEF ServeSync
  <2>2. /\ running' = [scope |-> running'.scope, sent |-> running'.sent,
                       back |-> TRUE, answer |-> running'.answer]
        /\ running'.scope = running.scope
        /\ running'.answer = [g \in running.scope |-> running'.answer[g]]
    BY <2>1 DEF SyncInv, Snapshot
  <2> QED
    BY <2>1, <2>2 DEF SyncInv, VersionsAreTrue
<1>3. CASE SyncFails
  <2>1. Finish(FALSE, TRUE) /\ copy' = copy /\ versions' = versions
    BY <1>3 DEF SyncFails
  <2> QED
    BY <2>1, FinishKeeps DEF SyncInv, VersionsAreTrue
<1>4. CASE SetAside
  <2>1. Finish(FALSE, FALSE) /\ copy' = copy /\ versions' = versions
    BY <1>4 DEF SetAside
  <2> QED
    BY <2>1, FinishKeeps DEF SyncInv, VersionsAreTrue
<1>5. CASE Hydrate
  <2>1. /\ copy' \in {copy, None} /\ running' = Idle /\ queued' = {}
        /\ versions' = [[s \in Scopes |-> None] EXCEPT
                ![Groups] = IF copy' = None THEN None ELSE versions[Groups]]
    BY <1>5 DEF Hydrate
  <2>2. Idle.scope = {} /\ Idle.back = FALSE
        /\ Idle = [scope |-> Idle.scope, sent |-> Idle.sent, back |-> Idle.back, answer |-> Idle.answer]
    BY DEF Idle
  <2> QED
    BY <2>1, <2>2, ScopeFacts DEF SyncInv, VersionsAreTrue, ScopeOrNone
<1>6. ASSUME NEW scope \in Scopes, Ask(scope), copy' = copy, versions' = versions
      PROVE  SyncInv'
  BY <1>6, AskKeeps
<1>7. CASE Open \/ AskAgain \/ Answered
  <2>1. Ask({Here}) /\ copy' = copy /\ versions' = versions
    BY <1>7 DEF Open, AskAgain, Answered
  <2> QED
    BY <2>1, <1>6, ScopeFacts
<1>8. CASE NotAnswered
  <2>1. copy' = copy /\ versions' = versions /\ (Ask({Here}) \/ UNCHANGED <<running, queued>>)
    BY <1>8 DEF NotAnswered
  <2> QED
    BY <2>1, <1>1, <1>6, ScopeFacts DEF NotAnswered, SyncInv, VersionsAreTrue
<1>9. ASSUME NEW scope \in Scopes, Poll(scope) PROVE SyncInv'
  BY <1>9, <1>6 DEF Poll
<1>10. ASSUME NEW g \in Groups, AddAnswered(g) PROVE SyncInv'
  BY <1>10, <1>6, ScopeFacts DEF AddAnswered
<1>11. ASSUME Leave \/ Switch \/ Serve \/ AnswerJoin \/ AnswerClaim \/ RemoveMember \/ MarkSettled
              \/ TakenAway \/ Joined \/ \E g \in Groups : Adds(g) \/ Write(g)
       PROVE  UNCHANGED appVars
  BY <1>11 DEF Leave, Switch, Serve, AnswerJoin, AnswerClaim, RemoveMember, MarkSettled, Act,
               TakenAway, Joined, Adds, Write
<1>12. CASE UNCHANGED vars
  BY <1>12, <1>1 DEF vars
<1> QED
  BY <1>1, <1>2, <1>3, <1>4, <1>5, <1>7, <1>8, <1>9, <1>10, <1>11, <1>12, UseKeeps DEF Next

\* The server's "unchanged" is only ever said of what the copy has: a version
\* kept for a scope is that of the copy, whatever was read, failed, set aside
\* or kept on the device meanwhile (AppData.versions).
THEOREM VersionsStayTrue == Spec => []VersionsAreTrue
<1>1. SyncInv => VersionsAreTrue
  BY DEF SyncInv
<1> QED
  BY <1>1, InitSync, NextSync, PTL DEF Spec

-----------------------------------------------------------------------------
(* What AtPlaces leaves of the answers waiting: some of them, and the last *)
(* of them last.                                                           *)

LEMMA LeastOf ==
    ASSUME NEW T, T \subseteq Nat, T # {}
    PROVE  \E n \in T : \A k \in T : n <= k
<1> DEFINE R == OpToRel(<, Nat)
<1>1. \A x, y \in Nat : x < y => <<x, y>> \in R
  BY DEF OpToRel
<1>2. IsWellFoundedOn(R, Nat)
  BY NatLessThanWellFounded
<1> HIDE DEF R
<1>3. PICK n \in T : \A k \in T : ~(<<k, n>> \in R)
  BY <1>2, WFMin
<1> QED
  <2>1. ASSUME NEW k \in T PROVE n <= k
    <3>1. ~(k < n)
      BY <1>1, <1>3
    <3> QED
      BY <3>1
  <2> QED
    BY <2>1

\* How many of the places are up to i.
UpTo(places, i) == {j \in places : j <= i}

LEMMA UpToCounts ==
    ASSUME NEW len \in Nat, NEW places \in SUBSET (1..len), NEW i \in Nat
    PROVE  /\ Cardinality(UpTo(places, i)) \in Nat
           /\ IsFiniteSet(UpTo(places, i)) /\ IsFiniteSet(places)
<1>1. IsFiniteSet(1..len)
  BY FS_Interval
<1>2. IsFiniteSet(places)
  BY <1>1, FS_Subset
<1>3. UpTo(places, i) \in SUBSET places
  BY DEF UpTo
<1>4. IsFiniteSet(UpTo(places, i))
  BY <1>2, <1>3, FS_Subset
<1> QED
  BY <1>2, <1>4, FS_CardinalityType

\* Every number up to how many they are is one of theirs.
LEMMA PlaceOf ==
    ASSUME NEW len \in Nat, NEW places \in SUBSET (1..len),
           NEW n \in 1..Cardinality(places)
    PROVE  \E i \in places : Cardinality(UpTo(places, i)) = n
<1> DEFINE Count(i) == Cardinality(UpTo(places, i))
           Far == {i \in Nat : Count(i) >= n}
<1>1. \A i \in Nat : Count(i) \in Nat /\ IsFiniteSet(UpTo(places, i))
  BY UpToCounts
<1>2. Cardinality(places) \in Nat /\ n \in Nat /\ n > 0
  <2>1. IsFiniteSet(places)
    BY UpToCounts
  <2>2. Cardinality(places) \in Nat
    BY <2>1, FS_CardinalityType
  <2> QED
    BY <2>2
<1>0. \A j \in places : j \in Nat /\ 1 <= j /\ j <= len
  OBVIOUS
<1>3. UpTo(places, len) = places
  BY <1>0 DEF UpTo
<1>4. len \in Far
  BY <1>2, <1>3
<1>5. PICK i \in Far : \A k \in Far : i <= k
  BY <1>4, LeastOf
<1>6. UpTo(places, 0) = {}
  <2>1. \A j \in places : ~(j <= 0)
    BY <1>0
  <2> QED
    BY <2>1 DEF UpTo
<1>7. i # 0
  BY <1>2, <1>5, <1>6, FS_EmptySet
<1>8. i - 1 \in Nat /\ i \in Nat /\ Count(i) >= n
  BY <1>5, <1>7
<1>9. Count(i - 1) < n
  BY <1>1, <1>2, <1>5, <1>8
<1>10. i \in places
  <2> SUFFICES ASSUME i \notin places PROVE FALSE
    OBVIOUS
  <2>1. UpTo(places, i) = UpTo(places, i - 1)
    <3>1. \A j \in places : j <= i <=> j <= i - 1
      BY <1>0, <1>8
    <3> QED
      BY <3>1 DEF UpTo
  <2> QED
    BY <1>1, <1>2, <1>8, <1>9, <2>1
<1>11. UpTo(places, i) = UpTo(places, i - 1) \cup {i} /\ i \notin UpTo(places, i - 1)
  <2>1. \A j \in places : j <= i <=> j <= i - 1 \/ j = i
    BY <1>0, <1>8
  <2>2. i <= i /\ ~(i <= i - 1)
    BY <1>8
  <2> QED
    BY <1>10, <2>1, <2>2 DEF UpTo
<1>12. Count(i) = Count(i - 1) + 1
  BY <1>1, <1>8, <1>11, FS_AddElement
<1>13. Count(i) = n
  BY <1>1, <1>2, <1>8, <1>9, <1>12
<1> QED
  BY <1>10, <1>13

\* The last of the places is all of them.
LEMMA LastPlace ==
    ASSUME NEW len \in Nat, NEW places \in SUBSET (1..len), len \in places,
           NEW i \in places, Cardinality(UpTo(places, i)) = Cardinality(places)
    PROVE  i = len
<1>1. IsFiniteSet(places) /\ UpTo(places, i) \in SUBSET places
  BY UpToCounts DEF UpTo
<1>2. places = UpTo(places, i)
  BY <1>1, FS_Subset
<1> QED
  BY <1>2 DEF UpTo

LEMMA NoPlaces == AtPlaces({}) = <<>>
<1>1. Cardinality({}) = 0
  BY FS_EmptySet
<1> QED
  BY <1>1 DEF AtPlaces

LEMMA PlacesLeft ==
    ASSUME NEW T, knowns \in Seq(T), NEW places \in SUBSET DOMAIN knowns,
           Len(knowns) \in places
    PROVE  /\ AtPlaces(places) \in Seq(T) /\ AtPlaces(places) # <<>>
           /\ Last(AtPlaces(places)) = Last(knowns)
<1> DEFINE count == Cardinality(places)
           At(n) == CHOOSE i \in places : Cardinality(UpTo(places, i)) = n
<1>1. Len(knowns) \in Nat /\ DOMAIN knowns = 1..Len(knowns) /\ places \in SUBSET (1..Len(knowns))
  OBVIOUS
<1>2. IsFiniteSet(places)
  BY <1>1, UpToCounts
<1>3. count \in Nat /\ count # 0
  BY <1>2, FS_CardinalityType, FS_EmptySet
<1>4. ASSUME NEW n \in 1..count
      PROVE  At(n) \in places /\ Cardinality(UpTo(places, At(n))) = n
  <2>1. \E i \in places : Cardinality(UpTo(places, i)) = n
    BY <1>1, PlaceOf
  <2> QED
    BY <2>1
<1>5. AtPlaces(places) = [n \in 1..count |-> knowns[At(n)]]
  BY DEF AtPlaces, UpTo
<1>6. At(count) = Len(knowns)
  <2>1. At(count) \in places /\ Cardinality(UpTo(places, At(count))) = count
    BY <1>3, <1>4
  <2> HIDE DEF At
  <2> QED
    BY <1>1, <2>1, LastPlace
<1> HIDE DEF At, count
<1>7. \A n \in 1..count : knowns[At(n)] \in T
  BY <1>1, <1>4
<1>8. AtPlaces(places) \in Seq(T) /\ Len(AtPlaces(places)) = count
  BY <1>3, <1>5, <1>7
<1>9. AtPlaces(places)[count] = knowns[Len(knowns)]
  BY <1>3, <1>5, <1>6
<1> QED
  BY <1>3, <1>8, <1>9 DEF Last

-----------------------------------------------------------------------------
(* That the screen shows what the user was last told.  The invariant is in *)
(* parts: what the server has and answered, the answers laid over the copy,*)
(* the copy and what a sync is about to make of it, the switch, and whoever*)
(* waits to hear whether the group is there.                               *)

Answers == [stamp : 0..MaxWrites, during : BOOLEAN]

\* What the server answers this device is never older than what it said before,
\* and a stamp is how often something was written, so never what stands for gone.
ServerInv ==
    /\ held = [g \in Groups |-> held[g]] /\ \A g \in Groups : held[g] \in Nat
    /\ held[Here] <= MaxWrites /\ unsure \subseteq Groups
    /\ request = [to |-> request.to, at |-> request.at, stamp |-> request.stamp]
    /\ request.stamp \in Nat /\ stored \in Nat /\ said \in Nat
    /\ said <= held[Here]
    /\ stored > 0 => said <= stored /\ stored <= held[Here]
    /\ request.at = "answered" => said <= request.stamp /\ request.stamp <= held[Here]

\* The last answer laid over the copy is the last one given, and the last to go.
KnownInv ==
    /\ knowns \in Seq(Answers)
    /\ knowns # <<>> =>
          /\ Last(knowns).stamp = said
          /\ \A i \in DOMAIN knowns : knowns[i].during => Last(knowns).during
    /\ running = Idle => \A i \in DOMAIN knowns : ~knowns[i].during

\* A version that was sent is that of the copy still.
SentIsCopy ==
    running.sent # None => copy # None /\ running.sent = [g \in running.scope |-> copy[g]]

\* With no answer laid over it the copy has what was said; and so has a sync that
\* is answered, but for what was said since it started.
CopyInv ==
    /\ copy # None => copy[Here] \in Nat
    /\ knowns = <<>> /\ copy # None => copy[Here] >= said
    /\ running.back =>
          /\ running.answer[Here] \in Nat
          /\ running.answer[Here] >= said \/ (knowns # <<>> /\ Last(knowns).during)
    /\ SentIsCopy

\* A card's screen has no switch.
ShownInv ==
    /\ part \in Parts /\ up \in BOOLEAN /\ busy \in BOOLEAN /\ shown \in 0..2
    /\ part = "card" => shown = 2
    /\ SwitchIsAsRead

\* Whoever waits to hear that the group is there was told of its going, and a
\* screen that has the group waits for nothing.
WaitInv ==
    /\ wasHere \in BOOLEAN /\ answered \in BOOLEAN /\ absent \in BOOLEAN /\ mine \in BOOLEAN
    /\ waits \in {"none", "running", "queued", "again"}
    /\ waits # "none" /\ ~mine => absent
    /\ waits = "running" /\ running.back /\ running.answer[Here] = Gone => absent
    /\ up /\ InView => wasHere /\ ~answered /\ waits = "none"
    /\ up /\ ~InView /\ ~wasHere /\ answered => absent

ScreenInv == SyncInv /\ ServerInv /\ KnownInv /\ CopyInv /\ ShownInv /\ WaitInv

\* What the screen is drawn from, in terms of the copy and the last answer.
ViewFacts ==
    /\ InView <=> copy # None /\ copy[Here] # Gone
    /\ InView => /\ View[Here] \in Nat
                 /\ knowns # <<>> => View[Here] = Last(knowns).stamp
                 /\ knowns = <<>> => View[Here] = copy[Here]
    /\ On \in 0..2 /\ (On = 2 <=> ~InView)
    /\ InView => On = View[Here] % 2

LEMMA ViewIs == SyncInv /\ KnownInv /\ CopyInv => ViewFacts
<1> SUFFICES ASSUME SyncInv, KnownInv, CopyInv PROVE ViewFacts
  OBVIOUS
<1>1. Gone = MaxWrites + 1 /\ MaxWrites \in Nat
  BY GroupReadsAssumption DEF Gone
<1>2. CASE copy = None
  <2>1. View = None
    BY <1>2 DEF View
  <2>2. ~InView /\ On = 2
    BY <2>1 DEF InView, On
  <2> QED
    BY <1>2, <2>2 DEF ViewFacts
<1>3. CASE copy # None
  <2>1. View = Applied(copy)
    BY <1>3 DEF View
  <2>2. copy = [g \in Groups |-> copy[g]] /\ copy[Here] \in Nat
    BY <1>3 DEF SyncInv, CopyInv
  <2>3. Here \in Groups
    BY DEF Groups
  <2>4. CASE copy[Here] = Gone
    <3>1. View = copy
      BY <2>1, <2>4 DEF Applied
    <3>2. ~InView /\ On = 2
      BY <2>4, <3>1 DEF InView, On
    <3> QED
      BY <2>4, <3>2 DEF ViewFacts
  <2>5. CASE copy[Here] # Gone /\ knowns = <<>>
    <3>1. View = copy
      BY <2>1, <2>5 DEF Applied
    <3>2. InView
      BY <1>3, <2>5, <3>1 DEF InView
    <3>3. On = copy[Here] % 2 /\ On \in 0..1
      BY <2>2, <3>1, <3>2 DEF On
    <3> QED
      BY <1>3, <2>2, <2>5, <3>1, <3>2, <3>3 DEF ViewFacts
  <2>6. CASE copy[Here] # Gone /\ knowns # <<>>
    <3> DEFINE last == Last(knowns).stamp
    <3>1. last \in 0..MaxWrites
      <4>1. knowns \in Seq(Answers) /\ knowns # <<>>
        BY <2>6 DEF KnownInv
      <4>2. Last(knowns) \in Answers
        BY <4>1 DEF Last
      <4> QED
        BY <4>2 DEF Answers
    <3> HIDE DEF last
    <3>2. View = [copy EXCEPT ![Here] = last]
      BY <2>1, <2>6 DEF Applied, last
    <3>3. View[Here] = last /\ View # None
      BY <2>2, <2>3, <3>2, ScopeFacts
    <3>4. InView
      BY <1>1, <3>1, <3>3 DEF InView
    <3>5. On = last % 2 /\ On \in 0..1
      BY <1>1, <3>1, <3>3, <3>4 DEF On
    <3> QED
      BY <1>1, <1>3, <2>6, <3>1, <3>3, <3>4, <3>5 DEF ViewFacts, last
  <2> QED
    BY <2>4, <2>5, <2>6
<1> QED
  BY <1>2, <1>3

LEMMA SameView == UNCHANGED <<copy, knowns>> => View' = View /\ On' = On /\ (InView' <=> InView)
BY DEF View, On, InView, Applied

-----------------------------------------------------------------------------
(* The syncs: what is asked for anew is of the copy, and not answered yet. *)

LEMMA Starting ==
    ASSUME SyncInv', NEW scope \in Scopes, Start(scope)
    PROVE  running' # Idle /\ running'.back = FALSE /\ SentIsCopy'
<1> DEFINE all == IF copy' = None THEN Groups ELSE scope
<1>1. all \in Scopes
  BY ScopeFacts
<1>2. running' = [scope |-> all, sent |-> IF copy' = None THEN None ELSE versions'[all],
                  back |-> FALSE, answer |-> None]
  BY DEF Start
<1> HIDE DEF all
<1>3. running'.scope = all /\ running'.back = FALSE
      /\ running'.sent = IF copy' = None THEN None ELSE versions'[all]
  BY <1>2
<1>4. all # {} /\ Idle.scope = {}
  BY <1>1, ScopeFacts DEF Idle
<1>5. running' # Idle
  BY <1>3, <1>4
<1>6. \A s \in Scopes : versions'[s] # None => versions'[s] = [g \in s |-> copy'[g]]
  BY DEF SyncInv, VersionsAreTrue
<1>7. SentIsCopy'
  BY <1>1, <1>3, <1>6 DEF SentIsCopy
<1> QED
  BY <1>3, <1>5, <1>7

LEMMA Asking ==
    ASSUME SyncInv', CopyInv, NEW scope \in Scopes, Ask(scope)
    PROVE  /\ running' # Idle
           /\ running' = running \/ (running'.back = FALSE /\ SentIsCopy')
BY Starting DEF Ask

LEMMA Finishing ==
    ASSUME SyncInv, SyncInv', NEW used, NEW failed, Finish(used, failed)
    PROVE  running'.back = FALSE /\ SentIsCopy'
<1>1. CASE queued = {}
  <2>1. running' = Idle
    BY <1>1 DEF Finish
  <2> QED
    BY <2>1 DEF Idle, SentIsCopy
<1>2. CASE queued # {}
  <2>1. queued \in Scopes /\ Start(queued)
    BY <1>2 DEF Finish, SyncInv, ScopeOrNone
  <2> QED
    BY <2>1, Starting
<1> QED
  BY <1>1, <1>2

\* Whatever is asked, the group on the screen is in it.
LEMMA AnswerHasHere == SyncInv /\ running.back => running.scope \in Scopes /\ Here \in running.scope
BY DEF SyncInv, ScopeOrNone, Scopes, Groups

LEMMA SentAgain ==
    SentIsCopy /\ copy' = copy /\ running'.sent = running.sent /\ running'.scope = running.scope
        => SentIsCopy'
BY DEF SentIsCopy

\* An answer that is used is what the copy then says of the group.
LEMMA Using ==
    ASSUME SyncInv, CopyInv, UseAnswer
    PROVE  copy' # None /\ copy'[Here] = running.answer[Here]
<1>1. running.back /\ running.scope \in Scopes /\ Here \in running.scope /\ Here \in Groups
  BY AnswerHasHere DEF UseAnswer, Groups
<1>2. CASE Unchanged
  <2>1. copy' = copy /\ running.sent # None /\ running.answer = running.sent
    BY <1>2 DEF UseAnswer, Unchanged
  <2>2. copy # None /\ running.sent = [g \in running.scope |-> copy[g]]
    BY <2>1 DEF CopyInv, SentIsCopy
  <2> QED
    BY <1>1, <2>1, <2>2
<1>3. CASE ~Unchanged
  <2>1. copy' = Merge(running.answer)
    BY <1>3 DEF UseAnswer
  <2>2. running.answer = [g \in running.scope |-> running.answer[g]]
    BY <1>1 DEF SyncInv
  <2>3. copy' = [g \in Groups |-> IF g \in running.scope THEN running.answer[g] ELSE copy[g]]
    BY <2>1, <2>2 DEF Merge
  <2> QED
    BY <1>1, <2>3, ScopeFacts
<1> QED
  BY <1>2, <1>3


-----------------------------------------------------------------------------
(* The server's side.                                                      *)

\* Only the server writes, what it answers is kept for its key, and what was
\* answered before is older.
LEMMA ServerKept == ServerInv /\ [Next]_vars => ServerInv'
<1> SUFFICES ASSUME ServerInv, [Next]_vars PROVE ServerInv'
  OBVIOUS
<1> USE DEF appVars, screenVars, writeVars
<1>0. Here \in Groups
  BY DEF Groups
<1>1. ASSUME UNCHANGED <<held, request, stored>>, said' \in {0, said}, unsure' \subseteq Groups
      PROVE  ServerInv'
  BY <1>0, <1>1 DEF ServerInv
<1>2. CASE ServeSync \/ SyncFails \/ SetAside \/ UseAnswer \/ Hydrate \/ Open \/ AskAgain \/ Leave
           \/ TakenAway \/ Joined \/ (\E scope \in Scopes : Poll(scope)) \/ UNCHANGED vars
  <2>1. UNCHANGED <<held, request, stored, unsure>> /\ said' \in {0, said}
    BY <1>2 DEF ServeSync, SyncFails, SetAside, UseAnswer, Hydrate, Open, AskAgain, Leave,
                TakenAway, Joined, Poll, vars
  <2> QED
    BY <1>1, <2>1 DEF ServerInv
<1>3. ASSUME NEW g \in Groups, Adds(g) \/ AddAnswered(g) PROVE ServerInv'
  <2>1. UNCHANGED <<held, request, stored, said>> /\ unsure' \subseteq Groups
    BY <1>3 DEF Adds, AddAnswered, ServerInv
  <2> QED
    BY <1>1, <2>1
<1>4. CASE Switch \/ AnswerJoin \/ AnswerClaim \/ RemoveMember \/ MarkSettled
  <2>1. UNCHANGED <<held, stored, said, unsure>>
        /\ \E to \in {1, shown'} : request' = [to |-> to, at |-> "out", stamp |-> 0]
    BY <1>4 DEF Switch, AnswerJoin, AnswerClaim, RemoveMember, MarkSettled, Act
  <2> QED
    BY <2>1 DEF ServerInv
<1>5. CASE Serve
  <2>0. UNCHANGED <<said, unsure>>
    BY <1>5 DEF Serve
  <2> DEFINE now == held[Here]
             next == IF part = "card" \/ (now % 2 # request.to /\ now < MaxWrites) THEN now + 1 ELSE now
  <2>1. CASE stored > 0
    <3>1. UNCHANGED <<held, stored>> /\ request' = [request EXCEPT !.at = "answered", !.stamp = stored]
      BY <1>5, <2>1 DEF Serve
    <3>2. request' = [to |-> request.to, at |-> "answered", stamp |-> stored]
      BY <3>1 DEF ServerInv
    <3> QED
      BY <2>0, <2>1, <3>1, <3>2 DEF ServerInv
  <2>2. CASE ~(stored > 0) /\ (~mine \/ (part = "card" /\ now > 0))
    <3>1. UNCHANGED <<held, stored>> /\ request' = [request EXCEPT !.at = "refused"]
      BY <1>5, <2>2 DEF Serve
    <3>2. request' = [to |-> request.to, at |-> "refused", stamp |-> request.stamp]
      BY <3>1 DEF ServerInv
    <3> QED
      BY <2>0, <3>1, <3>2 DEF ServerInv
  <2>3. CASE ~(stored > 0) /\ ~(~mine \/ (part = "card" /\ now > 0))
    <3>1. /\ held' = [held EXCEPT ![Here] = next] /\ stored' = next
          /\ request' = [request EXCEPT !.at = "answered", !.stamp = next]
      BY <1>5, <2>3 DEF Serve
    <3>2. now \in Nat /\ now <= MaxWrites /\ said <= now /\ said \in Nat
      BY <1>0 DEF ServerInv
    <3>3. next \in Nat /\ now <= next /\ next <= MaxWrites
      BY <2>3, <3>2, GroupReadsAssumption
    <3> HIDE DEF next
    <3>4. request' = [to |-> request.to, at |-> "answered", stamp |-> next]
      BY <3>1 DEF ServerInv
    <3>5. held'[Here] = next /\ held' = [g \in Groups |-> held'[g]]
          /\ \A g \in Groups : held'[g] \in Nat
      BY <1>0, <3>1, <3>3 DEF ServerInv
    <3>6. held'[Here] <= MaxWrites /\ said <= next
      BY <3>2, <3>3, <3>5, GroupReadsAssumption
    <3>7. request'.stamp = next /\ request' = [to |-> request'.to, at |-> request'.at, stamp |-> next]
      BY <3>4
    <3> HIDE DEF now
    <3>8. /\ request'.stamp \in Nat /\ stored' \in Nat /\ said' \in Nat /\ unsure' \subseteq Groups
          /\ said' <= held'[Here] /\ said' <= stored' /\ stored' <= held'[Here]
          /\ said' <= request'.stamp /\ request'.stamp <= held'[Here]
      BY <2>0, <3>1, <3>2, <3>3, <3>5, <3>6, <3>7 DEF ServerInv
    <3> QED
      BY <3>5, <3>6, <3>7, <3>8 DEF ServerInv
  <2> QED
    BY <2>1, <2>2, <2>3
<1>6. CASE Answered
  <2>1. request.at = "answered" /\ request' = NoWrite /\ said' = request.stamp /\ stored' = 0
        /\ UNCHANGED <<held, unsure>>
    BY <1>6 DEF Answered
  <2> QED
    BY <2>1 DEF ServerInv, NoWrite
<1>7. CASE NotAnswered
  <2>1. request' = NoWrite /\ stored' \in {0, stored} /\ UNCHANGED <<held, said, unsure>>
    BY <1>7 DEF NotAnswered
  <2> QED
    BY <2>1 DEF ServerInv, NoWrite
<1>8. ASSUME NEW g \in Groups, Write(g) PROVE ServerInv'
  <2>1. held[g] < (IF part = "card" \/ g # Here THEN 1 ELSE MaxWrites)
        /\ held' = [held EXCEPT ![g] = held[g] + 1] /\ UNCHANGED <<unsure, request, stored, said>>
    BY <1>8 DEF Write
  <2>2. held' = [h \in Groups |-> held'[h]] /\ \A h \in Groups : held'[h] \in Nat
    BY <2>1 DEF ServerInv
  <2>3. held[Here] <= held'[Here] /\ held'[Here] <= MaxWrites /\ held'[Here] \in Nat /\ held[Here] \in Nat
    BY <1>0, <2>1, GroupReadsAssumption DEF ServerInv
  <2> QED
    BY <2>1, <2>2, <2>3 DEF ServerInv
<1> QED
  BY <1>2, <1>3, <1>4, <1>5, <1>6, <1>7, <1>8 DEF Next

-----------------------------------------------------------------------------
(* The answers laid over the copy.                                         *)

\* Of the answers left the last is the last given, and none wait for long.
LEMMA AllBeforeIs ==
    ASSUME NEW answers \in Seq(Answers)
    PROVE  /\ AllBefore(answers) \in Seq(Answers)
           /\ AllBefore(answers) = <<>> <=> answers = <<>>
           /\ \A i \in DOMAIN AllBefore(answers) : ~AllBefore(answers)[i].during
           /\ answers # <<>> => Last(AllBefore(answers)).stamp = Last(answers).stamp
<1>1. /\ Len(answers) \in Nat /\ DOMAIN answers = 1..Len(answers)
      /\ \A i \in 1..Len(answers) : answers[i] \in Answers
  OBVIOUS
<1>2. AllBefore(answers) =
        [i \in 1..Len(answers) |-> [stamp |-> answers[i].stamp, during |-> FALSE]]
  BY <1>1 DEF AllBefore
<1>3. \A i \in 1..Len(answers) : [stamp |-> answers[i].stamp, during |-> FALSE] \in Answers
  BY <1>1 DEF Answers
<1>4. AllBefore(answers) \in Seq(Answers) /\ Len(AllBefore(answers)) = Len(answers)
  BY <1>1, <1>2, <1>3
<1>5. AllBefore(answers) = <<>> <=> answers = <<>>
  BY <1>1, <1>4
<1>6. ASSUME answers # <<>> PROVE Last(AllBefore(answers)).stamp = Last(answers).stamp
  <2>1. Len(answers) \in 1..Len(answers)
    BY <1>1, <1>6
  <2> QED
    BY <1>2, <1>4, <2>1 DEF Last
<1> QED
  BY <1>2, <1>4, <1>5, <1>6

\* A sync that is used leaves what was answered while it was on its way.
LEMMA LeftIs ==
    ASSUME SyncInv, KnownInv, running.back
    PROVE  /\ AnswersLeft \in Seq(Answers)
           /\ AnswersLeft # <<>> => knowns # <<>> /\ Last(AnswersLeft) = Last(knowns)
           /\ AnswersLeft = <<>> => knowns = <<>> \/ ~Last(knowns).during
<1> DEFINE places == {i \in DOMAIN knowns : StillKnown(knowns[i])}
<1>1. knowns \in Seq(Answers)
  BY DEF KnownInv
<1>2. \A k : StillKnown(k) <=> k.during
  BY AnswerHasHere DEF StillKnown, Covers
<1>3. places = {i \in DOMAIN knowns : knowns[i].during} /\ places \in SUBSET DOMAIN knowns
  BY <1>2
<1>4. AnswersLeft = AtPlaces(places)
  BY DEF AnswersLeft
<1> HIDE DEF places
<1>5. CASE places = {}
  <2>1. AnswersLeft = <<>>
    BY <1>4, <1>5, NoPlaces
  <2>2. knowns = <<>> \/ ~Last(knowns).during
    BY <1>1, <1>3, <1>5 DEF Last
  <2> QED
    BY <2>1, <2>2
<1>6. CASE places # {}
  <2>1. knowns # <<>> /\ Len(knowns) \in DOMAIN knowns
    BY <1>1, <1>3, <1>6
  <2>2. Len(knowns) \in places
    BY <1>3, <1>6, <2>1 DEF KnownInv, Last
  <2>3. /\ AtPlaces(places) \in Seq(Answers) /\ AtPlaces(places) # <<>>
        /\ Last(AtPlaces(places)) = Last(knowns)
    BY <1>1, <1>3, <2>2, PlacesLeft
  <2> QED
    BY <1>4, <2>1, <2>3
<1> QED
  BY <1>5, <1>6

\* The answers kept of those waiting, none given after the next sync starts.
LEMMA KeptBefore ==
    ASSUME NEW answers \in Seq(Answers), knowns' = AllBefore(answers), said' = said,
           answers # <<>> => Last(answers).stamp = said
    PROVE  KnownInv'
<1>1. /\ knowns' \in Seq(Answers)
      /\ knowns' = <<>> <=> answers = <<>>
      /\ \A i \in DOMAIN knowns' : ~knowns'[i].during
      /\ answers # <<>> => Last(knowns').stamp = Last(answers).stamp
  BY AllBeforeIs
<1> QED
  BY <1>1 DEF KnownInv

LEMMA AppendIs ==
    ASSUME NEW answers \in Seq(Answers), NEW k \in Answers
    PROVE  /\ Append(answers, k) \in Seq(Answers) /\ Append(answers, k) # <<>>
           /\ Last(Append(answers, k)) = k
           /\ \A i \in DOMAIN Append(answers, k) :
                 Append(answers, k)[i] = k \/ (i \in DOMAIN answers /\ Append(answers, k)[i] = answers[i])
BY DEF Last

LEMMA AppendDuring ==
    ASSUME NEW answers \in Seq(Answers), NEW stamp, NEW during \in BOOLEAN
    PROVE  /\ Append(answers, [stamp |-> stamp, during |-> during]) # <<>>
           /\ Last(Append(answers, [stamp |-> stamp, during |-> during])).during = during
BY DEF Last

LEMMA KnownKept == SyncInv /\ SyncInv' /\ ServerInv /\ KnownInv /\ CopyInv /\ [Next]_vars => KnownInv'
<1> SUFFICES ASSUME SyncInv, SyncInv', ServerInv, KnownInv, CopyInv, [Next]_vars PROVE KnownInv'
  OBVIOUS
<1> USE DEF appVars, screenVars, writeVars
<1>1. ASSUME UNCHANGED <<knowns, said>>, running' = Idle => running = Idle PROVE KnownInv'
  BY <1>1 DEF KnownInv
<1>2. ASSUME NEW scope \in Scopes, Ask(scope), UNCHANGED <<knowns, said>> PROVE KnownInv'
  BY <1>1, <1>2, Asking
<1>3. CASE ServeSync
  <2>1. /\ UNCHANGED <<knowns, said>>
        /\ running' = [running EXCEPT !.back = TRUE, !.answer = Snapshot(running.scope)]
    BY <1>3 DEF ServeSync
  <2>2. running'.back = TRUE
    BY <2>1 DEF SyncInv
  <2> QED
    BY <1>1, <2>1, <2>2 DEF Idle
<1>4. CASE SyncFails \/ SetAside
  <2>1. knowns' = AllBefore(knowns) /\ said' = said
    BY <1>4 DEF SyncFails, SetAside
  <2>2. knowns \in Seq(Answers) /\ (knowns # <<>> => Last(knowns).stamp = said)
    BY DEF KnownInv
  <2> QED
    BY <2>1, <2>2, KeptBefore
<1>5. CASE UseAnswer
  <2>1. knowns' = AllBefore(AnswersLeft) /\ said' = said /\ running.back
    BY <1>5 DEF UseAnswer
  <2>2. AnswersLeft \in Seq(Answers) /\ (AnswersLeft # <<>> => Last(AnswersLeft).stamp = said)
    BY <2>1, LeftIs DEF KnownInv
  <2> QED
    BY <2>1, <2>2, KeptBefore
<1>6. CASE Hydrate
  <2>1. knowns' = <<>>
    BY <1>6 DEF Hydrate
  <2> QED
    BY <2>1 DEF KnownInv
<1>7. CASE Answered
  <2> DEFINE k == [stamp |-> request.stamp, during |-> running # Idle]
  <2>1. /\ knowns' = Append(knowns, k) /\ said' = request.stamp
        /\ request.at = "answered" /\ Ask({Here})
    BY <1>7 DEF Answered
  <2>2. k \in Answers /\ k.stamp = request.stamp /\ (k.during <=> running # Idle)
    <3>1. request.stamp \in 0..MaxWrites
      <4>1. /\ request.stamp \in Nat /\ request.stamp <= held[Here]
            /\ held[Here] <= MaxWrites /\ held[Here] \in Nat
        BY <2>1 DEF ServerInv, Groups
      <4> QED
        BY <4>1, GroupReadsAssumption
    <3>2. (running # Idle) \in BOOLEAN
      OBVIOUS
    <3>3. k \in Answers
      BY <3>1, <3>2 DEF Answers
    <3> QED
      BY <3>3
  <2>3. running' # Idle
    BY <2>1, ScopeFacts, Asking
  <2> HIDE DEF k
  <2>4. knowns \in Seq(Answers)
    BY DEF KnownInv
  <2>5. /\ knowns' \in Seq(Answers) /\ knowns' # <<>> /\ Last(knowns') = k
        /\ \A i \in DOMAIN knowns' : knowns'[i] = k \/ (i \in DOMAIN knowns /\ knowns'[i] = knowns[i])
    BY <2>1, <2>2, <2>4, AppendIs
  <2>6. ASSUME NEW i \in DOMAIN knowns', knowns'[i].during PROVE k.during
    <3>1. CASE running = Idle
      BY <2>5, <2>6, <3>1 DEF KnownInv
    <3>2. CASE running # Idle
      BY <2>2, <3>2
    <3> QED
      BY <3>1, <3>2
  <2> QED
    BY <2>1, <2>2, <2>3, <2>5, <2>6 DEF KnownInv
<1>8. CASE Open \/ AskAgain
  <2>1. UNCHANGED <<knowns, said>> /\ Ask({Here})
    BY <1>8 DEF Open, AskAgain
  <2> QED
    BY <1>2, <2>1, ScopeFacts
<1>9. CASE NotAnswered
  <2>1. UNCHANGED <<knowns, said>> /\ (Ask({Here}) \/ running' = running)
    BY <1>9 DEF NotAnswered
  <2> QED
    BY <1>1, <1>2, <2>1, ScopeFacts
<1>10. ASSUME NEW scope \in Scopes, Poll(scope) PROVE KnownInv'
  BY <1>2, <1>10 DEF Poll
<1>11. ASSUME NEW g \in Groups, AddAnswered(g) PROVE KnownInv'
  <2>1. UNCHANGED <<knowns, said>> /\ Ask({g} \cup {Here})
    BY <1>11 DEF AddAnswered
  <2> QED
    BY <1>2, <2>1, ScopeFacts
<1>12. CASE Leave \/ Switch \/ Serve \/ AnswerJoin \/ AnswerClaim \/ RemoveMember \/ MarkSettled
            \/ TakenAway \/ Joined \/ (\E g \in Groups : Adds(g) \/ Write(g)) \/ UNCHANGED vars
  <2>1. UNCHANGED <<knowns, said, running>>
    BY <1>12 DEF Leave, Switch, Serve, AnswerJoin, AnswerClaim, RemoveMember, MarkSettled, Act,
                 TakenAway, Joined, Adds, Write, vars
  <2> QED
    BY <1>1, <2>1
<1> QED
  BY <1>3, <1>4, <1>5, <1>6, <1>7, <1>8, <1>9, <1>10, <1>11, <1>12 DEF Next


-----------------------------------------------------------------------------
(* The copy, and what a sync on its way will make of it.                   *)

LEMMA CopyKept == SyncInv /\ SyncInv' /\ ServerInv /\ KnownInv /\ CopyInv /\ [Next]_vars => CopyInv'
<1> SUFFICES ASSUME SyncInv, SyncInv', ServerInv, KnownInv, CopyInv, [Next]_vars PROVE CopyInv'
  OBVIOUS
<1> USE DEF appVars, screenVars, writeVars
\* What is on its way goes on, or is asked for anew.
<1>1. ASSUME UNCHANGED <<copy, knowns, said>>,
             running' = running \/ (running'.back = FALSE /\ SentIsCopy')
      PROVE  CopyInv'
  <2>1. SentIsCopy'
    BY <1>1 DEF CopyInv, SentIsCopy
  <2> QED
    BY <1>1, <2>1 DEF CopyInv
<1>2. ASSUME NEW scope \in Scopes, Ask(scope), UNCHANGED <<copy, knowns, said>> PROVE CopyInv'
  BY <1>1, <1>2, Asking
<1>3. CASE ServeSync
  <2>1. /\ UNCHANGED <<copy, knowns, said>> /\ running # Idle
        /\ running' = [running EXCEPT !.back = TRUE, !.answer = Snapshot(running.scope)]
    BY <1>3 DEF ServeSync
  <2>2. running'.sent = running.sent /\ running'.scope = running.scope
        /\ running'.answer = Snapshot(running.scope) /\ running'.back = TRUE
    BY <2>1 DEF SyncInv
  <2>3. running.scope \in Scopes /\ Here \in running.scope
    BY <2>1 DEF SyncInv, ScopeOrNone, Scopes, Groups
  <2>4. running'.answer[Here] = IF ~mine THEN Gone ELSE held[Here]
    BY <2>2, <2>3 DEF Snapshot
  <2>5. held[Here] \in Nat /\ said <= held[Here] /\ said \in Nat /\ held[Here] <= MaxWrites
    BY DEF ServerInv, Groups
  <2>6. running'.answer[Here] \in Nat /\ running'.answer[Here] >= said
    BY <2>4, <2>5, GroupReadsAssumption DEF Gone
  <2>7. SentIsCopy'
    BY <2>1, <2>2, SentAgain DEF CopyInv
  <2> QED
    BY <2>1, <2>6, <2>7 DEF CopyInv
<1>4. CASE SyncFails \/ SetAside
  <2>1. /\ \E used, failed : Finish(used, failed)
        /\ copy' = copy /\ said' = said /\ knowns' = AllBefore(knowns)
    BY <1>4 DEF SyncFails, SetAside
  <2>2. running'.back = FALSE /\ SentIsCopy'
    BY <2>1, Finishing
  <2>3. knowns' = <<>> <=> knowns = <<>>
    BY <2>1, AllBeforeIs DEF KnownInv
  <2> QED
    BY <2>1, <2>2, <2>3 DEF CopyInv
<1>5. CASE UseAnswer
  <2>1. Finish(TRUE, FALSE) /\ said' = said /\ knowns' = AllBefore(AnswersLeft) /\ running.back
    BY <1>5 DEF UseAnswer
  <2>2. running'.back = FALSE /\ SentIsCopy'
    BY <2>1, Finishing
  <2>3. copy' # None /\ copy'[Here] = running.answer[Here]
    BY <1>5, Using
  <2>4. running.answer[Here] \in Nat
        /\ (running.answer[Here] >= said \/ (knowns # <<>> /\ Last(knowns).during))
    BY <2>1 DEF CopyInv
  <2>5. AnswersLeft \in Seq(Answers)
        /\ (AnswersLeft = <<>> => knowns = <<>> \/ ~Last(knowns).during)
    BY <2>1, LeftIs
  <2>6. knowns' = <<>> => AnswersLeft = <<>>
    BY <2>1, <2>5, AllBeforeIs
  <2>7. knowns' = <<>> => copy'[Here] >= said
    BY <2>3, <2>4, <2>5, <2>6
  <2> QED
    BY <2>1, <2>2, <2>3, <2>4, <2>7 DEF CopyInv
<1>6. CASE Hydrate
  <2>1. copy' \in {copy, None} /\ running' = Idle /\ said' = 0
    BY <1>6 DEF Hydrate
  <2>2. Idle.back = FALSE /\ Idle.sent = None
    BY DEF Idle
  <2>3. SentIsCopy'
    BY <2>1, <2>2 DEF SentIsCopy
  <2>4. copy' # None => copy'[Here] \in Nat
    BY <2>1 DEF CopyInv
  <2> QED
    BY <2>1, <2>2, <2>3, <2>4 DEF CopyInv
<1>7. CASE Answered
  <2>1. /\ knowns' = Append(knowns, [stamp |-> request.stamp, during |-> running # Idle])
        /\ copy' = copy /\ Ask({Here})
    BY <1>7 DEF Answered
  <2>2. running' # Idle /\ (running' = running \/ (running'.back = FALSE /\ SentIsCopy'))
    BY <2>1, ScopeFacts, Asking
  <2>3. knowns \in Seq(Answers)
    BY DEF KnownInv
  <2>4. knowns' # <<>> /\ (Last(knowns').during <=> running # Idle)
    BY <2>1, <2>3, AppendDuring
  <2>5. running.back => running # Idle
    BY DEF Idle
  <2>6. SentIsCopy'
    BY <2>1, <2>2 DEF CopyInv, SentIsCopy
  <2>7. running'.back => running'.answer[Here] \in Nat /\ Last(knowns').during
    BY <2>2, <2>4, <2>5 DEF CopyInv
  <2> QED
    BY <2>1, <2>4, <2>6, <2>7 DEF CopyInv
<1>8. CASE Open \/ AskAgain
  <2>1. UNCHANGED <<copy, knowns, said>> /\ Ask({Here})
    BY <1>8 DEF Open, AskAgain
  <2> QED
    BY <1>2, <2>1, ScopeFacts
<1>9. CASE NotAnswered
  <2>1. UNCHANGED <<copy, knowns, said>> /\ (Ask({Here}) \/ running' = running)
    BY <1>9 DEF NotAnswered
  <2> QED
    BY <1>1, <1>2, <2>1, ScopeFacts
<1>10. ASSUME NEW scope \in Scopes, Poll(scope) PROVE CopyInv'
  BY <1>2, <1>10 DEF Poll
<1>11. ASSUME NEW g \in Groups, AddAnswered(g) PROVE CopyInv'
  <2>1. UNCHANGED <<copy, knowns, said>> /\ Ask({g} \cup {Here})
    BY <1>11 DEF AddAnswered
  <2> QED
    BY <1>2, <2>1, ScopeFacts
<1>12. CASE Leave \/ Switch \/ Serve \/ AnswerJoin \/ AnswerClaim \/ RemoveMember \/ MarkSettled
            \/ TakenAway \/ Joined \/ (\E g \in Groups : Adds(g) \/ Write(g)) \/ UNCHANGED vars
  <2>1. UNCHANGED <<copy, knowns, said, running>>
    BY <1>12 DEF Leave, Switch, Serve, AnswerJoin, AnswerClaim, RemoveMember, MarkSettled, Act,
                 TakenAway, Joined, Adds, Write, vars
  <2> QED
    BY <1>1, <2>1
<1> QED
  BY <1>3, <1>4, <1>5, <1>6, <1>7, <1>8, <1>9, <1>10, <1>11, <1>12 DEF Next

-----------------------------------------------------------------------------
(* The switch.                                                             *)

\* A redraw leaves the switch as it is read, if what it was told stands so.
LEMMA DrawnShows ==
    ASSUME ShownInv, ViewFacts, ViewFacts', NEW choice, NEW answer, NEW waiting,
           Drawn(choice, answer, waiting), UNCHANGED <<part, up>>, busy' \in BOOLEAN,
           choice \in 0..2, part = "card" => choice = 2,
           up /\ InView' /\ ~busy' /\ On' = On => choice \in {2, On'}
    PROVE  ShownInv'
<1>1. shown' = IF On' # On THEN 2 ELSE choice
  BY DEF Drawn, ReadAgain
<1>2. SwitchIsAsRead'
  BY <1>1 DEF SwitchIsAsRead
<1> QED
  BY <1>1, <1>2 DEF ShownInv

LEMMA FinishShows ==
    ASSUME ShownInv, ViewFacts, ViewFacts', NEW used, NEW failed,
           Finish(used, failed), UNCHANGED <<part, up, busy>>
    PROVE  ShownInv'
<1>1. \E answer, waiting : Drawn(shown, answer, waiting)
  BY DEF Finish
<1>2. shown \in 0..2 /\ (part = "card" => shown = 2) /\ busy' \in BOOLEAN
  BY DEF ShownInv
<1>3. up /\ InView' /\ ~busy' /\ On' = On => shown \in {2, On'}
  BY DEF ShownInv, SwitchIsAsRead, ViewFacts
<1> QED
  BY <1>1, <1>2, <1>3, DrawnShows

LEMMA ShownKept ==
    ASSUME ServerInv, KnownInv, KnownInv', ShownInv, ViewFacts, ViewFacts', [Next]_vars
    PROVE  ShownInv'
<1> USE DEF appVars, screenVars, writeVars
<1>1. ASSUME UNCHANGED <<part, up, busy, shown, copy, knowns>> PROVE ShownInv'
  <2>1. On' = On /\ (InView' <=> InView)
    BY <1>1, SameView
  <2> QED
    BY <1>1, <2>1 DEF ShownInv, SwitchIsAsRead
<1>2. CASE Serve \/ ServeSync \/ AskAgain \/ TakenAway \/ Joined \/ (\E scope \in Scopes : Poll(scope))
           \/ (\E g \in Groups : Adds(g) \/ AddAnswered(g) \/ Write(g)) \/ UNCHANGED vars
  <2>1. UNCHANGED <<part, up, busy, shown, copy, knowns>>
    BY <1>2 DEF Serve, ServeSync, AskAgain, TakenAway, Joined, Poll, Adds, AddAnswered, Write, vars
  <2> QED
    BY <1>1, <2>1
<1>3. CASE SyncFails \/ SetAside \/ UseAnswer
  <2>1. (\E used, failed : Finish(used, failed)) /\ UNCHANGED <<part, up, busy>>
    BY <1>3 DEF SyncFails, SetAside, UseAnswer
  <2> QED
    BY <2>1, FinishShows
<1>4. CASE Hydrate
  <2>1. ~up /\ UNCHANGED <<part, up, busy, shown>>
    BY <1>4 DEF Hydrate
  <2> QED
    BY <2>1 DEF ShownInv, SwitchIsAsRead
<1>5. CASE Open \/ Leave \/ NotAnswered
  <2>1. part' = part /\ up' \in BOOLEAN /\ busy' \in BOOLEAN /\ shown' = 2
    BY <1>5 DEF Open, Leave, NotAnswered, ShownInv
  <2> QED
    BY <2>1 DEF ShownInv, SwitchIsAsRead
<1>6. CASE Switch
  <2>1. /\ part = "switch" /\ InView /\ busy' = TRUE /\ UNCHANGED <<part, up>>
        /\ shown' = 1 - (IF shown = 2 THEN On ELSE shown)
    BY <1>6 DEF Switch
  <2>2. On \in 0..1 /\ shown \in 0..2
    BY <2>1 DEF ViewFacts, ShownInv
  <2>3. shown' \in 0..2
    BY <2>1, <2>2
  <2> QED
    BY <2>1, <2>3 DEF ShownInv, SwitchIsAsRead
<1>7. CASE AnswerJoin \/ AnswerClaim \/ RemoveMember \/ MarkSettled
  <2>1. busy' = TRUE /\ UNCHANGED <<part, up, shown>>
    BY <1>7 DEF AnswerJoin, AnswerClaim, RemoveMember, MarkSettled, Act
  <2> QED
    BY <2>1 DEF ShownInv, SwitchIsAsRead
<1>8. CASE Answered
  <2> DEFINE told == busy /\ part = "switch"
             choice == IF told THEN request.stamp % 2 ELSE shown
  <2>1. /\ Drawn(choice, answered, waits) /\ busy' = FALSE /\ UNCHANGED <<part, up>>
        /\ knowns' = Append(knowns, [stamp |-> request.stamp, during |-> running # Idle])
        /\ said' = request.stamp
    BY <1>8 DEF Answered
  <2>2. request.stamp \in Nat /\ shown \in 0..2
    BY DEF ServerInv, ShownInv
  <2>3. choice \in 0..2 /\ (part = "card" => choice = 2)
    BY <2>2 DEF ShownInv
  <2>4. knowns' # <<>>
    BY <2>1 DEF KnownInv
  <2>5. InView' => On' = request.stamp % 2
    BY <2>1, <2>4 DEF ViewFacts, KnownInv
  <2>6. CASE told
    <3>1. up /\ InView' /\ ~busy' /\ On' = On => choice \in {2, On'}
      BY <2>5, <2>6
    <3> HIDE DEF choice
    <3> QED
      BY <2>1, <2>3, <3>1, DrawnShows
  <2>7. CASE ~told
    <3>1. up /\ InView' /\ On' = On => shown \in {2, On'}
      BY <2>7 DEF ShownInv, SwitchIsAsRead, ViewFacts, Parts
    <3>2. choice = shown
      BY <2>7
    <3> HIDE DEF choice
    <3> QED
      BY <2>1, <2>3, <3>1, <3>2, DrawnShows
  <2> QED
    BY <2>6, <2>7
<1> QED
  BY <1>2, <1>3, <1>4, <1>5, <1>6, <1>7, <1>8 DEF Next


-----------------------------------------------------------------------------
(* Whether the group is there.                                             *)

LEMMA NotThere == NotSaidGone <=> (up /\ ~InView /\ ~wasHere /\ answered => absent)
BY DEF NotSaidGone, Screen

\* What a sync that is done tells NotYetHere.
LEMMA NextWaitIs ==
    ASSUME waits \in {"none", "running", "queued", "again"}, NEW used, NEW failed
    PROVE  /\ NextWait(used, failed) \in {"none", "running", "again"}
           /\ NextWait(used, failed) # "none" => waits # "none"
BY DEF NextWait

\* A sync that is done: if the group isn't there then, NotYetHere was told of its going.
LEMMA FinishWaits ==
    ASSUME WaitInv, ViewFacts, ViewFacts', SyncInv, SyncInv',
           NEW used \in BOOLEAN, NEW failed \in BOOLEAN,
           Finish(used, failed), UNCHANGED <<up, mine>>, absent' \in BOOLEAN, absent => absent',
           failed => absent', ~used => copy' = copy,
           used /\ waits = "running" /\ ~InView' => absent
    PROVE  WaitInv'
<1> DEFINE answer == answered \/ (waits = "running" /\ Says(used, failed))
           waiting == NextWait(used, failed)
<1>1. Drawn(shown, answer, waiting) /\ running'.back = FALSE
  BY Finishing DEF Finish
<1>2. /\ waiting \in {"none", "running", "again"}
      /\ waiting # "none" => waits # "none"
  BY NextWaitIs DEF WaitInv
<1>3. answer <=> answered \/ (waits = "running" /\ (used \/ failed))
  BY DEF Says
<1> HIDE DEF answer, waiting
<1>4. /\ wasHere' = (up' /\ (wasHere \/ InView')) /\ answered' = (answer /\ ~InView')
      /\ waits' = IF InView' THEN "none" ELSE waiting
  BY <1>1 DEF Drawn
<1>5. ASSUME up', ~InView', ~wasHere', answered' PROVE absent'
  <2>1. answer /\ ~wasHere /\ up
    BY <1>4, <1>5
  <2>2. CASE waits = "running" /\ used
    BY <1>5, <2>2
  <2>3. CASE failed
    BY <2>3
  <2>4. CASE answered
    BY <2>1, <2>4 DEF WaitInv
  <2> QED
    BY <1>3, <2>1, <2>2, <2>3, <2>4
<1>6. /\ wasHere' \in BOOLEAN /\ answered' \in BOOLEAN
      /\ waits' \in {"none", "running", "queued", "again"}
  BY <1>2, <1>4
<1>7. waits' # "none" /\ ~mine' => absent'
  BY <1>2, <1>4 DEF WaitInv
<1>8. up' /\ InView' => wasHere' /\ ~answered' /\ waits' = "none"
  BY <1>4
<1> QED
  BY <1>1, <1>5, <1>6, <1>7, <1>8 DEF WaitInv

LEMMA WaitKept ==
    ASSUME SyncInv, SyncInv', ServerInv, KnownInv, CopyInv, CopyInv', WaitInv, ShownInv,
           ViewFacts, ViewFacts', [Next]_vars
    PROVE  WaitInv'
<1> USE DEF appVars, screenVars, writeVars
\* The group may become theirs, and a sync be asked for.
<1>1. ASSUME UNCHANGED <<up, wasHere, answered, waits, absent, copy, knowns>>,
             (mine' = mine \/ mine' = TRUE), running' = running \/ running'.back = FALSE
      PROVE  WaitInv'
  <2>1. InView' <=> InView
    BY <1>1, SameView
  <2>2. mine' \in BOOLEAN /\ (mine => mine')
    <3>1. mine \in BOOLEAN
      BY DEF WaitInv
    <3>2. CASE mine' = mine
      BY <3>1, <3>2
    <3>3. CASE mine' = TRUE
      BY <3>3
    <3> QED
      BY <1>1, <3>2, <3>3
  <2>3. running'.back => running' = running
    BY <1>1
  <2> QED
    BY <1>1, <2>1, <2>2, <2>3 DEF WaitInv
<1>2. ASSUME NEW scope \in Scopes, Ask(scope) PROVE running' = running \/ running'.back = FALSE
  BY <1>2, Asking
<1>3. CASE Serve \/ Joined \/ Switch \/ AnswerJoin \/ AnswerClaim \/ RemoveMember \/ MarkSettled
           \/ (\E g \in Groups : Adds(g) \/ Write(g)) \/ UNCHANGED vars
  <2>1. /\ UNCHANGED <<up, wasHere, answered, waits, absent, copy, knowns, running>>
        /\ (mine' = mine \/ mine' = TRUE)
    BY <1>3 DEF Serve, Joined, Switch, AnswerJoin, AnswerClaim, RemoveMember, MarkSettled, Act,
                Adds, Write, vars
  <2> QED
    BY <1>1, <2>1
<1>4. CASE NotAnswered
  <2>1. /\ UNCHANGED <<up, wasHere, answered, waits, absent, copy, knowns, mine>>
        /\ Ask({Here}) \/ running' = running
    BY <1>4 DEF NotAnswered
  <2> QED
    BY <1>1, <1>2, <2>1, ScopeFacts
<1>5. ASSUME NEW scope \in Scopes, Poll(scope) PROVE WaitInv'
  <2>1. UNCHANGED <<up, wasHere, answered, waits, absent, copy, knowns, mine>> /\ Ask(scope)
    BY <1>5 DEF Poll
  <2> QED
    BY <1>1, <1>2, <2>1
<1>6. ASSUME NEW g \in Groups, AddAnswered(g) PROVE WaitInv'
  <2>1. UNCHANGED <<up, wasHere, answered, waits, absent, copy, knowns, mine>> /\ Ask({g} \cup {Here})
    BY <1>6 DEF AddAnswered
  <2> QED
    BY <1>1, <1>2, <2>1, ScopeFacts
<1>7. CASE TakenAway
  <2>1. absent' = TRUE /\ mine' = FALSE
        /\ UNCHANGED <<up, wasHere, answered, waits, copy, knowns, running>>
    BY <1>7 DEF TakenAway
  <2>2. InView' <=> InView
    BY <2>1, SameView
  <2>3. absent' \in BOOLEAN /\ mine' \in BOOLEAN /\ absent'
    BY <2>1
  <2> QED
    BY <2>1, <2>2, <2>3 DEF WaitInv
<1>8. CASE ServeSync
  <2>1. /\ UNCHANGED <<up, wasHere, answered, waits, absent, copy, knowns, mine>> /\ running # Idle
        /\ running' = [running EXCEPT !.back = TRUE, !.answer = Snapshot(running.scope)]
    BY <1>8 DEF ServeSync
  <2>2. running'.answer = Snapshot(running.scope)
    BY <2>1 DEF SyncInv
  <2>3. Here \in running.scope /\ held[Here] \in Nat /\ held[Here] <= MaxWrites
    BY <2>1 DEF SyncInv, ScopeOrNone, Scopes, Groups, ServerInv
  <2>4. held[Here] # Gone
    BY <2>3, GroupReadsAssumption DEF Gone
  <2>5. running'.answer[Here] = Gone => ~mine
    BY <2>2, <2>3, <2>4 DEF Snapshot
  <2>6. InView' <=> InView
    BY <2>1, SameView
  <2> QED
    BY <2>1, <2>5, <2>6 DEF WaitInv
<1>9. CASE SyncFails
  <2>1. Finish(FALSE, TRUE) /\ UNCHANGED <<up, mine, copy>> /\ absent' = TRUE
    BY <1>9 DEF SyncFails
  <2> QED
    BY <2>1, FinishWaits
<1>10. CASE SetAside
  <2>1. Finish(FALSE, FALSE) /\ UNCHANGED <<up, mine, copy, absent>>
    BY <1>10 DEF SetAside
  <2>2. absent' \in BOOLEAN
    BY <2>1 DEF WaitInv
  <2> QED
    BY <2>1, <2>2, FinishWaits
<1>11. CASE UseAnswer
  <2>1. Finish(TRUE, FALSE) /\ UNCHANGED <<up, mine, absent>> /\ running.back
    BY <1>11 DEF UseAnswer
  <2>2. copy' # None /\ copy'[Here] = running.answer[Here]
    BY <1>11, Using
  <2>3. ~InView' => running.answer[Here] = Gone
    BY <2>2 DEF ViewFacts
  <2>4. waits = "running" /\ ~InView' => absent
    BY <2>1, <2>3 DEF WaitInv
  <2>5. absent' \in BOOLEAN
    BY <2>1 DEF WaitInv
  <2> QED
    BY <2>1, <2>4, <2>5, FinishWaits
<1>12. CASE Hydrate
  <2>1. ~up /\ running' = Idle /\ UNCHANGED <<up, wasHere, answered, waits, absent, mine>>
    BY <1>12 DEF Hydrate
  <2> QED
    BY <2>1 DEF WaitInv, Idle
<1>13. CASE Open
  <2>1. /\ up' = TRUE /\ wasHere' = InView /\ answered' = FALSE /\ absent' = ~mine
        /\ UNCHANGED <<mine, copy, knowns>> /\ Ask({Here})
    BY <1>13 DEF Open
  <2>2. InView' <=> InView
    BY <2>1, SameView
  <2>3. waits' \in {"none", "running", "queued"} /\ (InView => waits' = "none")
        /\ (waits' = "running" => running = Idle)
    BY <1>13 DEF Open, WaitsFor
  <2>4. waits' = "running" => running'.back = FALSE
    BY <2>1, <2>3, ScopeFacts, Starting DEF Ask
  <2>5. wasHere' \in BOOLEAN /\ absent' \in BOOLEAN /\ (~mine => absent')
    BY <2>1 DEF InView
  <2> QED
    BY <2>1, <2>2, <2>3, <2>4, <2>5 DEF WaitInv
<1>14. CASE AskAgain
  <2>1. /\ up /\ (waits = "again" \/ answered) /\ answered' = FALSE
        /\ absent' = (IF answered THEN ~mine ELSE absent)
        /\ UNCHANGED <<up, wasHere, mine, copy, knowns>> /\ Ask({Here}) /\ waits' = WaitsFor
    BY <1>14 DEF AskAgain
  <2>2. ~InView /\ (InView' <=> InView)
    BY <2>1, SameView DEF WaitInv
  <2>3. waits' \in {"running", "queued"} /\ (waits' = "running" => running = Idle)
    BY <2>1 DEF WaitsFor
  <2>4. waits' = "running" => running'.back = FALSE
    BY <2>1, <2>3, ScopeFacts, Starting DEF Ask
  <2>5. absent' \in BOOLEAN /\ (~mine => absent')
    BY <2>1 DEF WaitInv
  <2> QED
    BY <2>1, <2>2, <2>3, <2>4, <2>5 DEF WaitInv
<1>15. CASE Leave
  <2>1. /\ up' = FALSE /\ wasHere' = FALSE /\ answered' = FALSE /\ waits' = "none"
        /\ UNCHANGED <<absent, mine>>
    BY <1>15 DEF Leave
  <2> QED
    BY <2>1 DEF WaitInv
<1>16. CASE Answered
  <2>1. /\ \E choice : Drawn(choice, answered, waits)
        /\ UNCHANGED <<up, mine, absent, copy>> /\ Ask({Here})
    BY <1>16 DEF Answered
  <2>2. InView' <=> InView
    BY <2>1 DEF ViewFacts
  <2>3. /\ wasHere' = (up' /\ (wasHere \/ InView')) /\ answered' = (answered /\ ~InView')
        /\ waits' = IF InView' THEN "none" ELSE waits
    BY <2>1 DEF Drawn
  <2>4. running' = running \/ running'.back = FALSE
    BY <1>2, <2>1, ScopeFacts
  <2>5. wasHere' \in BOOLEAN /\ answered' \in BOOLEAN
    BY <2>3
  <2> QED
    BY <2>1, <2>2, <2>3, <2>4, <2>5 DEF WaitInv
<1> QED
  BY <1>3, <1>4, <1>5, <1>6, <1>7, <1>8, <1>9, <1>10, <1>11, <1>12, <1>13, <1>14, <1>15, <1>16
  DEF Next

-----------------------------------------------------------------------------
(* The screen.                                                             *)

LEMMA InitScreen == Init => ScreenInv
<1> SUFFICES ASSUME Init PROVE ScreenInv
  OBVIOUS
<1>1. SyncInv
  BY InitSync
<1>2. ServerInv
  BY GroupReadsAssumption DEF Init, ServerInv, NoWrite, Groups
<1>3. KnownInv
  BY DEF Init, KnownInv
<1>4. CopyInv
  BY DEF Init, CopyInv, SentIsCopy, Idle
<1>5. ShownInv
  <2>1. part \in Parts /\ up = FALSE /\ busy = FALSE /\ shown = 2
    BY DEF Init
  <2>2. SwitchIsAsRead
    BY <2>1 DEF SwitchIsAsRead
  <2>3. up \in BOOLEAN /\ busy \in BOOLEAN
    BY <2>1
  <2> QED
    BY <2>1, <2>2, <2>3 DEF ShownInv
<1>6. ~InView
  BY DEF Init, InView, View
<1>7. WaitInv
  BY <1>6 DEF Init, WaitInv
<1> QED
  BY <1>1, <1>2, <1>3, <1>4, <1>5, <1>7 DEF ScreenInv

\* Each part is kept, the later ones with what the earlier ones say of the next state.
LEMMA NextScreen == ScreenInv /\ [Next]_vars => ScreenInv'
<1> SUFFICES ASSUME ScreenInv, [Next]_vars PROVE ScreenInv'
  OBVIOUS
<1>1. SyncInv /\ ServerInv /\ KnownInv /\ CopyInv /\ ShownInv /\ WaitInv
  BY DEF ScreenInv
<1>2. SyncInv' /\ ServerInv'
  BY <1>1, NextSync, ServerKept
<1>3. KnownInv' /\ CopyInv'
  BY <1>1, <1>2, KnownKept, CopyKept
<1>4. ViewFacts /\ ViewFacts'
  <2>1. ViewFacts
    BY <1>1, ViewIs
  <2>2. (SyncInv /\ KnownInv /\ CopyInv => ViewFacts)'
    BY ViewIs, PTL
  <2> QED
    BY <1>2, <1>3, <2>1, <2>2
<1>5. ShownInv'
  BY <1>1, <1>3, <1>4, ShownKept
<1>6. WaitInv'
  BY <1>1, <1>2, <1>3, <1>4, WaitKept
<1> QED
  BY <1>2, <1>3, <1>5, <1>6 DEF ScreenInv

LEMMA ScreenIs == ScreenInv => ScreenIsTrue
<1> SUFFICES ASSUME ScreenInv PROVE ScreenIsTrue
  OBVIOUS
<1>1. SyncInv /\ ServerInv /\ KnownInv /\ CopyInv /\ ShownInv /\ WaitInv /\ ViewFacts
  BY ViewIs DEF ScreenInv
<1>2. TypeOK
  <2>1. DOMAIN held = Groups /\ unsure \subseteq Groups
    BY <1>1 DEF ServerInv
  <2>2. DOMAIN copy \in {{}, Groups}
    BY <1>1 DEF SyncInv, None
  <2>3. DOMAIN versions = Scopes /\ \A s \in Scopes : DOMAIN versions[s] \in {{}, s}
    BY <1>1 DEF SyncInv, VersionsAreTrue, None
  <2>4. running.scope \in Scopes \cup {{}} /\ queued \in Scopes \cup {{}}
    BY <1>1 DEF SyncInv, ScopeOrNone
  <2>5. /\ waits \in {"none", "running", "queued", "again"} /\ shown \in 0..2 /\ part \in Parts
        /\ \A b \in {up, wasHere, answered, absent, busy, mine} : b \in BOOLEAN
    BY <1>1 DEF ShownInv, WaitInv
  <2> QED
    BY <2>1, <2>2, <2>3, <2>4, <2>5 DEF TypeOK
<1>3. AnswerStays
  BY <1>1 DEF AnswerStays, ViewFacts, KnownInv, CopyInv
<1>4. SwitchIsAsRead /\ NotSaidGone
  BY <1>1, NotThere DEF ShownInv, WaitInv
<1> QED
  BY <1>2, <1>3, <1>4 DEF ScreenIsTrue

\* What a write was answered with stays on the screen until something later is
\* read, the switch is as it was last read or answered, and the screen says the
\* group doesn't exist only if it was gone, or could not be asked for, since
\* (GroupDetailScreen, NotYetHere, AppData.known).
THEOREM ScreenStaysTrue == Spec => []ScreenIsTrue
BY InitScreen, NextScreen, ScreenIs, PTL DEF Spec
=============================================================================
