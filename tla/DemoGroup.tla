----------------------------- MODULE DemoGroup -----------------------------
(***************************************************************************)
(* Who is in a group of the demo (MockClient), joining it by its link, and *)
(* its expenses: the server's rules in memory, for one user.               *)
(*                                                                         *)
(* No payment is under way: DemoPayments has those.                        *)
(***************************************************************************)
EXTENDS Naturals, FiniteSets, Sequences

CONSTANTS Me, Asker, Friend,      \* users; only Me does anything
          MaxMembers

\* Assumed of the constants, wherever they are given values.
DemoGroupAssumption == MaxMembers \in Nat /\ Cardinality({Me, Asker, Friend}) = 3

VARIABLES
    heldBy,      \* member -> claimedByUserId and alsoHeldBy
    memberIds,   \* those still in the group
    joinRequests, approveJoins, shared, exists,
    expenses,    \* who paid and who shares it, one at a time
    history      \* what the history says was there last: as added, then as changed

vars == <<heldBy, memberIds, joinRequests, approveJoins, shared, exists, expenses, history>>

Users == {Me, Asker, Friend}
Nobody == 0    \* a request to join as somebody new
Holders(m) == {heldBy[m][i] : i \in DOMAIN heldBy[m]}
Joined(m) == heldBy[m] # <<>>
MemberOf(user) == {m \in memberIds : user \in Holders(m)}
Mine == MemberOf(Me)

\* Goa trip of the fixtures: the user, a friend who joined, and Aman, whom
\* someone asks to be.
Init ==
    /\ heldBy = <<<<Me>>, <<Friend>>, <<>>>> /\ memberIds = 1..3
    /\ joinRequests = {[user |-> Asker, as |-> 3, status |-> "pending"]}
    /\ approveJoins = TRUE /\ shared = TRUE /\ exists = TRUE
    /\ expenses = {} /\ history = {}

-----------------------------------------------------------------------------
(* Members                                                                 *)

AddMember(holders) ==
    /\ Len(heldBy) < MaxMembers
    /\ heldBy' = Append(heldBy, holders) /\ memberIds' = memberIds \cup {Len(heldBy) + 1}

AddGhost ==
    /\ AddMember(<<>>)
    /\ UNCHANGED <<joinRequests, approveJoins, shared, exists, expenses, history>>

\* A ghost, or someone who joined, as another device of theirs.
Admit(m, user) == heldBy' = [heldBy EXCEPT ![m] = Append(@, user)] /\ UNCHANGED memberIds

Named(m) == \E e \in expenses : m \in {e.payer} \cup e.among

RequestsWithout(m) ==
    {IF q.as = m THEN [q EXCEPT !.as = Nobody, !.status = "declined"] ELSE q : q \in joinRequests}

RemoveMember(m) ==
    /\ m \in memberIds /\ ~Joined(m) /\ ~Named(m)
    /\ memberIds' = memberIds \ {m} /\ joinRequests' = RequestsWithout(m)
    /\ UNCHANGED <<heldBy, approveJoins, shared, exists, expenses, history>>

\* The member stays with their other devices, the oldest first.
LeaveGroup ==
    /\ \E m \in Mine :
        /\ \E n \in memberIds : Holders(n) \ {Me} # {}
        /\ heldBy' = [heldBy EXCEPT ![m] = SelectSeq(@, LAMBDA a : a # Me)]
    /\ UNCHANGED <<memberIds, joinRequests, approveJoins, shared, exists, expenses, history>>

DeleteGroup ==
    /\ expenses = {}    \* nothing is owed
    /\ exists' = FALSE /\ joinRequests' = {} /\ shared' = FALSE
    /\ UNCHANGED <<heldBy, memberIds, approveJoins, expenses, history>>

-----------------------------------------------------------------------------
(* Joining                                                                 *)

OthersRequests == {q \in joinRequests : q.user # Me}

\* A ref of the link names a member, or a name no member goes by.
Pick(m) == m = Nobody \/ m \in memberIds

JoinRules(m) == shared /\ Mine = {} /\ Pick(m)

Join(m) ==
    /\ JoinRules(m) /\ ~approveJoins
    /\ IF m = Nobody THEN AddMember(<<Me>>) ELSE Admit(m, Me)
    /\ joinRequests' = OthersRequests
    /\ UNCHANGED <<approveJoins, shared, exists, expenses, history>>

AskToJoin(m) ==
    /\ JoinRules(m)
    /\ joinRequests' = OthersRequests \cup {[user |-> Me, as |-> m, status |-> "pending"]}
    /\ UNCHANGED <<heldBy, memberIds, approveJoins, shared, exists, expenses, history>>

WithdrawJoinRequest ==
    /\ joinRequests # OthersRequests
    /\ joinRequests' = OthersRequests
    /\ UNCHANGED <<heldBy, memberIds, approveJoins, shared, exists, expenses, history>>

FindJoinRequest(q) == q \in joinRequests /\ Mine # {}

ApproveJoin(q) ==
    /\ FindJoinRequest(q) /\ q.status = "pending" /\ MemberOf(q.user) = {}
    /\ joinRequests' = joinRequests \ {q}
    /\ IF q.as = Nobody THEN AddMember(<<q.user>>) ELSE Admit(q.as, q.user)
    /\ UNCHANGED <<approveJoins, shared, exists, expenses, history>>

DeclineJoin(q) ==
    /\ FindJoinRequest(q)
    /\ joinRequests' = (joinRequests \ {q}) \cup {[q EXCEPT !.status = "declined"]}
    /\ UNCHANGED <<heldBy, memberIds, approveJoins, shared, exists, expenses, history>>

SetApproveJoins(on) ==
    /\ approveJoins' = on
    /\ UNCHANGED <<heldBy, memberIds, joinRequests, shared, exists, expenses, history>>

\* A new link takes the old one's place.
GroupLink(there) ==
    /\ shared' = there
    /\ UNCHANGED <<heldBy, memberIds, joinRequests, approveJoins, exists, expenses, history>>

-----------------------------------------------------------------------------
(* Expenses                                                                *)

Inputs == [payer : memberIds, among : {{m} : m \in memberIds}]

AddExpense(input) ==
    /\ input \in Inputs /\ expenses = {}
    /\ expenses' = {input} /\ history' = {input}
    /\ UNCHANGED <<heldBy, memberIds, joinRequests, approveJoins, shared, exists>>

\* Only whoever paid it, unless that is a ghost.
CheckExpenseOwner(e) == Joined(e.payer) => Me \in Holders(e.payer)

SameExpense(e, next) == e = next

\* Saved as it already stood: nothing is noted.
UpdateExpense(e, input) ==
    /\ e \in expenses /\ input \in Inputs /\ CheckExpenseOwner(e)
    /\ expenses' = {input}
    /\ history' = IF SameExpense(e, input) THEN history ELSE {input}
    /\ UNCHANGED <<heldBy, memberIds, joinRequests, approveJoins, shared, exists>>

DeleteExpense(e) ==
    /\ e \in expenses /\ CheckExpenseOwner(e)
    /\ expenses' = {} /\ history' = {}
    /\ UNCHANGED <<heldBy, memberIds, joinRequests, approveJoins, shared, exists>>

Next ==
    /\ exists
    /\ \/ AddGhost \/ LeaveGroup \/ DeleteGroup \/ WithdrawJoinRequest
       \/ \E m \in memberIds : RemoveMember(m)
       \/ \E m \in memberIds \cup {Nobody} : Join(m) \/ AskToJoin(m)
       \/ \E q \in joinRequests : ApproveJoin(q) \/ DeclineJoin(q)
       \/ \E on \in BOOLEAN : SetApproveJoins(on) \/ GroupLink(on)
       \/ \E input \in Inputs : AddExpense(input) \/ \E e \in expenses : UpdateExpense(e, input)
       \/ \E e \in expenses : DeleteExpense(e)

Spec == Init /\ [][Next]_vars

-----------------------------------------------------------------------------

TypeOK ==
    /\ \A m \in DOMAIN heldBy : heldBy[m] \in Seq(Users)
    /\ memberIds \subseteq DOMAIN heldBy /\ Len(heldBy) <= MaxMembers
    /\ joinRequests \subseteq [user : Users, as : 0..MaxMembers, status : {"pending", "declined"}]
    /\ approveJoins \in BOOLEAN /\ shared \in BOOLEAN /\ exists \in BOOLEAN

\* A user is one member of the group, whichever way they came in, however
\* often they left (join, approveJoin).
HeldOnce == \A user \in Users : Cardinality(MemberOf(user)) <= 1

\* Whoever an expense names is still in the group, and whoever a waiting
\* request asks to be (removeMember).
NamedStay ==
    /\ \A e \in expenses : {e.payer} \cup e.among \subseteq memberIds
    /\ \A q \in joinRequests : q.as \in memberIds \cup {Nobody}

\* The changes noted, read in order, leave the expense as it is (updateExpense,
\* deleteExpense, buildHistory).
HistoryAgrees == history = expenses
=============================================================================
