---------------------------- MODULE GroupMembers ----------------------------
(***************************************************************************)
(* Who is in a group, and who they are: the accounts that join by the      *)
(* group's link or are let in (routes/joining.ts), leave, or are deleted   *)
(* (groupRules.ts, repo.ts), and the members of the group that the ledger  *)
(* names (routes/groups.ts).                                               *)
(*                                                                         *)
(* One group.  A member starts as a ghost; the first account to join as    *)
(* them is first[m] (claimed_by_user_id), the later ones are others[m]     *)
(* (member_accounts, oldest first).  A handler that reads the database     *)
(* before it awaits its body, and uses what it read after, is two actions: *)
(* call[u] is what account u's request read.  Everything else is one       *)
(* transaction.  Names, amounts and pay links are left out: a refusal that *)
(* depends on them only removes steps.                                     *)
(***************************************************************************)
EXTENDS Naturals, FiniteSets, Sequences, SequencesExt

CONSTANTS
    Accounts,    \* user accounts
    Nobody,      \* no account
    Members,     \* member ids of the group
    Creator,     \* the account that makes the group
    FirstMember, \* the member it is made as
    Expenses,    \* expense ids
    MaxPending,  \* MAX_PENDING_JOINS
    Calls,       \* bound: the handlers that are called here, of those that await a body
    MaxCalls     \* bound: how many of them wait at once

ASSUME MembersAssumption ==
    /\ Nobody \notin Accounts
    /\ Creator \in Accounts
    /\ FirstMember \in Members
    /\ MaxPending \in Nat /\ MaxCalls \in Nat
    /\ Calls \subseteq {"member", "expense", "approval", "address"}
    /\ {"none", "new"} \cap Members = {}

VARIABLES
    accounts,  \* the accounts that exist
    group,     \* "open" or "deleted"
    link,      \* whether the group's link works
    approve,   \* approveJoins: whether someone has to let people in
    seat,      \* of each member id: unused, in the group, or removed
    first,     \* claimed_by_user_id
    others,    \* member_accounts, oldest first
    address,   \* the payout address of a member: none, typed for a ghost, their own, or
               \* set by somebody else when they had joined meanwhile ("late")
    expense,   \* the expenses, by the members they name
    named,     \* members that a settlement names
    incoming,  \* members with a payment to them under way
    request,   \* each account's request to join
    call       \* what each account's request has read, while its body is awaited

vars == <<accounts, group, link, approve, seat, first, others, address, expense, named,
          incoming, request, call>>

people == <<seat, first, others>>
ledger == <<expense, named, incoming>>

---------------------------------------------------------------------------
NoExpense == [payer |-> "none", parts |-> {}]
NoRequest == [status |-> "none", as |-> "none"]
NoCall    == [op |-> "none", known |-> {}, member |-> "none"]

InGroup == {m \in Members : seat[m] = "in"}

\* accountsOf: every account that is this member, the first to join as them first.
AccountsOf(m) == IF first[m] = Nobody THEN {} ELSE {first[m]} \cup ToSet(others[m])

IsHeldBy(m, u) == u \in AccountsOf(m)

\* memberForUser
IsIn(u) == group = "open" /\ \E m \in InGroup : IsHeldBy(m, u)

\* accountCount: the claimed members and the other devices.
AccountCount ==
    Cardinality({m \in InGroup : first[m] # Nobody})
        + Cardinality(UNION {{m} \X DOMAIN others[m] : m \in InGroup})

IsGhost(m) == first[m] = Nobody

\* memberHasHistory: a settlement or an expense names them.
HasHistory(m) ==
    m \in named \/ \E e \in Expenses : m = expense[e].payer \/ m \in expense[e].parts

PendingOf == {u \in Accounts : request[u].status = "pending"}

Init ==
    /\ accounts = Accounts
    /\ group = "open" /\ link = "off" /\ approve = FALSE
    /\ seat = [m \in Members |-> IF m = FirstMember THEN "in" ELSE "unused"]
    /\ first = [m \in Members |-> IF m = FirstMember THEN Creator ELSE Nobody]
    /\ others = [m \in Members |-> <<>>]
    /\ address = [m \in Members |-> "none"]
    /\ expense = [e \in Expenses |-> NoExpense]
    /\ named = {} /\ incoming = {}
    /\ request = [u \in Accounts |-> NoRequest]
    /\ call = [u \in Accounts |-> NoCall]

---------------------------------------------------------------------------
(* Members come and go *)

CanCall(u, op) ==
    /\ op \in Calls /\ call[u] = NoCall
    /\ Cardinality({v \in Accounts : call[v] # NoCall}) < MaxCalls

\* A handler finds the caller in the group, and waits for the body: of a new
\* member, of an expense, or of PUT /groups/:id.
ReadGroup(u, op) ==
    /\ IsIn(u) /\ CanCall(u, op)
    /\ call' = [call EXCEPT ![u] = [op |-> op, known |-> InGroup, member |-> "none"]]
    /\ UNCHANGED <<accounts, group, link, approve, people, address, ledger, request>>

\* POST /groups/:id/members: a ghost, whether or not the caller is still in.
AddMember(u, m) ==
    /\ call[u].op = "member" /\ group = "open"
    /\ seat[m] = "unused"
    /\ seat' = [seat EXCEPT ![m] = "in"]
    /\ call' = [call EXCEPT ![u] = NoCall]
    /\ UNCHANGED <<accounts, group, link, approve, first, others, address, ledger, request>>

\* DELETE /groups/:id/members/:memberId: only a ghost nothing names; whoever
\* is asking to be them is turned down.
RemoveMember(u, m) ==
    /\ IsIn(u) /\ m \in InGroup /\ IsGhost(m) /\ ~HasHistory(m)
    /\ seat' = [seat EXCEPT ![m] = "removed"]
    /\ request' = [v \in Accounts |->
          IF request[v].as = m THEN [status |-> "declined", as |-> "none"] ELSE request[v]]
    /\ UNCHANGED <<accounts, group, link, approve, first, others, address, ledger, call>>

---------------------------------------------------------------------------
(* Joining *)

\* admit(): a ghost is claimed, without the address typed for it; someone who
\* has joined gets another device; someone new is appended.
Admit(u, m) ==
    \/ /\ m \in InGroup /\ IsGhost(m)
       /\ first' = [first EXCEPT ![m] = u]
       /\ address' = [address EXCEPT ![m] = "none"]
       /\ UNCHANGED <<seat, others>>
    \/ /\ m \in InGroup /\ ~IsGhost(m)
       /\ others' = [others EXCEPT ![m] = Append(@, u)]
       /\ UNCHANGED <<seat, first, address>>

AdmitNew(u, m) ==
    /\ seat[m] = "unused"
    /\ seat' = [seat EXCEPT ![m] = "in"]
    /\ first' = [first EXCEPT ![m] = u]
    /\ UNCHANGED <<others, address>>

\* Mutant: joining does not look whether the account is in already.
JoinTwice(u, m) ==
    /\ group = "open" /\ link = "on" /\ ~approve
    /\ u \in accounts
    /\ Admit(u, m) \/ AdmitNew(u, m)
    /\ request' = [request EXCEPT ![u] = NoRequest]
    /\ UNCHANGED <<accounts, group, link, approve, ledger, call>>

\* POST /join: straight in, if the group does not ask to look first.  Any
\* request the account had here is gone.
Join(u, m) ==
    /\ group = "open" /\ link = "on" /\ ~approve
    /\ u \in accounts /\ ~IsIn(u)
    /\ Admit(u, m) \/ AdmitNew(u, m)
    /\ request' = [request EXCEPT ![u] = NoRequest]
    /\ UNCHANGED <<accounts, group, link, approve, ledger, call>>

\* Asking again takes the asker's own place; otherwise there has to be room.
HasPlace(u) == u \in PendingOf \/ Cardinality(PendingOf) < MaxPending

\* POST /join-requests, as someone in the group or as someone new.
AskToJoin(u, as) ==
    /\ group = "open" /\ link = "on"
    /\ u \in accounts /\ ~IsIn(u)
    /\ as \in InGroup \cup {"new"}
    /\ HasPlace(u)
    /\ request' = [request EXCEPT ![u] = [status |-> "pending", as |-> as]]
    /\ UNCHANGED <<accounts, group, link, approve, people, address, ledger, call>>

\* DELETE /join-requests/:id
Withdraw(u) ==
    /\ request[u].status # "none"
    /\ request' = [request EXCEPT ![u] = NoRequest]
    /\ UNCHANGED <<accounts, group, link, approve, people, address, ledger, call>>

\* POST /join-requests/:id/approve
Approve(v, u) ==
    /\ IsIn(v)
    /\ request[u].status = "pending" /\ ~IsIn(u)
    /\ \/ Admit(u, request[u].as)
       \/ request[u].as = "new" /\ \E m \in Members : AdmitNew(u, m)
    /\ request' = [request EXCEPT ![u] = NoRequest]
    /\ UNCHANGED <<accounts, group, link, approve, ledger, call>>

\* POST /join-requests/:id/decline
Decline(v, u) ==
    /\ IsIn(v)
    /\ request[u].status = "pending"
    /\ request' = [request EXCEPT ![u] = [status |-> "declined", as |-> request[u].as]]
    /\ UNCHANGED <<accounts, group, link, approve, people, address, ledger, call>>

\* PUT /groups/:id, approveJoins, once the body is there.
ChangeApproval(u) ==
    /\ call[u].op = "approval"
    /\ approve' \in (IF group = "open" THEN BOOLEAN ELSE {approve})
    /\ call' = [call EXCEPT ![u] = NoCall]
    /\ UNCHANGED <<accounts, group, link, people, address, ledger, request>>

\* POST and DELETE /groups/:id/link: a new link replaces the last.
ChangeLink(u) ==
    /\ IsIn(u)
    /\ link' \in {"on", "off"}
    /\ UNCHANGED <<accounts, group, approve, people, address, ledger, request, call>>

---------------------------------------------------------------------------
(* Leaving *)

\* removeAccount: the oldest other account takes over, or the member is a
\* ghost again (unclaimMember).
RemoveAccount(u, m) ==
    /\ \/ /\ first[m] # u
          /\ \E i \in DOMAIN others[m] :
                others[m][i] = u /\ others' = [others EXCEPT ![m] = RemoveAt(@, i)]
          /\ UNCHANGED first
       \/ /\ first[m] = u /\ others[m] # <<>>
          /\ first' = [first EXCEPT ![m] = Head(others[m])]
          /\ others' = [others EXCEPT ![m] = Tail(@)]
       \/ /\ first[m] = u /\ others[m] = <<>>
          /\ first' = [first EXCEPT ![m] = Nobody]
          /\ UNCHANGED others
    /\ UNCHANGED <<seat, address>>

NothingIncoming(u) == \A m \in incoming : ~IsHeldBy(m, u)

\* Mutant: the last person with an account may leave.
LeaveEmpty(u) ==
    /\ IsIn(u)
    /\ NothingIncoming(u)
    /\ \E m \in InGroup : IsHeldBy(m, u) /\ RemoveAccount(u, m)
    /\ UNCHANGED <<accounts, group, link, approve, ledger, request, call>>

\* POST /groups/:id/leave
Leave(u) ==
    /\ IsIn(u)
    /\ AccountCount > 1
    /\ NothingIncoming(u)
    /\ \E m \in InGroup : IsHeldBy(m, u) /\ RemoveAccount(u, m)
    /\ UNCHANGED <<accounts, group, link, approve, ledger, request, call>>

\* deleteGroup: the group and everything in it.
DropGroup ==
    /\ group' = "deleted" /\ link' = "off"
    /\ seat' = [m \in Members |-> IF m \in InGroup THEN "removed" ELSE seat[m]]
    /\ first' = [m \in Members |-> Nobody]
    /\ others' = [m \in Members |-> <<>>]
    /\ address' = [m \in Members |-> "none"]
    /\ expense' = [e \in Expenses |-> NoExpense]
    /\ named' = {} /\ incoming' = {}

\* Mutant: a payment on its way does not hold the group.
DeleteGroupWhilePaid(u) ==
    /\ IsIn(u)
    /\ DropGroup
    /\ request' = [v \in Accounts |-> NoRequest]
    /\ UNCHANGED <<accounts, approve, call>>

\* DELETE /groups/:id; that nothing may be owed is left out with the amounts.
DeleteGroup(u) ==
    /\ IsIn(u) /\ incoming = {}
    /\ DropGroup
    /\ request' = [v \in Accounts |-> NoRequest]
    /\ UNCHANGED <<accounts, approve, call>>

\* DELETE /me, deleteAccount: a group where it is the only account goes with it.
DeleteAccount(u) ==
    /\ u \in accounts
    /\ NothingIncoming(u)
    /\ accounts' = accounts \ {u}
    /\ \/ /\ IsIn(u) /\ AccountCount = 1 /\ incoming = {}
          /\ DropGroup
          /\ request' = [v \in Accounts |-> NoRequest]
       \/ /\ IsIn(u) /\ AccountCount > 1
          /\ \E m \in InGroup : IsHeldBy(m, u) /\ RemoveAccount(u, m)
          /\ request' = [request EXCEPT ![u] = NoRequest]
          /\ UNCHANGED <<group, link, ledger>>
       \/ /\ ~IsIn(u)
          /\ request' = [request EXCEPT ![u] = NoRequest]
          /\ UNCHANGED <<group, link, people, address, ledger>>
    /\ UNCHANGED <<approve, call>>

---------------------------------------------------------------------------
(* What names members: expenses, payments, addresses *)

\* Mutant: the row is inserted without the foreign key on its payer.
AddExpenseUnchecked(u, e, payer, parts) ==
    /\ call[u].op = "expense"
    /\ expense[e] = NoExpense
    /\ {payer} \cup parts \subseteq call[u].known
    /\ call' = [call EXCEPT ![u] = NoCall]
    /\ expense' = IF IsIn(u)
                  THEN [expense EXCEPT ![e] = [payer |-> payer, parts |-> parts]]
                  ELSE expense
    /\ UNCHANGED <<accounts, group, link, approve, people, address, named, incoming, request>>

\* POST /groups/:id/expenses: the body is checked against the group as it was
\* read, and the row inserted, its payer by foreign key, its parts as they stand.
AddExpense(u, e, payer, parts) ==
    /\ call[u].op = "expense"
    /\ expense[e] = NoExpense
    /\ {payer} \cup parts \subseteq call[u].known
    /\ call' = [call EXCEPT ![u] = NoCall]
    /\ expense' = IF IsIn(u) /\ payer \in InGroup
                  THEN [expense EXCEPT ![e] = [payer |-> payer, parts |-> parts]]
                  ELSE expense
    /\ UNCHANGED <<accounts, group, link, approve, people, address, named, incoming, request>>

\* PUT /groups/:id/expenses/:expenseId, the same way: only the payer may, or
\* anyone for a ghost.
EditExpense(u, e, payer, parts) ==
    /\ call[u].op = "expense"
    /\ expense[e] # NoExpense
    /\ {payer} \cup parts \subseteq call[u].known
    /\ call' = [call EXCEPT ![u] = NoCall]
    /\ expense' = IF /\ IsIn(u) /\ payer \in InGroup
                     /\ IsGhost(expense[e].payer) \/ IsHeldBy(expense[e].payer, u)
                  THEN [expense EXCEPT ![e] = [payer |-> payer, parts |-> parts]]
                  ELSE expense
    /\ UNCHANGED <<accounts, group, link, approve, people, address, named, incoming, request>>

\* DELETE /groups/:id/expenses/:expenseId
DeleteExpense(u, e) ==
    /\ IsIn(u) /\ expense[e] # NoExpense
    /\ IsGhost(expense[e].payer) \/ IsHeldBy(expense[e].payer, u)
    /\ expense' = [expense EXCEPT ![e] = NoExpense]
    /\ UNCHANGED <<accounts, group, link, approve, people, address, named, incoming, request, call>>

\* A settlement is started for a debt: its rows name payer and payee.
StartPayment(from, to) ==
    /\ group = "open"
    /\ from # to /\ {from, to} \subseteq InGroup
    /\ \E e \in Expenses : to = expense[e].payer /\ from \in expense[e].parts
    /\ named' = named \cup {from, to}
    /\ incoming' = incoming \cup {to}
    /\ UNCHANGED <<accounts, group, link, approve, people, address, expense, request, call>>

EndPayment(to) ==
    /\ to \in incoming
    /\ incoming' = incoming \ {to}
    /\ UNCHANGED <<accounts, group, link, approve, people, address, expense, named, request, call>>

\* PUT /members/:id/payout-address, up to the body: allowed for a ghost, or
\* for one's own member.
BeginAddress(u, m) ==
    /\ IsIn(u) /\ m \in InGroup /\ CanCall(u, "address")
    /\ IsGhost(m) \/ IsHeldBy(m, u)
    /\ call' = [call EXCEPT ![u] = [op |-> "address", known |-> {}, member |-> m]]
    /\ UNCHANGED <<accounts, group, link, approve, people, address, ledger, request>>

\* Whose address it is that u sets on m now.
SetBy(u, m) ==
    IF IsHeldBy(m, u) THEN "own" ELSE IF IsGhost(m) THEN "typed" ELSE "late"

\* The address in the body is set on the member that was read, whoever they
\* are by now.
SetAddress(u) ==
    /\ call[u].op = "address"
    /\ call' = [call EXCEPT ![u] = NoCall]
    /\ address' = [m \in Members |->
          IF m = call[u].member /\ m \in InGroup THEN SetBy(u, m) ELSE address[m]]
    /\ UNCHANGED <<accounts, group, link, approve, people, ledger, request>>

---------------------------------------------------------------------------
Door(u) ==
    \/ \E m \in Members : Join(u, m)
    \/ \E as \in Members \cup {"new"} : AskToJoin(u, as)
    \/ Withdraw(u)
    \/ \E v \in Accounts : Approve(u, v) \/ Decline(u, v)
    \/ ChangeApproval(u)
    \/ ChangeLink(u)
    \/ Leave(u)
    \/ DeleteGroup(u)
    \/ DeleteAccount(u)

Ledger(u) ==
    \/ \E m \in Members : AddMember(u, m) \/ RemoveMember(u, m) \/ BeginAddress(u, m)
    \/ SetAddress(u)
    \/ \E op \in {"member", "expense", "approval"} : ReadGroup(u, op)
    \/ \E e \in Expenses :
          \/ DeleteExpense(u, e)
          \/ \E payer \in call[u].known : \E parts \in SUBSET call[u].known \ {{}} :
                AddExpense(u, e, payer, parts) \/ EditExpense(u, e, payer, parts)

Next ==
    \/ \E u \in Accounts : Door(u) \/ Ledger(u)
    \/ \E from, to \in Members : StartPayment(from, to)
    \/ \E to \in Members : EndPayment(to)

Spec == Init /\ [][Next]_vars

\* For TLC: the creator, and the member they are, stand out; the others are alike.
Alike == Permutations(Accounts \ {Creator}) \cup Permutations(Members \ {FirstMember})

---------------------------------------------------------------------------
(* Properties *)

TypeOK ==
    /\ accounts \subseteq Accounts
    /\ group \in {"open", "deleted"} /\ link \in {"on", "off"} /\ approve \in BOOLEAN
    /\ seat \in [Members -> {"unused", "in", "removed"}]
    /\ first \in [Members -> Accounts \cup {Nobody}]
    /\ others \in [Members -> Seq(Accounts)]
    /\ address \in [Members -> {"none", "typed", "own", "late"}]
    /\ expense \in [Expenses -> [payer: Members \cup {"none"}, parts: SUBSET Members]]
    /\ named \subseteq Members /\ incoming \subseteq Members
    /\ request \in [Accounts -> [status: {"none", "pending", "declined"},
                                 as: Members \cup {"none", "new"}]]
    /\ call \in [Accounts -> [op: {"none", "member", "expense", "approval", "address"},
                              known: SUBSET Members,
                              member: Members \cup {"none"}]]

\* One account, one member (joining.ts): whatever way it came in, and however
\* often it asked.
OneMemberPerAccount ==
    \A m, n \in Members : m # n => AccountsOf(m) \cap AccountsOf(n) = {}

\* The two tables that say who a member is agree: a ghost has no devices left,
\* a device is listed once, and only accounts that exist are anyone.
AccountsLineUp ==
    \A m \in Members :
        /\ first[m] = Nobody => others[m] = <<>>
        /\ first[m] \notin ToSet(others[m]) /\ IsInjective(others[m])
        /\ AccountsOf(m) \subseteq accounts
        /\ AccountsOf(m) # {} => seat[m] = "in"

\* A group can always be reached by an account (leaveGroup, deleteAccount).
GroupReachable == group = "open" => \E u \in accounts : IsIn(u)

\* A request that waits can be answered yes: whoever asks exists and is not in
\* yet, and whoever they ask to be is still in the group.
RequestsCanBeAnswered ==
    \A u \in Accounts : request[u].status # "none" =>
        /\ u \in accounts /\ ~IsIn(u)
        /\ request[u].status = "pending" => request[u].as \in InGroup \cup {"new"}

\* A leaked link cannot bury a group in requests (MAX_PENDING_JOINS).
PendingCapped == Cardinality(PendingOf) <= MaxPending

\* Whom the ledger says someone paid or was paid by stays in the group, though
\* members are removed while expenses are being written.
PayersStay ==
    \A m \in Members :
        m \in named \cup incoming \/ (\E e \in Expenses : expense[e].payer = m) => m \in InGroup

\* Who a payment is on its way to keeps their place until it has finished
\* (checkNothingIncoming, checkGroupCanGo): nobody leaves it, no account or group
\* is deleted under it, and whoever else joins as them only comes beside them.
PayeeStays ==
    [][\A m \in incoming :
          group' = group /\ AccountsOf(m) \subseteq AccountsOf(m)' \cap accounts']_vars

\* Whoever joins as someone, by the link or let in, by the first account or
\* after the last one left, starts without an address (claimMember).
JoiningClearsAddress ==
    [][\A m \in Members : IsGhost(m) /\ ~IsGhost(m)' => address'[m] = "none"]_vars

\* An address typed for a ghost is gone for good once somebody is them. What may
\* still land on them is a request let through before they joined, whose body came
\* after ("late"): groups.ts:276-279 speaks as if that could not be.
TypedIsForGhosts == \A m \in Members : address[m] = "typed" => IsGhost(m)

\* What the tables also keep to: a group that is gone has nobody's account in it, a
\* member who is paid is named, an id has no address before it is used, and a request
\* that is not there says nothing.
RowsLineUp ==
    /\ group = "deleted" => \A m \in Members : first[m] = Nobody
    /\ incoming \subseteq named
    /\ \A m \in Members : seat[m] = "unused" => address[m] = "none"
    /\ \A u \in Accounts : request[u].status = "none" => request[u] = NoRequest
    /\ IsFiniteSet(PendingOf)

\* Together, who is who: the tables agree and nobody is two members
\* (joining.ts, repo.ts).
EachIsOne == TypeOK /\ OneMemberPerAccount /\ AccountsLineUp /\ RowsLineUp

\* Together, the door: the group is somebody's, and who asks can be let in.
DoorIsKept == GroupReachable /\ RequestsCanBeAnswered /\ PendingCapped

\* Together, the payee: they keep their place while they are being paid, and
\* whoever joins as a ghost is not paid at what was typed for it.
PayeeIsSafe == PayeeStays /\ JoiningClearsAddress /\ []TypedIsForGhosts
=============================================================================
