------------------------------ MODULE Receiving ------------------------------
(***************************************************************************)
(* How people are paid, as the server keeps it: the wallet an account has  *)
(* connected and its UPI ID (walletStore.ts, routes/wallet.ts, upi.ts),    *)
(* the accounts that are a member (repo.ts), and what is built on both: a  *)
(* member's status, the choice made for its group's link, the payment      *)
(* under way to it and the pay link that names it.                         *)
(*                                                                         *)
(* A member here is the one its group is about.  The group of a member in  *)
(* Shared also has somebody else with an account, who never leaves it.     *)
(***************************************************************************)
EXTENDS Naturals, Sequences, FiniteSets, SequencesExt

CONSTANTS
    Accounts, Members,
    Shared,         \* the members whose group somebody else can open too
    NoAccount,      \* nobody; for a pay link, whoever is in the group first
    Wallets,        \* the connections an account may put in its row
    NoWallet,       \* no row
    MaxChanges      \* bound: joins, wallets connected and choices made

\* Assumed of the constants, wherever they are given values.
ReceivingAssumption ==
    /\ Shared \subseteq Members /\ NoAccount \notin Accounts
    /\ NoWallet \notin Wallets /\ MaxChanges \in Nat

VARIABLES
    alive,              \* the accounts there are
    there,              \* the members whose group is still there
    heldBy,             \* claimed_by_user_id, and then member_accounts, for each member
    status,             \* members.status
    wallets, upiIds,    \* the accounts with a row in wallet_connections, and with users.upi_id
    connected,          \* the wallet each row of wallet_connections names
    hidden,             \* the accounts that turned users.upi_on_links off
    choice, chosenBy,   \* members.upi_on_link, and who chose that
    heldSince,          \* who has been the member since it was last a ghost
    minter,             \* the account whose wallet made the invoice under way to the member
    linkOf,             \* pay_links.created_by_user_id of a link to pay the member, {} for none
    asking,             \* the accounts whose wallet is being asked what it grants
    changes

vars == <<alive, there, heldBy, status, wallets, connected, upiIds, hidden, choice, chosenBy,
          heldSince, minter, linkOf, asking, changes>>
people == <<alive, there, heldBy, heldSince>>
paid == <<wallets, connected, upiIds, hidden>>

OnLink == {"follow", "on", "off"}
Holds(a, m) == a \in ToSet(heldBy[m])
Ghost(m) == heldBy[m] = <<>>

Init ==
    /\ alive = Accounts /\ there = Members
    /\ heldBy = [m \in Members |-> <<>>] /\ status = [m \in Members |-> "ghost"]
    /\ wallets = {} /\ connected = [a \in Accounts |-> NoWallet]
    /\ upiIds = {} /\ hidden = {}
    /\ choice = [m \in Members |-> "follow"] /\ chosenBy = [m \in Members |-> NoAccount]
    /\ heldSince = [m \in Members |-> {}]
    /\ minter = [m \in Members |-> NoAccount] /\ linkOf = [m \in Members |-> {}]
    /\ asking = {} /\ changes = 0

Change == changes < MaxChanges /\ changes' = changes + 1

-----------------------------------------------------------------------------
(* Joining and going                                                       *)

\* admit: a ghost is claimed, anyone else gets the account as another device;
\* either way a wallet it has connected makes the member linked.
Join(a, m) ==
    /\ a \in alive /\ m \in there /\ ~Holds(a, m) /\ Change
    /\ heldBy' = [heldBy EXCEPT ![m] = Append(@, a)]
    /\ heldSince' = [heldSince EXCEPT ![m] = @ \cup {a}]
    /\ status' = [status EXCEPT ![m] =
            IF a \in wallets THEN "nwc_linked" ELSE IF @ = "ghost" THEN "joined" ELSE @]
    /\ UNCHANGED <<alive, there, paid, choice, chosenBy, minter, linkOf, asking>>

\* refreshLinked, and unlinkMembers for the members of an account: linked
\* while an account that is the member has a wallet.
Linked(held, has) == IF ToSet(held) \cap has # {} THEN "nwc_linked" ELSE "joined"

\* removeAccount: the member's links go from its first account to the next.
HandedOn(a, m) ==
    IF Len(heldBy[m]) > 1 /\ heldBy[m][1] = a
    THEN {IF o = a THEN heldBy[m][2] ELSE o : o \in linkOf[m]} ELSE linkOf[m]

\* unclaimMember: what they chose about the group's link goes with them.
Unclaimed(m) == "follow"

\* removeAccount for one member: the others stay it, or it is a ghost again.
Place(a, m) == CHOOSE n \in DOMAIN heldBy[m] : heldBy[m][n] = a
Without(a, m) == IF Holds(a, m) THEN RemoveAt(heldBy[m], Place(a, m)) ELSE heldBy[m]
StatusWithout(a, m, has) ==
    IF Without(a, m) = <<>> THEN "ghost" ELSE Linked(Without(a, m), has)
LeavesGhost(a, m) == Holds(a, m) /\ Without(a, m) = <<>>

\* accountCount: the group's accounts, with the somebody else of a shared one.
AccountCount(m) == Len(heldBy[m]) + (IF m \in Shared THEN 1 ELSE 0)

\* Mutant: another account that is them is enough to let this one go.
NothingIncomingAlone(ms) == \A m \in ms : minter[m] = NoAccount \/ Len(heldBy[m]) > 1
\* checkNothingIncoming: no payment under way to a member the account is.
NothingIncoming(ms) == \A m \in ms : minter[m] = NoAccount

Drop(a, ms) ==
    /\ heldBy' = [m \in Members |-> IF m \in ms THEN Without(a, m) ELSE heldBy[m]]
    /\ choice' = [m \in Members |->
                    IF m \in ms /\ LeavesGhost(a, m) THEN Unclaimed(m) ELSE choice[m]]
    /\ heldSince' = [m \in Members |-> IF m \in ms /\ LeavesGhost(a, m) THEN {} ELSE heldSince[m]]

\* leaveGroup
Leave(a, m) ==
    /\ m \in there /\ Holds(a, m) /\ AccountCount(m) > 1 /\ NothingIncoming({m})
    /\ Drop(a, {m})
    /\ status' = [status EXCEPT ![m] = StatusWithout(a, m, wallets)]
    /\ linkOf' = [linkOf EXCEPT ![m] = HandedOn(a, m)]
    /\ UNCHANGED <<alive, there, paid, chosenBy, minter, asking, changes>>

\* deleteAccount: a group nobody else can open goes with it, the member of
\* every other group loses it, and then its wallet and its links go.
DeleteAccount(a) ==
    LET mine == {m \in there : Holds(a, m)}
        gone == {m \in mine : AccountCount(m) = 1}
    IN /\ a \in alive /\ NothingIncoming(mine)
       /\ alive' = alive \ {a} /\ there' = there \ gone
       /\ Drop(a, mine)
       /\ wallets' = wallets \ {a} /\ connected' = [connected EXCEPT ![a] = NoWallet]
       /\ upiIds' = upiIds \ {a} /\ hidden' = hidden \ {a}
       /\ status' = [m \in Members |->
                        IF m \in mine THEN StatusWithout(a, m, wallets \ {a}) ELSE status[m]]
       /\ linkOf' = [m \in Members |->
                        (IF m \in gone THEN {} ELSE IF m \in mine THEN HandedOn(a, m) ELSE linkOf[m])
                        \ {a}]
       /\ UNCHANGED <<chosenBy, minter, asking, changes>>

-----------------------------------------------------------------------------
(* What they are paid with                                                 *)

\* PUT /me/wallet reads who is asking, and waits for the wallet's get_info.
AskWallet(a) ==
    /\ a \in alive \ asking /\ Change
    /\ asking' = asking \cup {a}
    /\ UNCHANGED <<people, paid, status, choice, chosenBy, minter, linkOf>>

\* It didn't answer, or may not receive.
WalletRefused(a) ==
    /\ a \in asking /\ asking' = asking \ {a}
    /\ UNCHANGED <<people, paid, status, choice, chosenBy, minter, linkOf, changes>>

\* linkMembers: every member the account is, on whichever device.
Links(a, m) == Holds(a, m)

\* save: what answered is the account's wallet now, in place of any it had,
\* whether or not a payment is under way through that one.  An account that
\* went meanwhile has no row to hang a wallet on.
WalletConnected(a, w) ==
    /\ a \in asking \cap alive /\ asking' = asking \ {a}
    /\ wallets' = wallets \cup {a} /\ connected' = [connected EXCEPT ![a] = w]
    /\ status' = [m \in Members |-> IF Links(a, m) THEN "nwc_linked" ELSE status[m]]
    /\ UNCHANGED <<people, upiIds, hidden, choice, chosenBy, minter, linkOf, changes>>

\* unlinkMembers: unless another account that is them has a wallet.
Unlinks(a, m) == Holds(a, m) /\ ToSet(heldBy[m]) \cap (wallets \ {a}) = {}

Disconnect(a) ==
    /\ a \in wallets /\ NothingIncoming({m \in there : Holds(a, m)})
    /\ wallets' = wallets \ {a} /\ connected' = [connected EXCEPT ![a] = NoWallet]
    /\ status' = [m \in Members |-> IF Unlinks(a, m) THEN "joined" ELSE status[m]]
    /\ UNCHANGED <<people, upiIds, hidden, choice, chosenBy, minter, linkOf, asking, changes>>

SetUpi(a) ==
    /\ a \in alive
    /\ IF a \in upiIds THEN upiIds' = upiIds \ {a} /\ UNCHANGED changes
                       ELSE upiIds' = upiIds \cup {a} /\ Change
    /\ UNCHANGED <<people, wallets, connected, hidden, status, choice, chosenBy, minter, linkOf, asking>>

SetOnLinks(a) ==
    /\ a \in alive
    /\ IF a \in hidden THEN hidden' = hidden \ {a} /\ UNCHANGED changes
                       ELSE hidden' = hidden \cup {a} /\ Change
    /\ UNCHANGED <<people, wallets, connected, upiIds, status, choice, chosenBy, minter, linkOf, asking>>

\* PUT /me/upi/group-links/:groupId, by somebody who is the member.
Choose(a, m, c) ==
    /\ m \in there /\ Holds(a, m) /\ c # choice[m] /\ Change
    /\ choice' = [choice EXCEPT ![m] = c] /\ chosenBy' = [chosenBy EXCEPT ![m] = a]
    /\ UNCHANGED <<people, paid, status, minter, linkOf, asking>>

-----------------------------------------------------------------------------
(* Being paid                                                              *)

\* mintNwc: with the wallet of the member's first account that has one.
FirstWith(m, has) == heldBy[m][Min({n \in DOMAIN heldBy[m] : heldBy[m][n] \in has})]
PaymentStarts(m) ==
    /\ m \in there /\ minter[m] = NoAccount /\ ToSet(heldBy[m]) \cap wallets # {}
    /\ minter' = [minter EXCEPT ![m] = FirstWith(m, wallets)]
    /\ UNCHANGED <<people, paid, status, choice, chosenBy, linkOf, asking, changes>>

\* Paid, failed or lapsed: no longer under way.
PaymentEnds(m) ==
    /\ minter[m] # NoAccount /\ minter' = [minter EXCEPT ![m] = NoAccount]
    /\ UNCHANGED <<people, paid, status, choice, chosenBy, linkOf, asking, changes>>

\* The group page asks for a pay link: the payee's first account owns it, or
\* for a ghost the account of whoever is in the group first.
MakeLink(m) ==
    /\ m \in there /\ linkOf[m] = {}
    /\ linkOf' = [linkOf EXCEPT ![m] = {IF Ghost(m) THEN NoAccount ELSE heldBy[m][1]}]
    /\ UNCHANGED <<people, paid, status, choice, chosenBy, minter, asking, changes>>

\* upiAccountOf, and upiOnLinkOf: the choice for the group, or else that of
\* the account they are paid through; a ghost has nothing to be paid at.
UpiAccount(m) == FirstWith(m, upiIds)
TakesUpi(m) == ToSet(heldBy[m]) \cap upiIds # {}
TakesUpiOnLinks(m) ==
    /\ TakesUpi(m) /\ choice[m] # "off"
    /\ choice[m] = "on" \/ UpiAccount(m) \notin hidden

Next ==
    \/ \E a \in Accounts :
          \/ DeleteAccount(a) \/ AskWallet(a) \/ WalletRefused(a) \/ Disconnect(a)
          \/ SetUpi(a) \/ SetOnLinks(a)
          \/ \E w \in Wallets : WalletConnected(a, w)
          \/ \E m \in Members :
                \/ Join(a, m) \/ Leave(a, m)
                \/ \E c \in OnLink : Choose(a, m, c)
    \/ \E m \in Members : PaymentStarts(m) \/ PaymentEnds(m) \/ MakeLink(m)

Spec == Init /\ [][Next]_vars

-----------------------------------------------------------------------------
TypeOK ==
    /\ alive \subseteq Accounts /\ there \subseteq Members /\ asking \subseteq Accounts
    /\ \A m \in Members : heldBy[m] \in Seq(alive) /\ IsInjective(heldBy[m])
    /\ status \in [Members -> {"ghost", "joined", "nwc_linked"}]
    /\ wallets \subseteq alive /\ upiIds \subseteq alive /\ hidden \subseteq alive
    /\ connected \in [Accounts -> Wallets \cup {NoWallet}]
    /\ \A a \in Accounts : a \in wallets <=> connected[a] # NoWallet
    /\ choice \in [Members -> OnLink] /\ chosenBy \in [Members -> Accounts \cup {NoAccount}]
    /\ heldSince \in [Members -> SUBSET Accounts]
    /\ minter \in [Members -> Accounts \cup {NoAccount}]
    /\ \A m \in Members : linkOf[m] \subseteq alive \cup {NoAccount}
    /\ changes \in 0..MaxChanges

\* The status that offers Lightning is true of the accounts: a member is
\* linked exactly while one of those that are it has a wallet to mint with,
\* whoever joined, left, connected or disconnected since.
LinkedMeansWallet ==
    \A m \in there :
        /\ status[m] = "ghost" <=> Ghost(m)
        /\ status[m] = "nwc_linked" <=> ToSet(heldBy[m]) \cap wallets # {}

\* Nobody's UPI ID is put on a group's link by a choice that isn't theirs: it
\* was made by someone who is the member, or was with those who still are.
ChoiceIsTheirs ==
    \A m \in there : TakesUpi(m) /\ choice[m] # "follow" => chosenBy[m] \in heldSince[m]

\* While a payment is under way, the account whose wallet made its invoice
\* stays the payee and keeps a wallet, so that a server that restarts has one
\* of the payee's to ask.  It need not be the one that made the invoice: any
\* account of theirs may connect another meanwhile (uriFor takes what the first
\* of them has connected now).
MinterStays ==
    \A m \in Members : minter[m] # NoAccount =>
        minter[m] \in wallets /\ Holds(minter[m], m) /\ m \in there

\* The wallet that made the invoice under way, which is what confirms it, is
\* never taken from its account by a disconnection or a deletion: another comes
\* in its place only because that account connected it.
OnlyTheyReplace ==
    \A m \in Members :
        minter[m] # NoAccount /\ connected'[minter[m]] # connected[minter[m]]
            => minter[m] \in asking \ asking' /\ connected'[minter[m]] \in Wallets

\* A link to pay someone outlives the device whose account owned it, as long
\* as they are in the group on another.
LinksOutlive ==
    \A m \in Members :
        linkOf[m] # {} /\ ~Ghost(m) /\ linkOf[m] = {heldBy[m][1]} /\ heldBy'[m] # <<>>
            => linkOf'[m] # {}

-----------------------------------------------------------------------------
\* What every step keeps.
Inv ==
    /\ TypeOK /\ LinkedMeansWallet /\ ChoiceIsTheirs /\ MinterStays
    /\ heldBy \in [Members -> Seq(Accounts)]
    /\ linkOf \in [Members -> SUBSET (Accounts \cup {NoAccount})]
    /\ \A m \in Members :
        /\ ToSet(heldBy[m]) \subseteq heldSince[m]
        /\ m \notin there => Ghost(m)
        /\ choice[m] # "follow" => chosenBy[m] \in heldSince[m]
=============================================================================
