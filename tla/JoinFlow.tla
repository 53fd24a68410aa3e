------------------------------ MODULE JoinFlow ------------------------------
(***************************************************************************)
(* Joining by a group's link from one phone (JoinScreen, JoinAsNewScreen): *)
(* saying who you are, the account that makes for someone without one, and *)
(* retrying what may have gone through, against the routes that let people *)
(* in (routes/joining.ts).                                                 *)
(*                                                                         *)
(* A member is known by its name, and rows of one name are one here; "own" *)
(* is the name of someone who isn't on the list.  Accounts are numbered as *)
(* they are made; 0 is none.  An idempotency key belongs to what is asked  *)
(* and of whom, until that is answered: then the screen has gone.          *)
(***************************************************************************)
EXTENDS Naturals, FiniteSets

CONSTANTS
    Listed,         \* who the group lists
    ApprovalMoves,  \* bound: whether a group may change its mind about approving joins
    MaxAccounts,    \* bound: accounts made
    MaxNet          \* bound: requests on their way

\* Assumed of the constants, wherever they are given values.
JoinFlowAssumption ==
    /\ "own" \notin Listed /\ "none" \notin Listed
    /\ ApprovalMoves \in BOOLEAN /\ MaxAccounts \in Nat \ {0} /\ MaxNet \in Nat

VARIABLES
    approving,          \* Group.approveJoins
    inGroup,            \* the names that have a row
    holders, waiting,   \* who is each name; who each account asked to be
    alive, named,       \* the accounts there are; the name each was made under
    did,                \* idempotency_keys: what was done, for whom
    signedUp,           \* whether the phone had an account before
    made, dropped,      \* the account for this join; those whose making or going wasn't answered
    view, pick,         \* the page as it was read; who they picked
    stage, req,         \* what the tap has got to; what is asked
    net, answer         \* requests on their way, and what the phone's own was told

vars == <<approving, inGroup, holders, waiting, alive, named, did, signedUp, made, dropped,
          view, pick, stage, req, net, answer>>
group == <<approving, inGroup, holders, waiting>>
phone == <<signedUp, made, dropped, view, pick, stage, req>>

Names == Listed \cup {"own"}
Accounts == 1..MaxAccounts
NoAccount == 0
NoReq == [act |-> "none", as |-> "none", by |-> NoAccount]
Unread == [read |-> FALSE, approving |-> FALSE, members |-> {}]

Init ==
    /\ approving \in BOOLEAN /\ inGroup = Listed
    /\ holders = [n \in Names |-> {}] /\ waiting = [a \in Accounts |-> "none"]
    /\ signedUp \in BOOLEAN
    /\ made = (IF signedUp THEN 1 ELSE NoAccount) /\ alive = Accounts \cap {made}
    /\ named = [a \in Accounts |-> IF a = made THEN "own" ELSE "none"]
    /\ did = {} /\ dropped = {} /\ view = Unread /\ pick = "none"
    /\ stage = (IF signedUp THEN "checking" ELSE "page")
    /\ req = NoReq /\ net = {} /\ answer = "none"

-----------------------------------------------------------------------------
(* The group, and whoever is in it                                         *)

IsIn(a) == \E n \in Names : a \in holders[n]

TurnApproval ==
    /\ ApprovalMoves /\ approving' = ~approving
    /\ UNCHANGED <<inGroup, holders, waiting, alive, named, did, phone, net, answer>>

\* Someone nothing names is taken out, and requests to be them turned down.
RemoveMember(n) ==
    /\ n \in inGroup /\ holders[n] = {}
    /\ inGroup' = inGroup \ {n}
    /\ waiting' = [a \in Accounts |-> IF waiting[a] = n THEN "declined" ELSE waiting[a]]
    /\ UNCHANGED <<approving, holders, alive, named, did, phone, net, answer>>

\* admit: claimed, another device, or a row of their own.
Admit(a, n) ==
    /\ holders' = [holders EXCEPT ![n] = @ \cup {a}]
    /\ inGroup' = inGroup \cup {n}

LetIn(a) ==
    /\ waiting[a] \in Names /\ a \in alive
    /\ Admit(a, waiting[a])
    /\ waiting' = [waiting EXCEPT ![a] = "none"]
    /\ UNCHANGED <<approving, alive, named, did, phone, net, answer>>

TurnDown(a) ==
    /\ waiting[a] \in Names
    /\ waiting' = [waiting EXCEPT ![a] = "declined"]
    /\ UNCHANGED <<approving, inGroup, holders, alive, named, did, phone, net, answer>>

\* whoIs: someone on the list, or a name that isn't on it.
Whose(n) == (n = "own") # (n \in inGroup)

\* POST /join: one account, one member, and only where nobody has to say yes.
Joins(r) == ~IsIn(r.by) /\ ~approving /\ Whose(r.as)

\* POST /join-requests. A name of their own may be somebody's who has joined.
Asks(r) == ~IsIn(r.by) /\ (Whose(r.as) \/ r.as = "own")

Replays(r) == r \in did

\* The server gets to a request: done once, and what failed is done afresh.
Serve(r) ==
    /\ r \in net /\ net' = net \ {r}
    /\ LET mine == r = req /\ stage = "asking"
           told(ok) == answer' = (IF mine THEN (IF ok THEN "ok" ELSE "refused") ELSE answer)
       IN \/ /\ r.by \in alive /\ Replays(r)
             /\ told(TRUE)
             /\ UNCHANGED <<group, did>>
          \/ /\ r.by \in alive /\ ~Replays(r) /\ r.act = "join" /\ Joins(r)
             /\ Admit(r.by, r.as) /\ waiting' = [waiting EXCEPT ![r.by] = "none"]
             /\ did' = did \cup {r} /\ told(TRUE)
             /\ UNCHANGED approving
          \/ /\ r.by \in alive /\ ~Replays(r) /\ r.act = "ask" /\ Asks(r)
             /\ waiting' = [waiting EXCEPT ![r.by] = r.as]
             /\ did' = did \cup {r} /\ told(TRUE)
             /\ UNCHANGED <<approving, inGroup, holders>>
          \/ /\ \/ r.by \notin alive
                \/ ~Replays(r) /\ ~(IF r.act = "join" THEN Joins(r) ELSE Asks(r))
             /\ told(FALSE)
             /\ UNCHANGED <<group, did>>
    /\ UNCHANGED <<alive, named, phone>>

-----------------------------------------------------------------------------
(* The phone                                                               *)

\* Someone already in the group has nothing to say; not being able to tell
\* reads as not being in it.
Checked ==
    /\ stage = "checking"
    /\ \/ IsIn(made) /\ stage' = "group"
       \/ stage' = "page"
    /\ UNCHANGED <<group, alive, named, did, signedUp, made, dropped, view, pick, req, net, answer>>

ReadPage ==
    /\ stage = "page" /\ ~view.read
    /\ view' = [read |-> TRUE, approving |-> approving, members |-> inGroup]
    /\ UNCHANGED <<group, alive, named, did, signedUp, made, dropped, pick, stage, req, net,
                   answer>>

Pick(n) ==
    /\ stage = "page" /\ view.read /\ n # pick /\ n \in view.members \cup {"own"}
    /\ pick' = n
    /\ UNCHANGED <<group, alive, named, did, signedUp, made, dropped, view, stage, req, net,
                   answer>>

\* The account made for a join that hasn't gone through, under that name.
IsFor(a) == a # NoAccount /\ (signedUp \/ named[a] = pick)

\* What the tap does next, once it is known whether to join or to ask.
Goes(atOnce) ==
    /\ stage' = (IF IsFor(made) THEN "sending" ELSE IF made # NoAccount THEN "forgetting" ELSE "making")
    /\ req' = [act |-> IF atOnce THEN "join" ELSE "ask", as |-> pick, by |-> made]

\* A page that said someone has to say yes is read again first.
Tap ==
    /\ stage = "page" /\ view.read /\ pick # "none"
    /\ IF view.approving THEN stage' = "looking" /\ UNCHANGED req ELSE Goes(TRUE)
    /\ UNCHANGED <<group, alive, named, did, signedUp, made, dropped, view, pick, net, answer>>

Looked ==
    /\ stage = "looking"
    /\ \/ Goes(~approving)
       \/ stage' = "page" /\ UNCHANGED req
    /\ UNCHANGED <<group, alive, named, did, signedUp, made, dropped, view, pick, net, answer>>

\* deleteAccount: off every name, with its requests.
DeleteAccount(a) ==
    /\ alive' = alive \ {a}
    /\ holders' = [n \in Names |-> holders[n] \ {a}]
    /\ waiting' = [waiting EXCEPT ![a] = "none"]

\* forget: the token at once, the account if the server hears of it.
Forget ==
    \/ /\ DeleteAccount(made)
       /\ made' = NoAccount /\ UNCHANGED dropped
    \/ /\ made' = NoAccount /\ dropped' = dropped \cup {made}
       /\ UNCHANGED <<alive, holders, waiting>>

PickedAnother ==
    /\ stage = "forgetting" /\ stage' = "making"
    /\ Forget
    /\ UNCHANGED <<approving, inGroup, named, did, signedUp, view, pick, req, net, answer>>

\* createAccount, which has no key: one whose answer is lost is nobody's.
MakeAccount(a) ==
    /\ stage = "making" /\ a \notin alive /\ named[a] = "none"
    /\ \A b \in Accounts : b < a => named[b] # "none"
    /\ \/ /\ made' = a /\ alive' = alive \cup {a} /\ named' = [named EXCEPT ![a] = req.as]
          /\ req' = [req EXCEPT !.by = a] /\ stage' = "sending"
          /\ UNCHANGED dropped
       \/ /\ alive' = alive \cup {a} /\ named' = [named EXCEPT ![a] = req.as]
          /\ dropped' = dropped \cup {a} /\ stage' = "page"
          /\ UNCHANGED <<made, req>>
       \/ stage' = "page" /\ UNCHANGED <<alive, named, made, dropped, req>>
    /\ UNCHANGED <<group, did, signedUp, view, pick, net, answer>>

Send ==
    /\ stage = "sending" /\ Cardinality(net) < MaxNet
    /\ stage' = "asking" /\ answer' = "none" /\ net' = net \cup {req}
    /\ UNCHANGED <<group, alive, named, did, signedUp, made, dropped, view, pick, req>>

\* In, or waiting: the app opens on the group or the list of them.
LetThrough ==
    /\ stage = "asking" /\ answer = "ok"
    /\ stage' = (IF signedUp /\ req.act = "join" THEN "group" ELSE "app")
    /\ UNCHANGED <<group, alive, named, did, signedUp, made, dropped, view, pick, req, net, answer>>

\* The account stays: the retry is the same join.
AnswerLost ==
    /\ stage = "asking" /\ stage' = "page" /\ answer' = "none"
    /\ UNCHANGED <<group, alive, named, did, signedUp, made, dropped, view, pick, req, net>>

\* They can't be this person: the account made for it goes, and the list is
\* read again.
Refused ==
    /\ stage = "asking" /\ answer = "refused"
    /\ stage' = "page" /\ answer' = "none" /\ view' = Unread
    /\ pick' = (IF pick \in inGroup \cup {"own"} THEN pick ELSE "none")
    /\ IF signedUp THEN UNCHANGED <<alive, holders, waiting, made, dropped>> ELSE Forget
    /\ UNCHANGED <<approving, inGroup, named, did, signedUp, req, net>>

Next ==
    \/ TurnApproval \/ Checked \/ ReadPage \/ Tap \/ Looked \/ PickedAnother \/ Send
    \/ LetThrough \/ AnswerLost \/ Refused
    \/ \E n \in Listed : RemoveMember(n)
    \/ \E n \in Names : Pick(n)
    \/ \E a \in Accounts : LetIn(a) \/ TurnDown(a) \/ MakeAccount(a)
    \/ \E r \in net : Serve(r)

Spec == Init /\ [][Next]_vars

-----------------------------------------------------------------------------

TypeOK ==
    /\ inGroup \subseteq Names /\ holders \in [Names -> SUBSET Accounts]
    /\ waiting \in [Accounts -> Names \cup {"none", "declined"}]
    /\ alive \subseteq Accounts /\ made \in Accounts \cup {NoAccount}
    /\ stage \in {"checking", "page", "looking", "forgetting", "making", "sending", "asking",
                  "group", "app"}
    /\ answer \in {"none", "ok", "refused"}

\* Nobody starts the app as an account named after someone they didn't join
\* as (JoinAsNewScreen: made).
NamedAsJoined ==
    stage = "app" /\ ~signedUp => named[made] = pick

\* An account made here that the phone doesn't keep is gone, unless the answer
\* to making it or deleting it was lost (forget).
NoneLeftBehind ==
    stage \in {"page", "app"} => alive \ {made} \subseteq dropped

\* A retry is answered as the join that went through: the account that is in,
\* or waiting, isn't deleted for it (JoinAsNewScreen: join).
JoinedIsKept ==
    \A a \in alive \ alive' : pick = named[a] => ~IsIn(a) /\ waiting[a] \notin Names
=============================================================================
