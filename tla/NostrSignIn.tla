---------------------------- MODULE NostrSignIn ----------------------------
(***************************************************************************)
(* Signing in with a Nostr key, and linking one to an account: challenges  *)
(* (nostrAuth.ts, repo.ts), the proofs signers answer them with            *)
(* (NostrKeyForm, signer.ts), and what the server makes of them            *)
(* (routes/accounts.ts).                                                   *)
(***************************************************************************)
EXTENDS Naturals, FiniteSets

CONSTANTS Accounts, Signers, NoSigner, Challenges, MaxLive

\* Assumed of the constants, wherever they are given values.
NostrSignInAssumption == NoSigner \notin Signers /\ MaxLive \in Nat

VARIABLES
    linked,        \* users.nostr_pubkey
    live,          \* nostr_challenges
    late,          \* challenges past their time
    handedOut,     \* challenges a form was given
    proofs,        \* signed events on their way, or sent again
    uses           \* what each challenge was good for

vars == <<linked, live, late, handedOut, proofs, uses>>

Paths == {"signIn", "link"}
Proof == [challenge : Challenges, path : Paths, signer : Signers]

Init ==
    /\ linked = [a \in Accounts |-> NoSigner]
    /\ live = {} /\ late = {} /\ handedOut = {} /\ proofs = {}
    /\ uses = [c \in Challenges |-> 0]

\* POST /auth/nostr/challenge: those past their time go first, and one too
\* many is taken back at once.
NewChallenge(c) ==
    /\ c \notin handedOut \cup late
    /\ IF Cardinality(live \ late) < MaxLive
       THEN /\ live' = (live \ late) \cup {c}
            /\ handedOut' = handedOut \cup {c}
       ELSE /\ live' = live \ late
            /\ UNCHANGED handedOut
    /\ UNCHANGED <<linked, late, proofs, uses>>

GetsLate(c) ==
    /\ c \in handedOut \ late
    /\ late' = late \cup {c}
    /\ UNCHANGED <<linked, live, handedOut, proofs, uses>>

\* A form has its challenge signed, for the path it is for.
Sign(proof) ==
    /\ proof.challenge \in handedOut
    /\ \A p \in proofs : p.challenge # proof.challenge
    /\ proofs' = proofs \cup {proof}
    /\ UNCHANGED <<linked, live, late, handedOut, uses>>

\* Used up; the challenge is the last thing a proof is checked for.
TakeChallenge(c) == live' = live \ {c}

Holds(proof, path) == proof.path = path /\ proof.challenge \in live \ late

Used(c) == uses' = [uses EXCEPT ![c] = @ + 1]

OpenedBy(signer) == {a \in Accounts : linked[a] = signer}

\* The same event may arrive any number of times.  One no account has linked
\* used its challenge up too.
SignInWithNostr(proof) ==
    /\ Holds(proof, "signIn")
    /\ TakeChallenge(proof.challenge)
    /\ Used(proof.challenge)
    /\ UNCHANGED <<linked, late, handedOut, proofs>>

FreeFor(account, signer) == OpenedBy(signer) \subseteq {account}

\* All or nothing: refused, the challenge is still there.
LinkNostr(account, proof) ==
    /\ Holds(proof, "link") /\ FreeFor(account, proof.signer)
    /\ TakeChallenge(proof.challenge)
    /\ Used(proof.challenge)
    /\ linked' = [linked EXCEPT ![account] = proof.signer]
    /\ UNCHANGED <<late, handedOut, proofs>>

\* DELETE /me does it too.
UnlinkNostr(account) ==
    /\ linked[account] # NoSigner
    /\ linked' = [linked EXCEPT ![account] = NoSigner]
    /\ UNCHANGED <<live, late, handedOut, proofs, uses>>

Next ==
    \/ \E c \in Challenges : NewChallenge(c) \/ GetsLate(c)
    \/ \E proof \in Proof : Sign(proof)
    \/ \E proof \in proofs : SignInWithNostr(proof)
    \/ \E account \in Accounts, proof \in proofs : LinkNostr(account, proof)
    \/ \E account \in Accounts : UnlinkNostr(account)

Spec == Init /\ [][Next]_vars

-----------------------------------------------------------------------------

TypeOK ==
    /\ linked \in [Accounts -> Signers \cup {NoSigner}]
    /\ live \subseteq handedOut /\ handedOut \subseteq Challenges /\ late \subseteq handedOut
    /\ proofs \subseteq Proof
    /\ uses \in [Challenges -> Nat]

\* A challenge is good for one thing once, signing in or linking, however
\* often and wherever its proof is sent (checkNostrProof).
ChallengeOnce == \A c \in Challenges : uses[c] <= 1

\* A Nostr key opens one account, so signing in with it is never a choice
\* (POST /auth/nostr/link, whose look and write are one transaction).
OneAccountPerNostr == \A signer \in Signers : Cardinality(OpenedBy(signer)) <= 1

\* A challenge that can still be used was not, and neither was one nobody was given; the
\* accounts a key is linked to are one.
UnusedYet == \A c \in Challenges : c \in live \/ c \notin handedOut => uses[c] = 0
LinkedOnce == \A a, b \in Accounts : linked[a] = linked[b] /\ linked[a] # NoSigner => a = b

\* What every step keeps.
Inv == TypeOK /\ ChallengeOnce /\ UnusedYet /\ LinkedOnce
=============================================================================
