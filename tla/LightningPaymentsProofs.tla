---------------------- MODULE LightningPaymentsProofs ----------------------
(***************************************************************************)
(* TLAPS proofs about LightningPayments, for any number of settlements,    *)
(* payers and hashes and any timing constants.                             *)
(***************************************************************************)
EXTENDS LightningPayments, TLAPS

---------------------------------------------------------------------------
(* What each assignment of the module makes of a typed record. *)

LEMMA NullsAreTyped ==
    /\ NoRow \in Row /\ NoMint \in MintCall /\ NoWatch \in Watched
    /\ NoInvoice \in Invoice
  BY DEF NoRow, Row, NoMint, MintCall, NoWatch, Watched, NoInvoice, Invoice, Statuses, Reasons

LEMMA StatusTypes ==
    /\ \A st \in {"none", "created", "awaiting_payment", "confirmed", "failed", "expired",
                  "manually_confirmed"} : st \in Statuses
    /\ \A why \in {"none", "nothing_moved", "unreachable", "untellable"} : why \in Reasons
  BY DEF Statuses, Reasons

LEMMA RowMade ==
    ASSUME NEW st \in Statuses, NEW p \in Pairs, NEW a \in Nat, NEW at \in Nat, NEW why \in Reasons
    PROVE  /\ [NoRow EXCEPT !.status = st, !.pair = p, !.amount = a, !.createdAt = at] \in Row
           /\ [NoRow EXCEPT !.status = st, !.pair = p, !.amount = a, !.createdAt = at,
                            !.why = why] \in Row
  BY DEF NoRow, Row, Reasons

LEMMA RowClosed ==
    ASSUME NEW r \in Row, NEW st \in Statuses, NEW why \in Reasons
    PROVE  [r EXCEPT !.status = st, !.why = why] \in Row
  BY DEF Row

LEMMA RowStored ==
    ASSUME NEW r \in Row, NEW h \in Hashes, NEW via \in {"nwc", "verify", "proof"},
           NEW q \in Nat, NEW e \in Nat
    PROVE  [r EXCEPT !.status = "awaiting_payment", !.hash = h, !.via = via,
                     !.quoteEnd = q, !.ends = e] \in Row
  BY DEF Row, Statuses

LEMMA MintTypes ==
    ASSUME NEW m \in MintCall, NEW w \in Wallets \cup {NoWallet}, NEW at \in Nat, NEW q \in Nat
    PROVE  /\ [NoMint EXCEPT !.pc = "quoting", !.wallet = w, !.reqAt = at] \in MintCall
           /\ \A pc \in {"nwc", "address"} :
                [m EXCEPT !.pc = pc, !.reqAt = at, !.quoteEnd = q] \in MintCall
  BY DEF NoMint, MintCall

LEMMA WatchTypes ==
    ASSUME NEW w \in Watched, NEW x \in Wallets \cup {NoWallet}, NEW at \in Nat
    PROVE  /\ [NoWatch EXCEPT !.via = "nwc", !.wallet = x] \in Watched
           /\ \A ans \in {"none", "settled", "failed", "expired", "unsettled", "unreachable"} :
                [w EXCEPT !.ans = ans, !.at = at] \in Watched
  BY DEF NoWatch, Watched

LEMMA WatchAddressType ==
    ASSUME NEW via \in {"verify", "proof"}, NEW at \in Nat, NEW e \in Nat
    PROVE  WatchAddress(via, at, e) \in Watched
<1>1. (IF e < at + MaxWatch THEN e ELSE at + MaxWatch) \in Nat
  BY ConstantsAssumption
<1>2. \A u \in Nat : [NoWatch EXCEPT !.via = via, !.until = u] \in Watched
  BY DEF NoWatch, Watched
<1>3. QED
  BY <1>1, <1>2 DEF WatchAddress

LEMMA InvoiceMade ==
    ASSUME NEW w \in Wallets \cup {NoWallet}, NEW e \in Int
    PROVE  [state |-> "open", wallet |-> w, ends |-> e] \in Invoice
  BY DEF Invoice

LEMMA InvoiceMoved ==
    ASSUME NEW i \in Invoice, NEW st \in {"paid", "recorded", "cancelled"}
    PROVE  [i EXCEPT !.state = st] \in Invoice
  BY DEF Invoice

LEMMA RowFields ==
    ASSUME NEW r \in Row
    PROVE  /\ r.status \in Statuses /\ r.amount \in Nat /\ r.hash \in Hashes \cup {NoHash}
           /\ r.quoteEnd \in Nat /\ r.createdAt \in Nat /\ r.ends \in Nat
           /\ r.via \in {"none", "nwc", "verify", "proof"}
  BY DEF Row

LEMMA MintFields ==
    ASSUME NEW m \in MintCall
    PROVE  /\ m.pc \in {"idle", "quoting", "nwc", "address"} /\ m.reqAt \in Nat
           /\ m.wallet \in Wallets \cup {NoWallet} /\ m.quoteEnd \in Nat
  BY DEF MintCall

---------------------------------------------------------------------------
(* Types *)

LEMMA InitTypeOK == Init => TypeOK
  BY ConstantsAssumption, NullsAreTyped DEF Init, TypeOK

\* What finish() does keeps the types, for the outcomes the code gives it.
LEMMA FinishTypeOK ==
    ASSUME TypeOK, NEW s \in Settlements, NEW st \in Statuses, NEW why \in Reasons,
           Finish(s, st, why)
    PROVE  row' \in [Settlements -> Row] /\ watch' \in [Settlements -> Watched]
  BY NullsAreTyped, RowClosed DEF TypeOK, Finish

LEMMA RequestTypeOK == ASSUME TypeOK, Request PROVE TypeOK'
<1>1. ASSUME NEW s \in Settlements, NEW p \in Pairs, NEW amount, PostSettlement(s, p, amount)
      PROVE  TypeOK'
  BY <1>1, RowMade, MintTypes, StatusTypes, NullsAreTyped DEF PostSettlement, CheckSettlement, TypeOK
<1>2. ASSUME NEW s \in Settlements, NEW p \in Pairs, NEW amount, PostUnhandledRail(s, p, amount)
      PROVE  TypeOK'
  BY <1>2, RowMade, StatusTypes DEF PostUnhandledRail, CheckSettlement, TypeOK
<1>3. ASSUME NEW s \in Settlements, NEW p \in Pairs, NEW amount, PostManual(s, p, amount)
      PROVE  TypeOK'
  BY <1>3, RowMade, StatusTypes DEF PostManual, CheckSettlement, TypeOK
<1>4. ASSUME NEW s \in Settlements, SubmitProof(s) PROVE TypeOK'
  BY <1>4, RowClosed, StatusTypes DEF SubmitProof, TypeOK
<1>5. ASSUME NEW w \in Wallets, ConnectWallet(w) PROVE TypeOK'
  BY <1>5 DEF ConnectWallet, TypeOK
<1>6. CASE DisconnectWallet
  BY <1>6 DEF DisconnectWallet, TypeOK
<1>7. CASE ChangeAddress
  BY <1>7 DEF ChangeAddress, TypeOK
<1>8. QED
  BY <1>1, <1>2, <1>3, <1>4, <1>5, <1>6, <1>7 DEF Request

LEMMA MintingTypeOK == ASSUME TypeOK, NEW s \in Settlements, Minting(s) PROVE TypeOK'
<1>1. CASE Quoted(s)
  <2>1. now + QuoteTTL \in Nat
    BY ConstantsAssumption DEF TypeOK
  <2>2. QED
    BY <1>1, <2>1, MintTypes DEF Quoted, TypeOK
<1>2. ASSUME Fail(s), UNCHANGED <<now, server, crashes, wallet, address, watch, invoice>>
      PROVE  TypeOK'
  BY <1>2, RowClosed, StatusTypes, NullsAreTyped DEF Fail, TypeOK
<1>3. ASSUME NEW h \in Hashes, NEW at \in 0 .. now, NwcInvoice(s, h, at) PROVE TypeOK'
  <2>1. at + ExpirySec(s) \in Int
    BY MintFields DEF ExpirySec, TypeOK
  <2>2. [row[s] EXCEPT !.status = "awaiting_payment", !.hash = h, !.via = "nwc",
                       !.quoteEnd = mint[s].quoteEnd, !.ends = 0] \in Row
    BY RowStored, MintFields DEF TypeOK
  <2>3. QED
    BY <1>3, <2>1, <2>2, NullsAreTyped, WatchTypes, InvoiceMade, MintFields
    DEF NwcInvoice, Store, TypeOK
<1>4. ASSUME NEW h \in Hashes, NEW life \in 1 .. LongestInvoice, NEW via \in {"verify", "proof"},
             AddressInvoice(s, h, now + life, via)
      PROVE  TypeOK'
  <2>1. now + life \in Nat
    BY ConstantsAssumption DEF TypeOK
  <2>2. [row[s] EXCEPT !.status = "awaiting_payment", !.hash = h, !.via = via,
                       !.quoteEnd = mint[s].quoteEnd, !.ends = now + life] \in Row
    BY <2>1, RowStored, MintFields DEF TypeOK
  <2>3. WatchAddress(via, now, now + life) \in Watched
    BY <2>1, WatchAddressType DEF TypeOK
  <2>4. [state |-> "open", wallet |-> NoWallet, ends |-> now + life] \in Invoice
    BY <2>1, InvoiceMade
  <2>5. QED
    BY <1>4, <2>2, <2>3, <2>4, NullsAreTyped DEF AddressInvoice, Store, TypeOK
<1>5. QED
  BY <1>1, <1>2, <1>3, <1>4 DEF Minting, MintFails, KnownInvoice

LEMMA AskTypeOK == ASSUME TypeOK, NEW s \in Settlements, Ask(s) PROVE TypeOK'
<1>1. ASSUME NEW ans \in {"none", "settled", "failed", "expired", "unsettled", "unreachable"},
             Answer(s, ans)
      PROVE  TypeOK'
  BY <1>1, WatchTypes DEF Answer, TypeOK
<1>2. WalletSays(row[s].hash) \in {"none", "settled", "failed", "expired"}
  BY DEF WalletSays
<1>3. QED
  BY <1>1, <1>2 DEF Ask, NwcAnswers, VerifyAnswers, VerifyUnreachable

LEMMA CheckTypeOK == ASSUME TypeOK, NEW s \in Settlements, Check(s) PROVE TypeOK'
<1>1. [watch[s] EXCEPT !.ans = "none", !.at = 0] \in Watched
  BY WatchTypes DEF TypeOK
<1>2. /\ UNCHANGED <<now, server, crashes, wallet, address, mint, invoice>>
      /\ \/ \E st \in Statuses, why \in Reasons : Finish(s, st, why)
         \/ /\ watch' = [watch EXCEPT ![s] = [@ EXCEPT !.ans = "none", !.at = 0]]
            /\ UNCHANGED row
  <2>1. CASE CheckNwc(s)
    BY <2>1, StatusTypes DEF CheckNwc
  <2>2. CASE CheckVerify(s)
    BY <2>2, StatusTypes DEF CheckVerify
  <2>3. CASE CheckProofOnly(s)
    BY <2>3, StatusTypes DEF CheckProofOnly
  <2>4. QED
    BY <2>1, <2>2, <2>3, Check(s) DEF Check
<1>3. row' \in [Settlements -> Row] /\ watch' \in [Settlements -> Watched]
  BY <1>1, <1>2, FinishTypeOK DEF TypeOK
<1>4. QED
  BY <1>2, <1>3 DEF TypeOK

LEMMA BootTypeOK == ASSUME TypeOK, Boot PROVE TypeOK'
<1>1. ASSUME NEW s \in Settlements PROVE Resumed(s) \in Watched
  <2>1. row[s] \in Row
    BY DEF TypeOK
  <2>2. ASSUME row[s].via \in {"verify", "proof"}
        PROVE  WatchAddress(row[s].via, row[s].createdAt, row[s].ends) \in Watched
    BY <2>1, <2>2, RowFields, WatchAddressType
  <2>3. [NoWatch EXCEPT !.via = "nwc", !.wallet = wallet] \in Watched
    BY NullsAreTyped, WatchTypes DEF TypeOK
  <2>4. QED
    BY <2>2, <2>3, NullsAreTyped DEF Resumed
<1>2. ASSUME NEW s \in Settlements
      PROVE  [row[s] EXCEPT !.status = "failed", !.why = "nothing_moved"] \in Row
  BY RowClosed, StatusTypes DEF TypeOK
<1>3. row' \in [Settlements -> Row] /\ watch' \in [Settlements -> Watched]
  BY <1>1, <1>2 DEF Boot, TypeOK
<1>4. QED
  BY <1>3 DEF Boot, TypeOK

LEMMA WorldTypeOK == ASSUME TypeOK, World PROVE TypeOK'
<1>1. ASSUME NEW h \in Hashes, NEW st \in {"paid", "recorded", "cancelled"}
      PROVE  [invoice EXCEPT ![h] = [@ EXCEPT !.state = st]] \in [Hashes -> Invoice]
  <2>1. [invoice[h] EXCEPT !.state = st] \in Invoice
    BY InvoiceMoved DEF TypeOK
  <2>2. QED
    BY <2>1 DEF TypeOK
<1>2. ASSUME NEW s \in Settlements, Pay(s) PROVE TypeOK'
  <2>1. invoice' \in [Hashes -> Invoice]
    BY <1>1, <1>2 DEF Pay, IsPayable
  <2>2. QED
    BY <1>2, <2>1 DEF Pay, TypeOK
<1>3. ASSUME NEW h \in Hashes, RecordPayment(h) \/ CancelInvoice(h) PROVE TypeOK'
  <2>1. invoice' \in [Hashes -> Invoice]
    BY <1>1, <1>3 DEF RecordPayment, CancelInvoice
  <2>2. QED
    BY <1>3, <2>1 DEF RecordPayment, CancelInvoice, TypeOK
<1>4. CASE Tick
  BY <1>4 DEF Tick, TypeOK
<1>5. QED
  BY <1>2, <1>3, <1>4, World DEF World

LEMMA NextTypeOK == TypeOK /\ [Next]_vars => TypeOK'
<1> SUFFICES ASSUME TypeOK, [Next]_vars PROVE TypeOK'
  OBVIOUS
<1>1. CASE Crash
  BY <1>1, NullsAreTyped DEF Crash, TypeOK
<1>2. CASE UNCHANGED vars
  BY <1>2 DEF vars, TypeOK
<1>3. QED
  BY <1>1, <1>2, RequestTypeOK, MintingTypeOK, AskTypeOK, CheckTypeOK, BootTypeOK, WorldTypeOK
  DEF Next

\* The rows, the server's memory and the invoices always have their types.
THEOREM TypeCorrect == Spec => []TypeOK
  BY InitTypeOK, NextTypeOK, PTL DEF Spec

---------------------------------------------------------------------------
(* The inductive invariant.  A step is first reduced to what it does to    *)
(* the fields the invariant speaks of, then checked conjunct by conjunct.  *)

LEMMA NullFields ==
    /\ NoRow.status = "none" /\ NoRow.hash = NoHash
    /\ NoMint.pc = "idle"
    /\ NoWatch.via = "none" /\ NoWatch.ans = "none"
    /\ NoInvoice.state = "none"
  BY DEF NoRow, NoMint, NoWatch, NoInvoice

LEMMA InitIInv == Init => IInv
<1> SUFFICES ASSUME Init PROVE IInv
  OBVIOUS
<1>1. \A s \in Settlements : row[s] = NoRow /\ mint[s] = NoMint /\ watch[s] = NoWatch
  BY DEF Init
<1>2. \A h \in Hashes : invoice[h] = NoInvoice
  BY DEF Init
<1>3. NoHash \notin Hashes
  BY ConstantsAssumption
<1>4. TypeOK
  BY InitTypeOK
<1>5. MintingIsCreated /\ HashMeansMinted /\ OneHashOneSettlement
  BY <1>1, <1>3, NullFields DEF MintingIsCreated, HashMeansMinted, OneHashOneSettlement
<1>6. InvoiceMeansTaken /\ AnswersStayTrue
  BY <1>1, <1>2, <1>3, NullFields DEF InvoiceMeansTaken, HashTaken, AnswersStayTrue
<1>7. FailedIsCancelled /\ ConfirmedHasPayment /\ DownForgets
  BY <1>1, <1>3, NullFields DEF FailedIsCancelled, ConfirmedHasPayment, DownForgets
<1>8. QED
  BY <1>4, <1>5, <1>6, <1>7 DEF IInv

\* A settlement that starts has no hash, and mints only while "created".
LEMMA NewRowKeepsIInv ==
    ASSUME IInv, TypeOK', NEW s \in Settlements,
           NEW st \in {"created", "failed", "manually_confirmed"},
           server = "up", row[s].status = "none",
           row'[s].status = st, row'[s].hash = NoHash,
           \A t \in Settlements \ {s} : row'[t] = row[t] /\ mint'[t] = mint[t],
           mint'[s].pc = "idle" \/ (st = "created" /\ mint'[s].reqAt = now),
           UNCHANGED <<now, server, watch, invoice>>
    PROVE  IInv'
<1>1. NoHash \notin Hashes /\ row[s].hash = NoHash /\ now \in Nat
  BY ConstantsAssumption DEF IInv, HashMeansMinted, TypeOK
<1>2. \A t \in Settlements : row'[t].hash = row[t].hash
  BY <1>1
<1>3. MintingIsCreated'
  BY <1>1 DEF IInv, MintingIsCreated
<1>4. HashMeansMinted'
  BY <1>1, <1>2 DEF IInv, HashMeansMinted
<1>5. OneHashOneSettlement' /\ InvoiceMeansTaken'
  BY <1>2 DEF IInv, OneHashOneSettlement, InvoiceMeansTaken, HashTaken
<1>6. AnswersStayTrue'
  BY <1>2 DEF IInv, AnswersStayTrue
<1>7. FailedIsCancelled' /\ ConfirmedHasPayment' /\ DownForgets'
  BY <1>1, <1>2 DEF IInv, FailedIsCancelled, ConfirmedHasPayment, DownForgets, IsPaid
<1>8. QED
  BY <1>3, <1>4, <1>5, <1>6, <1>7 DEF IInv

\* A row that is closed keeps its hash; the outcome must agree with its invoice,
\* and nothing is minting for it any more.
LEMMA ClosingKeepsIInv ==
    ASSUME IInv, TypeOK', NEW s \in Settlements,
           NEW st \in {"confirmed", "failed", "expired"},
           server = "up" \/ server' = "up",
           row[s].status # "none",
           row[s].hash \in Hashes \/ st = "failed",
           st = "confirmed" => IsPaid(row[s].hash),
           st = "failed" /\ row[s].hash \in Hashes => invoice[row[s].hash].state = "cancelled",
           row'[s].status = st, row'[s].hash = row[s].hash,
           mint'[s].pc = "idle",
           watch'[s] = watch[s] \/ watch'[s] = NoWatch,
           \A t \in Settlements \ {s} :
              row'[t] = row[t] /\ mint'[t] = mint[t] /\ watch'[t] = watch[t],
           UNCHANGED <<now, server, invoice>>
    PROVE  IInv'
<1>1. \A t \in Settlements : row'[t].hash = row[t].hash
  OBVIOUS
<1>2. MintingIsCreated'
  BY DEF IInv, MintingIsCreated
<1>3. HashMeansMinted'
  BY <1>1 DEF IInv, HashMeansMinted
<1>4. OneHashOneSettlement' /\ InvoiceMeansTaken'
  BY <1>1 DEF IInv, OneHashOneSettlement, InvoiceMeansTaken, HashTaken
<1>5. AnswersStayTrue'
  BY <1>1, NullFields DEF IInv, AnswersStayTrue
<1>6. FailedIsCancelled' /\ ConfirmedHasPayment'
  BY <1>1 DEF IInv, FailedIsCancelled, ConfirmedHasPayment, IsPaid
<1>7. DownForgets'
  BY DEF IInv, DownForgets
<1>8. QED
  BY <1>2, <1>3, <1>4, <1>5, <1>6, <1>7 DEF IInv

\* store(): a hash no settlement holds, on a row that was still "created".
LEMMA MintedKeepsIInv ==
    ASSUME IInv, TypeOK', NEW s \in Settlements, NEW h \in Hashes,
           mint[s].pc # "idle", ~HashTaken(h),
           row'[s].status = "awaiting_payment", row'[s].hash = h,
           mint'[s].pc = "idle",
           watch'[s].ans = "none",
           \A t \in Settlements \ {s} :
              row'[t] = row[t] /\ mint'[t] = mint[t] /\ watch'[t] = watch[t],
           invoice[h].state = "none" => invoice'[h].state = "open",
           \A g \in Hashes \ {h} : invoice'[g] = invoice[g],
           UNCHANGED <<now, server>>
    PROVE  IInv'
<1>1. NoHash \notin Hashes /\ row[s].status = "created" /\ row[s].hash = NoHash
      /\ invoice[h].state = "none" /\ server = "up"
  BY ConstantsAssumption, NullFields
  DEF IInv, MintingIsCreated, HashMeansMinted, InvoiceMeansTaken, DownForgets, TypeOK
<1>2. \A t \in Settlements : row[t].hash # h
  BY DEF HashTaken
<1>3. MintingIsCreated'
  BY DEF IInv, MintingIsCreated
<1>4. HashMeansMinted'
  BY <1>1 DEF IInv, HashMeansMinted
<1>5. OneHashOneSettlement'
  BY <1>1, <1>2 DEF IInv, OneHashOneSettlement
<1>6. InvoiceMeansTaken'
  BY <1>1, <1>2 DEF IInv, InvoiceMeansTaken, HashTaken
<1>7. AnswersStayTrue'
  BY <1>1, <1>2 DEF IInv, AnswersStayTrue
<1>8. FailedIsCancelled' /\ ConfirmedHasPayment'
  BY <1>1, <1>2 DEF IInv, FailedIsCancelled, ConfirmedHasPayment, IsPaid, HashMeansMinted
<1>9. DownForgets'
  BY <1>1 DEF IInv, DownForgets
<1>10. QED
  BY <1>3, <1>4, <1>5, <1>6, <1>7, <1>8, <1>9 DEF IInv

\* Steps of the server's memory, and of time, leave the rows and the world alone.
LEMMA MemoryKeepsIInv ==
    ASSUME IInv, TypeOK', UNCHANGED <<row, invoice>>,
           MintingIsCreated', AnswersStayTrue', DownForgets'
    PROVE  IInv'
<1>1. HashMeansMinted' /\ OneHashOneSettlement' /\ InvoiceMeansTaken'
  BY DEF IInv, HashMeansMinted, OneHashOneSettlement, InvoiceMeansTaken, HashTaken
<1>2. FailedIsCancelled' /\ ConfirmedHasPayment'
  BY DEF IInv, FailedIsCancelled, ConfirmedHasPayment, IsPaid
<1>3. QED
  BY <1>1, <1>2 DEF IInv

\* An open invoice is paid or cancelled; a paid one shows up in the records.
LEMMA InvoiceKeepsIInv ==
    ASSUME IInv, TypeOK', NEW h \in Hashes,
           \/ invoice[h].state = "open" /\ invoice'[h].state \in {"paid", "cancelled"}
           \/ invoice[h].state = "paid" /\ invoice'[h].state = "recorded",
           \A g \in Hashes \ {h} : invoice'[g] = invoice[g],
           UNCHANGED <<now, server, row, mint, watch>>
    PROVE  IInv'
<1>1. MintingIsCreated' /\ HashMeansMinted' /\ OneHashOneSettlement' /\ DownForgets'
  BY DEF IInv, MintingIsCreated, HashMeansMinted, OneHashOneSettlement, DownForgets
<1>2. InvoiceMeansTaken'
  BY DEF IInv, InvoiceMeansTaken, HashTaken
<1>3. AnswersStayTrue'
  BY NullFields DEF IInv, AnswersStayTrue
<1>4. FailedIsCancelled' /\ ConfirmedHasPayment'
  BY DEF IInv, FailedIsCancelled, ConfirmedHasPayment, IsPaid, HashMeansMinted
<1>5. QED
  BY <1>1, <1>2, <1>3, <1>4 DEF IInv

---------------------------------------------------------------------------
(* Each action keeps the inductive invariant. *)

\* What updating one entry of the server's tables leaves alone.
LEMMA Updates ==
    ASSUME TypeOK, NEW s \in Settlements
    PROVE  /\ \A r : LET f == [row EXCEPT ![s] = r]
                    IN  f[s] = r /\ \A t \in Settlements \ {s} : f[t] = row[t]
           /\ \A m : LET f == [mint EXCEPT ![s] = m]
                    IN  f[s] = m /\ \A t \in Settlements \ {s} : f[t] = mint[t]
           /\ \A w : LET f == [watch EXCEPT ![s] = w]
                    IN  f[s] = w /\ \A t \in Settlements \ {s} : f[t] = watch[t]
  BY DEF TypeOK

LEMMA RequestKeepsIInv == ASSUME IInv, Request PROVE IInv'
<1>1. TypeOK /\ TypeOK' /\ NoHash \notin Hashes
  BY RequestTypeOK, ConstantsAssumption DEF IInv
<1>2. ASSUME NEW s \in Settlements, NEW st \in {"created", "failed", "manually_confirmed"}, NEW r,
             row[s].status = "none", server = "up",
             r.status = st, r.hash = NoHash, row' = [row EXCEPT ![s] = r],
             \A t \in Settlements \ {s} : mint'[t] = mint[t],
             mint'[s].pc = "idle" \/ (st = "created" /\ mint'[s].reqAt = now),
             UNCHANGED <<now, server, watch, invoice>>
      PROVE  IInv'
  <2>1. row'[s] = r /\ \A t \in Settlements \ {s} : row'[t] = row[t]
    BY <1>1, <1>2, Updates
  <2>2. QED
    BY <1>1, <1>2, <2>1, NewRowKeepsIInv
<1>3. \A s \in Settlements : row[s].status = "none" => mint[s].pc = "idle"
  BY DEF IInv, MintingIsCreated
<1>4. ASSUME NEW s \in Settlements, NEW p \in Pairs, NEW amount, PostSettlement(s, p, amount)
      PROVE  IInv'
  <2> DEFINE r == [NoRow EXCEPT !.status = "created", !.pair = p, !.amount = amount,
                                !.createdAt = now]
  <2>1. mint'[s].reqAt = now /\ \A t \in Settlements \ {s} : mint'[t] = mint[t]
    BY <1>1, <1>4, Updates DEF PostSettlement, NoMint
  <2>2. r.status = "created" /\ r.hash = NoHash
    BY DEF NoRow
  <2>3. QED
    BY <1>2, <1>4, <2>1, <2>2 DEF PostSettlement
<1>5. ASSUME NEW s \in Settlements, NEW p \in Pairs, NEW amount, PostUnhandledRail(s, p, amount)
      PROVE  IInv'
  <2> DEFINE r == [NoRow EXCEPT !.status = "failed", !.pair = p, !.amount = amount,
                                !.createdAt = now, !.why = "nothing_moved"]
  <2>1. r.status = "failed" /\ r.hash = NoHash
    BY DEF NoRow
  <2>2. QED
    BY <1>2, <1>3, <1>5, <2>1 DEF PostUnhandledRail
<1>6. ASSUME NEW s \in Settlements, NEW p \in Pairs, NEW amount, PostManual(s, p, amount)
      PROVE  IInv'
  <2> DEFINE r == [NoRow EXCEPT !.status = "manually_confirmed", !.pair = p, !.amount = amount,
                                !.createdAt = now]
  <2>1. r.status = "manually_confirmed" /\ r.hash = NoHash
    BY DEF NoRow
  <2>2. QED
    BY <1>2, <1>3, <1>6, <2>1 DEF PostManual
<1>7. ASSUME NEW s \in Settlements, SubmitProof(s) PROVE IInv'
  <2>1. row[s].status # "none" /\ mint[s].pc = "idle"
    BY <1>1, <1>7 DEF SubmitProof, IInv, HashMeansMinted, MintingIsCreated
  <2>2. row'[s].status = "confirmed" /\ row'[s].hash = row[s].hash
    BY <1>1, <1>7, Updates DEF SubmitProof, TypeOK, Row
  <2>3. \A t \in Settlements \ {s} : row'[t] = row[t]
    BY <1>1, <1>7, Updates DEF SubmitProof
  <2>4. QED
    BY <1>1, <1>7, <2>1, <2>2, <2>3, ClosingKeepsIInv DEF SubmitProof
<1>8. CASE (\E w \in Wallets : ConnectWallet(w)) \/ DisconnectWallet \/ ChangeAddress
  <2>1. UNCHANGED <<now, server, row, mint, watch, invoice>>
    BY <1>8 DEF ConnectWallet, DisconnectWallet, ChangeAddress
  <2>2. MintingIsCreated' /\ AnswersStayTrue' /\ DownForgets'
    BY <2>1 DEF IInv, MintingIsCreated, AnswersStayTrue, DownForgets
  <2>3. QED
    BY <1>1, <2>1, <2>2, MemoryKeepsIInv
<1>9. QED
  BY <1>4, <1>5, <1>6, <1>7, <1>8, Request DEF Request

LEMMA MintingKeepsIInv == ASSUME IInv, NEW s \in Settlements, Minting(s) PROVE IInv'
<1>1. TypeOK /\ TypeOK' /\ NoHash \notin Hashes
  BY MintingTypeOK, ConstantsAssumption DEF IInv
<1>2. CASE Quoted(s)
  <2>1. server = "up" /\ UNCHANGED <<now, server, row, watch, invoice>>
    BY <1>2, NullFields DEF Quoted, IInv, DownForgets, TypeOK
  <2>2. mint'[s].reqAt = now /\ \A t \in Settlements \ {s} : mint'[t] = mint[t]
    BY <1>1, <1>2, Updates DEF Quoted, TypeOK, MintCall
  <2>3. MintingIsCreated'
    BY <1>1, <1>2, <2>1, <2>2 DEF Quoted, IInv, MintingIsCreated, TypeOK
  <2>4. AnswersStayTrue' /\ DownForgets'
    BY <2>1 DEF IInv, AnswersStayTrue, DownForgets
  <2>5. QED
    BY <1>1, <2>1, <2>3, <2>4, MemoryKeepsIInv
<1>3. ASSUME mint[s].pc # "idle", Fail(s),
             UNCHANGED <<now, server, crashes, wallet, address, watch, invoice>>
      PROVE  IInv'
  <2>1. server = "up" /\ row[s].status = "created" /\ row[s].hash \notin Hashes
    BY <1>1, <1>3, NullFields
    DEF IInv, DownForgets, MintingIsCreated, HashMeansMinted, TypeOK
  <2>2. row'[s].status = "failed" /\ row'[s].hash = row[s].hash /\ mint'[s].pc = "idle"
    BY <1>1, <1>3, Updates, NullFields DEF Fail, TypeOK, Row
  <2>3. \A t \in Settlements \ {s} : row'[t] = row[t] /\ mint'[t] = mint[t]
    BY <1>1, <1>3, Updates DEF Fail
  <2>4. QED
    BY <1>1, <1>3, <2>1, <2>2, <2>3, ClosingKeepsIInv
<1>4. ASSUME NEW h \in Hashes, NEW via, NEW ends, mint[s].pc # "idle", ~HashTaken(h),
             Store(s, h, via, ends), mint' = [mint EXCEPT ![s] = NoMint],
             watch'[s].ans = "none", \A t \in Settlements \ {s} : watch'[t] = watch[t],
             invoice[h].state = "none" => invoice'[h].state = "open",
             \A g \in Hashes \ {h} : invoice'[g] = invoice[g],
             UNCHANGED <<now, server>>
      PROVE  IInv'
  <2>1. row'[s].status = "awaiting_payment" /\ row'[s].hash = h
    BY <1>1, <1>4, Updates DEF Store, TypeOK, Row
  <2>2. mint'[s].pc = "idle"
    BY <1>1, <1>4, Updates, NullFields
  <2>3. \A t \in Settlements \ {s} : row'[t] = row[t] /\ mint'[t] = mint[t]
    BY <1>1, <1>4, Updates DEF Store
  <2>4. QED
    BY <1>1, <1>4, <2>1, <2>2, <2>3, MintedKeepsIInv
<1>5. ASSUME NEW h \in Hashes, NEW at, NwcInvoice(s, h, at) PROVE IInv'
  <2> DEFINE w == [NoWatch EXCEPT !.via = "nwc", !.wallet = mint[s].wallet]
  <2>1. w.ans = "none"
    BY DEF NoWatch
  <2>2. watch' = [watch EXCEPT ![s] = w]
    BY <1>5 DEF NwcInvoice
  <2>3. watch'[s].ans = "none" /\ \A t \in Settlements \ {s} : watch'[t] = watch[t]
    <3> HIDE DEF w
    <3> QED
      BY <1>1, <2>1, <2>2, Updates
  <2>4. /\ invoice[h].state = "none" => invoice'[h].state = "open"
        /\ \A g \in Hashes \ {h} : invoice'[g] = invoice[g]
    BY <1>1, <1>5 DEF NwcInvoice, TypeOK
  <2>5. QED
    BY <1>4, <1>5, <2>3, <2>4 DEF NwcInvoice
<1>6. ASSUME NEW h \in Hashes, NEW ends, NEW via, AddressInvoice(s, h, ends, via) PROVE IInv'
  <2>1. WatchAddress(via, now, ends).ans = "none"
    BY DEF WatchAddress, NoWatch
  <2>2. watch'[s].ans = "none" /\ \A t \in Settlements \ {s} : watch'[t] = watch[t]
    BY <1>1, <1>6, <2>1, Updates DEF AddressInvoice
  <2>3. /\ invoice[h].state = "none" => invoice'[h].state = "open"
        /\ \A g \in Hashes \ {h} : invoice'[g] = invoice[g]
    BY <1>1, <1>6 DEF AddressInvoice, TypeOK
  <2>4. QED
    BY <1>4, <1>6, <2>2, <2>3 DEF AddressInvoice
<1>7. QED
  BY <1>2, <1>3, <1>5, <1>6, Minting(s) DEF Minting, MintFails, KnownInvoice

LEMMA AskKeepsIInv == ASSUME IInv, NEW s \in Settlements, Ask(s) PROVE IInv'
<1>1. TypeOK /\ TypeOK'
  BY AskTypeOK DEF IInv
<1>2. ASSUME NEW ans, Answer(s, ans), watch[s].via # "none",
             ans = "settled" => invoice[row[s].hash].state = "recorded",
             ans = "failed" => invoice[row[s].hash].state = "cancelled"
      PROVE  IInv'
  <2>1. /\ watch'[s].ans = ans /\ watch'[s].via = watch[s].via
        /\ \A t \in Settlements \ {s} : watch'[t] = watch[t]
    BY <1>1, <1>2, Updates DEF Answer, TypeOK, Watched
  <2>2. server = "up"
    BY <1>1, <1>2, NullFields DEF IInv, DownForgets, TypeOK
  <2>3. MintingIsCreated' /\ DownForgets'
    BY <1>2, <2>2 DEF Answer, IInv, MintingIsCreated, DownForgets
  <2>4. AnswersStayTrue'
    BY <1>2, <2>1 DEF Answer, IInv, AnswersStayTrue
  <2>5. QED
    BY <1>1, <1>2, <2>3, <2>4, MemoryKeepsIInv DEF Answer
<1>3. CASE NwcAnswers(s)
  <2>1. /\ WalletSays(row[s].hash) = "settled" => invoice[row[s].hash].state = "recorded"
        /\ WalletSays(row[s].hash) = "failed" => invoice[row[s].hash].state = "cancelled"
    BY DEF WalletSays
  <2>2. QED
    BY <1>2, <1>3, <2>1 DEF NwcAnswers
<1>4. CASE VerifyAnswers(s)
  BY <1>2, <1>4 DEF VerifyAnswers
<1>5. CASE VerifyUnreachable(s)
  BY <1>2, <1>5 DEF VerifyUnreachable
<1>6. QED
  BY <1>3, <1>4, <1>5, Ask(s) DEF Ask

\* What a check comes down to: the answer is acted on, or asked for again.
Acted(s, st, why) ==
    /\ Finish(s, st, why)
    /\ watch[s].via # "none"
    /\ st \in {"confirmed", "failed", "expired"}
    /\ st = "confirmed" => watch[s].ans = "settled"
    /\ st = "failed" => watch[s].ans = "failed"

AskedAgain(s) ==
    /\ watch[s].via # "none"
    /\ watch' = [watch EXCEPT ![s] = [@ EXCEPT !.ans = "none", !.at = 0]]
    /\ UNCHANGED row

LEMMA CheckSteps ==
    ASSUME NEW s \in Settlements, Check(s)
    PROVE  /\ UNCHANGED <<now, server, crashes, wallet, address, mint, invoice>>
           /\ (\E st, why : Acted(s, st, why)) \/ AskedAgain(s)
<1>1. CASE CheckNwc(s)
  BY <1>1 DEF CheckNwc, Acted, AskedAgain
<1>2. CASE CheckVerify(s)
  BY <1>2 DEF CheckVerify, Acted, AskedAgain
<1>3. CASE CheckProofOnly(s)
  BY <1>3 DEF CheckProofOnly, Acted
<1>4. QED
  BY <1>1, <1>2, <1>3, Check(s) DEF Check

LEMMA CheckKeepsIInv == ASSUME IInv, NEW s \in Settlements, Check(s) PROVE IInv'
<1>1. /\ TypeOK /\ TypeOK'
      /\ UNCHANGED <<now, server, mint, invoice>>
  BY CheckTypeOK, CheckSteps DEF IInv
<1>2. ASSUME NEW st, NEW why, Acted(s, st, why) PROVE IInv'
  <2>1. server = "up" /\ row[s].hash \in Hashes
    BY <1>1, <1>2, NullFields DEF Acted, IInv, DownForgets, AnswersStayTrue, TypeOK
  <2>2. watch'[s] = NoWatch /\ \A t \in Settlements \ {s} : watch'[t] = watch[t]
    BY <1>1, <1>2, Updates DEF Acted, Finish
  <2>3. CASE row[s].status # "awaiting_payment"
    <3>1. UNCHANGED row
      BY <1>2, <2>3 DEF Acted, Finish
    <3>2. MintingIsCreated' /\ DownForgets'
      BY <1>1, <2>1, <3>1 DEF IInv, MintingIsCreated, DownForgets
    <3>3. AnswersStayTrue'
      BY <1>1, <2>2, <3>1, NullFields DEF IInv, AnswersStayTrue
    <3>4. QED
      BY <1>1, <3>1, <3>2, <3>3, MemoryKeepsIInv
  <2>4. CASE row[s].status = "awaiting_payment"
    <3>1. /\ row'[s].status = st /\ row'[s].hash = row[s].hash
          /\ \A t \in Settlements \ {s} : row'[t] = row[t]
      BY <1>1, <1>2, <2>4, Updates DEF Acted, Finish, TypeOK, Row
    <3>2. mint[s].pc = "idle"
      BY <2>4 DEF IInv, MintingIsCreated
    <3>3. /\ st = "confirmed" => IsPaid(row[s].hash)
          /\ st = "failed" => invoice[row[s].hash].state = "cancelled"
      BY <1>2 DEF Acted, IInv, AnswersStayTrue, IsPaid
    <3>4. st \in {"confirmed", "failed", "expired"}
      BY <1>2 DEF Acted
    <3>5. QED
      BY <1>1, <2>1, <2>2, <2>4, <3>1, <3>2, <3>3, <3>4, ClosingKeepsIInv
  <2>5. QED
    BY <2>3, <2>4
<1>3. CASE AskedAgain(s)
  <2>1. /\ watch'[s].ans = "none" /\ watch'[s].via = watch[s].via
        /\ \A t \in Settlements \ {s} : watch'[t] = watch[t]
    BY <1>1, <1>3, Updates DEF AskedAgain, TypeOK, Watched
  <2>2. server = "up"
    BY <1>1, <1>3, NullFields DEF AskedAgain, IInv, DownForgets, TypeOK
  <2>3. MintingIsCreated' /\ DownForgets'
    BY <1>1, <1>3, <2>2 DEF AskedAgain, IInv, MintingIsCreated, DownForgets
  <2>4. AnswersStayTrue'
    BY <1>1, <1>3, <2>1 DEF AskedAgain, IInv, AnswersStayTrue
  <2>5. QED
    BY <1>1, <1>3, <2>3, <2>4, MemoryKeepsIInv DEF AskedAgain
<1>4. QED
  BY <1>2, <1>3, CheckSteps

LEMMA CrashKeepsIInv == ASSUME IInv, Crash PROVE IInv'
<1>1. TypeOK /\ UNCHANGED <<now, row, invoice>>
  BY DEF IInv, Crash
<1>2. \A s \in Settlements : mint'[s] = NoMint /\ watch'[s] = NoWatch
  BY DEF Crash
<1>3. TypeOK'
  BY NullsAreTyped DEF Crash, IInv, TypeOK
<1>4. MintingIsCreated' /\ AnswersStayTrue' /\ DownForgets'
  BY <1>2, NullFields DEF MintingIsCreated, AnswersStayTrue, DownForgets
<1>5. QED
  BY <1>1, <1>3, <1>4, MemoryKeepsIInv

\* A restart fails the rows that never got an invoice, and only those.
LEMMA BootKeepsIInv == ASSUME IInv, Boot PROVE IInv'
<1>1. /\ TypeOK /\ TypeOK' /\ NoHash \notin Hashes
      /\ UNCHANGED <<now, mint, invoice>>
  BY BootTypeOK, ConstantsAssumption DEF IInv, Boot
<1>2. ASSUME NEW s \in Settlements
      PROVE  /\ row'[s].hash = row[s].hash
             /\ row'[s].status = IF row[s].status = "created" THEN "failed" ELSE row[s].status
             /\ mint[s].pc = "idle"
             /\ watch'[s].ans = "none"
             /\ watch'[s].via # "none" => row[s].status = "awaiting_payment"
  <2>1. row'[s] = IF row[s].status # "created" THEN row[s] ELSE
                  [row[s] EXCEPT !.status = "failed", !.why = "nothing_moved"]
    BY DEF Boot
  <2>2. row'[s].hash = row[s].hash
        /\ row'[s].status = IF row[s].status = "created" THEN "failed" ELSE row[s].status
    BY <1>1, <2>1 DEF TypeOK, Row
  <2>3. watch'[s] = Resumed(s)
    BY DEF Boot
  <2>4. /\ WatchAddress(row[s].via, row[s].createdAt, row[s].ends).ans = "none"
        /\ [NoWatch EXCEPT !.via = "nwc", !.wallet = wallet].ans = "none"
    BY DEF WatchAddress, NoWatch
  <2>5. watch'[s].ans = "none"
    BY <2>3, <2>4, NullFields DEF Resumed
  <2>6. watch'[s].via # "none" => row[s].status = "awaiting_payment"
    BY <2>3, NullFields DEF Resumed
  <2>7. mint[s].pc = "idle"
    BY <1>1, NullFields DEF Boot, IInv, DownForgets
  <2>8. QED
    BY <2>2, <2>5, <2>6, <2>7
<1>3. MintingIsCreated' /\ DownForgets'
  BY <1>1, <1>2 DEF Boot, MintingIsCreated, DownForgets
<1>4. HashMeansMinted' /\ OneHashOneSettlement' /\ InvoiceMeansTaken'
  BY <1>1, <1>2
  DEF IInv, HashMeansMinted, OneHashOneSettlement, InvoiceMeansTaken, HashTaken
<1>5. AnswersStayTrue'
  BY <1>1, <1>2 DEF IInv, AnswersStayTrue, HashMeansMinted
<1>6. FailedIsCancelled' /\ ConfirmedHasPayment'
  BY <1>1, <1>2 DEF IInv, FailedIsCancelled, ConfirmedHasPayment, HashMeansMinted, IsPaid
<1>7. QED
  BY <1>1, <1>3, <1>4, <1>5, <1>6 DEF IInv

LEMMA WorldKeepsIInv == ASSUME IInv, World PROVE IInv'
<1>1. TypeOK /\ TypeOK'
  BY WorldTypeOK DEF IInv
<1>2. ASSUME NEW s \in Settlements, Pay(s) PROVE IInv'
  <2> DEFINE h == row[s].hash
  <2>1. /\ h \in Hashes /\ invoice[h].state = "open" /\ invoice'[h].state = "paid"
        /\ \A g \in Hashes \ {h} : invoice'[g] = invoice[g]
    BY <1>1, <1>2 DEF Pay, IsPayable, TypeOK, Invoice
  <2>2. QED
    BY <1>1, <1>2, <2>1, InvoiceKeepsIInv DEF Pay
<1>3. ASSUME NEW h \in Hashes, RecordPayment(h) \/ CancelInvoice(h) PROVE IInv'
  <2>1. /\ \/ invoice[h].state = "open" /\ invoice'[h].state = "cancelled"
           \/ invoice[h].state = "paid" /\ invoice'[h].state = "recorded"
        /\ \A g \in Hashes \ {h} : invoice'[g] = invoice[g]
    BY <1>1, <1>3 DEF RecordPayment, CancelInvoice, TypeOK, Invoice
  <2>2. QED
    BY <1>1, <1>3, <2>1, InvoiceKeepsIInv DEF RecordPayment, CancelInvoice
<1>4. CASE Tick
  <2>1. MintingIsCreated' /\ AnswersStayTrue' /\ DownForgets'
    BY <1>1, <1>4, MintFields
    DEF Tick, IInv, MintingIsCreated, AnswersStayTrue, DownForgets, TypeOK
  <2>2. QED
    BY <1>1, <1>4, <2>1, MemoryKeepsIInv DEF Tick
<1>5. QED
  BY <1>2, <1>3, <1>4, World DEF World

LEMMA NextIInv == IInv /\ [Next]_vars => IInv'
<1> SUFFICES ASSUME IInv, [Next]_vars PROVE IInv'
  OBVIOUS
<1>1. CASE UNCHANGED vars
  BY <1>1
  DEF vars, IInv, TypeOK, MintingIsCreated, HashMeansMinted, OneHashOneSettlement,
      InvoiceMeansTaken, HashTaken, AnswersStayTrue, FailedIsCancelled, ConfirmedHasPayment,
      IsPaid, DownForgets
<1>2. QED
  BY <1>1, RequestKeepsIInv, MintingKeepsIInv, AskKeepsIInv, CheckKeepsIInv, CrashKeepsIInv,
     BootKeepsIInv, WorldKeepsIInv
  DEF Next

---------------------------------------------------------------------------
(* What a step may do to a row. *)

\* A free row is taken for a pair that has nothing under way.
Starts(s) ==
    /\ row[s].status = "none"
    /\ row'[s].status \in {"created", "failed", "manually_confirmed"}
    /\ row'[s].hash = NoHash
    /\ ~InProgressFor(row'[s].pair)
    /\ \A t \in Settlements \ {s} : row'[t] = row[t]
    /\ UNCHANGED <<now, invoice>>

\* A row that is minting gets its invoice, under a hash that nobody has.
Mints(s) ==
    /\ row[s].status = "created" /\ row[s].hash = NoHash
    /\ row'[s].status = "awaiting_payment"
    /\ row'[s].pair = row[s].pair
    /\ row'[s].hash \in Hashes /\ ~HashTaken(row'[s].hash)
    /\ invoice'[row'[s].hash].state = "open"
    /\ \A g \in Hashes \ {row'[s].hash} : invoice'[g] = invoice[g]
    /\ \A t \in Settlements \ {s} : row'[t] = row[t]
    /\ UNCHANGED now

\* A row that is not settled gets its outcome; confirmed only if it was paid.
Ends(s) ==
    /\ \/ row[s].status = "created" /\ row'[s].status = "failed"
       \/ row[s].status = "awaiting_payment" /\ row'[s].status \in {"confirmed", "failed", "expired"}
       \/ row[s].status \in {"failed", "expired"} /\ row'[s].status = "confirmed"
    /\ row'[s].hash = row[s].hash /\ row'[s].pair = row[s].pair
    /\ row'[s].status = "confirmed" => row[s].hash \in Hashes /\ IsPaid(row[s].hash)
    /\ \A t \in Settlements \ {s} : row'[t] = row[t]
    /\ UNCHANGED <<now, invoice>>

\* A restart fails what was "created".
Interrupts ==
    /\ \A s \in Settlements :
          /\ row[s].status # "created" => row'[s] = row[s]
          /\ row[s].status = "created" =>
                /\ row'[s].status = "failed"
                /\ row'[s].hash = row[s].hash /\ row'[s].pair = row[s].pair
    /\ UNCHANGED <<now, invoice>>

LEMMA RowSteps ==
    ASSUME IInv, Next
    PROVE  \/ UNCHANGED row
           \/ \E s \in Settlements : Starts(s) \/ Mints(s) \/ Ends(s)
           \/ Interrupts
<1>1. TypeOK
  BY DEF IInv
<1>2. ASSUME NEW s \in Settlements, NEW r,
             row[s].status = "none", row' = [row EXCEPT ![s] = r],
             r.status \in {"created", "failed", "manually_confirmed"}, r.hash = NoHash,
             ~InProgressFor(r.pair),
             UNCHANGED <<now, invoice>>
      PROVE  Starts(s)
  BY <1>1, <1>2, Updates DEF Starts
<1>3. ASSUME NEW s \in Settlements, NEW p \in Pairs, NEW amount,
             \/ PostSettlement(s, p, amount)
             \/ PostUnhandledRail(s, p, amount)
             \/ PostManual(s, p, amount)
      PROVE  Starts(s)
  <2> DEFINE made(st, why) == [NoRow EXCEPT !.status = st, !.pair = p, !.amount = amount,
                                            !.createdAt = now, !.why = why]
             madePlain(st) == [NoRow EXCEPT !.status = st, !.pair = p, !.amount = amount,
                                            !.createdAt = now]
  <2>1. \A st, why : /\ made(st, why).status = st /\ made(st, why).hash = NoHash
                     /\ made(st, why).pair = p
    BY DEF NoRow
  <2>2. \A st : /\ madePlain(st).status = st /\ madePlain(st).hash = NoHash
                /\ madePlain(st).pair = p
    BY DEF NoRow
  <2>3. /\ row[s].status = "none" /\ ~InProgressFor(p) /\ UNCHANGED <<now, invoice>>
        /\ \/ row' = [row EXCEPT ![s] = madePlain("created")]
           \/ row' = [row EXCEPT ![s] = made("failed", "nothing_moved")]
           \/ row' = [row EXCEPT ![s] = madePlain("manually_confirmed")]
    BY <1>3 DEF PostSettlement, PostUnhandledRail, PostManual
  <2> HIDE DEF made, madePlain
  <2>4. QED
    BY <1>2, <2>1, <2>2, <2>3
<1>4. ASSUME NEW s \in Settlements, NEW st, NEW why,
             row' = [row EXCEPT ![s] = [@ EXCEPT !.status = st, !.why = why]],
             UNCHANGED <<now, invoice>>,
             \/ row[s].status = "created" /\ st = "failed"
             \/ row[s].status = "awaiting_payment" /\ st \in {"confirmed", "failed", "expired"}
             \/ row[s].status \in {"failed", "expired"} /\ st = "confirmed",
             st = "confirmed" => row[s].hash \in Hashes /\ IsPaid(row[s].hash)
      PROVE  Ends(s)
  <2>1. row'[s].status = st /\ row'[s].hash = row[s].hash /\ row'[s].pair = row[s].pair
    BY <1>1, <1>4, Updates DEF TypeOK, Row
  <2>2. \A t \in Settlements \ {s} : row'[t] = row[t]
    BY <1>1, <1>4, Updates
  <2>3. QED
    BY <1>4, <2>1, <2>2 DEF Ends
<1>5. ASSUME NEW s \in Settlements, SubmitProof(s) PROVE Ends(s)
  <2>1. NoHash \notin Hashes /\ row[s].status \in Statuses
    BY <1>1, ConstantsAssumption, RowFields DEF TypeOK
  <2>2. row[s].status \in {"awaiting_payment", "failed", "expired"}
    BY <1>5, <2>1 DEF SubmitProof, IInv, HashMeansMinted, Statuses, Settled
  <2>3. QED
    BY <1>4, <1>5, <2>2 DEF SubmitProof
<1>6. CASE Request
  <2>1. CASE (\E w \in Wallets : ConnectWallet(w)) \/ DisconnectWallet \/ ChangeAddress
    BY <2>1 DEF ConnectWallet, DisconnectWallet, ChangeAddress
  <2>2. QED
    BY <1>3, <1>5, <1>6, <2>1 DEF Request
<1>7. ASSUME NEW s \in Settlements, mint[s].pc # "idle", Fail(s), UNCHANGED <<now, invoice>>
      PROVE  Ends(s)
  BY <1>4, <1>7 DEF Fail, IInv, MintingIsCreated
<1>8. ASSUME NEW s \in Settlements, NEW h \in Hashes, NEW via, NEW ends, mint[s].pc # "idle",
             ~HashTaken(h), Store(s, h, via, ends), UNCHANGED now,
             invoice[h].state = "none" => invoice'[h].state = "open",
             \A g \in Hashes \ {h} : invoice'[g] = invoice[g]
      PROVE  Mints(s)
  <2>1. row[s].status = "created" /\ row[s].hash = NoHash /\ invoice[h].state = "none"
    BY <1>8 DEF IInv, MintingIsCreated, HashMeansMinted, InvoiceMeansTaken
  <2>2. /\ row'[s].status = "awaiting_payment" /\ row'[s].hash = h
        /\ row'[s].pair = row[s].pair
    BY <1>1, <1>8, Updates DEF Store, TypeOK, Row
  <2>3. \A t \in Settlements \ {s} : row'[t] = row[t]
    BY <1>1, <1>8, Updates DEF Store
  <2>4. QED
    BY <1>8, <2>1, <2>2, <2>3 DEF Mints
<1>9. ASSUME NEW s \in Settlements, NEW h \in Hashes, NEW at, NwcInvoice(s, h, at) PROVE Mints(s)
  <2>1. /\ invoice[h].state = "none" => invoice'[h].state = "open"
        /\ \A g \in Hashes \ {h} : invoice'[g] = invoice[g]
    BY <1>1, <1>9 DEF NwcInvoice, TypeOK
  <2>2. QED
    BY <1>8, <1>9, <2>1 DEF NwcInvoice
<1>10. ASSUME NEW s \in Settlements, NEW h \in Hashes, NEW ends, NEW via,
              AddressInvoice(s, h, ends, via)
       PROVE  Mints(s)
  <2>1. /\ invoice[h].state = "none" => invoice'[h].state = "open"
        /\ \A g \in Hashes \ {h} : invoice'[g] = invoice[g]
    BY <1>1, <1>10 DEF AddressInvoice, TypeOK
  <2>2. QED
    BY <1>8, <1>10, <2>1 DEF AddressInvoice
<1>11. ASSUME NEW s \in Settlements, Minting(s) PROVE UNCHANGED row \/ Mints(s) \/ Ends(s)
  <2>1. CASE Quoted(s)
    BY <2>1 DEF Quoted
  <2>2. CASE MintFails(s)
    BY <1>7, <2>2 DEF MintFails
  <2>3. ASSUME NEW h \in Hashes, KnownInvoice(s, h) PROVE Ends(s)
    BY <1>7, <2>3 DEF KnownInvoice
  <2>4. QED
    BY <1>9, <1>10, <1>11, <2>1, <2>2, <2>3 DEF Minting
<1>12. ASSUME NEW s \in Settlements, Check(s) PROVE UNCHANGED row \/ Ends(s)
  <2>1. UNCHANGED <<now, invoice>>
    BY <1>12, CheckSteps
  <2>2. ASSUME NEW st, NEW why, Acted(s, st, why) PROVE UNCHANGED row \/ Ends(s)
    <3>1. CASE row[s].status # "awaiting_payment"
      BY <2>2, <3>1 DEF Acted, Finish
    <3>2. CASE row[s].status = "awaiting_payment"
      <4>1. row[s].hash \in Hashes /\ (st = "confirmed" => IsPaid(row[s].hash))
        BY <2>2, <3>2 DEF Acted, IInv, HashMeansMinted, AnswersStayTrue, IsPaid
      <4>2. QED
        BY <1>4, <2>1, <2>2, <3>2, <4>1 DEF Acted, Finish
    <3>3. QED
      BY <3>1, <3>2
  <2>3. QED
    BY <1>12, <2>2, CheckSteps DEF AskedAgain
<1>13. ASSUME NEW s \in Settlements, Ask(s) PROVE UNCHANGED row
  BY <1>13 DEF Ask, NwcAnswers, VerifyAnswers, VerifyUnreachable, Answer
<1>14. CASE Boot
  <2>1. ASSUME NEW s \in Settlements
        PROVE  /\ row[s].status # "created" => row'[s] = row[s]
               /\ row[s].status = "created" =>
                     /\ row'[s].status = "failed"
                     /\ row'[s].hash = row[s].hash /\ row'[s].pair = row[s].pair
    <3>1. row'[s] = IF row[s].status # "created" THEN row[s] ELSE
                    [row[s] EXCEPT !.status = "failed", !.why = "nothing_moved"]
      BY <1>14 DEF Boot
    <3>2. QED
      BY <1>1, <3>1 DEF TypeOK, Row
  <2>2. QED
    BY <1>14, <2>1 DEF Boot, Interrupts
<1>15. CASE World
  BY <1>15 DEF World, Pay, RecordPayment, CancelInvoice, Tick
<1>16. CASE Crash
  BY <1>16 DEF Crash
<1>17. QED
  BY <1>6, <1>11, <1>12, <1>13, <1>14, <1>15, <1>16, Next DEF Next

\* Only a tick moves the clock.
LEMMA TimeMoves == ASSUME [Next]_vars PROVE Tick \/ UNCHANGED now
<1>1. ASSUME Request PROVE UNCHANGED now
  BY <1>1 DEF Request, PostSettlement, PostUnhandledRail, PostManual, SubmitProof, ConnectWallet,
     DisconnectWallet, ChangeAddress
<1>2. ASSUME NEW s \in Settlements, Minting(s) PROVE UNCHANGED now
  BY <1>2 DEF Minting, Quoted, MintFails, KnownInvoice, NwcInvoice, AddressInvoice
<1>3. ASSUME NEW s \in Settlements, Ask(s) PROVE UNCHANGED now
  BY <1>3 DEF Ask, NwcAnswers, VerifyAnswers, VerifyUnreachable, Answer
<1>4. ASSUME NEW s \in Settlements, Check(s) PROVE UNCHANGED now
  BY <1>4, CheckSteps
<1>5. ASSUME Crash \/ Boot PROVE UNCHANGED now
  BY <1>5 DEF Crash, Boot
<1>6. ASSUME World PROVE Tick \/ UNCHANGED now
  BY <1>6 DEF World, Pay, RecordPayment, CancelInvoice
<1>7. QED
  BY <1>1, <1>2, <1>3, <1>4, <1>5, <1>6 DEF Next, vars

---------------------------------------------------------------------------
(* Theorems *)

\* The rows, the server's memory and the invoices agree with each other at
\* all times, whatever requests, answers, crashes and payments come between.
THEOREM Inductive == Spec => []IInv
  BY InitIInv, NextIInv, PTL DEF Spec

\* A settlement called confirmed was paid, by a payment that confirms no other.
THEOREM ConfirmedWasPaid == Spec => []ConfirmedIsPaid
<1>1. IInv => ConfirmedIsPaid
  BY DEF IInv, ConfirmedIsPaid, ConfirmedHasPayment, HashMeansMinted, OneHashOneSettlement
<1>2. QED
  BY <1>1, Inductive, PTL

\* A settlement that failed moved no money: its invoice, if any, was not paid.
THEOREM FailedMovedNothing == Spec => []FailedIsUnpaid
<1>1. IInv => FailedIsUnpaid
  BY DEF IInv, FailedIsUnpaid, FailedIsCancelled, IsPaid
<1>2. QED
  BY <1>1, Inductive, PTL

\* What is settled stays exactly as it is, through every later step.
THEOREM SettledStays == Spec => SettledIsFinal
<1>1. ASSUME IInv, [Next]_vars
      PROVE  \A s \in Settlements : row[s].status \in Settled => row'[s] = row[s]
  <2>1. CASE UNCHANGED vars
    BY <2>1 DEF vars
  <2>2. CASE Next
    BY <1>1, <2>2, RowSteps DEF Starts, Mints, Ends, Interrupts, Settled
  <2>3. QED
    BY <1>1, <2>1, <2>2
<1>2. QED
  BY <1>1, Inductive, PTL DEF Spec, SettledIsFinal

\* Nothing but time may end a payment under way without closing its row.
LEMMA NextOneInProgress ==
    ASSUME IInv, IInv', OneInProgress, [Next]_vars PROVE OneInProgress'
<1>1. now \in Nat /\ now' \in Nat /\ \A s \in Settlements : row[s].quoteEnd \in Nat
  BY RowFields DEF IInv, TypeOK
<1>2. ASSUME \A t \in Settlements :
                IsInProgress(t)' => IsInProgress(t) /\ row'[t].pair = row[t].pair
      PROVE  OneInProgress'
  BY <1>2 DEF OneInProgress
<1>3. ASSUME UNCHANGED row, now' >= now
      PROVE  OneInProgress'
  BY <1>1, <1>2, <1>3 DEF IsInProgress
<1>4. ASSUME NEW s \in Settlements, Starts(s) PROVE OneInProgress'
  <2>1. \A t \in Settlements \ {s} : /\ IsInProgress(t)' <=> IsInProgress(t)
                                     /\ row'[t].pair = row[t].pair
    BY <1>4 DEF Starts, IsInProgress
  <2>2. \A t \in Settlements \ {s} : IsInProgress(t)' => row'[t].pair # row'[s].pair
    BY <1>4, <2>1 DEF Starts, InProgressFor
  <2>3. QED
    BY <2>1, <2>2 DEF OneInProgress
<1>5. ASSUME NEW s \in Settlements, Mints(s) PROVE OneInProgress'
  BY <1>2, <1>5 DEF Mints, IsInProgress
<1>6. ASSUME NEW s \in Settlements, Ends(s) PROVE OneInProgress'
  BY <1>2, <1>6 DEF Ends, IsInProgress
<1>7. CASE Interrupts
  BY <1>2, <1>7 DEF Interrupts, IsInProgress
<1>8. now' >= now
  <2>1. CASE Tick
    BY <1>1, <2>1 DEF Tick
  <2>2. CASE UNCHANGED now
    BY <1>1, <2>2
  <2>3. QED
    BY <2>1, <2>2, TimeMoves
<1>9. QED
  BY <1>3, <1>4, <1>5, <1>6, <1>7, <1>8, RowSteps DEF vars

\* A pair of people never has two payments under way.
THEOREM OneAtATime == Spec => []OneInProgress
<1>1. Init => OneInProgress
  BY NullFields DEF Init, OneInProgress, IsInProgress
<1>2. QED
  BY <1>1, NextOneInProgress, Inductive, PTL DEF Spec

---------------------------------------------------------------------------
(* The promise to the people of the group *)

outcomes == [s \in Settlements |-> OutcomeOf(s)]

\* Who has paid changes only when an invoice is paid, and for one settlement.
LEMMA PaidSteps ==
    ASSUME IInv, IInv', Next
    PROVE  \/ UNCHANGED PaidSettlements
           \/ /\ UNCHANGED row
              /\ \E s \in Settlements :
                    /\ row[s].status # "none" /\ s \notin PaidSettlements
                    /\ PaidSettlements' = PaidSettlements \cup {s}
<1>1. TypeOK /\ NoHash \notin Hashes
  BY ConstantsAssumption DEF IInv
<1>2. ASSUME UNCHANGED invoice, \A s \in Settlements : row'[s].hash = row[s].hash
      PROVE  UNCHANGED PaidSettlements
  BY <1>2 DEF PaidSettlements, IsPaid
<1>3. ASSUME NEW s \in Settlements, Starts(s) PROVE UNCHANGED PaidSettlements
  <2>1. row[s].hash = NoHash
    BY <1>3 DEF Starts, IInv, HashMeansMinted
  <2>2. QED
    BY <1>2, <1>3, <2>1 DEF Starts
<1>4. ASSUME NEW s \in Settlements, Mints(s) PROVE UNCHANGED PaidSettlements
  <2>1. s \notin PaidSettlements /\ s \notin PaidSettlements'
    BY <1>1, <1>4 DEF Mints, PaidSettlements, IsPaid
  <2>2. \A t \in Settlements \ {s} : row'[t] = row[t] /\ row[t].hash # row'[s].hash
    BY <1>4 DEF Mints, HashTaken
  <2>3. \A t \in Settlements \ {s} : t \in PaidSettlements' <=> t \in PaidSettlements
    BY <1>4, <2>2 DEF Mints, PaidSettlements, IsPaid
  <2>4. PaidSettlements \subseteq Settlements /\ PaidSettlements' \subseteq Settlements
    BY DEF PaidSettlements
  <2>5. QED
    BY <2>1, <2>3, <2>4
<1>5. ASSUME NEW s \in Settlements, Ends(s) PROVE UNCHANGED PaidSettlements
  BY <1>2, <1>5 DEF Ends
<1>6. CASE Interrupts
  BY <1>2, <1>6 DEF Interrupts
<1>7. ASSUME NEW s \in Settlements, Pay(s)
      PROVE  /\ row[s].status # "none" /\ s \notin PaidSettlements
             /\ PaidSettlements' = PaidSettlements \cup {s}
  <2> DEFINE h == row[s].hash
  <2>1. /\ h \in Hashes /\ invoice[h].state = "open" /\ invoice'[h].state = "paid"
        /\ \A g \in Hashes \ {h} : invoice'[g] = invoice[g]
        /\ UNCHANGED row
    BY <1>1, <1>7 DEF Pay, IsPayable, TypeOK, Invoice
  <2>2. row[s].status # "none"
    BY <1>1, <2>1 DEF IInv, HashMeansMinted
  <2>3. \A t \in Settlements \ {s} : row[t].hash # h
    BY <2>1 DEF IInv, OneHashOneSettlement
  <2>4. \A t \in Settlements \ {s} : t \in PaidSettlements' <=> t \in PaidSettlements
    BY <2>1, <2>3 DEF PaidSettlements, IsPaid
  <2>5. s \notin PaidSettlements /\ s \in PaidSettlements'
    BY <2>1 DEF PaidSettlements, IsPaid
  <2>6. PaidSettlements \subseteq Settlements /\ PaidSettlements' \subseteq Settlements
    BY DEF PaidSettlements
  <2>7. QED
    BY <2>2, <2>4, <2>5, <2>6
<1>8. ASSUME NEW h \in Hashes, RecordPayment(h) \/ CancelInvoice(h)
      PROVE  UNCHANGED PaidSettlements
  <2>1. /\ \A g \in Hashes : IsPaid(g)' <=> IsPaid(g)
        /\ UNCHANGED row
    BY <1>1, <1>8 DEF RecordPayment, CancelInvoice, IsPaid, TypeOK, Invoice
  <2>2. QED
    BY <2>1 DEF PaidSettlements
<1>9. CASE UNCHANGED row
  <2>1. CASE World
    BY <1>2, <1>7, <1>8, <1>9, <2>1 DEF World, Tick, Pay
  <2>2. CASE UNCHANGED invoice
    BY <1>2, <1>9, <2>2
  <2>3. CASE \E s \in Settlements : Minting(s)
    <3>1. PICK s \in Settlements : Minting(s)
      BY <2>3
    <3>2. ASSUME mint[s].pc # "idle", NEW h \in Hashes, NEW via, NEW ends,
                 Store(s, h, via, ends)
          PROVE  FALSE
      <4>1. row[s].status = "created"
        BY <3>2 DEF IInv, MintingIsCreated
      <4>2. row'[s].status = "awaiting_payment"
        BY <1>1, <3>2, Updates DEF Store, TypeOK, Row
      <4>3. QED
        BY <1>9, <4>1, <4>2
    <3>3. UNCHANGED invoice
      BY <3>1, <3>2 DEF Minting, Quoted, MintFails, KnownInvoice, NwcInvoice, AddressInvoice
    <3>4. QED
      BY <2>2, <3>3
  <2>4. ASSUME Request PROVE UNCHANGED invoice
    BY <2>4 DEF Request, PostSettlement, PostUnhandledRail, PostManual, SubmitProof,
       ConnectWallet, DisconnectWallet, ChangeAddress
  <2>5. ASSUME NEW s \in Settlements, Ask(s) PROVE UNCHANGED invoice
    BY <2>5 DEF Ask, NwcAnswers, VerifyAnswers, VerifyUnreachable, Answer
  <2>6. ASSUME NEW s \in Settlements, Check(s) PROVE UNCHANGED invoice
    BY <2>6, CheckSteps
  <2>7. ASSUME Crash \/ Boot PROVE UNCHANGED invoice
    BY <2>7 DEF Crash, Boot
  <2>8. QED
    BY <2>1, <2>2, <2>3, <2>4, <2>5, <2>6, <2>7, Next DEF Next
<1>10. QED
  BY <1>3, <1>4, <1>5, <1>6, <1>9, RowSteps

\* Every step of the server and of the world is a step SettlementPromise
\* allows, or changes no outcome and no payment.
LEMMA NextKeepsPromise ==
    ASSUME IInv, IInv', [Next]_vars
    PROVE  [Promise!Next]_<<outcomes, PaidSettlements>>
<1> USE DEF outcomes
<1>1. CASE UNCHANGED vars
  BY <1>1 DEF vars, OutcomeOf, PaidSettlements, IsPaid
<1>2. CASE Next /\ UNCHANGED row
  <2>1. UNCHANGED outcomes
    BY <1>2 DEF OutcomeOf
  <2>2. CASE UNCHANGED PaidSettlements
    BY <2>1, <2>2
  <2>3. ASSUME NEW s \in Settlements, row[s].status # "none", s \notin PaidSettlements,
               PaidSettlements' = PaidSettlements \cup {s}
        PROVE  Promise!Next
    <3>1. outcomes[s] # "none"
      BY <2>3 DEF OutcomeOf
    <3>2. Promise!Pay(s)
      BY <2>1, <2>3, <3>1 DEF Promise!Pay
    <3>3. QED
      BY <3>2 DEF Promise!Next
  <2>4. QED
    BY <1>2, <2>2, <2>3, PaidSteps
<1>3. ASSUME Next, ~UNCHANGED row PROVE UNCHANGED PaidSettlements
  BY <1>3, PaidSteps
<1>4. ASSUME NEW s \in Settlements, \A t \in Settlements \ {s} : row'[t] = row[t]
      PROVE  outcomes' = [outcomes EXCEPT ![s] = OutcomeOf(s)']
  BY <1>4 DEF OutcomeOf
<1>5. ASSUME NEW s \in Settlements, Starts(s), UNCHANGED PaidSettlements PROVE Promise!Next
  <2>1. outcomes[s] = "none" /\ outcomes' = [outcomes EXCEPT ![s] = OutcomeOf(s)']
    BY <1>4, <1>5 DEF Starts, OutcomeOf
  <2>2. OutcomeOf(s)' \in {"open", "closed", "vouched"}
    BY <1>5 DEF Starts, OutcomeOf
  <2>3. Promise!Ask(s) \/ Promise!Vouch(s) \/ Promise!TurnDown(s)
    BY <1>5, <2>1, <2>2 DEF Promise!Ask, Promise!Vouch, Promise!TurnDown
  <2>4. QED
    BY <2>3 DEF Promise!Next
<1>6. ASSUME NEW s \in Settlements, Mints(s) PROVE UNCHANGED outcomes
  <2>1. OutcomeOf(s) = "open" /\ OutcomeOf(s)' = "open"
    BY <1>6 DEF Mints, OutcomeOf
  <2>2. QED
    BY <1>4, <1>6, <2>1 DEF Mints
<1>7. ASSUME NEW s \in Settlements, Ends(s), UNCHANGED PaidSettlements
      PROVE  Promise!Next \/ UNCHANGED outcomes
  <2>1. outcomes' = [outcomes EXCEPT ![s] = OutcomeOf(s)']
    BY <1>4, <1>7 DEF Ends
  <2>2. CASE row'[s].status = "confirmed"
    <3>1. outcomes[s] \in {"open", "closed"} /\ OutcomeOf(s)' = "confirmed"
      BY <1>7, <2>2 DEF Ends, OutcomeOf
    <3>2. s \in PaidSettlements
      BY <1>7, <2>2 DEF Ends, PaidSettlements
    <3>3. Promise!Confirm(s)
      BY <1>7, <2>1, <3>1, <3>2 DEF Promise!Confirm
    <3>4. QED
      BY <3>3 DEF Promise!Next
  <2>3. CASE row'[s].status # "confirmed"
    <3>1. outcomes[s] = "open" /\ OutcomeOf(s)' = "closed"
      BY <1>7, <2>3 DEF Ends, OutcomeOf
    <3>2. Promise!Close({s})
      BY <1>7, <2>1, <3>1 DEF Promise!Close
    <3>3. QED
      BY <3>2 DEF Promise!Next
  <2>4. QED
    BY <2>2, <2>3
<1>8. ASSUME Interrupts, UNCHANGED PaidSettlements PROVE Promise!Next
  <2> DEFINE S == {s \in Settlements : row[s].status = "created"}
  <2>1. \A s \in S : outcomes[s] = "open" /\ outcomes'[s] = "closed"
    BY <1>8 DEF Interrupts, OutcomeOf
  <2>2. \A s \in Settlements \ S : outcomes'[s] = outcomes[s]
    BY <1>8 DEF Interrupts, OutcomeOf
  <2>3. outcomes' = [s \in Settlements |-> IF s \in S THEN "closed" ELSE outcomes[s]]
    BY <2>1, <2>2
  <2>4. Promise!Close(S)
    BY <1>8, <2>1, <2>3 DEF Promise!Close
  <2>5. QED
    BY <2>4 DEF Promise!Next
<1>9. QED
  BY <1>1, <1>2, <1>3, <1>5, <1>6, <1>7, <1>8, RowSteps

\* The server implements SettlementPromise: whatever requests, crashes,
\* answers and payments come, outcomes change only as promised.
THEOREM PromiseKept == Spec => KeepsPromise
<1>1. Init => Promise!Init
  BY ConstantsAssumption, NullFields
  DEF Init, Promise!Init, OutcomeOf, PaidSettlements
<1>2. QED
  BY <1>1, NextKeepsPromise, Inductive, PTL
  DEF Spec, KeepsPromise, Promise!Spec, outcomes

---------------------------------------------------------------------------
(* What it takes to watch an invoice to its end.  IInv says nothing of     *)
(* time; these are the parts of the invariant that do, settlement by       *)
(* settlement.                                                             *)

\* A mint call is never older than its timeout, and while it runs the wallet
\* it started with cannot be disconnected without another in its place.
MintInTime(s) ==
    mint[s].pc # "idle" =>
        /\ now <= mint[s].reqAt + RequestTimeout
        /\ row[s].createdAt <= now
        /\ mint[s].wallet # NoWallet => wallet # NoWallet
        /\ mint[s].pc = "nwc" => mint[s].wallet # NoWallet

\* A payment that is not in the records yet is younger than the lag.
PaidShowsUp(h) == invoice[h].state = "paid" => now < invoice[h].ends + RecordLag

\* What the row says of its invoice's end is what the invoice keeps to.
InvoiceAsRow(s) ==
    row[s].hash \in Hashes =>
        /\ row[s].via # "none"
        /\ row[s].via = "nwc" =>
              invoice[row[s].hash].ends <= row[s].quoteEnd + RequestTimeout
        /\ row[s].via # "nwc" => invoice[row[s].hash].ends = row[s].ends

\* A watch asks whom the row names, until the end the row names.
WatchAsRow(s) ==
    watch[s].via # "none" =>
        /\ watch[s].via = row[s].via
        /\ row[s].via # "nwc" /\ row[s].ends <= row[s].createdAt + MaxWatch =>
              watch[s].until = row[s].ends

\* An answer is never older than its timeout; "not paid" was said no later than
\* a payment could still have been missed, and "expired" once it was too late.
AnswersInTime(s) ==
    watch[s].ans # "none" =>
        /\ watch[s].at <= now /\ now <= watch[s].at + RequestTimeout
        /\ watch[s].ans \in {"expired", "unsettled"} /\ IsPaid(row[s].hash) =>
              watch[s].at < invoice[row[s].hash].ends + RecordLag
        /\ watch[s].ans = "expired" =>
              /\ watch[s].at >= invoice[row[s].hash].ends
              /\ watch[s].wallet = invoice[row[s].hash].wallet

\* An invoice closed as expired is over, so that nobody pays it afterwards.
ExpiredIsOver(s) ==
    row[s].status = "expired" /\ row[s].why = "none" /\ WatchedToItsEnd(s) =>
        now >= invoice[row[s].hash].ends /\ ~IsPaid(row[s].hash)

\* The payee has a wallet for as long as a payment to one is under way.
StaysConnected(s) ==
    row[s].status = "awaiting_payment" /\ row[s].via = "nwc" /\ wallet = NoWallet =>
        ~IsInProgress(s)

\* OpenIsWatched, of one settlement.
IsWatched(s) ==
    server = "up" /\ row[s].status = "awaiting_payment" /\ watch[s].via = "none" =>
        row[s].via = "nwc" /\ ~IsInProgress(s)

Well(s) ==
    /\ MintInTime(s) /\ InvoiceAsRow(s) /\ WatchAsRow(s) /\ AnswersInTime(s)
    /\ ExpiredIsOver(s) /\ StaysConnected(s) /\ IsWatched(s)

WInv == (\A h \in Hashes : PaidShowsUp(h)) /\ \A s \in Settlements : Well(s)

LEMMA TimeTypes ==
    ASSUME TypeOK
    PROVE  /\ now \in Nat /\ RequestTimeout \in Nat /\ RecordLag \in Nat /\ Grace \in Nat
           /\ MaxWatch \in Nat /\ NoWallet \notin Wallets /\ NoHash \notin Hashes
           /\ \A h \in Hashes : invoice[h].ends \in Int
           /\ \A s \in Settlements :
                /\ row[s].quoteEnd \in Nat /\ row[s].createdAt \in Nat /\ row[s].ends \in Nat
                /\ mint[s].reqAt \in Nat /\ mint[s].quoteEnd \in Nat
                /\ watch[s].at \in Nat /\ watch[s].until \in Nat
<1>1. \A h \in Hashes : invoice[h].ends \in Int
  BY DEF TypeOK, Invoice
<1>2. \A s \in Settlements : watch[s].at \in Nat /\ watch[s].until \in Nat
  BY DEF TypeOK, Watched
<1>3. \A s \in Settlements : mint[s].reqAt \in Nat /\ mint[s].quoteEnd \in Nat
  BY MintFields DEF TypeOK
<1>4. \A s \in Settlements :
         row[s].quoteEnd \in Nat /\ row[s].createdAt \in Nat /\ row[s].ends \in Nat
  BY RowFields DEF TypeOK
<1>5. QED
  BY <1>1, <1>2, <1>3, <1>4, ConstantsAssumption DEF TypeOK

LEMMA InitWInv == Init => WInv
<1> SUFFICES ASSUME Init PROVE WInv
  OBVIOUS
<1>1. \A h \in Hashes : invoice[h].state = "none"
  BY NullFields DEF Init
<1>2. ASSUME NEW s \in Settlements PROVE Well(s)
  <2>1. /\ row[s].status = "none" /\ row[s].hash \notin Hashes /\ mint[s].pc = "idle"
        /\ watch[s].via = "none" /\ watch[s].ans = "none"
    BY NullFields, ConstantsAssumption DEF Init
  <2>2. QED
    BY <2>1 DEF Well, MintInTime, InvoiceAsRow, WatchAsRow, AnswersInTime, ExpiredIsOver,
       StaysConnected, IsWatched
<1>3. QED
  BY <1>1, <1>2 DEF WInv, PaidShowsUp

\* A settlement that a step does not touch stays as well as it was, unless its
\* payee is left without a wallet.
LEMMA UntouchedStaysWell ==
    ASSUME IInv, NEW t \in Settlements, Well(t),
           row'[t] = row[t], mint'[t] = mint[t], watch'[t] = watch[t],
           row[t].hash \in Hashes => invoice'[row[t].hash] = invoice[row[t].hash],
           UNCHANGED <<now, server>>,
           wallet' = NoWallet => wallet = NoWallet
    PROVE  Well(t)'
<1>1. /\ watch[t].ans # "none" => row[t].hash \in Hashes
      /\ row[t].status = "expired" => row[t].hash \in Hashes
  BY DEF IInv, AnswersStayTrue, HashMeansMinted
<1>2. MintInTime(t)' /\ InvoiceAsRow(t)' /\ WatchAsRow(t)'
  BY DEF Well, MintInTime, InvoiceAsRow, WatchAsRow
<1>3. AnswersInTime(t)'
  BY <1>1 DEF Well, AnswersInTime, IsPaid
<1>4. ExpiredIsOver(t)'
  BY <1>1 DEF Well, ExpiredIsOver, WatchedToItsEnd, IsPaid
<1>5. StaysConnected(t)' /\ IsWatched(t)'
  BY DEF Well, StaysConnected, IsWatched, IsInProgress
<1>6. QED
  BY <1>2, <1>3, <1>4, <1>5 DEF Well

\* A settlement that starts, with the wallet the payee has if it is minting.
LEMMA NewRowIsWell ==
    ASSUME IInv, NEW s \in Settlements,
           row[s].status = "none",
           row'[s].status \in {"created", "failed", "manually_confirmed"},
           row'[s].hash = NoHash, row'[s].createdAt = now,
           \/ mint'[s].pc = "idle"
           \/ mint'[s].pc = "quoting" /\ mint'[s].reqAt = now /\ mint'[s].wallet = wallet,
           UNCHANGED <<now, wallet, watch>>
    PROVE  Well(s)'
<1>1. now \in Nat /\ RequestTimeout \in Nat /\ NoHash \notin Hashes
  BY TimeTypes DEF IInv
<1>2. watch[s].via = "none" /\ watch[s].ans = "none"
  BY <1>1 DEF IInv, HashMeansMinted, AnswersStayTrue
<1>3. MintInTime(s)'
  BY <1>1 DEF MintInTime
<1>4. InvoiceAsRow(s)' /\ WatchAsRow(s)' /\ AnswersInTime(s)'
  BY <1>1, <1>2 DEF InvoiceAsRow, WatchAsRow, AnswersInTime
<1>5. ExpiredIsOver(s)' /\ StaysConnected(s)' /\ IsWatched(s)'
  BY DEF ExpiredIsOver, StaysConnected, IsWatched
<1>6. QED
  BY <1>3, <1>4, <1>5 DEF Well

\* What a row says of its invoice.
InvoiceFields(r) == <<r.via, r.hash, r.quoteEnd, r.createdAt, r.ends>>

\* A row that is closed: as expired only when its invoice is over and unpaid.
LEMMA ClosedIsWell ==
    ASSUME IInv, NEW s \in Settlements, Well(s),
           row'[s].status # "awaiting_payment",
           InvoiceFields(row'[s]) = InvoiceFields(row[s]),
           row'[s].status = "expired" /\ row'[s].why = "none" /\ WatchedToItsEnd(s) =>
              now >= invoice[row[s].hash].ends /\ ~IsPaid(row[s].hash),
           mint'[s] = mint[s] \/ mint'[s].pc = "idle",
           watch'[s] = watch[s] \/ watch'[s] = NoWatch,
           UNCHANGED <<now, wallet, invoice>>
    PROVE  Well(s)'
<1>1. /\ row'[s].via = row[s].via /\ row'[s].hash = row[s].hash
      /\ row'[s].quoteEnd = row[s].quoteEnd /\ row'[s].createdAt = row[s].createdAt
      /\ row'[s].ends = row[s].ends
  BY DEF InvoiceFields
<1>2. MintInTime(s)' /\ InvoiceAsRow(s)' /\ WatchAsRow(s)'
  BY <1>1, NullFields DEF Well, MintInTime, InvoiceAsRow, WatchAsRow
<1>3. AnswersInTime(s)'
  BY <1>1, NullFields DEF Well, AnswersInTime, IsPaid
<1>4. ExpiredIsOver(s)'
  BY <1>1 DEF ExpiredIsOver, WatchedToItsEnd, IsPaid
<1>5. StaysConnected(s)' /\ IsWatched(s)'
  BY DEF StaysConnected, IsWatched
<1>6. QED
  BY <1>2, <1>3, <1>4, <1>5 DEF Well

\* store() and the watch it starts.
LEMMA MintedIsWell ==
    ASSUME NEW s \in Settlements, NEW via \in {"nwc", "verify", "proof"},
           row'[s].status = "awaiting_payment", row'[s].via = via,
           mint'[s].pc = "idle",
           watch'[s].via = via, watch'[s].ans = "none",
           via = "nwc" =>
              /\ wallet' # NoWallet
              /\ invoice'[row'[s].hash].ends <= row'[s].quoteEnd + RequestTimeout,
           via # "nwc" =>
              /\ invoice'[row'[s].hash].ends = row'[s].ends
              /\ row'[s].ends <= row'[s].createdAt + MaxWatch => watch'[s].until = row'[s].ends
    PROVE  Well(s)'
<1>1. MintInTime(s)' /\ InvoiceAsRow(s)'
  BY DEF MintInTime, InvoiceAsRow
<1>2. WatchAsRow(s)' /\ AnswersInTime(s)'
  BY DEF WatchAsRow, AnswersInTime
<1>3. ExpiredIsOver(s)' /\ StaysConnected(s)' /\ IsWatched(s)'
  BY DEF ExpiredIsOver, StaysConnected, IsWatched
<1>4. QED
  BY <1>1, <1>2, <1>3 DEF Well

\* A watch gets an answer now, or drops one to ask again.
LEMMA AskedStaysWell ==
    ASSUME IInv, NEW s \in Settlements, Well(s),
           watch'[s].via = watch[s].via, watch'[s].wallet = watch[s].wallet,
           watch'[s].until = watch[s].until,
           watch'[s].ans # "none" => watch'[s].at = now,
           watch'[s].ans \in {"expired", "unsettled"} /\ IsPaid(row[s].hash) =>
              now < invoice[row[s].hash].ends + RecordLag,
           watch'[s].ans = "expired" =>
              /\ now >= invoice[row[s].hash].ends
              /\ watch[s].wallet = invoice[row[s].hash].wallet,
           UNCHANGED <<now, server, wallet, row, mint, invoice>>
    PROVE  Well(s)'
<1>1. now \in Nat /\ RequestTimeout \in Nat
  BY TimeTypes DEF IInv
<1>2. MintInTime(s)' /\ InvoiceAsRow(s)' /\ WatchAsRow(s)'
  BY DEF Well, MintInTime, InvoiceAsRow, WatchAsRow
<1>3. AnswersInTime(s)'
  BY <1>1 DEF AnswersInTime, IsPaid
<1>4. ExpiredIsOver(s)'
  BY DEF Well, ExpiredIsOver, WatchedToItsEnd, IsPaid
<1>5. StaysConnected(s)' /\ IsWatched(s)'
  BY DEF Well, StaysConnected, IsWatched, IsInProgress
<1>6. QED
  BY <1>2, <1>3, <1>4, <1>5 DEF Well

\* An invoice is paid only while it lives; nothing else makes it paid.
LEMMA InvoiceStepStaysWell ==
    ASSUME IInv, NEW s \in Settlements, Well(s),
           \A h \in Hashes :
              /\ invoice'[h].ends = invoice[h].ends /\ invoice'[h].wallet = invoice[h].wallet
              /\ IsPaid(h)' => IsPaid(h) \/ now < invoice[h].ends,
           UNCHANGED <<now, server, wallet, row, mint, watch>>
    PROVE  Well(s)'
<1>1. /\ now \in Nat /\ RecordLag \in Nat /\ watch[s].at \in Nat
      /\ \A h \in Hashes : invoice[h].ends \in Int
  BY TimeTypes DEF IInv
<1>2. /\ watch[s].ans # "none" => row[s].hash \in Hashes
      /\ row[s].status \in {"awaiting_payment", "expired"} => row[s].hash \in Hashes
  BY DEF IInv, AnswersStayTrue, HashMeansMinted
<1>3. MintInTime(s)' /\ InvoiceAsRow(s)' /\ WatchAsRow(s)'
  BY DEF Well, MintInTime, InvoiceAsRow, WatchAsRow
<1>4. AnswersInTime(s)'
  BY <1>1, <1>2 DEF Well, AnswersInTime
<1>5. ExpiredIsOver(s)'
  <2>1. row[s].status = "expired" => (WatchedToItsEnd(s)' <=> WatchedToItsEnd(s))
    BY <1>2 DEF WatchedToItsEnd
  <2>2. QED
    BY <1>1, <1>2, <2>1 DEF Well, ExpiredIsOver
<1>6. StaysConnected(s)' /\ IsWatched(s)'
  BY DEF Well, StaysConnected, IsWatched, IsInProgress
<1>7. QED
  BY <1>3, <1>4, <1>5, <1>6 DEF Well

---------------------------------------------------------------------------
(* Each action keeps watching well. *)

LEMMA RequestKeepsWInv == ASSUME IInv, WInv, Request PROVE WInv'
<1>1. TypeOK /\ NoWallet \notin Wallets
  BY TimeTypes DEF IInv
<1>2. \A s \in Settlements : Well(s)
  BY DEF WInv
<1>3. UNCHANGED <<now, server, invoice, watch>>
  BY DEF Request, PostSettlement, PostUnhandledRail, PostManual, SubmitProof, ConnectWallet,
     DisconnectWallet, ChangeAddress
<1>4. \A h \in Hashes : PaidShowsUp(h)'
  BY <1>3 DEF WInv, PaidShowsUp
<1>5. ASSUME NEW s \in Settlements, NEW r,
             row[s].status = "none",
             r.status \in {"created", "failed", "manually_confirmed"},
             r.hash = NoHash, r.createdAt = now, row' = [row EXCEPT ![s] = r],
             \A t \in Settlements \ {s} : mint'[t] = mint[t],
             \/ mint'[s].pc = "idle"
             \/ mint'[s].pc = "quoting" /\ mint'[s].reqAt = now /\ mint'[s].wallet = wallet,
             UNCHANGED wallet
      PROVE  WInv'
  <2>1. row'[s] = r /\ \A t \in Settlements \ {s} : row'[t] = row[t]
    BY <1>1, <1>5, Updates
  <2>2. Well(s)'
    BY <1>3, <1>5, <2>1, NewRowIsWell
  <2>3. \A t \in Settlements \ {s} : Well(t)'
    BY <1>2, <1>3, <1>5, <2>1, UntouchedStaysWell
  <2>4. QED
    BY <1>4, <2>2, <2>3 DEF WInv
<1>6. \A s \in Settlements : row[s].status = "none" => mint[s].pc = "idle"
  BY DEF IInv, MintingIsCreated
<1>7. ASSUME NEW s \in Settlements, NEW p \in Pairs, NEW amount, PostSettlement(s, p, amount)
      PROVE  WInv'
  <2> DEFINE r == [NoRow EXCEPT !.status = "created", !.pair = p, !.amount = amount,
                                !.createdAt = now]
             m == [NoMint EXCEPT !.pc = "quoting", !.wallet = wallet, !.reqAt = now]
  <2>1. r.status = "created" /\ r.hash = NoHash /\ r.createdAt = now
    BY DEF NoRow
  <2>2. m.pc = "quoting" /\ m.reqAt = now /\ m.wallet = wallet
    BY DEF NoMint
  <2>3. /\ row[s].status = "none" /\ UNCHANGED wallet
        /\ row' = [row EXCEPT ![s] = r] /\ mint' = [mint EXCEPT ![s] = m]
    BY <1>7 DEF PostSettlement
  <2> HIDE DEF r, m
  <2>4. mint'[s] = m /\ \A t \in Settlements \ {s} : mint'[t] = mint[t]
    BY <1>1, <2>3, Updates
  <2>5. QED
    BY <1>5, <2>1, <2>2, <2>3, <2>4
<1>8. ASSUME NEW s \in Settlements, NEW p \in Pairs, NEW amount, PostUnhandledRail(s, p, amount)
      PROVE  WInv'
  <2> DEFINE r == [NoRow EXCEPT !.status = "failed", !.pair = p, !.amount = amount,
                                !.createdAt = now, !.why = "nothing_moved"]
  <2>1. r.status = "failed" /\ r.hash = NoHash /\ r.createdAt = now
    BY DEF NoRow
  <2>2. QED
    BY <1>5, <1>6, <1>8, <2>1 DEF PostUnhandledRail
<1>9. ASSUME NEW s \in Settlements, NEW p \in Pairs, NEW amount, PostManual(s, p, amount)
      PROVE  WInv'
  <2> DEFINE r == [NoRow EXCEPT !.status = "manually_confirmed", !.pair = p, !.amount = amount,
                                !.createdAt = now]
  <2>1. r.status = "manually_confirmed" /\ r.hash = NoHash /\ r.createdAt = now
    BY DEF NoRow
  <2>2. QED
    BY <1>5, <1>6, <1>9, <2>1 DEF PostManual
<1>10. ASSUME NEW s \in Settlements, SubmitProof(s) PROVE WInv'
  <2> DEFINE r == [row[s] EXCEPT !.status = "confirmed", !.why = "none"]
  <2>1. r.status = "confirmed" /\ InvoiceFields(r) = InvoiceFields(row[s])
    BY <1>1 DEF TypeOK, Row, InvoiceFields
  <2>2. row' = [row EXCEPT ![s] = r] /\ UNCHANGED <<mint, wallet>>
    BY <1>10 DEF SubmitProof
  <2> HIDE DEF r
  <2>3. row'[s] = r /\ \A t \in Settlements \ {s} : row'[t] = row[t]
    BY <1>1, <2>2, Updates
  <2>4. Well(s)'
    BY <1>2, <1>3, <2>1, <2>2, <2>3, ClosedIsWell
  <2>5. \A t \in Settlements \ {s} : Well(t)'
    BY <1>2, <1>3, <2>2, <2>3, UntouchedStaysWell
  <2>6. QED
    BY <1>4, <2>4, <2>5 DEF WInv
<1>11. CASE (\E w \in Wallets : ConnectWallet(w)) \/ ChangeAddress
  <2>1. UNCHANGED <<row, mint>> /\ (wallet' = NoWallet => wallet = NoWallet)
    BY <1>1, <1>11 DEF ConnectWallet, ChangeAddress
  <2>2. QED
    BY <1>2, <1>3, <1>4, <2>1, UntouchedStaysWell DEF WInv
<1>12. CASE DisconnectWallet
  <2>1. UNCHANGED <<row, mint>>
    BY <1>12 DEF DisconnectWallet
  <2>2. ASSUME NEW s \in Settlements PROVE Well(s)'
    <3>1. ~IsInProgress(s) /\ ~IsInProgress(s)'
      BY <1>3, <1>12, <2>1 DEF DisconnectWallet, IsInProgress
    <3>2. mint[s].pc = "idle"
      BY <3>1 DEF IsInProgress, IInv, MintingIsCreated
    <3>3. MintInTime(s)' /\ InvoiceAsRow(s)' /\ WatchAsRow(s)'
      BY <1>2, <1>3, <2>1, <3>2 DEF Well, MintInTime, InvoiceAsRow, WatchAsRow
    <3>4. AnswersInTime(s)'
      BY <1>2, <1>3, <2>1 DEF Well, AnswersInTime, IsPaid
    <3>5. ExpiredIsOver(s)'
      BY <1>2, <1>3, <2>1 DEF Well, ExpiredIsOver, WatchedToItsEnd, IsPaid
    <3>6. StaysConnected(s)' /\ IsWatched(s)'
      BY <1>2, <1>3, <2>1, <3>1 DEF Well, StaysConnected, IsWatched
    <3>7. QED
      BY <3>3, <3>4, <3>5, <3>6 DEF Well
  <2>3. QED
    BY <1>4, <2>2 DEF WInv
<1>13. QED
  BY <1>7, <1>8, <1>9, <1>10, <1>11, <1>12, Request DEF Request

LEMMA MintingKeepsWInv ==
    ASSUME IInv, WInv, NEW s \in Settlements, Minting(s) PROVE WInv'
<1>1. TypeOK /\ mint[s].pc # "idle"
  BY DEF IInv, Minting, Quoted, MintFails, KnownInvoice, NwcInvoice, AddressInvoice
<1>2. row[s].status = "created" /\ mint[s].reqAt <= now
  BY <1>1 DEF IInv, MintingIsCreated
<1>3. /\ \A t \in Settlements : Well(t)
      /\ \A h \in Hashes : PaidShowsUp(h)
  BY DEF WInv
<1>4. UNCHANGED <<now, server, wallet>>
  BY DEF Minting, Quoted, MintFails, KnownInvoice, NwcInvoice, AddressInvoice
<1>5. CASE Quoted(s)
  <2> DEFINE m == [mint[s] EXCEPT !.pc = IF mint[s].wallet # NoWallet THEN "nwc" ELSE "address",
                                  !.reqAt = now, !.quoteEnd = now + QuoteTTL]
  <2>1. /\ m.pc = "nwc" => m.wallet # NoWallet
        /\ m.reqAt = now /\ m.wallet = mint[s].wallet
    BY <1>1 DEF TypeOK, MintCall
  <2>2. mint' = [mint EXCEPT ![s] = m] /\ UNCHANGED <<row, watch, invoice>>
    BY <1>5 DEF Quoted
  <2> HIDE DEF m
  <2>3. mint'[s] = m /\ \A t \in Settlements \ {s} : mint'[t] = mint[t]
    BY <1>1, <2>2, Updates
  <2>4. MintInTime(s)'
    BY <1>1, <1>3, <1>4, <2>1, <2>2, <2>3, TimeTypes DEF Well, MintInTime
  <2>5. InvoiceAsRow(s)' /\ WatchAsRow(s)' /\ AnswersInTime(s)'
    BY <1>3, <1>4, <2>2 DEF Well, InvoiceAsRow, WatchAsRow, AnswersInTime, IsPaid
  <2>6. ExpiredIsOver(s)' /\ StaysConnected(s)' /\ IsWatched(s)'
    BY <1>2, <2>2 DEF ExpiredIsOver, StaysConnected, IsWatched
  <2>7. \A t \in Settlements \ {s} : Well(t)'
    BY <1>3, <1>4, <2>2, <2>3, UntouchedStaysWell
  <2>8. QED
    BY <1>3, <1>4, <2>2, <2>4, <2>5, <2>6, <2>7 DEF WInv, Well, PaidShowsUp
<1>6. ASSUME Fail(s), UNCHANGED <<watch, invoice>> PROVE WInv'
  <2> DEFINE r == [row[s] EXCEPT !.status = "failed", !.why = "nothing_moved"]
  <2>1. r.status = "failed" /\ InvoiceFields(r) = InvoiceFields(row[s])
    BY <1>1 DEF TypeOK, Row, InvoiceFields
  <2>2. row' = [row EXCEPT ![s] = r] /\ mint' = [mint EXCEPT ![s] = NoMint]
    BY <1>6 DEF Fail
  <2> HIDE DEF r
  <2>3. /\ row'[s] = r /\ mint'[s].pc = "idle"
        /\ \A t \in Settlements \ {s} : row'[t] = row[t] /\ mint'[t] = mint[t]
    BY <1>1, <2>2, Updates, NullFields
  <2>4. Well(s)'
    BY <1>3, <1>4, <1>6, <2>1, <2>3, ClosedIsWell
  <2>5. \A t \in Settlements \ {s} : Well(t)'
    BY <1>3, <1>4, <1>6, <2>3, UntouchedStaysWell
  <2>6. QED
    BY <1>3, <1>4, <1>6, <2>4, <2>5 DEF WInv, PaidShowsUp
<1>7. ASSUME NEW h \in Hashes, NEW via \in {"nwc", "verify", "proof"}, NEW ends, NEW w, NEW i,
             ~HashTaken(h), Store(s, h, via, ends), mint' = [mint EXCEPT ![s] = NoMint],
             watch' = [watch EXCEPT ![s] = w], w.via = via, w.ans = "none",
             invoice' = IF invoice[h].state # "none" THEN invoice ELSE [invoice EXCEPT ![h] = i],
             i.state = "open",
             via = "nwc" =>
                wallet # NoWallet /\ i.ends <= mint[s].quoteEnd + RequestTimeout,
             via # "nwc" =>
                /\ i.ends = ends
                /\ ends <= row[s].createdAt + MaxWatch => w.until = ends
      PROVE  WInv'
  <2> DEFINE r == [row[s] EXCEPT !.status = "awaiting_payment", !.hash = h, !.via = via,
                                 !.quoteEnd = mint[s].quoteEnd, !.ends = ends]
  <2>1. /\ r.status = "awaiting_payment" /\ r.hash = h /\ r.via = via
        /\ r.quoteEnd = mint[s].quoteEnd /\ r.ends = ends /\ r.createdAt = row[s].createdAt
    BY <1>1 DEF TypeOK, Row
  <2>2. row' = [row EXCEPT ![s] = r]
    BY <1>7 DEF Store
  <2> HIDE DEF r
  <2>3. /\ row'[s] = r /\ mint'[s].pc = "idle" /\ watch'[s] = w
        /\ \A t \in Settlements \ {s} :
              row'[t] = row[t] /\ mint'[t] = mint[t] /\ watch'[t] = watch[t]
    BY <1>1, <1>7, <2>2, Updates, NullFields
  <2>4. invoice'[h] = i /\ \A g \in Hashes \ {h} : invoice'[g] = invoice[g]
    BY <1>1, <1>7 DEF IInv, InvoiceMeansTaken, TypeOK
  <2>5. Well(s)'
    BY <1>4, <1>7, <2>1, <2>3, <2>4, MintedIsWell
  <2>6. \A t \in Settlements \ {s} : row[t].hash # h
    BY <1>7 DEF HashTaken
  <2>7. \A t \in Settlements \ {s} : Well(t)'
    BY <1>3, <1>4, <2>3, <2>4, <2>6, UntouchedStaysWell
  <2>8. \A g \in Hashes : PaidShowsUp(g)'
    BY <1>3, <1>4, <1>7, <2>4 DEF PaidShowsUp
  <2>9. QED
    BY <2>5, <2>7, <2>8 DEF WInv
<1>8. ASSUME NEW h \in Hashes, NEW at \in 0 .. now, NwcInvoice(s, h, at) PROVE WInv'
  <2> DEFINE w == [NoWatch EXCEPT !.via = "nwc", !.wallet = mint[s].wallet]
             i == [state |-> "open", wallet |-> mint[s].wallet, ends |-> at + ExpirySec(s)]
  <2>1. w.via = "nwc" /\ w.ans = "none"
    BY DEF NoWatch
  <2>2. wallet # NoWallet /\ now <= mint[s].reqAt + RequestTimeout
    BY <1>1, <1>3, <1>8 DEF NwcInvoice, Well, MintInTime
  <2>3. at <= now
    BY <1>1, TimeTypes
  <2>4. i.state = "open" /\ i.ends <= mint[s].quoteEnd + RequestTimeout
    BY <1>1, <2>2, <2>3, TimeTypes DEF ExpirySec
  <2>5. /\ ~HashTaken(h) /\ Store(s, h, "nwc", 0) /\ mint' = [mint EXCEPT ![s] = NoMint]
        /\ watch' = [watch EXCEPT ![s] = w]
        /\ invoice' = IF invoice[h].state # "none" THEN invoice ELSE [invoice EXCEPT ![h] = i]
    BY <1>8 DEF NwcInvoice
  <2> HIDE DEF w, i
  <2>6. QED
    BY <1>7, <2>1, <2>2, <2>4, <2>5
<1>9. ASSUME NEW h \in Hashes, NEW life \in 1 .. LongestInvoice, NEW via \in {"verify", "proof"},
             AddressInvoice(s, h, now + life, via)
      PROVE  WInv'
  <2> DEFINE ends == now + life
             w == WatchAddress(via, now, ends)
             i == [state |-> "open", wallet |-> NoWallet, ends |-> ends]
  <2>1. w.via = via /\ w.ans = "none"
    BY DEF WatchAddress, NoWatch
  <2>2. w.until = IF ends < now + MaxWatch THEN ends ELSE now + MaxWatch
    BY DEF WatchAddress, NoWatch
  <2>3. row[s].createdAt <= now
    BY <1>1, <1>3 DEF Well, MintInTime
  <2>4. ends <= row[s].createdAt + MaxWatch => w.until = ends
    <3>1. ends \in Int
      BY <1>1, TimeTypes
    <3> HIDE DEF ends, w
    <3>2. QED
      BY <1>1, <2>2, <2>3, <3>1, TimeTypes
  <2>5. /\ ~HashTaken(h) /\ Store(s, h, via, ends) /\ mint' = [mint EXCEPT ![s] = NoMint]
        /\ watch' = [watch EXCEPT ![s] = w]
        /\ invoice' = IF invoice[h].state # "none" THEN invoice ELSE [invoice EXCEPT ![h] = i]
    BY <1>9 DEF AddressInvoice
  <2>6. i.state = "open" /\ i.ends = ends
    OBVIOUS
  <2> HIDE DEF ends, w, i
  <2>7. QED
    BY <1>7, <2>1, <2>4, <2>5, <2>6
<1>10. QED
  BY <1>5, <1>6, <1>8, <1>9, Minting(s) DEF Minting, MintFails, KnownInvoice

LEMMA AskKeepsWInv == ASSUME IInv, WInv, NEW s \in Settlements, Ask(s) PROVE WInv'
<1>1. TypeOK
  BY DEF IInv
<1>2. /\ \A t \in Settlements : Well(t)
      /\ \A h \in Hashes : PaidShowsUp(h)
  BY DEF WInv
<1>3. ASSUME NEW ans, Answer(s, ans),
             ans \in {"expired", "unsettled"} /\ IsPaid(row[s].hash) =>
                now < invoice[row[s].hash].ends + RecordLag,
             ans = "expired" =>
                /\ now >= invoice[row[s].hash].ends
                /\ watch[s].wallet = invoice[row[s].hash].wallet
      PROVE  WInv'
  <2> DEFINE w == [watch[s] EXCEPT !.ans = ans, !.at = now]
  <2>1. /\ w.via = watch[s].via /\ w.wallet = watch[s].wallet /\ w.until = watch[s].until
        /\ w.ans = ans /\ w.at = now
    BY <1>1 DEF TypeOK, Watched
  <2>2. /\ watch' = [watch EXCEPT ![s] = w]
        /\ UNCHANGED <<now, server, wallet, row, mint, invoice>>
    BY <1>3 DEF Answer
  <2> HIDE DEF w
  <2>3. watch'[s] = w /\ \A t \in Settlements \ {s} : watch'[t] = watch[t]
    BY <1>1, <2>2, Updates
  <2>4. Well(s)'
    BY <1>2, <1>3, <2>1, <2>2, <2>3, AskedStaysWell
  <2>5. \A t \in Settlements \ {s} : Well(t)'
    BY <1>2, <2>2, <2>3, UntouchedStaysWell
  <2>6. QED
    BY <1>2, <2>2, <2>4, <2>5 DEF WInv, PaidShowsUp
<1>4. watch[s].via # "none" => row[s].hash \in Hashes
  BY DEF IInv, AnswersStayTrue
<1>5. CASE NwcAnswers(s)
  <2>1. WalletSays(row[s].hash) # "unsettled"
    BY DEF WalletSays
  <2>2. ASSUME WalletSays(row[s].hash) = "expired"
        PROVE  now >= invoice[row[s].hash].ends /\ invoice[row[s].hash].state \in {"open", "paid"}
    BY <2>2 DEF WalletSays
  <2>3. QED
    BY <1>2, <1>3, <1>4, <1>5, <2>1, <2>2 DEF NwcAnswers, IsPaid, PaidShowsUp
<1>6. CASE VerifyAnswers(s)
  BY <1>2, <1>3, <1>4, <1>6 DEF VerifyAnswers, IsPaid, PaidShowsUp
<1>7. CASE VerifyUnreachable(s)
  BY <1>3, <1>7 DEF VerifyUnreachable
<1>8. QED
  BY <1>5, <1>6, <1>7, Ask(s) DEF Ask

\* An invoice is closed as expired only on an answer asked for after every
\* payment of it would have shown up.
LEMMA ExpiryIsSafe ==
    ASSUME IInv, NEW s \in Settlements, Well(s), WatchedToItsEnd(s),
           \/ watch[s].via = "nwc" /\ watch[s].ans = "expired" /\ BelieveExpired(s)
           \/ watch[s].via = "verify" /\ watch[s].ans = "unsettled"
              /\ now >= watch[s].until + Grace
    PROVE  now >= invoice[row[s].hash].ends /\ ~IsPaid(row[s].hash)
<1>1. /\ now \in Nat /\ RequestTimeout \in Nat /\ RecordLag \in Nat /\ Grace \in Nat
      /\ watch[s].at \in Nat /\ watch[s].until \in Nat
      /\ \A h \in Hashes : invoice[h].ends \in Int
  BY TimeTypes DEF IInv
<1>2. row[s].hash \in Hashes /\ watch[s].via = row[s].via
  BY DEF IInv, AnswersStayTrue, Well, WatchAsRow
<1>3. now >= invoice[row[s].hash].ends + Grace
  <2>1. CASE watch[s].via = "nwc"
    BY <1>2, <2>1 DEF Well, AnswersInTime, WatchedToItsEnd, BelieveExpired
  <2>2. CASE watch[s].via = "verify"
    BY <1>2, <2>2 DEF Well, WatchAsRow, InvoiceAsRow, WatchedToItsEnd
  <2>3. QED
    BY <2>1, <2>2
<1>4. /\ now <= watch[s].at + RequestTimeout
      /\ IsPaid(row[s].hash) => watch[s].at < invoice[row[s].hash].ends + RecordLag
  BY DEF Well, AnswersInTime
<1>5. QED
  BY <1>1, <1>2, <1>3, <1>4, GraceAssumption

LEMMA CheckKeepsWInv == ASSUME IInv, WInv, NEW s \in Settlements, Check(s) PROVE WInv'
<1>1. TypeOK
  BY DEF IInv
<1>2. /\ \A t \in Settlements : Well(t)
      /\ \A h \in Hashes : PaidShowsUp(h)
  BY DEF WInv
<1>3. UNCHANGED <<now, server, wallet, mint, invoice>>
  BY CheckSteps
<1>4. ASSUME NEW st, NEW why, Finish(s, st, why),
             row[s].hash \in Hashes, st # "awaiting_payment",
             st = "expired" /\ why = "none" /\ WatchedToItsEnd(s) =>
                now >= invoice[row[s].hash].ends /\ ~IsPaid(row[s].hash)
      PROVE  WInv'
  <2>1. watch'[s] = NoWatch /\ \A t \in Settlements \ {s} : watch'[t] = watch[t]
    BY <1>1, <1>4, Updates DEF Finish
  <2>2. /\ row'[s].status # "awaiting_payment"
        /\ InvoiceFields(row'[s]) = InvoiceFields(row[s])
        /\ row'[s].status = "expired" /\ row'[s].why = "none" =>
              \/ st = "expired" /\ why = "none"
              \/ row[s].status = "expired" /\ row[s].why = "none"
        /\ \A t \in Settlements \ {s} : row'[t] = row[t]
    <3> DEFINE r == [row[s] EXCEPT !.status = st, !.why = why]
    <3>1. r.status = st /\ r.why = why /\ InvoiceFields(r) = InvoiceFields(row[s])
      BY <1>1 DEF TypeOK, Row, InvoiceFields
    <3>2. row' = IF row[s].status # "awaiting_payment" THEN row ELSE [row EXCEPT ![s] = r]
      BY <1>4 DEF Finish
    <3> HIDE DEF r
    <3>3. QED
      BY <1>1, <1>4, <3>1, <3>2, Updates
  <2>3. row'[s].status = "expired" /\ row'[s].why = "none" /\ WatchedToItsEnd(s) =>
           now >= invoice[row[s].hash].ends /\ ~IsPaid(row[s].hash)
    BY <1>2, <1>4, <2>2 DEF Well, ExpiredIsOver
  <2>4. Well(s)'
    BY <1>2, <1>3, <2>1, <2>2, <2>3, ClosedIsWell
  <2>5. \A t \in Settlements \ {s} : Well(t)'
    BY <1>2, <1>3, <2>1, <2>2, UntouchedStaysWell
  <2>6. QED
    BY <1>2, <1>3, <2>4, <2>5 DEF WInv, PaidShowsUp
<1>5. CASE AskedAgain(s)
  <2> DEFINE w == [watch[s] EXCEPT !.ans = "none", !.at = 0]
  <2>1. /\ w.via = watch[s].via /\ w.wallet = watch[s].wallet /\ w.until = watch[s].until
        /\ w.ans = "none"
    BY <1>1 DEF TypeOK, Watched
  <2>2. watch' = [watch EXCEPT ![s] = w] /\ UNCHANGED row
    BY <1>5 DEF AskedAgain
  <2> HIDE DEF w
  <2>3. watch'[s] = w /\ \A t \in Settlements \ {s} : watch'[t] = watch[t]
    BY <1>1, <2>2, Updates
  <2>4. Well(s)'
    BY <1>2, <1>3, <2>1, <2>2, <2>3, AskedStaysWell
  <2>5. \A t \in Settlements \ {s} : Well(t)'
    BY <1>2, <1>3, <2>2, <2>3, UntouchedStaysWell
  <2>6. QED
    BY <1>2, <1>3, <2>4, <2>5 DEF WInv, PaidShowsUp
<1>6. watch[s].via # "none" => row[s].hash \in Hashes
  BY DEF IInv, AnswersStayTrue
<1>7. CASE CheckNwc(s)
  <2>1. CASE watch[s].ans = "expired" /\ BelieveExpired(s) /\ Finish(s, "expired", "none")
    BY <1>2, <1>4, <1>6, <1>7, <2>1, ExpiryIsSafe DEF CheckNwc
  <2>2. CASE Finish(s, "confirmed", "none") \/ Finish(s, "failed", "nothing_moved")
    BY <1>4, <1>6, <1>7, <2>2 DEF CheckNwc
  <2>3. QED
    BY <1>5, <1>7, <2>1, <2>2 DEF CheckNwc, AskedAgain
<1>8. CASE CheckVerify(s)
  <2>1. CASE /\ watch[s].ans = "unsettled" /\ now >= watch[s].until + Grace
             /\ Finish(s, "expired", "none")
    BY <1>2, <1>4, <1>6, <1>8, <2>1, ExpiryIsSafe DEF CheckVerify
  <2>2. CASE Finish(s, "confirmed", "none") \/ Finish(s, "expired", "unreachable")
    BY <1>4, <1>6, <1>8, <2>2 DEF CheckVerify
  <2>3. QED
    BY <1>5, <1>8, <2>1, <2>2 DEF CheckVerify, AskedAgain
<1>9. CASE CheckProofOnly(s)
  BY <1>4, <1>6, <1>9 DEF CheckProofOnly
<1>10. QED
  BY <1>7, <1>8, <1>9, Check(s) DEF Check

LEMMA CrashKeepsWInv == ASSUME IInv, WInv, Crash PROVE WInv'
<1>1. /\ \A s \in Settlements : mint'[s].pc = "idle" /\ watch'[s] = NoWatch
      /\ UNCHANGED <<now, wallet, row, invoice>> /\ server' = "down"
  BY NullFields DEF Crash
<1>2. ASSUME NEW s \in Settlements PROVE Well(s)'
  <2>1. Well(s)
    BY DEF WInv
  <2>2. MintInTime(s)' /\ InvoiceAsRow(s)' /\ WatchAsRow(s)' /\ AnswersInTime(s)'
    BY <1>1, <2>1, NullFields DEF Well, MintInTime, InvoiceAsRow, WatchAsRow, AnswersInTime
  <2>3. ExpiredIsOver(s)'
    BY <1>1, <2>1 DEF Well, ExpiredIsOver, WatchedToItsEnd, IsPaid
  <2>4. StaysConnected(s)' /\ IsWatched(s)'
    BY <1>1, <2>1 DEF Well, StaysConnected, IsWatched, IsInProgress
  <2>5. QED
    BY <2>2, <2>3, <2>4 DEF Well
<1>3. QED
  BY <1>1, <1>2 DEF WInv, PaidShowsUp

\* A restart closes what was minting and picks up every other open invoice,
\* address invoices until the end their row names.
LEMMA BootKeepsWInv == ASSUME IInv, WInv, Boot PROVE WInv'
<1>1. TypeOK /\ server = "down" /\ UNCHANGED <<now, wallet, mint, invoice>>
  BY DEF IInv, Boot
<1>2. ASSUME NEW s \in Settlements PROVE Well(s)'
  <2>1. Well(s) /\ mint[s].pc = "idle"
    BY <1>1, NullFields DEF WInv, IInv, DownForgets
  <2>2. CASE row[s].status = "created"
    <3>1. row'[s].status = "failed" /\ row'[s].hash = row[s].hash
      BY <1>1, <2>2 DEF Boot, TypeOK, Row
    <3>2. row[s].hash \notin Hashes
      BY <1>1, <2>2, TimeTypes DEF IInv, HashMeansMinted
    <3>3. watch'[s].via = "none" /\ watch'[s].ans = "none"
      BY <2>2, NullFields DEF Boot, Resumed
    <3>4. MintInTime(s)' /\ InvoiceAsRow(s)' /\ WatchAsRow(s)' /\ AnswersInTime(s)'
      BY <1>1, <2>1, <3>1, <3>2, <3>3 DEF MintInTime, InvoiceAsRow, WatchAsRow, AnswersInTime
    <3>5. ExpiredIsOver(s)' /\ StaysConnected(s)' /\ IsWatched(s)'
      BY <3>1 DEF ExpiredIsOver, StaysConnected, IsWatched
    <3>6. QED
      BY <3>4, <3>5 DEF Well
  <2>3. CASE row[s].status # "created"
    <3>1. row'[s] = row[s]
      BY <2>3 DEF Boot
    <3>2. watch'[s].ans = "none"
      BY NullFields DEF Boot, Resumed, WatchAddress, NoWatch
    <3>3. MintInTime(s)' /\ InvoiceAsRow(s)' /\ AnswersInTime(s)'
      BY <1>1, <2>1, <3>1, <3>2 DEF Well, MintInTime, InvoiceAsRow, AnswersInTime
    <3>4. ExpiredIsOver(s)' /\ StaysConnected(s)'
      BY <1>1, <2>1, <3>1
      DEF Well, ExpiredIsOver, WatchedToItsEnd, IsPaid, StaysConnected, IsInProgress
    <3>5. WatchAsRow(s)' /\ IsWatched(s)'
      <4>1. CASE row[s].status # "awaiting_payment"
        <5>1. watch'[s].via = "none"
          BY <4>1, NullFields DEF Boot, Resumed
        <5>2. QED
          BY <3>1, <4>1, <5>1 DEF WatchAsRow, IsWatched
      <4>2. CASE row[s].status = "awaiting_payment" /\ row[s].via \in {"verify", "proof"}
        <5> DEFINE cap == row[s].createdAt + MaxWatch
        <5>1. watch'[s] = WatchAddress(row[s].via, row[s].createdAt, row[s].ends)
          BY <4>2 DEF Boot, Resumed
        <5>2. /\ watch'[s].via = row[s].via
              /\ watch'[s].until = IF row[s].ends < cap THEN row[s].ends ELSE cap
          BY <5>1 DEF WatchAddress, NoWatch
        <5>3. row[s].ends <= cap => watch'[s].until = row[s].ends
          BY <1>1, <5>2, TimeTypes
        <5>4. QED
          BY <3>1, <4>2, <5>2, <5>3 DEF WatchAsRow, IsWatched
      <4>3. CASE row[s].status = "awaiting_payment" /\ row[s].via \notin {"verify", "proof"}
        <5>1. row[s].via = "nwc"
          BY <1>1, <2>1, <4>3, RowFields
          DEF IInv, HashMeansMinted, Well, InvoiceAsRow, TypeOK
        <5>2. watch'[s].via = IF wallet = NoWallet THEN "none" ELSE "nwc"
          BY <4>3 DEF Boot, Resumed, NoWatch
        <5>3. QED
          BY <1>1, <3>1, <3>4, <4>3, <5>1, <5>2 DEF WatchAsRow, IsWatched, StaysConnected
      <4>4. QED
        BY <4>1, <4>2, <4>3
    <3>6. QED
      BY <3>3, <3>4, <3>5 DEF Well
  <2>4. QED
    BY <2>2, <2>3
<1>3. QED
  BY <1>1, <1>2 DEF WInv, PaidShowsUp

LEMMA WorldKeepsWInv == ASSUME IInv, WInv, World PROVE WInv'
<1>1. TypeOK /\ now \in Nat /\ RecordLag \in Nat /\ \A h \in Hashes : invoice[h].ends \in Int
  BY TimeTypes DEF IInv
<1>2. /\ \A t \in Settlements : Well(t)
      /\ \A h \in Hashes : PaidShowsUp(h)
  BY DEF WInv
<1>3. ASSUME NEW h \in Hashes, NEW st,
             invoice' = [invoice EXCEPT ![h] = [@ EXCEPT !.state = st]],
             \/ st = "paid" /\ now < invoice[h].ends
             \/ st = "recorded" /\ IsPaid(h)
             \/ st = "cancelled",
             UNCHANGED <<now, server, wallet, row, mint, watch>>
      PROVE  WInv'
  <2>1. \A g \in Hashes :
           /\ invoice'[g].ends = invoice[g].ends /\ invoice'[g].wallet = invoice[g].wallet
           /\ invoice'[g].state = IF g = h THEN st ELSE invoice[g].state
    BY <1>1, <1>3 DEF TypeOK, Invoice
  <2>2. \A g \in Hashes : IsPaid(g)' => IsPaid(g) \/ now < invoice[g].ends
    BY <1>3, <2>1 DEF IsPaid
  <2>3. \A s \in Settlements : Well(s)'
    BY <1>2, <1>3, <2>1, <2>2, InvoiceStepStaysWell
  <2>4. \A g \in Hashes : PaidShowsUp(g)'
    BY <1>1, <1>2, <1>3, <2>1 DEF PaidShowsUp
  <2>5. QED
    BY <2>3, <2>4 DEF WInv
<1>4. ASSUME NEW s \in Settlements, Pay(s) PROVE WInv'
  BY <1>3, <1>4 DEF Pay, IsPayable
<1>5. ASSUME NEW h \in Hashes, RecordPayment(h) \/ CancelInvoice(h) PROVE WInv'
  BY <1>3, <1>5 DEF RecordPayment, CancelInvoice, IsPaid
<1>6. CASE Tick
  <2>1. now' = now + 1 /\ Prompt /\ UNCHANGED <<server, wallet, row, mint, watch, invoice>>
    BY <1>6 DEF Tick
  <2>2. \A h \in Hashes : PaidShowsUp(h)'
    BY <2>1 DEF Prompt, PaidShowsUp
  <2>3. ASSUME NEW s \in Settlements PROVE Well(s)'
    <3>1. /\ RequestTimeout \in Nat /\ mint[s].reqAt \in Nat /\ watch[s].at \in Nat
          /\ row[s].quoteEnd \in Nat /\ row[s].createdAt \in Nat
      BY <1>1, TimeTypes
    <3>2. MintInTime(s)'
      BY <1>1, <1>2, <2>1, <3>1 DEF Prompt, Well, MintInTime
    <3>3. InvoiceAsRow(s)' /\ WatchAsRow(s)'
      BY <1>2, <2>1 DEF Well, InvoiceAsRow, WatchAsRow
    <3>4. AnswersInTime(s)'
      BY <1>1, <1>2, <2>1, <3>1 DEF Prompt, Well, AnswersInTime, IsPaid
    <3>5. row[s].status = "expired" => row[s].hash \in Hashes
      BY DEF IInv, HashMeansMinted
    <3>6. ExpiredIsOver(s)'
      BY <1>1, <1>2, <2>1, <3>5 DEF Well, ExpiredIsOver, WatchedToItsEnd, IsPaid
    <3>7. IsInProgress(s)' => IsInProgress(s)
      BY <1>1, <2>1, <3>1 DEF IsInProgress
    <3>8. StaysConnected(s)' /\ IsWatched(s)'
      BY <1>2, <2>1, <3>7 DEF Well, StaysConnected, IsWatched
    <3>9. QED
      BY <3>2, <3>3, <3>4, <3>6, <3>8 DEF Well
  <2>4. QED
    BY <2>2, <2>3 DEF WInv
<1>7. QED
  BY <1>4, <1>5, <1>6, World DEF World

LEMMA NextWInv == IInv /\ WInv /\ [Next]_vars => WInv'
<1> SUFFICES ASSUME IInv, WInv, [Next]_vars PROVE WInv'
  OBVIOUS
<1>1. CASE UNCHANGED vars
  <2>1. \A s \in Settlements : Well(s)'
    BY <1>1, UntouchedStaysWell DEF vars, WInv
  <2>2. QED
    BY <1>1, <2>1 DEF vars, WInv, PaidShowsUp
<1>2. QED
  BY <1>1, RequestKeepsWInv, MintingKeepsWInv, AskKeepsWInv, CheckKeepsWInv, CrashKeepsWInv,
     BootKeepsWInv, WorldKeepsWInv
  DEF Next

\* An open invoice is watched for as long as it can matter, and dies soon after
\* its quote; one closed as expired, after asking to its end, was never paid
\* and never will be: the grace outlasts the slowest answer about the latest
\* payment (GraceAssumption).
THEOREM WatchingIsSafe == Spec => []WatchedWell
<1>1. IInv /\ WInv => WatchedWell
  <2> SUFFICES ASSUME IInv, WInv PROVE WatchedWell
    OBVIOUS
  <2>1. \A s \in Settlements : Well(s)
    BY DEF WInv
  <2>2. ExpiredIsUnpaid
    BY <2>1 DEF ExpiredIsUnpaid, Well, ExpiredIsOver
  <2>3. OpenIsWatched
    BY <2>1 DEF OpenIsWatched, Well, IsWatched
  <2>4. ASSUME NEW s \in Settlements, row[s].via = "nwc", IsPayable(s)
        PROVE  now < row[s].quoteEnd + RequestTimeout
    BY <2>1, <2>4, TimeTypes DEF IInv, IsPayable, Well, InvoiceAsRow
  <2>5. QED
    BY <2>2, <2>3, <2>4 DEF WatchedWell, IInv, NwcDiesSoonAfterQuote
<1>2. QED
  BY <1>1, InitWInv, NextWInv, Inductive, PTL DEF Spec
=============================================================================
