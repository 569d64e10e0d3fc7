-------------------------- MODULE PrivateRun_proofs --------------------------
(***************************************************************************)
(* Theorems about PrivateRun, for any requests, workers, questions, work,   *)
(* prices and caps.                                                         *)
(*                                                                          *)
(* Purchases and actions are argued apart.  A purchase that could still be  *)
(* paid is reserved and has no transfer (PurchaseFacts): this is what makes *)
(* a retry safe.  An action is opened only when none is, but for an export  *)
(* of a cancelled run, and every other step leaves a receipt open at most   *)
(* where it was (OneOpen).                                                  *)
(*                                                                          *)
(* The charges (ChargesInv) are sums over calls and questions.  A charge is *)
(* at most what was held for it when the sum was checked, so an answer or a *)
(* reconciliation only lowers a sum; and a settlement freezes when nothing  *)
(* that could still change them is under way (FrozenStands).                *)
(*                                                                          *)
(* The journal (JournalInv) is written by one worker at a time, from the    *)
(* entries it holds: the owner of the open receipt.  A local operation that *)
(* was started belongs to its owner, and its receipt is not taken over; a   *)
(* takeover cuts the journal only after a model call.                       *)
(***************************************************************************)
EXTENDS PrivateRun, Sums_proofs, SequenceTheorems

Reasons == {"none", "closed", "unfunded", "invalid"} \cup Recoverables

ReceiptRow == [state : {"none", "processing", "uncertain", "complete", "failed"},
               owner : Workers \cup {NoWorker}, live : BOOLEAN, why : Reasons]
Costs == 0..ToolHold
ToolRow == [state : {"none", "approved", "reserved", "complete", "failed"},
            committed : Costs, rev : Nat, evidence : BOOLEAN,
            envelope : Answers \cup {"none", "lost"},
            step : {"none", "prepare", "pay", "answer"}]

\* Types of the variables the arguments are about.
TypesUsed ==
    /\ rev \in Nat
    /\ receipts \in [Requests -> ReceiptRow]
    /\ tools \in [Questions -> ToolRow]
    /\ transfer \in [Questions -> {"none", "received", "confirmed", "failed"}]

Open(r) == receipts[r].state \in {"processing", "uncertain"}
OneOpen ==
    \A r, s \in Requests :
      Open(r) /\ Open(s) => r = s \/ (cancelled /\ (r \in Exports \/ s \in Exports))

\* A row of a purchase that was not paid yet.
Unpaid(row) ==
    \/ row.step \in {"prepare", "pay"} \/ row.state \in {"none", "approved"}
    \/ row.state = "failed" /\ ~row.evidence /\ row.envelope = "none"

\* What the row of a purchase says of its payment.
PurchaseFacts(q) ==
    /\ tools[q].step \in {"prepare", "pay"} => tools[q].state = "reserved"
    /\ Unpaid(tools[q]) => transfer[q] = "none"
    /\ tools[q].state = "complete" /\ tools[q].committed > 0 =>
         tools[q].envelope \in Answers /\ transfer[q] = "confirmed"

IInv == TypesUsed /\ OneOpen /\ \A q \in Questions : PurchaseFacts(q)

-----------------------------------------------------------------------------
(* Purchases *)

\* What a purchase may commit.
LEMMA CostsAre ==
    /\ 0 \in Costs /\ ToolHold \in Costs /\ ToolPrice \in Costs /\ Costs \subseteq Nat
    /\ \A n \in Costs : n <= ToolHold
BY MoneyAssumption DEF Costs

LEMMA NoToolTyped == NoTool \in ToolRow
BY CostsAre DEF NoTool, ToolRow

\* A step on the purchase of one question leaves the others alone.
LEMMA PurchaseStep ==
    ASSUME IInv, NEW q \in Questions, NEW row \in ToolRow, NEW t \in {"none", "received",
             "confirmed", "failed"},
           Put(q, row), transfer' = [transfer EXCEPT ![q] = t], UNCHANGED <<rev, receipts, cancelled>>,
           row.step \in {"prepare", "pay"} => row.state = "reserved",
           Unpaid(row) => t = "none",
           row.state = "complete" /\ row.committed > 0 =>
             row.envelope \in Answers /\ t = "confirmed"
    PROVE  IInv'
<1>1. TypesUsed'
  BY DEF IInv, TypesUsed, Put
<1>2. OneOpen'
  BY DEF IInv, OneOpen, Open
<1>3. tools'[q] = row /\ transfer'[q] = t
  BY DEF IInv, TypesUsed, Put
<1>4. PurchaseFacts(q)'
  BY <1>3 DEF PurchaseFacts, Unpaid
<1>5. ASSUME NEW p \in Questions, p # q PROVE PurchaseFacts(p)'
  <2>1. tools'[p] = tools[p] /\ transfer'[p] = transfer[p]
    BY <1>5 DEF IInv, TypesUsed, Put
  <2>. QED BY <2>1 DEF IInv, PurchaseFacts
<1>. QED BY <1>1, <1>2, <1>4, <1>5 DEF IInv

\* The same where no transfer is made.
LEMMA RowStep ==
    ASSUME IInv, NEW q \in Questions, NEW row \in ToolRow,
           Put(q, row), UNCHANGED <<runVars, transfer>>,
           row.step \in {"prepare", "pay"} => row.state = "reserved",
           Unpaid(row) => transfer[q] = "none",
           row.state = "complete" /\ row.committed > 0 =>
             row.envelope \in Answers /\ transfer[q] = "confirmed"
    PROVE  IInv'
<1>1. transfer[q] \in {"none", "received", "confirmed", "failed"}
  BY DEF IInv, TypesUsed
<1>2. transfer' = [transfer EXCEPT ![q] = transfer[q]] /\ UNCHANGED <<rev, receipts, cancelled>>
  BY DEF IInv, TypesUsed, runVars, escrowVars
<1>. QED BY <1>1, <1>2, PurchaseStep

LEMMA ApproveHolds == ASSUME IInv, NEW q \in Questions, ApproveTool(q) PROVE IInv'
<1>. DEFINE row == [NoTool EXCEPT !.state = "approved", !.rev = rev]
<1>1. row \in ToolRow /\ row.state = "approved" /\ row.step = "none"
  BY CostsAre DEF IInv, TypesUsed, NoTool, ToolRow
<1>2. transfer[q] = "none"
  BY DEF IInv, PurchaseFacts, Unpaid, MayRun, ApproveTool
<1>3. Put(q, row) /\ UNCHANGED <<runVars, transfer>>
  BY DEF ApproveTool
<1>. QED BY <1>1, <1>2, <1>3, RowStep DEF Unpaid

LEMMA RunToolHolds == ASSUME IInv, NEW q \in Questions, RunTool(q) PROVE IInv'
<1>. DEFINE row == [tools[q] EXCEPT !.state = "reserved", !.committed = ToolHold,
                                    !.step = "prepare"]
<1>1. tools[q] \in ToolRow
  BY DEF IInv, TypesUsed
<1>2. row \in ToolRow /\ row.state = "reserved"
  BY <1>1, CostsAre DEF ToolRow
<1>3. transfer[q] = "none"
  BY DEF IInv, PurchaseFacts, Unpaid, MayRun, RunTool
<1>4. Put(q, row) /\ UNCHANGED <<runVars, transfer>>
  BY DEF RunTool
<1>. QED BY <1>2, <1>3, <1>4, RowStep DEF Unpaid

LEMMA SignHolds == ASSUME IInv, NEW q \in Questions, SignPayment(q) PROVE IInv'
<1>1. PICK evidence \in BOOLEAN : Put(q, [tools[q] EXCEPT !.step = "pay", !.evidence = evidence])
  BY DEF SignPayment
<1>. DEFINE row == [tools[q] EXCEPT !.step = "pay", !.evidence = evidence]
<1>2. tools[q] \in ToolRow
  BY DEF IInv, TypesUsed
<1>3. row \in ToolRow /\ row.state = tools[q].state
  BY <1>2 DEF ToolRow
<1>4. tools[q].state = "reserved" /\ transfer[q] = "none" /\ UNCHANGED <<runVars, transfer>>
  BY DEF IInv, PurchaseFacts, Unpaid, MayRun, SignPayment
<1>. QED BY <1>1, <1>3, <1>4, RowStep DEF Unpaid

LEMMA NotSentHolds == ASSUME IInv, NEW q \in Questions, ToolNotSent(q) PROVE IInv'
<1>1. PICK evidence \in BOOLEAN :
        Put(q, [tools[q] EXCEPT !.state = "failed", !.committed = 0, !.step = "none",
                                !.evidence = evidence])
  BY DEF ToolNotSent
<1>. DEFINE row == [tools[q] EXCEPT !.state = "failed", !.committed = 0, !.step = "none",
                                    !.evidence = evidence]
<1>2. tools[q] \in ToolRow
  BY DEF IInv, TypesUsed
<1>3. row \in ToolRow /\ row.state = "failed" /\ row.step = "none"
  BY <1>2, CostsAre DEF ToolRow
<1>4. transfer[q] = "none" /\ UNCHANGED <<runVars, transfer>>
  BY DEF IInv, PurchaseFacts, Unpaid, MayRun, ToolNotSent
<1>. QED BY <1>1, <1>3, <1>4, RowStep DEF Unpaid

\* The payment: its row is reserved, whatever the seller answers.
LEMMA PaidHolds == ASSUME IInv, NEW q \in Questions, SellerPaid(q) PROVE IInv'
<1>1. PICK step \in {"answer", "none"} : Put(q, [tools[q] EXCEPT !.step = step])
  BY DEF SellerPaid
<1>. DEFINE row == [tools[q] EXCEPT !.step = step]
            t == IF tools[q].evidence THEN "received" ELSE "confirmed"
<1>2. tools[q] \in ToolRow
  BY DEF IInv, TypesUsed
<1>3. row \in ToolRow /\ row.state = tools[q].state /\ row.step = step
  BY <1>2 DEF ToolRow
<1>4. tools[q].state = "reserved"
  BY DEF IInv, PurchaseFacts, SellerPaid
<1>5. /\ transfer' = [transfer EXCEPT ![q] = t] /\ UNCHANGED <<rev, receipts, cancelled>>
      /\ t \in {"none", "received", "confirmed", "failed"}
  BY DEF SellerPaid, runVars, escrowVars
<1>. HIDE DEF t
<1>. QED BY <1>1, <1>3, <1>4, <1>5, PurchaseStep DEF Unpaid

LEMMA LostHolds == ASSUME IInv, NEW q \in Questions, ToolLost(q) PROVE IInv'
<1>. DEFINE row == [tools[q] EXCEPT !.step = "none"]
<1>1. tools[q] \in ToolRow
  BY DEF IInv, TypesUsed
<1>2. row \in ToolRow /\ row.state = tools[q].state /\ row.step = "none"
  BY <1>1 DEF ToolRow
<1>3. tools[q].state = "reserved"
  BY DEF IInv, PurchaseFacts, ToolLost
<1>4. Put(q, row) /\ UNCHANGED <<runVars, transfer>>
  BY DEF ToolLost
<1>. QED BY <1>2, <1>3, <1>4, RowStep DEF Unpaid

LEMMA AnsweredHolds == ASSUME IInv, NEW q \in Questions, ToolAnswered(q) PROVE IInv'
<1>1. tools[q] \in ToolRow /\ UNCHANGED <<runVars, transfer>>
  BY DEF IInv, TypesUsed, ToolAnswered
<1>2. CASE Put(q, [tools[q] EXCEPT !.step = "none"])
  <2>. DEFINE row == [tools[q] EXCEPT !.step = "none"]
  <2>1. /\ row \in ToolRow /\ row.state = tools[q].state /\ row.step = "none"
        /\ row.committed = tools[q].committed /\ row.envelope = tools[q].envelope
        /\ row.evidence = tools[q].evidence
    BY <1>1 DEF ToolRow
  <2>2. Unpaid(row) => transfer[q] = "none"
    BY <2>1 DEF IInv, PurchaseFacts, Unpaid
  <2>3. row.state = "complete" /\ row.committed > 0 =>
          row.envelope \in Answers /\ transfer[q] = "confirmed"
    BY <2>1 DEF IInv, PurchaseFacts
  <2>. HIDE DEF row
  <2>4. Put(q, row)
    BY <1>2 DEF row
  <2>. QED BY <1>1, <2>1, <2>2, <2>3, <2>4, RowStep
<1>3. CASE ~(Closed \/ tools[q].state # "reserved")
  <2>1. PICK pending \in BOOLEAN, answer \in Answers :
          /\ ~pending /\ tools[q].step = "answer" => transfer[q] = "confirmed"
          /\ Put(q, [tools[q] EXCEPT
                       !.step = "none", !.envelope = answer,
                       !.state = IF pending THEN "reserved" ELSE "complete",
                       !.committed = IF pending THEN @
                                     ELSE IF tools[q].step = "answer" THEN PriceOf(q) ELSE 0])
    BY <1>3 DEF ToolAnswered
  <2>. DEFINE cost == IF pending THEN tools[q].committed
                      ELSE IF tools[q].step = "answer" THEN PriceOf(q) ELSE 0
              row == [tools[q] EXCEPT !.step = "none", !.envelope = answer,
                        !.state = IF pending THEN "reserved" ELSE "complete",
                        !.committed = cost]
  <2>2. cost \in Costs /\ tools[q].committed \in Costs
    BY <1>1, CostsAre DEF ToolRow, PriceOf
  <2>3. ~pending /\ cost > 0 => transfer[q] = "confirmed"
    BY <2>1
  <2>4. Put(q, row)
    BY <2>1
  <2>. HIDE DEF cost
  <2>5. /\ row \in ToolRow /\ row.step = "none" /\ row.envelope = answer
        /\ row.state = IF pending THEN "reserved" ELSE "complete"
        /\ row.committed = cost
    BY <1>1, <2>2 DEF ToolRow
  <2>. HIDE DEF row
  <2>. QED BY <1>1, <2>3, <2>4, <2>5, RowStep DEF Unpaid
<1>. QED BY <1>2, <1>3 DEF ToolAnswered

LEMMA CircleHolds == ASSUME IInv, NEW q \in Questions, CircleDecides(q) PROVE IInv'
<1>1. PICK result \in {"confirmed", "failed"} : transfer' = [transfer EXCEPT ![q] = result]
  BY DEF CircleDecides
<1>2. UNCHANGED <<rev, receipts, tools, cancelled>> /\ transfer[q] = "received"
  BY DEF CircleDecides, runVars, escrowVars
<1>3. TypesUsed' /\ OneOpen'
  BY <1>1, <1>2 DEF IInv, TypesUsed, OneOpen, Open
<1>4. ASSUME NEW p \in Questions PROVE PurchaseFacts(p)'
  BY <1>1, <1>2 DEF IInv, TypesUsed, PurchaseFacts
<1>. QED BY <1>3, <1>4 DEF IInv

LEMMA ReconcileHolds == ASSUME IInv, NEW q \in Questions, ReconcileTool(q) PROVE IInv'
<1>. DEFINE env == IF transfer[q] = "confirmed" /\ tools[q].envelope = "none" THEN "lost"
                   ELSE tools[q].envelope
            row == [tools[q] EXCEPT
                      !.state = IF transfer[q] = "failed" THEN "failed" ELSE "complete",
                      !.committed = ReconciledCost(q), !.envelope = env]
<1>1. /\ tools[q] \in ToolRow /\ UNCHANGED <<runVars, transfer>> /\ tools[q].evidence
      /\ transfer[q] \in {"confirmed", "failed"}
  BY DEF IInv, TypesUsed, ReconcileTool
<1>2. tools[q].step \notin {"prepare", "pay"}
  BY <1>1 DEF IInv, PurchaseFacts, Unpaid
<1>3. /\ ReconciledCost(q) \in Costs
      /\ ReconciledCost(q) > 0 => transfer[q] = "confirmed" /\ tools[q].envelope \in Answers
  BY CostsAre DEF ReconciledCost
<1>4. Put(q, row)
  BY DEF ReconcileTool
<1>5. env \in Answers \cup {"none", "lost"}
  BY <1>1 DEF ToolRow
<1>6. /\ row \in ToolRow /\ row.step = tools[q].step /\ row.evidence = tools[q].evidence
      /\ row.state = (IF transfer[q] = "failed" THEN "failed" ELSE "complete")
      /\ row.committed = ReconciledCost(q) /\ row.envelope = env
  BY <1>1, <1>3, <1>5 DEF ToolRow
<1>. HIDE DEF row
<1>7. row.state = "complete" /\ row.committed > 0 =>
        row.envelope \in Answers /\ transfer[q] = "confirmed"
  BY <1>3, <1>6 DEF Answers
<1>. QED BY <1>1, <1>2, <1>4, <1>6, <1>7, RowStep DEF Unpaid

-----------------------------------------------------------------------------
(* Actions *)

\* Steps that touch no purchase, and open no receipt.
LEMMA OpensNone ==
    ASSUME IInv, UNCHANGED toolVars, rev' \in Nat, receipts' \in [Requests -> ReceiptRow],
           cancelled => cancelled',
           \A r \in Requests : Open(r)' => Open(r)
    PROVE  IInv'
BY DEF IInv, TypesUsed, toolVars, OneOpen, PurchaseFacts

\* A lease is renewed.
LEMMA Renewed ==
    ASSUME IInv, NEW r, NEW live \in BOOLEAN, receipts' = [receipts EXCEPT ![r].live = live]
    PROVE  receipts' \in [Requests -> ReceiptRow] /\ \A s \in Requests : Open(s)' => Open(s)
BY DEF IInv, TypesUsed, ReceiptRow, Open

\* A worker gives up.
LEMMA FailsOpensNone ==
    ASSUME IInv, NEW w \in Workers, NEW why \in Reasons, Fails(w, why)
    PROVE  /\ receipts' \in [Requests -> ReceiptRow] /\ rev' \in Nat
           /\ \A s \in Requests : Open(s)' => Open(s)
<1>. DEFINE r == workers[w].req
            mine == receipts[r].state = "processing" /\ receipts[r].owner = w
<1>1. rev' \in Nat
  BY DEF IInv, TypesUsed, Fails
<1>2. CASE ~mine
  BY <1>2 DEF IInv, TypesUsed, Fails, Open
<1>3. CASE mine
  <2>1. PICK state \in {"failed", "uncertain"} :
          receipts' = [receipts EXCEPT ![r].state = state, ![r].why = why]
    BY <1>3 DEF Fails
  <2>2. \A s \in Requests : receipts[s] \in ReceiptRow
    BY DEF IInv, TypesUsed
  <2>3. \A s \in Requests \ {r} : receipts'[s] = receipts[s]
    BY <2>1 DEF IInv, TypesUsed
  <2>4. r \in Requests => receipts'[r] = [receipts[r] EXCEPT !.state = state, !.why = why]
    BY <2>1 DEF IInv, TypesUsed
  <2>5. receipts' = [s \in Requests |-> receipts'[s]]
    BY <2>1 DEF IInv, TypesUsed
  <2>. HIDE DEF r
  <2>6. ASSUME NEW s \in Requests PROVE receipts'[s] \in ReceiptRow
    <3>1. CASE s # r
      BY <2>2, <2>3, <3>1
    <3>2. CASE s = r
      <4>1. why \in Reasons /\ state \in {"failed", "uncertain"} /\ receipts[s] \in ReceiptRow
        BY <2>2
      <4>. QED BY <2>4, <3>2, <4>1 DEF ReceiptRow
    <3>. QED BY <3>1, <3>2
  <2>7. \A s \in Requests : Open(s)' => Open(s)
    BY <1>3, <2>3 DEF Open
  <2>. QED BY <1>1, <2>5, <2>6, <2>7
<1>. QED BY <1>1, <1>2, <1>3

\* A receipt is taken by a worker: a new one while none is open, an open one, or an
\* export of a cancelled run.
LEMMA TakenHolds ==
    ASSUME IInv, NEW w \in Workers, NEW r, UNCHANGED <<rev, cancelled, toolVars>>,
           r \in Requests => OpenReceipts = {} \/ Open(r) \/ (cancelled /\ r \in Exports),
           receipts' = [receipts EXCEPT ![r] =
                          [NoReceipt EXCEPT !.state = "processing", !.owner = w, !.live = TRUE]]
    PROVE  IInv'
<1>. DEFINE row == [NoReceipt EXCEPT !.state = "processing", !.owner = w, !.live = TRUE]
<1>1. row \in ReceiptRow
  BY DEF NoReceipt, ReceiptRow, Reasons
<1>. HIDE DEF row
<1>2. receipts' = [receipts EXCEPT ![r] = row]
  BY DEF row
<1>3. TypesUsed'
  BY <1>1, <1>2 DEF IInv, TypesUsed, toolVars
<1>4. OneOpen'
  BY <1>2 DEF IInv, TypesUsed, OneOpen, Open, OpenReceipts
<1>5. \A q \in Questions : PurchaseFacts(q)'
  BY DEF IInv, PurchaseFacts, toolVars
<1>. QED BY <1>3, <1>4, <1>5 DEF IInv

LEMMA ClaimsHold == ASSUME IInv, NEW w \in Workers, Claims(w) PROVE IInv'
<1>1. ASSUME NEW r \in Requests, Load(w, r) \/ LoadEnd(w, r) \/ LoadExport(w, r) PROVE IInv'
  BY <1>1, OpensNone DEF Load, LoadEnd, LoadExport, moneyVars, escrowVars, IInv, TypesUsed, Open,
     toolVars
<1>2. ASSUME NEW r \in Requests, Recover(w, r) PROVE IInv'
  <2>1. UNCHANGED <<rev, cancelled, toolVars>>
    BY <1>2 DEF Recover, moneyOnly, escrowVars
  <2>2. Open(r)
    BY <1>2 DEF Recover, OpenReceipts, Open
  <2>3. receipts' = [receipts EXCEPT ![r] =
                       [NoReceipt EXCEPT !.state = "processing", !.owner = w, !.live = TRUE]]
    BY <1>2 DEF Recover
  <2>. QED BY <2>1, <2>2, <2>3, TakenHolds
<1>. QED BY <1>1, <1>2 DEF Claims

LEMMA ClaimHolds == ASSUME IInv, NEW w \in Workers, Claim(w) PROVE IInv'
<1>1. UNCHANGED <<rev, cancelled, toolVars>>
  BY DEF Claim, moneyOnly, escrowVars
<1>2. CASE MayClaim(w)
  <2>. DEFINE r == workers[w].req
  <2>1. OpenReceipts = {} \/ (cancelled /\ r \in Exports)
    BY <1>2 DEF MayClaim
  <2>2. receipts' = [receipts EXCEPT ![r] =
                       [NoReceipt EXCEPT !.state = "processing", !.owner = w, !.live = TRUE]]
    BY <1>2 DEF Claim
  <2>. HIDE DEF r
  <2>. QED BY <1>1, <2>1, <2>2, TakenHolds
<1>3. CASE ~MayClaim(w)
  BY <1>1, <1>3, OpensNone DEF Claim, IInv, TypesUsed, Open
<1>. QED BY <1>2, <1>3

\* The steps that save or renew.
LEMMA SavesHold ==
    ASSUME IInv, NEW w \in Workers, Heartbeat(w) \/ Stop(w) \/ Start(w) \/ SaveResult(w)
    PROVE  IInv'
<1>1. receipts' = [receipts EXCEPT ![workers[w].req].live = TRUE]
  BY DEF Heartbeat, Stop, Start, SaveResult, Saves
<1>2. UNCHANGED <<rev, cancelled, toolVars>>
  BY DEF Heartbeat, Stop, Start, SaveResult, moneyOnly, escrowVars
<1>. QED BY <1>1, <1>2, Renewed, OpensNone DEF IInv, TypesUsed

\* The steps that may give the action up.
LEMMA GivesUpHold ==
    ASSUME IInv, NEW w \in Workers,
           AdmitFails(w) \/ RespondLimited(w) \/ RespondLost(w) \/ Pop(w) \/ FencedOut(w) \/ GiveUp(w)
    PROVE  IInv'
<1>1. UNCHANGED <<toolVars, cancelled>>
  BY DEF AdmitFails, RespondLimited, RespondLost, Pop, FencedOut, GiveUp, escrowVars
<1>2. \/ \E why \in Reasons : Fails(w, why)
      \/ UNCHANGED <<receipts, runStatus, rev>>
  BY DEF AdmitFails, RespondLimited, RespondLost, Pop, FencedOut, GiveUp, Reasons, Recoverables
<1>. QED BY <1>1, <1>2, FailsOpensNone, OpensNone DEF IInv, TypesUsed, Open

LEMMA CommitHolds == ASSUME IInv, NEW w \in Workers, Commit(w) PROVE IInv'
<1>. DEFINE row == [NoReceipt EXCEPT !.state = "complete"]
<1>1. row \in ReceiptRow /\ row.state = "complete"
  BY DEF NoReceipt, ReceiptRow, Reasons
<1>2. /\ receipts' = [receipts EXCEPT ![workers[w].req] = row] /\ rev' = rev + 1
      /\ UNCHANGED <<toolVars, cancelled>>
  BY DEF Commit, escrowVars
<1>. HIDE DEF row
<1>3. receipts' \in [Requests -> ReceiptRow]
  <2>1. receipts \in [Requests -> ReceiptRow]
    BY DEF IInv, TypesUsed
  <2>. QED BY <1>1, <1>2, <2>1
<1>4. rev' \in Nat
  BY <1>2 DEF IInv, TypesUsed
<1>5. \A s \in Requests : Open(s)' => Open(s)
  BY <1>1, <1>2 DEF IInv, TypesUsed, Open
<1>. QED BY <1>2, <1>3, <1>4, <1>5, OpensNone

\* The steps of a worker that concern neither receipts nor purchases.
LEMMA OtherWorkHolds ==
    ASSUME IInv, NEW w \in Workers,
           \/ PerformLocal(w) \/ Admit(w) \/ AdmitRefused(w) \/ Respond(w)
           \/ RespondNotSent(w) \/ Die(w)
    PROVE  IInv'
<1>1. UNCHANGED <<rev, cancelled, toolVars, receipts>>
  BY DEF PerformLocal, Admit, AdmitRefused, Respond, RespondNotSent, Die, moneyVars, moneyOnly,
         escrowVars
<1>. QED BY <1>1, OpensNone DEF IInv, TypesUsed, Open

LEMMA EscrowHolds == ASSUME IInv, Escrow PROVE IInv'
<1>1. UNCHANGED <<rev, toolVars, receipts>>
  BY DEF Escrow, Register, FundJob, RecordDeposit, Freeze, Cancel, Split, RecordSplit
<1>2. cancelled' = cancelled \/ cancelled' = TRUE
  BY DEF Escrow, Register, FundJob, RecordDeposit, Freeze, Cancel, Split, RecordSplit
<1>3. cancelled => cancelled'
  BY <1>2, Zenon
<1>. QED BY <1>1, <1>3, OpensNone DEF IInv, TypesUsed, Open

-----------------------------------------------------------------------------
(* The invariant *)

LEMMA PrivateInitHolds == PrivateInit => IInv
<1>. SUFFICES ASSUME PrivateInit PROVE IInv
  OBVIOUS
<1>1. NoReceipt \in ReceiptRow /\ NoReceipt.state = "none"
  BY DEF NoReceipt, ReceiptRow, Reasons
<1>2. TypesUsed
  BY <1>1, NoToolTyped DEF PrivateInit, MoneyInit, TypesUsed
<1>3. OneOpen
  BY <1>1 DEF PrivateInit, MoneyInit, OneOpen, Open
<1>4. \A q \in Questions : PurchaseFacts(q)
  BY DEF PrivateInit, MoneyInit, PurchaseFacts, NoTool
<1>. QED BY <1>2, <1>3, <1>4 DEF IInv

LEMMA PurchaseHolds ==
    ASSUME IInv, NEW q \in Questions, Approves(q) \/ Purchase(q) PROVE IInv'
BY ApproveHolds, RunToolHolds, SignHolds, NotSentHolds, PaidHolds, LostHolds, AnsweredHolds,
   CircleHolds, ReconcileHolds DEF Approves, Purchase

LEMMA WorksHold == ASSUME IInv, NEW w \in Workers, Works(w) PROVE IInv'
BY ClaimHolds, SavesHold, GivesUpHold, CommitHolds, OtherWorkHolds DEF Works

\* Every step preserves the invariant.
LEMMA PrivateStepHolds == IInv /\ [PrivateNext]_privateVars => IInv'
<1>. SUFFICES ASSUME IInv, [PrivateNext]_privateVars PROVE IInv'
  OBVIOUS
<1>1. CASE UNCHANGED privateVars \/ Deploy
  BY <1>1, OpensNone DEF privateVars, moneyVars, escrowVars, Deploy, IInv, TypesUsed, Open
<1>2. ASSUME NEW r \in Requests, LeaseExpires(r) PROVE IInv'
  BY <1>2, Renewed, OpensNone DEF LeaseExpires, moneyOnly, escrowVars, IInv, TypesUsed
<1>3. ASSUME NEW w \in Workers, Claims(w) \/ Works(w) PROVE IInv'
  BY <1>3, ClaimsHold, WorksHold
<1>. QED BY <1>1, <1>2, <1>3, EscrowHolds, PurchaseHolds DEF PrivateNext

\* The invariant holds in every reachable state.
THEOREM PrivateInvariant == PrivateSpec => []IInv
<1>. QED BY PrivateInitHolds, PrivateStepHolds, PTL DEF PrivateSpec

-----------------------------------------------------------------------------
(* The state of a run.  What a worker remembers stays true while others     *)
(* work, because revisions only grow and calls are never removed.           *)

Marks == {"started", "complete", "waiting"}
Covered == [lost : Nat, limited : Nat]
CallCosts == 0..CallHold
CallRow == [req : Requests, at : DOMAIN Work, hold : CallCosts, committed : CallCosts,
            status : {"reserved", "verified", "notSent", "rejectedHeld", "uncertainHeld"},
            payer : {"customer", "platform"}, refused : BOOLEAN]
JournalRow == [entries : Seq(Marks), req : Requests \cup {NoRequest}, rev : Nat, covered : Covered]
WorkerRow == [pc : {"idle", "loaded", "run", "started", "waiting", "answered", "pop", "commit"},
              req : Requests \cup {NoRequest}, rev : Nat, entries : Seq(Marks), covered : Covered,
              rail : {1, 2}, call : Nat, out : {"none", "paused", "awaiting", "complete", "ended", "export"}]

MoneyOK ==
    /\ runStatus \in {"planned", "paused", "awaiting", "complete", "ended", "failed"}
    /\ rev \in Nat \ {0} /\ cancelled \in BOOLEAN /\ registered \in BOOLEAN /\ settled \in BOOLEAN
    /\ onChain \in {"open", "funded", "split"} /\ deposit \in {0, Deposit}
    /\ frozen \in [spent : 0..Deposit, held : {0, Deposit}] \cup {NoFreeze}

\* A worker in the middle of an operation: its last entry is that operation, started.
Busy(m) == m.pc \in {"started", "waiting", "answered", "pop"}

\* What the memory of a worker says of where it is.
Remembers(m) ==
    /\ Len(m.entries) <= Len(Work) /\ m.rev <= rev
    /\ m.pc # "idle" => m.req \in Requests /\ (m.out = "export" <=> m.req \in Exports)
    /\ m.pc \notin {"loaded", "commit"} => m.out = "none"
    /\ m.pc = "loaded" => m.out = "none" \/ m.out \in Unjournalled
    /\ m.pc = "commit" => m.out # "none"
    /\ Busy(m) => Len(m.entries) > 0 /\ m.entries[Len(m.entries)] = "started"
    /\ m.pc \in {"waiting", "pop"} => Work[Len(m.entries)] = "infer"
    /\ m.pc = "waiting" => m.call \in 1..Len(calls)

WorkersOK == workers \in [Workers -> WorkerRow] /\ \A w \in Workers : Remembers(workers[w])
JournalOK ==
    /\ journal \in JournalRow /\ Len(journal.entries) <= Len(Work)
    /\ performed \in [DOMAIN Work -> Nat]

StateOK == MoneyOK /\ calls \in Seq(CallRow) /\ WorkersOK /\ JournalOK /\ hosted \in BOOLEAN

\* The kinds of the operations.
LEMMA WorkIs ==
    /\ Len(Work) \in Nat \ {0} /\ DOMAIN Work = 1..Len(Work)
    /\ \A i \in 1..Len(Work) : Work[i] \in {"infer", "local", "ask"}
    /\ Questions \subseteq 1..Len(Work) /\ \A q \in Questions : Work[q] = "ask"
    /\ \A i \in 1..Len(Work) : i \notin Questions => Work[i] # "ask"
BY WorkAssumption

\* An entry is added to a journal, or the last one is taken out.
LEMMA Added ==
    ASSUME NEW S, NEW s \in Seq(S), NEW x \in S
    PROVE  /\ Append(s, x) \in Seq(S) /\ Len(Append(s, x)) = Len(s) + 1
           /\ \A i \in 1..Len(s) : Append(s, x)[i] = s[i]
           /\ Append(s, x)[Len(s) + 1] = x
OBVIOUS

LEMMA Dropped ==
    ASSUME NEW S, NEW s \in Seq(S), Len(s) > 0
    PROVE  /\ Front(s) \in Seq(S) /\ Len(Front(s)) = Len(s) - 1
           /\ \A i \in 1..Len(s) - 1 : Front(s)[i] = s[i]
<1>. DEFINE n == Len(s) - 1
<1>1. 1 \in Int /\ n \in Int /\ n \in Nat /\ \A i \in 1..n : s[i] \in S
  OBVIOUS
<1>. HIDE DEF n
<1>2. /\ SubSeq(s, 1, n) \in Seq(S)
      /\ Len(SubSeq(s, 1, n)) = IF 1 <= n THEN n - 1 + 1 ELSE 0
      /\ \A i \in 1..n - 1 + 1 : SubSeq(s, 1, n)[i] = s[1 + i - 1]
  BY <1>1, SubSeqProperties
<1>3. /\ Len(SubSeq(s, 1, n)) = n
      /\ \A i \in 1..n : SubSeq(s, 1, n)[i] = s[i]
  BY <1>1, <1>2
<1>. QED BY <1>2, <1>3 DEF Front, n

\* The last entry of a journal is finished.
LEMMA Finished ==
    ASSUME NEW s \in Seq(Marks), Len(s) > 0
    PROVE  LET t == Append(Front(s), "complete") IN
           /\ t \in Seq(Marks) /\ Len(t) = Len(s) /\ t[Len(t)] = "complete"
           /\ \A i \in 1..Len(s) - 1 : t[i] = s[i]
<1>. DEFINE f == Front(s)
<1>1. f \in Seq(Marks) /\ Len(f) = Len(s) - 1 /\ \A i \in 1..Len(s) - 1 : f[i] = s[i]
  BY Dropped
<1>2. "complete" \in Marks
  BY DEF Marks
<1>. HIDE DEF f
<1>3. /\ Append(f, "complete") \in Seq(Marks) /\ Len(Append(f, "complete")) = Len(f) + 1
      /\ \A i \in 1..Len(f) : Append(f, "complete")[i] = f[i]
      /\ Append(f, "complete")[Len(f) + 1] = "complete"
  BY <1>1, <1>2, Added
<1>4. Len(f) + 1 = Len(s)
  BY <1>1
<1>. QED BY <1>1, <1>3, <1>4 DEF f

\* What an action goes on with: every entry answered.
LEMMA AllComplete ==
    ASSUME NEW s \in Seq(Marks)
    PROVE  LET t == [i \in DOMAIN s |-> "complete"] IN
           t \in Seq(Marks) /\ Len(t) = Len(s) /\ \A i \in 1..Len(s) : t[i] = "complete"
<1>1. DOMAIN s = 1..Len(s) /\ Len(s) \in Nat
  OBVIOUS
<1>. QED BY <1>1 DEF Marks

LEMMA RestingIs ==
    ASSUME rev \in Nat
    PROVE  /\ Resting \in WorkerRow /\ Remembers(Resting) /\ Resting.pc = "idle"
           /\ Resting.entries = <<>> /\ Resting.out = "none"
<1>1. <<>> \in Seq(Marks) /\ Len(<<>>) = 0
  BY EmptySeq
<1>2. Resting \in WorkerRow
  BY <1>1 DEF Resting, WorkerRow, Covered, NotCovered
<1>. QED BY <1>1, <1>2, WorkIs DEF Resting, Remembers, Busy

\* One worker remembers something else.
LEMMA WorkersStep ==
    ASSUME StateOK, rev' \in Nat, rev <= rev', calls' \in Seq(CallRow), Len(calls) <= Len(calls'),
           NEW w \in Workers, NEW m \in WorkerRow, Change(w, m), Remembers(m)'
    PROVE  WorkersOK'
<1>1. workers' = [workers EXCEPT ![w] = m] /\ workers \in [Workers -> WorkerRow]
  BY DEF StateOK, WorkersOK, Change
<1>2. workers' \in [Workers -> WorkerRow] /\ workers'[w] = m
  BY <1>1
<1>3. ASSUME NEW v \in Workers PROVE Remembers(workers[v])'
  <2>1. CASE v = w
    <3>1. workers'[v] = m
      BY <1>2, <2>1
    <3>. QED BY <3>1 DEF Remembers
  <2>2. CASE v # w
    <3>1. workers'[v] = workers[v]
      BY <1>1, <2>2
    <3>2. Remembers(workers[v]) /\ workers[v] \in WorkerRow /\ rev \in Nat
      BY DEF StateOK, WorkersOK, MoneyOK
    <3>3. workers[v].rev \in Nat /\ Len(calls) \in Nat /\ Len(calls') \in Nat
      BY <3>2 DEF WorkerRow, StateOK
    <3>. QED BY <3>1, <3>2, <3>3 DEF Remembers
  <2>. QED BY <2>1, <2>2
<1>. QED BY <1>2, <1>3 DEF WorkersOK

LEMMA WorkersSame ==
    ASSUME StateOK, rev' = rev, calls' = calls, workers' = workers PROVE WorkersOK'
BY DEF StateOK, WorkersOK, Remembers

\* The memory of a worker, and what it holds when it is its turn.
LEMMA MemoryOf ==
    ASSUME StateOK, NEW w \in Workers
    PROVE  /\ workers[w] \in WorkerRow /\ Remembers(workers[w])
           /\ workers[w].entries \in Seq(Marks) /\ Len(workers[w].entries) \in Nat
           /\ workers[w].rev \in Nat /\ workers[w].call \in Nat
<1>1. workers[w] \in WorkerRow /\ Remembers(workers[w])
  BY DEF StateOK, WorkersOK
<1>2. workers[w].entries \in Seq(Marks) /\ workers[w].rev \in Nat /\ workers[w].call \in Nat
  BY <1>1 DEF WorkerRow
<1>. QED BY <1>1, <1>2

-----------------------------------------------------------------------------
(* The ledger, as a function of its rows *)

Charge(c) == [i \in DOMAIN c |-> c[i].committed]
Paid(c) == {i \in DOMAIN c : c[i].payer = "customer"}
Toll(t) == [q \in Questions |-> t[q].committed]

\* Both limits, of these calls and purchases under this deposit.
Within(c, t, d) ==
    /\ Total(Charge(c), Paid(c)) + Total(Toll(t), Questions) <= d
    /\ Total(Charge(c), DOMAIN c) <= MonthCap

LEMMA LimitsAre == SpendWithinLimits <=> Within(calls, tools, deposit)
BY DEF SpendWithinLimits, SpendWithinDeposit, MonthWithinCap, Within, SumCalls, SumTools,
       CustomerCalls, Charge, Paid, Toll

LEMMA QuestionsFinite == IsFiniteSet(Questions)
<1>1. IsFiniteSet(1..Len(Work)) /\ Questions \in SUBSET (1..Len(Work))
  BY WorkIs, FS_Interval
<1>. QED BY <1>1, FS_Subset

\* What calls cost together is a number, and so is what purchases cost.
LEMMA CallsCount ==
    ASSUME NEW c \in Seq(CallRow), NEW S \in SUBSET DOMAIN c
    PROVE  /\ IsFiniteSet(S) /\ \A i \in S : Charge(c)[i] \in Nat
           /\ IntOn(Charge(c), S) /\ Total(Charge(c), S) \in Nat
<1>1. IsFiniteSet(1..Len(c)) /\ DOMAIN c = 1..Len(c)
  BY FS_Interval
<1>2. IsFiniteSet(S)
  BY <1>1, FS_Subset
<1>3. \A i \in S : c[i] \in CallRow
  BY <1>1
<1>4. \A i \in S : Charge(c)[i] = c[i].committed /\ c[i].committed \in CallCosts
  BY <1>3 DEF Charge, CallRow
<1>5. \A i \in S : Charge(c)[i] \in Nat
  BY <1>4 DEF CallCosts
<1>6. Total(Charge(c), S) \in Nat
  BY <1>2, <1>5, TotalNat
<1>. QED BY <1>2, <1>5, <1>6 DEF IntOn

LEMMA ToolsCount ==
    ASSUME NEW t \in [Questions -> ToolRow], NEW S \in SUBSET Questions
    PROVE  /\ IsFiniteSet(S) /\ \A q \in S : Toll(t)[q] \in Nat
           /\ IntOn(Toll(t), S) /\ Total(Toll(t), S) \in Nat
<1>1. IsFiniteSet(S)
  BY QuestionsFinite, FS_Subset
<1>2. \A q \in S : Toll(t)[q] = t[q].committed /\ t[q].committed \in Costs
  BY DEF Toll, ToolRow
<1>3. \A q \in S : Toll(t)[q] \in Nat
  BY <1>2, CostsAre
<1>4. Total(Toll(t), S) \in Nat
  BY <1>1, <1>3, TotalNat
<1>. QED BY <1>1, <1>3, <1>4 DEF IntOn

\* Calls that cost less, fewer of them, cost less together.
LEMMA CallsShrink ==
    ASSUME NEW c \in Seq(CallRow), NEW d \in Seq(CallRow), DOMAIN d = DOMAIN c,
           \A i \in DOMAIN c : d[i].committed <= c[i].committed,
           NEW T \in SUBSET DOMAIN c, NEW S \in SUBSET T
    PROVE  Total(Charge(d), S) <= Total(Charge(c), T)
<1>1. S \in SUBSET DOMAIN c /\ S \in SUBSET DOMAIN d
  OBVIOUS
<1>2. IsFiniteSet(S) /\ IntOn(Charge(d), S) /\ Total(Charge(d), S) \in Nat
  BY <1>1, CallsCount
<1>3. IntOn(Charge(c), S) /\ Total(Charge(c), S) \in Nat
  BY <1>1, CallsCount
<1>4. \A i \in S : Charge(d)[i] <= Charge(c)[i]
  BY <1>1 DEF Charge
<1>5. Total(Charge(d), S) <= Total(Charge(c), S)
  BY <1>2, <1>3, <1>4, TotalMonotone
<1>6. IsFiniteSet(T) /\ (\A i \in T : Charge(c)[i] \in Nat) /\ Total(Charge(c), T) \in Nat
  BY CallsCount
<1>7. Total(Charge(c), S) <= Total(Charge(c), T)
  BY <1>6, TotalSubset
<1>. QED BY <1>2, <1>3, <1>5, <1>6, <1>7

\* One more call adds its cost.
LEMMA CallsGrow ==
    ASSUME NEW c \in Seq(CallRow), NEW row \in CallRow, NEW d, d = Append(c, row),
           row.payer = "customer"
    PROVE  /\ Total(Charge(d), DOMAIN d) = row.committed + Total(Charge(c), DOMAIN c)
           /\ Total(Charge(d), Paid(d)) = row.committed + Total(Charge(c), Paid(c))
<1>. DEFINE x == Len(c) + 1
<1>1. /\ d \in Seq(CallRow) /\ DOMAIN c = 1..Len(c) /\ DOMAIN d = DOMAIN c \cup {x}
      /\ x \notin DOMAIN c /\ d[x] = row /\ \A i \in DOMAIN c : d[i] = c[i]
  OBVIOUS
<1>. HIDE DEF x
<1>2. Paid(d) = Paid(c) \cup {x} /\ x \notin Paid(c)
  BY <1>1 DEF Paid
<1>3. ASSUME NEW S \in SUBSET DOMAIN c, S \cup {x} \in SUBSET DOMAIN d
      PROVE  Total(Charge(d), S \cup {x}) = row.committed + Total(Charge(c), S)
  <2>1. IsFiniteSet(S) /\ IntOn(Charge(c), S)
    BY CallsCount
  <2>2. IntOn(Charge(d), S \cup {x})
    BY <1>1, <1>3, CallsCount
  <2>3. x \notin S
    BY <1>1
  <2>4. Total(Charge(d), S \cup {x}) = Charge(d)[x] + Total(Charge(d), S)
    BY <2>1, <2>2, <2>3, TotalAdd
  <2>5. \A i \in S : Charge(c)[i] = Charge(d)[i]
    BY <1>1 DEF Charge
  <2>6. Total(Charge(c), S) = Total(Charge(d), S)
    BY <2>1, <2>5, TotalSame
  <2>7. Charge(d)[x] = row.committed
    BY <1>1 DEF Charge
  <2>. QED BY <2>4, <2>6, <2>7
<1>4. Paid(c) \in SUBSET DOMAIN c /\ Paid(d) \in SUBSET DOMAIN d /\ DOMAIN c \in SUBSET DOMAIN c
  BY DEF Paid
<1>. QED BY <1>1, <1>2, <1>3, <1>4

\* The cost of one purchase changes.
LEMMA ToolsChange ==
    ASSUME NEW t \in [Questions -> ToolRow], NEW q \in Questions, NEW row \in ToolRow,
           NEW u, u = [t EXCEPT ![q] = row]
    PROVE  Total(Toll(u), Questions) =
             Total(Toll(t), Questions) - t[q].committed + row.committed
<1>. DEFINE f == Toll(t)
            g == Toll(u)
<1>1. IsFiniteSet(Questions) /\ IntOn(f, Questions)
  BY ToolsCount
<1>2. g[q] = row.committed /\ f[q] = t[q].committed
  BY DEF Toll
<1>3. row.committed \in Nat
  BY CostsAre DEF ToolRow
<1>4. \A p \in Questions \ {q} : g[p] = f[p]
  BY DEF Toll
<1>. HIDE DEF f, g
<1>5. g[q] \in Int
  BY <1>2, <1>3
<1>6. Total(g, Questions) = Total(f, Questions) - f[q] + g[q]
  BY <1>1, <1>4, <1>5, TotalUpdate
<1>. QED BY <1>2, <1>6 DEF f, g

\* Both limits hold on where charges only fall, or a call is taken over.
LEMMA CallsFall ==
    ASSUME NEW c \in Seq(CallRow), NEW d \in Seq(CallRow), DOMAIN d = DOMAIN c,
           \A i \in DOMAIN c : d[i].committed <= c[i].committed /\ (i \in Paid(d) => i \in Paid(c)),
           NEW t \in [Questions -> ToolRow], NEW n \in Nat, Within(c, t, n)
    PROVE  Within(d, t, n)
<1>1. Paid(d) \in SUBSET Paid(c) /\ Paid(c) \in SUBSET DOMAIN c /\ DOMAIN c \in SUBSET DOMAIN c
      /\ Paid(d) \in SUBSET DOMAIN d /\ DOMAIN d \in SUBSET DOMAIN d
  BY DEF Paid
<1>2. Total(Charge(d), Paid(d)) <= Total(Charge(c), Paid(c))
  BY <1>1, CallsShrink
<1>3. Total(Charge(d), DOMAIN d) <= Total(Charge(c), DOMAIN c)
  BY <1>1, CallsShrink
<1>4. /\ Total(Charge(d), Paid(d)) \in Nat /\ Total(Charge(d), DOMAIN d) \in Nat
      /\ Total(Charge(c), Paid(c)) \in Nat /\ Total(Charge(c), DOMAIN c) \in Nat
  BY <1>1, CallsCount
<1>5. Total(Toll(t), Questions) \in Nat
  BY ToolsCount
<1>6. MonthCap \in Nat
  BY MoneyAssumption
<1>. QED BY <1>2, <1>3, <1>4, <1>5, <1>6 DEF Within

\* They hold on where a purchase costs no more than it did, or than is available.
LEMMA ToolFits ==
    ASSUME NEW c \in Seq(CallRow), NEW t \in [Questions -> ToolRow], NEW n \in Nat, Within(c, t, n),
           NEW q \in Questions, NEW row \in ToolRow, NEW u, u = [t EXCEPT ![q] = row],
           \/ row.committed <= t[q].committed
           \/ row.committed <= n - Total(Charge(c), Paid(c)) - Total(Toll(t), Questions)
    PROVE  Within(c, u, n)
<1>1. Total(Toll(u), Questions) = Total(Toll(t), Questions) - t[q].committed + row.committed
  BY ToolsChange
<1>2. Total(Charge(c), Paid(c)) \in Nat
  BY CallsCount DEF Paid
<1>3. Total(Toll(t), Questions) \in Nat
  BY ToolsCount
<1>4. t[q].committed \in Nat /\ row.committed \in Nat
  BY CostsAre DEF ToolRow
<1>. QED BY <1>1, <1>2, <1>3, <1>4 DEF Within

\* And where a call is admitted that leaves both limits room.
LEMMA CallFits ==
    ASSUME NEW c \in Seq(CallRow), NEW t \in [Questions -> ToolRow], NEW n \in Nat,
           NEW row \in CallRow, NEW d, d = Append(c, row), row.payer = "customer",
           row.committed <= n - Total(Charge(c), Paid(c)) - Total(Toll(t), Questions),
           row.committed <= MonthCap - Total(Charge(c), DOMAIN c)
    PROVE  Within(d, t, n)
<1>1. /\ Total(Charge(d), DOMAIN d) = row.committed + Total(Charge(c), DOMAIN c)
      /\ Total(Charge(d), Paid(d)) = row.committed + Total(Charge(c), Paid(c))
  BY CallsGrow
<1>2. Total(Charge(c), Paid(c)) \in Nat /\ Total(Charge(c), DOMAIN c) \in Nat
  BY CallsCount DEF Paid
<1>3. Total(Toll(t), Questions) \in Nat
  BY ToolsCount
<1>4. row.committed \in Nat /\ MonthCap \in Nat
  BY MoneyAssumption DEF CallRow, CallCosts
<1>. QED BY <1>1, <1>2, <1>3, <1>4 DEF Within

-----------------------------------------------------------------------------
(* What may be spent *)

LEMMA MaxWithZero == ASSUME NEW a \in Int PROVE Max({0, a}) = IF a > 0 THEN a ELSE 0
<1>1. \E x \in {0, a} : \A y \in {0, a} : x >= y
  OBVIOUS
<1>2. Max({0, a}) \in {0, a} /\ \A y \in {0, a} : Max({0, a}) >= y
  BY <1>1 DEF Max
<1>. QED BY <1>2

LEMMA MinOfTwo == ASSUME NEW a \in Int, NEW b \in Int PROVE Min({a, b}) = IF a <= b THEN a ELSE b
<1>1. \E x \in {a, b} : \A y \in {a, b} : x <= y
  OBVIOUS
<1>2. Min({a, b}) \in {a, b} /\ \A y \in {a, b} : Min({a, b}) <= y
  BY <1>1 DEF Min
<1>. QED BY <1>2

LEMMA MinOfThree ==
    ASSUME NEW a \in Int, NEW b \in Int, NEW c \in Int
    PROVE  LET m == Min({a, b, c}) IN m \in Int /\ m <= a /\ m <= b /\ m <= c
<1>1. \E x \in {a, b, c} : \A y \in {a, b, c} : x <= y
  OBVIOUS
<1>2. Min({a, b, c}) \in {a, b, c} /\ \A y \in {a, b, c} : Min({a, b, c}) <= y
  BY <1>1 DEF Min
<1>. QED BY <1>2

\* What is available fits in the deposit, if it is positive; a hold fits in both limits.
LEMMA HoldFits ==
    ASSUME TypesUsed, calls \in Seq(CallRow), deposit \in {0, Deposit}
    PROVE  /\ Available \in Nat /\ Hold \in Int /\ Hold <= CallHold /\ Hold <= Available
           /\ Hold <= MonthCap - Total(Charge(calls), DOMAIN calls)
           /\ Available > 0 =>
                Available <= deposit - Total(Charge(calls), Paid(calls)) - Total(Toll(tools), Questions)
<1>. DEFINE a == Total(Charge(calls), Paid(calls))
            b == Total(Toll(tools), Questions)
            e == Total(Charge(calls), DOMAIN calls)
            m == Min({deposit, BudgetCap})
<1>1. a \in Nat /\ e \in Nat
  BY CallsCount DEF Paid
<1>2. b \in Nat
  BY ToolsCount DEF TypesUsed
<1>3. deposit \in Nat /\ BudgetCap \in Nat /\ CallHold \in Nat /\ MonthCap \in Nat
  BY MoneyAssumption
<1>4. m \in Int /\ m <= deposit
  BY <1>3, MinOfTwo
<1>5. Available = Max({0, m - a - b}) /\ MonthLeft = MonthCap - e
  BY DEF Available, MonthLeft, SumCalls, SumTools, CustomerCalls, Charge, Paid, Toll
<1>. HIDE DEF a, b, e, m
<1>6. m - a - b \in Int
  BY <1>1, <1>2, <1>4
<1>7. Available = IF m - a - b > 0 THEN m - a - b ELSE 0
  BY <1>5, <1>6, MaxWithZero
<1>8. Available \in Nat /\ (Available > 0 => Available <= deposit - a - b)
  BY <1>1, <1>2, <1>3, <1>4, <1>6, <1>7
<1>9. MonthLeft \in Int
  BY <1>1, <1>3, <1>5
<1>10. Hold \in Int /\ Hold <= CallHold /\ Hold <= Available /\ Hold <= MonthLeft
  <2>1. CallHold \in Int /\ Available \in Int /\ MonthLeft \in Int
    BY <1>3, <1>8, <1>9
  <2>. QED BY <2>1, MinOfThree, Zenon DEF Hold
<1>11. Hold <= MonthCap - e
  BY <1>5, <1>10
<1>. QED BY <1>8, <1>10, <1>11 DEF a, b, e

\* What a settlement would debit.
LEMMA SpentIs ==
    ASSUME TypesUsed, calls \in Seq(CallRow) PROVE Spent \in Nat
<1>. DEFINE S == CustomerCalls \cap CallsOf({"verified"})
            T == {q \in Questions : tools[q].state = "complete"}
<1>1. Total(Charge(calls), S) \in Nat
  BY CallsCount DEF CustomerCalls
<1>2. Total(Toll(tools), T) \in Nat
  BY ToolsCount DEF TypesUsed
<1>3. Spent = Total(Charge(calls), S) + Total(Toll(tools), T)
  BY DEF Spent, SumCalls, SumTools, Charge, Toll
<1>. HIDE DEF S, T
<1>. QED BY <1>1, <1>2, <1>3

-----------------------------------------------------------------------------
(* Every step keeps the state *)

LEMMA RestsLater == ASSUME rev' \in Nat PROVE Remembers(Resting)'
<1>1. Resting.rev = 0 /\ Resting.pc = "idle" /\ Resting.out = "none" /\ Len(Resting.entries) = 0
  BY EmptySeq DEF Resting
<1>. QED BY <1>1, WorkIs DEF Remembers, Busy

LEMMA RevIsNat == ASSUME StateOK PROVE rev \in Nat
BY DEF StateOK, MoneyOK

\* A worker rests.
LEMMA RestsHold ==
    ASSUME StateOK, NEW w \in Workers, Change(w, Resting), MoneyOK', rev <= rev',
           calls' \in Seq(CallRow), Len(calls) <= Len(calls'), JournalOK', hosted' \in BOOLEAN
    PROVE  StateOK'
<1>1. rev' \in Nat
  BY DEF MoneyOK
<1>2. Resting \in WorkerRow /\ Remembers(Resting)'
  BY <1>1, RestsLater, RevIsNat, RestingIs
<1>3. WorkersOK'
  BY <1>1, <1>2, WorkersStep
<1>. QED BY <1>3 DEF StateOK

\* A worker gives up.
LEMMA FailsMoney ==
    ASSUME StateOK, NEW w, NEW why, Fails(w, why), UNCHANGED escrowVars
    PROVE  MoneyOK' /\ rev <= rev' /\ Change(w, Resting)
BY DEF Fails, StateOK, MoneyOK, escrowVars

LEMMA FailsState ==
    ASSUME StateOK, NEW w \in Workers, NEW why, Fails(w, why),
           UNCHANGED <<escrowVars, hosted>>, JournalOK',
           calls' \in Seq(CallRow), Len(calls) <= Len(calls')
    PROVE  StateOK'
<1>1. hosted' \in BOOLEAN
  BY DEF StateOK
<1>. QED BY <1>1, FailsMoney, RestsHold

\* A worker goes on with its work; money and calls stand.
LEMMA GoesOn ==
    ASSUME StateOK, NEW w \in Workers, NEW m \in WorkerRow, Change(w, m), Remembers(m),
           UNCHANGED <<moneyOnly, calls, hosted>>, JournalOK'
    PROVE  StateOK'
<1>1. MoneyOK' /\ rev' = rev /\ calls' = calls /\ rev' \in Nat /\ hosted' \in BOOLEAN
  BY DEF moneyOnly, escrowVars, StateOK, MoneyOK
<1>2. calls' \in Seq(CallRow) /\ Len(calls) <= Len(calls') /\ rev <= rev'
  BY <1>1 DEF StateOK
<1>3. Remembers(m)'
  BY <1>1 DEF Remembers
<1>4. WorkersOK'
  BY <1>1, <1>2, <1>3, WorkersStep
<1>. QED BY <1>1, <1>2, <1>4 DEF StateOK

\* The journal is not written.
LEMMA JournalSame ==
    ASSUME StateOK, UNCHANGED <<journal, performed>> PROVE JournalOK'
BY DEF StateOK, JournalOK

\* What a worker saves is the journal.
LEMMA SavesJournal ==
    ASSUME StateOK, NEW w \in Workers, NEW e \in Seq(Marks), Len(e) <= Len(Work), Saves(w, e),
           UNCHANGED performed
    PROVE  JournalOK'
<1>1. journal \in JournalRow /\ workers[w].covered \in Covered
  BY MemoryOf DEF StateOK, JournalOK, WorkerRow
<1>2. journal' = [journal EXCEPT !.entries = e, !.covered = workers[w].covered]
  BY DEF Saves
<1>3. journal' \in JournalRow /\ journal'.entries = e
  BY <1>1, <1>2 DEF JournalRow
<1>. QED BY <1>3 DEF StateOK, JournalOK

LEMMA LoadState == ASSUME StateOK, NEW w \in Workers, NEW r \in Requests, Load(w, r) PROVE StateOK'
<1>. DEFINE fresh == runStatus \in {"planned", "complete", "ended"}
            e == IF fresh THEN <<>> ELSE [i \in DOMAIN journal.entries |-> "complete"]
            c == IF fresh THEN NotCovered ELSE journal.covered
            m == [Resting EXCEPT !.pc = "loaded", !.req = r, !.rev = rev, !.entries = e,
                                 !.covered = c]
<1>1. journal \in JournalRow /\ journal.entries \in Seq(Marks) /\ Len(journal.entries) <= Len(Work)
  BY DEF StateOK, JournalOK, JournalRow
<1>2. e \in Seq(Marks) /\ Len(e) <= Len(Work)
  <2>1. <<>> \in Seq(Marks) /\ Len(<<>>) = 0 /\ 0 <= Len(Work)
    BY EmptySeq, WorkIs
  <2>. QED BY <1>1, <2>1, AllComplete
<1>3. c \in Covered
  BY <1>1 DEF JournalRow, Covered, NotCovered
<1>4. Change(w, m) /\ UNCHANGED <<moneyOnly, calls, hosted, journal, performed>>
  BY DEF Load, moneyVars, moneyOnly
<1>. HIDE DEF e, c
<1>5. m \in WorkerRow /\ m.pc = "loaded" /\ m.req = r /\ m.rev = rev /\ m.entries = e /\ m.out = "none"
  BY <1>2, <1>3, RevIsNat, RestingIs DEF WorkerRow
<1>. HIDE DEF m
<1>6. Remembers(m)
  BY <1>2, <1>5, RevIsNat DEF Remembers, Busy, Load
<1>. QED BY <1>4, <1>5, <1>6, JournalSame, GoesOn

LEMMA LoadEndState ==
    ASSUME StateOK, NEW w \in Workers, NEW r \in Requests, LoadEnd(w, r) \/ LoadExport(w, r)
    PROVE  StateOK'
<1>. PICK out \in Unjournalled :
        /\ Change(w, [Resting EXCEPT !.pc = "loaded", !.req = r, !.rev = rev, !.out = out])
        /\ out = "export" <=> r \in Exports
  BY DEF LoadEnd, LoadExport, Unjournalled
<1>. DEFINE m == [Resting EXCEPT !.pc = "loaded", !.req = r, !.rev = rev, !.out = out]
<1>1. Change(w, m) /\ UNCHANGED <<moneyOnly, calls, hosted, journal, performed>>
  BY DEF LoadEnd, LoadExport, moneyVars, moneyOnly
<1>2. /\ m \in WorkerRow /\ m.pc = "loaded" /\ m.req = r /\ m.rev = rev /\ m.entries = <<>>
      /\ m.out = out
  BY RevIsNat, RestingIs DEF WorkerRow, Unjournalled
<1>. HIDE DEF m
<1>3. Len(m.entries) = 0 /\ 0 <= Len(Work)
  BY <1>2, EmptySeq, WorkIs
<1>4. Remembers(m)
  BY <1>2, <1>3, RevIsNat DEF Remembers, Busy
<1>. QED BY <1>1, <1>2, <1>4, JournalSame, GoesOn

LEMMA ClaimState == ASSUME StateOK, NEW w \in Workers, Claim(w) PROVE StateOK'
<1>. DEFINE ending == workers[w].out \in Unjournalled
            m == [workers[w] EXCEPT !.pc = IF ending THEN "commit" ELSE "run"]
            old == workers[w]
<1>1. /\ old \in WorkerRow /\ Remembers(old) /\ old.pc = "loaded"
      /\ UNCHANGED <<moneyOnly, calls, hosted>> /\ rev \in Nat
  BY MemoryOf, RevIsNat DEF Claim
<1>2. CASE MayClaim(w)
  <2>1. Change(w, m)
    BY <1>2 DEF Claim
  <2>2. /\ m \in WorkerRow /\ m.pc = (IF ending THEN "commit" ELSE "run") /\ m.req = old.req
        /\ m.rev = old.rev /\ m.entries = old.entries /\ m.out = old.out
    BY <1>1 DEF WorkerRow
  <2>. HIDE DEF m
  <2>3. Remembers(m)
    BY <1>1, <2>2 DEF Remembers, Busy, Unjournalled
  <2>4. JournalOK'
    <3>1. journal' = journal \/ journal' = [entries |-> old.entries, req |-> old.req, rev |-> rev,
                                            covered |-> old.covered]
      BY <1>2 DEF Claim
    <3>2. journal' \in JournalRow /\ Len(journal'.entries) <= Len(Work)
      BY <1>1, <3>1 DEF StateOK, JournalOK, JournalRow, WorkerRow, Remembers
    <3>3. performed' = performed \/ performed' = [i \in DOMAIN Work |-> 0]
      BY <1>2 DEF Claim
    <3>. QED BY <3>2, <3>3 DEF StateOK, JournalOK
  <2>. QED BY <1>1, <2>1, <2>2, <2>3, <2>4, GoesOn
<1>3. CASE ~MayClaim(w)
  <2>1. Change(w, Resting) /\ UNCHANGED <<journal, performed>>
    BY <1>3 DEF Claim
  <2>2. Resting \in WorkerRow /\ Remembers(Resting)
    BY <1>1, RestingIs
  <2>. QED BY <1>1, <2>1, <2>2, JournalSame, GoesOn
<1>. QED BY <1>2, <1>3

\* The calls of an action after a recovery: as they were, but for some the operator took over.
LEMMA TakenOver ==
    ASSUME calls \in Seq(CallRow), NEW r
    PROVE  /\ Reclassified(r) \in Seq(CallRow) /\ DOMAIN Reclassified(r) = DOMAIN calls
           /\ Len(Reclassified(r)) = Len(calls)
           /\ \A i \in DOMAIN calls :
                \/ Reclassified(r)[i] = calls[i]
                \/ \E s \in {"uncertainHeld", "rejectedHeld"} :
                     /\ i \in ReservedCalls(r)
                     /\ Reclassified(r)[i] = [calls[i] EXCEPT !.status = s, !.payer = "platform"]
<1>1. DOMAIN calls = 1..Len(calls) /\ Len(calls) \in Nat /\ \A i \in DOMAIN calls : calls[i] \in CallRow
  OBVIOUS
<1>2. ASSUME NEW i \in DOMAIN calls, NEW s
      PROVE  TakeOver(i, s)[i] = [calls[i] EXCEPT !.status = s, !.payer = "platform"]
  BY DEF TakeOver
<1>3. ASSUME NEW i \in DOMAIN calls
      PROVE  \/ Reclassified(r)[i] = calls[i]
             \/ \E s \in {"uncertainHeld", "rejectedHeld"} :
                  /\ i \in ReservedCalls(r)
                  /\ Reclassified(r)[i] = [calls[i] EXCEPT !.status = s, !.payer = "platform"]
  BY <1>2 DEF Reclassified
<1>4. ASSUME NEW i \in DOMAIN calls PROVE Reclassified(r)[i] \in CallRow
  BY <1>1, <1>3 DEF CallRow
<1>5. DOMAIN Reclassified(r) = 1..Len(calls)
  BY <1>1 DEF Reclassified
<1>6. Reclassified(r) = [i \in 1..Len(calls) |-> Reclassified(r)[i]]
  BY <1>1 DEF Reclassified
<1>7. Reclassified(r) \in Seq(CallRow) /\ Len(Reclassified(r)) = Len(calls)
  BY <1>1, <1>4, <1>5, <1>6
<1>. QED BY <1>1, <1>3, <1>5, <1>7

LEMMA RecoverState ==
    ASSUME StateOK, NEW w \in Workers, NEW r \in Requests, Recover(w, r) PROVE StateOK'
<1>. DEFINE cut == Interrupted(r) \/ Rejected(r) \/ NeverAdmitted(r)
            e == IF cut THEN Front(journal.entries) ELSE journal.entries
            c == [lost |-> journal.covered.lost + (IF Interrupted(r) THEN 1 ELSE 0),
                  limited |-> journal.covered.limited + (IF Rejected(r) THEN 1 ELSE 0)]
<1>1. /\ journal \in JournalRow /\ journal.entries \in Seq(Marks)
      /\ Len(journal.entries) \in Nat /\ Len(journal.entries) <= Len(Work)
  BY DEF StateOK, JournalOK, JournalRow
<1>2. e \in Seq(Marks) /\ Len(e) <= Len(Work)
  <2>1. CASE cut
    <3>1. Unfinished(journal.entries) = {Len(journal.entries)}
      BY <2>1 DEF Interrupted, Rejected, NeverAdmitted, LastIsCall
    <3>2. Len(journal.entries) > 0
      BY <1>1, <3>1 DEF Unfinished
    <3>3. Front(journal.entries) \in Seq(Marks) /\ Len(Front(journal.entries)) = Len(journal.entries) - 1
      BY <1>1, <3>2, Dropped
    <3>. QED BY <1>1, <2>1, <3>3, WorkIs
  <2>. QED BY <1>1, <2>1
<1>3. c \in Covered
  BY <1>1 DEF JournalRow, Covered
<1>. PICK m : m = [Resting EXCEPT !.pc = "run", !.req = r, !.rev = rev, !.entries = e,
                                  !.covered = c]
  OBVIOUS
<1>4. /\ Change(w, m) /\ UNCHANGED <<moneyOnly, hosted, performed>> /\ calls' = Reclassified(r)
      /\ journal' = [journal EXCEPT !.entries = e, !.covered = c]
  BY DEF Recover
<1>. HIDE DEF e, c
<1>5. m \in WorkerRow /\ m.pc = "run" /\ m.req = r /\ m.rev = rev /\ m.entries = e /\ m.out = "none"
  BY <1>2, <1>3, RevIsNat, RestingIs DEF WorkerRow
<1>12. r \in Requests /\ r \notin Exports
  BY DEF Recover, OpenReceipts
<1>6. MoneyOK' /\ rev' = rev /\ rev' \in Nat /\ rev <= rev' /\ hosted' \in BOOLEAN
  BY <1>4 DEF moneyOnly, escrowVars, StateOK, MoneyOK
<1>7. Remembers(m)'
  BY <1>2, <1>5, <1>6, <1>12, RevIsNat DEF Remembers, Busy
<1>8. calls' \in Seq(CallRow) /\ Len(calls') = Len(calls)
  BY <1>4, TakenOver DEF StateOK
<1>9. JournalOK'
  <2>1. journal' \in JournalRow /\ journal'.entries = e
    BY <1>1, <1>2, <1>3, <1>4 DEF JournalRow
  <2>. QED BY <1>2, <1>4, <2>1 DEF JournalOK, StateOK
<1>10. Len(calls) <= Len(calls')
  BY <1>8 DEF StateOK
<1>11. WorkersOK'
  BY <1>4, <1>5, <1>6, <1>7, <1>8, <1>10, WorkersStep
<1>. QED BY <1>6, <1>8, <1>9, <1>11 DEF StateOK

\* A worker goes on after its call was answered.
LEMMA AnsweredGoesOn ==
    ASSUME StateOK, NEW w \in Workers, NEW m \in WorkerRow, Change(w, m), Remembers(m),
           UNCHANGED <<runStatus, rev, escrowVars, hosted, journal, performed>>,
           calls' \in Seq(CallRow), Len(calls') = Len(calls)
    PROVE  StateOK'
<1>1. MoneyOK' /\ rev' = rev /\ rev' \in Nat /\ hosted' \in BOOLEAN
  BY DEF escrowVars, StateOK, MoneyOK
<1>2. Len(calls) <= Len(calls') /\ rev <= rev'
  BY <1>1 DEF StateOK
<1>3. Remembers(m)'
  BY <1>1 DEF Remembers
<1>4. WorkersOK'
  BY <1>1, <1>2, <1>3, WorkersStep
<1>. QED BY <1>1, <1>4, JournalSame DEF StateOK

LEMMA StopState == ASSUME StateOK, NEW w \in Workers, Stop(w) PROVE StateOK'
<1>. DEFINE old == workers[w]
            next == At(w) + 1
<1>1. PICK out \in {"paused", "awaiting", "complete"} :
        /\ out = "awaiting" => next \in Questions
        /\ LET e == IF out = "awaiting" THEN Append(old.entries, "waiting") ELSE old.entries IN
           Saves(w, e) /\ Change(w, [old EXCEPT !.pc = "commit", !.out = out, !.entries = e])
  BY DEF Stop
<1>. DEFINE e == IF out = "awaiting" THEN Append(old.entries, "waiting") ELSE old.entries
            m == [old EXCEPT !.pc = "commit", !.out = out, !.entries = e]
<1>2. /\ old \in WorkerRow /\ Remembers(old) /\ old.entries \in Seq(Marks)
      /\ UNCHANGED <<moneyOnly, calls, hosted, performed>> /\ old.pc = "run"
  BY MemoryOf DEF Stop
<1>3. e \in Seq(Marks) /\ Len(e) <= Len(Work)
  BY <1>1, <1>2, WorkIs DEF Marks, At, Remembers
<1>4. Saves(w, e) /\ Change(w, m)
  BY <1>1
<1>. HIDE DEF e
<1>5. /\ m \in WorkerRow /\ m.pc = "commit" /\ m.req = old.req /\ m.rev = old.rev
      /\ m.entries = e /\ m.out = out
  BY <1>2, <1>3 DEF WorkerRow
<1>. HIDE DEF m
<1>6. Remembers(m)
  BY <1>2, <1>3, <1>5 DEF Remembers, Busy
<1>. QED BY <1>2, <1>3, <1>4, <1>5, <1>6, SavesJournal, GoesOn

LEMMA StartState == ASSUME StateOK, NEW w \in Workers, Start(w) PROVE StateOK'
<1>. DEFINE old == workers[w]
            e == Append(old.entries, "started")
            m == [old EXCEPT !.pc = "started", !.entries = e, !.rail = 1]
<1>1. /\ old \in WorkerRow /\ Remembers(old) /\ old.entries \in Seq(Marks) /\ old.pc = "run"
      /\ UNCHANGED <<moneyOnly, calls, hosted, performed>> /\ Saves(w, e) /\ Change(w, m)
      /\ Len(old.entries) < Len(Work) /\ Len(old.entries) \in Nat
  BY MemoryOf DEF Start, At
<1>2. "started" \in Marks
  BY DEF Marks
<1>3. e \in Seq(Marks) /\ Len(e) = Len(old.entries) + 1 /\ e[Len(old.entries) + 1] = "started"
  BY <1>1, <1>2, Added
<1>4. Len(e) <= Len(Work) /\ Len(e) > 0 /\ e[Len(e)] = "started"
  BY <1>1, <1>3, WorkIs
<1>. HIDE DEF e
<1>5. /\ m \in WorkerRow /\ m.pc = "started" /\ m.req = old.req /\ m.rev = old.rev
      /\ m.entries = e /\ m.out = old.out
  BY <1>1, <1>3 DEF WorkerRow
<1>. HIDE DEF m
<1>6. Remembers(m)
  BY <1>1, <1>4, <1>5 DEF Remembers, Busy
<1>. QED BY <1>1, <1>3, <1>4, <1>5, <1>6, SavesJournal, GoesOn

LEMMA SaveResultState == ASSUME StateOK, NEW w \in Workers, SaveResult(w) PROVE StateOK'
<1>. DEFINE old == workers[w]
            e == Append(Front(old.entries), "complete")
            m == [old EXCEPT !.pc = "run", !.entries = e, !.call = 0]
<1>1. /\ old \in WorkerRow /\ Remembers(old) /\ old.entries \in Seq(Marks) /\ old.pc = "answered"
      /\ UNCHANGED <<moneyOnly, calls, hosted, performed>> /\ Saves(w, e) /\ Change(w, m)
  BY MemoryOf DEF SaveResult
<1>2. Len(old.entries) > 0 /\ Len(old.entries) <= Len(Work)
  BY <1>1 DEF Remembers, Busy
<1>3. e \in Seq(Marks) /\ Len(e) = Len(old.entries)
  BY <1>1, <1>2, Finished
<1>. HIDE DEF e
<1>5. /\ m \in WorkerRow /\ m.pc = "run" /\ m.req = old.req /\ m.rev = old.rev
      /\ m.entries = e /\ m.out = old.out
  BY <1>1, <1>3 DEF WorkerRow
<1>. HIDE DEF m
<1>6. Remembers(m)
  BY <1>1, <1>2, <1>3, <1>5 DEF Remembers, Busy
<1>7. Len(e) <= Len(Work)
  BY <1>2, <1>3
<1>. QED BY <1>1, <1>3, <1>5, <1>6, <1>7, SavesJournal, GoesOn

LEMMA PerformState == ASSUME StateOK, NEW w \in Workers, PerformLocal(w) PROVE StateOK'
<1>. DEFINE old == workers[w]
            m == [old EXCEPT !.pc = "answered"]
<1>1. /\ old \in WorkerRow /\ Remembers(old) /\ old.pc = "started"
      /\ UNCHANGED <<moneyOnly, calls, hosted, journal>> /\ Change(w, m)
      /\ performed' = [performed EXCEPT ![At(w)] = @ + 1]
  BY MemoryOf DEF PerformLocal, moneyVars, moneyOnly
<1>2. /\ m \in WorkerRow /\ m.pc = "answered" /\ m.req = old.req /\ m.rev = old.rev
      /\ m.entries = old.entries /\ m.out = old.out
  BY <1>1 DEF WorkerRow
<1>. HIDE DEF m
<1>3. Remembers(m)
  BY <1>1, <1>2 DEF Remembers, Busy
<1>4. performed' \in [DOMAIN Work -> Nat]
  <2>1. At(w) \in DOMAIN Work /\ performed \in [DOMAIN Work -> Nat]
    BY <1>1, MemoryOf, WorkIs DEF Remembers, Busy, At, StateOK, JournalOK
  <2>2. performed[At(w)] + 1 \in Nat
    BY <2>1
  <2>. QED BY <1>1, <2>1, <2>2
<1>5. JournalOK'
  BY <1>1, <1>4 DEF StateOK, JournalOK
<1>. QED BY <1>1, <1>2, <1>3, <1>5, GoesOn

\* A call that was admitted.
Admitted(w) == [req |-> workers[w].req, at |-> At(w), status |-> "reserved", hold |-> Hold,
                committed |-> Hold, payer |-> "customer", refused |-> FALSE]

LEMMA AdmittedIs ==
    ASSUME StateOK, IInv, NEW w \in Workers, Admit(w)
    PROVE  /\ Admitted(w) \in CallRow /\ calls' = Append(calls, Admitted(w))
           /\ calls' \in Seq(CallRow) /\ Len(calls') = Len(calls) + 1
           /\ calls'[Len(calls) + 1] = Admitted(w)
           /\ \A i \in 1..Len(calls) : calls'[i] = calls[i]
<1>1. workers[w].pc = "started" /\ calls' = Append(calls, Admitted(w)) /\ Hold >= MinHold
  BY DEF Admit, Admitted
<1>2. Remembers(workers[w]) /\ Len(workers[w].entries) \in Nat
  BY MemoryOf
<1>3. workers[w].req \in Requests /\ At(w) \in DOMAIN Work
  BY <1>1, <1>2, WorkIs DEF Remembers, Busy, At
<1>4. Hold \in Int /\ Hold <= CallHold
  BY HoldFits DEF StateOK, MoneyOK, IInv
<1>5. Hold \in CallCosts
  BY <1>1, <1>4, MoneyAssumption DEF CallCosts
<1>6. Admitted(w) \in CallRow
  BY <1>3, <1>5 DEF Admitted, CallRow
<1>7. calls \in Seq(CallRow)
  BY DEF StateOK
<1>. QED BY <1>1, <1>6, <1>7, Added

LEMMA AdmitState == ASSUME StateOK, IInv, NEW w \in Workers, Admit(w) PROVE StateOK'
<1>. DEFINE old == workers[w]
<1>. PICK m : m = [old EXCEPT !.pc = "waiting", !.call = Len(calls) + 1]
  OBVIOUS
<1>1. /\ old \in WorkerRow /\ Remembers(old) /\ old.pc = "started" /\ Kind(w) = "infer"
      /\ UNCHANGED <<moneyOnly, hosted, journal, performed>> /\ Change(w, m)
  BY MemoryOf DEF Admit
<1>2. calls' \in Seq(CallRow) /\ Len(calls') = Len(calls) + 1 /\ Len(calls) \in Nat
  BY AdmittedIs DEF StateOK
<1>3. /\ m \in WorkerRow /\ m.pc = "waiting" /\ m.req = old.req /\ m.rev = old.rev
      /\ m.entries = old.entries /\ m.out = old.out /\ m.call = Len(calls) + 1
  <2>1. Len(calls) + 1 \in Nat
    BY <1>2
  <2>. QED BY <1>1, <2>1 DEF WorkerRow
<1>4. MoneyOK' /\ rev' = rev /\ rev' \in Nat /\ rev <= rev' /\ hosted' \in BOOLEAN
  BY <1>1 DEF moneyOnly, escrowVars, StateOK, MoneyOK
<1>5. Remembers(m)'
  BY <1>1, <1>2, <1>3, <1>4 DEF Remembers, Busy, Kind, At
<1>6. Len(calls) <= Len(calls')
  BY <1>2
<1>7. WorkersOK'
  BY <1>1, <1>2, <1>3, <1>4, <1>5, <1>6, WorkersStep
<1>. QED BY <1>1, <1>2, <1>4, <1>7, JournalSame DEF StateOK

\* A call that was not sent: the worker falls back, or gives the operation up.
LEMMA FallBackRow ==
    ASSUME StateOK, NEW w \in Workers, workers[w].pc \in {"started", "waiting"},
           Kind(w) = "infer", FallBack(w) \/ NotSent(w)
    PROVE  \E m \in WorkerRow :
             /\ Change(w, m) /\ Remembers(m) /\ m.pc \in {"started", "pop"}
             /\ m.req = workers[w].req /\ m.rev = workers[w].rev /\ m.out = workers[w].out
             /\ m.entries = workers[w].entries
<1>. DEFINE old == workers[w]
            f == [old EXCEPT !.pc = "started", !.rail = 2, !.call = 0]
            n == [old EXCEPT !.pc = "pop", !.call = 0]
<1>1. /\ old \in WorkerRow /\ Remembers(old) /\ old.pc \in {"started", "waiting"}
      /\ Work[Len(old.entries)] = "infer"
  BY MemoryOf DEF Kind, At
<1>2. Change(w, f) \/ Change(w, n)
  BY DEF FallBack, NotSent
<1>3. /\ f \in WorkerRow /\ f.pc = "started" /\ f.req = old.req /\ f.rev = old.rev
      /\ f.entries = old.entries /\ f.out = old.out
  BY <1>1 DEF WorkerRow
<1>4. /\ n \in WorkerRow /\ n.pc = "pop" /\ n.req = old.req /\ n.rev = old.rev
      /\ n.entries = old.entries /\ n.out = old.out
  BY <1>1 DEF WorkerRow
<1>. HIDE DEF f, n
<1>5. Remembers(f) /\ Remembers(n)
  BY <1>1, <1>3, <1>4 DEF Remembers, Busy
<1>. QED BY <1>2, <1>3, <1>4, <1>5

LEMMA AdmitRefusedState == ASSUME StateOK, NEW w \in Workers, AdmitRefused(w) PROVE StateOK'
<1>1. /\ workers[w].pc \in {"started", "waiting"} /\ Kind(w) = "infer"
      /\ FallBack(w) \/ NotSent(w)
      /\ UNCHANGED <<moneyOnly, calls, hosted, journal, performed>>
  BY DEF AdmitRefused, moneyVars, moneyOnly
<1>2. PICK m \in WorkerRow : Change(w, m) /\ Remembers(m)
  BY <1>1, FallBackRow
<1>. QED BY <1>1, <1>2, JournalSame, GoesOn

\* The call of a worker that waits for it.
LEMMA WaitingIs ==
    ASSUME StateOK, NEW w \in Workers, workers[w].pc = "waiting"
    PROVE  /\ workers[w].call \in 1..Len(calls) /\ workers[w].call \in DOMAIN calls
           /\ calls[workers[w].call] \in CallRow /\ Kind(w) = "infer"
<1>1. Remembers(workers[w]) /\ calls \in Seq(CallRow)
  BY MemoryOf DEF StateOK
<1>. QED BY <1>1 DEF Remembers, Kind, At

\* One call is put right.
LEMMA CallPut ==
    ASSUME calls \in Seq(CallRow), NEW i \in 1..Len(calls), NEW row \in CallRow,
           calls' = [calls EXCEPT ![i] = row]
    PROVE  calls' \in Seq(CallRow) /\ Len(calls') = Len(calls) /\ DOMAIN calls' = DOMAIN calls
BY ExceptSeq

\* What an answer makes of the call that was waited for.
LEMMA RespondRow ==
    ASSUME StateOK, NEW w \in Workers, Respond(w)
    PROVE  \E row \in CallRow :
             /\ calls' = [calls EXCEPT ![workers[w].call] = row]
             /\ row.committed \in {0, calls[workers[w].call].hold} /\ row.status = "verified"
             /\ row.payer = calls[workers[w].call].payer /\ row.hold = calls[workers[w].call].hold
<1>. DEFINE i == workers[w].call
            old == calls[i]
<1>1. PICK cost \in {0, old.hold} :
        calls' = [calls EXCEPT ![i].status = "verified", ![i].committed = cost]
  BY DEF Respond
<1>2. old \in CallRow /\ i \in DOMAIN calls /\ calls \in Seq(CallRow)
  BY WaitingIs DEF Respond, StateOK
<1>3. cost \in CallCosts
  BY <1>2, MoneyAssumption DEF CallRow, CallCosts
<1>. DEFINE row == [old EXCEPT !.status = "verified", !.committed = cost]
<1>4. /\ row \in CallRow /\ row.committed = cost /\ row.status = "verified"
      /\ row.payer = old.payer /\ row.hold = old.hold
  BY <1>2, <1>3 DEF CallRow
<1>5. calls' = [calls EXCEPT ![i] = row]
  BY <1>1, <1>2
<1>. QED BY <1>1, <1>4, <1>5

LEMMA RespondState == ASSUME StateOK, NEW w \in Workers, Respond(w) PROVE StateOK'
<1>. DEFINE old == workers[w]
            m == [old EXCEPT !.pc = "answered"]
<1>1. /\ old \in WorkerRow /\ Remembers(old) /\ old.pc = "waiting" /\ Change(w, m)
      /\ UNCHANGED <<runStatus, rev, escrowVars, hosted, journal, performed>>
  BY MemoryOf DEF Respond, moneyOnly
<1>2. /\ m \in WorkerRow /\ m.pc = "answered" /\ m.req = old.req /\ m.rev = old.rev
      /\ m.entries = old.entries /\ m.out = old.out
  BY <1>1 DEF WorkerRow
<1>. HIDE DEF m
<1>3. Remembers(m)
  BY <1>1, <1>2 DEF Remembers, Busy
<1>4. calls' \in Seq(CallRow) /\ Len(calls') = Len(calls)
  BY <1>1, RespondRow, WaitingIs, CallPut DEF StateOK
<1>. QED BY <1>1, <1>2, <1>3, <1>4, AnsweredGoesOn

\* What the news that a call was not served makes of it.
LEMMA NotServedRow ==
    ASSUME StateOK, NEW w \in Workers, RespondNotSent(w) \/ RespondLimited(w)
    PROVE  \E row \in CallRow :
             /\ calls' = [calls EXCEPT ![workers[w].call] = row]
             /\ row.committed <= calls[workers[w].call].committed
             /\ row.payer = "customer" => calls[workers[w].call].payer = "customer"
             /\ calls[workers[w].call].status # "reserved" => row = calls[workers[w].call]
             /\ row.status # "verified" \/ row = calls[workers[w].call]
<1>. DEFINE i == workers[w].call
            old == calls[i]
<1>1. old \in CallRow /\ i \in DOMAIN calls /\ calls \in Seq(CallRow)
  BY WaitingIs DEF RespondNotSent, RespondLimited, StateOK
<1>2. old.committed \in Nat /\ 0 \in CallCosts
  BY <1>1, MoneyAssumption DEF CallRow, CallCosts
<1>3. CASE calls' = calls
  BY <1>1, <1>2, <1>3
<1>4. CASE calls' = [calls EXCEPT ![i].status = "notSent", ![i].committed = 0] /\ old.status = "reserved"
  <2>. DEFINE row == [old EXCEPT !.status = "notSent", !.committed = 0]
  <2>1. row \in CallRow /\ row.committed = 0 /\ row.status = "notSent" /\ row.payer = old.payer
    BY <1>1, <1>2 DEF CallRow
  <2>2. calls' = [calls EXCEPT ![i] = row]
    BY <1>1, <1>4
  <2>3. old.status = "reserved"
    BY <1>4
  <2>. HIDE DEF row
  <2>4. /\ row \in CallRow /\ calls' = [calls EXCEPT ![i] = row] /\ row.committed <= old.committed
        /\ (row.payer = "customer" => old.payer = "customer") /\ old.status = "reserved"
        /\ row.status # "verified"
    BY <1>2, <2>1, <2>2, <2>3
  <2>. QED BY <2>4
<1>5. CASE calls' = [calls EXCEPT ![i].refused = TRUE] /\ old.status = "reserved"
  <2>. DEFINE row == [old EXCEPT !.refused = TRUE]
  <2>1. row \in CallRow /\ row.committed = old.committed /\ row.status = old.status
        /\ row.payer = old.payer
    BY <1>1 DEF CallRow
  <2>2. calls' = [calls EXCEPT ![i] = row]
    BY <1>1, <1>5
  <2>3. old.status = "reserved"
    BY <1>5
  <2>. HIDE DEF row
  <2>4. /\ row \in CallRow /\ calls' = [calls EXCEPT ![i] = row] /\ row.committed <= old.committed
        /\ (row.payer = "customer" => old.payer = "customer") /\ old.status = "reserved"
        /\ row.status # "verified"
    BY <1>2, <2>1, <2>2, <2>3
  <2>. QED BY <2>4
<1>6. CASE /\ calls' = [[calls EXCEPT ![i].refused = TRUE] EXCEPT ![i].status = "rejectedHeld",
                                                               ![i].payer = "platform"]
           /\ old.status = "reserved"
  <2>. DEFINE row == [old EXCEPT !.refused = TRUE, !.status = "rejectedHeld", !.payer = "platform"]
  <2>1. row \in CallRow /\ row.committed = old.committed /\ row.status = "rejectedHeld"
        /\ row.payer = "platform"
    BY <1>1 DEF CallRow
  <2>2. calls' = [calls EXCEPT ![i] = row]
    BY <1>1, <1>6
  <2>3. old.status = "reserved"
    BY <1>6
  <2>. HIDE DEF row
  <2>4. /\ row \in CallRow /\ calls' = [calls EXCEPT ![i] = row] /\ row.committed <= old.committed
        /\ (row.payer = "customer" => old.payer = "customer") /\ old.status = "reserved"
        /\ row.status # "verified"
    BY <1>2, <2>1, <2>2, <2>3
  <2>. QED BY <2>4
<1>. QED BY <1>3, <1>4, <1>5, <1>6 DEF RespondNotSent, RespondLimited

LEMMA NotServedState ==
    ASSUME StateOK, NEW w \in Workers, RespondNotSent(w) \/ RespondLimited(w) PROVE StateOK'
<1>1. workers[w].pc = "waiting" /\ UNCHANGED <<escrowVars, hosted, journal, performed>>
  BY DEF RespondNotSent, RespondLimited, moneyOnly
<1>2. calls' \in Seq(CallRow) /\ Len(calls') = Len(calls)
  BY <1>1, NotServedRow, WaitingIs, CallPut DEF StateOK
<1>3. CASE (FallBack(w) \/ NotSent(w)) /\ UNCHANGED <<runStatus, rev>>
  <2>1. PICK m \in WorkerRow : Change(w, m) /\ Remembers(m)
    BY <1>1, <1>3, WaitingIs, FallBackRow
  <2>. QED BY <1>1, <1>2, <1>3, <2>1, AnsweredGoesOn
<1>4. CASE Fails(w, "limited")
  <2>1. Len(calls) <= Len(calls')
    BY <1>2 DEF StateOK
  <2>. QED BY <1>1, <1>2, <1>4, <2>1, JournalSame, FailsState
<1>. QED BY <1>3, <1>4 DEF RespondNotSent, RespondLimited, moneyOnly

\* The steps that only give up.
LEMMA GivesUpState ==
    ASSUME StateOK, NEW w \in Workers,
           AdmitFails(w) \/ RespondLost(w) \/ FencedOut(w) \/ GiveUp(w)
    PROVE  StateOK'
<1>1. /\ UNCHANGED <<escrowVars, hosted, calls, journal, performed>>
      /\ \E why : Fails(w, why)
  BY DEF AdmitFails, RespondLost, FencedOut, GiveUp
<1>2. calls' \in Seq(CallRow) /\ Len(calls) <= Len(calls')
  BY <1>1 DEF StateOK
<1>. QED BY <1>1, <1>2, JournalSame, FailsState

LEMMA PopState == ASSUME StateOK, NEW w \in Workers, Pop(w) PROVE StateOK'
<1>1. UNCHANGED <<escrowVars, hosted, calls, performed>> /\ Fails(w, "exhausted")
  BY DEF Pop
<1>2. calls' \in Seq(CallRow) /\ Len(calls) <= Len(calls')
  BY <1>1 DEF StateOK
<1>3. /\ workers[w].entries \in Seq(Marks) /\ Len(workers[w].entries) > 0
      /\ Len(workers[w].entries) <= Len(Work) /\ Len(workers[w].entries) \in Nat
  BY MemoryOf DEF Pop, Remembers, Busy
<1>4. /\ Front(workers[w].entries) \in Seq(Marks)
      /\ Len(Front(workers[w].entries)) = Len(workers[w].entries) - 1
  BY <1>3, Dropped
<1>5. /\ journal \in JournalRow /\ Len(journal.entries) <= Len(Work)
      /\ journal' = journal \/ journal' = [journal EXCEPT !.entries = Front(workers[w].entries)]
  BY DEF Pop, StateOK, JournalOK
<1>6. journal' \in JournalRow /\ Len(journal'.entries) <= Len(Work)
  <2>. PICK e : e = Front(workers[w].entries)
    OBVIOUS
  <2>1. e \in Seq(Marks) /\ Len(e) <= Len(Work)
    BY <1>3, <1>4, WorkIs
  <2>2. journal' = journal \/ journal' = [journal EXCEPT !.entries = e]
    BY <1>5
  <2>. QED BY <1>5, <2>1, <2>2 DEF JournalRow
<1>7. JournalOK'
  BY <1>1, <1>6 DEF StateOK, JournalOK
<1>. QED BY <1>1, <1>2, <1>7, FailsState

LEMMA CommitState == ASSUME StateOK, NEW w \in Workers, Commit(w) PROVE StateOK'
<1>1. /\ UNCHANGED <<escrowVars, hosted, calls, journal, performed>> /\ Change(w, Resting)
      /\ runStatus' = (IF workers[w].req \in Exports THEN runStatus ELSE workers[w].out)
      /\ rev' = rev + 1
  BY DEF Commit
<1>2. workers[w].req \in Exports \/ workers[w].out \in {"paused", "awaiting", "complete", "ended"}
  BY MemoryOf DEF Commit, WorkerRow, Remembers
<1>3. MoneyOK' /\ rev <= rev' /\ hosted' \in BOOLEAN
  BY <1>1, <1>2 DEF StateOK, MoneyOK, escrowVars
<1>4. calls' \in Seq(CallRow) /\ Len(calls) <= Len(calls')
  BY <1>1 DEF StateOK
<1>. QED BY <1>1, <1>3, <1>4, JournalSame, RestsHold

\* A worker dies, or renews its lease, or a lease runs out.
LEMMA LeaseState ==
    ASSUME StateOK, \/ \E w \in Workers : Die(w) \/ Heartbeat(w)
                    \/ \E r \in Requests : LeaseExpires(r)
    PROVE  StateOK'
<1>1. UNCHANGED <<moneyOnly, calls, hosted, journal, performed>>
  BY DEF Die, Heartbeat, LeaseExpires, moneyVars, moneyOnly
<1>2. CASE UNCHANGED workers
  <2>1. MoneyOK' /\ WorkersOK' /\ JournalOK'
    BY <1>1, <1>2, WorkersSame, JournalSame DEF moneyOnly, escrowVars, StateOK, MoneyOK
  <2>. QED BY <1>1, <2>1 DEF StateOK
<1>3. ASSUME NEW w \in Workers, Change(w, Resting) PROVE StateOK'
  <2>1. Resting \in WorkerRow /\ Remembers(Resting)
    BY RevIsNat, RestingIs
  <2>. QED BY <1>1, <1>3, <2>1, JournalSame, GoesOn
<1>. QED BY <1>2, <1>3 DEF Die, Heartbeat, LeaseExpires

\* The steps of the owner, the chain and the purchases.
LEMMA OutsideState ==
    ASSUME StateOK, IInv,
           \/ Escrow /\ UNCHANGED <<hosted, journal, workers, performed>>
           \/ \E q \in Questions : /\ Approves(q) \/ Purchase(q)
                                   /\ UNCHANGED <<hosted, journal, workers, performed>>
           \/ Deploy \/ UNCHANGED privateVars
    PROVE  StateOK'
<1>1. UNCHANGED <<rev, runStatus, calls, workers, journal, performed>>
  <2>1. CASE \E q \in Questions : Approves(q) \/ Purchase(q)
    BY <2>1 DEF Approves, Purchase, ApproveTool, RunTool, SignPayment, ToolNotSent, SellerPaid,
                ToolLost, ToolAnswered, CircleDecides, ReconcileTool, runVars, Escrow, Register,
                FundJob, RecordDeposit, Freeze, Cancel, Split, RecordSplit, Deploy, privateVars, moneyVars
  <2>2. CASE Escrow
    BY <2>2 DEF Escrow, Register, FundJob, RecordDeposit, Freeze, Cancel, Split, RecordSplit, Approves,
                Purchase, ApproveTool, RunTool, SignPayment, ToolNotSent, SellerPaid,
                ToolLost, ToolAnswered, CircleDecides, ReconcileTool, runVars, Deploy, privateVars, moneyVars
  <2>. QED BY <2>1, <2>2 DEF Deploy, privateVars, moneyVars
<1>2. MoneyOK'
  <2>1. CASE Escrow
    <3>1. Spent \in Nat /\ (Spent <= Deposit \/ ~(Spent <= deposit))
      BY SpentIs, MoneyAssumption DEF IInv, StateOK, MoneyOK
    <3>2. CASE Register \/ FundJob \/ RecordDeposit \/ Split \/ RecordSplit
      BY <3>2 DEF Register, FundJob, RecordDeposit, Split, RecordSplit, StateOK, MoneyOK
    <3>3. Spent <= deposit => Settlement \in [spent : 0..Deposit, held : {0, Deposit}]
      BY <3>1, SpentIs, MoneyAssumption DEF Settlement, IInv, StateOK, MoneyOK
    <3>4. CASE Freeze
      BY <3>3, <3>4 DEF Freeze, Freezes, StateOK, MoneyOK
    <3>5. CASE Cancel
      BY <3>3, <3>5 DEF Cancel, Freezes, StateOK, MoneyOK
    <3>. QED BY <2>1, <3>2, <3>4, <3>5 DEF Escrow
  <2>2. CASE UNCHANGED <<runStatus, rev, escrowVars>>
    BY <2>2 DEF StateOK, MoneyOK, escrowVars
  <2>. QED BY <2>1, <2>2 DEF Approves, Purchase, ApproveTool, RunTool, SignPayment, ToolNotSent,
            SellerPaid, ToolLost, ToolAnswered, CircleDecides, ReconcileTool, runVars, Deploy,
            privateVars, moneyVars
<1>3. WorkersOK' /\ JournalOK'
  BY <1>1, WorkersSame, JournalSame
<1>4. hosted' \in BOOLEAN
  BY DEF Deploy, privateVars, StateOK
<1>. QED BY <1>1, <1>2, <1>3, <1>4 DEF StateOK

LEMMA StateStep == StateOK /\ IInv /\ [PrivateNext]_privateVars => StateOK'
<1>. SUFFICES ASSUME StateOK, IInv, [PrivateNext]_privateVars PROVE StateOK'
  OBVIOUS
<1>1. ASSUME NEW w \in Workers, Claims(w) \/ Works(w) PROVE StateOK'
  <2>1. ASSUME Claims(w) PROVE StateOK'
    BY <2>1, LoadState, LoadEndState, RecoverState DEF Claims
  <2>2. ASSUME Works(w) PROVE StateOK'
    BY <2>2, ClaimState, StopState, StartState, PerformState, AdmitState, AdmitRefusedState,
       RespondState, NotServedState, GivesUpState, SaveResultState, PopState, CommitState,
       LeaseState DEF Works
  <2>. QED BY <1>1, <2>1, <2>2
<1>. QED BY <1>1, LeaseState, OutsideState DEF PrivateNext

LEMMA StateInit == PrivateInit => StateOK
<1>. SUFFICES ASSUME PrivateInit PROVE StateOK
  OBVIOUS
<1>1. MoneyOK
  <2>1. rev \in Nat \ {0} /\ deposit \in {0, Deposit}
    BY DEF PrivateInit, MoneyInit
  <2>2. frozen \in [spent : 0..Deposit, held : {0, Deposit}] \cup {NoFreeze}
    BY DEF PrivateInit, MoneyInit
  <2>. QED BY <2>1, <2>2 DEF PrivateInit, MoneyInit, MoneyOK
<1>2. calls \in Seq(CallRow) /\ hosted \in BOOLEAN /\ rev \in Nat
  BY EmptySeq DEF PrivateInit, MoneyInit
<1>3. WorkersOK
  BY <1>2, RestingIs DEF PrivateInit, WorkersOK
<1>4. JournalOK
  <2>1. <<>> \in Seq(Marks) /\ Len(<<>>) = 0 /\ 0 <= Len(Work)
    BY EmptySeq, WorkIs
  <2>. QED BY <2>1 DEF PrivateInit, JournalOK, JournalRow, NoJournal, NotCovered, Covered
<1>. QED BY <1>1, <1>2, <1>3, <1>4 DEF StateOK

-----------------------------------------------------------------------------
(* Charges.  A call that is waited for is answered by its one worker, for   *)
(* at most what it reserved; and once the charges of a run are frozen       *)
(* nothing its customer pays for is open any more.                          *)

Waits(w) == workers[w].pc = "waiting"
Pending(call) ==
    call.committed = call.hold /\ (call.status = "reserved" \/ call.payer = "platform")
WaitedFor ==
    /\ \A w \in Workers : Waits(w) => Pending(calls[workers[w].call])
    /\ \A v, w \in Workers : Waits(v) /\ Waits(w) /\ workers[v].call = workers[w].call => v = w

HoldsStand == \A q \in Questions : tools[q].state = "reserved" => tools[q].committed = ToolHold

\* What is debited, of these calls and purchases.
Due(c) == Paid(c) \cap {i \in DOMAIN c : c[i].status \in {"verified"}}
Done(t) == {q \in Questions : t[q].state = "complete"}
Debit(c, t) == Total(Charge(c), Due(c)) + Total(Toll(t), Done(t))

NothingReserved ==
    /\ \A q \in Questions : tools[q].state # "reserved"
    /\ \A i \in DOMAIN calls : ~(calls[i].payer = "customer" /\ calls[i].status = "reserved")

FrozenStands ==
    frozen # NoFreeze /\ ~cancelled => frozen.spent = Debit(calls, tools) /\ NothingReserved

ChargesInv ==
    WaitedFor /\ HoldsStand /\ Within(calls, tools, deposit) /\ FrozenStands

LEMMA DebitIs == Spent = Debit(calls, tools)
BY DEF Spent, Debit, SumCalls, SumTools, CustomerCalls, CallsOf, Charge, Paid, Toll, Due, Done

\* A debit stands where what is due does.
LEMMA CallsDue ==
    ASSUME NEW c \in Seq(CallRow), NEW d \in Seq(CallRow), Due(d) = Due(c),
           \A i \in Due(c) : d[i].committed = c[i].committed
    PROVE  Total(Charge(d), Due(d)) = Total(Charge(c), Due(c))
<1>. DEFINE f == Charge(c)
            g == Charge(d)
            S == Due(c)
<1>1. S \in SUBSET DOMAIN c /\ S \in SUBSET DOMAIN d
  BY DEF Due, Paid
<1>2. IsFiniteSet(S) /\ IntOn(f, S)
  BY <1>1, CallsCount
<1>3. \A i \in S : f[i] = g[i]
  BY <1>1 DEF Charge
<1>. HIDE DEF f, g, S
<1>4. Total(f, S) = Total(g, S)
  BY <1>2, <1>3, TotalSame
<1>. QED BY <1>4 DEF f, g, S

LEMMA ToolsDone ==
    ASSUME NEW t \in [Questions -> ToolRow], NEW u, Done(u) = Done(t),
           \A q \in Done(t) : u[q].committed = t[q].committed
    PROVE  Total(Toll(u), Done(u)) = Total(Toll(t), Done(t))
<1>. DEFINE f == Toll(t)
            g == Toll(u)
            S == Done(t)
<1>1. S \in SUBSET Questions
  BY DEF Done
<1>2. IsFiniteSet(S) /\ IntOn(f, S)
  BY <1>1, ToolsCount
<1>3. \A q \in S : f[q] = g[q]
  BY <1>1 DEF Toll
<1>. HIDE DEF f, g, S
<1>4. Total(f, S) = Total(g, S)
  BY <1>2, <1>3, TotalSame
<1>. QED BY <1>4 DEF f, g, S

\* Workers that do not begin to wait: those that wait on still do for the same call.
LEMMA WaitedKept ==
    ASSUME StateOK, WaitedFor, NEW w \in Workers, NEW m, Change(w, m), m.pc # "waiting",
           \A i \in 1..Len(calls) : Pending(calls[i]) =>
             Pending(calls'[i]) \/ (Waits(w) /\ workers[w].call = i)
    PROVE  WaitedFor'
<1>1. workers' = [workers EXCEPT ![w] = m] /\ workers \in [Workers -> WorkerRow]
  BY DEF Change, StateOK, WorkersOK
<1>2. ~Waits(w)' /\ \A v \in Workers : v # w => workers'[v] = workers[v]
  BY <1>1 DEF Waits
<1>3. ASSUME NEW v \in Workers, Waits(v)' PROVE Pending(calls'[workers'[v].call])
  <2>1. v # w /\ Waits(v) /\ workers'[v] = workers[v]
    BY <1>2, <1>3 DEF Waits
  <2>2. workers[v].call \in 1..Len(calls) /\ Pending(calls[workers[v].call])
    BY <2>1, WaitingIs DEF Waits, WaitedFor
  <2>3. ~(Waits(w) /\ workers[w].call = workers[v].call)
    BY <2>1 DEF WaitedFor
  <2>. QED BY <2>1, <2>2, <2>3
<1>4. \A v, u \in Workers : Waits(v)' /\ Waits(u)' /\ workers'[v].call = workers'[u].call => v = u
  BY <1>2 DEF Waits, WaitedFor
<1>5. \A v \in Workers : Waits(v)' => Pending(calls[workers[v].call])'
  BY <1>3 DEF Pending
<1>. QED BY <1>4, <1>5 DEF WaitedFor

\* Steps that touch no charge.
LEMMA QuietStep ==
    ASSUME StateOK, ChargesInv, UNCHANGED <<calls, tools, deposit, frozen, cancelled>>,
           \/ UNCHANGED workers
           \/ \E w \in Workers : \E m : Change(w, m) /\ m.pc # "waiting"
    PROVE  ChargesInv'
<1>1. WaitedFor'
  <2>1. CASE UNCHANGED workers
    BY <2>1 DEF ChargesInv, WaitedFor, Waits
  <2>2. ASSUME NEW w \in Workers, NEW m, Change(w, m), m.pc # "waiting" PROVE WaitedFor'
    BY <2>2, WaitedKept DEF ChargesInv
  <2>. QED BY <2>1, <2>2
<1>2. HoldsStand' /\ FrozenStands' /\ Within(calls, tools, deposit)'
  BY DEF ChargesInv, HoldsStand, FrozenStands, NothingReserved
<1>. QED BY <1>1, <1>2 DEF ChargesInv

LEMMA QuietWork ==
    ASSUME StateOK, ChargesInv, NEW w \in Workers,
           \/ Claims(w) /\ ~ \E r \in Requests : Recover(w, r)
           \/ Claim(w) \/ Heartbeat(w) \/ Stop(w) \/ Start(w) \/ PerformLocal(w) \/ AdmitRefused(w)
           \/ AdmitFails(w) \/ RespondLost(w) \/ SaveResult(w) \/ Pop(w) \/ FencedOut(w) \/ GiveUp(w)
           \/ Commit(w) \/ Die(w)
    PROVE  ChargesInv'
<1>. DEFINE old == workers[w]
<1>1. old \in WorkerRow
  BY MemoryOf
<1>2. Resting.pc # "waiting"
  BY DEF Resting
<1>3. UNCHANGED <<calls, tools, deposit, frozen, cancelled>>
  BY DEF Claims, Load, LoadEnd, LoadExport, Claim, Heartbeat, Stop, Start, PerformLocal, AdmitRefused, AdmitFails,
         RespondLost, SaveResult, Pop, FencedOut, GiveUp, Commit, Die, moneyVars, moneyOnly,
         escrowVars, toolVars
<1>4. CASE Claims(w) /\ ~ \E r \in Requests : Recover(w, r)
  <2>1. ASSUME NEW r \in Requests, Load(w, r) PROVE \E m : Change(w, m) /\ m.pc # "waiting"
    <3>. DEFINE fresh == runStatus \in {"planned", "complete", "ended"}
                m == [Resting EXCEPT !.pc = "loaded", !.req = r, !.rev = rev,
                        !.entries = IF fresh THEN <<>> ELSE [i \in DOMAIN journal.entries |-> "complete"],
                        !.covered = IF fresh THEN NotCovered ELSE journal.covered]
    <3>1. Change(w, m)
      BY <2>1 DEF Load
    <3>2. m.pc # "waiting"
      BY DEF Resting
    <3>. HIDE DEF m
    <3>. QED BY <3>1, <3>2
  <2>2. ASSUME NEW r \in Requests, LoadEnd(w, r) \/ LoadExport(w, r)
        PROVE  \E m : Change(w, m) /\ m.pc # "waiting"
    <3>1. \A out : [Resting EXCEPT !.pc = "loaded", !.req = r, !.rev = rev, !.out = out].pc # "waiting"
      BY DEF Resting
    <3>. QED BY <2>2, <3>1 DEF LoadEnd, LoadExport
  <2>. QED BY <1>3, <1>4, <2>1, <2>2, QuietStep DEF Claims
<1>5. CASE AdmitFails(w) \/ RespondLost(w) \/ Pop(w) \/ FencedOut(w) \/ GiveUp(w) \/ Commit(w) \/ Die(w)
  <2>1. Change(w, Resting)
    BY <1>5 DEF AdmitFails, RespondLost, Pop, FencedOut, GiveUp, Commit, Die, Fails
  <2>. QED BY <1>2, <1>3, <2>1, QuietStep
<1>6. ASSUME NEW pc \in {"commit", "run", "started", "answered", "pop"},
             \/ \E out, e : Change(w, [old EXCEPT !.pc = pc, !.out = out, !.entries = e])
             \/ \E e, rail : Change(w, [old EXCEPT !.pc = pc, !.entries = e, !.rail = rail])
             \/ \E e, call : Change(w, [old EXCEPT !.pc = pc, !.entries = e, !.call = call])
             \/ \E rail, call : Change(w, [old EXCEPT !.pc = pc, !.rail = rail, !.call = call])
             \/ \E call : Change(w, [old EXCEPT !.pc = pc, !.call = call])
             \/ Change(w, [old EXCEPT !.pc = pc])
      PROVE  ChargesInv'
  <2>1. pc # "waiting"
    OBVIOUS
  <2>2. \E m : Change(w, m) /\ m.pc = pc
    <3>1. ASSUME NEW out, NEW e, NEW rail, NEW call
          PROVE  /\ [old EXCEPT !.pc = pc, !.out = out, !.entries = e].pc = pc
                 /\ [old EXCEPT !.pc = pc, !.entries = e, !.rail = rail].pc = pc
                 /\ [old EXCEPT !.pc = pc, !.entries = e, !.call = call].pc = pc
                 /\ [old EXCEPT !.pc = pc, !.rail = rail, !.call = call].pc = pc
                 /\ [old EXCEPT !.pc = pc, !.call = call].pc = pc
                 /\ [old EXCEPT !.pc = pc].pc = pc
      BY <1>1 DEF WorkerRow
    <3>2. ASSUME NEW m, Change(w, m), m.pc = pc PROVE \E n : Change(w, n) /\ n.pc = pc
      BY <3>2
    <3>. HIDE DEF old
    <3>3. CASE \E out, e : Change(w, [old EXCEPT !.pc = pc, !.out = out, !.entries = e])
      BY <3>1, <3>2, <3>3
    <3>4. CASE \E e, rail : Change(w, [old EXCEPT !.pc = pc, !.entries = e, !.rail = rail])
      BY <3>1, <3>2, <3>4
    <3>5. CASE \E e, call : Change(w, [old EXCEPT !.pc = pc, !.entries = e, !.call = call])
      BY <3>1, <3>2, <3>5
    <3>6. CASE \E rail, call : Change(w, [old EXCEPT !.pc = pc, !.rail = rail, !.call = call])
      BY <3>1, <3>2, <3>6
    <3>7. CASE \E call : Change(w, [old EXCEPT !.pc = pc, !.call = call])
      BY <3>1, <3>2, <3>7
    <3>8. CASE Change(w, [old EXCEPT !.pc = pc])
      BY <3>1, <3>2, <3>8
    <3>. QED BY <1>6, <3>3, <3>4, <3>5, <3>6, <3>7, <3>8 DEF old
  <2>. QED BY <1>3, <2>1, <2>2, QuietStep
<1>7. CASE Claim(w)
  <2>1. \/ Change(w, Resting) \/ Change(w, [old EXCEPT !.pc = "run"])
        \/ Change(w, [old EXCEPT !.pc = "commit"])
    BY <1>7 DEF Claim
  <2>. QED BY <1>2, <1>3, <1>6, <2>1, QuietStep
<1>8. CASE Heartbeat(w)
  BY <1>3, <1>8, QuietStep DEF Heartbeat
<1>9. CASE Stop(w) \/ Start(w) \/ PerformLocal(w) \/ AdmitRefused(w) \/ SaveResult(w)
  BY <1>6, <1>9 DEF Stop, Start, PerformLocal, AdmitRefused, SaveResult, FallBack, NotSent
<1>. QED BY <1>4, <1>5, <1>7, <1>8, <1>9

\* The ledger a step starts from.
LEMMA LedgerIs ==
    ASSUME StateOK, IInv
    PROVE  calls \in Seq(CallRow) /\ tools \in [Questions -> ToolRow] /\ deposit \in Nat
BY MoneyAssumption DEF StateOK, MoneyOK, IInv, TypesUsed

LEMMA CallOf ==
    ASSUME calls \in Seq(CallRow), NEW i \in DOMAIN calls
    PROVE  calls[i] \in CallRow /\ calls[i].committed \in Nat
<1>1. calls[i] \in CallRow
  OBVIOUS
<1>. QED BY <1>1 DEF CallRow, CallCosts

LEMMA AdmitCharges ==
    ASSUME StateOK, IInv, ChargesInv, NEW w \in Workers, Admit(w) PROVE ChargesInv'
<1>. DEFINE n == Len(calls) + 1
            m == [workers[w] EXCEPT !.pc = "waiting", !.call = n]
            c == calls'
<1>1. /\ Admitted(w) \in CallRow /\ calls' = Append(calls, Admitted(w)) /\ calls'[n] = Admitted(w)
      /\ \A i \in 1..Len(calls) : calls'[i] = calls[i]
  BY AdmittedIs
<1>2. /\ Change(w, m) /\ UNCHANGED <<tools, deposit, frozen, cancelled>> /\ ~Closed
      /\ Hold >= MinHold /\ n \in Nat
  BY LedgerIs DEF Admit, moneyOnly, escrowVars, toolVars
<1>3. workers' = [workers EXCEPT ![w] = m] /\ workers \in [Workers -> WorkerRow]
  BY <1>2 DEF Change, StateOK, WorkersOK
<1>4. m.pc = "waiting" /\ m.call = n
  BY <1>3 DEF WorkerRow
<1>. HIDE DEF m
<1>5. Admitted(w).committed = Hold /\ Admitted(w).payer = "customer" /\ Pending(Admitted(w))
  BY DEF Admitted, Pending
<1>6. WaitedFor'
  <2>1. ASSUME NEW v \in Workers, v # w, Waits(v)'
        PROVE  /\ workers'[v] = workers[v] /\ workers[v].call \in 1..Len(calls) /\ Waits(v)
               /\ Pending(calls'[workers'[v].call]) /\ workers'[v].call # n
    <3>1. workers'[v] = workers[v] /\ Waits(v)
      BY <1>3, <2>1 DEF Waits
    <3>2. workers[v].call \in 1..Len(calls) /\ Pending(calls[workers[v].call])
      BY <3>1, WaitingIs DEF Waits, ChargesInv, WaitedFor
    <3>3. workers[v].call # n
      BY <3>2, LedgerIs
    <3>. QED BY <1>1, <3>1, <3>2, <3>3
  <2>2. workers'[w].call = n /\ Pending(calls'[workers'[w].call])
    BY <1>1, <1>3, <1>4, <1>5
  <2>3. \A v \in Workers : Waits(v)' => Pending(calls'[workers'[v].call])
    BY <2>1, <2>2
  <2>4. \A v, u \in Workers : Waits(v)' /\ Waits(u)' /\ workers'[v].call = workers'[u].call => v = u
    BY <2>1, <2>2 DEF ChargesInv, WaitedFor
  <2>5. \A v \in Workers : Waits(v)' => Pending(calls[workers[v].call])'
    BY <2>3 DEF Pending
  <2>. QED BY <2>4, <2>5 DEF WaitedFor
<1>7. Within(c, tools, deposit)
  <2>1. /\ Available \in Nat /\ Hold \in Int /\ Hold <= Available
        /\ Hold <= MonthCap - Total(Charge(calls), DOMAIN calls)
        /\ Available > 0 =>
             Available <= deposit - Total(Charge(calls), Paid(calls)) - Total(Toll(tools), Questions)
    BY HoldFits DEF IInv, StateOK, MoneyOK
  <2>2. MinHold \in Nat /\ MinHold > 0
    BY MoneyAssumption
  <2>3. /\ Total(Charge(calls), Paid(calls)) \in Nat /\ Total(Toll(tools), Questions) \in Nat
        /\ deposit \in Nat
    BY LedgerIs, CallsCount, ToolsCount DEF Paid
  <2>4. Hold <= deposit - Total(Charge(calls), Paid(calls)) - Total(Toll(tools), Questions)
    BY <1>2, <2>1, <2>2, <2>3
  <2>5. c = Append(calls, Admitted(w)) /\ Admitted(w) \in CallRow
    BY <1>1
  <2>. HIDE DEF c
  <2>. QED BY <1>5, <2>1, <2>4, <2>5, LedgerIs, CallFits
<1>8. Within(calls, tools, deposit)'
  BY <1>2, <1>7 DEF Within
<1>9. HoldsStand' /\ FrozenStands'
  BY <1>2 DEF ChargesInv, HoldsStand, FrozenStands, Closed
<1>. QED BY <1>6, <1>8, <1>9 DEF ChargesInv

\* A step that puts one waiting call right, for no more than it held.
LEMMA CallStep ==
    ASSUME StateOK, IInv, ChargesInv, NEW w \in Workers, Waits(w), NEW m, Change(w, m),
           m.pc # "waiting", UNCHANGED <<tools, deposit, frozen, cancelled>>, NEW row \in CallRow,
           calls' = [calls EXCEPT ![workers[w].call] = row],
           row.committed <= calls[workers[w].call].committed,
           row.payer = "customer" => calls[workers[w].call].payer = "customer"
    PROVE  ChargesInv'
<1>. DEFINE i == workers[w].call
            old == calls[i]
            d == calls'
<1>1. /\ i \in 1..Len(calls) /\ i \in DOMAIN calls /\ old \in CallRow /\ Pending(old)
      /\ calls \in Seq(CallRow)
  BY WaitingIs, LedgerIs DEF Waits, ChargesInv, WaitedFor
<1>2. /\ calls' \in Seq(CallRow) /\ Len(calls') = Len(calls) /\ DOMAIN calls' = DOMAIN calls
      /\ calls'[i] = row /\ \A j \in DOMAIN calls : j # i => calls'[j] = calls[j]
  BY <1>1, CallPut
<1>3. WaitedFor'
  <2>1. \A j \in 1..Len(calls) : Pending(calls[j]) =>
          Pending(calls'[j]) \/ (Waits(w) /\ workers[w].call = j)
    BY <1>1, <1>2
  <2>. QED BY <2>1, WaitedKept DEF ChargesInv
<1>4. \A j \in DOMAIN calls : j \in Paid(d) => j \in Paid(calls)
  BY <1>2 DEF Paid
<1>5. \A j \in DOMAIN calls : d[j].committed <= calls[j].committed
  <2>1. \A j \in DOMAIN calls : calls[j].committed \in Nat
    BY <1>1, CallOf
  <2>. QED BY <1>2, <2>1
<1>6. Within(d, tools, deposit)
  <2>1. d \in Seq(CallRow) /\ DOMAIN d = DOMAIN calls
    BY <1>2
  <2>2. calls \in Seq(CallRow) /\ tools \in [Questions -> ToolRow] /\ deposit \in Nat
    BY LedgerIs
  <2>3. Within(calls, tools, deposit)
    BY DEF ChargesInv
  <2>4. \A j \in DOMAIN calls : d[j].committed <= calls[j].committed /\ (j \in Paid(d) => j \in Paid(calls))
    BY <1>4, <1>5
  <2>. HIDE DEF d
  <2>. QED BY <2>1, <2>2, <2>3, <2>4, CallsFall
<1>7. ASSUME frozen # NoFreeze, ~cancelled
      PROVE  frozen.spent = Debit(d, tools) /\ NothingReserved'
  <2>1. NothingReserved /\ frozen.spent = Debit(calls, tools)
    BY <1>7 DEF ChargesInv, FrozenStands
  <2>2. old.payer = "platform"
    BY <1>1, <2>1 DEF NothingReserved, Pending, CallRow
  <2>3. row.payer = "platform"
    BY <2>2 DEF CallRow
  <2>4. \A j \in DOMAIN calls : ~(calls'[j].payer = "customer" /\ calls'[j].status = "reserved")
    BY <1>2, <2>1, <2>3 DEF NothingReserved
  <2>5. Due(d) = Due(calls) /\ \A j \in Due(calls) : d[j].committed = calls[j].committed
    BY <1>1, <1>2, <2>2, <2>3 DEF Due, Paid
  <2>6. d \in Seq(CallRow) /\ calls \in Seq(CallRow)
    BY <1>1, <1>2
  <2>7. Total(Charge(d), Due(d)) = Total(Charge(calls), Due(calls))
    <3>. HIDE DEF d
    <3>. QED BY <2>5, <2>6, CallsDue
  <2>. QED BY <1>2, <2>1, <2>4, <2>7 DEF Debit, NothingReserved
<1>8. HoldsStand' /\ Within(calls, tools, deposit)'
  BY <1>6 DEF ChargesInv, HoldsStand, Within
<1>9. FrozenStands'
  BY <1>7 DEF FrozenStands, Debit
<1>. QED BY <1>3, <1>8, <1>9 DEF ChargesInv

LEMMA RespondCharges ==
    ASSUME StateOK, IInv, ChargesInv, NEW w \in Workers, Respond(w) PROVE ChargesInv'
<1>. DEFINE m == [workers[w] EXCEPT !.pc = "answered"]
            old == calls[workers[w].call]
<1>1. /\ Change(w, m) /\ Waits(w) /\ UNCHANGED <<tools, deposit, frozen, cancelled>>
  BY DEF Respond, Waits, moneyOnly, toolVars, escrowVars
<1>2. m.pc # "waiting"
  BY MemoryOf DEF WorkerRow
<1>3. old \in CallRow /\ old.committed = old.hold
  BY <1>1, WaitingIs DEF Waits, ChargesInv, WaitedFor, Pending
<1>4. old.committed \in Nat
  BY <1>3 DEF CallRow, CallCosts
<1>5. PICK row \in CallRow :
        /\ calls' = [calls EXCEPT ![workers[w].call] = row]
        /\ row.committed \in {0, old.hold} /\ row.status = "verified"
        /\ row.payer = old.payer
  BY RespondRow
<1>6. row.committed <= old.committed
  BY <1>3, <1>4, <1>5
<1>. HIDE DEF m
<1>. QED BY <1>1, <1>2, <1>5, <1>6, CallStep

LEMMA NotServedCharges ==
    ASSUME StateOK, IInv, ChargesInv, NEW w \in Workers, RespondNotSent(w) \/ RespondLimited(w)
    PROVE  ChargesInv'
<1>1. Waits(w) /\ UNCHANGED <<tools, deposit, frozen, cancelled>> /\ workers[w].pc = "waiting"
  BY DEF RespondNotSent, RespondLimited, Waits, moneyOnly, toolVars, escrowVars
<1>2. PICK m : Change(w, m) /\ m.pc # "waiting"
  <2>1. CASE FallBack(w) \/ NotSent(w)
    <3>1. PICK m \in WorkerRow : Change(w, m) /\ m.pc \in {"started", "pop"}
      BY <1>1, <2>1, WaitingIs, FallBackRow
    <3>. QED BY <3>1
  <2>2. CASE Change(w, Resting)
    BY <2>2 DEF Resting
  <2>. QED BY <2>1, <2>2 DEF RespondNotSent, RespondLimited, Fails
<1>3. PICK row \in CallRow :
        /\ calls' = [calls EXCEPT ![workers[w].call] = row]
        /\ row.committed <= calls[workers[w].call].committed
        /\ row.payer = "customer" => calls[workers[w].call].payer = "customer"
        /\ calls[workers[w].call].status # "reserved" => row = calls[workers[w].call]
  BY NotServedRow
<1>. QED BY <1>1, <1>2, <1>3, CallStep

LEMMA RecoverCharges ==
    ASSUME StateOK, IInv, ChargesInv, NEW w \in Workers, NEW r \in Requests, Recover(w, r)
    PROVE  ChargesInv'
<1>. DEFINE d == calls'
<1>0. PICK m : Change(w, m) /\ m.pc # "waiting"
  <2>1. PICK e, c : Change(w, [Resting EXCEPT !.pc = "run", !.req = r, !.rev = rev, !.entries = e,
                                              !.covered = c])
    BY DEF Recover
  <2>. DEFINE m == [Resting EXCEPT !.pc = "run", !.req = r, !.rev = rev, !.entries = e, !.covered = c]
  <2>2. m.pc # "waiting"
    BY DEF Resting
  <2>. HIDE DEF m
  <2>3. Change(w, m)
    BY <2>1 DEF m
  <2>. QED BY <2>2, <2>3
<1>1. UNCHANGED <<tools, deposit, frozen, cancelled>> /\ calls' = Reclassified(r)
  BY DEF Recover, moneyOnly, toolVars, escrowVars
<1>2. /\ calls \in Seq(CallRow) /\ calls' \in Seq(CallRow) /\ DOMAIN calls' = DOMAIN calls
      /\ DOMAIN calls = 1..Len(calls)
  <2>1. calls \in Seq(CallRow) /\ DOMAIN calls = 1..Len(calls)
    BY LedgerIs
  <2>2. Reclassified(r) \in Seq(CallRow) /\ DOMAIN Reclassified(r) = DOMAIN calls
    BY <2>1, TakenOver
  <2>. QED BY <1>1, <2>1, <2>2
<1>3. \A i \in DOMAIN calls :
        \/ calls'[i] = calls[i]
        \/ /\ calls[i].status = "reserved" /\ calls'[i].committed = calls[i].committed
           /\ calls'[i].payer = "platform" /\ calls'[i].hold = calls[i].hold
           /\ calls'[i].status \in {"uncertainHeld", "rejectedHeld"}
  <2>1. ASSUME NEW i \in DOMAIN calls, NEW s \in {"uncertainHeld", "rejectedHeld"},
               calls'[i] = [calls[i] EXCEPT !.status = s, !.payer = "platform"]
        PROVE  /\ calls'[i].committed = calls[i].committed /\ calls'[i].payer = "platform"
               /\ calls'[i].hold = calls[i].hold /\ calls'[i].status = s
    <3>1. calls[i] \in CallRow
      BY <1>2
    <3>. QED BY <2>1, <3>1 DEF CallRow
  <2>2. \A i \in ReservedCalls(r) : calls[i].status = "reserved"
    BY DEF ReservedCalls, CallsOf
  <2>3. \A i \in DOMAIN calls :
          \/ calls'[i] = calls[i]
          \/ \E s \in {"uncertainHeld", "rejectedHeld"} :
               /\ i \in ReservedCalls(r)
               /\ calls'[i] = [calls[i] EXCEPT !.status = s, !.payer = "platform"]
    BY <1>1, <1>2, TakenOver
  <2>. QED BY <2>1, <2>2, <2>3
<1>4. WaitedFor'
  <2>1. \A i \in 1..Len(calls) : Pending(calls[i]) => Pending(calls'[i])
    BY <1>2, <1>3 DEF Pending
  <2>. QED BY <1>0, <2>1, WaitedKept DEF ChargesInv
<1>5. Within(d, tools, deposit)
  <2>1. d \in Seq(CallRow) /\ DOMAIN d = DOMAIN calls
    BY <1>2
  <2>2. calls \in Seq(CallRow) /\ tools \in [Questions -> ToolRow] /\ deposit \in Nat
    BY LedgerIs
  <2>3. Within(calls, tools, deposit)
    BY DEF ChargesInv
  <2>4. \A i \in DOMAIN calls : calls[i].committed \in Nat
    BY <1>2, CallOf
  <2>5. \A i \in DOMAIN calls : d[i].committed <= calls[i].committed /\ (i \in Paid(d) => i \in Paid(calls))
    BY <1>2, <1>3, <2>4 DEF Paid
  <2>. HIDE DEF d
  <2>. QED BY <2>1, <2>2, <2>3, <2>5, CallsFall
<1>6. ASSUME frozen # NoFreeze, ~cancelled
      PROVE  frozen.spent = Debit(d, tools) /\ NothingReserved'
  <2>1. NothingReserved /\ frozen.spent = Debit(calls, tools)
    BY <1>6 DEF ChargesInv, FrozenStands
  <2>2. NothingReserved'
    BY <1>1, <1>2, <1>3, <2>1 DEF NothingReserved
  <2>3. Due(d) = Due(calls) /\ \A i \in Due(calls) : d[i].committed = calls[i].committed
    BY <1>2, <1>3 DEF Due, Paid
  <2>4. d \in Seq(CallRow) /\ calls \in Seq(CallRow)
    BY <1>2
  <2>5. Total(Charge(d), Due(d)) = Total(Charge(calls), Due(calls))
    <3>. HIDE DEF d
    <3>. QED BY <2>3, <2>4, CallsDue
  <2>. QED BY <2>1, <2>2, <2>5 DEF Debit
<1>7. HoldsStand' /\ Within(calls, tools, deposit)'
  BY <1>1, <1>5 DEF ChargesInv, HoldsStand, Within
<1>8. FrozenStands'
  BY <1>1, <1>6 DEF FrozenStands, Debit
<1>. QED BY <1>4, <1>7, <1>8 DEF ChargesInv

\* A step on the row of one purchase.
LEMMA ToolStep ==
    ASSUME StateOK, IInv, ChargesInv, NEW q \in Questions, NEW row \in ToolRow, Put(q, row),
           UNCHANGED <<calls, workers, deposit, frozen, cancelled>>,
           row.state = "reserved" =>
             row.committed = ToolHold \/ (tools[q].state = "reserved" /\ row.committed = tools[q].committed),
           \/ row.committed <= tools[q].committed
           \/ ToolHold <= Available /\ row.committed = ToolHold,
           frozen # NoFreeze /\ ~cancelled /\ tools[q].state # "reserved" =>
             row.state = tools[q].state /\ row.committed = tools[q].committed
    PROVE  ChargesInv'
<1>. DEFINE u == tools'
<1>1. tools \in [Questions -> ToolRow] /\ u = [tools EXCEPT ![q] = row]
  BY LedgerIs DEF Put
<1>2. u[q] = row /\ \A p \in Questions : p # q => u[p] = tools[p]
  BY <1>1
<1>3. HoldsStand'
  BY <1>2 DEF ChargesInv, HoldsStand
<1>4. Within(calls, u, deposit)
  <2>1. \/ row.committed <= tools[q].committed
        \/ row.committed <= deposit - Total(Charge(calls), Paid(calls)) - Total(Toll(tools), Questions)
    <3>1. CASE ToolHold <= Available /\ row.committed = ToolHold
      <4>1. /\ Available \in Nat
            /\ Available > 0 =>
                 Available <= deposit - Total(Charge(calls), Paid(calls)) - Total(Toll(tools), Questions)
        BY HoldFits DEF IInv, StateOK, MoneyOK
      <4>2. ToolHold \in Nat /\ ToolHold > 0
        BY MoneyAssumption
      <4>3. /\ Total(Charge(calls), Paid(calls)) \in Nat /\ Total(Toll(tools), Questions) \in Nat
            /\ deposit \in Nat
        BY LedgerIs, CallsCount, ToolsCount DEF Paid
      <4>. QED BY <3>1, <4>1, <4>2, <4>3
    <3>. QED BY <3>1
  <2>2. Within(calls, tools, deposit)
    BY DEF ChargesInv
  <2>. HIDE DEF u
  <2>. QED BY <1>1, <2>1, <2>2, LedgerIs, ToolFits
<1>5. ASSUME frozen # NoFreeze, ~cancelled
      PROVE  frozen.spent = Debit(calls, u) /\ NothingReserved'
  <2>1. NothingReserved /\ frozen.spent = Debit(calls, tools)
    BY <1>5 DEF ChargesInv, FrozenStands
  <2>2. row.state = tools[q].state /\ row.committed = tools[q].committed
    BY <1>5, <2>1 DEF NothingReserved
  <2>3. Done(u) = Done(tools) /\ \A p \in Done(tools) : u[p].committed = tools[p].committed
    BY <1>2, <2>2 DEF Done
  <2>4. Total(Toll(u), Done(u)) = Total(Toll(tools), Done(tools))
    <3>. HIDE DEF u
    <3>. QED BY <1>1, <2>3, ToolsDone
  <2>5. NothingReserved'
    BY <1>2, <2>1, <2>2 DEF NothingReserved
  <2>. QED BY <2>1, <2>4, <2>5 DEF Debit
<1>6. Within(calls, tools, deposit)' /\ FrozenStands'
  BY <1>4, <1>5 DEF Within, FrozenStands, Debit
<1>7. WaitedFor'
  BY DEF ChargesInv, WaitedFor, Waits
<1>. QED BY <1>3, <1>6, <1>7 DEF ChargesInv

\* The row of a purchase.
LEMMA RowOf ==
    ASSUME IInv, NEW q \in Questions
    PROVE  /\ tools[q] \in ToolRow /\ tools[q].committed \in Nat /\ tools[q].committed \in Costs
           /\ 0 <= tools[q].committed /\ PurchaseFacts(q)
<1>1. tools[q] \in ToolRow /\ PurchaseFacts(q)
  BY DEF IInv, TypesUsed
<1>2. tools[q].committed \in Costs
  BY <1>1 DEF ToolRow
<1>3. tools[q].committed \in Nat
  BY <1>2, CostsAre
<1>. QED BY <1>1, <1>2, <1>3

LEMMA ApproveCharges ==
    ASSUME StateOK, IInv, ChargesInv, NEW q \in Questions, ApproveTool(q), UNCHANGED workers
    PROVE  ChargesInv'
<1>. DEFINE row == [NoTool EXCEPT !.state = "approved", !.rev = rev]
<1>1. row \in ToolRow /\ row.state = "approved" /\ row.committed = 0
  BY CostsAre, RevIsNat DEF NoTool, ToolRow
<1>2. Put(q, row) /\ ~Closed /\ UNCHANGED <<calls, deposit, frozen, cancelled>>
  BY DEF ApproveTool, runVars, escrowVars
<1>3. frozen = NoFreeze
  BY <1>2 DEF Closed
<1>. HIDE DEF row
<1>. QED BY <1>1, <1>2, <1>3, RowOf, ToolStep

LEMMA RunToolCharges ==
    ASSUME StateOK, IInv, ChargesInv, NEW q \in Questions, RunTool(q), UNCHANGED workers
    PROVE  ChargesInv'
<1>. DEFINE row == [tools[q] EXCEPT !.state = "reserved", !.committed = ToolHold, !.step = "prepare"]
<1>1. row \in ToolRow /\ row.committed = ToolHold
  BY RowOf, CostsAre DEF ToolRow
<1>2. /\ Put(q, row) /\ ~Closed /\ ToolHold <= Available
      /\ UNCHANGED <<calls, deposit, frozen, cancelled>>
  BY DEF RunTool, runVars, escrowVars
<1>3. frozen = NoFreeze
  BY <1>2 DEF Closed
<1>. HIDE DEF row
<1>. QED BY <1>1, <1>2, <1>3, ToolStep

\* Steps of a purchase that keep its state and its cost.
LEMMA KeptCharges ==
    ASSUME StateOK, IInv, ChargesInv, NEW q \in Questions, UNCHANGED workers,
           \/ SignPayment(q) \/ SellerPaid(q) \/ ToolLost(q)
           \/ Put(q, [tools[q] EXCEPT !.step = "none"]) /\ UNCHANGED runVars
    PROVE  ChargesInv'
<1>1. UNCHANGED <<calls, deposit, frozen, cancelled>>
  BY DEF SignPayment, SellerPaid, ToolLost, runVars, escrowVars
<1>2. \E step \in {"pay", "answer", "none"}, evidence \in BOOLEAN :
        \/ Put(q, [tools[q] EXCEPT !.step = step, !.evidence = evidence])
        \/ Put(q, [tools[q] EXCEPT !.step = step])
  BY DEF SignPayment, SellerPaid, ToolLost
<1>3. PICK step \in {"pay", "answer", "none"}, evidence \in BOOLEAN :
        \/ Put(q, [tools[q] EXCEPT !.step = step, !.evidence = evidence])
        \/ Put(q, [tools[q] EXCEPT !.step = step])
  BY <1>2
<1>4. ASSUME NEW row \in ToolRow, Put(q, row), row.state = tools[q].state,
             row.committed = tools[q].committed
      PROVE  ChargesInv'
  <2>1. row.committed <= tools[q].committed
    BY <1>4, RowOf
  <2>. QED BY <1>1, <1>4, <2>1, ToolStep
<1>5. CASE Put(q, [tools[q] EXCEPT !.step = step, !.evidence = evidence])
  <2>. DEFINE row == [tools[q] EXCEPT !.step = step, !.evidence = evidence]
  <2>1. row \in ToolRow /\ row.state = tools[q].state /\ row.committed = tools[q].committed
    BY RowOf DEF ToolRow
  <2>2. Put(q, row)
    BY <1>5
  <2>. HIDE DEF row
  <2>. QED BY <1>4, <2>1, <2>2
<1>6. CASE Put(q, [tools[q] EXCEPT !.step = step])
  <2>. DEFINE row == [tools[q] EXCEPT !.step = step]
  <2>1. row \in ToolRow /\ row.state = tools[q].state /\ row.committed = tools[q].committed
    BY RowOf DEF ToolRow
  <2>2. Put(q, row)
    BY <1>6
  <2>. HIDE DEF row
  <2>. QED BY <1>4, <2>1, <2>2
<1>. QED BY <1>3, <1>5, <1>6

\* Steps that finish a reserved purchase, or keep it pending: it costs no more than its hold.
LEMMA FinishedCharges ==
    ASSUME StateOK, IInv, ChargesInv, NEW q \in Questions, UNCHANGED <<workers, runVars>>,
           tools[q].state = "reserved", NEW row \in ToolRow, Put(q, row),
           row.state = "reserved" => row.committed = tools[q].committed
    PROVE  ChargesInv'
<1>1. tools[q].committed = ToolHold
  BY DEF ChargesInv, HoldsStand
<1>2. row.committed \in Costs
  BY DEF ToolRow
<1>3. row.committed <= tools[q].committed
  BY <1>1, <1>2, CostsAre
<1>. QED BY <1>1, <1>3, ToolStep DEF runVars, escrowVars

LEMMA ToolNotSentCharges ==
    ASSUME StateOK, IInv, ChargesInv, NEW q \in Questions, ToolNotSent(q), UNCHANGED workers
    PROVE  ChargesInv'
<1>1. PICK evidence \in BOOLEAN :
        Put(q, [tools[q] EXCEPT !.state = "failed", !.committed = 0, !.step = "none",
                                !.evidence = evidence])
  BY DEF ToolNotSent
<1>. DEFINE row == [tools[q] EXCEPT !.state = "failed", !.committed = 0, !.step = "none",
                                    !.evidence = evidence]
<1>2. row \in ToolRow /\ row.state = "failed"
  BY RowOf, CostsAre DEF ToolRow
<1>3. tools[q].state = "reserved" /\ UNCHANGED runVars
  BY RowOf DEF ToolNotSent, PurchaseFacts
<1>. HIDE DEF row
<1>4. Put(q, row)
  BY <1>1 DEF row
<1>. QED BY <1>2, <1>3, <1>4, FinishedCharges

LEMMA AnsweredCharges ==
    ASSUME StateOK, IInv, ChargesInv, NEW q \in Questions, ToolAnswered(q), UNCHANGED workers
    PROVE  ChargesInv'
<1>1. CASE Closed \/ tools[q].state # "reserved"
  BY <1>1, KeptCharges DEF ToolAnswered
<1>2. CASE ~(Closed \/ tools[q].state # "reserved")
  <2>1. PICK pending \in BOOLEAN, answer \in Answers :
          Put(q, [tools[q] EXCEPT
                    !.step = "none", !.envelope = answer,
                    !.state = IF pending THEN "reserved" ELSE "complete",
                    !.committed = IF pending THEN @
                                  ELSE IF tools[q].step = "answer" THEN PriceOf(q) ELSE 0])
    BY <1>2 DEF ToolAnswered
  <2>. DEFINE cost == IF pending THEN tools[q].committed
                      ELSE IF tools[q].step = "answer" THEN PriceOf(q) ELSE 0
              row == [tools[q] EXCEPT !.step = "none", !.envelope = answer,
                        !.state = IF pending THEN "reserved" ELSE "complete",
                        !.committed = cost]
  <2>2. cost \in Costs
    BY RowOf, CostsAre DEF PriceOf
  <2>3. Put(q, row)
    BY <2>1
  <2>4. pending => cost = tools[q].committed
    OBVIOUS
  <2>. HIDE DEF cost
  <2>5. /\ row \in ToolRow /\ row.state = (IF pending THEN "reserved" ELSE "complete")
        /\ row.committed = cost
    BY <2>2, RowOf DEF ToolRow
  <2>. HIDE DEF row
  <2>6. UNCHANGED runVars /\ tools[q].state = "reserved"
    BY <1>2 DEF ToolAnswered
  <2>. QED BY <2>3, <2>4, <2>5, <2>6, FinishedCharges
<1>. QED BY <1>1, <1>2

LEMMA ReconcileCharges ==
    ASSUME StateOK, IInv, ChargesInv, NEW q \in Questions, ReconcileTool(q), UNCHANGED workers
    PROVE  ChargesInv'
<1>. DEFINE env == IF transfer[q] = "confirmed" /\ tools[q].envelope = "none" THEN "lost"
                   ELSE tools[q].envelope
            row == [tools[q] EXCEPT
                      !.state = IF transfer[q] = "failed" THEN "failed" ELSE "complete",
                      !.committed = ReconciledCost(q), !.envelope = env]
<1>1. ReconciledCost(q) \in Costs
  BY CostsAre DEF ReconciledCost
<1>2. Put(q, row) /\ tools[q].state = "reserved" /\ UNCHANGED runVars
  BY DEF ReconcileTool
<1>3. env \in Answers \cup {"none", "lost"}
  BY RowOf DEF ToolRow
<1>. HIDE DEF env
<1>4. row \in ToolRow /\ row.state # "reserved"
  BY <1>1, <1>3, RowOf DEF ToolRow
<1>. HIDE DEF row
<1>. QED BY <1>2, <1>4, FinishedCharges

LEMMA PurchaseCharges ==
    ASSUME StateOK, IInv, ChargesInv, NEW q \in Questions, Approves(q) \/ Purchase(q),
           UNCHANGED workers
    PROVE  ChargesInv'
<1>1. CASE CircleDecides(q)
  <2>1. UNCHANGED <<calls, tools, deposit, frozen, cancelled>>
    BY <1>1 DEF CircleDecides, runVars, escrowVars
  <2>. QED BY <2>1, QuietStep
<1>. QED BY <1>1, ApproveCharges, RunToolCharges, KeptCharges, ToolNotSentCharges, AnsweredCharges,
        ReconcileCharges DEF Approves, Purchase

\* The customer's money: a deposit is recorded, or what is frozen is what was spent.
LEMMA EscrowCharges ==
    ASSUME StateOK, IInv, ChargesInv, Escrow, UNCHANGED workers PROVE ChargesInv'
<1>1. UNCHANGED <<calls, tools>>
  BY DEF Escrow, Register, FundJob, RecordDeposit, Freeze, Cancel, Split, RecordSplit, toolVars
<1>2. WaitedFor' /\ HoldsStand'
  BY <1>1 DEF ChargesInv, WaitedFor, Waits, HoldsStand
<1>3. Within(calls, tools, deposit)'
  <2>1. deposit' = deposit \/ (deposit = 0 /\ deposit' = Deposit)
    BY DEF Escrow, Register, FundJob, RecordDeposit, Freeze, Cancel, Split, RecordSplit
  <2>2. /\ Total(Charge(calls), Paid(calls)) \in Nat /\ Total(Toll(tools), Questions) \in Nat
        /\ Deposit \in Nat
    BY LedgerIs, CallsCount, ToolsCount, MoneyAssumption DEF Paid
  <2>. QED BY <1>1, <2>1, <2>2 DEF ChargesInv, Within
<1>4. FrozenStands'
  <2>1. CASE UNCHANGED <<frozen, cancelled>>
    BY <1>1, <2>1 DEF ChargesInv, FrozenStands, NothingReserved
  <2>2. CASE cancelled'
    BY <2>2 DEF FrozenStands
  <2>3. CASE Freeze /\ ~cancelled
    <3>1. frozen' = Settlement /\ ~Outstanding
      BY <2>3 DEF Freeze, Freezes
    <3>2. frozen'.spent = Debit(calls, tools)
      BY <3>1, DebitIs DEF Settlement
    <3>3. NothingReserved
      BY <3>1 DEF Outstanding, NothingReserved, ReservedTools, CustomerCalls, CallsOf
    <3>4. Debit(calls', tools') = Debit(calls, tools)
      BY <1>1
    <3>5. NothingReserved'
      BY <1>1, <3>3 DEF NothingReserved
    <3>6. Debit(calls, tools)' = Debit(calls', tools')
      BY DEF Debit, Charge, Due, Paid, Toll, Done
    <3>. QED BY <3>2, <3>4, <3>5, <3>6 DEF FrozenStands
  <2>4. CASE Freeze
    BY <2>2, <2>3, <2>4, Zenon DEF Freeze
  <2>5. CASE Cancel
    BY <2>2, <2>5 DEF Cancel
  <2>6. CASE Register \/ FundJob \/ RecordDeposit \/ Split \/ RecordSplit
    BY <2>1, <2>6 DEF Register, FundJob, RecordDeposit, Split, RecordSplit
  <2>. QED BY <2>4, <2>5, <2>6 DEF Escrow
<1>. QED BY <1>2, <1>3, <1>4 DEF ChargesInv

LEMMA ChargesStep == StateOK /\ IInv /\ ChargesInv /\ [PrivateNext]_privateVars => ChargesInv'
<1>. SUFFICES ASSUME StateOK, IInv, ChargesInv, [PrivateNext]_privateVars PROVE ChargesInv'
  OBVIOUS
<1>1. CASE UNCHANGED privateVars \/ Deploy \/ \E r \in Requests : LeaseExpires(r)
  <2>1. UNCHANGED <<calls, tools, deposit, frozen, cancelled, workers>>
    BY <1>1 DEF privateVars, moneyVars, Deploy, LeaseExpires, moneyOnly, escrowVars, toolVars
  <2>. QED BY <2>1, QuietStep
<1>2. ASSUME NEW w \in Workers, Claims(w) PROVE ChargesInv'
  BY <1>2, QuietWork, RecoverCharges
<1>3. ASSUME NEW w \in Workers, Works(w) PROVE ChargesInv'
  BY <1>3, QuietWork, AdmitCharges, RespondCharges, NotServedCharges DEF Works
<1>. QED BY <1>1, <1>2, <1>3, EscrowCharges, PurchaseCharges DEF PrivateNext

LEMMA ChargesInit == PrivateInit => ChargesInv
<1>. SUFFICES ASSUME PrivateInit PROVE ChargesInv
  OBVIOUS
<1>1. calls = <<>> /\ tools = [q \in Questions |-> NoTool] /\ deposit = 0 /\ frozen = NoFreeze
  BY DEF PrivateInit, MoneyInit
<1>2. WaitedFor
  BY DEF PrivateInit, WaitedFor, Waits, Resting
<1>3. HoldsStand
  BY <1>1 DEF HoldsStand, NoTool
<1>4. DOMAIN calls = {} /\ Paid(calls) = {}
  BY <1>1 DEF Paid
<1>5. Total(Charge(calls), {}) = 0
  BY TotalEmpty
<1>6. Total(Toll(tools), Questions) = 0
  <2>. DEFINE f == Toll(tools)
  <2>1. \A q \in Questions : f[q] = 0
    BY <1>1 DEF Toll, NoTool
  <2>. HIDE DEF f
  <2>2. Total(f, Questions) = 0
    BY <2>1, QuestionsFinite, TotalZero
  <2>. QED BY <2>2 DEF f
<1>7. Within(calls, tools, deposit)
  <2>1. deposit = 0 /\ MonthCap \in Nat
    BY <1>1, MoneyAssumption
  <2>2. Total(Charge(calls), DOMAIN calls) = 0 /\ Total(Charge(calls), Paid(calls)) = 0
    BY <1>4, <1>5
  <2>. QED BY <1>6, <2>1, <2>2 DEF Within
<1>. QED BY <1>1, <1>2, <1>3, <1>7 DEF ChargesInv, FrozenStands

\* What is charged fits, what is frozen stands, in every reachable state.
THEOREM ChargesInvariant == PrivateSpec => [](StateOK /\ ChargesInv)
<1>1. PrivateInit => StateOK /\ ChargesInv
  BY StateInit, ChargesInit
<1>2. IInv /\ (StateOK /\ ChargesInv) /\ [PrivateNext]_privateVars => (StateOK /\ ChargesInv)'
  BY StateStep, ChargesStep
<1>. QED BY <1>1, <1>2, PrivateInvariant, PTL DEF PrivateSpec

-----------------------------------------------------------------------------
(* The journal.  Its owner has it in memory, and an action has one owner.   *)
(* A local operation is performed by the owner that journalled it as        *)
(* started; nobody takes such a journal over, and it is cut only after a    *)
(* model call.  So no local operation is in front of what the journal holds *)
(* twice, and no result is lost but with the whole journal.                 *)

Held(r, w) == receipts[r].state = "processing" /\ receipts[r].owner = w
Owns(w) == workers[w].pc \notin {"idle", "loaded"} /\ Held(workers[w].req, w)

OwnersHaveIt ==
    \A w \in Workers : Owns(w) /\ workers[w].out \notin Unjournalled =>
      journal.req = workers[w].req /\ journal.entries = workers[w].entries

\* A local operation that was started is its owner's, and has not been performed.
AtLocal(m) == m.pc = "started" /\ Work[Len(m.entries)] = "local"
LocalOwned ==
    \A w \in Workers : AtLocal(workers[w]) =>
      Owns(w) /\ performed[Len(workers[w].entries)] = 0

PerformedSaved ==
    \A i \in DOMAIN Work : performed[i] > 0 =>
      performed[i] = 1 /\ Work[i] = "local" /\ i <= Len(journal.entries)

\* A request with a journal is not a new one.
JournalIsOld ==
    journal.entries # <<>> => journal.req \in Requests /\ receipts[journal.req].state # "none"

\* What a worker loaded is still what the journal holds, if its claim is not too late.
\* An export that is open writes no journal.
OpenWork == OpenReceipts \ Exports
Loaded(m) == m.pc = "loaded" /\ m.out \notin Unjournalled
Fresh(e) == e = <<>> \/ e = [i \in DOMAIN journal.entries |-> "complete"]
LoadedFresh ==
    \A w \in Workers :
      Loaded(workers[w]) /\ workers[w].rev = rev /\ OpenWork = {} /\ ~cancelled =>
        Fresh(workers[w].entries)

JournalInv == OwnersHaveIt /\ LocalOwned /\ PerformedSaved /\ JournalIsOld /\ LoadedFresh

\* A run that was not cancelled has one owner, and so has its work always.
LEMMA OwnerIsAlone ==
    ASSUME StateOK, IInv, NEW v \in Workers, NEW w \in Workers, Owns(v), Owns(w),
           cancelled => workers[v].out = "none" /\ workers[w].out = "none"
    PROVE  v = w
<1>1. workers[v].req \in Requests /\ workers[w].req \in Requests
  BY MemoryOf DEF Owns, Remembers
<1>2. Open(workers[v].req) /\ Open(workers[w].req)
  BY DEF Owns, Held, Open
<1>3. cancelled => workers[v].req \notin Exports /\ workers[w].req \notin Exports
  BY MemoryOf DEF Owns, Remembers
<1>4. workers[v].req = workers[w].req
  BY <1>1, <1>2, <1>3 DEF IInv, OneOpen
<1>. QED BY <1>4 DEF Owns, Held

\* Its receipt is open, and that of work is no export.
LEMMA OwnersOpen ==
    ASSUME StateOK, NEW w \in Workers, Owns(w)
    PROVE  /\ workers[w].req \in OpenReceipts /\ workers[w].req \in Requests
           /\ receipts[workers[w].req].state = "processing"
           /\ workers[w].out = "none" => workers[w].req \in OpenWork
BY MemoryOf DEF Owns, Held, OpenReceipts, OpenWork, Remembers

\* The worker that is let through the fence owns its action; one whose work keeps a
\* journal is let through only while the run is not cancelled.
LEMMA FencedOwns ==
    ASSUME StateOK, NEW w \in Workers, Fenced(w), workers[w].pc \notin {"idle", "loaded"}
    PROVE  /\ Owns(w)
           /\ workers[w].out = "none" => ~cancelled /\ workers[w].req \notin Exports
BY MemoryOf DEF Fenced, Owns, Held, Remembers

\* Steps of one worker that leave the journal alone.
LEMMA MemoryStep ==
    ASSUME StateOK, IInv, JournalInv, UNCHANGED <<journal, performed>>, rev' \in Nat, rev <= rev',
           cancelled => cancelled',
           NEW w \in Workers, NEW m, Change(w, m),
           \A s \in Requests, v \in Workers : v # w => (Held(s, v)' <=> Held(s, v)),
           \A s \in Requests : receipts[s].state # "none" => receipts'[s].state # "none",
           OpenWork' = {} => OpenWork = {} \/ rev < rev' \/ cancelled',
           Owns(w)' /\ m.out \notin Unjournalled => journal.req = m.req /\ journal.entries = m.entries,
           AtLocal(m) => Owns(w)' /\ performed[Len(m.entries)] = 0,
           Loaded(m) => Fresh(m.entries)
    PROVE  JournalInv'
<1>1. workers' = [workers EXCEPT ![w] = m] /\ workers \in [Workers -> WorkerRow]
  BY DEF Change, StateOK, WorkersOK
<1>2. workers'[w] = m /\ \A v \in Workers : v # w => workers'[v] = workers[v]
  BY <1>1
<1>3. ASSUME NEW v \in Workers, v # w PROVE Owns(v)' <=> Owns(v)
  <2>1. CASE workers[v].pc \in {"idle", "loaded"}
    BY <1>2, <1>3, <2>1 DEF Owns
  <2>2. CASE workers[v].pc \notin {"idle", "loaded"}
    <3>1. workers[v].req \in Requests
      BY <2>2, MemoryOf DEF Remembers
    <3>2. \A s \in Requests : Held(s, v)' <=> Held(s, v)
      BY <1>3
    <3>. QED BY <1>2, <1>3, <3>1, <3>2 DEF Owns, Held
  <2>. QED BY <2>1, <2>2
<1>4. OwnersHaveIt'
  <2>1. ASSUME NEW v \in Workers, v # w, Owns(v)', workers'[v].out \notin Unjournalled
        PROVE  journal'.req = workers'[v].req /\ journal'.entries = workers'[v].entries
    BY <1>2, <1>3, <2>1 DEF JournalInv, OwnersHaveIt
  <2>2. ASSUME Owns(w)', workers'[w].out \notin Unjournalled
        PROVE  journal'.req = workers'[w].req /\ journal'.entries = workers'[w].entries
    BY <1>2, <2>2
  <2>. QED BY <2>1, <2>2 DEF OwnersHaveIt
<1>5. LocalOwned'
  <2>1. ASSUME NEW v \in Workers, v # w, AtLocal(workers'[v])
        PROVE  Owns(v)' /\ performed'[Len(workers'[v].entries)] = 0
    BY <1>2, <1>3, <2>1 DEF JournalInv, LocalOwned
  <2>2. ASSUME AtLocal(workers'[w]) PROVE Owns(w)' /\ performed'[Len(workers'[w].entries)] = 0
    BY <1>2, <2>2
  <2>3. \A v \in Workers : AtLocal(workers[v])' => AtLocal(workers'[v])
    BY DEF AtLocal
  <2>. QED BY <2>1, <2>2, <2>3 DEF LocalOwned
<1>6. PerformedSaved' /\ JournalIsOld'
  BY DEF JournalInv, PerformedSaved, JournalIsOld
<1>7. LoadedFresh'
  <2>1. ASSUME NEW v \in Workers, v # w, Loaded(workers'[v]), workers'[v].rev = rev',
               OpenWork' = {}, ~cancelled'
        PROVE  Fresh(workers'[v].entries)
    <3>1. workers[v].rev \in Nat /\ workers[v].rev <= rev /\ rev \in Nat
      BY MemoryOf, RevIsNat DEF Remembers
    <3>2. workers[v].rev = rev /\ ~(rev < rev')
      BY <1>2, <2>1, <3>1
    <3>3. OpenWork = {} /\ ~cancelled
      BY <2>1, <3>2
    <3>. QED BY <1>2, <2>1, <3>2, <3>3 DEF JournalInv, LoadedFresh
  <2>2. \A v \in Workers : Loaded(workers[v])' => Loaded(workers'[v])
    BY DEF Loaded
  <2>3. \A v \in Workers : Loaded(workers'[v]) /\ workers'[v].rev = rev' /\ OpenWork' = {} /\ ~cancelled'
          => Fresh(workers'[v].entries)
    BY <1>2, <2>1
  <2>. QED BY <2>2, <2>3 DEF LoadedFresh, Fresh
<1>. QED BY <1>4, <1>5, <1>6, <1>7 DEF JournalInv

\* Steps that only renew a lease or let it run out, or touch no receipt at all.
SameHolders ==
    \A s \in Requests : receipts'[s].state = receipts[s].state /\ receipts'[s].owner = receipts[s].owner

LEMMA LiveOnly ==
    ASSUME IInv, NEW r, NEW b, receipts' = [receipts EXCEPT ![r].live = b] PROVE SameHolders
<1>1. receipts \in [Requests -> ReceiptRow]
  BY DEF IInv, TypesUsed
<1>2. ASSUME NEW s \in Requests
      PROVE  receipts'[s].state = receipts[s].state /\ receipts'[s].owner = receipts[s].owner
  <2>1. receipts[s] \in ReceiptRow
    BY <1>1
  <2>2. receipts'[s] = receipts[s] \/ receipts'[s] = [receipts[s] EXCEPT !.live = b]
    BY <1>1
  <2>. QED BY <2>1, <2>2 DEF ReceiptRow
<1>. QED BY <1>2 DEF SameHolders

LEMMA SameOpen == ASSUME SameHolders PROVE OpenReceipts' = OpenReceipts /\ OpenWork' = OpenWork
BY DEF SameHolders, OpenReceipts, OpenWork

LEMMA StillStep ==
    ASSUME StateOK, IInv, JournalInv, UNCHANGED <<journal, performed, workers, rev>>,
           cancelled => cancelled', SameHolders
    PROVE  JournalInv'
<1>1. OpenWork' = OpenWork
  BY SameOpen
<1>2. ASSUME NEW v \in Workers PROVE Owns(v)' <=> Owns(v)
  BY MemoryOf DEF Owns, Held, SameHolders, Remembers
<1>3. OwnersHaveIt' /\ LocalOwned'
  BY <1>2 DEF JournalInv, OwnersHaveIt, LocalOwned, AtLocal
<1>4. PerformedSaved' /\ JournalIsOld'
  BY DEF JournalInv, PerformedSaved, JournalIsOld, SameHolders
<1>5. LoadedFresh'
  BY <1>1 DEF JournalInv, LoadedFresh, Loaded, Fresh
<1>. QED BY <1>3, <1>4, <1>5 DEF JournalInv

\* The same, of a worker that goes on with the same journal.
LEMMA SameStep ==
    ASSUME StateOK, IInv, JournalInv, UNCHANGED <<journal, performed, rev, cancelled>>, SameHolders,
           NEW w \in Workers, NEW m, Change(w, m), m.pc \notin {"idle", "loaded"},
           workers[w].pc \notin {"idle", "loaded"}, m.req = workers[w].req,
           m.entries = workers[w].entries, m.out = workers[w].out, ~AtLocal(m)
    PROVE  JournalInv'
<1>1. workers'[w] = m
  BY DEF Change, StateOK, WorkersOK
<1>2. workers[w].req \in Requests
  BY MemoryOf DEF Remembers
<1>3. Owns(w)' => Owns(w)
  BY <1>1, <1>2 DEF Owns, Held, SameHolders
<1>4. Owns(w)' /\ m.out \notin Unjournalled => journal.req = m.req /\ journal.entries = m.entries
  BY <1>3 DEF JournalInv, OwnersHaveIt
<1>5. \A s \in Requests, v \in Workers : Held(s, v)' <=> Held(s, v)
  BY DEF Held, SameHolders
<1>6. OpenWork' = OpenWork /\ rev' \in Nat /\ rev <= rev'
  BY SameOpen, RevIsNat
<1>7. \A s \in Requests : receipts[s].state # "none" => receipts'[s].state # "none"
  BY DEF SameHolders
<1>8. ~Loaded(m)
  BY DEF Loaded
<1>. QED BY <1>4, <1>5, <1>6, <1>7, <1>8, MemoryStep

\* A worker rests: whatever it held it lets go of.
LEMMA RestStep ==
    ASSUME StateOK, IInv, JournalInv, UNCHANGED <<journal, performed>>, rev' \in Nat, rev <= rev',
           cancelled => cancelled', NEW w \in Workers, Change(w, Resting),
           \A s \in Requests, v \in Workers : v # w => (Held(s, v)' <=> Held(s, v)),
           \A s \in Requests : receipts[s].state # "none" => receipts'[s].state # "none",
           OpenWork' = {} => OpenWork = {} \/ rev < rev' \/ cancelled'
    PROVE  JournalInv'
<1>. PICK m : m = Resting
  OBVIOUS
<1>1. m.pc = "idle"
  BY DEF Resting
<1>2. Change(w, m)
  OBVIOUS
<1>3. workers'[w] = m
  BY <1>2 DEF Change, StateOK, WorkersOK
<1>4. ~Owns(w)' /\ ~AtLocal(m) /\ ~Loaded(m)
  BY <1>1, <1>3 DEF Owns, AtLocal, Loaded
<1>. QED BY <1>2, <1>4, MemoryStep

\* A worker gives up.
LEMMA FailsHolders ==
    ASSUME StateOK, IInv, NEW w \in Workers, NEW why, Fails(w, why)
    PROVE  /\ \A s \in Requests, v \in Workers : v # w => (Held(s, v)' <=> Held(s, v))
           /\ \A s \in Requests : receipts[s].state # "none" => receipts'[s].state # "none"
           /\ OpenWork' = {} => OpenWork = {} \/ rev < rev' \/ cancelled
           /\ rev' \in Nat /\ rev <= rev'
<1>. DEFINE r == workers[w].req
            mine == receipts[r].state = "processing" /\ receipts[r].owner = w
            failed == (why \notin Recoverables \/ r \in Exports) /\ ReservedCalls(r) = {}
            state == IF failed THEN "failed" ELSE "uncertain"
<1>1. receipts \in [Requests -> ReceiptRow] /\ rev \in Nat
  BY RevIsNat DEF IInv, TypesUsed
<1>2. /\ receipts' = IF ~mine THEN receipts
                     ELSE [receipts EXCEPT ![r].state = state, ![r].why = why]
      /\ rev' = IF mine /\ failed /\ r \notin Exports /\ ~cancelled THEN rev + 1 ELSE rev
  BY DEF Fails
<1>. HIDE DEF failed, r
<1>3. ASSUME NEW s \in Requests
      PROVE  /\ s # r \/ ~mine => receipts'[s] = receipts[s]
             /\ s = r /\ mine => receipts'[s].state = state /\ receipts'[s].owner = w
  <2>1. CASE s # r \/ ~mine
    BY <1>1, <1>2, <2>1
  <2>2. CASE s = r /\ mine
    <3>1. receipts[s] \in ReceiptRow /\ receipts[s].owner = w
      BY <1>1, <2>2
    <3>2. receipts'[s] = [receipts[s] EXCEPT !.state = state, !.why = why]
      BY <1>1, <1>2, <2>2
    <3>. HIDE DEF state
    <3>. QED BY <2>2, <3>1, <3>2 DEF ReceiptRow
  <2>. QED BY <2>1, <2>2
<1>4. \A s \in Requests, v \in Workers : v # w => (Held(s, v)' <=> Held(s, v))
  BY <1>3 DEF Held
<1>5. \A s \in Requests : receipts[s].state # "none" => receipts'[s].state # "none"
  BY <1>3
<1>6. OpenWork' = {} => OpenWork = {} \/ rev < rev' \/ cancelled
  <2>1. CASE ~mine \/ r \notin Requests \ Exports
    BY <1>3, <2>1 DEF OpenReceipts, OpenWork
  <2>2. CASE mine /\ r \in Requests \ Exports /\ ~failed
    BY <1>3, <2>2 DEF OpenReceipts, OpenWork
  <2>3. CASE mine /\ failed /\ r \notin Exports
    BY <1>1, <1>2, <2>3
  <2>. QED BY <2>1, <2>2, <2>3
<1>7. rev' \in Nat /\ rev <= rev'
  BY <1>1, <1>2
<1>. QED BY <1>4, <1>5, <1>6, <1>7

LEMMA FailsJournal ==
    ASSUME StateOK, IInv, JournalInv, NEW w \in Workers, NEW why, Fails(w, why),
           UNCHANGED <<journal, performed, cancelled>>
    PROVE  JournalInv'
<1>1. Change(w, Resting)
  BY DEF Fails
<1>. QED BY <1>1, FailsHolders, RestStep

LEMMA GivesUpJournal ==
    ASSUME StateOK, IInv, JournalInv, NEW w \in Workers,
           \/ AdmitFails(w) \/ RespondLost(w) \/ FencedOut(w) \/ GiveUp(w)
           \/ RespondLimited(w) /\ ~hosted
    PROVE  JournalInv'
<1>1. UNCHANGED <<journal, performed, cancelled>> /\ \E why : Fails(w, why)
  BY DEF AdmitFails, RespondLost, FencedOut, GiveUp, RespondLimited, escrowVars
<1>. QED BY <1>1, FailsJournal

LEMMA DieJournal ==
    ASSUME StateOK, IInv, JournalInv, NEW w \in Workers, Die(w) PROVE JournalInv'
<1>1. Change(w, Resting) /\ UNCHANGED <<journal, performed, rev, cancelled, receipts>>
  BY DEF Die, moneyVars, escrowVars
<1>2. /\ \A s \in Requests, v \in Workers : Held(s, v)' <=> Held(s, v)
      /\ OpenWork' = OpenWork /\ rev' \in Nat /\ rev <= rev'
  BY <1>1, RevIsNat DEF Held, OpenReceipts, OpenWork
<1>. QED BY <1>1, <1>2, RestStep

LEMMA CommitJournal ==
    ASSUME StateOK, IInv, JournalInv, NEW w \in Workers, Commit(w) PROVE JournalInv'
<1>. DEFINE r == workers[w].req
            row == [NoReceipt EXCEPT !.state = "complete"]
<1>1. /\ Change(w, Resting) /\ UNCHANGED <<journal, performed, cancelled>> /\ rev' = rev + 1
      /\ receipts' = [receipts EXCEPT ![r] = row] /\ receipts[r].owner = w
  BY DEF Commit, escrowVars, Fenced
<1>2. row.state = "complete"
  BY DEF NoReceipt
<1>3. receipts \in [Requests -> ReceiptRow] /\ rev \in Nat
  BY RevIsNat DEF IInv, TypesUsed
<1>. HIDE DEF row, r
<1>4. \A s \in Requests : receipts'[s] = (IF s = r THEN row ELSE receipts[s])
  BY <1>1, <1>3
<1>5. /\ \A s \in Requests, v \in Workers : v # w => (Held(s, v)' <=> Held(s, v))
      /\ \A s \in Requests : receipts[s].state # "none" => receipts'[s].state # "none"
  BY <1>1, <1>2, <1>4 DEF Held
<1>6. rev' \in Nat /\ rev <= rev' /\ rev < rev'
  BY <1>1, <1>3
<1>. QED BY <1>1, <1>5, <1>6, RestStep

\* A worker loads what the journal holds.
LEMMA LoadJournal ==
    ASSUME StateOK, IInv, JournalInv, NEW w \in Workers, NEW r \in Requests,
           Load(w, r) \/ LoadEnd(w, r) \/ LoadExport(w, r)
    PROVE  JournalInv'
<1>1. UNCHANGED <<journal, performed, rev, cancelled, receipts>>
  BY DEF Load, LoadEnd, LoadExport, moneyVars, escrowVars
<1>2. /\ \A s \in Requests, v \in Workers : Held(s, v)' <=> Held(s, v)
      /\ OpenWork' = OpenWork /\ rev' \in Nat /\ rev <= rev'
      /\ \A s \in Requests : receipts[s].state # "none" => receipts'[s].state # "none"
  BY <1>1, RevIsNat DEF Held, OpenReceipts, OpenWork
<1>3. PICK m : Change(w, m) /\ m.pc = "loaded" /\ (m.out \notin Unjournalled => Fresh(m.entries))
  <2>1. CASE LoadEnd(w, r) \/ LoadExport(w, r)
    <3>. PICK out \in Unjournalled :
            Change(w, [Resting EXCEPT !.pc = "loaded", !.req = r, !.rev = rev, !.out = out])
      BY <2>1 DEF LoadEnd, LoadExport, Unjournalled
    <3>. DEFINE m == [Resting EXCEPT !.pc = "loaded", !.req = r, !.rev = rev, !.out = out]
    <3>1. Change(w, m)
      OBVIOUS
    <3>2. m.pc = "loaded" /\ m.out = out
      BY DEF Resting
    <3>. HIDE DEF m
    <3>. QED BY <3>1, <3>2
  <2>2. CASE Load(w, r)
    <3>. DEFINE fresh == runStatus \in {"planned", "complete", "ended"}
                e == IF fresh THEN <<>> ELSE [i \in DOMAIN journal.entries |-> "complete"]
                c == IF fresh THEN NotCovered ELSE journal.covered
                m == [Resting EXCEPT !.pc = "loaded", !.req = r, !.rev = rev, !.entries = e,
                                     !.covered = c]
    <3>1. Change(w, m)
      BY <2>2 DEF Load
    <3>2. Fresh(e)
      BY DEF Fresh
    <3>. HIDE DEF e, c
    <3>3. m.pc = "loaded" /\ m.entries = e
      BY DEF Resting
    <3>. HIDE DEF m
    <3>. QED BY <3>1, <3>2, <3>3
  <2>. QED BY <2>1, <2>2
<1>4. workers'[w] = m
  BY <1>3 DEF Change, StateOK, WorkersOK
<1>5. ~Owns(w)' /\ ~AtLocal(m) /\ (Loaded(m) => Fresh(m.entries))
  BY <1>3, <1>4 DEF Owns, AtLocal, Loaded
<1>. QED BY <1>1, <1>2, <1>3, <1>5, MemoryStep

\* A worker that waits, or goes on after a call.
LEMMA CallJournal ==
    ASSUME StateOK, IInv, JournalInv, NEW w \in Workers,
           Admit(w) \/ AdmitRefused(w) \/ Respond(w) \/ RespondNotSent(w) \/ (RespondLimited(w) /\ hosted)
    PROVE  JournalInv'
<1>1. /\ UNCHANGED <<journal, performed, rev, cancelled, receipts>>
      /\ workers[w].pc \in {"started", "waiting"}
  BY DEF Admit, AdmitRefused, Respond, RespondNotSent, RespondLimited, moneyOnly, moneyVars, escrowVars
<1>2. SameHolders
  BY <1>1 DEF SameHolders
<1>3. Kind(w) = "infer" /\ workers[w] \in WorkerRow
  BY WaitingIs, MemoryOf DEF Admit, AdmitRefused, Respond, RespondNotSent, RespondLimited
<1>4. \E m : /\ Change(w, m) /\ m.pc \in {"started", "pop", "waiting", "answered"}
             /\ m.req = workers[w].req /\ m.entries = workers[w].entries /\ m.out = workers[w].out
  <2>1. CASE FallBack(w) \/ NotSent(w)
    <3>1. PICK m \in WorkerRow :
            /\ Change(w, m) /\ m.pc \in {"started", "pop"} /\ m.req = workers[w].req
            /\ m.out = workers[w].out /\ m.entries = workers[w].entries
      BY <1>1, <1>3, <2>1, FallBackRow
    <3>. QED BY <3>1
  <2>2. CASE Admit(w)
    <3>. DEFINE m == [workers[w] EXCEPT !.pc = "waiting", !.call = Len(calls) + 1]
    <3>1. Change(w, m)
      BY <2>2 DEF Admit
    <3>2. /\ m.pc = "waiting" /\ m.req = workers[w].req /\ m.entries = workers[w].entries
          /\ m.out = workers[w].out
      BY <1>3 DEF WorkerRow
    <3>. HIDE DEF m
    <3>. QED BY <3>1, <3>2
  <2>3. CASE Respond(w)
    <3>. DEFINE m == [workers[w] EXCEPT !.pc = "answered"]
    <3>1. Change(w, m)
      BY <2>3 DEF Respond
    <3>2. /\ m.pc = "answered" /\ m.req = workers[w].req /\ m.entries = workers[w].entries
          /\ m.out = workers[w].out
      BY <1>3 DEF WorkerRow
    <3>. HIDE DEF m
    <3>. QED BY <3>1, <3>2
  <2>. QED BY <2>1, <2>2, <2>3 DEF AdmitRefused, RespondNotSent, RespondLimited
<1>5. PICK m : /\ Change(w, m) /\ m.pc \in {"started", "pop", "waiting", "answered"}
               /\ m.req = workers[w].req /\ m.entries = workers[w].entries /\ m.out = workers[w].out
  BY <1>4
<1>6. ~AtLocal(m)
  BY <1>3, <1>5 DEF AtLocal, Kind, At
<1>. QED BY <1>1, <1>2, <1>5, <1>6, SameStep

\* A local operation is performed, for the first time, by the owner of the journal.
LEMMA PerformJournal ==
    ASSUME StateOK, IInv, JournalInv, NEW w \in Workers, PerformLocal(w) PROVE JournalInv'
<1>. DEFINE m == [workers[w] EXCEPT !.pc = "answered"]
            n == Len(workers[w].entries)
<1>1. /\ UNCHANGED <<journal, rev, cancelled, receipts>> /\ Change(w, m)
      /\ performed' = [performed EXCEPT ![n] = @ + 1] /\ workers[w].pc = "started" /\ Work[n] = "local"
  BY DEF PerformLocal, moneyVars, escrowVars, Kind, At
<1>2. /\ workers[w] \in WorkerRow /\ n \in 1..Len(Work) /\ workers[w].out = "none"
      /\ performed \in [DOMAIN Work -> Nat] /\ DOMAIN Work = 1..Len(Work)
  <2>1. Remembers(workers[w]) /\ workers[w] \in WorkerRow
    BY MemoryOf
  <2>2. n \in 1..Len(Work) /\ workers[w].out = "none"
    BY <1>1, <2>1 DEF Remembers, Busy
  <2>. QED BY <2>1, <2>2, WorkIs DEF StateOK, JournalOK
<1>3. /\ m.pc = "answered" /\ m.req = workers[w].req /\ m.entries = workers[w].entries
      /\ m.out = workers[w].out
  BY <1>2 DEF WorkerRow
<1>4. Owns(w) /\ performed[n] = 0
  BY <1>1 DEF JournalInv, LocalOwned, AtLocal
<1>5. journal.entries = workers[w].entries
  BY <1>2, <1>4 DEF JournalInv, OwnersHaveIt, Unjournalled
<1>. HIDE DEF m
<1>6. workers'[w] = m /\ \A v \in Workers : v # w => workers'[v] = workers[v]
  BY <1>1 DEF Change, StateOK, WorkersOK
<1>7. \A v \in Workers : Owns(v)' <=> Owns(v)
  BY <1>1, <1>3, <1>6 DEF Owns, Held
<1>8. OwnersHaveIt'
  BY <1>1, <1>3, <1>6, <1>7 DEF JournalInv, OwnersHaveIt
<1>9. LocalOwned'
  <2>1. ASSUME NEW v \in Workers, AtLocal(workers'[v]) PROVE FALSE
    <3>1. v # w
      BY <1>3, <1>6, <2>1 DEF AtLocal
    <3>2. Owns(v)
      BY <1>6, <2>1, <3>1 DEF JournalInv, LocalOwned
    <3>3. workers[v].out = "none"
      BY <1>6, <2>1, <3>1, MemoryOf DEF AtLocal, Remembers
    <3>. QED BY <1>2, <1>4, <3>1, <3>2, <3>3, OwnerIsAlone
  <2>2. \A v \in Workers : AtLocal(workers[v])' => AtLocal(workers'[v])
    BY DEF AtLocal
  <2>. QED BY <2>1, <2>2 DEF LocalOwned
<1>10. PerformedSaved'
  <2>1. performed'[n] = 1 /\ \A i \in DOMAIN Work : i # n => performed'[i] = performed[i]
    BY <1>1, <1>2, <1>4
  <2>. QED BY <1>1, <1>2, <1>5, <2>1 DEF JournalInv, PerformedSaved
<1>11. JournalIsOld' /\ LoadedFresh'
  <2>1. OpenWork # {}
    BY <1>2, <1>4, OwnersOpen
  <2>. QED BY <1>1, <2>1 DEF JournalInv, JournalIsOld, LoadedFresh, OpenReceipts, OpenWork
<1>. QED BY <1>8, <1>9, <1>10, <1>11 DEF JournalInv

\* The owner writes the journal: what it saves reaches at least as far as what it had.
LEMMA SaveStep ==
    ASSUME StateOK, IInv, JournalInv, NEW w \in Workers, NEW m, Change(w, m),
           workers[w].pc \notin {"idle", "loaded"}, workers[w].out = "none",
           m.pc \notin {"idle", "loaded"}, m.req = workers[w].req, m.entries \in Seq(Marks),
           Saves(w, m.entries), UNCHANGED <<performed, rev, cancelled>>,
           Len(workers[w].entries) <= Len(m.entries),
           m.pc = "started" => Len(m.entries) = Len(workers[w].entries) + 1 /\ Len(m.entries) <= Len(Work)
    PROVE  JournalInv'
<1>1. /\ Fenced(w) /\ journal' = [journal EXCEPT !.entries = m.entries, !.covered = workers[w].covered]
      /\ receipts' = [receipts EXCEPT ![workers[w].req].live = TRUE]
  BY DEF Saves
<1>2. Owns(w) /\ ~cancelled
  BY <1>1, FencedOwns
<1>3. journal.req = workers[w].req /\ journal.entries = workers[w].entries
  BY <1>2 DEF JournalInv, OwnersHaveIt, Unjournalled
<1>4. journal'.req = m.req /\ journal'.entries = m.entries
  BY <1>1, <1>3 DEF StateOK, JournalOK, JournalRow
<1>5. SameHolders
  BY <1>1, LiveOnly
<1>6. workers'[w] = m /\ \A v \in Workers : v # w => workers'[v] = workers[v]
  BY DEF Change, StateOK, WorkersOK
<1>7. workers[w].req \in Requests /\ workers[w].req \in OpenWork /\ OpenWork' = OpenWork
      /\ receipts[workers[w].req].state = "processing"
  BY <1>2, <1>5, OwnersOpen, SameOpen
<1>8. Owns(w)'
  BY <1>2, <1>5, <1>6, <1>7 DEF Owns, Held, SameHolders
<1>9. ASSUME NEW v \in Workers, v # w PROVE ~Owns(v)' /\ ~AtLocal(workers'[v])
  <2>1. ~Owns(v)
    BY <1>2, <1>9, OwnerIsAlone
  <2>2. workers[v].pc \notin {"idle", "loaded"} => workers[v].req \in Requests
    BY MemoryOf DEF Remembers
  <2>3. ~Owns(v)'
    BY <1>5, <1>6, <1>9, <2>1, <2>2 DEF Owns, Held, SameHolders
  <2>4. ~AtLocal(workers[v])
    BY <2>1 DEF JournalInv, LocalOwned
  <2>. QED BY <1>6, <1>9, <2>3, <2>4
<1>10. OwnersHaveIt'
  BY <1>4, <1>6, <1>9 DEF OwnersHaveIt
<1>11. Len(m.entries) \in Nat /\ Len(workers[w].entries) \in Nat
  BY MemoryOf
<1>12. LocalOwned'
  <2>1. ASSUME AtLocal(m) PROVE performed[Len(m.entries)] = 0
    <3>1. Len(m.entries) \in DOMAIN Work /\ Len(m.entries) > Len(journal.entries)
      BY <1>3, <1>11, <2>1, WorkIs DEF AtLocal
    <3>2. performed[Len(m.entries)] \in Nat
      BY <3>1 DEF StateOK, JournalOK
    <3>3. Len(journal.entries) \in Nat
      BY <1>3, <1>11
    <3>. QED BY <1>11, <3>1, <3>2, <3>3 DEF JournalInv, PerformedSaved
  <2>2. \A v \in Workers : AtLocal(workers[v])' => AtLocal(workers'[v])
    BY DEF AtLocal
  <2>3. \A v \in Workers : AtLocal(workers'[v]) => Owns(v)' /\ performed'[Len(workers'[v].entries)] = 0
    BY <1>6, <1>8, <1>9, <2>1
  <2>. QED BY <2>2, <2>3 DEF LocalOwned
<1>13. PerformedSaved'
  <2>1. Len(journal.entries) <= Len(journal'.entries) /\ Len(journal.entries) \in Nat
        /\ Len(journal'.entries) \in Nat
    BY <1>3, <1>4, <1>11
  <2>2. \A i \in DOMAIN Work : i \in Nat
    BY WorkIs
  <2>. QED BY <2>1, <2>2 DEF JournalInv, PerformedSaved
<1>14. JournalIsOld'
  BY <1>4, <1>5, <1>7 DEF JournalIsOld, SameHolders
<1>15. LoadedFresh'
  BY <1>7 DEF LoadedFresh
<1>. QED BY <1>10, <1>12, <1>13, <1>14, <1>15 DEF JournalInv

LEMMA StopJournal ==
    ASSUME StateOK, IInv, JournalInv, NEW w \in Workers, Stop(w) PROVE JournalInv'
<1>. DEFINE old == workers[w]
<1>1. PICK out \in {"paused", "awaiting", "complete"} :
        LET e == IF out = "awaiting" THEN Append(old.entries, "waiting") ELSE old.entries IN
        Saves(w, e) /\ Change(w, [old EXCEPT !.pc = "commit", !.out = out, !.entries = e])
  BY DEF Stop
<1>. DEFINE e == IF out = "awaiting" THEN Append(old.entries, "waiting") ELSE old.entries
<1>2. /\ old \in WorkerRow /\ Remembers(old) /\ old.entries \in Seq(Marks) /\ old.pc = "run"
      /\ UNCHANGED <<performed, rev, cancelled>>
  BY MemoryOf DEF Stop, moneyOnly, escrowVars
<1>3. e \in Seq(Marks) /\ Len(old.entries) <= Len(e)
  BY <1>2 DEF Marks
<1>4. PICK m : m = [old EXCEPT !.pc = "commit", !.out = out, !.entries = e]
  OBVIOUS
<1>5. Saves(w, e) /\ Change(w, m)
  BY <1>1, <1>4
<1>. HIDE DEF e
<1>6. m.pc = "commit" /\ m.req = old.req /\ m.entries = e
  BY <1>2, <1>4 DEF WorkerRow
<1>7. old.out = "none"
  BY <1>2 DEF Remembers
<1>. QED BY <1>2, <1>3, <1>5, <1>6, <1>7, SaveStep

LEMMA StartJournal ==
    ASSUME StateOK, IInv, JournalInv, NEW w \in Workers, Start(w) PROVE JournalInv'
<1>. DEFINE old == workers[w]
            e == Append(old.entries, "started")
<1>1. /\ old \in WorkerRow /\ Remembers(old) /\ old.entries \in Seq(Marks) /\ old.pc = "run"
      /\ UNCHANGED <<performed, rev, cancelled>> /\ Saves(w, e)
      /\ Len(old.entries) < Len(Work) /\ Len(old.entries) \in Nat
  BY MemoryOf DEF Start, At, moneyOnly, escrowVars
<1>2. "started" \in Marks
  BY DEF Marks
<1>3. e \in Seq(Marks) /\ Len(e) = Len(old.entries) + 1
  BY <1>1, <1>2, Added
<1>4. Len(e) <= Len(Work) /\ Len(old.entries) <= Len(e)
  BY <1>1, <1>3, WorkIs
<1>5. PICK m : m = [old EXCEPT !.pc = "started", !.entries = e, !.rail = 1]
  OBVIOUS
<1>6. Change(w, m)
  BY <1>5 DEF Start
<1>. HIDE DEF e
<1>7. m.pc = "started" /\ m.req = old.req /\ m.entries = e
  BY <1>1, <1>5 DEF WorkerRow
<1>8. old.out = "none"
  BY <1>1 DEF Remembers
<1>. QED BY <1>1, <1>3, <1>4, <1>6, <1>7, <1>8, SaveStep

LEMMA SaveResultJournal ==
    ASSUME StateOK, IInv, JournalInv, NEW w \in Workers, SaveResult(w) PROVE JournalInv'
<1>. DEFINE old == workers[w]
            e == Append(Front(old.entries), "complete")
<1>1. /\ old \in WorkerRow /\ Remembers(old) /\ old.entries \in Seq(Marks) /\ old.pc = "answered"
      /\ UNCHANGED <<performed, rev, cancelled>> /\ Saves(w, e)
  BY MemoryOf DEF SaveResult, moneyOnly, escrowVars
<1>2. Len(old.entries) > 0 /\ Len(old.entries) \in Nat /\ old.out = "none"
  BY <1>1 DEF Remembers, Busy
<1>3. e \in Seq(Marks) /\ Len(e) = Len(old.entries)
  BY <1>1, <1>2, Finished
<1>4. Len(old.entries) <= Len(e)
  BY <1>2, <1>3
<1>5. PICK m : m = [old EXCEPT !.pc = "run", !.entries = e, !.call = 0]
  OBVIOUS
<1>6. Change(w, m)
  BY <1>5 DEF SaveResult
<1>. HIDE DEF e
<1>7. m.pc = "run" /\ m.req = old.req /\ m.entries = e
  BY <1>1, <1>5 DEF WorkerRow
<1>. QED BY <1>1, <1>2, <1>3, <1>4, <1>6, <1>7, SaveStep

\* A worker takes work: new work while nothing is open, or the open one whose local
\* operations are all answered.
LEMMA TakeStep ==
    ASSUME StateOK, IInv, JournalInv, ~cancelled, NEW w \in Workers, NEW r \in Requests, NEW m, NEW row,
           Change(w, m), receipts' = [receipts EXCEPT ![r] = row],
           row.state = "processing", row.owner = w, OpenReceipts = {} \/ Open(r),
           \A v \in Workers : ~AtLocal(workers[v]),
           m.pc = "run", m.req = r, r \notin Exports,
           journal'.req = m.req /\ journal'.entries = m.entries,
           PerformedSaved', JournalIsOld'
    PROVE  JournalInv'
<1>1. workers'[w] = m /\ \A v \in Workers : v # w => workers'[v] = workers[v]
  BY DEF Change, StateOK, WorkersOK
<1>2. receipts'[r] = row /\ \A s \in Requests : s # r => receipts'[s] = receipts[s]
  BY DEF IInv, TypesUsed
<1>3. ASSUME NEW v \in Workers, v # w PROVE ~Owns(v)'
  <2>1. SUFFICES ASSUME Owns(v)' PROVE FALSE
    OBVIOUS
  <2>2. /\ workers[v].pc \notin {"idle", "loaded"} /\ receipts'[workers[v].req].owner = v
        /\ receipts'[workers[v].req].state = "processing"
    BY <1>1, <1>3, <2>1 DEF Owns, Held
  <2>3. workers[v].req \in Requests
    BY <2>2, MemoryOf DEF Remembers
  <2>4. workers[v].req # r
    BY <1>2, <1>3, <2>2
  <2>5. Owns(v)
    BY <1>2, <2>2, <2>3, <2>4 DEF Held, Owns
  <2>6. workers[v].req \in OpenReceipts /\ Open(workers[v].req)
    BY <2>5, OwnersOpen DEF OpenReceipts, Open
  <2>. QED BY <2>3, <2>4, <2>6 DEF IInv, OneOpen
<1>4. OwnersHaveIt'
  BY <1>1, <1>3 DEF OwnersHaveIt
<1>5. LocalOwned'
  <2>1. \A v \in Workers : ~AtLocal(workers'[v])
    BY <1>1 DEF AtLocal
  <2>2. \A v \in Workers : AtLocal(workers[v])' => AtLocal(workers'[v])
    BY DEF AtLocal
  <2>. QED BY <2>1, <2>2 DEF LocalOwned
<1>6. r \in OpenWork'
  BY <1>2 DEF OpenReceipts, OpenWork
<1>7. LoadedFresh'
  BY <1>6 DEF LoadedFresh
<1>. QED BY <1>4, <1>5, <1>7 DEF JournalInv

\* What is loaded is what was journalled, with every entry answered, or nothing.
LEMMA ClaimedEntries ==
    ASSUME StateOK, IInv, JournalInv, NEW w \in Workers, Claim(w), MayClaim(w),
           workers[w].out \notin Unjournalled
    PROVE  Fresh(workers[w].entries) /\ ~cancelled /\ OpenReceipts = {}
<1>1. workers[w].req \notin Exports
  BY MemoryOf DEF Claim, Remembers, Unjournalled
<1>2. /\ Loaded(workers[w]) /\ workers[w].rev = rev /\ OpenReceipts = {} /\ OpenWork = {}
      /\ ~cancelled
  BY <1>1 DEF Claim, MayClaim, Loaded, OpenWork
<1>. QED BY <1>2 DEF JournalInv, LoadedFresh

LEMMA ClaimJournal ==
    ASSUME StateOK, IInv, JournalInv, NEW w \in Workers, Claim(w) PROVE JournalInv'
<1>. DEFINE old == workers[w]
            ending == old.out \in Unjournalled
<1>1. /\ old \in WorkerRow /\ Remembers(old) /\ old.pc = "loaded" /\ old.req \in Requests
      /\ UNCHANGED <<rev, cancelled>> /\ rev \in Nat /\ old.entries \in Seq(Marks)
  BY MemoryOf, RevIsNat DEF Claim, Remembers, moneyOnly, escrowVars
<1>2. CASE ~MayClaim(w)
  <2>1. Change(w, Resting) /\ UNCHANGED <<receipts, journal, performed>>
    BY <1>2 DEF Claim
  <2>2. /\ \A s \in Requests, v \in Workers : Held(s, v)' <=> Held(s, v)
        /\ OpenWork' = OpenWork
    BY <2>1 DEF Held, OpenReceipts, OpenWork
  <2>. QED BY <1>1, <2>1, <2>2, RestStep
<1>3. CASE MayClaim(w)
  <2>. DEFINE r == old.req
  <2>1. PICK m : m = [old EXCEPT !.pc = IF ending THEN "commit" ELSE "run"]
    OBVIOUS
  <2>2. PICK row : row = [NoReceipt EXCEPT !.state = "processing", !.owner = w, !.live = TRUE]
    OBVIOUS
  <2>3. Change(w, m) /\ receipts' = [receipts EXCEPT ![r] = row]
    BY <1>3, <2>1, <2>2 DEF Claim
  <2>4. row.state = "processing" /\ row.owner = w
    BY <2>2 DEF NoReceipt
  <2>5. /\ m.pc = (IF ending THEN "commit" ELSE "run") /\ m.req = r /\ m.out = old.out
        /\ m.entries = old.entries
    BY <1>1, <2>1 DEF WorkerRow
  <2>6. receipts[r].state = "none"
    BY <1>3 DEF MayClaim
  <2>7. receipts'[r] = row /\ \A s \in Requests : s # r => receipts'[s] = receipts[s]
    BY <1>1, <2>3 DEF IInv, TypesUsed
  <2>8. CASE ending
    <3>1. UNCHANGED <<journal, performed>>
      BY <1>3, <2>8 DEF Claim
    <3>2. \A s \in Requests, v \in Workers : v # w => (Held(s, v)' <=> Held(s, v))
      BY <2>4, <2>6, <2>7 DEF Held
    <3>3. \A s \in Requests : receipts[s].state # "none" => receipts'[s].state # "none"
      BY <2>4, <2>7
    <3>4. OpenWork' = {} => OpenWork = {}
      BY <2>4, <2>6, <2>7 DEF OpenWork, OpenReceipts
    <3>5. ~AtLocal(m) /\ ~Loaded(m) /\ m.out \in Unjournalled
      BY <2>5, <2>8 DEF AtLocal, Loaded
    <3>. QED BY <1>1, <2>3, <3>1, <3>2, <3>3, <3>4, <3>5, MemoryStep
  <2>9. CASE ~ending
    <3>0. OpenReceipts = {} /\ ~cancelled /\ Fresh(old.entries) /\ r \notin Exports
      BY <1>1, <1>3, <2>9, ClaimedEntries DEF Remembers, Unjournalled
    <3>1. /\ journal' = [entries |-> old.entries, req |-> r, rev |-> rev, covered |-> old.covered]
          /\ performed' = IF old.entries = <<>> THEN [i \in DOMAIN Work |-> 0] ELSE performed
      BY <1>3, <2>9 DEF Claim
    <3>2. journal'.req = r /\ journal'.entries = old.entries
      BY <3>1
    <3>3. JournalIsOld'
      BY <1>1, <2>4, <2>7, <3>2 DEF JournalIsOld
    <3>4. PerformedSaved'
      <4>1. CASE old.entries = <<>>
        BY <3>1, <4>1 DEF PerformedSaved
      <4>2. CASE old.entries # <<>>
        <5>1. old.entries = [i \in DOMAIN journal.entries |-> "complete"]
          BY <3>0, <4>2 DEF Fresh
        <5>2. journal.entries \in Seq(Marks)
          BY DEF StateOK, JournalOK, JournalRow
        <5>3. Len(old.entries) = Len(journal.entries)
          BY <5>1, <5>2, AllComplete
        <5>. QED BY <3>1, <3>2, <4>2, <5>3 DEF JournalInv, PerformedSaved
      <4>. QED BY <4>1, <4>2
    <3>5. journal'.req = m.req /\ journal'.entries = m.entries /\ m.pc = "run"
      BY <2>5, <2>9, <3>2
    <3>6. \A v \in Workers : ~AtLocal(workers[v])
      BY <3>0, OwnersOpen DEF JournalInv, LocalOwned
    <3>. QED BY <1>1, <2>3, <2>4, <2>5, <3>0, <3>3, <3>4, <3>5, <3>6, TakeStep
  <2>. QED BY <2>8, <2>9
<1>. QED BY <1>2, <1>3

\* An operation that is not answered is the last entry of the journal, a model call; a
\* started local operation of an owner is neither.
LEMMA RecoverJournal ==
    ASSUME StateOK, IInv, JournalInv, NEW w \in Workers, NEW r \in Requests, Recover(w, r)
    PROVE  JournalInv'
<1>. DEFINE cut == Interrupted(r) \/ Rejected(r) \/ NeverAdmitted(r)
            old == journal.entries
            e == IF cut THEN Front(old) ELSE old
            c == [lost |-> journal.covered.lost + (IF Interrupted(r) THEN 1 ELSE 0),
                  limited |-> journal.covered.limited + (IF Rejected(r) THEN 1 ELSE 0)]
<1>1. /\ journal \in JournalRow /\ old \in Seq(Marks) /\ Len(old) \in Nat /\ Len(old) <= Len(Work)
      /\ DOMAIN old = 1..Len(old)
  BY DEF StateOK, JournalOK, JournalRow
<1>2. /\ Unfinished(e) = {} /\ Open(r) /\ UNCHANGED performed /\ ~cancelled /\ r \notin Exports
      /\ journal.req = r /\ journal' = [journal EXCEPT !.entries = e, !.covered = c]
  BY DEF Recover, OpenReceipts, Open
<1>3. cut => Unfinished(old) = {Len(old)} /\ Work[Len(old)] = "infer"
  BY DEF Interrupted, Rejected, NeverAdmitted, LastIsCall
<1>4. cut => Len(old) > 0 /\ Len(e) = Len(old) - 1
  BY <1>1, <1>3, Dropped DEF Unfinished
<1>5. PICK m : m = [Resting EXCEPT !.pc = "run", !.req = r, !.rev = rev, !.entries = e,
                                   !.covered = c]
  OBVIOUS
<1>6. PICK row : row = [NoReceipt EXCEPT !.state = "processing", !.owner = w, !.live = TRUE]
  OBVIOUS
<1>7. Change(w, m) /\ receipts' = [receipts EXCEPT ![r] = row]
  BY <1>5, <1>6 DEF Recover
<1>8. row.state = "processing" /\ row.owner = w
  BY <1>6 DEF NoReceipt
<1>9. m.pc = "run" /\ m.req = r /\ m.entries = e
  BY <1>5 DEF Resting
<1>10. ASSUME NEW v \in Workers PROVE ~AtLocal(workers[v])
  <2>1. SUFFICES ASSUME AtLocal(workers[v]) PROVE FALSE
    OBVIOUS
  <2>2. workers[v].pc = "started" /\ Work[Len(workers[v].entries)] = "local" /\ Owns(v)
    BY <2>1 DEF JournalInv, LocalOwned, AtLocal
  <2>3. Remembers(workers[v])
    BY MemoryOf
  <2>4. /\ workers[v].out = "none" /\ Len(workers[v].entries) > 0
        /\ workers[v].entries[Len(workers[v].entries)] = "started"
    BY <2>2, <2>3 DEF Remembers, Busy
  <2>5. workers[v].entries = old
    BY <2>2, <2>4 DEF JournalInv, OwnersHaveIt, Unjournalled
  <2>6. Len(old) \in Unfinished(old) /\ Work[Len(old)] = "local"
    BY <1>1, <2>2, <2>4, <2>5 DEF Unfinished
  <2>7. ~cut
    BY <1>3, <2>6
  <2>. QED BY <1>2, <2>6, <2>7
<1>. HIDE DEF c
<1>11. journal'.req = r /\ journal'.entries = e
  BY <1>1, <1>2 DEF JournalRow
<1>12. receipts'[r] = row
  BY <1>7 DEF IInv, TypesUsed
<1>13. JournalIsOld'
  BY <1>8, <1>11, <1>12 DEF JournalIsOld
<1>14. PerformedSaved'
  <2>1. \A i \in DOMAIN Work : i \in Nat
    BY WorkIs
  <2>2. ASSUME NEW i \in DOMAIN Work, performed[i] > 0
        PROVE  performed[i] = 1 /\ Work[i] = "local" /\ i <= Len(e)
    <3>1. performed[i] = 1 /\ Work[i] = "local" /\ i <= Len(old)
      BY <2>2 DEF JournalInv, PerformedSaved
    <3>2. CASE cut
      <4>1. i # Len(old)
        BY <1>3, <3>1, <3>2
      <4>. QED BY <1>1, <1>4, <2>1, <3>1, <3>2, <4>1
    <3>3. CASE ~cut
      BY <3>1, <3>3
    <3>. QED BY <3>2, <3>3
  <2>. QED BY <1>2, <1>11, <2>2 DEF PerformedSaved
<1>. HIDE DEF e
<1>15. journal'.req = m.req /\ journal'.entries = m.entries
  BY <1>9, <1>11
<1>. QED BY <1>2, <1>7, <1>8, <1>9, <1>10, <1>13, <1>14, <1>15, TakeStep

\* The entry of a call that was not sent is taken out by the owner, who lets go of the
\* action without closing it.
LEMMA PopJournal ==
    ASSUME StateOK, IInv, JournalInv, NEW w \in Workers, Pop(w) PROVE JournalInv'
<1>. DEFINE old == workers[w].entries
<1>1. Fails(w, "exhausted") /\ UNCHANGED <<performed, cancelled>> /\ workers[w].pc = "pop"
  BY DEF Pop, escrowVars
<1>2. CASE ~Fenced(w)
  BY <1>1, <1>2, FailsJournal DEF Pop
<1>3. CASE Fenced(w)
  <2>1. journal' = [journal EXCEPT !.entries = Front(old)]
    BY <1>3 DEF Pop
  <2>3. Remembers(workers[w]) /\ old \in Seq(Marks) /\ Len(old) \in Nat
    BY MemoryOf
  <2>4. Len(old) > 0 /\ Work[Len(old)] = "infer" /\ workers[w].out = "none"
    BY <1>1, <2>3 DEF Remembers, Busy
  <2>2. Owns(w) /\ ~cancelled /\ workers[w].req \notin Exports
    BY <1>1, <1>3, <2>4, FencedOwns
  <2>5. journal.req = workers[w].req /\ journal.entries = old
    BY <2>2, <2>4 DEF JournalInv, OwnersHaveIt, Unjournalled
  <2>6. Len(Front(old)) = Len(old) - 1
    BY <2>3, <2>4, Dropped
  <2>. PICK e : e = Front(old)
    OBVIOUS
  <2>7. journal'.req = journal.req /\ journal'.entries = e /\ Len(e) = Len(old) - 1
    BY <2>1, <2>6 DEF StateOK, JournalOK, JournalRow
  <2>8. workers' = [workers EXCEPT ![w] = Resting] /\ workers \in [Workers -> WorkerRow]
    BY <1>1 DEF Fails, Change, StateOK, WorkersOK
  <2>9. workers'[w].pc = "idle" /\ \A v \in Workers : v # w => workers'[v] = workers[v]
    BY <2>8 DEF Resting
  <2>10. /\ \A s \in Requests, v \in Workers : v # w => (Held(s, v)' <=> Held(s, v))
         /\ \A s \in Requests : receipts[s].state # "none" => receipts'[s].state # "none"
         /\ OpenWork' = {} => OpenWork = {} \/ rev < rev' \/ cancelled
    BY <1>1, FailsHolders
  <2>11. ASSUME NEW v \in Workers PROVE ~Owns(v)' /\ ~AtLocal(workers'[v])
    <3>1. CASE v = w
      BY <2>9, <3>1 DEF Owns, AtLocal
    <3>2. CASE v # w
      <4>1. ~Owns(v)
        BY <2>2, <3>2, OwnerIsAlone
      <4>2. workers[v].pc \notin {"idle", "loaded"} => workers[v].req \in Requests
        BY MemoryOf DEF Remembers
      <4>3. \A s \in Requests : Held(s, v)' <=> Held(s, v)
        BY <2>10, <3>2
      <4>4. ~Owns(v)'
        BY <2>9, <3>2, <4>1, <4>2, <4>3 DEF Owns, Held
      <4>5. ~AtLocal(workers[v])
        BY <4>1 DEF JournalInv, LocalOwned
      <4>. QED BY <2>9, <3>2, <4>4, <4>5
    <3>. QED BY <3>1, <3>2
  <2>12. OwnersHaveIt'
    BY <2>11 DEF OwnersHaveIt
  <2>13. LocalOwned'
    <3>1. \A v \in Workers : AtLocal(workers[v])' => AtLocal(workers'[v])
      BY DEF AtLocal
    <3>. QED BY <2>11, <3>1 DEF LocalOwned
  <2>14. PerformedSaved'
    <3>1. \A i \in DOMAIN Work : i \in Nat
      BY WorkIs
    <3>2. ASSUME NEW i \in DOMAIN Work, performed[i] > 0
          PROVE  performed[i] = 1 /\ Work[i] = "local" /\ i <= Len(e)
      <4>1. performed[i] = 1 /\ Work[i] = "local" /\ i <= Len(old)
        BY <2>5, <3>2 DEF JournalInv, PerformedSaved
      <4>2. i # Len(old)
        BY <2>4, <4>1
      <4>. QED BY <2>3, <2>7, <3>1, <4>1, <4>2
    <3>. QED BY <1>1, <2>7, <3>2 DEF PerformedSaved
  <2>15. JournalIsOld'
    <3>1. workers[w].req \in Requests /\ receipts[workers[w].req].state = "processing"
      BY <2>2, OwnersOpen
    <3>. QED BY <2>5, <2>7, <2>10, <3>1 DEF JournalIsOld
  <2>16. LoadedFresh'
    <3>1. OpenWork # {} /\ rev \in Nat
      BY <2>2, <2>4, OwnersOpen, RevIsNat
    <3>2. rev' = rev
      BY <1>1, <2>2 DEF Fails, Recoverables
    <3>3. OpenWork' # {}
      BY <2>2, <2>10, <3>1, <3>2
    <3>. QED BY <3>3 DEF LoadedFresh
  <2>. QED BY <2>12, <2>13, <2>14, <2>15, <2>16 DEF JournalInv
<1>. QED BY <1>2, <1>3

\* The steps of the owner and the chain, the purchases, and what renews a lease.
LEMMA EscrowJournal ==
    ASSUME StateOK, IInv, JournalInv, Escrow, UNCHANGED <<journal, workers, performed>> PROVE JournalInv'
<1>1. UNCHANGED <<rev, receipts>>
  BY DEF Escrow, Register, FundJob, RecordDeposit, Freeze, Cancel, Split, RecordSplit
<1>2. cancelled' = cancelled \/ cancelled' = TRUE
  BY DEF Escrow, Register, FundJob, RecordDeposit, Freeze, Cancel, Split, RecordSplit
<1>3. cancelled => cancelled'
  BY <1>2, Zenon
<1>4. SameHolders
  BY <1>1 DEF SameHolders
<1>. QED BY <1>1, <1>3, <1>4, StillStep

LEMMA PurchaseJournal ==
    ASSUME StateOK, IInv, JournalInv, NEW q \in Questions, ApproveTool(q) \/ Purchase(q),
           UNCHANGED <<journal, workers, performed>>
    PROVE  JournalInv'
<1>1. UNCHANGED runVars
  BY DEF Purchase, ApproveTool, RunTool, SignPayment, ToolNotSent, SellerPaid, ToolLost,
         ToolAnswered, CircleDecides, ReconcileTool
<1>2. UNCHANGED <<rev, receipts, cancelled>>
  BY <1>1 DEF runVars, escrowVars
<1>3. SameHolders
  BY <1>2 DEF SameHolders
<1>. QED BY <1>2, <1>3, StillStep

LEMMA LeaseJournal ==
    ASSUME StateOK, IInv, JournalInv,
           (\E w \in Workers : Heartbeat(w)) \/ \E r \in Requests : LeaseExpires(r)
    PROVE  JournalInv'
<1>1. UNCHANGED <<rev, cancelled, journal, workers, performed>>
  BY DEF Heartbeat, LeaseExpires, moneyOnly, escrowVars
<1>2. SameHolders
  BY LiveOnly DEF Heartbeat, LeaseExpires
<1>. QED BY <1>1, <1>2, StillStep

LEMMA IdleJournal ==
    ASSUME StateOK, IInv, JournalInv, Deploy \/ UNCHANGED privateVars PROVE JournalInv'
<1>1. UNCHANGED <<rev, cancelled, receipts, journal, workers, performed>>
  BY DEF Deploy, privateVars, moneyVars, escrowVars
<1>2. SameHolders
  BY <1>1 DEF SameHolders
<1>. QED BY <1>1, <1>2, StillStep

LEMMA JournalStep == StateOK /\ IInv /\ JournalInv /\ [PrivateNext]_privateVars => JournalInv'
<1>. SUFFICES ASSUME StateOK, IInv, JournalInv, [PrivateNext]_privateVars PROVE JournalInv'
  OBVIOUS
<1>1. ASSUME NEW w \in Workers, Claims(w) PROVE JournalInv'
  BY <1>1, LoadJournal, RecoverJournal DEF Claims
<1>2. ASSUME NEW w \in Workers, Works(w) PROVE JournalInv'
  <2>1. CASE Claim(w) \/ Heartbeat(w) \/ Stop(w) \/ Start(w) \/ PerformLocal(w) \/ SaveResult(w)
              \/ Pop(w) \/ Commit(w) \/ Die(w)
    BY <2>1, ClaimJournal, LeaseJournal, StopJournal, StartJournal, PerformJournal,
       SaveResultJournal, PopJournal, CommitJournal, DieJournal
  <2>2. CASE Admit(w) \/ AdmitRefused(w) \/ Respond(w) \/ RespondNotSent(w) \/ RespondLimited(w)
    BY <2>2, CallJournal, GivesUpJournal
  <2>3. CASE AdmitFails(w) \/ RespondLost(w) \/ FencedOut(w) \/ GiveUp(w)
    BY <2>3, GivesUpJournal
  <2>. QED BY <1>2, <2>1, <2>2, <2>3 DEF Works
<1>. QED BY <1>1, <1>2, EscrowJournal, PurchaseJournal, LeaseJournal, IdleJournal
         DEF PrivateNext, Approves

LEMMA JournalInit == PrivateInit => JournalInv
<1>. SUFFICES ASSUME PrivateInit PROVE JournalInv
  OBVIOUS
<1>1. \A w \in Workers : workers[w].pc = "idle"
  BY DEF PrivateInit, Resting
<1>2. journal.entries = <<>> /\ \A i \in DOMAIN Work : performed[i] = 0
  BY DEF PrivateInit, NoJournal
<1>. QED BY <1>1, <1>2 DEF JournalInv, OwnersHaveIt, Owns, LocalOwned, AtLocal, PerformedSaved,
                           JournalIsOld, LoadedFresh, Loaded

\* One owner at a time writes the journal, from what it holds, in every reachable state.
THEOREM JournalInvariant == PrivateSpec => []JournalInv
<1>1. StateOK /\ ChargesInv => StateOK
  OBVIOUS
<1>. QED BY <1>1, JournalInit, JournalStep, PrivateInvariant, ChargesInvariant, PTL DEF PrivateSpec

-----------------------------------------------------------------------------
(* Results are kept *)

Kept(e, f) == \A i \in DOMAIN e : e[i] = "complete" => i \in DOMAIN f /\ f[i] = "complete"

\* What a worker saves keeps every result: an entry is added, the last is finished, or
\* one without a result is taken out.
LEMMA KeptAdded == ASSUME NEW s \in Seq(Marks), NEW x \in Marks PROVE Kept(s, Append(s, x))
<1>1. /\ Append(s, x) \in Seq(Marks) /\ Len(Append(s, x)) = Len(s) + 1
      /\ \A i \in 1..Len(s) : Append(s, x)[i] = s[i]
  BY Added
<1>. PICK t : t = Append(s, x)
  OBVIOUS
<1>2. DOMAIN s = 1..Len(s) /\ DOMAIN t = 1..Len(t) /\ Len(t) = Len(s) + 1 /\ Len(s) \in Nat
  BY <1>1
<1>. QED BY <1>1, <1>2 DEF Kept

LEMMA KeptFinished ==
    ASSUME NEW s \in Seq(Marks), Len(s) > 0 PROVE Kept(s, Append(Front(s), "complete"))
<1>0. PICK t : t = Append(Front(s), "complete")
  OBVIOUS
<1>1. t \in Seq(Marks) /\ Len(t) = Len(s) /\ t[Len(t)] = "complete" /\ \A i \in 1..Len(s) - 1 : t[i] = s[i]
  BY <1>0, Finished
<1>2. DOMAIN s = 1..Len(s) /\ DOMAIN t = 1..Len(s) /\ Len(s) \in Nat
  BY <1>1
<1>3. ASSUME NEW i \in 1..Len(s), s[i] = "complete" PROVE t[i] = "complete"
  <2>. PICK n \in Nat : n = Len(s)
    BY <1>2
  <2>1. i = n \/ i \in 1..n - 1
    OBVIOUS
  <2>. QED BY <1>1, <1>3, <2>1
<1>. QED BY <1>0, <1>2, <1>3 DEF Kept

LEMMA KeptDropped ==
    ASSUME NEW s \in Seq(Marks), Len(s) > 0, s[Len(s)] # "complete" PROVE Kept(s, Front(s))
<1>. PICK t : t = Front(s)
  OBVIOUS
<1>1. t \in Seq(Marks) /\ Len(t) = Len(s) - 1 /\ \A i \in 1..Len(s) - 1 : t[i] = s[i]
  BY Dropped
<1>2. DOMAIN s = 1..Len(s) /\ DOMAIN t = 1..Len(s) - 1 /\ Len(s) \in Nat
  BY <1>1
<1>3. ASSUME NEW i \in 1..Len(s), s[i] = "complete" PROVE i \in 1..Len(s) - 1
  BY <1>2, <1>3
<1>. QED BY <1>1, <1>2, <1>3 DEF Kept

\* A step on the journal starts a new one or keeps the results.
KeepsResults ==
    journal'.req = journal.req \/ journal'.entries # <<>> => Kept(journal.entries, journal'.entries)

LEMMA ClaimKeeps ==
    ASSUME StateOK, IInv, JournalInv, NEW w \in Workers, Claim(w) PROVE KeepsResults
<1>. DEFINE r == workers[w].req
            e == workers[w].entries
<1>1. CASE ~MayClaim(w) \/ workers[w].out \in Unjournalled
  <2>1. journal' = journal
    BY <1>1 DEF Claim
  <2>. QED BY <2>1 DEF KeepsResults, Kept
<1>2. CASE MayClaim(w) /\ workers[w].out \notin Unjournalled
  <2>1. journal'.req = r /\ journal'.entries = e
    BY <1>2 DEF Claim
  <2>2. receipts[r].state = "none"
    BY <1>2 DEF MayClaim
  <2>3. CASE e = <<>>
    <3>1. CASE journal.entries = <<>>
      BY <3>1 DEF KeepsResults, Kept
    <3>2. CASE journal.entries # <<>>
      <4>1. receipts[journal.req].state # "none"
        BY <3>2 DEF JournalInv, JournalIsOld
      <4>2. journal.req # r
        BY <2>2, <4>1
      <4>. QED BY <2>1, <2>3, <4>2 DEF KeepsResults
    <3>. QED BY <3>1, <3>2
  <2>4. CASE e # <<>>
    <3>1. e = [i \in DOMAIN journal.entries |-> "complete"]
      BY <1>2, <2>4, ClaimedEntries DEF Fresh
    <3>2. Kept(journal.entries, e)
      BY <3>1 DEF Kept
    <3>. QED BY <2>1, <3>2 DEF KeepsResults
  <2>. QED BY <2>3, <2>4
<1>. QED BY <1>1, <1>2

LEMMA RecoverKeeps ==
    ASSUME StateOK, NEW w, NEW r, Recover(w, r) PROVE KeepsResults
<1>. DEFINE cut == Interrupted(r) \/ Rejected(r) \/ NeverAdmitted(r)
            old == journal.entries
            e == IF cut THEN Front(old) ELSE old
            c == [lost |-> journal.covered.lost + (IF Interrupted(r) THEN 1 ELSE 0),
                  limited |-> journal.covered.limited + (IF Rejected(r) THEN 1 ELSE 0)]
<1>1. journal \in JournalRow /\ old \in Seq(Marks)
  BY DEF StateOK, JournalOK, JournalRow
<1>2. journal' = [journal EXCEPT !.entries = e, !.covered = c]
  BY DEF Recover
<1>. HIDE DEF c
<1>3. journal'.entries = e
  BY <1>1, <1>2 DEF JournalRow
<1>4. CASE ~cut
  BY <1>3, <1>4 DEF KeepsResults, Kept
<1>5. CASE cut
  <2>1. Unfinished(old) = {Len(old)}
    BY <1>5 DEF Interrupted, Rejected, NeverAdmitted, LastIsCall
  <2>2. Len(old) > 0 /\ old[Len(old)] # "complete"
    BY <1>1, <2>1 DEF Unfinished
  <2>3. Kept(old, Front(old))
    BY <1>1, <2>2, KeptDropped
  <2>. QED BY <1>3, <1>5, <2>3 DEF KeepsResults
<1>. QED BY <1>4, <1>5

\* Saving writes over what the owner itself wrote.
LEMMA SavesKeep ==
    ASSUME StateOK, JournalInv, NEW w \in Workers, NEW e, Saves(w, e),
           workers[w].pc \notin {"idle", "loaded"}, workers[w].out = "none",
           Kept(workers[w].entries, e)
    PROVE  KeepsResults
<1>1. /\ Fenced(w) /\ journal' = [journal EXCEPT !.entries = e, !.covered = workers[w].covered]
  BY DEF Saves
<1>2. journal.entries = workers[w].entries
  BY <1>1, FencedOwns DEF JournalInv, OwnersHaveIt, Unjournalled
<1>3. journal'.entries = e
  BY <1>1 DEF StateOK, JournalOK, JournalRow
<1>. QED BY <1>2, <1>3 DEF KeepsResults

LEMMA WorkKeeps ==
    ASSUME StateOK, JournalInv, NEW w \in Workers, Stop(w) \/ Start(w) \/ SaveResult(w)
    PROVE  KeepsResults
<1>. DEFINE old == workers[w].entries
<1>1. Remembers(workers[w]) /\ old \in Seq(Marks) /\ workers[w].pc \in {"run", "answered"}
  BY MemoryOf DEF Stop, Start, SaveResult
<1>2. workers[w].out = "none" /\ Kept(old, old)
  BY <1>1 DEF Remembers, Kept
<1>3. "started" \in Marks /\ "waiting" \in Marks
  BY DEF Marks
<1>4. CASE Stop(w)
  <2>1. PICK out : Saves(w, IF out = "awaiting" THEN Append(old, "waiting") ELSE old)
    BY <1>4 DEF Stop
  <2>2. Kept(old, IF out = "awaiting" THEN Append(old, "waiting") ELSE old)
    BY <1>1, <1>2, <1>3, KeptAdded
  <2>. QED BY <1>1, <1>2, <2>1, <2>2, SavesKeep
<1>5. CASE Start(w)
  <2>1. Saves(w, Append(old, "started"))
    BY <1>5 DEF Start
  <2>2. Kept(old, Append(old, "started"))
    BY <1>1, <1>3, KeptAdded
  <2>. QED BY <1>1, <1>2, <2>1, <2>2, SavesKeep
<1>6. CASE SaveResult(w)
  <2>1. Saves(w, Append(Front(old), "complete")) /\ Len(old) > 0
    BY <1>1, <1>6 DEF SaveResult, Remembers, Busy
  <2>2. Kept(old, Append(Front(old), "complete"))
    BY <1>1, <2>1, KeptFinished
  <2>. QED BY <1>1, <1>2, <2>1, <2>2, SavesKeep
<1>. QED BY <1>4, <1>5, <1>6

LEMMA PopKeeps ==
    ASSUME StateOK, JournalInv, NEW w \in Workers, Pop(w) PROVE KeepsResults
<1>. DEFINE old == workers[w].entries
<1>1. /\ workers[w].pc = "pop"
      /\ journal' = IF Fenced(w) THEN [journal EXCEPT !.entries = Front(old)] ELSE journal
  BY DEF Pop
<1>2. CASE ~Fenced(w)
  BY <1>1, <1>2 DEF KeepsResults, Kept
<1>3. CASE Fenced(w)
  <2>1. Remembers(workers[w]) /\ old \in Seq(Marks)
    BY MemoryOf
  <2>2. Len(old) > 0 /\ old[Len(old)] # "complete" /\ workers[w].out = "none"
    BY <1>1, <2>1 DEF Remembers, Busy
  <2>3. journal.entries = old
    BY <1>1, <1>3, <2>2, FencedOwns DEF JournalInv, OwnersHaveIt, Unjournalled
  <2>4. journal'.entries = Front(old)
    BY <1>1, <1>3 DEF StateOK, JournalOK, JournalRow
  <2>5. Kept(old, Front(old))
    BY <2>1, <2>2, KeptDropped
  <2>. QED BY <2>3, <2>4, <2>5 DEF KeepsResults
<1>. QED BY <1>2, <1>3

LEMMA StepKeeps == StateOK /\ IInv /\ JournalInv /\ [PrivateNext]_privateVars => KeepsResults
<1>. SUFFICES ASSUME StateOK, IInv, JournalInv, [PrivateNext]_privateVars PROVE KeepsResults
  OBVIOUS
<1>1. CASE UNCHANGED journal
  BY <1>1 DEF KeepsResults, Kept
<1>2. ASSUME NEW w \in Workers, Claims(w) PROVE KeepsResults
  BY <1>1, <1>2, RecoverKeeps DEF Claims, Load, LoadEnd, LoadExport
<1>3. ASSUME NEW w \in Workers, Works(w) PROVE KeepsResults
  <2>1. CASE Claim(w) \/ Stop(w) \/ Start(w) \/ SaveResult(w) \/ Pop(w)
    BY <2>1, ClaimKeeps, WorkKeeps, PopKeeps
  <2>2. CASE Heartbeat(w) \/ PerformLocal(w) \/ Admit(w) \/ AdmitRefused(w) \/ AdmitFails(w)
             \/ Respond(w) \/ RespondNotSent(w)
    BY <1>1, <2>2 DEF Heartbeat, PerformLocal, Admit, AdmitRefused, AdmitFails, Respond, RespondNotSent
  <2>3. CASE RespondLimited(w) \/ RespondLost(w) \/ FencedOut(w) \/ GiveUp(w) \/ Commit(w) \/ Die(w)
    BY <1>1, <2>3 DEF RespondLimited, RespondLost, FencedOut, GiveUp, Commit, Die
  <2>. QED BY <1>3, <2>1, <2>2, <2>3 DEF Works
<1>. QED BY <1>1, <1>2, <1>3 DEF PrivateNext, LeaseExpires, Deploy, privateVars

-----------------------------------------------------------------------------
(* The properties *)

\* At most one element: the set is empty or a singleton.
LEMMA AtMostOne ==
    ASSUME NEW S, \A x, y \in S : x = y PROVE Cardinality(S) <= 1
<1>1. CASE S = {}
  BY <1>1, FS_EmptySet
<1>2. CASE S # {}
  <2>1. PICK x \in S : S = {x}
    BY <1>2
  <2>. QED BY <2>1, FS_Singleton
<1>. QED BY <1>1, <1>2

\* A run has one open action, through leases that run out and takeovers; and a cancelled
\* one too, but for its exports (claim of private-action-store.js).
THEOREM ActionsApart == PrivateSpec => []OneOpenAction
<1>1. IInv => OneOpenAction
  <2>. SUFFICES ASSUME IInv PROVE OneOpenAction
    OBVIOUS
  <2>1. \A r, s \in OpenReceipts \ Exports : r = s
    BY DEF IInv, OneOpen, Open, OpenReceipts
  <2>2. ~cancelled => \A r, s \in OpenReceipts : r = s
    BY DEF IInv, OneOpen, Open, OpenReceipts
  <2>. QED BY <2>1, <2>2, AtMostOne DEF OneOpenAction
<1>. QED BY <1>1, PrivateInvariant, PTL

\* No question is put to its seller twice: what was signed or may have been paid is
\* never run again (run of private-external-tools.js).
THEOREM SellerPaidOnce == PrivateSpec => []PaidOnce
<1>1. IInv => PaidOnce
  BY DEF IInv, PurchaseFacts, Unpaid, PaidOnce
<1>. QED BY <1>1, PrivateInvariant, PTL

\* The customer pays only for a purchase that was settled and whose seller's answer was
\* sealed, with content or without; a lost answer costs nothing (run and reconcile of
\* private-external-tools.js).
THEOREM AnsweredWhenPaid == PrivateSpec => []PaidIsAnswered
<1>1. IInv => PaidIsAnswered
  BY DEF IInv, PurchaseFacts, PaidIsAnswered, Charged
<1>. QED BY <1>1, PrivateInvariant, PTL

\* Calls and purchases fit in the deposit and in the operator's month at every moment,
\* whatever answers late, is refused or reconciled (fitOutput of private-workflow-ai.js,
\* availablePrivateRunSpend of private-run-budget.js).
THEOREM SpendFits == PrivateSpec => []SpendWithinLimits
<1>1. ChargesInv => SpendWithinLimits
  BY LimitsAre DEF ChargesInv
<1>. QED BY <1>1, ChargesInvariant, PTL

\* What was frozen is what is debited, whatever answers after it (settleOnce of
\* private-funding.js).
THEOREM FrozenIsFixed == PrivateSpec => []FrozenChargesFixed
<1>1. ChargesInv => FrozenChargesFixed
  BY DebitIs DEF ChargesInv, FrozenStands, FrozenChargesFixed
<1>. QED BY <1>1, ChargesInvariant, PTL

\* The types of a confidential run: its rows, its journal and what its workers are doing.
THEOREM PrivateTypes == PrivateSpec => []PrivateTypeOK
<1>1. ASSUME IInv, StateOK PROVE PrivateTypeOK
  <2>1. \A i \in DOMAIN calls : calls[i] \in CallRow
    BY <1>1, CallOf DEF StateOK
  <2>2. \A q \in Questions : tools[q] \in ToolRow
    BY <1>1, RowOf
  <2>3. journal.entries \in Seq(Marks) /\ Len(journal.entries) <= Len(Work)
    BY <1>1 DEF StateOK, JournalOK, JournalRow
  <2>4. \A w \in Workers : workers[w].pc \in {"idle", "loaded", "run", "started", "waiting", "answered",
                                              "pop", "commit"}
    BY <1>1, MemoryOf DEF WorkerRow
  <2>5. receipts \in [Requests -> ReceiptRow] /\ transfer \in [Questions -> {"none", "received",
                                                                      "confirmed", "failed"}]
    BY <1>1 DEF IInv, TypesUsed
  <2>6. MoneyOK /\ hosted \in BOOLEAN
    BY <1>1 DEF StateOK
  <2>. QED BY <2>1, <2>2, <2>3, <2>4, <2>5, <2>6
       DEF PrivateTypeOK, MoneyOK, CallRow, CallCosts, ToolRow, Costs, Marks, ReceiptRow, Reasons
<1>. QED BY <1>1, PrivateInvariant, ChargesInvariant, PTL

\* Parses, retrievals and code are performed at most once in a journal, whatever pauses,
\* dies or is taken over (the checkpoint of private-action-runner.js).
THEOREM PerformedOnce == PrivateSpec => []LocalOnce
<1>1. StateOK /\ JournalInv => LocalOnce
  BY DEF StateOK, JournalOK, JournalInv, PerformedSaved, LocalOnce
<1>. QED BY <1>1, ChargesInvariant, JournalInvariant, PTL

\* Saved results are kept until a new journal is started, whoever writes it
\* (saveCheckpoint and claim of private-action-store.js).
THEOREM ResultsAreKept == PrivateSpec => ResultsStay
<1>1. KeepsResults => [journal'.req = journal.req \/ journal'.entries # <<>> =>
         \A i \in DOMAIN journal.entries :
           journal.entries[i] = "complete" =>
             i \in DOMAIN journal'.entries /\ journal'.entries[i] = "complete"]_journal
  BY DEF KeepsResults, Kept
<1>. QED BY <1>1, StepKeeps, PrivateInvariant, ChargesInvariant, JournalInvariant, PTL
         DEF PrivateSpec, ResultsStay
=============================================================================
