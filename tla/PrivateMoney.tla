---------------------------- MODULE PrivateMoney ----------------------------
(***************************************************************************)
(* The money of one confidential Dr. Nib run (src/dr-nib/backend/src/       *)
(* privacy): the escrow deposit and its settlement (private-funding.js,     *)
(* driven by the owner and by private-settlement-reconciler.js), the        *)
(* admission of model calls (private-workflow-ai.js over                    *)
(* private-run-budget.js) and the purchases the owner approves              *)
(* (private-external-tools.js over private-external-executor.js).           *)
(*                                                                          *)
(* Every transaction that admits, prices or freezes a charge takes the      *)
(* advisory lock of the ledger, so each is one step; the chain, the model   *)
(* provider, the sellers and Circle answer between steps.  What the workers *)
(* do around a call is in PrivateRun, which extends this module.            *)
(***************************************************************************)
EXTENDS Integers, Sequences, Sums

CONSTANTS
    Requests,              \* requestIds of the owner's actions
    Workers,               \* attempts at an action, one lease owner each
    Questions,             \* purchases the research asks the owner for
    Deposit, BudgetCap,    \* USDC put in escrow; cap in the private state
    MonthCap,              \* the operator's monthly cap
    CallHold, MinHold,     \* what a call reserves, and the least that is worth one
    ToolHold, ToolPrice,   \* what a purchase reserves, and what the seller asks
    NoFreeze, NoWorker, NoRequest

ASSUME MoneyAssumption ==
    /\ Deposit \in Nat \ {0} /\ BudgetCap \in Nat /\ Deposit <= BudgetCap
    /\ MonthCap \in Nat /\ MinHold \in 1..CallHold /\ CallHold \in Nat
    /\ ToolPrice \in 1..ToolHold /\ ToolHold \in Nat
    /\ NoFreeze \notin [spent : Nat, held : Nat]

VARIABLES
    runStatus, rev,        \* ResearchRun.status; revision of the manifest
    cancelled,             \* metadata.privateCancellation
    registered,            \* metadata.privateEscrow.jobId
    onChain,               \* the escrow job: "open", "funded" or "split"
    deposit,               \* the deposit row of BudgetLedger
    frozen,                \* metadata.privateEscrow.settlement
    settled,               \* settledAt
    receipts,              \* PrivateActionReceipt rows
    calls,                 \* PrivateInferenceCall rows, oldest first
    tools,                 \* PrivateToolCall rows, by question
    transfer               \* Circle's record of each purchase (external)

escrowVars == <<cancelled, registered, onChain, deposit, frozen, settled>>
toolVars == <<tools, transfer>>
moneyVars == <<runStatus, rev, escrowVars, receipts, calls, toolVars>>

NoReceipt == [state |-> "none", owner |-> NoWorker, live |-> FALSE, why |-> "none"]
NoTool == [state |-> "none", committed |-> 0, rev |-> 0, step |-> "none",
           evidence |-> FALSE, envelope |-> "none"]

MoneyInit ==
    /\ runStatus = "planned" /\ rev = 1
    /\ cancelled = FALSE /\ registered = FALSE /\ onChain = "open"
    /\ deposit = 0 /\ frozen = NoFreeze /\ settled = FALSE
    /\ receipts = [r \in Requests |-> NoReceipt]
    /\ calls = <<>>
    /\ tools = [q \in Questions |-> NoTool]
    /\ transfer = [q \in Questions |-> "none"]

-----------------------------------------------------------------------------
(* The ledger *)

OpenReceipts == {r \in Requests : receipts[r].state \in {"processing", "uncertain"}}
ReservedTools == {q \in Questions : tools[q].state = "reserved"}
CallsOf(S) == {i \in DOMAIN calls : calls[i].status \in S}
CustomerCalls == {i \in DOMAIN calls : calls[i].payer = "customer"}
ReservedCalls(r) == {i \in CallsOf({"reserved"}) : calls[i].req = r}
SumCalls(S) == Total([i \in DOMAIN calls |-> calls[i].committed], S)
SumTools(S) == Total([q \in Questions |-> tools[q].committed], S)

\* A frozen or cancelled run takes no new charge of its customer.
Closed == cancelled \/ settled \/ frozen # NoFreeze
Unfunded == ~registered \/ deposit = 0

\* Mutant of Available: calls are left out.
AvailableForTools == Max({0, Min({deposit, BudgetCap}) - SumTools(Questions)})

\* availablePrivateRunSpend for a call or a purchase the customer pays.
Available ==
    Max({0, Min({deposit, BudgetCap}) - SumCalls(CustomerCalls) - SumTools(Questions)})

MonthLeft == MonthCap - SumCalls(DOMAIN calls)

\* fitOutput: the hold shrinks to what both limits leave.
Hold == Min({CallHold, Available, MonthLeft})

\* What a settlement debits: accounted calls and finalized purchases.
Spent == SumCalls(CustomerCalls \cap CallsOf({"verified"}))
         + SumTools({q \in Questions : tools[q].state = "complete"})

-----------------------------------------------------------------------------
(* Escrow *)

\* register: the owner's job is bound to the planned run.
Register ==
    /\ runStatus = "planned" /\ ~cancelled /\ ~settled /\ ~registered
    /\ OpenReceipts = {}
    /\ registered' = TRUE
    /\ UNCHANGED <<runStatus, rev, cancelled, onChain, deposit, frozen, settled, receipts, calls,
                   toolVars>>

\* The owner funds the job on the chain (external).
FundJob ==
    /\ registered /\ onChain = "open"
    /\ onChain' = "funded"
    /\ UNCHANGED <<runStatus, rev, cancelled, registered, deposit, frozen, settled, receipts,
                   calls, toolVars>>

\* status: the first read that finds the job funded books the deposit.
RecordDeposit ==
    /\ registered /\ onChain = "funded" /\ ~settled /\ deposit = 0
    /\ deposit' = Deposit
    /\ UNCHANGED <<runStatus, rev, cancelled, registered, onChain, frozen, settled, receipts,
                   calls, toolVars>>

\* Mutant of Outstanding: only purchases are waited for.
OutstandingPurchases == ReservedTools # {}

\* What makes the settlement of a run that is not cancelled wait.
Outstanding ==
    OpenReceipts # {} \/ CustomerCalls \cap CallsOf({"reserved"}) # {} \/ ReservedTools # {}

\* settleOnce, first transaction, where it writes the settlement.
Freezes(ended) ==
    /\ registered /\ ~settled /\ frozen = NoFreeze
    /\ IF ended THEN deposit # 0
       ELSE runStatus \in {"complete", "ended", "failed"} /\ ~Outstanding
    /\ Spent <= deposit

\* Mutant of Settlement: the cap is divided.
SettlementOfCap == [spent |-> Spent, held |-> BudgetCap]

Settlement == [spent |-> Spent, held |-> deposit]

Freeze ==
    /\ Freezes(cancelled)
    /\ frozen' = Settlement
    /\ UNCHANGED <<runStatus, rev, cancelled, registered, onChain, deposit, settled, receipts,
                   calls, toolVars>>

\* cancel marks the run and settles in the same transaction, which fails as a whole
\* if more was spent than is held.
Cancel ==
    /\ ~settled /\ ~cancelled
    /\ cancelled' = TRUE
    /\ registered /\ frozen = NoFreeze /\ deposit # 0 => Spent <= deposit
    /\ frozen' = IF Freezes(TRUE) THEN Settlement ELSE frozen
    /\ UNCHANGED <<runStatus, rev, registered, onChain, deposit, settled, receipts, calls, toolVars>>

\* completeAndSplit on a job that still holds what was frozen, then the record of it.
Split ==
    /\ frozen # NoFreeze /\ ~settled
    /\ onChain = "funded" /\ frozen.held = Deposit
    /\ onChain' = "split"
    /\ UNCHANGED <<runStatus, rev, cancelled, registered, deposit, frozen, settled, receipts,
                   calls, toolVars>>

RecordSplit ==
    /\ frozen # NoFreeze /\ ~settled /\ onChain = "split"
    /\ settled' = TRUE
    /\ UNCHANGED <<runStatus, rev, cancelled, registered, onChain, deposit, frozen, receipts,
                   calls, toolVars>>

-----------------------------------------------------------------------------
(* Purchases *)

runVars == <<runStatus, rev, escrowVars, receipts, calls>>
Put(q, row) == tools' = [tools EXCEPT ![q] = row]

\* register of a tool, for the question the run waits on.
ApproveTool(q) ==
    /\ tools[q].state = "none"
    /\ runStatus = "awaiting" /\ ~Closed /\ OpenReceipts = {}
    /\ Put(q, [NoTool EXCEPT !.state = "approved", !.rev = rev])
    /\ UNCHANGED <<runVars, transfer>>

\* Mutant of MayRun: any failed purchase may be tried again.
MayRunFailed(q) == tools[q].state \in {"approved", "failed"}

\* Approved, or failed before anything could have been paid.
MayRun(q) ==
    \/ tools[q].state = "approved"
    \/ tools[q].state = "failed" /\ ~tools[q].evidence /\ tools[q].envelope = "none"

\* run: the reservation.
RunTool(q) ==
    /\ MayRun(q)
    /\ runStatus = "awaiting" /\ ~Closed
    /\ rev = tools[q].rev /\ OpenReceipts = {} /\ ReservedTools = {}
    /\ ~Unfunded /\ ToolHold <= Available
    /\ Put(q, [tools[q] EXCEPT !.state = "reserved", !.committed = ToolHold,
                               !.step = "prepare"])
    /\ UNCHANGED <<runVars, transfer>>

\* The executor signs: a purchase through the Gateway journals its evidence first,
\* a tip has none.
SignPayment(q) ==
    /\ tools[q].step = "prepare" /\ tools[q].state = "reserved"
    /\ \E evidence \in BOOLEAN :
         Put(q, [tools[q] EXCEPT !.step = "pay", !.evidence = evidence])
    /\ UNCHANGED <<runVars, transfer>>

\* It fails before the payment was sent, the evidence journalled or not.
ToolNotSent(q) ==
    /\ tools[q].step = "prepare"
    /\ \E evidence \in BOOLEAN :
         Put(q, [tools[q] EXCEPT !.state = "failed", !.committed = 0, !.step = "none",
                                 !.evidence = evidence])
    /\ UNCHANGED <<runVars, transfer>>

\* The seller is paid; its answer arrives or is lost.
SellerPaid(q) ==
    /\ tools[q].step = "pay"
    /\ \E step \in {"answer", "none"} : Put(q, [tools[q] EXCEPT !.step = step])
    /\ transfer' = [transfer EXCEPT ![q] = IF tools[q].evidence THEN "received" ELSE "confirmed"]
    /\ UNCHANGED runVars

\* The request fails and the seller is not paid, which the executor cannot tell; or
\* the executor dies.
ToolLost(q) ==
    /\ tools[q].step \in {"prepare", "pay"}
    /\ Put(q, [tools[q] EXCEPT !.step = "none"])
    /\ UNCHANGED <<runVars, transfer>>

\* What the sealed answer of a seller holds: the content, or only that it cannot be had.
Answers == {"content", "unavailable"}

\* A tip costs what was approved, a purchase what the seller asked.
PriceOf(q) == IF tools[q].evidence THEN ToolPrice ELSE ToolHold

\* A free resource answers at once, a paid one after its payment: the result is sealed
\* and the row completed, or kept reserved until Circle confirms.  The answer to a purchase
\* may only grant access, and where that cannot be redeemed what is sealed has no content.
\* A run closed in the meantime, or a row reconciled in the meantime, refuses it.
ToolAnswered(q) ==
    /\ tools[q].step \in {"prepare", "answer"}
    /\ IF Closed \/ tools[q].state # "reserved" THEN Put(q, [tools[q] EXCEPT !.step = "none"])
       ELSE LET paid == tools[q].step = "answer" IN
            \E pending \in BOOLEAN, answer \in Answers :
              /\ pending \/ answer = "unavailable" => paid /\ tools[q].evidence
              /\ ~pending /\ paid => transfer[q] = "confirmed"
              /\ Put(q, [tools[q] EXCEPT
                           !.step = "none", !.envelope = answer,
                           !.state = IF pending THEN "reserved" ELSE "complete",
                           !.committed = IF pending THEN @ ELSE IF paid THEN PriceOf(q) ELSE 0])
    /\ UNCHANGED <<runVars, transfer>>

\* Circle settles or fails a transfer (external).
CircleDecides(q) ==
    /\ transfer[q] = "received"
    /\ \E result \in {"confirmed", "failed"} : transfer' = [transfer EXCEPT ![q] = result]
    /\ UNCHANGED <<runVars, tools>>

\* Mutant of ReconciledCost: a lost delivery is charged.
ReconciledCostAlways(q) == IF transfer[q] = "failed" THEN 0 ELSE ToolPrice

\* A failed transfer costs nothing, and the platform covers a purchase with no answer sealed.
ReconciledCost(q) ==
    IF transfer[q] = "confirmed" /\ tools[q].envelope \in Answers THEN ToolPrice ELSE 0

\* reconcile, on every read of a reserved purchase with evidence.
ReconcileTool(q) ==
    /\ tools[q].state = "reserved" /\ tools[q].evidence
    /\ transfer[q] \in {"confirmed", "failed"} /\ ~Closed
    /\ Put(q, [tools[q] EXCEPT
                 !.state = IF transfer[q] = "failed" THEN "failed" ELSE "complete",
                 !.committed = ReconciledCost(q),
                 !.envelope = IF transfer[q] = "confirmed" /\ @ = "none" THEN "lost" ELSE @])
    /\ UNCHANGED <<runVars, transfer>>

Escrow == Register \/ FundJob \/ RecordDeposit \/ Freeze \/ Cancel \/ Split \/ RecordSplit
Purchase(q) ==
    \/ RunTool(q) \/ SignPayment(q) \/ ToolNotSent(q)
    \/ SellerPaid(q) \/ ToolLost(q) \/ ToolAnswered(q) \/ CircleDecides(q)
    \/ ReconcileTool(q)
=============================================================================
