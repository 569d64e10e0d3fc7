------------------------------ MODULE RunLedger ------------------------------
(***************************************************************************)
(* The budget ledger of one Dr. Nib run (dr-nib/backend/src/money.js).      *)
(*                                                                          *)
(* BudgetLedger rows are append-only and every reader only sums them by     *)
(* kind, so the ledger is kept as the four sums, plus the number of spend   *)
(* rows that carry each txRef.  Every operation below runs inside           *)
(* withRunLock, one transaction under a per-run advisory lock, so each is   *)
(* one atomic step.  Amounts are in micro-USDC (the column is               *)
(* numeric(18,6)).  The module has no next-state relation: the modules      *)
(* that own a run extend it and say when each operation happens.            *)
(***************************************************************************)
EXTENDS Integers

CONSTANT Refs              \* the txRefs a spend row may carry

VARIABLES
    ledger,                \* sums of the deposit, spend, fee and refund rows
    charged,               \* number of spend rows per txRef
    budgetCap,             \* ResearchRun.budgetCap
    settledAt              \* is ResearchRun.settledAt set?

ledgerVars == <<ledger, charged, budgetCap, settledAt>>

LedgerTypeOK ==
    /\ ledger \in [deposit : Nat, spend : Nat, fee : Nat, refund : Nat]
    /\ charged \in [Refs -> Nat]
    /\ budgetCap \in Nat
    /\ settledAt \in BOOLEAN

FEE_BPS == 100

\* The fee row of a draw, rounded to the column's six decimals.
Fee(amount) == (amount * FEE_BPS + 5000) \div 10000

\* The cap as configured last and the one deposit row, written at the first
\* configuration and kept by later ones; nothing is spent.
Configured(deposit, cap) ==
    /\ ledger = [deposit |-> deposit, spend |-> 0, fee |-> 0, refund |-> 0]
    /\ charged = [ref \in Refs |-> 0]
    /\ budgetCap = cap
    /\ settledAt = FALSE

\* budgetState().balance: fees are operator-side and never subtracted.
Balance == ledger.deposit - ledger.spend - ledger.refund

\* The balance the run list computes for itself.
ListedBalance == ledger.deposit - ledger.spend - ledger.fee - ledger.refund

\* Cap headroom, used as a gate before work is started.
Spendable == budgetCap - ledger.spend

-----------------------------------------------------------------------------
NeverCharged(ref) == FALSE                 \* mutant: no replay check
AlreadyCharged(ref) == charged[ref] > 0

AffordableOpen(amount) == ~settledAt       \* mutant: no balance, no cap
Affordable(amount) ==
    /\ ~settledAt
    /\ amount <= Balance
    /\ ledger.spend + amount <= budgetCap

\* The `ok` of draw(): a txRef already charged, or nothing to charge, is fine.
DrawOk(ref, amount) == AlreadyCharged(ref) \/ amount = 0 \/ Affordable(amount)

Draw(ref, amount) ==
    /\ IF ~AlreadyCharged(ref) /\ amount > 0 /\ Affordable(amount)
         THEN /\ ledger' = [ledger EXCEPT !.spend = @ + amount,
                                          !.fee = @ + Fee(amount)]
              /\ charged' = [charged EXCEPT ![ref] = @ + 1]
         ELSE UNCHANGED <<ledger, charged>>
    /\ UNCHANGED <<budgetCap, settledAt>>

\* raiseCap(): raise only, refused once the run is settled or terminal.
CanRaise(amount, terminal) == ~settledAt /\ ~terminal /\ amount > budgetCap

RaiseCap(amount) ==
    /\ budgetCap' = amount
    /\ ledger' = [ledger EXCEPT !.deposit = @ + (amount - budgetCap)]
    /\ UNCHANGED <<charged, settledAt>>

\* Mutant of Settle: work in flight is not waited for.
SettleAtOnce(stageActive) ==
    IF settledAt
      THEN UNCHANGED ledgerVars
      ELSE /\ ledger' = [ledger EXCEPT !.refund =
                            IF Balance > 0 THEN @ + Balance ELSE @]
           /\ settledAt' = TRUE
           /\ UNCHANGED <<charged, budgetCap>>

\* settle(): refund the remainder once; deferred while a stage is in flight.
Settle(stageActive) ==
    IF stageActive \/ settledAt
      THEN UNCHANGED ledgerVars
      ELSE /\ ledger' = [ledger EXCEPT !.refund =
                            IF Balance > 0 THEN @ + Balance ELSE @]
           /\ settledAt' = TRUE
           /\ UNCHANGED <<charged, budgetCap>>

=============================================================================
