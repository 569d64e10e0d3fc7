-------------------------- MODULE EscrowJob_proofs --------------------------
(***************************************************************************)
(* Theorems about EscrowJob, for any number of jobs, wallets and budgets.   *)
(*                                                                          *)
(* A job that holds money has a positive budget of which nothing was paid,  *)
(* and is not split (MoneyInv); an id that was not created yet names an     *)
(* empty record (Numbered).  With these, every transaction is a step of     *)
(* EscrowPromise or changes nothing it sees.                                *)
(*                                                                          *)
(* The pools of the two contracts are sums over the jobs they hold          *)
(* (FundsInv): each transaction moves the money of one job, and that job is *)
(* the one that enters or leaves the pool.                                  *)
(***************************************************************************)
EXTENDS EscrowJob, Sums_proofs, TLAPS

\* Ids above the counter name no job.
Numbered == \A j \in Jobs : j > jobCount => jobs[j] = NoJob

\* Is there money of job j in a contract?
Holds(j) == j \in Escrowed \cup Parked

\* Where the money of a job can be.
JobMoney(j) ==
    /\ splitDone[j] => /\ jobs[j].status = "Completed"
                       /\ paid[j].client + paid[j].provider + paid[j].treasury = jobs[j].budget
    /\ jobs[j].status = "Open" => paid[j] = NoShares
    /\ Holds(j) => jobs[j].budget > 0 /\ paid[j] = NoShares
MoneyInv == \A j \in Jobs : JobMoney(j)

IInv == TypeOK /\ Numbered /\ MoneyInv

-----------------------------------------------------------------------------
(* Amounts *)

\* Balances stay natural numbers, whichever account is credited.
LEMMA CreditType ==
    ASSUME NEW b \in [Accounts -> Nat], NEW account, NEW amount \in Nat
    PROVE  Credit(b, account, amount) \in [Accounts -> Nat]
<1>1. CASE account \in Accounts
  <2>1. b[account] + amount \in Nat
    BY <1>1
  <2>. QED BY <2>1 DEF Credit
<1>2. CASE account \notin Accounts
  <2>1. Credit(b, account, amount) = b
    BY <1>2 DEF Credit
  <2>. QED BY <2>1
<1>. QED BY <1>1, <1>2

\* A transfer leaves every balance a natural number (ERC-20 reverts otherwise).
LEMMA TransferType ==
    ASSUME balance \in [Accounts -> Nat], NEW from \in Accounts, NEW to,
           NEW amount \in Nat, Transfer(from, to, amount)
    PROVE  balance' \in [Accounts -> Nat]
<1>1. balance[from] - amount \in Nat
  BY DEF Transfer
<1>2. Debit(balance, from, amount) \in [Accounts -> Nat]
  BY <1>1 DEF Debit
<1>. QED BY <1>2, CreditType DEF Transfer

\* The splitter's fee is a natural number and at most a twentieth of the spend.
LEMMA FeeFits ==
    ASSUME NEW spent \in Nat
    PROVE  Fee(spent) \in Nat /\ Fee(spent) <= spent /\ 20 * Fee(spent) <= spent
<1>1. FeeBps \in Nat /\ FeeBps <= 500
  BY AmountsAssumption DEF MAX_FEE_BPS
<1>2. spent * FeeBps \in Nat /\ spent * FeeBps <= spent * 500
  BY <1>1
<1>3. ASSUME NEW p \in Nat, p <= spent * 500
      PROVE  p \div 10000 \in Nat /\ 20 * (p \div 10000) <= spent
  BY <1>3
<1>. QED BY <1>2, <1>3 DEF Fee

\* The accounts of the contracts and of the splitter's payees exist.
LEMMA AccountsExist ==
    /\ {Core, Splitter, Operator, Treasury} \subseteq Accounts
    /\ Wallets \subseteq Accounts /\ Providers \subseteq Accounts \cup {ZeroAddress}
    /\ Evaluators \subseteq Wallets /\ ZeroAddress \notin Wallets
BY AccountsAssumption DEF Accounts

-----------------------------------------------------------------------------
(* Type correctness *)

\* An action on the record of job j that keeps it a job keeps all records.
LEMMA EnterType ==
    ASSUME jobs \in [Jobs -> Job], NEW j \in Jobs, NEW status \in JobStatus,
           Enter(j, status)
    PROVE  jobs' \in [Jobs -> Job]
BY DEF Enter, Job

LEMMA PayType ==
    ASSUME paid \in [Jobs -> Shares], NEW j \in Jobs, NEW amount \in Nat,
           NEW party \in {"client", "provider", "treasury"}, Pay(j, party, amount)
    PROVE  paid' \in [Jobs -> Shares]
BY DEF Pay, Shares

LEMMA RefundType ==
    ASSUME TypeOK, NEW j \in Jobs, Refund(j)
    PROVE  balance' \in [Accounts -> Nat] /\ paid' \in [Jobs -> Shares]
<1>1. jobs[j].budget \in Nat
  BY DEF TypeOK, Job
<1>2. balance' \in [Accounts -> Nat]
  BY <1>1, TransferType, AccountsExist DEF Refund, TypeOK
<1>3. paid' \in [Jobs -> Shares]
  BY <1>1, PayType DEF Refund, TypeOK
<1>. QED BY <1>2, <1>3

\* A split pays natural numbers that add up to the budget.
LEMMA DivideType ==
    ASSUME TypeOK, NEW j \in Jobs, NEW spent \in Nat, spent <= jobs[j].budget,
           Divide(j, spent)
    PROVE  balance' \in [Accounts -> Nat] /\ paid' \in [Jobs -> Shares]
<1>. DEFINE fee == Fee(spent)
            earned == spent - fee
            refund == jobs[j].budget - spent
<1>1. fee \in Nat /\ earned \in Nat /\ refund \in Nat /\ jobs[j].budget \in Nat
  BY FeeFits DEF TypeOK, Job
<1>2. /\ balance[Splitter] >= jobs[j].budget
      /\ balance' = Credit(Credit(Credit(
                        Debit(balance, Splitter, jobs[j].budget),
                        Operator, earned), Treasury, fee), jobs[j].client, refund)
      /\ paid' = [paid EXCEPT ![j] = [client |-> @.client + refund,
                                      provider |-> @.provider + earned,
                                      treasury |-> @.treasury + fee]]
  BY DEF Divide, fee, earned, refund
<1>. HIDE DEF fee, earned, refund
<1>3. balance' \in [Accounts -> Nat]
  <2>1. balance[Splitter] - jobs[j].budget \in Nat
    BY <1>1, <1>2, AccountsExist DEF TypeOK
  <2>2. Debit(balance, Splitter, jobs[j].budget) \in [Accounts -> Nat]
    BY <2>1 DEF Debit, TypeOK
  <2>. QED BY <1>1, <1>2, <2>2, CreditType
<1>4. paid' \in [Jobs -> Shares]
  <2>1. paid[j] \in Shares
    BY DEF TypeOK
  <2>2. [client |-> paid[j].client + refund, provider |-> paid[j].provider + earned,
         treasury |-> paid[j].treasury + fee] \in Shares
    BY <1>1, <2>1 DEF Shares
  <2>. QED BY <1>2, <2>2 DEF TypeOK
<1>. QED BY <1>3, <1>4

\* Every transaction leaves values the contracts can store.
LEMMA TypeKept == TypeOK /\ [Next]_vars => TypeOK'
<1>. SUFFICES ASSUME TypeOK, [Next]_vars PROVE TypeOK'
  OBVIOUS
<1>. USE DEF TypeOK
<1>1. CASE UNCHANGED vars
  BY <1>1 DEF vars
<1>2. ASSUME NEW sender \in Wallets, NEW p \in Providers, NEW e \in Evaluators,
             CreateJob(sender, p, e)
      PROVE  TypeOK'
  BY <1>2, AccountsExist, JobsAssumption DEF CreateJob, Job, JobStatus
<1>3. ASSUME NEW sender \in Wallets, NEW j \in Jobs, NEW p \in Providers,
             SetProvider(sender, j, p)
      PROVE  TypeOK'
  BY <1>3, AccountsExist DEF SetProvider, Job
<1>4. ASSUME NEW sender \in Wallets, NEW j \in Jobs, NEW amount \in Amounts,
             SetBudget(sender, j, amount)
      PROVE  TypeOK'
  BY <1>4, AmountsAssumption DEF SetBudget, Job
<1>5. ASSUME NEW sender \in Wallets, NEW j \in Jobs, NEW amount \in Amounts,
             Fund(sender, j, amount)
      PROVE  TypeOK'
  <2>1. jobs[j].budget \in Nat
    BY DEF Job
  <2>2. balance' \in [Accounts -> Nat]
    BY <1>5, <2>1, TransferType, AccountsExist DEF Fund
  <2>3. jobs' \in [Jobs -> Job]
    BY <1>5, EnterType DEF Fund, JobStatus
  <2>. QED BY <1>5, <2>2, <2>3 DEF Fund
<1>6. ASSUME NEW sender, NEW j \in Jobs, Submit(sender, j)
      PROVE  TypeOK'
  BY <1>6, EnterType DEF Submit, JobStatus
<1>7. ASSUME NEW sender \in Wallets, NEW j \in Jobs, Complete(sender, j)
      PROVE  TypeOK'
  <2>1. jobs[j].budget \in Nat
    BY DEF Job
  <2>2. balance' \in [Accounts -> Nat]
    BY <1>7, <2>1, TransferType, AccountsExist DEF Complete
  <2>3. jobs' \in [Jobs -> Job]
    BY <1>7, EnterType DEF Complete, JobStatus
  <2>4. paid' \in [Jobs -> Shares]
    BY <1>7, <2>1, PayType DEF Complete
  <2>. QED BY <1>7, <2>2, <2>3, <2>4 DEF Complete
<1>8. ASSUME NEW sender \in Wallets, NEW j \in Jobs, Reject(sender, j)
      PROVE  TypeOK'
  <2>1. jobs' \in [Jobs -> Job]
    BY <1>8, EnterType DEF Reject, JobStatus
  <2>2. balance' \in [Accounts -> Nat] /\ paid' \in [Jobs -> Shares]
    BY <1>8, RefundType DEF Reject
  <2>. QED BY <1>8, <2>1, <2>2 DEF Reject
<1>9. ASSUME NEW j \in Jobs, ClaimRefund(j)
      PROVE  TypeOK'
  <2>1. jobs' \in [Jobs -> Job]
    BY <1>9, EnterType DEF ClaimRefund, JobStatus
  <2>2. balance' \in [Accounts -> Nat] /\ paid' \in [Jobs -> Shares]
    BY <1>9, RefundType DEF ClaimRefund
  <2>. QED BY <1>9, <2>1, <2>2 DEF ClaimRefund
<1>10. ASSUME NEW sender \in Wallets, NEW a \in signed, Split(sender, a)
       PROVE  TypeOK'
  <2>1. a.job \in Jobs /\ a.spent \in Nat
    BY DEF Attestations
  <2>2. balance' \in [Accounts -> Nat] /\ paid' \in [Jobs -> Shares]
    BY <1>10, <2>1, DivideType DEF Split
  <2>. QED BY <1>10, <2>1, <2>2 DEF Split
<1>11. ASSUME NEW j \in Jobs, NEW spent \in Spends, SignSplit(j, spent)
       PROVE  TypeOK'
  BY <1>11, AmountsAssumption DEF SignSplit, Attestations
<1>12. ASSUME NEW j \in Jobs, Expire(j)
       PROVE  TypeOK'
  BY <1>12 DEF Expire
<1>. QED
  BY <1>1, <1>2, <1>3, <1>4, <1>5, <1>6, <1>7, <1>8, <1>9, <1>10, <1>11, <1>12
     DEF Next, Negotiate, Deliver, SubmitJob

-----------------------------------------------------------------------------
(* The life of a job *)

\* A step leaves every job but j as it was.
OnlyJob(j) ==
    \A k \in Jobs \ {j} :
        jobs'[k] = jobs[k] /\ paid'[k] = paid[k] /\ splitDone'[k] = splitDone[k]

SameTerms(j) == Terms(jobs'[j]) = Terms(jobs[j])
SamePayments(j) == paid'[j] = paid[j] /\ splitDone'[j] = splitDone[j]

\* The five things that can happen to a job: its terms are set, it is funded,
\* it advances with its money still held, it is paid out, it is dropped unfunded.
Reworded(j) ==
    /\ jobs[j].status = "Open" /\ jobs'[j].status = "Open"
    /\ SamePayments(j)
Funded(j) ==
    /\ jobs[j].status = "Open" /\ Holds(j)'
    /\ jobs'[j].budget > 0
    /\ SamePayments(j)
Advanced(j) == Holds(j) /\ Holds(j)' /\ SameTerms(j) /\ SamePayments(j)
PaidOut(j) ==
    /\ Holds(j) /\ ~Holds(j)' /\ SameTerms(j)
    /\ jobs'[j].status # "Open"
    /\ splitDone'[j] => jobs'[j].status = "Completed"
    /\ paid'[j] \in Shares
    /\ paid'[j].client + paid'[j].provider + paid'[j].treasury = jobs[j].budget
    /\ 20 * paid'[j].treasury <= paid'[j].provider + paid'[j].treasury
Dropped(j) ==
    /\ jobs[j].status = "Open" /\ jobs'[j].status = "Rejected"
    /\ SamePayments(j)

Moved(j) ==
    /\ OnlyJob(j)
    /\ Reworded(j) \/ Funded(j) \/ Advanced(j) \/ PaidOut(j) \/ Dropped(j)

\* A job somebody is a party to, or that left "Open", was created.
LEMMA Existing ==
    ASSUME TypeOK, Numbered, NEW j \in Jobs, NEW sender \in Wallets,
           \/ jobs[j].status # "Open"
           \/ sender \in {jobs[j].client, jobs[j].provider, jobs[j].evaluator}
    PROVE  ~(j > jobCount)
BY AccountsExist DEF Numbered, NoJob

\* Refunding a job that holds money pays it out.
LEMMA RefundPays ==
    ASSUME IInv, NEW j \in Jobs, j \in Escrowed, Refund(j),
           NEW status \in {"Rejected", "Expired"}, Enter(j, status),
           UNCHANGED splitDone
    PROVE  Moved(j)
<1>1. /\ jobs \in [Jobs -> Job] /\ paid \in [Jobs -> Shares]
      /\ jobs[j].budget \in Nat
  BY DEF IInv, TypeOK, Job
<1>2. jobs[j].budget > 0 /\ paid[j] = NoShares /\ ~splitDone[j]
  BY DEF IInv, MoneyInv, JobMoney, Holds, Escrowed
<1>3. /\ jobs'[j] = [jobs[j] EXCEPT !.status = status]
      /\ jobs'[j].status = status
      /\ \A k \in Jobs \ {j} : jobs'[k] = jobs[k]
  BY <1>1 DEF Enter, Job
<1>4. /\ paid'[j] = [paid[j] EXCEPT !["client"] = @ + jobs[j].budget]
      /\ \A k \in Jobs \ {j} : paid'[k] = paid[k]
  BY <1>1 DEF Refund, Pay
<1>5. paid'[j] = [client |-> jobs[j].budget, provider |-> 0, treasury |-> 0]
  BY <1>1, <1>2, <1>4 DEF NoShares, Shares
<1>6. SameTerms(j)
  BY <1>1, <1>3 DEF SameTerms, Terms, Job
<1>7. ~Holds(j)' /\ Holds(j)
  BY <1>3 DEF Holds, Escrowed, Parked
<1>. QED
  BY <1>1, <1>2, <1>3, <1>4, <1>5, <1>6, <1>7
     DEF Moved, OnlyJob, PaidOut, Shares

\* A split of a parked job pays it out.
LEMMA SplitPays ==
    ASSUME IInv, NEW sender, NEW a \in signed, Split(sender, a)
    PROVE  a.job \in Jobs /\ Moved(a.job)
<1>. DEFINE j == a.job
            fee == Fee(a.spent)
            earned == a.spent - fee
            refund == jobs[j].budget - a.spent
<1>1. /\ jobs \in [Jobs -> Job] /\ paid \in [Jobs -> Shares]
      /\ j \in Jobs /\ a.spent \in Nat /\ jobs[j].budget \in Nat
      /\ splitDone \in [Jobs -> BOOLEAN]
  BY DEF IInv, TypeOK, Job, Attestations
<1>2. /\ j \in Parked /\ a.spent <= jobs[j].budget /\ UNCHANGED jobs
      /\ splitDone' = [splitDone EXCEPT ![j] = TRUE]
      /\ paid' = [paid EXCEPT ![j] = [client |-> @.client + refund,
                                      provider |-> @.provider + earned,
                                      treasury |-> @.treasury + fee]]
  BY DEF Split, Divide
<1>3. paid[j] = NoShares /\ jobs[j].status = "Completed"
  BY <1>1, <1>2 DEF IInv, MoneyInv, JobMoney, Holds, Parked
<1>4. fee \in Nat /\ earned \in Nat /\ refund \in Nat /\ 20 * fee <= a.spent
  BY <1>1, <1>2, FeeFits
<1>5. earned + fee = a.spent /\ refund + earned + fee = jobs[j].budget
  BY <1>1, <1>4
<1>. HIDE DEF j, fee, earned, refund
<1>6. /\ paid'[j] = [client |-> refund, provider |-> earned, treasury |-> fee]
      /\ \A k \in Jobs \ {j} : paid'[k] = paid[k] /\ splitDone'[k] = splitDone[k]
      /\ splitDone'[j]
  BY <1>1, <1>2, <1>3, <1>4 DEF NoShares
<1>7. SameTerms(j) /\ Holds(j) /\ ~Holds(j)'
  BY <1>1, <1>2, <1>3, <1>6 DEF SameTerms, Terms, Job, Holds, Escrowed, Parked
<1>8. PaidOut(j)
  BY <1>1, <1>2, <1>3, <1>4, <1>5, <1>6, <1>7 DEF PaidOut, Shares
<1>9. OnlyJob(j)
  BY <1>2, <1>6 DEF OnlyJob
<1>. QED BY <1>1, <1>8, <1>9 DEF Moved, j

\* Completing a job advances it at the splitter and pays it out elsewhere.
LEMMA CompleteMoves ==
    ASSUME IInv, NEW sender, NEW j \in Jobs, Complete(sender, j)
    PROVE  Moved(j)
<1>1. /\ jobs \in [Jobs -> Job] /\ paid \in [Jobs -> Shares]
      /\ jobs[j].budget \in Nat /\ jobs[j].status = "Submitted"
      /\ UNCHANGED splitDone /\ j \in Escrowed
  BY DEF IInv, TypeOK, Job, Complete, Escrowed
<1>2. jobs[j].budget > 0 /\ paid[j] = NoShares /\ ~splitDone[j]
  BY <1>1 DEF IInv, MoneyInv, JobMoney, Holds
<1>3. /\ jobs'[j] = [jobs[j] EXCEPT !.status = "Completed"]
      /\ jobs'[j].status = "Completed" /\ jobs'[j].provider = jobs[j].provider
      /\ \A k \in Jobs \ {j} : jobs'[k] = jobs[k]
  BY <1>1 DEF Complete, Enter, Job
<1>4. SameTerms(j)
  BY <1>1, <1>3 DEF SameTerms, Terms, Job
<1>5. CASE jobs[j].provider = Splitter
  <2>1. UNCHANGED paid
    BY <1>5 DEF Complete
  <2>2. Holds(j) /\ Holds(j)'
    BY <1>1, <1>2, <1>3, <1>5 DEF Holds, Escrowed, Parked
  <2>. QED
    BY <1>1, <1>3, <1>4, <2>1, <2>2 DEF Moved, OnlyJob, Advanced, SamePayments
<1>6. CASE jobs[j].provider # Splitter
  <2>1. Pay(j, "provider", jobs[j].budget)
    BY <1>6 DEF Complete
  <2>2. /\ paid'[j] = [paid[j] EXCEPT !["provider"] = @ + jobs[j].budget]
        /\ \A k \in Jobs \ {j} : paid'[k] = paid[k]
    BY <1>1, <2>1 DEF Pay
  <2>3. paid'[j] = [client |-> 0, provider |-> jobs[j].budget, treasury |-> 0]
    BY <1>1, <1>2, <2>2 DEF NoShares, Shares
  <2>4. Holds(j) /\ ~Holds(j)'
    BY <1>1, <1>3, <1>6 DEF Holds, Escrowed, Parked
  <2>. QED
    BY <1>1, <1>2, <1>3, <1>4, <2>2, <2>3, <2>4
       DEF Moved, OnlyJob, PaidOut, Shares
<1>. QED BY <1>5, <1>6

\* Every transaction moves one job, or none.
LEMMA NextMovesOneJob ==
    ASSUME IInv, [Next]_vars
    PROVE  UNCHANGED <<jobs, paid, splitDone>> \/ \E j \in Jobs : Moved(j)
<1>0. /\ jobs \in [Jobs -> Job] /\ paid \in [Jobs -> Shares]
      /\ splitDone \in [Jobs -> BOOLEAN]
  BY DEF IInv, TypeOK
<1>1. CASE UNCHANGED vars
  BY <1>1 DEF vars
<1>2. ASSUME NEW sender \in Wallets, NEW p \in Providers, NEW e \in Evaluators,
             CreateJob(sender, p, e)
      PROVE  Moved(jobCount + 1)
  <2>1. jobs[jobCount + 1].status = "Open"
    BY <1>2 DEF IInv, Numbered, NoJob, TypeOK, CreateJob
  <2>. QED BY <1>0, <1>2, <2>1
              DEF CreateJob, Moved, OnlyJob, Reworded, SamePayments
<1>3. ASSUME NEW sender, NEW j \in Jobs, NEW p, SetProvider(sender, j, p)
      PROVE  Moved(j)
  BY <1>0, <1>3 DEF SetProvider, Moved, OnlyJob, Reworded, SamePayments, Job
<1>4. ASSUME NEW sender, NEW j \in Jobs, NEW amount, SetBudget(sender, j, amount)
      PROVE  Moved(j)
  BY <1>0, <1>4 DEF SetBudget, Moved, OnlyJob, Reworded, SamePayments, Job
<1>5. ASSUME NEW sender, NEW j \in Jobs, NEW amount, Fund(sender, j, amount)
      PROVE  Moved(j)
  <2>1. /\ jobs'[j].status = "Funded" /\ jobs'[j].budget = jobs[j].budget
        /\ \A k \in Jobs \ {j} : jobs'[k] = jobs[k]
    BY <1>0, <1>5 DEF Fund, Enter, Job
  <2>2. jobs[j].status = "Open" /\ jobs[j].budget > 0 /\ UNCHANGED <<paid, splitDone>>
    BY <1>5 DEF Fund
  <2>. QED BY <2>1, <2>2
              DEF Moved, OnlyJob, Funded, SamePayments, Holds, Escrowed
<1>6. ASSUME NEW sender, NEW j \in Jobs, Submit(sender, j)
      PROVE  Moved(j)
  <2>1. /\ jobs'[j] = [jobs[j] EXCEPT !.status = "Submitted"]
        /\ jobs'[j].status = "Submitted"
        /\ \A k \in Jobs \ {j} : jobs'[k] = jobs[k]
    BY <1>0, <1>6 DEF Submit, Enter, Job
  <2>2. jobs[j].status = "Funded" /\ UNCHANGED <<paid, splitDone>>
    BY <1>6 DEF Submit
  <2>3. SameTerms(j)
    BY <1>0, <2>1 DEF SameTerms, Terms, Job
  <2>. QED BY <2>1, <2>2, <2>3
              DEF Moved, OnlyJob, Advanced, SamePayments, Holds, Escrowed
<1>7. ASSUME NEW sender, NEW j \in Jobs, Reject(sender, j)
      PROVE  Moved(j)
  <2>1. CASE jobs[j].status = "Open" /\ UNCHANGED paid
    BY <1>0, <1>7, <2>1
       DEF Reject, Enter, Moved, OnlyJob, Dropped, SamePayments, Job
  <2>2. CASE j \in Escrowed /\ Refund(j)
    BY <1>7, <2>2, RefundPays DEF Reject
  <2>. QED BY <1>7, <2>1, <2>2 DEF Reject
<1>8. ASSUME NEW j \in Jobs, ClaimRefund(j)
      PROVE  Moved(j)
  BY <1>8, RefundPays DEF ClaimRefund
<1>9. ASSUME NEW j \in Jobs, NEW spent, SignSplit(j, spent) \/ Expire(j)
      PROVE  UNCHANGED <<jobs, paid, splitDone>>
  BY <1>9 DEF SignSplit, Expire
<1>. QED
  BY <1>1, <1>2, <1>3, <1>4, <1>5, <1>6, <1>7, <1>8, <1>9, CompleteMoves, SplitPays
     DEF Next, Negotiate, Deliver, SubmitJob, CreateJob

-----------------------------------------------------------------------------
(* The inductive invariant *)

\* An untouched job keeps its money where it was.
LEMMA UntouchedKeeps ==
    ASSUME NEW j \in Jobs, jobs'[j] = jobs[j], paid'[j] = paid[j],
           splitDone'[j] = splitDone[j]
    PROVE  (JobMoney(j) => JobMoney(j)') /\ (Holds(j)' <=> Holds(j))
BY DEF JobMoney, Holds, Escrowed, Parked

LEMMA MovedKeepsMoney ==
    ASSUME MoneyInv, NEW j \in Jobs, Moved(j)
    PROVE  MoneyInv'
<1>1. ASSUME NEW k \in Jobs, k # j PROVE JobMoney(k)'
  BY <1>1, UntouchedKeeps DEF Moved, OnlyJob, MoneyInv
<1>2. JobMoney(j)
  BY DEF MoneyInv
<1>3. JobMoney(j)'
  <2>1. CASE Reworded(j)
    BY <1>2, <2>1 DEF JobMoney, Reworded, SamePayments, Holds, Escrowed, Parked
  <2>2. CASE Funded(j)
    BY <1>2, <2>2 DEF JobMoney, Funded, SamePayments, Holds, Escrowed, Parked
  <2>3. CASE Advanced(j)
    <3>1. jobs'[j].budget = jobs[j].budget
      BY <2>3 DEF Advanced, SameTerms, Terms
    <3>. QED
      BY <1>2, <2>3, <3>1 DEF JobMoney, Advanced, SamePayments, Holds, Escrowed, Parked
  <2>4. CASE PaidOut(j)
    <3>1. jobs'[j].budget = jobs[j].budget
      BY <2>4 DEF PaidOut, SameTerms, Terms
    <3>. QED BY <2>4, <3>1 DEF JobMoney, PaidOut
  <2>5. CASE Dropped(j)
    BY <1>2, <2>5 DEF JobMoney, Dropped, SamePayments, Holds, Escrowed, Parked
  <2>. QED BY <2>1, <2>2, <2>3, <2>4, <2>5 DEF Moved
<1>. QED BY <1>1, <1>3 DEF MoneyInv

\* A wallet only acts on a job that was created, so ids stay consecutive.
LEMMA NumberingKept ==
    ASSUME IInv, [Next]_vars
    PROVE  Numbered'
<1>. USE DEF IInv
<1>0. /\ jobs \in [Jobs -> Job] /\ jobCount \in Nat
  BY DEF TypeOK
<1>1. ASSUME NEW j \in Jobs, ~(j > jobCount), UNCHANGED jobCount,
             \A k \in Jobs \ {j} : jobs'[k] = jobs[k]
      PROVE  Numbered'
  BY <1>1 DEF Numbered
<1>2. CASE UNCHANGED <<jobs, jobCount>>
  BY <1>2 DEF Numbered
<1>3. ASSUME NEW sender \in Wallets, NEW p \in Providers, NEW e \in Evaluators,
             CreateJob(sender, p, e)
      PROVE  Numbered'
  BY <1>0, <1>3, JobsAssumption DEF CreateJob, Numbered
<1>4. ASSUME NEW sender \in Wallets, NEW j \in Jobs, NEW p, SetProvider(sender, j, p)
      PROVE  Numbered'
  BY <1>0, <1>1, <1>4, Existing DEF SetProvider
<1>5. ASSUME NEW sender \in Wallets, NEW j \in Jobs, NEW amount, SetBudget(sender, j, amount)
      PROVE  Numbered'
  BY <1>0, <1>1, <1>5, Existing DEF SetBudget
<1>6. ASSUME NEW sender \in Wallets, NEW j \in Jobs, NEW amount, Fund(sender, j, amount)
      PROVE  Numbered'
  BY <1>0, <1>1, <1>6, Existing DEF Fund, Enter
<1>7. ASSUME NEW w \in Wallets, NEW sender, NEW j \in Jobs, Submit(sender, j)
      PROVE  Numbered'
  BY <1>0, <1>1, <1>7, Existing DEF Submit, Enter
<1>8. ASSUME NEW sender \in Wallets, NEW j \in Jobs, Complete(sender, j)
      PROVE  Numbered'
  BY <1>0, <1>1, <1>8, Existing DEF Complete, Enter
<1>9. ASSUME NEW sender \in Wallets, NEW j \in Jobs, Reject(sender, j)
      PROVE  Numbered'
  BY <1>0, <1>1, <1>9, Existing DEF Reject, Enter
<1>10. ASSUME NEW j \in Jobs, ClaimRefund(j)
       PROVE  Numbered'
  <2>1. Keeper \in Wallets /\ jobs[j].status # "Open"
    BY <1>10 DEF Wallets, ClaimRefund, Escrowed
  <2>. QED BY <1>0, <1>1, <1>10, <2>1, Existing DEF ClaimRefund, Enter
<1>. QED
  BY <1>2, <1>3, <1>4, <1>5, <1>6, <1>7, <1>8, <1>9, <1>10
     DEF Next, Negotiate, Deliver, SubmitJob, Split, SignSplit, Expire, vars

LEMMA InitInductive == Init => IInv
<1>. SUFFICES ASSUME Init PROVE IInv
  OBVIOUS
<1>1. TypeOK
  BY AmountsAssumption
     DEF Init, TypeOK, Job, NoJob, JobStatus, Shares, NoShares
<1>2. \A j \in Jobs : /\ jobs[j] = NoJob /\ paid[j] = NoShares /\ ~splitDone[j]
  BY DEF Init
<1>3. Numbered /\ MoneyInv
  BY <1>2 DEF Numbered, MoneyInv, JobMoney, Holds, Escrowed, Parked, NoJob
<1>. QED BY <1>1, <1>3 DEF IInv

LEMMA StepInductive == IInv /\ [Next]_vars => IInv'
<1>. SUFFICES ASSUME IInv, [Next]_vars PROVE IInv'
  OBVIOUS
<1>1. TypeOK'
  BY TypeKept DEF IInv
<1>2. MoneyInv'
  <2>1. CASE UNCHANGED <<jobs, paid, splitDone>>
    BY <2>1, UntouchedKeeps DEF IInv, MoneyInv
  <2>. QED BY <2>1, NextMovesOneJob, MovedKeepsMoney DEF IInv
<1>. QED BY <1>1, <1>2, NumberingKept DEF IInv

\* The inductive invariant holds in every reachable state.
THEOREM InductiveInvariant == Spec => []IInv
<1>. QED BY InitInductive, StepInductive, PTL DEF Spec

-----------------------------------------------------------------------------
(* The money in the contracts *)

\* No job names the core as its provider, so a payout leaves the core.
OutsideCore == \A j \in Jobs : jobs[j].provider # Core

FundsInv == OutsideCore /\ FundsHeld

\* Only created jobs hold money, so both pools are finite.
LEMMA PoolsFinite ==
    ASSUME IInv PROVE IsFiniteSet(Escrowed) /\ IsFiniteSet(Parked)
<1>1. jobCount \in Nat /\ IsFiniteSet(1..jobCount)
  BY FS_Interval DEF IInv, TypeOK
<1>2. ASSUME NEW j \in Jobs, jobs[j].status # "Open" PROVE j \in 1..jobCount
  BY <1>1, <1>2, JobsAssumption DEF IInv, Numbered, NoJob
<1>3. Escrowed \subseteq 1..jobCount /\ Parked \subseteq 1..jobCount
  BY <1>2 DEF Escrowed, Parked
<1>. QED BY <1>1, <1>3, FS_Subset

\* A step on job j changes what a pool adds up to by what j had and has in it.
LEMMA PoolMoves ==
    ASSUME jobs \in [Jobs -> Job], NEW j \in Jobs, jobs'[j].budget \in Nat,
           \A k \in Jobs \ {j} : jobs'[k] = jobs[k],
           NEW S \in SUBSET Jobs, NEW T \in SUBSET Jobs, IsFiniteSet(S), T \ {j} = S \ {j}
    PROVE  /\ Total(Budgets, S) \in Int
           /\ Total(Budgets', T) = Total(Budgets, S)
                - (IF j \in S THEN jobs[j].budget ELSE 0)
                + (IF j \in T THEN jobs'[j].budget ELSE 0)
<1>. DEFINE R == S \ {j}
<1>1. /\ \A k \in Jobs : Budgets[k] = jobs[k].budget /\ Budgets'[k] = jobs'[k].budget
      /\ \A k \in Jobs : Budgets[k] \in Nat
      /\ \A k \in Jobs : Budgets'[k] \in Nat
  BY DEF Budgets, Job
<1>2. IntOn(Budgets, S) /\ IntOn(Budgets, R) /\ IntOn(Budgets', R) /\ IntOn(Budgets', T)
  BY <1>1 DEF IntOn
<1>3. /\ IsFiniteSet(R) /\ R = T \ {j} /\ IsFiniteSet(R \cup {j})
      /\ IsFiniteSet(T)
  <2>1. IsFiniteSet(R) /\ IsFiniteSet(R \cup {j})
    BY FS_RemoveElement, FS_AddElement
  <2>2. T \in SUBSET (R \cup {j})
    OBVIOUS
  <2>. QED BY <2>1, <2>2, FS_Subset
<1>4. Total(Budgets', R) = Total(Budgets, R) /\ Total(Budgets, R) \in Int
  <2>1. \A k \in R : Budgets[k] = Budgets'[k]
    BY <1>1
  <2>. QED BY <1>2, <1>3, <2>1, TotalSame, TotalInt
<1>5. Total(Budgets, S) = Total(Budgets, R) + (IF j \in S THEN jobs[j].budget ELSE 0)
  <2>1. CASE j \in S
    BY <1>1, <1>2, <1>4, <2>1, TotalRemove
  <2>2. CASE j \notin S
    <3>1. R = S
      BY <2>2
    <3>. QED BY <1>4, <2>2, <3>1
  <2>. QED BY <2>1, <2>2
<1>6. Total(Budgets', T) = Total(Budgets', R) + (IF j \in T THEN jobs'[j].budget ELSE 0)
  <2>1. CASE j \in T
    BY <1>1, <1>2, <1>3, <1>4, <2>1, TotalRemove
  <2>2. CASE j \notin T
    <3>1. R = T
      BY <2>2
    <3>. QED BY <1>4, <2>2, <3>1
  <2>. QED BY <2>1, <2>2
<1>7. jobs[j].budget \in Nat
  BY DEF Job
<1>. HIDE DEF R
<1>. QED BY <1>4, <1>5, <1>6, <1>7

\* What a transfer between two accounts does to the others.
LEMMA TransferMoves ==
    ASSUME balance \in [Accounts -> Nat], NEW from \in Accounts, NEW to, from # to,
           NEW amount \in Nat, Transfer(from, to, amount)
    PROVE  /\ balance'[from] = balance[from] - amount
           /\ to \in Accounts => balance'[to] = balance[to] + amount
           /\ \A a \in Accounts \ {from, to} : balance'[a] = balance[a]
BY DEF Transfer, Credit, Debit

\* The pools after a step on job j, from what it did to the balances of the contracts.
LEMMA FundsMove ==
    ASSUME IInv, FundsHeld, NEW j \in Jobs, jobs'[j].budget \in Nat,
           \A k \in Jobs \ {j} : jobs'[k] = jobs[k] /\ splitDone'[k] = splitDone[k],
           balance'[Core] = balance[Core] - (IF j \in Escrowed THEN jobs[j].budget ELSE 0)
                                          + (IF j \in Escrowed' THEN jobs'[j].budget ELSE 0),
           balance'[Splitter] = balance[Splitter]
                                  - (IF j \in Parked THEN jobs[j].budget ELSE 0)
                                  + (IF j \in Parked' THEN jobs'[j].budget ELSE 0)
    PROVE  FundsHeld'
<1>1. jobs \in [Jobs -> Job]
  BY DEF IInv, TypeOK
<1>2. Escrowed \ {j} = Escrowed' \ {j} /\ Parked \ {j} = Parked' \ {j}
  BY DEF Escrowed, Parked
<1>3. /\ Escrowed \in SUBSET Jobs /\ Escrowed' \in SUBSET Jobs
      /\ Parked \in SUBSET Jobs /\ Parked' \in SUBSET Jobs
  BY DEF Escrowed, Parked
<1>4. Total(Budgets', Escrowed') = balance'[Core]
  BY <1>1, <1>2, <1>3, PoolsFinite, PoolMoves DEF FundsHeld
<1>5. Total(Budgets', Parked') = balance'[Splitter]
  BY <1>1, <1>2, <1>3, PoolsFinite, PoolMoves DEF FundsHeld
<1>. QED BY <1>4, <1>5 DEF FundsHeld

\* A funded job enters the pool of the core with its budget.
LEMMA FundHolds ==
    ASSUME IInv, FundsInv, NEW sender \in Wallets, NEW j \in Jobs, NEW amount,
           Fund(sender, j, amount)
    PROVE  FundsHeld'
<1>1. /\ jobs[j].budget \in Nat /\ balance \in [Accounts -> Nat] /\ jobs \in [Jobs -> Job]
      /\ sender \in Accounts \ {Core, Splitter} /\ {Core, Splitter} \subseteq Accounts
  BY AccountsAssumption DEF IInv, TypeOK, Job, Accounts
<1>2. /\ jobs[j].status = "Open" /\ jobs'[j].status = "Funded"
      /\ jobs'[j].budget = jobs[j].budget
      /\ \A k \in Jobs \ {j} : jobs'[k] = jobs[k] /\ splitDone'[k] = splitDone[k]
  BY <1>1 DEF Fund, Enter, Job
<1>3. /\ j \notin Escrowed /\ j \in Escrowed' /\ j \notin Parked /\ j \notin Parked'
  BY <1>2 DEF Escrowed, Parked
<1>4. Transfer(sender, Core, jobs[j].budget) /\ sender # Core /\ Splitter \notin {sender, Core}
  BY <1>1, AccountsAssumption DEF Fund
<1>5. balance'[Core] = balance[Core] + jobs[j].budget /\ balance'[Splitter] = balance[Splitter]
  BY <1>1, <1>4, TransferMoves
<1>. QED BY <1>1, <1>2, <1>3, <1>5, FundsMove DEF FundsInv

\* A completed job leaves the core, and waits in the splitter when that is its provider.
LEMMA CompleteHolds ==
    ASSUME IInv, FundsInv, NEW sender, NEW j \in Jobs, Complete(sender, j)
    PROVE  FundsHeld'
<1>1. /\ jobs[j].budget \in Nat /\ balance \in [Accounts -> Nat] /\ jobs \in [Jobs -> Job]
      /\ {Core, Splitter} \subseteq Accounts /\ Core # Splitter
  BY AccountsAssumption DEF IInv, TypeOK, Job, Accounts
<1>2. /\ jobs[j].status = "Submitted" /\ jobs'[j].status = "Completed"
      /\ jobs'[j].budget = jobs[j].budget /\ jobs'[j].provider = jobs[j].provider
      /\ UNCHANGED splitDone
      /\ \A k \in Jobs \ {j} : jobs'[k] = jobs[k] /\ splitDone'[k] = splitDone[k]
  BY <1>1 DEF Complete, Enter, Job
<1>3. ~splitDone[j]
  BY <1>2 DEF IInv, MoneyInv, JobMoney
<1>4. /\ j \in Escrowed /\ j \notin Escrowed' /\ j \notin Parked
      /\ j \in Parked' <=> jobs[j].provider = Splitter
  BY <1>2, <1>3 DEF Escrowed, Parked
<1>5. Transfer(Core, jobs[j].provider, jobs[j].budget) /\ jobs[j].provider # Core
  BY DEF Complete, FundsInv, OutsideCore
<1>6. balance'[Core] = balance[Core] - jobs[j].budget
  BY <1>1, <1>5, TransferMoves
<1>7. balance'[Splitter] = IF jobs[j].provider = Splitter
                           THEN balance[Splitter] + jobs[j].budget ELSE balance[Splitter]
  BY <1>1, <1>5, TransferMoves
<1>. QED BY <1>1, <1>2, <1>4, <1>6, <1>7, FundsMove DEF FundsInv

\* A rejected or expired job leaves the core with its budget.
LEMMA RefundHolds ==
    ASSUME IInv, FundsInv, NEW j \in Jobs, j \in Escrowed, Refund(j),
           NEW status \in {"Rejected", "Expired"}, Enter(j, status), UNCHANGED splitDone
    PROVE  FundsHeld'
<1>1. /\ jobs[j].budget \in Nat /\ balance \in [Accounts -> Nat] /\ jobs \in [Jobs -> Job]
      /\ {Core, Splitter} \subseteq Accounts /\ Core # Splitter
      /\ jobs[j].client \notin {Core, Splitter}
  BY AccountsAssumption DEF IInv, TypeOK, Job, Accounts
<1>2. /\ jobs'[j].status = status /\ jobs'[j].budget = jobs[j].budget
      /\ \A k \in Jobs \ {j} : jobs'[k] = jobs[k] /\ splitDone'[k] = splitDone[k]
  BY <1>1 DEF Enter, Job
<1>3. j \notin Escrowed' /\ j \notin Parked /\ j \notin Parked'
  <2>1. jobs[j].status # "Completed" /\ jobs'[j].status \notin {"Funded", "Submitted", "Completed"}
    BY <1>2 DEF Escrowed
  <2>. QED BY <2>1 DEF Escrowed, Parked
<1>4. balance'[Core] = balance[Core] - jobs[j].budget /\ balance'[Splitter] = balance[Splitter]
  <2>. DEFINE client == jobs[j].client
              budget == jobs[j].budget
  <2>1. /\ Transfer(Core, client, budget) /\ Core # client /\ budget \in Nat
        /\ Splitter \in Accounts \ {Core, client} /\ Core \in Accounts
    BY <1>1 DEF Refund
  <2>2. balance \in [Accounts -> Nat]
    BY <1>1
  <2>. HIDE DEF client, budget
  <2>3. balance'[Core] = balance[Core] - budget /\ balance'[Splitter] = balance[Splitter]
    BY <2>1, <2>2, TransferMoves
  <2>. QED BY <2>3 DEF budget
<1>. QED BY <1>1, <1>2, <1>3, <1>4, FundsMove DEF FundsInv

\* A split job leaves the splitter, whose three transfers add up to its budget.
LEMMA SplitHolds ==
    ASSUME IInv, FundsInv, NEW sender, NEW a \in signed, Split(sender, a)
    PROVE  FundsHeld'
<1>. DEFINE j == a.job
            fee == Fee(a.spent)
            earned == a.spent - fee
            refund == jobs[j].budget - a.spent
<1>1. /\ j \in Jobs /\ j \in Parked /\ a.spent \in Nat /\ a.spent <= jobs[j].budget
      /\ jobs[j].budget \in Nat /\ balance \in [Accounts -> Nat] /\ jobs \in [Jobs -> Job]
      /\ splitDone \in [Jobs -> BOOLEAN] /\ UNCHANGED jobs
      /\ splitDone' = [splitDone EXCEPT ![j] = TRUE]
  BY DEF Split, IInv, TypeOK, Attestations, Job, Parked
<1>2. /\ {Core, Splitter} \subseteq Accounts /\ Core # Splitter
      /\ {Core, Splitter} \cap {Operator, Treasury, jobs[j].client} = {}
  <2>1. jobs[j].client \in Wallets \cup {ZeroAddress}
    BY <1>1 DEF Job
  <2>. QED BY <2>1, AccountsAssumption DEF Accounts
<1>3. j \notin Escrowed /\ j \notin Escrowed' /\ j \notin Parked'
  BY <1>1 DEF Escrowed, Parked
<1>4. balance' = Credit(Credit(Credit(
                     Debit(balance, Splitter, jobs[j].budget),
                     Operator, earned), Treasury, fee), jobs[j].client, refund)
  BY DEF Split, Divide
<1>5. ASSUME NEW b, DOMAIN b = Accounts, NEW account, NEW amount, account \notin {Core, Splitter}
      PROVE  /\ DOMAIN Credit(b, account, amount) = Accounts
             /\ Credit(b, account, amount)[Core] = b[Core]
             /\ Credit(b, account, amount)[Splitter] = b[Splitter]
  BY <1>2, <1>5 DEF Credit
<1>. HIDE DEF earned, fee, refund
<1>6. /\ balance'[Core] = Debit(balance, Splitter, jobs[j].budget)[Core]
      /\ balance'[Splitter] = Debit(balance, Splitter, jobs[j].budget)[Splitter]
  <2>. DEFINE b0 == Debit(balance, Splitter, jobs[j].budget)
              b1 == Credit(b0, Operator, earned)
              b2 == Credit(b1, Treasury, fee)
  <2>1. DOMAIN b0 = Accounts
    BY <1>1 DEF Debit
  <2>. HIDE DEF b0
  <2>2. DOMAIN b1 = Accounts /\ b1[Core] = b0[Core] /\ b1[Splitter] = b0[Splitter]
    BY <1>2, <1>5, <2>1
  <2>. HIDE DEF b1
  <2>3. DOMAIN b2 = Accounts /\ b2[Core] = b1[Core] /\ b2[Splitter] = b1[Splitter]
    BY <1>2, <1>5, <2>2
  <2>. HIDE DEF b2
  <2>4. balance' = Credit(b2, jobs[j].client, refund)
    BY <1>4 DEF b0, b1, b2
  <2>5. balance'[Core] = b2[Core] /\ balance'[Splitter] = b2[Splitter]
    BY <1>2, <1>5, <2>3, <2>4
  <2>. QED BY <2>2, <2>3, <2>5 DEF b0
<1>7. balance'[Core] = balance[Core] /\ balance'[Splitter] = balance[Splitter] - jobs[j].budget
  <2>. HIDE DEF j
  <2>. QED BY <1>1, <1>2, <1>6 DEF Debit
<1>8. /\ \A k \in Jobs \ {j} : jobs'[k] = jobs[k] /\ splitDone'[k] = splitDone[k]
      /\ jobs'[j].budget = jobs[j].budget
  BY <1>1
<1>9. balance[Core] \in Nat /\ balance[Splitter] \in Nat
  BY <1>1, <1>2
<1>. HIDE DEF j
<1>10. /\ balance'[Core] = balance[Core] - (IF j \in Escrowed THEN jobs[j].budget ELSE 0)
                           + (IF j \in Escrowed' THEN jobs'[j].budget ELSE 0)
       /\ balance'[Splitter] = balance[Splitter] - (IF j \in Parked THEN jobs[j].budget ELSE 0)
                               + (IF j \in Parked' THEN jobs'[j].budget ELSE 0)
  BY <1>1, <1>3, <1>7, <1>9
<1>11. j \in Jobs /\ jobs'[j].budget \in Nat /\ FundsHeld
  BY <1>1, <1>8 DEF FundsInv
<1>. QED BY <1>8, <1>10, <1>11, FundsMove

\* A step on a job that is in neither pool, before and after, and moves no money.
LEMMA OpenHolds ==
    ASSUME IInv, FundsInv, NEW j \in Jobs, jobs'[j].budget \in Nat,
           \A k \in Jobs \ {j} : jobs'[k] = jobs[k], UNCHANGED <<balance, splitDone>>,
           jobs[j].status = "Open", jobs'[j].status \in {"Open", "Rejected"}
    PROVE  FundsHeld'
<1>1. j \notin Escrowed /\ j \notin Escrowed' /\ j \notin Parked /\ j \notin Parked'
  BY DEF Escrowed, Parked
<1>2. balance[Core] \in Nat /\ balance[Splitter] \in Nat
  BY AccountsExist DEF IInv, TypeOK
<1>. QED BY <1>1, <1>2, FundsMove DEF FundsInv

LEMMA IdleKeepsFunds ==
    ASSUME FundsInv, UNCHANGED <<jobs, balance, splitDone>> PROVE FundsInv'
<1>1. Budgets' = Budgets /\ Escrowed' = Escrowed /\ Parked' = Parked
  BY DEF Budgets, Escrowed, Parked
<1>. QED BY <1>1 DEF FundsInv, FundsHeld, OutsideCore

\* Every step of the contracts keeps the pools.
LEMMA FundsKept ==
    ASSUME IInv, FundsInv, [Next]_vars
    PROVE  FundsInv'
<1>0. /\ jobs \in [Jobs -> Job] /\ jobCount \in Nat
      /\ balance[Core] \in Nat /\ balance[Splitter] \in Nat
  BY AccountsExist DEF IInv, TypeOK
<1>1. CASE UNCHANGED vars
  BY <1>1, IdleKeepsFunds DEF vars
<1>2. ASSUME NEW sender \in Wallets, NEW p \in Providers, NEW e \in Evaluators,
             CreateJob(sender, p, e)
      PROVE  FundsInv'
  <2>1. OutsideCore'
    BY <1>0, <1>2, AccountsAssumption DEF CreateJob, FundsInv, OutsideCore, Accounts
  <2>2. jobs[jobCount + 1].status = "Open"
    BY <1>0, <1>2 DEF IInv, Numbered, NoJob, CreateJob
  <2>3. FundsHeld'
    BY <1>0, <1>2, <2>2, OpenHolds DEF CreateJob
  <2>. QED BY <2>1, <2>3 DEF FundsInv
<1>3. ASSUME NEW sender, NEW j \in Jobs, NEW p \in Providers, SetProvider(sender, j, p)
      PROVE  FundsInv'
  <2>1. OutsideCore'
    BY <1>0, <1>3, AccountsAssumption DEF SetProvider, FundsInv, OutsideCore
  <2>2. /\ jobs[j].status = "Open" /\ jobs'[j].status = "Open" /\ jobs'[j].budget \in Nat
        /\ \A k \in Jobs \ {j} : jobs'[k] = jobs[k]
    BY <1>0, <1>3 DEF SetProvider, Job
  <2>3. FundsHeld'
    BY <1>3, <2>2, OpenHolds DEF SetProvider
  <2>. QED BY <2>1, <2>3 DEF FundsInv
<1>4. ASSUME NEW sender, NEW j \in Jobs, NEW amount \in Amounts, SetBudget(sender, j, amount)
      PROVE  FundsInv'
  <2>1. /\ jobs[j].status = "Open" /\ jobs'[j].status = "Open" /\ jobs'[j].budget \in Nat
        /\ \A k \in Jobs \ {j} : jobs'[k] = jobs[k]
        /\ jobs'[j].provider = jobs[j].provider
    BY <1>0, <1>4, AmountsAssumption DEF SetBudget, Job
  <2>2. OutsideCore'
    BY <2>1 DEF FundsInv, OutsideCore
  <2>3. FundsHeld'
    BY <1>4, <2>1, OpenHolds DEF SetBudget
  <2>. QED BY <2>2, <2>3 DEF FundsInv
<1>5. ASSUME NEW j \in Jobs, NEW status \in JobStatus, Enter(j, status) PROVE OutsideCore'
  BY <1>0, <1>5 DEF Enter, Job, FundsInv, OutsideCore
<1>6. ASSUME NEW sender \in Wallets, NEW j \in Jobs, NEW amount, Fund(sender, j, amount)
      PROVE  FundsInv'
  BY <1>5, <1>6, FundHolds DEF Fund, FundsInv, JobStatus
<1>7. ASSUME NEW sender, NEW j \in Jobs, Submit(sender, j)
      PROVE  FundsInv'
  <2>1. /\ jobs[j].status = "Funded" /\ jobs'[j].status = "Submitted"
        /\ jobs'[j].budget = jobs[j].budget /\ jobs[j].budget \in Nat
        /\ \A k \in Jobs \ {j} : jobs'[k] = jobs[k]
    BY <1>0, <1>7 DEF Submit, Enter, Job
  <2>2. j \in Escrowed /\ j \in Escrowed' /\ j \notin Parked /\ j \notin Parked'
    BY <2>1 DEF Escrowed, Parked
  <2>3. FundsHeld'
    BY <1>0, <1>7, <2>1, <2>2, FundsMove DEF Submit, FundsInv
  <2>. QED BY <1>5, <1>7, <2>3 DEF Submit, FundsInv, JobStatus
<1>8. ASSUME NEW sender, NEW j \in Jobs, Complete(sender, j)
      PROVE  FundsInv'
  BY <1>5, <1>8, CompleteHolds DEF Complete, FundsInv, JobStatus
<1>9. ASSUME NEW sender, NEW j \in Jobs, Reject(sender, j)
      PROVE  FundsInv'
  <2>1. OutsideCore'
    BY <1>5, <1>9 DEF Reject, JobStatus
  <2>2. CASE jobs[j].status = "Open" /\ UNCHANGED <<balance, paid>>
    <3>1. /\ jobs'[j].status = "Rejected" /\ jobs'[j].budget \in Nat
          /\ \A k \in Jobs \ {j} : jobs'[k] = jobs[k]
      BY <1>0, <1>9 DEF Reject, Enter, Job
    <3>. QED BY <1>9, <2>1, <2>2, <3>1, OpenHolds DEF Reject, FundsInv
  <2>3. CASE j \in Escrowed /\ Refund(j)
    BY <1>9, <2>1, <2>3, RefundHolds DEF Reject, FundsInv
  <2>. QED BY <1>9, <2>2, <2>3 DEF Reject
<1>10. ASSUME NEW j \in Jobs, ClaimRefund(j)
       PROVE  FundsInv'
  BY <1>5, <1>10, RefundHolds DEF ClaimRefund, FundsInv, JobStatus
<1>11. ASSUME NEW sender, NEW a \in signed, Split(sender, a)
       PROVE  FundsInv'
  BY <1>11, SplitHolds DEF Split, FundsInv, OutsideCore
<1>12. ASSUME NEW j \in Jobs, NEW spent, SignSplit(j, spent) \/ Expire(j)
       PROVE  FundsInv'
  BY <1>12, IdleKeepsFunds DEF SignSplit, Expire
<1>. QED
  BY <1>1, <1>2, <1>3, <1>4, <1>6, <1>7, <1>8, <1>9, <1>10, <1>11, <1>12
     DEF Next, Negotiate, Deliver, SubmitJob

LEMMA FundsStart == Init => FundsInv
<1>. SUFFICES ASSUME Init PROVE FundsInv
  OBVIOUS
<1>1. Escrowed = {} /\ Parked = {}
  BY DEF Init, NoJob, Escrowed, Parked
<1>2. balance[Core] = 0 /\ balance[Splitter] = 0
  BY AccountsAssumption DEF Init, Accounts, Wallets
<1>3. OutsideCore
  BY AccountsAssumption DEF Init, NoJob, OutsideCore, Accounts
<1>. QED BY <1>1, <1>2, <1>3, TotalEmpty DEF FundsInv, FundsHeld

\* The two contracts hold exactly the budgets of the jobs that are theirs to pay out
\* (the token balances of AgenticCommerce.sol and NibgateRunSplitter.sol), so no job is
\* paid with the money of another, for any number of jobs.
THEOREM PoolsAreBacked == Spec => []FundsHeld
<1>1. Init => FundsInv
  BY FundsStart
<1>2. IInv /\ FundsInv /\ [Next]_vars => FundsInv'
  BY FundsKept
<1>3. FundsInv => FundsHeld
  BY DEF FundsInv
<1>. QED BY <1>1, <1>2, <1>3, InductiveInvariant, PTL DEF Spec

-----------------------------------------------------------------------------
(* The theorems *)

\* Type correctness of the two contracts (AgenticCommerce.sol,
\* NibgateRunSplitter.sol).
THEOREM EscrowTypes == Spec => []TypeOK
<1>1. IInv => TypeOK
  BY DEF IInv
<1>. QED BY <1>1, InductiveInvariant, PTL

LEMMA TermsKept ==
    ASSUME IInv, [Next]_vars, NEW j \in Escrowed \cup Parked
    PROVE  Terms(jobs'[j]) = Terms(jobs[j])
<1>1. j \in Jobs /\ Holds(j) /\ jobs[j].status # "Open"
  BY DEF Holds, Escrowed, Parked
<1>2. CASE UNCHANGED <<jobs, paid, splitDone>>
  BY <1>2
<1>3. ASSUME NEW k \in Jobs, Moved(k), k # j
      PROVE  Terms(jobs'[j]) = Terms(jobs[j])
  BY <1>1, <1>3 DEF Moved, OnlyJob
<1>4. CASE Moved(j)
  BY <1>1, <1>4
     DEF Moved, Reworded, Funded, Dropped, Advanced, PaidOut, SameTerms
<1>. QED BY <1>2, <1>3, <1>4, NextMovesOneJob

\* Once a job holds money its parties and its budget never change, so what the
\* client funded is what complete(), reject(), claimRefund() and split() settle.
THEOREM TermsAreFixed == Spec => FundedTermsFixed
<1>1. IInv /\ [Next]_vars =>
        [\A j \in Escrowed \cup Parked : Terms(jobs'[j]) = Terms(jobs[j])]_vars
  BY TermsKept
<1>. QED BY <1>1, InductiveInvariant, PTL DEF Spec, FundedTermsFixed

\* A move of one job funds or divides it in EscrowPromise, or is not seen there.
LEMMA MovedRefines ==
    ASSUME IInv, IInv', NEW j \in Jobs, Moved(j)
    PROVE  [Division!Next]_(Division!vars)
<1>. DEFINE held == [k \in Jobs |-> Held(k)]
<1>0. /\ jobs \in [Jobs -> Job] /\ jobs' \in [Jobs -> Job]
      /\ paid \in [Jobs -> Shares] /\ paid' \in [Jobs -> Shares]
  BY DEF IInv, TypeOK
<1>1. ASSUME NEW k \in Jobs, k # j
      PROVE  Held(k)' = Held(k) /\ paid'[k] = paid[k]
  BY <1>1, UntouchedKeeps DEF Moved, OnlyJob, Held, Holds
<1>2. CASE Held(j)' = Held(j) /\ paid'[j] = paid[j]
  <2>1. held' = held
    BY <1>1, <1>2
  <2>2. paid' = paid
    BY <1>0, <1>1, <1>2
  <2>. QED BY <2>1, <2>2 DEF Division!vars
<1>3. CASE Funded(j)
  <2>1. /\ held[j] = 0 /\ paid[j] = NoShares /\ paid' = paid
        /\ held'[j] \in Nat /\ held'[j] > 0
    BY <1>0, <1>1, <1>3
       DEF Funded, SamePayments, IInv, MoneyInv, JobMoney, Held, Holds, Escrowed,
           Parked, Job
  <2>2. held' = [held EXCEPT ![j] = held'[j]]
    BY <1>1
  <2>. QED BY <2>1, <2>2
           DEF Division!Next, Division!Fund, Division!NoShares, NoShares
<1>4. CASE PaidOut(j)
  <2>1. /\ held[j] = jobs[j].budget /\ held[j] > 0 /\ held'[j] = 0
        /\ held' = [held EXCEPT ![j] = 0]
    BY <1>1, <1>4 DEF PaidOut, IInv, MoneyInv, JobMoney, Held, Holds
  <2>2. paid' = [paid EXCEPT ![j] = paid'[j]]
    BY <1>0, <1>1
  <2>3. Division!Divide(j)
    BY <1>4, <2>1, <2>2 DEF Division!Divide, Division!Shares, PaidOut, Shares
  <2>. QED BY <2>3 DEF Division!Next
<1>5. CASE Reworded(j) \/ Dropped(j) \/ Advanced(j)
  <2>1. Held(j)' = Held(j) /\ paid'[j] = paid[j]
    BY <1>5 DEF Reworded, Dropped, Advanced, SamePayments, SameTerms, Terms, Held,
                Holds, Escrowed, Parked
  <2>. QED BY <1>2, <2>1
<1>. QED BY <1>3, <1>4, <1>5 DEF Moved

LEMMA DivisionStarts == Init => Division!Init
<1>. SUFFICES ASSUME Init PROVE Division!Init
  OBVIOUS
<1>1. \A j \in Jobs : Held(j) = 0
  BY DEF Init, Held, Escrowed, Parked, NoJob
<1>. QED BY <1>1 DEF Init, Division!Init, NoShares, Division!NoShares

LEMMA IdleRefines ==
    ASSUME UNCHANGED <<jobs, paid, splitDone>> PROVE [Division!Next]_(Division!vars)
BY DEF Division!vars, Held, Escrowed, Parked

LEMMA StepRefines ==
    ASSUME IInv, IInv', [Next]_vars PROVE [Division!Next]_(Division!vars)
BY IdleRefines, NextMovesOneJob, MovedRefines

\* The contracts implement EscrowPromise: the money of a job is divided once
\* and completely, by whichever of complete(), reject(), claimRefund() and
\* split() comes first.
THEOREM EscrowDividesOnce == Spec => DividedOnce
<1>1. IInv /\ IInv' /\ [Next]_vars => [Division!Next]_(Division!vars)
  BY StepRefines
<1>. QED BY <1>1, DivisionStarts, InductiveInvariant, PTL
         DEF Spec, DividedOnce, Division!Spec

=============================================================================
