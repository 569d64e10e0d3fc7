------------------------------ MODULE EscrowJob ------------------------------
(***************************************************************************)
(* The escrow of research budgets on chain: the ERC-8183 core               *)
(* (contracts/AgenticCommerce.sol) and the splitter that is the provider of *)
(* a research job (contracts/NibgateRunSplitter.sol), over one token.       *)
(*                                                                          *)
(* A transaction is atomic and one that reverts changes nothing, so each    *)
(* external function is one action whose guards are its requirements.  All  *)
(* jobs share the token balances of the two contracts.  Jobs carry no hook: *)
(* the service refuses a job that has one (assertEscrowJobBinding).  The    *)
(* clock is kept as the set of jobs whose deadline has passed.              *)
(***************************************************************************)
EXTENDS Integers, Sums

CONSTANTS
    Users,                 \* wallets: clients, and other providers/evaluators
    Keeper,                \* the service's key: evaluator and signer
    Operator, Treasury,    \* where the earned share and the fee go
    Core, Splitter,        \* the two contracts
    ZeroAddress,
    Jobs,                  \* job ids
    Providers, Evaluators, \* the accounts this instance names in a job
    Amounts,               \* the budgets of this instance
    Spends,                \* the spends the keeper may attest
    StartBalance,          \* tokens of a wallet at the start
    FeeBps                 \* the splitter's fee, fixed at deployment

MAX_FEE_BPS == 500

Wallets == Users \cup {Keeper}
Accounts == Wallets \cup {Operator, Treasury, Core, Splitter}

ASSUME JobsAssumption == Jobs \subseteq Nat \ {0}
ASSUME AccountsAssumption ==
    /\ Core # Splitter /\ ZeroAddress \notin Accounts
    /\ {Core, Splitter} \cap (Wallets \cup {Operator, Treasury}) = {}
    /\ Providers \subseteq Wallets \cup {Splitter, ZeroAddress}
    /\ Evaluators \subseteq Wallets
ASSUME AmountsAssumption ==
    /\ Amounts \subseteq Nat /\ Spends \subseteq Nat
    /\ StartBalance \in Nat /\ FeeBps \in 0..MAX_FEE_BPS

VARIABLES
    jobCount,              \* jobs created so far; the next id follows it
    jobs,                  \* the job records
    overdue,               \* jobs whose expiredAt has passed
    balance,               \* token balances
    splitDone,             \* jobs the splitter has divided
    signed,                \* split attestations the keeper has signed
    paid                   \* what left the contracts, by job and party

vars == <<jobCount, jobs, overdue, balance, splitDone, signed, paid>>

-----------------------------------------------------------------------------
(* Types *)

JobStatus == {"Open", "Funded", "Submitted", "Completed", "Rejected", "Expired"}
Job == [client : Wallets \cup {ZeroAddress}, provider : Accounts \cup {ZeroAddress},
        evaluator : Wallets \cup {ZeroAddress}, budget : Nat, status : JobStatus]

\* What getJob returns for an id that was never created.
NoJob == [client |-> ZeroAddress, provider |-> ZeroAddress,
          evaluator |-> ZeroAddress, budget |-> 0, status |-> "Open"]

\* The digest binds the job, the spend, the operator and the job's client.
Attestations == [job : Jobs, spent : Nat]

Shares == [client : Nat, provider : Nat, treasury : Nat]
NoShares == [client |-> 0, provider |-> 0, treasury |-> 0]

\* Every variable holds a value the contracts can store.
TypeOK ==
    /\ jobCount \in Nat
    /\ jobs \in [Jobs -> Job]
    /\ overdue \subseteq Jobs
    /\ balance \in [Accounts -> Nat]
    /\ splitDone \in [Jobs -> BOOLEAN]
    /\ signed \subseteq Attestations
    /\ paid \in [Jobs -> Shares]

-----------------------------------------------------------------------------
(* Money *)

Escrowed == {j \in Jobs : jobs[j].status \in {"Funded", "Submitted"}}
Parked == {j \in Jobs : /\ jobs[j].status = "Completed"
                        /\ jobs[j].provider = Splitter
                        /\ ~splitDone[j]}

Debit(b, account, amount) == [b EXCEPT ![account] = @ - amount]
Credit(b, account, amount) == [b EXCEPT ![account] = @ + amount]

\* A transfer reverts when the sender holds too little.
Transfer(from, to, amount) ==
    /\ balance[from] >= amount
    /\ balance' = Credit(Debit(balance, from, amount), to, amount)

Enter(j, status) == jobs' = [jobs EXCEPT ![j].status = status]
Pay(j, party, amount) == paid' = [paid EXCEPT ![j][party] = @ + amount]

-----------------------------------------------------------------------------
(* The core *)

CreateJob(sender, provider, evaluator) ==
    /\ jobCount + 1 \in Jobs
    /\ jobCount' = jobCount + 1
    /\ jobs' = [jobs EXCEPT ![jobCount + 1] =
                  [client |-> sender, provider |-> provider,
                   evaluator |-> evaluator, budget |-> 0, status |-> "Open"]]
    /\ UNCHANGED <<overdue, balance, splitDone, signed, paid>>

SetProviderLate(sender, j, provider) ==    \* mutant: also on funded jobs
    /\ jobs[j].client = sender
    /\ provider # ZeroAddress
    /\ jobs' = [jobs EXCEPT ![j].provider = provider]
    /\ UNCHANGED <<jobCount, overdue, balance, splitDone, signed, paid>>
SetProvider(sender, j, provider) ==
    /\ jobs[j].client = sender
    /\ jobs[j].status = "Open"
    /\ provider # ZeroAddress
    /\ jobs' = [jobs EXCEPT ![j].provider = provider]
    /\ UNCHANGED <<jobCount, overdue, balance, splitDone, signed, paid>>

SetBudget(sender, j, amount) ==
    /\ jobs[j].status = "Open"
    /\ sender \in {jobs[j].client, jobs[j].provider}
    /\ amount > 0
    /\ jobs' = [jobs EXCEPT ![j].budget = amount]
    /\ UNCHANGED <<jobCount, overdue, balance, splitDone, signed, paid>>

\* expected is the budget the client saw when it signed.
Fund(sender, j, expected) ==
    /\ jobs[j].client = sender
    /\ jobs[j].status = "Open"
    /\ jobs[j].budget > 0 /\ jobs[j].budget = expected
    /\ Enter(j, "Funded")
    /\ Transfer(sender, Core, jobs[j].budget)
    /\ UNCHANGED <<jobCount, overdue, splitDone, signed, paid>>

Submit(sender, j) ==
    /\ jobs[j].provider = sender
    /\ jobs[j].status = "Funded"
    /\ j \notin overdue
    /\ Enter(j, "Submitted")
    /\ UNCHANGED <<jobCount, overdue, balance, splitDone, signed, paid>>

\* The whole budget goes to the provider; at the splitter it is only parked.
Complete(sender, j) ==
    /\ jobs[j].evaluator = sender
    /\ jobs[j].status = "Submitted"
    /\ Enter(j, "Completed")
    /\ Transfer(Core, jobs[j].provider, jobs[j].budget)
    /\ IF jobs[j].provider = Splitter
         THEN UNCHANGED paid
         ELSE Pay(j, "provider", jobs[j].budget)
    /\ UNCHANGED <<jobCount, overdue, splitDone, signed>>

Refund(j) ==
    /\ Transfer(Core, jobs[j].client, jobs[j].budget)
    /\ Pay(j, "client", jobs[j].budget)

\* A client that is also the evaluator is treated as the client.
Reject(sender, j) ==
    /\ \/ /\ sender = jobs[j].client
          /\ jobs[j].status = "Open"
          /\ UNCHANGED <<balance, paid>>
       \/ /\ sender # jobs[j].client /\ sender = jobs[j].evaluator
          /\ j \in Escrowed
          /\ Refund(j)
    /\ Enter(j, "Rejected")
    /\ UNCHANGED <<jobCount, overdue, splitDone, signed>>

\* Mutants of ClaimRefund: submitted jobs are left out; completed ones are not.
ClaimRefundUnsubmitted(j) ==
    /\ jobs[j].status = "Funded" /\ j \in overdue
    /\ Enter(j, "Expired") /\ Refund(j)
    /\ UNCHANGED <<jobCount, overdue, splitDone, signed>>
ClaimRefundAnytime(j) ==
    /\ j \in Escrowed \cup Parked /\ j \in overdue
    /\ Enter(j, "Expired") /\ Refund(j)
    /\ UNCHANGED <<jobCount, overdue, splitDone, signed>>

\* Anyone may call it.
ClaimRefund(j) ==
    /\ j \in Escrowed
    /\ j \in overdue
    /\ Enter(j, "Expired")
    /\ Refund(j)
    /\ UNCHANGED <<jobCount, overdue, splitDone, signed>>

-----------------------------------------------------------------------------
(* The splitter *)

\* The keeper has the splitter, as the job's provider, submit to the core.
SubmitJob(sender, j) == sender = Keeper /\ Submit(Splitter, j)

Fee(spent) == (spent * FeeBps) \div 10000

\* The three transfers of a split, in one transaction.
Divide(j, spent) ==
    LET fee == Fee(spent)
        earned == spent - fee
        refund == jobs[j].budget - spent
    IN /\ balance[Splitter] >= jobs[j].budget
       /\ balance' = Credit(Credit(Credit(
                         Debit(balance, Splitter, jobs[j].budget),
                         Operator, earned), Treasury, fee), jobs[j].client, refund)
       /\ paid' = [paid EXCEPT ![j] = [client |-> @.client + refund,
                                       provider |-> @.provider + earned,
                                       treasury |-> @.treasury + fee]]

\* Mutants of Split: it can be repeated; only the keeper may call it.
SplitAgain(sender, a) ==
    /\ a \in signed
    /\ jobs[a.job].provider = Splitter /\ jobs[a.job].status = "Completed"
    /\ a.spent <= jobs[a.job].budget
    /\ splitDone' = [splitDone EXCEPT ![a.job] = TRUE]
    /\ Divide(a.job, a.spent)
    /\ UNCHANGED <<jobCount, jobs, overdue, signed>>
SplitByKeeper(sender, a) ==
    /\ sender = Keeper /\ a \in signed
    /\ a.job \in Parked /\ a.spent <= jobs[a.job].budget
    /\ splitDone' = [splitDone EXCEPT ![a.job] = TRUE]
    /\ Divide(a.job, a.spent)
    /\ UNCHANGED <<jobCount, jobs, overdue, signed>>

\* Anyone may present an attestation.
Split(sender, a) ==
    /\ a \in signed
    /\ a.job \in Parked
    /\ a.spent <= jobs[a.job].budget
    /\ splitDone' = [splitDone EXCEPT ![a.job] = TRUE]
    /\ Divide(a.job, a.spent)
    /\ UNCHANGED <<jobCount, jobs, overdue, signed>>

-----------------------------------------------------------------------------
(* The keeper's signature and the clock *)

\* signSplit(): the keeper signs for a completed job whose provider is the
\* splitter; another attempt may sign another spend.
SignSplit(j, spent) ==
    /\ jobs[j].status = "Completed" /\ jobs[j].provider = Splitter
    /\ jobs[j].evaluator = Keeper
    /\ signed' = signed \cup {[job |-> j, spent |-> spent]}
    /\ UNCHANGED <<jobCount, jobs, overdue, balance, splitDone, paid>>

\* block.timestamp reaches expiredAt.
Expire(j) ==
    /\ j <= jobCount /\ j \notin overdue
    /\ overdue' = overdue \cup {j}
    /\ UNCHANGED <<jobCount, jobs, balance, splitDone, signed, paid>>

-----------------------------------------------------------------------------
(* The specification *)

Init ==
    /\ jobCount = 0
    /\ jobs = [j \in Jobs |-> NoJob]
    /\ overdue = {}
    /\ balance = [a \in Accounts |-> IF a \in Users THEN StartBalance ELSE 0]
    /\ splitDone = [j \in Jobs |-> FALSE]
    /\ signed = {}
    /\ paid = [j \in Jobs |-> NoShares]

Negotiate(sender, j) ==
    \/ \E p \in Providers : SetProvider(sender, j, p)
    \/ \E amount \in Amounts : SetBudget(sender, j, amount) \/ Fund(sender, j, amount)

Deliver(sender, j) ==
    Submit(sender, j) \/ SubmitJob(sender, j) \/ Complete(sender, j) \/ Reject(sender, j)

Next ==
    \/ \E sender \in Wallets :
         \/ \E p \in Providers, e \in Evaluators : CreateJob(sender, p, e)
         \/ \E j \in Jobs : Negotiate(sender, j) \/ Deliver(sender, j)
         \/ \E a \in signed : Split(sender, a)
    \/ \E j \in Jobs :
         \/ ClaimRefund(j) \/ Expire(j)
         \/ \E spent \in Spends : SignSplit(j, spent)

Spec == Init /\ [][Next]_vars

\* Deadlines pass, and a wallet other than the keeper wants each refund and
\* each split: both are calls anyone may make.  Nobody else need ever act.
Fairness ==
    \A j \in Jobs :
        /\ WF_vars(Expire(j)) /\ WF_vars(ClaimRefund(j))
        /\ WF_vars(\E u \in Users, a \in signed : a.job = j /\ Split(u, a))

FairSpec == Spec /\ Fairness

-----------------------------------------------------------------------------
(* Properties *)

\* The contracts hold, in one pool each, exactly the money of the jobs that
\* are theirs to pay out: no job is paid with the money of another.
Budgets == [j \in Jobs |-> jobs[j].budget]
FundsHeld ==
    /\ balance[Core] = Total(Budgets, Escrowed)
    /\ balance[Splitter] = Total(Budgets, Parked)

\* The money of a job is divided once and completely, with a bounded fee,
\* whether it was completed, split, rejected or had expired.
Held(j) == IF j \in Escrowed \cup Parked THEN jobs[j].budget ELSE 0
Division == INSTANCE EscrowPromise WITH
    held <- [j \in Jobs |-> Held(j)],
    shares <- paid
DividedOnce == Division!Spec

\* What the client funded is what is settled: once money is in, the parties
\* and the budget of a job never change.
Terms(job) == <<job.client, job.provider, job.evaluator, job.budget>>
FundedTermsFixed ==
    [][\A j \in Escrowed \cup Parked : Terms(jobs'[j]) = Terms(jobs[j])]_vars

\* "A safety net": money in the core comes out, even if neither the provider
\* nor the evaluator ever acts again.
RefundReachable == \A j \in Jobs : j \in Escrowed ~> j \notin Escrowed

\* "Execution needs no live keeper": a completed job with an attestation of a
\* spend within its budget is split.
Attested(j) == \E a \in signed : a.job = j /\ a.spent <= jobs[j].budget
AttestedIsSplit == \A j \in Jobs : Attested(j) ~> splitDone[j]

=============================================================================
