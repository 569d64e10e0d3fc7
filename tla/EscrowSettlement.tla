--------------------------- MODULE EscrowSettlement ---------------------------
(***************************************************************************)
(* How the service ties a run to an escrow job and settles it               *)
(* (dr-nib/backend/src: routes/runs.js, escrow/settle.js, escrow/jobs.js,   *)
(* money.js), over the contracts of EscrowJob.                              *)
(*                                                                          *)
(* Owner requests register a job and approve the run; processes settle      *)
(* finished runs, each reading the run and the chain, sending transactions  *)
(* and writing back the metadata it read first.  A transaction may revert,  *)
(* its answer may be lost, and processes crash between any two steps.       *)
(*                                                                          *)
(* Of the run itself only what settlement reads is kept: "finished" stands  *)
(* for a terminal status with no stage in flight (RunLifecycle shows how    *)
(* that is reached), and the ledger for its sums.                           *)
(***************************************************************************)
EXTENDS EscrowJob

CONSTANTS
    Runs,
    Owner,                 \* the wallet of the runs
    Requests,              \* owner requests in flight at once
    Procs,                 \* processes that settle: API and worker
    ConfiguredCap,         \* the cap asked for when the run was configured
    Estimate,              \* plan.estimate
    Costs,                 \* what a stage may cost
    MaxFailures            \* bound on crashes, lost answers, failed sends

ASSUME ServiceAssumption ==
    /\ Owner \in Users /\ Keeper \notin Users /\ Runs # {}
    /\ ConfiguredCap \in Nat /\ Estimate \in Nat /\ Costs \subseteq Nat
    /\ MaxFailures \in Nat

VARIABLES
    run,                   \* run row and ledger sums
    escrow,                \* run.metadata.escrow
    request,               \* requests: where, and what they read
    proc,                  \* settlements: where, and what they read
    failures               \* failures so far

chainVars == <<jobCount, jobs, overdue, balance, splitDone, signed, paid>>
serviceVars == <<run, escrow, request, proc, failures>>
allVars == <<chainVars, serviceVars>>

-----------------------------------------------------------------------------
(* Types *)

NoEscrow == [job |-> 0, status |-> "none", splitTx |-> FALSE, confirmed |-> FALSE]
Metadata == [job : Jobs \cup {0}, status : {"none", "Open", "Funded", "Completed"},
             splitTx : BOOLEAN, confirmed : BOOLEAN]

NoRequest == [at |-> "none", run |-> CHOOSE r \in Runs : TRUE, job |-> 0,
              read |-> NoEscrow, budget |-> 0, have |-> 0]
NoProc == [at |-> "idle", run |-> CHOOSE r \in Runs : TRUE, read |-> NoEscrow,
           spent |-> 0, splitTx |-> FALSE, confirmed |-> FALSE]

BalanceOf(r) == run[r].deposit - run[r].spend - run[r].refund

\* Every variable holds a value the service can store, and no ledger owes.
ServiceTypeOK ==
    /\ run \in [Runs -> [phase : {"planned", "running", "finished"}, cap : Nat,
                         deposit : Nat, spend : Nat, refund : Nat,
                         settled : BOOLEAN]]
    /\ \A r \in Runs : BalanceOf(r) \in Nat
    /\ escrow \in [Runs -> Metadata]
    /\ request \in [Requests ->
          [at : {"none", "register", "cap", "deposits", "deposit", "run"},
           run : Runs, job : Jobs \cup {0}, read : Metadata, budget : Nat, have : Nat]]
    /\ proc \in [Procs ->
          [at : {"idle", "ledger", "bind", "status", "submit", "complete", "sign",
                 "relay", "split", "write", "error"},
           run : Runs, read : Metadata, spent : Nat,
           splitTx : BOOLEAN, confirmed : BOOLEAN]]
    /\ failures \in 0..MaxFailures

-----------------------------------------------------------------------------
(* Helpers *)

\* assertEscrowJobBinding(): exactly the job this deployment prepared.
Bound(j) ==
    /\ jobs[j].client = Owner
    /\ jobs[j].provider = Splitter
    /\ jobs[j].evaluator = Keeper

NeverShared(r, j) == FALSE                 \* mutant: no duplicate check
Shared(r, j) == \E q \in Runs \ {r} : escrow[q].job = j

RequestDone(o) == request' = [request EXCEPT ![o] = NoRequest]
Step(p, place) == proc' = [proc EXCEPT ![p].at = place]
ProcDone(p) == proc' = [proc EXCEPT ![p] = NoProc]
JobOf(p) == proc[p].read.job

-----------------------------------------------------------------------------
(* Owner requests *)

\* POST /:id/escrow/register, up to the chain's answer.
ReadRegister(o, r, j) ==
    /\ request[o].at = "none"
    /\ run[r].phase = "planned" /\ escrow[r].job = 0
    /\ jobs[j].status = "Open" /\ Bound(j)
    /\ request' = [request EXCEPT ![o] = [NoRequest EXCEPT !.at = "register",
                                                          !.run = r, !.job = j]]
    /\ UNCHANGED <<chainVars, run, escrow, proc, failures>>

\* Its transaction, under the job's advisory lock.
WriteRegister(o) ==
    LET r == request[o].run
        j == request[o].job
    IN /\ request[o].at = "register"
       /\ IF run[r].phase # "planned" \/ escrow[r].job # 0 \/ Shared(r, j)
            THEN UNCHANGED escrow
            ELSE escrow' = [escrow EXCEPT ![r] =
                              [NoEscrow EXCEPT !.job = j, !.status = "Open"]]
       /\ RequestDone(o)
       /\ UNCHANGED <<chainVars, run, proc, failures>>

\* Mutant: the job is not looked up on chain.
ReadApproveUnseen(o, r) ==
    LET j == escrow[r].job
    IN /\ request[o].at = "none"
       /\ run[r].phase = "planned" /\ ~run[r].settled
       /\ j # 0
       /\ request' = [request EXCEPT ![o] =
             [NoRequest EXCEPT !.at = "cap", !.run = r, !.read = escrow[r],
                               !.budget = run[r].cap]]
       /\ UNCHANGED <<chainVars, run, escrow, proc, failures>>

\* POST /:id/approve, up to its checks of the run and of the chain.
ReadApprove(o, r) ==
    LET j == escrow[r].job
    IN /\ request[o].at = "none"
       /\ run[r].phase = "planned" /\ ~run[r].settled
       /\ escrow[r].status # "Completed"
       /\ run[r].cap - run[r].spend >= Estimate
       /\ j # 0 /\ ~Shared(r, j) /\ Bound(j)
       /\ jobs[j].status = "Funded" /\ jobs[j].budget >= Estimate
       /\ request' = [request EXCEPT ![o] =
             [NoRequest EXCEPT !.at = "cap", !.run = r, !.read = escrow[r],
                               !.budget = jobs[j].budget]]
       /\ UNCHANGED <<chainVars, run, escrow, proc, failures>>

\* The cap is aligned to the deposit; the metadata is the one read.
WriteCap(o) ==
    LET r == request[o].run
    IN /\ request[o].at = "cap"
       /\ run' = [run EXCEPT ![r].cap = request[o].budget]
       /\ escrow' = [escrow EXCEPT ![r] = [request[o].read EXCEPT !.status = "Funded"]]
       /\ request' = [request EXCEPT ![o].at = "deposits"]
       /\ UNCHANGED <<chainVars, proc, failures>>

ReadDeposits(o) ==
    /\ request[o].at = "deposits"
    /\ request' = [request EXCEPT ![o].at = "deposit",
                                  ![o].have = run[request[o].run].deposit]
    /\ UNCHANGED <<chainVars, run, escrow, proc, failures>>

\* The ledger is topped up to what the job holds.
WriteDeposit(o) ==
    /\ request[o].at = "deposit"
    /\ run' = IF request[o].budget > request[o].have
                THEN [run EXCEPT ![request[o].run].deposit =
                         @ + (request[o].budget - request[o].have)]
                ELSE run
    /\ request' = [request EXCEPT ![o].at = "run"]
    /\ UNCHANGED <<chainVars, escrow, proc, failures>>

SetRunning(o) ==
    /\ request[o].at = "run"
    /\ run' = [run EXCEPT ![request[o].run].phase = "running"]
    /\ RequestDone(o)
    /\ UNCHANGED <<chainVars, escrow, proc, failures>>

-----------------------------------------------------------------------------
(* The run *)

\* Mutant: also charges a settled run that was given more deposit.
ChargeSettled(r, cost) ==
    /\ run[r].phase = "running"
    /\ cost <= BalanceOf(r) /\ run[r].spend + cost <= run[r].cap
    /\ run' = [run EXCEPT ![r].spend = @ + cost]
    /\ UNCHANGED <<chainVars, escrow, request, proc, failures>>

\* draw(): within the cap and the balance, and never once settled.
Charge(r, cost) ==
    /\ run[r].phase = "running" /\ ~run[r].settled
    /\ cost <= BalanceOf(r) /\ run[r].spend + cost <= run[r].cap
    /\ run' = [run EXCEPT ![r].spend = @ + cost]
    /\ UNCHANGED <<chainVars, escrow, request, proc, failures>>

\* The run completes or fails.
Finish(r) ==
    /\ run[r].phase = "running"
    /\ run' = [run EXCEPT ![r].phase = "finished"]
    /\ UNCHANGED <<chainVars, escrow, request, proc, failures>>

\* POST /:id/end, also before approval.
EndRun(o, r) ==
    /\ request[o].at = "none"
    /\ run[r].phase # "finished"
    /\ run' = [run EXCEPT ![r].phase = "finished"]
    /\ UNCHANGED <<chainVars, escrow, request, proc, failures>>

-----------------------------------------------------------------------------
(* Settlement: settleRun() and what it calls in jobs.js *)

\* The end of a run, the owner's retry and the sweep all come here; a process
\* settles a run at most once at a time.
Begin(p, r) ==
    /\ proc[p].at = "idle"
    /\ run[r].phase = "finished"
    /\ proc' = [proc EXCEPT ![p] = [NoProc EXCEPT !.at = "ledger", !.run = r,
                                                  !.read = escrow[r]]]
    /\ UNCHANGED <<chainVars, run, escrow, request, failures>>

\* settle(), then nothing more for a run without a job or already confirmed.
SettleLedger(p) ==
    LET r == proc[p].run
    IN /\ proc[p].at = "ledger"
       /\ run' = IF run[r].settled THEN run
                 ELSE [run EXCEPT ![r].settled = TRUE,
                                  ![r].refund = @ + (IF BalanceOf(r) > 0
                                                       THEN BalanceOf(r) ELSE 0)]
       /\ IF JobOf(p) = 0 \/ proc[p].read.splitTx \/ proc[p].read.confirmed
            THEN ProcDone(p)
            ELSE Step(p, "bind")
       /\ UNCHANGED <<chainVars, escrow, request, failures>>

\* The spend to attest is the ledger's; the job must still be this run's.
CheckBinding(p) ==
    /\ proc[p].at = "bind"
    /\ proc' = [proc EXCEPT ![p].spent = run[proc[p].run].spend,
                            ![p].at = IF Bound(JobOf(p)) THEN "status" ELSE "error"]
    /\ UNCHANGED <<chainVars, run, escrow, request, failures>>

\* submitAndComplete(): go on from wherever an earlier attempt got to.
ReadStatus(p) ==
    /\ proc[p].at = "status"
    /\ Step(p, CASE jobs[JobOf(p)].status = "Completed" -> "sign"
                 [] jobs[JobOf(p)].status = "Funded" -> "submit"
                 [] jobs[JobOf(p)].status = "Submitted" -> "complete"
                 [] OTHER -> "error")
    /\ UNCHANGED <<chainVars, run, escrow, request, failures>>

\* A transaction of the keeper: it is mined and seen to be, or it reverts, or
\* it fails to be sent or its answer is lost.
Transact(p, tx, mayPass, passed, failed) ==
    /\ \/ tx /\ Step(p, passed) /\ UNCHANGED failures
       \/ ~mayPass /\ UNCHANGED chainVars /\ Step(p, failed) /\ UNCHANGED failures
       \/ /\ failures < MaxFailures
          /\ failures' = failures + 1
          /\ tx \/ UNCHANGED chainVars
          /\ Step(p, failed)
    /\ UNCHANGED <<run, escrow, request>>

SendSubmit(p) ==
    LET j == JobOf(p)
    IN /\ proc[p].at = "submit"
       /\ Transact(p, SubmitJob(Keeper, j),
                   jobs[j].status = "Funded" /\ j \notin overdue, "complete", "error")

SendComplete(p) ==
    LET j == JobOf(p)
    IN /\ proc[p].at = "complete"
       /\ Transact(p, Complete(Keeper, j), jobs[j].status = "Submitted",
                   "sign", "error")

Sign(p) ==
    /\ proc[p].at = "sign"
    /\ SignSplit(JobOf(p), proc[p].spent)
    /\ Step(p, "relay")
    /\ UNCHANGED <<run, escrow, request, failures>>

\* Mutant: the split is sent whether or not it was done.
ReadSplitDoneNever(p) ==
    /\ proc[p].at = "relay"
    /\ Step(p, "split")
    /\ UNCHANGED <<chainVars, run, escrow, request, failures>>

\* relaySplit(): nothing to send when the splitter has divided the job.
ReadSplitDone(p) ==
    /\ proc[p].at = "relay"
    /\ proc' = IF splitDone[JobOf(p)]
                 THEN [proc EXCEPT ![p].at = "write", ![p].confirmed = TRUE]
                 ELSE [proc EXCEPT ![p].at = "split"]
    /\ UNCHANGED <<chainVars, run, escrow, request, failures>>

Attestation(p) == [job |-> JobOf(p), spent |-> proc[p].spent]

\* The keeper presents its own attestation; a failure is only noted.
SendSplit(p) ==
    /\ proc[p].at = "split"
    /\ \/ /\ Split(Keeper, Attestation(p))
          /\ proc' = [proc EXCEPT ![p].at = "write", ![p].splitTx = TRUE,
                                  ![p].confirmed = TRUE]
          /\ UNCHANGED failures
       \/ /\ JobOf(p) \notin Parked \/ proc[p].spent > jobs[JobOf(p)].budget
          /\ Step(p, "write")
          /\ UNCHANGED <<chainVars, failures>>
       \/ /\ failures < MaxFailures
          /\ failures' = failures + 1
          /\ Split(Keeper, Attestation(p)) \/ UNCHANGED chainVars
          /\ Step(p, "write")
    /\ UNCHANGED <<run, escrow, request>>

\* Mutant: a split that failed is recorded as confirmed.
WriteConfirmed(p) ==
    /\ proc[p].at = "write"
    /\ escrow' = [escrow EXCEPT ![proc[p].run] =
                    [proc[p].read EXCEPT !.status = "Completed", !.confirmed = TRUE,
                                         !.splitTx = @ \/ proc[p].splitTx]]
    /\ ProcDone(p)
    /\ UNCHANGED <<chainVars, run, request, failures>>

\* The metadata read at the start is written back with the outcome.
WriteOutcome(p) ==
    /\ proc[p].at = "write"
    /\ escrow' = [escrow EXCEPT ![proc[p].run] =
                    [proc[p].read EXCEPT !.status = "Completed",
                                         !.confirmed = proc[p].confirmed,
                                         !.splitTx = @ \/ proc[p].splitTx]]
    /\ ProcDone(p)
    /\ UNCHANGED <<chainVars, run, request, failures>>

\* The failure is recorded on the run; a later sweep retries.
Abandon(p) ==
    /\ proc[p].at = "error"
    /\ ProcDone(p)
    /\ UNCHANGED <<chainVars, run, escrow, request, failures>>

-----------------------------------------------------------------------------
(* Crashes *)

CrashProc(p) ==
    /\ proc[p].at # "idle" /\ failures < MaxFailures
    /\ failures' = failures + 1
    /\ ProcDone(p)
    /\ UNCHANGED <<chainVars, run, escrow, request>>

CrashRequest(o) ==
    /\ request[o].at # "none" /\ failures < MaxFailures
    /\ failures' = failures + 1
    /\ RequestDone(o)
    /\ UNCHANGED <<chainVars, run, escrow, proc>>

-----------------------------------------------------------------------------
(* The specification *)

ServiceInit ==
    /\ Init
    /\ run = [r \in Runs |-> [phase |-> "planned", cap |-> ConfiguredCap,
                              deposit |-> 0, spend |-> 0, refund |-> 0,
                              settled |-> FALSE]]
    /\ escrow = [r \in Runs |-> NoEscrow]
    /\ request = [o \in Requests |-> NoRequest]
    /\ proc = [p \in Procs |-> NoProc]
    /\ failures = 0

\* Wallets and the clock act on the contracts at any time.
ChainStep ==
    \/ \E u \in Users :
         \/ \E p \in Providers, e \in Evaluators : CreateJob(u, p, e)
         \/ \E j \in Jobs : Negotiate(u, j) \/ Deliver(u, j)
         \/ \E a \in signed : Split(u, a)
    \/ \E j \in Jobs : ClaimRefund(j) \/ Expire(j)

Answer(o) ==
    \/ WriteRegister(o)
    \/ WriteCap(o) \/ ReadDeposits(o) \/ WriteDeposit(o) \/ SetRunning(o)

SettleStep(p) ==
    \/ SettleLedger(p) \/ CheckBinding(p) \/ ReadStatus(p)
    \/ SendSubmit(p) \/ SendComplete(p) \/ Sign(p) \/ ReadSplitDone(p)
    \/ SendSplit(p) \/ WriteOutcome(p) \/ Abandon(p)

ServiceNext ==
    \/ ChainStep /\ UNCHANGED serviceVars
    \/ \E o \in Requests :
         \/ \E r \in Runs : ReadApprove(o, r) \/ EndRun(o, r)
         \/ \E r \in Runs, j \in Jobs : ReadRegister(o, r, j)
         \/ Answer(o) \/ CrashRequest(o)
    \/ \E r \in Runs : Finish(r) \/ \E cost \in Costs : Charge(r, cost)
    \/ \E p \in Procs :
         \/ \E r \in Runs : Begin(p, r)
         \/ SettleStep(p) \/ CrashProc(p)

ServiceSpec == ServiceInit /\ [][ServiceNext]_allVars

\* retryPendingSettlements(): the runs the sweep looks for.
Pending(r) ==
    /\ run[r].phase = "finished"
    /\ escrow[r].job # 0 /\ escrow[r].status \in {"Funded", "Submitted", "Completed"}
    /\ ~escrow[r].splitTx /\ ~escrow[r].confirmed

\* Processes keep running and the sweep keeps sweeping; an overdue job's client
\* asks for its refund.  No other wallet need act, and no deadline need pass.
ServiceFairness ==
    /\ \A p \in Procs : WF_allVars(SettleStep(p))
    /\ \A r \in Runs : WF_allVars(Pending(r) /\ \E p \in Procs : Begin(p, r))
    /\ \A j \in Jobs : WF_allVars(ClaimRefund(j) /\ UNCHANGED serviceVars)

FairServiceSpec == ServiceSpec /\ ServiceFairness

-----------------------------------------------------------------------------
(* Properties *)

\* No attestation asks for more than its job holds: split() reverts on one that
\* does, and would leave the money in the splitter.
AttestationFits == \A a \in signed : a.spent <= jobs[a.job].budget

\* The keeper never signs two different spends for a job, however often it
\* retries: anyone may present either.
OneAttestation == \A a, b \in signed : a.job = b.job => a = b

\* What a split pays operator and treasury is what the ledger charged the run,
\* whoever presented the attestation and however late; the client gets the rest.
SplitPaysSpend ==
    \A r \in Runs : LET j == escrow[r].job IN
        j # 0 /\ splitDone[j] => /\ paid[j].provider + paid[j].treasury = run[r].spend
                                /\ paid[j].client = jobs[j].budget - run[r].spend

\* A job is one deposit for one run.
OneRunPerJob ==
    \A r, q \in Runs : escrow[r].job = escrow[q].job => r = q \/ escrow[r].job = 0

\* An approval that read the run before it ended sets it running again, whatever was
\* settled meanwhile: the sweep does not see it until it ends a second time.
Reopened(r) == run[r].phase = "running"

\* A finished run that was approved does not leave its money in the contracts, unless
\* a stale approval reopens it.
EscrowReleased ==
    \A r \in Runs : Pending(r) ~> escrow[r].job \notin Escrowed \cup Parked \/ Reopened(r)

\* A split, whoever presented it, is eventually known to the service, unless a stale
\* approval reopens the run.
SplitRecorded ==
    \A r \in Runs :
        Pending(r) /\ splitDone[escrow[r].job] ~> escrow[r].confirmed \/ Reopened(r)

-----------------------------------------------------------------------------
(* What the comments promise and the code does not keep (see README.md) *)

\* "End - stop, return the money, and on escrowed runs complete the onchain job": a
\* stale approval undoes the end, with no failure.
EndReturnsMoney ==
    \A r \in Runs : Pending(r) ~> escrow[r].job \notin Escrowed \cup Parked

\* "So the offchain balance always trails real money": what a running run may
\* still spend is in its job.
BalanceTrailsMoney ==
    \A r \in Runs : LET j == escrow[r].job IN
        run[r].phase = "running" =>
            BalanceOf(r) <= IF j \in Escrowed THEN jobs[j].budget ELSE 0

\* "The ledger trails the chain.  Idempotent top-up": no more is booked than
\* the client deposited.
DepositTrailsChain ==
    \A r \in Runs : run[r].deposit > 0 => run[r].deposit <= jobs[escrow[r].job].budget

\* "Funds remain in escrow and will retry automatically", the answer to a
\* settlement that failed.
RetriedAutomatically ==
    \A p \in Procs, r \in Runs :
        /\ proc[p].at = "error" /\ proc[p].run = r
        /\ escrow[r].job \in Escrowed
        ~> escrow[r].job \notin Escrowed

\* Relaying the split "records splitTx in run metadata": it is not lost again.
SplitTxKept == [][\A r \in Runs : escrow[r].splitTx => escrow'[r].splitTx]_allVars

=============================================================================
