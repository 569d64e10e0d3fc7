----------------------- MODULE EscrowSettlement_proofs -----------------------
(***************************************************************************)
(* Theorems about EscrowSettlement, for any runs, jobs, processes, requests *)
(* in flight, costs, caps and number of failures.                           *)
(*                                                                          *)
(* A run keeps the job it was registered with, and no other run has it.  A  *)
(* run that charged anything was approved: its cap is the budget of its     *)
(* job, which is fixed from then on (RunInv).  A settled run charges no     *)
(* more, so every process that got past the ledger attests the same spend   *)
(* (ProcInv, SignedInv), and a split pays it (SplitMoney).                  *)
(***************************************************************************)
EXTENDS EscrowSettlement, EscrowJob_proofs

RunRow == [phase : {"planned", "running", "finished"}, cap : Nat, deposit : Nat,
           spend : Nat, refund : Nat, settled : BOOLEAN]
RequestRow == [at : {"none", "register", "cap", "deposits", "deposit", "run"},
               run : Runs, job : Jobs \cup {0}, read : Metadata, budget : Nat, have : Nat]
ProcRow == [at : {"idle", "ledger", "bind", "status", "submit", "complete", "sign",
                  "relay", "split", "write", "error"},
            run : Runs, read : Metadata, spent : Nat, splitTx : BOOLEAN, confirmed : BOOLEAN]

\* The terms of a job past "Open" are final; an approved run is capped by them.
FixedAt(j, amount) == jobs[j].status # "Open" /\ jobs[j].budget = amount
Approved(r) == escrow[r].job # 0 /\ FixedAt(escrow[r].job, run[r].cap)

\* A run that is running, or charged something, was approved.
RunInv(r) ==
    run[r].phase = "running" \/ run[r].spend # 0 => Approved(r) /\ run[r].spend <= run[r].cap

\* What an approval in flight has established.
ReqInv(o) ==
    LET r == request[o].run IN
    /\ request[o].at = "cap" =>
         /\ escrow[r].job # 0 /\ request[o].read.job = escrow[r].job
         /\ FixedAt(escrow[r].job, request[o].budget)
    /\ request[o].at \in {"deposits", "deposit", "run"} => Approved(r)

\* What a settlement in flight holds of its run.
Settling(p) == proc[p].at \notin {"idle", "ledger"}
Priced(p) == proc[p].at \in {"status", "submit", "complete", "sign", "relay", "split", "write"}
ProcInv(p) ==
    LET r == proc[p].run IN
    /\ proc[p].at # "idle" /\ JobOf(p) # 0 => JobOf(p) = escrow[r].job
    /\ Settling(p) => JobOf(p) # 0 /\ run[r].settled
    /\ Priced(p) => proc[p].spent = run[r].spend

\* An attestation is of the final spend of the run that has the job.
Attests(r, a) == escrow[r].job = a.job /\ run[r].settled /\ run[r].spend = a.spent
SignedInv == \A a \in signed : \E r \in Runs : Attests(r, a)

\* A split paid what one attestation says.
Presented(j) ==
    \E a \in signed : a.job = j /\ paid[j].provider + paid[j].treasury = a.spent
SplitMoney == \A j \in Jobs : splitDone[j] => Presented(j)

ServiceInv ==
    /\ IInv /\ SplitMoney
    /\ ServiceTypeOK /\ OneRunPerJob /\ SignedInv
    /\ \A r \in Runs : RunInv(r)
    /\ \A o \in Requests : ReqInv(o)
    /\ \A p \in Procs : ProcInv(p)

-----------------------------------------------------------------------------
(* What the chain may do *)

\* A call anybody may make.
Call ==
    \/ \E sender \in Wallets :
         \/ \E p \in Providers, e \in Evaluators : CreateJob(sender, p, e)
         \/ \E j \in Jobs : Negotiate(sender, j) \/ Deliver(sender, j)
         \/ \E a \in signed : Split(sender, a)
    \/ \E j \in Jobs : ClaimRefund(j) \/ Expire(j)

\* Jobs past "Open" keep their budget, and splits pay what was attested.
ChainOK ==
    /\ IInv' /\ SplitMoney'
    /\ \A j \in Jobs : jobs[j].status # "Open" =>
         jobs'[j].status # "Open" /\ jobs'[j].budget = jobs[j].budget

LEMMA CallIsNext == Call => Next
BY DEF Call, Next

LEMMA CallSignsNothing == Call => UNCHANGED signed
BY DEF Call, CreateJob, Negotiate, SetProvider, SetBudget, Fund, Deliver, SubmitJob, Submit,
       Complete, Reject, Split, ClaimRefund, Expire

\* Terms stay, and a job that was split is not paid again.
LEMMA NextKeepsJob ==
    ASSUME IInv, [Next]_vars, NEW j \in Jobs, jobs[j].status # "Open"
    PROVE  /\ jobs'[j].status # "Open" /\ jobs'[j].budget = jobs[j].budget
           /\ splitDone[j] => paid'[j] = paid[j]
<1>1. CASE UNCHANGED <<jobs, paid, splitDone>>
  BY <1>1
<1>2. ASSUME NEW k \in Jobs, Moved(k), k # j
      PROVE  jobs'[j] = jobs[j] /\ paid'[j] = paid[j]
  BY <1>2 DEF Moved, OnlyJob
<1>3. CASE Advanced(j) \/ PaidOut(j)
  <2>1. Holds(j) /\ ~splitDone[j]
    BY <1>3 DEF Advanced, PaidOut, IInv, MoneyInv, JobMoney, Holds, Escrowed, Parked
  <2>2. jobs'[j].budget = jobs[j].budget
    BY <1>3 DEF Advanced, PaidOut, SameTerms, Terms
  <2>3. jobs'[j].status # "Open"
    BY <1>3 DEF Advanced, PaidOut, Holds, Escrowed, Parked
  <2>. QED BY <2>1, <2>2, <2>3
<1>4. Moved(j) => Advanced(j) \/ PaidOut(j)
  BY DEF Moved, Reworded, Funded, Dropped
<1>. QED BY <1>1, <1>2, <1>3, <1>4, NextMovesOneJob

\* What a split pays operator and treasury is the attested spend.
LEMMA SplitPaysAttested ==
    ASSUME IInv, NEW sender, NEW a \in signed, Split(sender, a)
    PROVE  /\ a.job \in Jobs /\ paid'[a.job].provider + paid'[a.job].treasury = a.spent
           /\ \A j \in Jobs \ {a.job} : splitDone'[j] = splitDone[j]
<1>. DEFINE fee == Fee(a.spent)
            j == a.job
<1>1. /\ j \in Jobs /\ a.spent \in Nat /\ paid \in [Jobs -> Shares]
      /\ splitDone \in [Jobs -> BOOLEAN]
  BY DEF IInv, TypeOK, Attestations
<1>2. paid[j] = NoShares
  BY <1>1 DEF Split, IInv, MoneyInv, JobMoney, Holds
<1>3. fee \in Nat
  BY <1>1, FeeFits
<1>4. /\ paid'[j].provider = paid[j].provider + (a.spent - fee)
      /\ paid'[j].treasury = paid[j].treasury + fee
  BY <1>1 DEF Split, Divide
<1>5. \A k \in Jobs \ {j} : splitDone'[k] = splitDone[k]
  BY <1>1 DEF Split
<1>. HIDE DEF fee
<1>. QED BY <1>1, <1>2, <1>3, <1>4, <1>5 DEF NoShares

\* Calls and idle steps are all right.
LEMMA CallsAreOK ==
    ASSUME IInv, SplitMoney, Call \/ UNCHANGED vars
    PROVE  ChainOK /\ UNCHANGED signed
<1>1. [Next]_vars /\ UNCHANGED signed
  BY CallIsNext, CallSignsNothing DEF vars
<1>2. IInv'
  BY <1>1, StepInductive
<1>3. ASSUME NEW j \in Jobs, splitDone'[j] PROVE Presented(j)'
  <2>1. CASE splitDone[j]
    <3>1. paid'[j] = paid[j]
      BY <1>1, <2>1, NextKeepsJob DEF IInv, MoneyInv, JobMoney
    <3>. QED BY <1>1, <2>1, <3>1 DEF SplitMoney, Presented
  <2>2. CASE ~splitDone[j]
    <3>1. splitDone' # splitDone
      BY <1>3, <2>2
    <3>2. PICK sender \in Wallets, a \in signed : Split(sender, a)
      BY <3>1 DEF Call, CreateJob, Negotiate, SetProvider, SetBudget, Fund, Deliver, SubmitJob,
           Submit, Complete, Reject, ClaimRefund, Expire, vars
    <3>3. a.job = j /\ a \in signed'
      BY <1>1, <1>3, <2>2, <3>2, SplitPaysAttested
    <3>. QED BY <3>2, <3>3, SplitPaysAttested DEF Presented
  <2>. QED BY <2>1, <2>2
<1>. QED BY <1>1, <1>2, <1>3, NextKeepsJob DEF ChainOK, SplitMoney

\* So is a signature.
LEMMA SigningIsOK ==
    ASSUME IInv, SplitMoney, NEW j \in Jobs, NEW spent \in Nat, SignSplit(j, spent)
    PROVE  ChainOK
<1>1. /\ UNCHANGED <<jobCount, jobs, overdue, balance, splitDone, paid>>
      /\ signed' = signed \cup {[job |-> j, spent |-> spent]}
  BY DEF SignSplit
<1>2. IInv'
  BY <1>1 DEF IInv, TypeOK, Numbered, MoneyInv, JobMoney, Holds, Escrowed, Parked, Attestations
<1>3. SplitMoney'
  BY <1>1 DEF SplitMoney, Presented
<1>. QED BY <1>1, <1>2, <1>3 DEF ChainOK

-----------------------------------------------------------------------------
(* What the service may do *)

RunTypes == run \in [Runs -> RunRow] /\ \A r \in Runs : BalanceOf(r) \in Nat
EscrowTyped == escrow \in [Runs -> Metadata]
RequestTypes == request \in [Requests -> RequestRow]
ProcTypes == proc \in [Procs -> ProcRow]

LEMMA TypesSplit ==
    ServiceTypeOK <=> /\ RunTypes /\ EscrowTyped /\ RequestTypes /\ ProcTypes
                      /\ failures \in 0..MaxFailures
BY DEF ServiceTypeOK, RunTypes, EscrowTyped, RequestTypes, ProcTypes, RunRow, RequestRow, ProcRow

LEMMA TypesJoin ==
    ASSUME RunTypes', EscrowTyped', RequestTypes', ProcTypes', failures' \in 0..MaxFailures
    PROVE  ServiceTypeOK'
BY DEF ServiceTypeOK, RunTypes, EscrowTyped, RequestTypes, ProcTypes, RunRow, RequestRow, ProcRow

LEMMA EmptyRows == NoEscrow \in Metadata /\ NoRequest \in RequestRow /\ NoProc \in ProcRow
<1>1. NoEscrow \in Metadata
  BY DEF NoEscrow, Metadata
<1>2. (CHOOSE r \in Runs : TRUE) \in Runs
  BY ServiceAssumption
<1>. QED BY <1>1, <1>2 DEF NoRequest, RequestRow, NoProc, ProcRow

\* A run keeps its job, its cap once approved, and its spend once settled.
Keeps ==
    \A r \in Runs :
      /\ escrow[r].job # 0 => escrow'[r].job = escrow[r].job
      /\ Approved(r) => run'[r].cap = run[r].cap
      /\ run[r].settled => run'[r].settled /\ run'[r].spend = run[r].spend

SameRun(r) ==
    /\ run'[r].phase = "running" => run[r].phase = "running"
    /\ run'[r].spend = run[r].spend

LEMMA JobsAreIds ==
    ASSUME ServiceInv, NEW r \in Runs PROVE escrow[r].job \in Jobs \cup {0}
BY TypesSplit DEF ServiceInv, EscrowTyped, Metadata

LEMMA ApprovedStays ==
    ASSUME ServiceInv, ChainOK, Keeps, NEW r \in Runs, Approved(r) PROVE Approved(r)'
BY JobsAreIds DEF ChainOK, Keeps, Approved, FixedAt

\* A step that keeps what the others rely on has to see to its own rows only.
LEMMA Assemble ==
    ASSUME ServiceInv, ChainOK, Keeps, ServiceTypeOK',
           OneRunPerJob' \/ \A r \in Runs : escrow'[r].job = escrow[r].job,
           SignedInv' \/ UNCHANGED signed,
           \A r \in Runs : RunInv(r)' \/ SameRun(r),
           \A o \in Requests : ReqInv(o)' \/ request'[o] = request[o],
           \A p \in Procs : ProcInv(p)' \/ proc'[p] = proc[p]
    PROVE  ServiceInv'
<1>1. OneRunPerJob'
  BY DEF ServiceInv, OneRunPerJob
<1>2. SignedInv'
  <2>1. CASE UNCHANGED signed
    <3>1. ASSUME NEW a \in signed, NEW r \in Runs, Attests(r, a) PROVE Attests(r, a)'
      <4>1. a.job \in Jobs /\ a.job # 0
        BY JobsAssumption DEF ServiceInv, IInv, TypeOK, Attestations
      <4>. QED BY <3>1, <4>1 DEF Keeps, Attests
    <3>. QED BY <2>1, <3>1 DEF ServiceInv, SignedInv
  <2>. QED BY <2>1
<1>3. ASSUME NEW r \in Runs PROVE RunInv(r)'
  <2>1. CASE SameRun(r)
    BY <2>1, ApprovedStays DEF ServiceInv, RunInv, SameRun, Keeps
  <2>. QED BY <2>1
<1>4. ASSUME NEW o \in Requests PROVE ReqInv(o)'
  <2>1. CASE request'[o] = request[o]
    <3>. DEFINE r == request[o].run
    <3>1. r \in Runs
      BY TypesSplit DEF ServiceInv, RequestTypes, RequestRow
    <3>2. request[o].at = "cap" =>
            /\ escrow[r].job # 0 /\ request[o].read.job = escrow[r].job
            /\ FixedAt(escrow[r].job, request[o].budget)
      BY DEF ServiceInv, ReqInv
    <3>3. request[o].at = "cap" =>
            /\ escrow'[r].job # 0 /\ request[o].read.job = escrow'[r].job
            /\ FixedAt(escrow[r].job, request[o].budget)'
      BY <2>1, <3>1, <3>2, JobsAreIds DEF Keeps, ChainOK, FixedAt
    <3>4. request[o].at \in {"deposits", "deposit", "run"} => Approved(r)'
      BY <2>1, <3>1, ApprovedStays DEF ServiceInv, ReqInv
    <3>. QED BY <2>1, <3>1, <3>2, <3>3, <3>4 DEF ReqInv, FixedAt, Keeps, Approved
  <2>. QED BY <2>1
<1>5. ASSUME NEW p \in Procs PROVE ProcInv(p)'
  <2>1. CASE proc'[p] = proc[p]
    <3>1. proc[p].run \in Runs
      BY TypesSplit DEF ServiceInv, ProcTypes, ProcRow
    <3>2. ProcInv(p)
      BY DEF ServiceInv
    <3>. QED BY <2>1, <3>1, <3>2 DEF ProcInv, Settling, Priced, JobOf, Keeps
  <2>. QED BY <2>1
<1>. QED BY <1>1, <1>2, <1>3, <1>4, <1>5 DEF ServiceInv, ChainOK

\* A step that leaves runs and their jobs alone keeps what the others rely on.
LEMMA LeavesRuns ==
    ASSUME ServiceInv, UNCHANGED <<run, escrow>>
    PROVE  /\ Keeps /\ RunTypes' /\ EscrowTyped'
           /\ \A r \in Runs : SameRun(r) /\ escrow'[r].job = escrow[r].job
BY TypesSplit DEF ServiceInv, Keeps, SameRun, RunTypes, BalanceOf, EscrowTyped, Approved

LEMMA ChainIdle ==
    ASSUME ServiceInv, UNCHANGED chainVars PROVE ChainOK /\ UNCHANGED signed
BY CallsAreOK DEF ServiceInv, chainVars, vars

\* Wallets and the clock.
LEMMA ChainStepHolds == ASSUME ServiceInv, ChainStep, UNCHANGED serviceVars PROVE ServiceInv'
<1>1. Call
  BY AccountsAssumption DEF ChainStep, Call, Wallets
<1>2. ChainOK /\ UNCHANGED signed
  BY <1>1, CallsAreOK DEF ServiceInv
<1>3. ServiceTypeOK'
  BY TypesSplit, TypesJoin, LeavesRuns DEF ServiceInv, serviceVars, RequestTypes, ProcTypes
<1>. QED BY <1>2, <1>3, LeavesRuns, Assemble DEF serviceVars

-----------------------------------------------------------------------------
(* Owner requests *)

\* A request that only moves itself.
LEMMA RequestStep ==
    ASSUME ServiceInv, UNCHANGED <<chainVars, run, escrow, proc>>,
           NEW o \in Requests, NEW row \in RequestRow, request' = [request EXCEPT ![o] = row],
           failures' \in 0..MaxFailures, ReqInv(o)'
    PROVE  ServiceInv'
<1>1. RequestTypes' /\ \A q \in Requests \ {o} : request'[q] = request[q]
  BY TypesSplit DEF ServiceInv, RequestTypes
<1>2. ServiceTypeOK'
  BY <1>1, TypesSplit, TypesJoin, LeavesRuns DEF ServiceInv, ProcTypes
<1>. QED BY <1>1, <1>2, ChainIdle, LeavesRuns, Assemble

LEMMA ReadRegisterHolds ==
    ASSUME ServiceInv, NEW o \in Requests, NEW r \in Runs, NEW j \in Jobs, ReadRegister(o, r, j)
    PROVE  ServiceInv'
<1>. DEFINE row == [NoRequest EXCEPT !.at = "register", !.run = r, !.job = j]
<1>1. row \in RequestRow /\ row.at = "register"
  BY EmptyRows DEF RequestRow
<1>. HIDE DEF row
<1>2. request' = [request EXCEPT ![o] = row] /\ UNCHANGED <<chainVars, run, escrow, proc, failures>>
  BY DEF ReadRegister, row
<1>3. request'[o] = row
  BY <1>2, TypesSplit DEF ServiceInv, RequestTypes
<1>. QED BY <1>1, <1>2, <1>3, TypesSplit, RequestStep DEF ServiceInv, ReqInv

LEMMA ReadApproveHolds ==
    ASSUME ServiceInv, NEW o \in Requests, NEW r \in Runs, ReadApprove(o, r) PROVE ServiceInv'
<1>. DEFINE row == [NoRequest EXCEPT !.at = "cap", !.run = r, !.read = escrow[r],
                                     !.budget = jobs[escrow[r].job].budget]
<1>1. escrow[r].job \in Jobs /\ escrow[r] \in Metadata /\ jobs[escrow[r].job].budget \in Nat
  BY JobsAreIds, TypesSplit DEF ServiceInv, EscrowTyped, IInv, TypeOK, Job, ReadApprove
<1>2. /\ row \in RequestRow /\ row.at = "cap" /\ row.run = r /\ row.read = escrow[r]
      /\ row.budget = jobs[escrow[r].job].budget
  BY <1>1, EmptyRows DEF RequestRow
<1>. HIDE DEF row
<1>3. request' = [request EXCEPT ![o] = row] /\ UNCHANGED <<chainVars, run, escrow, proc, failures>>
  BY DEF ReadApprove, row
<1>4. request'[o] = row
  BY <1>3, TypesSplit DEF ServiceInv, RequestTypes
<1>5. jobs[escrow[r].job].status = "Funded" /\ escrow[r].job # 0 /\ UNCHANGED <<jobs, escrow>>
  BY <1>3 DEF ReadApprove, chainVars
<1>6. ReqInv(o)'
  BY <1>2, <1>4, <1>5 DEF ReqInv, FixedAt
<1>. QED BY <1>2, <1>3, <1>6, TypesSplit, RequestStep DEF ServiceInv

LEMMA ReadDepositsHolds ==
    ASSUME ServiceInv, NEW o \in Requests, ReadDeposits(o) PROVE ServiceInv'
<1>. DEFINE row == [request[o] EXCEPT !.at = "deposit", !.have = run[request[o].run].deposit]
<1>1. request[o] \in RequestRow /\ run[request[o].run].deposit \in Nat
  BY TypesSplit DEF ServiceInv, RequestTypes, RunTypes, RequestRow, RunRow
<1>2. row \in RequestRow /\ row.at = "deposit" /\ row.run = request[o].run
  BY <1>1 DEF RequestRow
<1>3. request' = [request EXCEPT ![o] = row]
  BY TypesSplit DEF ServiceInv, RequestTypes, RequestRow, ReadDeposits
<1>. HIDE DEF row
<1>4. UNCHANGED <<chainVars, run, escrow, proc, failures>> /\ request[o].at = "deposits"
  BY DEF ReadDeposits
<1>5. request'[o] = row /\ Approved(request[o].run)
  BY <1>3, <1>4, TypesSplit DEF ServiceInv, RequestTypes, ReqInv
<1>6. ReqInv(o)'
  BY <1>2, <1>4, <1>5 DEF ReqInv, Approved, FixedAt, chainVars
<1>. QED BY <1>2, <1>3, <1>4, <1>6, TypesSplit, RequestStep DEF ServiceInv

LEMMA CrashRequestHolds ==
    ASSUME ServiceInv, NEW o \in Requests, CrashRequest(o) PROVE ServiceInv'
<1>1. /\ request' = [request EXCEPT ![o] = NoRequest] /\ failures' \in 0..MaxFailures
      /\ UNCHANGED <<chainVars, run, escrow, proc>>
  BY TypesSplit, ServiceAssumption DEF ServiceInv, CrashRequest, RequestDone
<1>2. request'[o] = NoRequest /\ NoRequest.at = "none"
  BY <1>1, TypesSplit DEF ServiceInv, RequestTypes, NoRequest
<1>. QED BY <1>1, <1>2, EmptyRows, RequestStep DEF ReqInv

\* A run is registered: the job is nobody else's.
LEMMA WriteRegisterHolds ==
    ASSUME ServiceInv, NEW o \in Requests, WriteRegister(o) PROVE ServiceInv'
<1>. DEFINE r == request[o].run
            j == request[o].job
            row == [NoEscrow EXCEPT !.job = j, !.status = "Open"]
<1>1. /\ r \in Runs /\ j \in Jobs \cup {0} /\ UNCHANGED <<chainVars, run, proc, failures>>
      /\ request' = [request EXCEPT ![o] = NoRequest]
  BY TypesSplit DEF ServiceInv, RequestTypes, RequestRow, WriteRegister, RequestDone
<1>2. CASE UNCHANGED escrow
  <2>1. request'[o] = NoRequest /\ NoRequest.at = "none"
    BY <1>1, TypesSplit DEF ServiceInv, RequestTypes, NoRequest
  <2>. QED BY <1>1, <1>2, <2>1, EmptyRows, TypesSplit, RequestStep DEF ServiceInv, ReqInv
<1>3. CASE escrow[r].job = 0 /\ ~Shared(r, j) /\ escrow' = [escrow EXCEPT ![r] = row]
  <2>1. row \in Metadata /\ row.job = j
    BY <1>1, EmptyRows DEF Metadata
  <2>. HIDE DEF row
  <2>2. /\ EscrowTyped' /\ escrow'[r] = row
        /\ \A q \in Runs \ {r} : escrow'[q] = escrow[q]
    BY <1>1, <1>3, <2>1, TypesSplit DEF ServiceInv, EscrowTyped
  <2>3. /\ RequestTypes' /\ request'[o].at = "none"
        /\ \A q \in Requests \ {o} : request'[q] = request[q]
    BY <1>1, TypesSplit, EmptyRows DEF ServiceInv, RequestTypes, NoRequest
  <2>4. Keeps /\ \A q \in Runs : SameRun(q)
    BY <1>1, <1>3, <2>2 DEF Keeps, SameRun
  <2>5. OneRunPerJob'
    BY <1>3, <2>1, <2>2 DEF ServiceInv, OneRunPerJob, Shared
  <2>6. ServiceTypeOK'
    <3>1. RunTypes' /\ ProcTypes' /\ failures' \in 0..MaxFailures
      BY <1>1, TypesSplit DEF ServiceInv, RunTypes, BalanceOf, ProcTypes
    <3>. QED BY <2>2, <2>3, <3>1, TypesJoin
  <2>7. ReqInv(o)'
    BY <2>3 DEF ReqInv
  <2>. QED BY <1>1, <2>3, <2>4, <2>5, <2>6, <2>7, ChainIdle, Assemble
<1>. QED BY <1>2, <1>3 DEF WriteRegister

\* The cap is aligned: from here on the run is approved.
LEMMA WriteCapHolds ==
    ASSUME ServiceInv, NEW o \in Requests, WriteCap(o) PROVE ServiceInv'
<1>. DEFINE r == request[o].run
            row == [request[o].read EXCEPT !.status = "Funded"]
            next == [request[o] EXCEPT !.at = "deposits"]
<1>1. /\ r \in Runs /\ request[o] \in RequestRow /\ request[o].read \in Metadata
      /\ request[o].budget \in Nat
  BY TypesSplit DEF ServiceInv, RequestTypes, RequestRow
<1>2. /\ escrow[r].job # 0 /\ request[o].read.job = escrow[r].job
      /\ FixedAt(escrow[r].job, request[o].budget)
  BY DEF ServiceInv, ReqInv, WriteCap
<1>3. row \in Metadata /\ row.job = escrow[r].job
  BY <1>1, <1>2 DEF Metadata
<1>4. next \in RequestRow /\ next.at = "deposits" /\ next.run = r
  BY <1>1 DEF RequestRow
<1>5. /\ run' = [run EXCEPT ![r].cap = request[o].budget]
      /\ escrow' = [escrow EXCEPT ![r] = row]
      /\ request' = [request EXCEPT ![o] = next]
      /\ UNCHANGED <<chainVars, proc, failures>>
  BY TypesSplit DEF ServiceInv, RequestTypes, WriteCap
<1>. HIDE DEF row, next
<1>6. /\ escrow' \in [Runs -> Metadata]
      /\ \A q \in Runs : escrow'[q].job = escrow[q].job
  BY <1>1, <1>3, <1>5, TypesSplit DEF ServiceInv, EscrowTyped
<1>7. /\ request' \in [Requests -> RequestRow] /\ request'[o] = next
      /\ \A q \in Requests \ {o} : request'[q] = request[q]
  BY <1>4, <1>5, TypesSplit DEF ServiceInv, RequestTypes
<1>8. /\ run' \in [Runs -> RunRow] /\ run'[r].cap = request[o].budget
      /\ \A q \in Runs : /\ run'[q].phase = run[q].phase /\ run'[q].spend = run[q].spend
                         /\ run'[q].settled = run[q].settled
                         /\ run'[q].deposit = run[q].deposit /\ run'[q].refund = run[q].refund
                         /\ q # r => run'[q].cap = run[q].cap
  BY <1>1, <1>5, TypesSplit DEF ServiceInv, RunTypes, RunRow
<1>9. ServiceTypeOK'
  <2>1. RunTypes'
    BY <1>8, TypesSplit DEF ServiceInv, RunTypes, BalanceOf
  <2>2. EscrowTyped' /\ RequestTypes' /\ ProcTypes' /\ failures' \in 0..MaxFailures
    BY <1>5, <1>6, <1>7, TypesSplit DEF ServiceInv, EscrowTyped, RequestTypes, ProcTypes
  <2>. QED BY <2>1, <2>2, TypesJoin
<1>10. Keeps /\ \A q \in Runs : SameRun(q)
  BY <1>2, <1>6, <1>8 DEF Keeps, Approved, FixedAt, SameRun
<1>11. ReqInv(o)'
  BY <1>1, <1>2, <1>4, <1>5, <1>6, <1>7, <1>8 DEF ReqInv, Approved, FixedAt, chainVars
<1>. QED BY <1>5, <1>6, <1>7, <1>9, <1>10, <1>11, ChainIdle, Assemble

-----------------------------------------------------------------------------
(* The run *)

\* A step on the row of one run, that keeps its cap, and its spend once settled.
LEMMA RunStep ==
    ASSUME ServiceInv, UNCHANGED <<chainVars, escrow, failures>>,
           NEW r \in Runs, NEW row \in RunRow, run' = [run EXCEPT ![r] = row],
           row.deposit - row.spend - row.refund \in Nat, row.cap = run[r].cap,
           run[r].settled => row.settled /\ row.spend = run[r].spend,
           SameRun(r) \/ RunInv(r)',
           RequestTypes', \A o \in Requests : ReqInv(o)' \/ request'[o] = request[o],
           ProcTypes', \A p \in Procs : ProcInv(p)' \/ proc'[p] = proc[p]
    PROVE  ServiceInv'
<1>1. run \in [Runs -> RunRow]
  BY TypesSplit DEF ServiceInv, RunTypes
<1>2. run'[r] = row /\ \A q \in Runs \ {r} : run'[q] = run[q]
  BY <1>1
<1>3. run' \in [Runs -> RunRow]
  BY <1>1
<1>4. \A q \in Runs : BalanceOf(q)' \in Nat
  BY <1>2, TypesSplit DEF ServiceInv, RunTypes, BalanceOf
<1>5. EscrowTyped' /\ failures' \in 0..MaxFailures
  BY TypesSplit DEF ServiceInv, EscrowTyped
<1>6. ServiceTypeOK'
  BY <1>3, <1>4, <1>5, TypesJoin DEF RunTypes
<1>7. Keeps
  BY <1>2 DEF Keeps
<1>8. \A q \in Runs : RunInv(q)' \/ SameRun(q)
  BY <1>2 DEF SameRun
<1>. QED BY <1>6, <1>7, <1>8, ChainIdle, Assemble

LEMMA WriteDepositHolds ==
    ASSUME ServiceInv, NEW o \in Requests, WriteDeposit(o) PROVE ServiceInv'
<1>. DEFINE r == request[o].run
            next == [request[o] EXCEPT !.at = "run"]
            deposit == IF request[o].budget > request[o].have
                         THEN run[r].deposit + (request[o].budget - request[o].have)
                         ELSE run[r].deposit
            row == [run[r] EXCEPT !.deposit = deposit]
<1>1. /\ request[o] \in RequestRow /\ request[o].budget \in Nat /\ request[o].have \in Nat
      /\ r \in Runs
  BY TypesSplit DEF ServiceInv, RequestTypes, RequestRow
<1>2. run[r] \in RunRow /\ run[r].deposit \in Nat /\ BalanceOf(r) \in Nat
  BY <1>1, TypesSplit DEF ServiceInv, RunTypes, RunRow
<1>3. deposit \in Nat /\ deposit >= run[r].deposit
  BY <1>1, <1>2
<1>4. run' = [run EXCEPT ![r] = row]
  BY <1>1, <1>2, TypesSplit DEF ServiceInv, RunTypes, RunRow, WriteDeposit
<1>. HIDE DEF deposit
<1>5. /\ row \in RunRow /\ row.deposit = deposit /\ row.cap = run[r].cap
      /\ row.spend = run[r].spend /\ row.refund = run[r].refund
      /\ row.settled = run[r].settled /\ row.phase = run[r].phase
  BY <1>2, <1>3 DEF RunRow
<1>6. row.deposit - row.spend - row.refund \in Nat
  BY <1>2, <1>3, <1>5 DEF BalanceOf, RunRow
<1>. HIDE DEF row
<1>7. SameRun(r) /\ run'[r].cap = run[r].cap
  BY <1>1, <1>4, <1>5, TypesSplit DEF ServiceInv, RunTypes, SameRun
<1>8. next \in RequestRow /\ next.at = "run" /\ next.run = r
  BY <1>1 DEF RequestRow
<1>9. /\ request' = [request EXCEPT ![o] = next] /\ request[o].at = "deposit"
      /\ UNCHANGED <<chainVars, escrow, proc, failures>>
  BY TypesSplit DEF ServiceInv, RequestTypes, WriteDeposit
<1>. HIDE DEF next
<1>10. /\ RequestTypes' /\ request'[o] = next
       /\ \A q \in Requests \ {o} : request'[q] = request[q]
  BY <1>8, <1>9, TypesSplit DEF ServiceInv, RequestTypes
<1>11. Approved(r)
  BY <1>9 DEF ServiceInv, ReqInv
<1>12. ReqInv(o)'
  BY <1>7, <1>8, <1>9, <1>10, <1>11 DEF ReqInv, Approved, FixedAt, chainVars
<1>13. ProcTypes'
  BY <1>9, TypesSplit DEF ServiceInv, ProcTypes
<1>. QED BY <1>1, <1>4, <1>5, <1>6, <1>7, <1>9, <1>10, <1>12, <1>13, RunStep

LEMMA SetRunningHolds ==
    ASSUME ServiceInv, NEW o \in Requests, SetRunning(o) PROVE ServiceInv'
<1>0. PICK r \in Runs : r = request[o].run
  BY TypesSplit DEF ServiceInv, RequestTypes, RequestRow
<1>. DEFINE row == [run[r] EXCEPT !.phase = "running"]
<1>1. run[r] \in RunRow /\ BalanceOf(r) \in Nat
  BY TypesSplit DEF ServiceInv, RunTypes
<1>2. run' = [run EXCEPT ![r] = row]
  BY <1>0 DEF SetRunning
<1>3. /\ row \in RunRow /\ row.cap = run[r].cap /\ row.spend = run[r].spend
      /\ row.deposit = run[r].deposit /\ row.refund = run[r].refund
      /\ row.settled = run[r].settled
  BY <1>1 DEF RunRow
<1>. HIDE DEF row
<1>4. request' = [request EXCEPT ![o] = NoRequest] /\ UNCHANGED <<chainVars, escrow, proc, failures>>
  BY DEF SetRunning, RequestDone
<1>5. Approved(r) /\ run[r].spend <= run[r].cap
  <2>1. Approved(r)
    BY <1>0 DEF ServiceInv, ReqInv, SetRunning
  <2>2. run[r].spend \in Nat /\ run[r].cap \in Nat
    BY <1>1 DEF RunRow
  <2>. QED BY <1>1, <2>1, <2>2 DEF ServiceInv, RunInv
<1>6. run'[r] = row
  BY <1>1, <1>2, TypesSplit DEF ServiceInv, RunTypes
<1>7. RunInv(r)'
  <2>1. run'[r].cap = run[r].cap /\ run'[r].spend = run[r].spend
    BY <1>3, <1>6
  <2>2. Approved(r)'
    BY <1>4, <1>5, <2>1 DEF Approved, FixedAt, chainVars
  <2>. QED BY <1>5, <2>1, <2>2 DEF RunInv
<1>8. /\ RequestTypes' /\ request'[o].at = "none"
      /\ \A q \in Requests \ {o} : request'[q] = request[q]
  BY <1>4, TypesSplit, EmptyRows DEF ServiceInv, RequestTypes, NoRequest
<1>9. ReqInv(o)' /\ ProcTypes'
  BY <1>4, <1>8, TypesSplit DEF ReqInv, ServiceInv, ProcTypes
<1>10. row.deposit - row.spend - row.refund \in Nat
  BY <1>1, <1>3 DEF BalanceOf
<1>. QED BY <1>1, <1>2, <1>3, <1>4, <1>7, <1>8, <1>9, <1>10, RunStep

LEMMA FinishHolds ==
    ASSUME ServiceInv, NEW r \in Runs, Finish(r) \/ \E o \in Requests : EndRun(o, r)
    PROVE  ServiceInv'
<1>. DEFINE row == [run[r] EXCEPT !.phase = "finished"]
<1>1. run[r] \in RunRow /\ BalanceOf(r) \in Nat
  BY TypesSplit DEF ServiceInv, RunTypes
<1>2. run' = [run EXCEPT ![r] = row] /\ UNCHANGED <<chainVars, escrow, request, proc, failures>>
  BY DEF Finish, EndRun
<1>3. /\ row \in RunRow /\ row.cap = run[r].cap /\ row.spend = run[r].spend
      /\ row.deposit = run[r].deposit /\ row.refund = run[r].refund
      /\ row.settled = run[r].settled /\ row.phase = "finished"
  BY <1>1 DEF RunRow
<1>. HIDE DEF row
<1>4. SameRun(r)
  BY <1>2, <1>3, TypesSplit DEF ServiceInv, RunTypes, SameRun
<1>5. row.deposit - row.spend - row.refund \in Nat
  BY <1>1, <1>3 DEF BalanceOf
<1>6. RequestTypes' /\ ProcTypes'
  BY <1>2, TypesSplit DEF ServiceInv, RequestTypes, ProcTypes
<1>. QED BY <1>2, <1>3, <1>4, <1>5, <1>6, RunStep

LEMMA ChargeHolds ==
    ASSUME ServiceInv, NEW r \in Runs, NEW cost \in Costs, Charge(r, cost) PROVE ServiceInv'
<1>. DEFINE row == [run[r] EXCEPT !.spend = run[r].spend + cost]
<1>1. /\ run[r] \in RunRow /\ BalanceOf(r) \in Nat /\ cost \in Nat /\ run[r].spend \in Nat
      /\ run[r].deposit \in Nat /\ run[r].refund \in Nat
  BY TypesSplit, ServiceAssumption DEF ServiceInv, RunTypes, RunRow
<1>2. run' = [run EXCEPT ![r] = row] /\ UNCHANGED <<chainVars, escrow, request, proc, failures>>
  BY DEF Charge
<1>3. /\ row \in RunRow /\ row.cap = run[r].cap /\ row.spend = run[r].spend + cost
      /\ row.deposit = run[r].deposit /\ row.refund = run[r].refund
      /\ row.settled = run[r].settled /\ row.phase = run[r].phase
  BY <1>1 DEF RunRow
<1>. HIDE DEF row
<1>4. /\ run[r].phase = "running" /\ ~run[r].settled
      /\ cost <= BalanceOf(r) /\ run[r].spend + cost <= run[r].cap
  BY DEF Charge
<1>5. run'[r] = row
  BY <1>2, TypesSplit DEF ServiceInv, RunTypes
<1>6. RunInv(r)'
  BY <1>2, <1>3, <1>4, <1>5 DEF ServiceInv, RunInv, Approved, FixedAt, chainVars
<1>7. row.deposit - row.spend - row.refund \in Nat
  BY <1>1, <1>3, <1>4 DEF BalanceOf
<1>8. RequestTypes' /\ ProcTypes'
  BY <1>2, TypesSplit DEF ServiceInv, RequestTypes, ProcTypes
<1>. QED BY <1>2, <1>3, <1>4, <1>6, <1>7, <1>8, RunStep

-----------------------------------------------------------------------------
(* Settlement *)

\* A step of one process that leaves runs, jobs of runs and requests alone.
LEMMA ProcStep ==
    ASSUME ServiceInv, ChainOK, SignedInv' \/ UNCHANGED signed,
           UNCHANGED <<run, escrow, request>>, failures' \in 0..MaxFailures,
           NEW p \in Procs, NEW row \in ProcRow, proc' = [proc EXCEPT ![p] = row],
           ProcInv(p)'
    PROVE  ServiceInv'
<1>1. ProcTypes' /\ \A q \in Procs \ {p} : proc'[q] = proc[q]
  BY TypesSplit DEF ServiceInv, ProcTypes
<1>2. ServiceTypeOK'
  BY <1>1, TypesSplit, TypesJoin, LeavesRuns DEF ServiceInv, RequestTypes
<1>. QED BY <1>1, <1>2, LeavesRuns, Assemble

\* A process stops.
LEMMA ProcStops ==
    ASSUME ServiceInv, UNCHANGED <<chainVars, run, escrow, request>>,
           failures' \in 0..MaxFailures, NEW p \in Procs, ProcDone(p)
    PROVE  ServiceInv'
<1>1. proc'[p] = NoProc /\ NoProc.at = "idle"
  BY TypesSplit DEF ServiceInv, ProcTypes, ProcDone, NoProc
<1>2. ProcInv(p)'
  BY <1>1 DEF ProcInv, Settling, Priced
<1>. QED BY <1>2, ChainIdle, EmptyRows, ProcStep DEF ProcDone

\* A process that has its run's final spend goes on from one place to another.
LEMMA ProcMoves ==
    ASSUME ServiceInv, ChainOK, SignedInv' \/ UNCHANGED signed,
           UNCHANGED <<run, escrow, request>>, failures' \in 0..MaxFailures,
           NEW p \in Procs, Priced(p), NEW splitTx \in BOOLEAN, NEW confirmed \in BOOLEAN,
           NEW place \in {"submit", "complete", "sign", "relay", "split", "write", "error"},
           proc' = [proc EXCEPT ![p] = [proc[p] EXCEPT !.at = place, !.splitTx = splitTx,
                                                       !.confirmed = confirmed]]
    PROVE  ServiceInv'
<1>. DEFINE row == [proc[p] EXCEPT !.at = place, !.splitTx = splitTx, !.confirmed = confirmed]
<1>1. proc[p] \in ProcRow
  BY TypesSplit DEF ServiceInv, ProcTypes
<1>2. /\ row \in ProcRow /\ row.at = place /\ row.run = proc[p].run /\ row.read = proc[p].read
      /\ row.spent = proc[p].spent
  BY <1>1 DEF ProcRow
<1>3. proc'[p] = row
  BY TypesSplit DEF ServiceInv, ProcTypes
<1>. HIDE DEF row
<1>4. /\ JobOf(p) = escrow[proc[p].run].job /\ JobOf(p) # 0
      /\ run[proc[p].run].settled /\ proc[p].spent = run[proc[p].run].spend
  BY DEF ServiceInv, ProcInv, Settling, Priced
<1>5. ProcInv(p)'
  BY <1>2, <1>3, <1>4 DEF ProcInv, Settling, Priced, JobOf
<1>6. proc' = [proc EXCEPT ![p] = row]
  BY DEF row
<1>. QED BY <1>2, <1>5, <1>6, ProcStep

LEMMA BeginHolds ==
    ASSUME ServiceInv, NEW p \in Procs, NEW r \in Runs, Begin(p, r) PROVE ServiceInv'
<1>. DEFINE row == [NoProc EXCEPT !.at = "ledger", !.run = r, !.read = escrow[r]]
<1>1. escrow[r] \in Metadata
  BY TypesSplit DEF ServiceInv, EscrowTyped
<1>2. row \in ProcRow /\ row.at = "ledger" /\ row.run = r /\ row.read = escrow[r]
  BY <1>1, EmptyRows DEF ProcRow
<1>. HIDE DEF row
<1>3. proc' = [proc EXCEPT ![p] = row] /\ UNCHANGED <<chainVars, run, escrow, request, failures>>
  BY DEF Begin, row
<1>4. proc'[p] = row
  BY <1>3, TypesSplit DEF ServiceInv, ProcTypes
<1>5. ProcInv(p)'
  BY <1>2, <1>3, <1>4 DEF ProcInv, Settling, Priced, JobOf
<1>. QED BY <1>2, <1>3, <1>5, ChainIdle, TypesSplit, ProcStep DEF ServiceInv

\* The ledger is settled: from here on the spend is final.
LEMMA SettleLedgerHolds ==
    ASSUME ServiceInv, NEW p \in Procs, SettleLedger(p) PROVE ServiceInv'
<1>. DEFINE r == proc[p].run
            refund == IF run[r].settled THEN run[r].refund
                      ELSE run[r].refund + (IF BalanceOf(r) > 0 THEN BalanceOf(r) ELSE 0)
            row == [run[r] EXCEPT !.settled = TRUE, !.refund = refund]
<1>1. /\ proc[p] \in ProcRow /\ r \in Runs /\ run[r] \in RunRow /\ BalanceOf(r) \in Nat
      /\ run[r].refund \in Nat
  BY TypesSplit DEF ServiceInv, ProcTypes, ProcRow, RunTypes, RunRow
<1>2. refund \in Nat /\ run[r].deposit - run[r].spend - refund \in Nat
  <2>1. /\ run[r].deposit \in Nat /\ run[r].spend \in Nat
        /\ BalanceOf(r) = run[r].deposit - run[r].spend - run[r].refund
    BY <1>1 DEF BalanceOf, RunRow
  <2>2. CASE run[r].settled
    BY <1>1, <2>1, <2>2
  <2>3. CASE ~run[r].settled /\ BalanceOf(r) > 0
    BY <1>1, <2>1, <2>3
  <2>4. CASE ~run[r].settled /\ BalanceOf(r) = 0
    BY <1>1, <2>1, <2>4
  <2>. QED BY <1>1, <2>2, <2>3, <2>4
<1>3. run' = [run EXCEPT ![r] = row]
  <2>1. CASE run[r].settled
    <3>1. row = run[r]
      BY <1>1, <2>1 DEF RunRow
    <3>. QED BY <2>1, <3>1, TypesSplit DEF ServiceInv, RunTypes, SettleLedger
  <2>2. CASE ~run[r].settled
    BY <1>1, <2>2 DEF SettleLedger
  <2>. QED BY <2>1, <2>2
<1>. HIDE DEF refund
<1>4. /\ row \in RunRow /\ row.cap = run[r].cap /\ row.spend = run[r].spend
      /\ row.deposit = run[r].deposit /\ row.refund = refund /\ row.settled
      /\ row.phase = run[r].phase
  BY <1>1, <1>2 DEF RunRow
<1>. HIDE DEF row
<1>5. run'[r] = row
  BY <1>1, <1>3, TypesSplit DEF ServiceInv, RunTypes
<1>6. SameRun(r)
  BY <1>4, <1>5 DEF SameRun
<1>7. UNCHANGED <<chainVars, escrow, request, failures>> /\ RequestTypes'
  BY TypesSplit DEF ServiceInv, RequestTypes, SettleLedger
<1>8. /\ ProcTypes' /\ ProcInv(p)'
      /\ \A q \in Procs \ {p} : proc'[q] = proc[q]
  <2>1. CASE ProcDone(p)
    <3>1. proc' \in [Procs -> ProcRow] /\ proc'[p].at = "idle"
      BY <2>1, EmptyRows, TypesSplit DEF ServiceInv, ProcTypes, ProcDone, NoProc
    <3>2. \A q \in Procs \ {p} : proc'[q] = proc[q]
      BY <2>1, TypesSplit DEF ServiceInv, ProcTypes, ProcDone
    <3>. QED BY <3>1, <3>2 DEF ProcTypes, ProcInv, Settling, Priced
  <2>2. CASE JobOf(p) # 0 /\ Step(p, "bind")
    <3>. DEFINE next == [proc[p] EXCEPT !.at = "bind"]
    <3>1. next \in ProcRow /\ next.at = "bind" /\ next.run = r /\ next.read = proc[p].read
      BY <1>1 DEF ProcRow
    <3>2. /\ proc' \in [Procs -> ProcRow] /\ proc'[p] = next
          /\ \A q \in Procs \ {p} : proc'[q] = proc[q]
      BY <2>2, <3>1, TypesSplit DEF ServiceInv, ProcTypes, Step
    <3>3. JobOf(p) = escrow[r].job
      BY <2>2 DEF ServiceInv, ProcInv, SettleLedger
    <3>. QED
      BY <1>4, <1>5, <1>7, <2>2, <3>1, <3>2, <3>3 DEF ProcTypes, ProcInv, Settling, Priced, JobOf
  <2>. QED BY <2>1, <2>2 DEF SettleLedger
<1>9. row.deposit - row.spend - row.refund \in Nat
  BY <1>2, <1>4
<1>. QED BY <1>1, <1>3, <1>4, <1>6, <1>7, <1>8, <1>9, RunStep

\* The spend is read from the settled ledger.
LEMMA CheckBindingHolds ==
    ASSUME ServiceInv, NEW p \in Procs, CheckBinding(p) PROVE ServiceInv'
<1>. DEFINE r == proc[p].run
            place == IF Bound(JobOf(p)) THEN "status" ELSE "error"
            row == [proc[p] EXCEPT !.spent = run[r].spend, !.at = place]
<1>1. proc[p] \in ProcRow /\ r \in Runs /\ run[r].spend \in Nat
  BY TypesSplit DEF ServiceInv, ProcTypes, ProcRow, RunTypes, RunRow
<1>2. place \in {"status", "error"}
  OBVIOUS
<1>. HIDE DEF place
<1>3. /\ row \in ProcRow /\ row.at = place /\ row.run = r /\ row.read = proc[p].read
      /\ row.spent = run[r].spend
  BY <1>1, <1>2 DEF ProcRow
<1>4. proc' = [proc EXCEPT ![p] = row] /\ UNCHANGED <<chainVars, run, escrow, request, failures>>
  BY DEF CheckBinding, place
<1>. HIDE DEF row
<1>5. proc'[p] = row
  BY <1>4, TypesSplit DEF ServiceInv, ProcTypes
<1>6. JobOf(p) = escrow[r].job /\ JobOf(p) # 0 /\ run[r].settled
  BY DEF ServiceInv, ProcInv, Settling, CheckBinding
<1>7. ProcInv(p)'
  BY <1>2, <1>3, <1>4, <1>5, <1>6 DEF ProcInv, Settling, Priced, JobOf
<1>. QED BY <1>3, <1>4, <1>7, ChainIdle, TypesSplit, ProcStep DEF ServiceInv

\* A process only changes its place.
LEMMA ProcSteps ==
    ASSUME ServiceInv, ChainOK, SignedInv' \/ UNCHANGED signed,
           UNCHANGED <<run, escrow, request>>, failures' \in 0..MaxFailures,
           NEW p \in Procs, Priced(p),
           NEW place \in {"submit", "complete", "sign", "relay", "split", "write", "error"},
           Step(p, place)
    PROVE  ServiceInv'
<1>1. proc[p] \in ProcRow /\ proc[p].splitTx \in BOOLEAN /\ proc[p].confirmed \in BOOLEAN
  BY TypesSplit DEF ServiceInv, ProcTypes, ProcRow
<1>2. [proc[p] EXCEPT !.at = place] =
        [proc[p] EXCEPT !.at = place, !.splitTx = proc[p].splitTx,
                        !.confirmed = proc[p].confirmed]
  BY <1>1 DEF ProcRow
<1>3. proc' = [proc EXCEPT ![p] = [proc[p] EXCEPT !.at = place]]
  BY DEF Step
<1>. QED BY <1>1, <1>2, <1>3, ProcMoves

\* A process that has its run's spend settles the job of that run.
LEMMA PricedJob ==
    ASSUME ServiceInv, NEW p \in Procs, Priced(p)
    PROVE  /\ JobOf(p) \in Jobs /\ JobOf(p) # 0 /\ proc[p].run \in Runs
           /\ JobOf(p) = escrow[proc[p].run].job
           /\ run[proc[p].run].settled /\ run[proc[p].run].spend = proc[p].spent
           /\ proc[p].spent \in Nat /\ proc[p].read \in Metadata
<1>1. proc[p].run \in Runs /\ proc[p].spent \in Nat /\ proc[p].read \in Metadata
  BY TypesSplit DEF ServiceInv, ProcTypes, ProcRow
<1>2. /\ JobOf(p) = escrow[proc[p].run].job /\ JobOf(p) # 0
      /\ run[proc[p].run].settled /\ proc[p].spent = run[proc[p].run].spend
  BY DEF ServiceInv, ProcInv, Settling, Priced
<1>. QED BY <1>1, <1>2, JobsAreIds

LEMMA ReadStatusHolds ==
    ASSUME ServiceInv, NEW p \in Procs, ReadStatus(p) PROVE ServiceInv'
<1>1. PICK place \in {"submit", "complete", "sign", "error"} : Step(p, place)
  BY DEF ReadStatus
<1>2. Priced(p) /\ UNCHANGED <<chainVars, run, escrow, request, failures>>
  BY DEF ReadStatus, Priced
<1>. QED BY <1>1, <1>2, ChainIdle, ProcSteps, TypesSplit DEF ServiceInv

\* A transaction that is mined, or is not.
LEMMA TransactHolds ==
    ASSUME ServiceInv, NEW p \in Procs, Priced(p), Call \/ UNCHANGED chainVars,
           UNCHANGED <<run, escrow, request>>, failures' \in 0..MaxFailures,
           NEW place \in {"complete", "sign", "write", "error"}, Step(p, place)
    PROVE  ServiceInv'
<1>1. ChainOK /\ UNCHANGED signed
  BY ChainIdle, CallsAreOK DEF ServiceInv
<1>. QED BY <1>1, ProcSteps

LEMMA NextFailure ==
    ASSUME ServiceInv, \/ UNCHANGED failures
                       \/ failures < MaxFailures /\ failures' = failures + 1
    PROVE  failures' \in 0..MaxFailures
BY TypesSplit, ServiceAssumption DEF ServiceInv

LEMMA SendSubmitHolds ==
    ASSUME ServiceInv, NEW p \in Procs, SendSubmit(p) PROVE ServiceInv'
<1>1. Priced(p) /\ JobOf(p) \in Jobs
  BY PricedJob DEF SendSubmit, Priced
<1>2. SubmitJob(Keeper, JobOf(p)) => Call
  BY <1>1 DEF Call, Wallets, Deliver
<1>3. /\ SubmitJob(Keeper, JobOf(p)) \/ UNCHANGED chainVars
      /\ Step(p, "complete") \/ Step(p, "error")
      /\ UNCHANGED failures \/ (failures < MaxFailures /\ failures' = failures + 1)
      /\ UNCHANGED <<run, escrow, request>>
  BY DEF SendSubmit, Transact
<1>. QED BY <1>1, <1>2, <1>3, NextFailure, TransactHolds

LEMMA SendCompleteHolds ==
    ASSUME ServiceInv, NEW p \in Procs, SendComplete(p) PROVE ServiceInv'
<1>1. Priced(p) /\ JobOf(p) \in Jobs
  BY PricedJob DEF SendComplete, Priced
<1>2. Complete(Keeper, JobOf(p)) => Call
  BY <1>1 DEF Call, Wallets, Deliver
<1>3. /\ Complete(Keeper, JobOf(p)) \/ UNCHANGED chainVars
      /\ Step(p, "sign") \/ Step(p, "error")
      /\ UNCHANGED failures \/ (failures < MaxFailures /\ failures' = failures + 1)
      /\ UNCHANGED <<run, escrow, request>>
  BY DEF SendComplete, Transact
<1>. QED BY <1>1, <1>2, <1>3, NextFailure, TransactHolds

\* The keeper signs the final spend of the run that has the job.
LEMMA SignHolds ==
    ASSUME ServiceInv, NEW p \in Procs, Sign(p) PROVE ServiceInv'
<1>1. PICK r \in Runs : r = proc[p].run
  BY TypesSplit DEF ServiceInv, ProcTypes, ProcRow
<1>2. PICK a : a = Attestation(p)
  OBVIOUS
<1>3. /\ Priced(p) /\ Step(p, "relay") /\ UNCHANGED <<run, escrow, request, failures>>
      /\ SignSplit(JobOf(p), proc[p].spent) /\ signed' = signed \cup {a}
  BY <1>2 DEF Sign, Priced, SignSplit, Attestation
<1>4. ChainOK
  BY <1>3, PricedJob, SigningIsOK DEF ServiceInv
<1>5. Attests(r, a)
  BY <1>1, <1>2, <1>3, PricedJob DEF Attests, Attestation
<1>6. \A b \in signed, q \in Runs : Attests(q, b) => Attests(q, b)'
  BY <1>3 DEF Attests
<1>7. Attests(r, a)'
  BY <1>3, <1>5 DEF Attests
<1>8. SignedInv'
  BY <1>3, <1>6, <1>7 DEF ServiceInv, SignedInv
<1>. QED BY <1>3, <1>4, <1>8, NextFailure, ProcSteps

LEMMA ReadSplitDoneHolds ==
    ASSUME ServiceInv, NEW p \in Procs, ReadSplitDone(p) PROVE ServiceInv'
<1>1. /\ Priced(p) /\ UNCHANGED <<chainVars, run, escrow, request, failures>>
      /\ proc[p] \in ProcRow /\ proc[p].splitTx \in BOOLEAN
  BY TypesSplit DEF ServiceInv, ProcTypes, ProcRow, ReadSplitDone, Priced
<1>2. CASE Step(p, "split")
  BY <1>1, <1>2, ChainIdle, ProcSteps, NextFailure
<1>3. CASE proc' = [proc EXCEPT ![p].at = "write", ![p].confirmed = TRUE]
  <2>1. [proc[p] EXCEPT !.at = "write", !.splitTx = proc[p].splitTx, !.confirmed = TRUE] =
          [proc[p] EXCEPT !.at = "write", !.confirmed = TRUE]
    BY <1>1 DEF ProcRow
  <2>2. proc' = [proc EXCEPT ![p] = [proc[p] EXCEPT !.at = "write", !.confirmed = TRUE]]
    BY <1>3, TypesSplit DEF ServiceInv, ProcTypes
  <2>. QED BY <1>1, <2>1, <2>2, ChainIdle, NextFailure, ProcMoves
<1>. QED BY <1>2, <1>3 DEF ReadSplitDone, Step

LEMMA SendSplitHolds ==
    ASSUME ServiceInv, NEW p \in Procs, SendSplit(p) PROVE ServiceInv'
<1>1. /\ Priced(p) /\ proc[p] \in ProcRow /\ UNCHANGED <<run, escrow, request>>
      /\ UNCHANGED failures \/ (failures < MaxFailures /\ failures' = failures + 1)
  BY TypesSplit DEF ServiceInv, ProcTypes, SendSplit, Priced
<1>2. Split(Keeper, Attestation(p)) => Call
  BY DEF Split, Call, Wallets
<1>3. Call \/ UNCHANGED chainVars
  BY <1>2 DEF SendSplit
<1>4. CASE Step(p, "write")
  BY <1>1, <1>3, <1>4, NextFailure, TransactHolds
<1>5. CASE proc' = [proc EXCEPT ![p].at = "write", ![p].splitTx = TRUE, ![p].confirmed = TRUE]
  <2>1. ChainOK /\ UNCHANGED signed
    BY <1>3, ChainIdle, CallsAreOK DEF ServiceInv
  <2>2. proc' = [proc EXCEPT ![p] = [proc[p] EXCEPT !.at = "write", !.splitTx = TRUE,
                                                    !.confirmed = TRUE]]
    BY <1>5, TypesSplit DEF ServiceInv, ProcTypes
  <2>. QED BY <1>1, <2>1, <2>2, NextFailure, ProcMoves
<1>. QED BY <1>4, <1>5 DEF SendSplit

\* The metadata written back names the job it was read with.
LEMMA WriteOutcomeHolds ==
    ASSUME ServiceInv, NEW p \in Procs, WriteOutcome(p) PROVE ServiceInv'
<1>1. PICK r \in Runs : r = proc[p].run
  BY TypesSplit DEF ServiceInv, ProcTypes, ProcRow
<1>. DEFINE data == [proc[p].read EXCEPT !.status = "Completed",
                                         !.confirmed = proc[p].confirmed,
                                         !.splitTx = @ \/ proc[p].splitTx]
<1>2. /\ Priced(p) /\ UNCHANGED <<chainVars, run, request, failures>> /\ ProcDone(p)
      /\ escrow' = [escrow EXCEPT ![r] = data]
  BY <1>1 DEF WriteOutcome, Priced
<1>3. /\ proc[p].read \in Metadata /\ proc[p].read.job = escrow[r].job
      /\ proc[p].splitTx \in BOOLEAN /\ proc[p].confirmed \in BOOLEAN
  BY <1>1, <1>2, PricedJob, TypesSplit DEF ServiceInv, ProcTypes, ProcRow, JobOf
<1>4. proc[p].read.splitTx \in BOOLEAN
  BY <1>3 DEF Metadata
<1>5. data \in Metadata /\ data.job = escrow[r].job
  BY <1>3, <1>4 DEF Metadata
<1>. HIDE DEF data
<1>6. escrow \in [Runs -> Metadata]
  BY TypesSplit DEF ServiceInv, EscrowTyped
<1>7. escrow' \in [Runs -> Metadata] /\ \A q \in Runs : escrow'[q].job = escrow[q].job
  BY <1>2, <1>5, <1>6
<1>8. /\ proc' \in [Procs -> ProcRow] /\ proc'[p].at = "idle"
      /\ \A q \in Procs \ {p} : proc'[q] = proc[q]
  BY <1>2, EmptyRows, TypesSplit DEF ServiceInv, ProcTypes, ProcDone, NoProc
<1>9. ProcInv(p)'
  BY <1>8 DEF ProcInv, Settling, Priced
<1>10. RunTypes' /\ RequestTypes' /\ failures' \in 0..MaxFailures
  BY <1>2, TypesSplit DEF ServiceInv, RunTypes, BalanceOf, RequestTypes
<1>11. ServiceTypeOK'
  BY <1>7, <1>8, <1>10, TypesJoin DEF EscrowTyped, ProcTypes
<1>12. Keeps /\ \A q \in Runs : SameRun(q)
  BY <1>2, <1>7 DEF Keeps, SameRun, Approved
<1>. QED BY <1>2, <1>7, <1>8, <1>9, <1>11, <1>12, ChainIdle, Assemble

LEMMA SettleStepHolds ==
    ASSUME ServiceInv, NEW p \in Procs, SettleStep(p) PROVE ServiceInv'
<1>1. CASE Abandon(p)
  BY <1>1, NextFailure, ProcStops DEF Abandon
<1>. QED
  BY <1>1, SettleLedgerHolds, CheckBindingHolds, ReadStatusHolds, SendSubmitHolds,
     SendCompleteHolds, SignHolds, ReadSplitDoneHolds, SendSplitHolds, WriteOutcomeHolds
     DEF SettleStep

-----------------------------------------------------------------------------
(* The theorems *)

LEMMA ServiceStarts == ServiceInit => ServiceInv
<1>. SUFFICES ASSUME ServiceInit PROVE ServiceInv
  OBVIOUS
<1>1. IInv /\ SplitMoney
  BY InitInductive DEF ServiceInit, Init, SplitMoney
<1>2. run \in [Runs -> RunRow] /\ \A r \in Runs : BalanceOf(r) = 0
  BY ServiceAssumption DEF ServiceInit, RunRow, BalanceOf
<1>3. /\ EscrowTyped /\ RequestTypes /\ ProcTypes
  BY EmptyRows DEF ServiceInit, EscrowTyped, RequestTypes, ProcTypes
<1>4. ServiceTypeOK
  <2>1. failures \in 0..MaxFailures
    BY ServiceAssumption DEF ServiceInit
  <2>2. RunTypes
    BY <1>2 DEF RunTypes
  <2>. QED BY <1>3, <2>1, <2>2, TypesSplit
<1>5. OneRunPerJob /\ SignedInv
  BY DEF ServiceInit, Init, OneRunPerJob, SignedInv, NoEscrow
<1>6. \A r \in Runs : RunInv(r)
  BY DEF ServiceInit, RunInv
<1>7. \A o \in Requests : ReqInv(o)
  BY DEF ServiceInit, ReqInv, NoRequest
<1>8. \A p \in Procs : ProcInv(p)
  BY DEF ServiceInit, ProcInv, Settling, Priced, NoProc
<1>. QED BY <1>1, <1>4, <1>5, <1>6, <1>7, <1>8 DEF ServiceInv

LEMMA ServiceStepHolds == ServiceInv /\ [ServiceNext]_allVars => ServiceInv'
<1>. SUFFICES ASSUME ServiceInv, [ServiceNext]_allVars PROVE ServiceInv'
  OBVIOUS
<1>1. CASE UNCHANGED allVars
  <2>1. ServiceTypeOK'
    BY <1>1, TypesSplit, TypesJoin, LeavesRuns
       DEF ServiceInv, allVars, serviceVars, RequestTypes, ProcTypes
  <2>. QED BY <1>1, <2>1, ChainIdle, LeavesRuns, Assemble DEF allVars, serviceVars
<1>2. CASE ChainStep /\ UNCHANGED serviceVars
  BY <1>2, ChainStepHolds
<1>3. ASSUME NEW o \in Requests, NEW r \in Runs,
             \/ ReadApprove(o, r) \/ EndRun(o, r)
             \/ \E j \in Jobs : ReadRegister(o, r, j)
      PROVE  ServiceInv'
  BY <1>3, ReadApproveHolds, ReadRegisterHolds, FinishHolds
<1>4. ASSUME NEW o \in Requests, Answer(o) PROVE ServiceInv'
  BY <1>4, WriteRegisterHolds, WriteCapHolds, ReadDepositsHolds, WriteDepositHolds,
     SetRunningHolds DEF Answer
<1>5. ASSUME NEW o \in Requests, CrashRequest(o) PROVE ServiceInv'
  BY <1>5, CrashRequestHolds
<1>6. ASSUME NEW r \in Runs, Finish(r) \/ \E cost \in Costs : Charge(r, cost)
      PROVE  ServiceInv'
  BY <1>6, FinishHolds, ChargeHolds
<1>7. ASSUME NEW p \in Procs, \/ \E r \in Runs : Begin(p, r)
                              \/ SettleStep(p) \/ CrashProc(p)
      PROVE  ServiceInv'
  <2>1. CASE CrashProc(p)
    BY <2>1, NextFailure, ProcStops DEF CrashProc
  <2>. QED BY <1>7, <2>1, BeginHolds, SettleStepHolds
<1>. QED BY <1>1, <1>2, <1>3, <1>4, <1>5, <1>6, <1>7 DEF ServiceNext

\* What the service relies on of runs, requests, settlements and signatures
\* holds in every state.
THEOREM ServiceInvariant == ServiceSpec => []ServiceInv
<1>. QED BY ServiceStarts, ServiceStepHolds, PTL DEF ServiceSpec

\* Every variable holds a value the service can store, and no ledger owes.
THEOREM ServiceTypes == ServiceSpec => []ServiceTypeOK
<1>1. ServiceInv => ServiceTypeOK
  BY DEF ServiceInv
<1>. QED BY <1>1, ServiceInvariant, PTL

\* No two runs ever have the same escrow job.
THEOREM JobsAreNotShared == ServiceSpec => []OneRunPerJob
<1>1. ServiceInv => OneRunPerJob
  BY DEF ServiceInv
<1>. QED BY <1>1, ServiceInvariant, PTL

\* No attestation asks for more than its job holds, so none is ever refused.
THEOREM AttestationsFit == ServiceSpec => []AttestationFits
<1>1. ServiceInv => AttestationFits
  <2>. SUFFICES ASSUME ServiceInv, NEW a \in signed PROVE a.spent <= jobs[a.job].budget
    BY DEF AttestationFits
  <2>1. PICK r \in Runs : Attests(r, a)
    BY DEF ServiceInv, SignedInv
  <2>2. a.job \in Jobs /\ a.spent \in Nat /\ jobs[a.job].budget \in Nat
    BY DEF ServiceInv, IInv, TypeOK, Attestations, Job
  <2>3. run[r].spend # 0 => run[r].spend <= run[r].cap /\ jobs[a.job].budget = run[r].cap
    BY <2>1 DEF ServiceInv, RunInv, Attests, Approved, FixedAt
  <2>. QED BY <2>1, <2>2, <2>3 DEF Attests
<1>. QED BY <1>1, ServiceInvariant, PTL

\* However often settlement is retried, one spend is attested for a job.
THEOREM AttestedOnce == ServiceSpec => []OneAttestation
<1>1. ServiceInv => OneAttestation
  <2>. SUFFICES ASSUME ServiceInv, NEW a \in signed, NEW b \in signed, a.job = b.job
                PROVE  a = b
    BY DEF OneAttestation
  <2>1. PICK r \in Runs : Attests(r, a)
    BY DEF ServiceInv, SignedInv
  <2>2. PICK q \in Runs : Attests(q, b)
    BY DEF ServiceInv, SignedInv
  <2>3. a \in Attestations /\ b \in Attestations /\ a.job # 0
    BY JobsAssumption DEF ServiceInv, IInv, TypeOK, Attestations
  <2>4. r = q
    BY <2>1, <2>2, <2>3 DEF ServiceInv, OneRunPerJob, Attests
  <2>. QED BY <2>1, <2>2, <2>3, <2>4 DEF Attests, Attestations
<1>. QED BY <1>1, ServiceInvariant, PTL

\* What a split pays operator and treasury is what the run was charged.
THEOREM SplitsPayTheSpend == ServiceSpec => []SplitPaysSpend
<1>1. ServiceInv => SplitPaysSpend
  <2>. SUFFICES ASSUME ServiceInv, NEW r \in Runs, NEW j, j = escrow[r].job, j # 0, splitDone[j]
                PROVE  /\ paid[j].provider + paid[j].treasury = run[r].spend
                       /\ paid[j].client = jobs[j].budget - run[r].spend
    BY DEF SplitPaysSpend
  <2>0. j \in Jobs
    BY JobsAreIds
  <2>1. PICK a \in signed : a.job = j /\ paid[j].provider + paid[j].treasury = a.spent
    BY <2>0 DEF ServiceInv, SplitMoney, Presented
  <2>2. PICK q \in Runs : Attests(q, a)
    BY DEF ServiceInv, SignedInv
  <2>3. q = r
    BY <2>1, <2>2 DEF ServiceInv, OneRunPerJob, Attests
  <2>4. paid[j].provider + paid[j].treasury = run[r].spend
    BY <2>1, <2>2, <2>3 DEF Attests
  <2>5. /\ paid[j].client + paid[j].provider + paid[j].treasury = jobs[j].budget
        /\ paid[j] \in Shares
    BY <2>0 DEF ServiceInv, IInv, TypeOK, MoneyInv, JobMoney
  <2>. QED BY <2>4, <2>5 DEF Shares
<1>. QED BY <1>1, ServiceInvariant, PTL

-----------------------------------------------------------------------------
(* The contracts under the service *)

\* The contracts with a keeper that may sign any amount.
Contracts == INSTANCE EscrowJob WITH Spends <- Nat

Signature == \E j \in Jobs, spent \in Nat : SignSplit(j, spent)

LEMMA CallAllowed == Call => Contracts!Next
<1>. SUFFICES ASSUME Call PROVE Contracts!Next
  OBVIOUS
<1>1. Contracts!Wallets = Wallets
  BY DEF Wallets, Contracts!Wallets
<1>2. ASSUME NEW sender, NEW p, NEW e, CreateJob(sender, p, e)
      PROVE  Contracts!CreateJob(sender, p, e)
  BY <1>2 DEF CreateJob, Contracts!CreateJob
<1>3. ASSUME NEW j, NEW status, Enter(j, status) PROVE Contracts!Enter(j, status)
  BY <1>3 DEF Enter, Contracts!Enter
<1>4. ASSUME NEW from, NEW to, NEW amount, Transfer(from, to, amount)
      PROVE  Contracts!Transfer(from, to, amount)
  BY <1>4 DEF Transfer, Contracts!Transfer, Credit, Contracts!Credit, Debit, Contracts!Debit
<1>5. ASSUME NEW j, NEW party, NEW amount, Pay(j, party, amount) PROVE Contracts!Pay(j, party, amount)
  BY <1>5 DEF Pay, Contracts!Pay
<1>6. ASSUME NEW j, Refund(j) PROVE Contracts!Refund(j)
  BY <1>4, <1>5, <1>6 DEF Refund, Contracts!Refund
<1>7. Contracts!Escrowed = Escrowed /\ Contracts!Parked = Parked
  BY DEF Escrowed, Contracts!Escrowed, Parked, Contracts!Parked
<1>8. ASSUME NEW sender, NEW j, Negotiate(sender, j) PROVE Contracts!Negotiate(sender, j)
  BY <1>3, <1>4, <1>8
     DEF Negotiate, Contracts!Negotiate, SetProvider, Contracts!SetProvider,
         SetBudget, Contracts!SetBudget, Fund, Contracts!Fund
<1>9. ASSUME NEW sender, NEW j, Submit(sender, j) PROVE Contracts!Submit(sender, j)
  BY <1>3, <1>9 DEF Submit, Contracts!Submit
<1>10. ASSUME NEW sender, NEW j, Complete(sender, j) PROVE Contracts!Complete(sender, j)
  BY <1>3, <1>4, <1>5, <1>10 DEF Complete, Contracts!Complete
<1>11. ASSUME NEW sender, NEW j, Reject(sender, j) PROVE Contracts!Reject(sender, j)
  BY <1>3, <1>6, <1>7, <1>11 DEF Reject, Contracts!Reject
<1>12. ASSUME NEW sender, NEW j, Deliver(sender, j) PROVE Contracts!Deliver(sender, j)
  BY <1>9, <1>10, <1>11, <1>12 DEF Deliver, Contracts!Deliver, SubmitJob, Contracts!SubmitJob
<1>13. ASSUME NEW sender, NEW a, Split(sender, a) PROVE Contracts!Split(sender, a)
  <2>1. ASSUME NEW j, NEW spent, Divide(j, spent) PROVE Contracts!Divide(j, spent)
    BY <2>1 DEF Divide, Contracts!Divide, Fee, Contracts!Fee, Credit, Contracts!Credit,
                Debit, Contracts!Debit
  <2>. QED BY <1>7, <1>13, <2>1 DEF Split, Contracts!Split
<1>14. ASSUME NEW j, ClaimRefund(j) \/ Expire(j)
       PROVE  Contracts!ClaimRefund(j) \/ Contracts!Expire(j)
  BY <1>3, <1>6, <1>7, <1>14 DEF ClaimRefund, Contracts!ClaimRefund, Expire, Contracts!Expire
<1>. QED
  BY <1>1, <1>2, <1>8, <1>12, <1>13, <1>14 DEF Call, Contracts!Next

LEMMA SignatureAllowed == Signature => Contracts!Next
BY DEF Signature, Contracts!Next, SignSplit, Contracts!SignSplit

\* The processes send their transactions for the job of their run.
LEMMA ProcsHaveJobs ==
    ASSUME ServiceInv, NEW p \in Procs, Settling(p)
    PROVE  JobOf(p) \in Jobs /\ proc[p].spent \in Nat
<1>1. proc[p] \in ProcRow
  BY TypesSplit DEF ServiceInv, ProcTypes
<1>2. JobOf(p) # 0
  BY DEF ServiceInv, ProcInv
<1>. QED BY <1>1, <1>2 DEF ProcRow, Metadata, JobOf

LEMMA TransactCalls ==
    ASSUME NEW p, NEW tx, NEW mayPass, NEW passed, NEW failed,
           Transact(p, tx, mayPass, passed, failed)
    PROVE  tx \/ UNCHANGED chainVars
BY DEF Transact

\* Whatever the service does, the contracts see a call, a signature or nothing.
LEMMA ServiceSteps ==
    ASSUME ServiceInv, [ServiceNext]_allVars
    PROVE  Call \/ Signature \/ UNCHANGED vars
<1>1. Keeper \in Wallets
  BY DEF Wallets
<1>2. UNCHANGED chainVars => UNCHANGED vars
  BY DEF chainVars, vars
<1>3. CASE UNCHANGED allVars
  BY <1>2, <1>3 DEF allVars
<1>4. CASE ChainStep
  BY <1>4 DEF ChainStep, Call, Wallets
<1>5. ASSUME NEW o \in Requests, NEW r \in Runs,
             \/ ReadApprove(o, r) \/ EndRun(o, r)
             \/ \E j \in Jobs : ReadRegister(o, r, j)
      PROVE  UNCHANGED vars
  BY <1>2, <1>5 DEF ReadApprove, EndRun, ReadRegister
<1>6. ASSUME NEW o \in Requests, Answer(o) \/ CrashRequest(o) PROVE UNCHANGED vars
  BY <1>2, <1>6 DEF Answer, WriteRegister, WriteCap, ReadDeposits, WriteDeposit, SetRunning,
                    CrashRequest
<1>7. ASSUME NEW r \in Runs, Finish(r) \/ \E cost \in Costs : Charge(r, cost)
      PROVE  UNCHANGED vars
  BY <1>2, <1>7 DEF Finish, Charge
<1>8. ASSUME NEW p \in Procs, \/ \E r \in Runs : Begin(p, r)
                              \/ SettleLedger(p) \/ CheckBinding(p) \/ ReadStatus(p)
                              \/ ReadSplitDone(p) \/ WriteOutcome(p) \/ Abandon(p)
                              \/ CrashProc(p)
      PROVE  UNCHANGED vars
  BY <1>2, <1>8 DEF Begin, SettleLedger, CheckBinding, ReadStatus, ReadSplitDone,
                    WriteOutcome, Abandon, CrashProc
<1>9. ASSUME NEW p \in Procs, SendSubmit(p) PROVE Call \/ UNCHANGED vars
  <2>1. JobOf(p) \in Jobs
    BY <1>9, ProcsHaveJobs DEF SendSubmit, Settling
  <2>2. SubmitJob(Keeper, JobOf(p)) \/ UNCHANGED chainVars
    BY <1>9, TransactCalls DEF SendSubmit
  <2>. QED BY <1>1, <1>2, <2>1, <2>2 DEF Call, Deliver
<1>10. ASSUME NEW p \in Procs, SendComplete(p) PROVE Call \/ UNCHANGED vars
  <2>1. JobOf(p) \in Jobs
    BY <1>10, ProcsHaveJobs DEF SendComplete, Settling
  <2>2. Complete(Keeper, JobOf(p)) \/ UNCHANGED chainVars
    BY <1>10, TransactCalls DEF SendComplete
  <2>. QED BY <1>1, <1>2, <2>1, <2>2 DEF Call, Deliver
<1>11. ASSUME NEW p \in Procs, Sign(p) PROVE Signature
  BY <1>11, ProcsHaveJobs DEF Sign, Settling, Signature
<1>12. ASSUME NEW p \in Procs, SendSplit(p) PROVE Call \/ UNCHANGED vars
  <2>1. Split(Keeper, Attestation(p)) \/ UNCHANGED chainVars
    BY <1>12 DEF SendSplit
  <2>2. Split(Keeper, Attestation(p)) => Attestation(p) \in signed
    BY DEF Split
  <2>. QED BY <1>1, <1>2, <2>1, <2>2 DEF Call
<1>. QED
  BY <1>3, <1>4, <1>5, <1>6, <1>7, <1>8, <1>9, <1>10, <1>11, <1>12
     DEF ServiceNext, SettleStep

LEMMA CallsAndSignatures ==
    ASSUME Call \/ Signature \/ UNCHANGED vars
    PROVE  [Next]_vars \/ UNCHANGED <<jobs, balance, splitDone, paid>>
BY CallIsNext DEF Signature, SignSplit

\* The service uses the contracts as anybody may: what it sends, retries and signs are
\* steps of EscrowJob, so whatever holds of the contracts holds under the service
\* (settle.js and jobs.js over AgenticCommerce.sol and NibgateRunSplitter.sol).
THEOREM ServiceUsesContracts == ServiceSpec => Contracts!Spec
<1>1. ServiceInit => Contracts!Init
  BY DEF ServiceInit, Init, Contracts!Init, NoJob, Contracts!NoJob, NoShares,
         Contracts!NoShares, Accounts, Contracts!Accounts, Wallets, Contracts!Wallets
<1>2. ServiceInv /\ [ServiceNext]_allVars => [Contracts!Next]_(Contracts!vars)
  BY ServiceSteps, CallAllowed, SignatureAllowed DEF vars, Contracts!vars
<1>. QED BY <1>1, <1>2, ServiceInvariant, PTL DEF ServiceSpec, Contracts!Spec

\* Core and splitter hold exactly what they owe while the service drives them, with
\* settlements racing, retried and lost (settle.js, jobs.js).
THEOREM ServiceKeepsPools == ServiceSpec => []FundsHeld
<1>1. ServiceInit => FundsInv
  BY FundsStart DEF ServiceInit
<1>2. ServiceInv /\ FundsInv /\ [ServiceNext]_allVars => FundsInv'
  <2>. SUFFICES ASSUME ServiceInv, FundsInv, [ServiceNext]_allVars PROVE FundsInv'
    OBVIOUS
  <2>1. CASE [Next]_vars
    BY <2>1, FundsKept DEF ServiceInv
  <2>2. CASE UNCHANGED <<jobs, balance, splitDone, paid>>
    BY <2>2, IdleKeepsFunds
  <2>. QED BY <2>1, <2>2, ServiceSteps, CallsAndSignatures
<1>3. FundsInv => FundsHeld
  BY DEF FundsInv
<1>. QED BY <1>1, <1>2, <1>3, ServiceInvariant, PTL DEF ServiceSpec

\* What the client funded is what the service settles.
THEOREM ServiceKeepsTerms == ServiceSpec => FundedTermsFixed
<1>1. ServiceInv /\ [ServiceNext]_allVars =>
        [\A j \in Escrowed \cup Parked : Terms(jobs'[j]) = Terms(jobs[j])]_vars
  BY ServiceSteps, CallsAndSignatures, TermsKept DEF ServiceInv
<1>. QED BY <1>1, ServiceInvariant, PTL DEF ServiceSpec, FundedTermsFixed

\* However a settlement races or is retried, the money of a job is divided once and
\* completely: service and contracts together implement EscrowPromise.
THEOREM ServiceDividesOnce == ServiceSpec => DividedOnce
<1>1. ServiceInit => Division!Init
  BY DivisionStarts DEF ServiceInit
<1>2. ServiceInv /\ ServiceInv' /\ [ServiceNext]_allVars => [Division!Next]_(Division!vars)
  BY ServiceSteps, CallsAndSignatures, StepRefines, IdleRefines DEF ServiceInv
<1>. QED BY <1>1, <1>2, ServiceInvariant, PTL DEF ServiceSpec, DividedOnce, Division!Spec

=============================================================================
