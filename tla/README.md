# Nibgate in TLA+

A model of the parts of Nibgate that hold or move other people's money. The
largest is Dr. Nib (`src/dr-nib/backend/src`): a research run takes a prepaid
budget, spends it stage by stage in background workers, is paused, raised,
revised and ended by its owner at any moment, survives crashes, and must finally
give back what it did not spend. An escrowed run holds its budget on chain, in a
job of the ERC-8183 core (`src/contracts`), and is settled there; a confidential
run does all of this with its state encrypted and its calls journalled. Around
it, the hub (`src/backend`) records payments once, holds tips for creators who
have not claimed them, and takes a fee that a timelock governs.

The modules say what the code does, TLC checks them on small instances, and
TLAPS proves their safety properties for every instance (section 4 says under which
hypotheses and what is only model-checked).

| file | what it is |
| --- | --- |
| `RunLedger` | the budget ledger (`money.js`): draw, raise, settle, and the balances |
| `RunLifecycle` | one ledger-only run: drivers, owner requests, recovery and settlement sweeps, crashes |
| `ResearchBudget` | the abstract promise made to the owner of a budget |
| `EscrowJob` | the two escrow contracts |
| `EscrowPromise` | the abstract promise about the money of a job |
| `EscrowSettlement` | the service over these contracts: register, approve, settle, retry |
| `PrivateMoney` | the money of a confidential run: escrow, model calls, purchases |
| `PrivateRun` | its execution: claims, leases, fences, the journal; extends `PrivateMoney` |
| `AgentSpend` | what the agent of a run pays out of its own wallet inside stages |
| `TipHolding` | tips held for a domain: box contract, claim and refund routes, keeper |
| `ProofClaims` | recording a payment once, for tips and unlocks |
| `FeePolicy` | fee wallets of the creators, their factory and the timelock |
| `Reputation` | on-chain ratings and the seeding of their totals |
| `Idempotency` | the Idempotency-Key middleware of Dr. Nib |
| `Sums` | the sum of a function over a finite set, the one operator all the ledgers add up with |
| `RunLifecycle_proofs`, `EscrowJob_proofs`, `EscrowSettlement_proofs`, `PrivateRun_proofs`, `TipHolding_proofs` | theorems about the module each is named after |
| `Hub_proofs` | theorems about `FeePolicy`, `Reputation` and the hub as a whole |
| `OnceOnly_proofs` | theorems about `ProofClaims`, `Idempotency` and `AgentSpend` |
| `Sums_proofs` | lemmas about `Total`, cited by the others |
| `MCRunLifecycle`, `MCEscrowJob`, `MCEscrowSettlement`, `MCPrivateRun`, `MCTipHolding`, `MCHub` and `*.cfg` | instances for TLC |
| `PROJECT.json` | components, runs, mutants, source map, findings, hazards, theorems |

## 1. The system

| component | state | operations | how it interacts | hard part | what makes it correct |
| --- | --- | --- | --- | --- | --- |
| run execution (`worker.js`) | `ResearchRun` row, `ResearchStep` rows with leases, `ResearchReport` rows | `runPlan`, `runExecute`, `stage`, `charge`, `park`, `halt` | takes jobs, charges the ledger, settles at the end | several drivers of one run, crashes at any await, late workers | one stage at a time, resume where it stopped, complete only when paid |
| ledger (`money.js`) | `BudgetLedger` rows, cap, `settledAt` | `draw`, `raiseCap`, `settle`, `budgetState` | called by all of the others under `withRunLock` | several callers settle and charge the same run | never overspent, one charge per stage, one refund |
| owner requests (`routes/runs.js`, `end-run.js`) | none of their own | intake, configure, approve, pause, resume, budget, revise, end, guidance, discuss | write the run row, enqueue jobs | read, check, then write without the lock | no request undoes another |
| queue (`queue.js`) | BullMQ jobs, or in-process ones | `enqueue` | feeds the drivers | duplicate and lost jobs | every running run is driven |
| recovery (`worker.js`, `server.js`) | none | `requeueOrphans`, `requeueStalledRuns`, `retryPendingSettlements` | timers over all runs | races with live drivers | nothing is stuck, nothing is done twice |
| escrow (`escrow/`, `AgenticCommerce.sol`, `NibgateRunSplitter.sol`) | job status, escrowed budget, `splitDone` | fund, submit, complete, split, reject, claimRefund | settles a run on chain | answers lost after the chain moved | client and operator get exactly the budget |
| planning (`intake.js`, `answer-flow.js`, configure) | plan, plan revision, deposit row | configure, `runPlan`, approve | before execution | re-configuration while a plan is made | the approved plan is the funded one |
| idempotency (`idempotency.js`) | `IdempotencyKey` rows | claim, replay, reclaim | in front of the money routes | slow handlers taken for dead | two executions under one key are a window apart |
| agent spend (`spend/`) | agent wallet, ledger | tip, unlock, pay x402 | inside a stage | paid outside, recorded inside | a replay pays again only what a lost worker or answer hid |
| JEV (`jev/`) | decisions on the run | decide, `parkForJev` | parks runs, bounds rounds | unreachable decision service | no round past the depth limit |
| confidential runs (`privacy/`) | attestations, grants, AI budget reservations | reserve, dispatch, finalize | separate pipeline | uncertain outcome of remote calls | reserved before dispatch, never over the monthly cap |
| hub tips (`backend/src/server/hub`, `TipHolding*.sol`) | tip rows, payment claims, holding boxes | challenge, verify, hold, release, refund | called by the agent and by browsers | ambiguous settlement | a payment is recorded once |
| fee wallets, timelock, reputation (`contracts/`) | balances, queued operations, rating sums | withdraw, schedule, execute, rate, seed | independent contracts | order of administrative calls | conservation, delay, sums match ratings |
| retrieval (`retrieval/`) | circuit per provider | allow, success, failure | inside stages | concurrent probes | a dead provider is not hammered |
| events, exports, LLM prompts, MCP, SDK, front ends, extension, sub-blogs, docs, operations | | | | formatting, I/O, user interface | not modelled |

Every component, with the reason when it is left out, is in `PROJECT.json`.

## 2. What is modelled

### RunLedger

`BudgetLedger` is append-only and every reader sums it by kind, so `ledger` is
the four sums and `charged` the number of spend rows per `txRef`. The unit is
the micro-USDC of the column (`numeric(18,6)`), `Fee` rounds like it. `Draw`,
`RaiseCap` and `Settle` are one step each because the code runs them in one
transaction under `withRunLock`, and `Draw` keeps the order of the code:
replayed `txRef`, nothing to charge, settled, balance, cap. The operator fee is
a memo (`fee`), never subtracted by `Balance`; `ListedBalance` is the formula
of the run list, which does subtract it.

### RunLifecycle

The variables are the run row (`status`, `pauseReason`, `version`), the step
rows (`steps`, in creation order), the versions with a report, the number of
queued jobs, and the position and locals of every process:

* **Drivers** (`pc`, `row`, `ver`, `round`, `idx`, `out`) are executions of
  `run.execute`. `executeRun` becomes `TakeJob` (work out the round to resume
  at), `RoundTop` (reload, halt if parked), then for each stage `SkipStage`,
  `BusyStage` or `ClaimStage` (the three ways out of the locked block of
  `stage()`), the stage function (`StageReturns`, `StageSkips`, `StageParks`,
  `StageThrows`, or `WriteReport` and `VerifyReport` for the write stage),
  `ChargeStage`, `ParkAtCap`, `FinishStage` or `FailStage` and `ParkFailed`,
  `AfterStage` (halt or go on), `ReloadForWrite`, `CompleteRun`,
  `SettleComplete`, and the `finally` of `runExecute` (`FinishTerminalRun`,
  `SettleTerminal`).
* **Owner requests** (`req`, `seen`) are the handlers. Each reads and checks
  the run in one step (`ReadResume`, ...) and writes it in another
  (`WriteRunning`, ...), because the code does both outside the run lock.
  `EndRun` is one step since `endRun` holds the lock.
* **Recovery sweeps** (`sweep`, `snap`) go through `requeueOrphans` and then
  `requeueStalledRuns`, one step per query or update, and **`retry`** is
  `retryPendingSettlements`.
* **Faults**: any process may stop between two steps (`CrashDriver`,
  `CrashRequest`, `CrashSweep`), a lease without a holder runs out
  (`ExpireLease`), a live worker may miss its heartbeats (`LoseLease`) and
  recover (`Heartbeat`).

Abstractions, all on the side of more behaviours or of unobservable merging:

* Time: no clock. A lease may expire as soon as nobody renews it; a running
  run may look quiet for two minutes at any moment, and does when nobody drives
  it and nobody queued it.
* What a stage finds is a choice: its cost out of `Costs`, the verdict of a
  review within `VerdictsAt`, and its failure out of `StageFaults`. Exceptions
  are modelled where they come from providers, inside the stage function.
* Two reads next to each other without a write that matters between them are
  one step: `loadRun` and `finishedRounds` at the start of a driver,
  the status read in `charge` and the parking after it (`park` rechecks it),
  the two calls of `finishTerminalRun` when a driver halts (idempotent).
* A step row keeps of its output what `executeRun` looks at on resume: did it
  park, was its charge accepted, the verdict. A review without follow-up
  queries always says "write", so the test of `queries.length` adds nothing.
* A lost worker's job may be redelivered (BullMQ) or not (in-process jobs).
  Queued duplicates beyond `MaxJobs` are not told apart.
* The run starts where approval finds it: planned, with the deposit booked at
  its first configuration (`Deposit`) and the cap configured last
  (`InitialCap`). The two differ when the owner configured twice.

### ResearchBudget

The promise to the owner and nothing else: money is held, each piece of work
is paid at most once and only out of what is held, and closing the budget
returns exactly what was not spent. `RunLifecycle` implements it with

    held <- ledger.deposit, paid <- charged txRefs, spent <- ledger.spend,
    returned <- ledger.refund, closed <- settledAt

and the same instance is checked by TLC (`RunBudget`) and proved by TLAPS
(`RunKeepsPromise`).

### EscrowJob

A transaction is atomic and changes nothing when it reverts, so every external
function of `AgenticCommerce.sol` and `NibgateRunSplitter.sol` is one action,
its requirements the guards. `balance` is one token for all accounts: the core
and the splitter each pool the money of all jobs, and a `Transfer` goes through
when the pool has enough, whoever's money it is. `Complete` moves the whole
budget to the provider; when that is the splitter the money is only parked
there until `Split` divides it. `SignSplit` is the one action off chain: the
keeper may sign any spend for a completed job, any number of times. `Expire` is
the clock. `paid` records what each party got of a job; no contract keeps it.
Hooks are left out: they are external code, and the service refuses a job that
has one. Signature checking is membership in `signed`: an attestation binds the
job, and the client that it also binds cannot change.

`EscrowPromise` says: a job is funded at most once, and what it holds is divided
once, completely, the fee at most a twentieth of what was earned. The mapping is

    held <- the budget while the job is Funded, Submitted, or Completed and
            waiting for its split; else 0
    shares <- paid

### EscrowSettlement

It extends `EscrowJob` and puts the service next to it. Of a run it keeps the
phase (planned, running, finished), the cap, the ledger sums and whether it is
settled; of `metadata.escrow` the job, the status, and whether `splitTx` and
`splitConfirmed` are set. "Finished" stands for a terminal status with no active
stage; how a run gets there is `RunLifecycle`'s subject.

* **Requests** (`request`): register reads the chain in `ReadRegister` and
  writes under its advisory lock in `WriteRegister`; approve checks run and
  chain in `ReadApprove`, then has four database statements, `WriteCap`,
  `ReadDeposits`, `WriteDeposit`, `SetRunning`, with anything in between.
* **Settlements** (`proc`): `Begin` is the read of the run whose metadata
  `WriteOutcome` writes back at the end. Between them, in the order of the code:
  `SettleLedger`, `CheckBinding`, `ReadStatus`, `SendSubmit`, `SendComplete`,
  `Sign`, `ReadSplitDone`, `SendSplit`. A transaction passes, reverts when its
  guards fail, or fails for some outside reason with or without having been
  mined. A failure before the split ends in `Abandon`; a failure of the split is
  recorded with the outcome. A process settles one run at a time, which is more
  than its in-flight set asks for; interleavings of runs come from other
  processes.
* **Others** (`ChainStep`): the client negotiates, funds, rejects, claims its
  refund or presents an attestation at any time.

### PrivateMoney and PrivateRun

One confidential run (`privacy/private-*.js`). `PrivateMoney` has the database
rows: receipts of the owner's actions, model calls, tool calls, the escrow
fields of the run. Whatever admits, prices or freezes a charge takes the
advisory lock of the ledger in the code, so each is one step: `Admit` (ledger
limit, monthly cap, the hold that fits), `RunTool` (reserve), `ReconcileTool`,
`Freeze` (the first transaction of `settleOnce`, which fixes the amounts the
splitter will pay), `RecordSplit`. The model provider, the sellers, Circle and
the chain answer in steps of their own, or not at all.

`PrivateRun` adds the workers. `Claim`, `Recover` and `TakeOver` are the ways
into an action; its work is a fixed sequence `Work` of operations of three
kinds, a model call, a local computation and a question to the owner. Each goes
through `Start` (journalled), its performance, and `SaveResult` (journalled), and
every write is fenced by the lease owner of the receipt (`Fenced`). `Interrupted`
and `Rejected` are the recoveries in which the operator covers a call whose fate
is unknown; every other uncertain operation is never performed again. `Die`,
`LeaseExpires` and the lost answers are the faults.

`Load`, `LoadEnd` and `LoadExport` read the run for an action before it is claimed.
An action "end" and an export (a request of the set `Exports`) have no journal and
go straight to their commit. An export changes nothing of the run but its revision,
makes no call, and its failure is not the run's; it is the one action that the fence
and `MayClaim` let through on a cancelled run, there beside whatever is still open
(`private-action-store.js:130`, `206`, `208`). A seller's sealed answer
(`Answers`) holds the content, or says that the content is unavailable because the
access that was paid for could not be redeemed.

Left out: encryption and attestation, the wake-up of workers, guest planning, and
what is computed, which includes whether there is a report to export
(`GiveUp` may refuse any export). The re-claim of an uncertain export
(`private-action-store.js:138-144`) is left out because no export becomes
uncertain: `uncertain` records one that made no call as failed (line 229), and an
export makes none. An export or an end whose worker died stays processing; nobody
recovers it, in the code or in the model.

### AgentSpend

A run buys paid sources in its data stages and tips creators in the last one,
from the agent's own wallet; the run's ledger is charged once per stage, for the
sum, afterwards. `Propose`, `CheckCall`, `PayCall`, `CallReturns` and `CallFails`
are one turn of `runToolAgent` with `runTool`: `Refused` has the ceiling, the
balance of the run, and the url that a *finished* data stage bought. `EndLoop`
stands for all its stop rules. `ChargeCalls` is `charge`, keyed by the stage;
`SaveCalls` writes the calls to the row of the stage, the only place where the
next loop finds them. Between payment and row a worker may die (`AgentDies`) or
be taken for dead (`ReclaimRow`). The states of the rows that matter here are
fewer than in `RunLifecycle`, which has the claim of a stage in detail. One version
of the run is modelled: a run revised from a pause in its tips stage runs that stage
again as a new version, and may pay a tip a second time without any fault, so
`PurchasesAddUp` says nothing across a revision.

### TipHolding

One domain: the box contract (`LandRelease`, `LandRefund`; a transaction lands,
reverts or stays out at any time after its broadcast), the Gateway ledger of the
box (`credit`), the tip rows, the one `TipDomainOperation` row that locks the
domain, and the `TipRefundAuthorization` rows that make a signed refund message
good for one refund. A claim or a refund goes through `CheckAuthorization`
(refunds), `Reserve`, its snapshot (`SnapshotClaim`, `SnapshotRefund` with the
plan of `RefundPlan`), `CollectCredit`, `Broadcast`, `Confirm` and the final
transaction (`FinalizeClaim`, `FinalizeRefund`), one step between any two
awaits at which another request, the keeper's sweep or the chain may come in.
`BroadcastLost` is an answer that never came back though the transaction may
have gone out; `Abandon` any other failure; `Recoverable` the one case in which
a later refund takes over a failed one. Rows keep amounts as numbers of units.

### ProofClaims

`claim` is the table `PaymentTxClaim`, keyed by the proof of payment. A request
that records a tip goes through `readExisting`, the checks, the reservation
(`ReserveClaim`, whose unique key decides between concurrent requests), the
settlement of a Gateway envelope, and one transaction for tip and claim
(`CommitTip`, or `RollBackTip`). An unlock claims a mined transfer for one content
(`UnlockServed`). `CrashHub` and an ambiguous settlement leave the reservation
pending for ever, as the code intends.

### FeePolicy, Reputation, Idempotency

`FeePolicy`: `Schedule`, `Execute` and `Cancel` of the timelock, for the only calls
it has power for; a call to a wallet that is not deployed yet succeeds and does
nothing. `Distribute` rounds as the contract does; `Deploy` and `Receive` come in
any order. `Reputation`: `RateContent`, and `SeedRatings` over a list that
`ListRaters` read earlier, for one content with ratings from before the upgrade.
`Idempotency`: one key; every database call of the middleware is a step that may
fail, the update with the answer is not awaited, and time passes in between.

## 3. What is checked

### Runs that pass

| run | instance | properties | shows |
| --- | --- | --- | --- |
| `RunCrash` | 2 drivers, 1 request (approve, pause, resume, end), 1 crash, stages of 200 against 500; 550k states | `DoneOnce`, `CompleteIsPaid`, `RefundAfterDrain` | a crash or a duplicate driver redoes at most the stage in flight, nothing is delivered unpaid, and an ended run is refunded after the stage in flight |
| `RunStall` | 2 drivers, 1 request (approve, end), 1 lost lease, 2 queued jobs; 523k | `OneActiveStep`, `ChargedOnce` | a worker that outlives its lease neither runs in parallel with its successor's row nor bills twice |
| `RunBudget` | 1 driver, 2 requests (approve, raise, resume, end), costs 100 and 150 against a deposit of 300 and a cap of 200, raised to 400; 562k | `Solvent`, `BudgetPromise` | cap and balance races keep the promise of `ResearchBudget` and overspend nothing |
| `RunFaults` | 1 driver, 1 request (approve, revise), 2 rounds of data and review, 2 versions, stages throw, park or skip; 386k | `UnfinishedIsFree`, `RoundsInOrder` | unfinished stages are free, rounds follow each other up to the limit, also in the revision of a run that parked |
| `RunLive` | 1 driver, 1 request (approve, pause, end), 1 crash, fair; 29k | `EventuallySettled`, `RunsMove` | nothing stays unsettled or running for ever |
| `EscrowContracts` | 2 wallets, 2 jobs, any of them, the keeper, the splitter or nobody as provider and evaluator, budgets 100 and 250, attested spends 130 and 300, fair; 170k | `FundsHeld`, `DividedOnce`, `FundedTermsFixed`, `RefundReachable`, `AttestedIsSplit` | the pooled money is always exactly that of the jobs that still have to be paid, however they end; expiry frees it and attested splits happen without keeper, provider or evaluator |
| `EscrowRace` | 2 runs, 1 job, 2 requests, 2 processes, 1 failure; 1.2M | `AttestationFits`, `OneAttestation`, `SplitPaysSpend`, `OneRunPerJob` | stale approvals of a run that was ended and settled cannot change what the keeper attests, and a job stays with one run |
| `EscrowLiveness` | 1 run, 1 job, 2 requests, 2 processes, 1 failure, any parties, no charges, fair; 342k | `EscrowReleased`, `SplitRecorded` | the sweep finishes what any failure left half done, unless an approve that read the run before its end sets it running again (`Reopened`) |
| `HubMoney` | one of `TipHolding`, `ProofClaims`, `FeePolicy`, `Reputation`, `Idempotency` and `AgentSpend` per behaviour, sizes below; 603k | `HubTypeOK`, `NoTipPaidTwice`, `LedgersAgree`, `OneRefundPerMessage`, `SettledOnce`, `ProofBuysOnce`, `PurchasesAddUp`, `FeeMoveNoticed`, `SeededStatsMirror`, `ExecutionsApart` | money around the hub is paid, refunded, settled and recorded once over lost answers, repeated proofs and requests, and replayed stages; fees change only after their delay |
| `PrivateResearch` | 2 actions and an export of 2 workers; a model call, a question to the owner and a local step; deposit 3, cap 5, monthly cap 3, 1 fault; 1.0M | `PrivateTypeOK`, `OneOpenAction`, `LocalOnce`, `SpendWithinLimits`, `FrozenChargesFixed`, `PaidOnce`, `PaidIsAnswered`, `ResultsStay` | an action lost at any point is taken up again without a second local step or purchase, what is charged was confirmed and answered, only the export of a cancelled run is open beside an action, and the charges that a settlement froze never move |

A type invariant of a module is a theorem; two of them, `PrivateTypeOK` and the
conjunction `HubTypeOK`, are also properties of a run. `SettledInFull`, `FrozenAfterSettle`,
`OneTipPerProof`, `OnePurchasePerTransfer`, `AnswersHaveRows`, `ClaimKeepsWallet`
and `TreasuryWithinCap` were checked by TLC before they were proved, and are now
left to their theorems (section 4).

Every property has a mutant of the code in `PROJECT.json` (a dropped guard, a
swapped argument, a missing requeue) with which its run fails.

### Bounds

A round is reduced to `review` (or `data`, `review`): all stages go through the
same `stage()`, and only `review` decides anything. With `write`, `verify` and
`tips` a full pass has three rows and four charges, so five rows leave room for
one stage redone after a crash, or two. `RunFaults` has fourteen rows for two
rounds and repeated parking. `MaxRounds = 0` still has one round; only
`RunFaults` and the proofs need more. One crash is enough for each pair of steps
to be separated by one; two drivers are what it takes to compete for a stage,
and two requests to interleave two handlers. `MaxJobs` 1 or 2 is enough to have
a duplicate job waiting behind a driver. Drivers and requests are symmetric in
the safety runs; the liveness run uses no symmetry.

Two jobs are what it takes to pay one with the money of another. The two
budgets and the attested 130 and 300 give a spend within one budget but not the
other, and one above both; wallets start with 300, so that funding may also
fail. In `EscrowSettlement` a job of 200 against an estimate of 100, a
configured cap of 500 and stages of 130 make deposit, cap and spend all
different. One failure is enough to leave an approval or a settlement half done;
its repetition meets another process's. `EscrowLiveness` has two requests, so that
an approve may straddle the end of its run, and no stages, whose sums are the
matter of `EscrowRace`; with `Costs = {130}` it passes as well (538k states, close
to the time one run should take).

`HubMoney` has no state shared between its six components, so a behaviour
exercises one of them while the others stay put; the instance is the sum of the
six and not their product. They are: three tips of two payers, one of them
through the Gateway, two claims by different wallets, and three refund requests
over two signed messages (one partial and presented twice, one legacy), with one
fault; one envelope and one transfer, two tip and two unlock requests, two
bindings and two contents; one creator, fees of 20, 30 and 60 % against a cap of
50, a delay of 2 and a grace period of 1 in 5 units of time; three raters, two of
them from before the upgrade, scores 1, 2 and 5 and four ratings; three requests
with one key, a window of 2 in 4 ticks, and one fault; two workers, two data
stages and the tips, one url that is offered both as an unlock and as an x402
resource, prices 1 and 2 against a balance of 2, and one fault. Two of each actor
make a race, the third refund meets a message that is already used, and amounts
are the smallest at which parts, rounding and refusals differ.

`PrivateResearch` has a call that may be refused, limited, unanswered or late, a
step that must not be repeated, and a purchase; a deposit of 3 is below the cap
of 5 and equals the monthly cap, so that each limit binds in some behaviour.
Three requests are what it takes to have one open, an export let in beside it, and one
that must not be. Two constraints bound the run. `ExportsEarly`: an export comes during
the first operation of an action, before any model call, while nothing is split and
without the fallback model; so its state space is added to that of the two actions and
does not multiply it. What comes later differs in purchases and results, which an export
neither reads nor writes. `LoadsEarly`: two workers race from the same loaded state to the
claim only before the first model call, and after it no state is held loaded in a
cancelled run, where the claim would be refused. The proofs have neither bound.

Deadlock checking is off:
a run that is settled, or paused by an owner who never comes back, has nothing
left to do.

### Fairness

`FairSpec` assumes that worker processes keep running (`TakeJob`, `Drive`: a
live process that awaits its database gets on), that handlers which have begun
end (`Answer`), that the timers of `startRecoverySweep` and `retrySettlements`
keep firing (`Recover`, `FindUnsettled`, `RetrySettlement`: `setInterval` in
every server process), that leases nobody renews run out (`ExpireLease`: the
clock), and that planned runs get approved (so that there is something to
check). It is weak fairness throughout. It does not assume that an owner ever
resumes, raises or ends, nor that crashes stop early: `MaxCrashes` bounds them.

`EscrowJob`'s `FairSpec` assumes that deadlines pass and that some wallet makes
the calls anyone may make and somebody gains from, `claimRefund` and `split`;
nothing of keeper, provider or evaluator. `FairServiceSpec` assumes that a live
settlement gets on, that the sweep settles the runs its filter finds
(`Pending`), and that the client of an overdue job asks for its refund. The last
one is needed: `submit` reverts on an overdue job, the sweep retries it for
ever, and only `claimRefund`, which the service never calls, gets the money out.
Without a passed deadline nobody but the service need act.

`HoldLiveSpec` (for `FindReclaim`) lets payers repeat their requests, broadcast
transactions land, batches settle and the keeper's timer fire, all weakly fair,
and has no fault: what stays unclaimed under it stays so for no outside reason.

### Where the code departs from what it says

Two runs check one sentence of the repository each and find a trace.

| run | sentence | what happens |
| --- | --- | --- |
| `FindReplay` | `worker.js:946` "a crash, a pause, or a closed tab loses at most the round in flight" | a crash between the report row and the checkpoint: the replayed write stage hits the unique key of reports and fails the run |
| `FindReclaim` | `tipping/NON-NIBGATE-CREATORS.md:57` "The payer can reclaim unclaimed tips in full (no fee) any time before release" | a Gateway tip whose credit the keeper's sweep already moved into the box: the refund looks for a credit, finds none, and answers "pending-settlement" whenever it is asked (`HoldLiveSpec`: requests are retried, transactions land, batches settle, the keeper sweeps, no fault) |

Eleven more sentences fail in the same way. Their properties are stated at the end
of the modules, where naming one in a configuration shows its trace; the
instances above suffice, some with one request more.

| property | sentence | what happens |
| --- | --- | --- |
| `SettledRunsDoNotExecute` | `money.js:67` "execution must also check the live ledger balance and refuse settled runs" | resume reads the run, pause and end go through and refund, resume writes `running`: the stages of a settled run execute (their charges are refused) |
| `RevisionsAreRewritten` | `routes/runs.js:538` "The version bump means every stage re-executes" | a driver past its last check completes the run that pause and revise just moved to the next version |
| `RaisedRunsGoOn` | `routes/runs.js:484` "If the run was parked at the cap, this is what lets it go on." | the refused charge is part of the stored output of a finished stage, so the resumed run halts on it again, for ever |
| `DepositTrailsChain` | `routes/runs.js:315` "the ledger trails the chain. Idempotent top-up (re-approvals, re-funds)." | two approvals read the deposit rows before either writes: the deposit is booked twice, and the ledger refunds more than the client paid |
| `ListShowsBalance` | `money.js:17` "reported, never subtracted from the client's balance" | the run list subtracts the fee |
| `SplitTxKept` | `ESCROW.md:173` relaying the split "records `splitTx` in run metadata" | of two processes settling one run the slower writes back the metadata it read first, without the `splitTx` of the faster |
| `BalanceTrailsMoney` | `routes/runs.js:287` "so the offchain balance always trails real money" | the deadline passes while the run is approved or running, the client is refunded on chain, and the run still spends its ledger balance |
| `RetriedAutomatically` (with `FairServiceSpec`) | `routes/runs.js:671` "Funds remain in escrow and will retry automatically." | a run ended before approval has metadata status `Open`; when its settlement fails, the sweep, which looks for `Funded`, `Submitted` and `Completed`, never retries it, though the job is funded |
| `ChargedForContent` | `private-external-tools.js:35` "A settled purchase with a lost response must not trap the project or charge the owner for missing content" | the paid answer arrives and grants access that cannot be redeemed (`private-external-executor.js:97-113`): what is sealed has no sources and says so, and the whole price is committed (line 107, or 46 after Circle's confirmation). Only a response lost as a whole is covered, as `PaidIsAnswered` has it |
| `EndReturnsMoney` (with `FairServiceSpec`, 2 requests, no failure) | `FLOW.md:539` "End — stop, return the money, and on escrowed runs complete the onchain job" | approve reads the planned run, the run is ended and its ledger settled, then approve sets it running (`routes/runs.js:317-341`): the sweep no longer selects the run, a settlement skips it (`escrow/settle.js:51`), and the money stays in the job until the run is finished or ended again |
| `NoOvershoot` | `spend/unlocks.js:8` "The run balance must cover that exact price (no cap-overshoot window)" | calls of one loop are all checked against the balance before the stage is charged: two calls that fit alone are paid, and together exceed it |

Other behaviour met while modelling that a reader of the code should know:

* a driver between two stages of a round notices neither pause nor revision when
  both come before its next check: it reloads the run at the head of the next
  round only, keeps its round number (`worker.js:1096-1100`), and runs the second
  version from that round on without the ones before it (`RoundsInOrder` with
  `OwnerOps = {"approve", "pause", "revise"}` in `RunFaults.cfg`);
* a confidential run that ends or fails after its job was funded but before the
  deposit was recorded freezes its settlement with nothing held, which the job
  never matches (`private-funding.js:80`; the check at line 90 is for
  cancellations only, as is `PROTOCOL.md:357`);
* a worker that has been fenced out can still have one call admitted before its
  next save fails (`private-model-pool.js:27` against `PROTOCOL.md:799`);
* in `stage()` the event of a finished step is written after its checkpoint and inside
  the same `try` (`worker.js:168-184`): when that write fails, the `catch` turns the
  done row into a failed one and parks the run. The modules have no failing event
  writes, and a done row stays done in them (`DoneStays`);
* a crash between the journalled start of a model call and its reservation, or
  between the persisted question and its commit, leaves an action that can only
  be cancelled;
* in `NibgateReputationV2.sol:85-91` a change of an old rating before any seeding
  marks the content seeded with partial totals (`StatsMirrorRatings` holds only
  from the next complete seeding on, as `SeededStatsMirror` says);
* `Timelock.sol:75`: an operation executed before its wallet is deployed is used
  up without effect;
* a domain stays locked for claims while a tip that is on chain is missing from
  the rows at its release: the amounts disagree, and the operation waits for a
  person.

The comment of `BudgetLedger` in `schema.prisma:188` ("Ordinary balance
subtracts fees separately") sides with the run list against `money.js`.

## 4. What is proved

`RunLifecycle_proofs.tla`, for any sets of drivers, requests, sweeps and rows,
any pipeline that ends in a review, any costs, caps and deposits, and any bounds
on rounds, versions, crashes, stalls and jobs:

| theorem | statement |
| --- | --- |
| `InductiveInvariant` | `Spec => []IInv` |
| `TypeCorrect` | `Spec => []TypeOK` |
| `OneStageInFlight` | `Spec => []OneActiveStep` |
| `BilledOnce` | `Spec => []ChargedOnce` |
| `NeverOverspent` | `Spec => []Solvent` |
| `RefundedInFull` | `Spec => []SettledInFull` |
| `SettlementIsFinal` | `Spec => FrozenAfterSettle` |
| `RunKeepsPromise` | `Spec => BudgetPromise`: the run implements `ResearchBudget` |
| `StagesDoneOnce` | `Spec => [](stalls = 0 => DoneOnce)` |
| `RefundsWait` | `Spec /\ [](stalls = 0) => RefundAfterDrain` |
| `UnfinishedStagesAreFree` | `Spec => [](stalls = 0 /\ crashes = 0 => UnfinishedIsFree)` |
| `RoundsFollow` | `Spec => [](version = 1 => RoundsInOrder)` |
| `CompletedIsPaid` | `Spec => [](stalls = 0 /\ version = 1 => CompleteIsPaid)` |

**Assumptions.** The named ones of `RunLifecycle`: `Refs` are the txRefs of the
stages; rows have positive numbers; the last stage of a round is `review` and
round stages are not called `write`, `verify` or `tips`; the bounds are natural
numbers and at most 998 follow-up rounds are allowed, since `roundAttempt`
packs version and round as `version * 1000 + round`; amounts are natural
numbers of micro-USDC. The depths of the code allow far fewer rounds.

**The ledger.** `NextTakesLedgerStep` shows that a step of the whole system is,
on the ledger, a draw, a guarded raise, a settlement or nothing
(`LedgerStep`). `LedgerStepKeeps` shows that these four preserve `LedgerInv`:
solvency, one charge per txRef, nothing owed after settlement, and the
strengthening that there is no refund before settlement, without which a
second settlement could refund twice. `LedgerStepRefines` maps the same four to
the steps of `ResearchBudget`. The rest of the system appears in these proofs
only through `LedgerStep`.

**The drivers.** `TypeOK` is not inductive. That a driver never works on a
round past the limit depends on the verdict it last got, which may come from
its own stage or from a row stored by another driver, perhaps one that lost its
lease. `IInv` adds what is needed:

* `DriversHoldRows`: the row a driver holds is the row of its own stage;
* `ReviewsStop`: a driver whose last round was reviewed has the verdict "write";
* `LastReviews`: so does every stored review of the last round;
* `RevisionsFit`: a revision in flight writes a version within the bound;
* `OneActiveStep`, which is inductive by itself since `ClaimStage` checks it.

**Until a fault or a revision.** The last five theorems have a hypothesis, without
which TLC finds the code to break the property. A worker that outlives its lease
checkpoints its stage beside the one that redid it, perhaps with another verdict,
and is not counted by a refund (`stalls = 0`: no live worker has lost its lease
*so far*; of what comes after, those theorems say nothing). A crash between a
charge and its checkpoint leaves a billed stage unfinished (`crashes = 0`). A
revision may meet a driver between two stages, which then goes on under the new
version at its old round (`version = 1`, see section 3). Crashes, redelivered jobs, sweeps and all
owner requests are otherwise allowed. The invariants build on one another:

* `RowsApart`, lost leases or not: no two drivers hold the same row, and what a
  driver holds has not finished. So a done row stays done, and a stage that was
  finished, once or more often, has a latest row.
* `LeasesKept`: only one driver holds a row, the row is active and its lease has
  not run out, so that the sweep takes rows of dead drivers only;
  an active stage has not finished before. `DoneOnce` and `RefundAfterDrain`
  follow.
* `ChargesKept`: what was charged is checkpointed, or its driver is about to
  (`ChargesCheckpointed`); a stage that parks was not charged.
* `OrderInv`: what a driver goes on from after a stage is stored in a done row
  (`AfterStored`), where by `RowsApart` it stays; hence a driver is in
  round `n` only when rounds `0..n-1` have a stored review that says "continue"
  (`DriversInOrder`), and so is every row it claims (`RowsInOrder`). With
  `LastReviews` there is no round past the limit.
* `DeliveryInv`: a driver writes only over a stored review that says "write", tips
  only over a paid report, and completes only over paid tips. That this review is
  of the *last* reviewed round is `ReadyIsLast`: a later round would need a review
  of the same round that says "continue", and a stage is done once.

**The escrow.** `EscrowJob_proofs.tla`, for any sets of wallets and jobs, any
providers and evaluators, amounts, spends and any fee up to `MAX_FEE_BPS`:

| theorem | statement |
| --- | --- |
| `InductiveInvariant` | `Spec => []IInv` |
| `EscrowTypes` | `Spec => []TypeOK` |
| `TermsAreFixed` | `Spec => FundedTermsFixed` |
| `EscrowDividesOnce` | `Spec => DividedOnce`: the contracts implement `EscrowPromise` |
| `PoolsAreBacked` | `Spec => []FundsHeld`: core and splitter hold exactly what they owe |

The assumptions are those of `EscrowJob`: the two contracts are neither each
other nor a wallet, and amounts are natural numbers. `NextMovesOneJob` reduces a
step of the contracts to one of five moves of one job: its terms are reworded
while it is Open, it is funded, advances without money leaving, is paid out, or
is dropped. `MovedKeepsMoney` shows that these keep the strengthening in
`IInv`: a job has been paid nothing until it is over, and the shares of a split job
are its whole budget, so that nothing is left to divide; `FeeFits` bounds the
rounded fee. `MovedRefines` maps the moves to steps of `EscrowPromise`. For `PoolsAreBacked` the invariant `FundsInv` adds
`OutsideCore`, that no job names the core as its provider, so that a payout leaves
the core; a move takes one job's budget from one sum to another (`Sums_proofs`).

**Sums.** The library's induction theorems take an operator, which no installed
prover can instantiate. `Sums_proofs.tla` gets induction from a set instead: the
subsets of the summed set of which a statement fails, if there are any, have a
least one (`LeastSubset`). From that follow that `Total(f, S)`, the
sum of `f` over a finite set, exists and is unique, and its laws: `TotalAdd`,
`TotalRemove`, `TotalPlus`, `TotalSplit` and the bounds. The proofs of the pools,
charges, tips, ratings and purchases below cite these laws and nothing else about
sums.

**The service.** `EscrowSettlement_proofs.tla`, for any runs, jobs, processes and
requests, any costs, caps and failures:

| theorem | statement |
| --- | --- |
| `ServiceInvariant`, `ServiceTypes` | the inductive invariant; `ServiceSpec => []ServiceTypeOK` |
| `JobsAreNotShared` | `ServiceSpec => []OneRunPerJob` |
| `AttestationsFit` | `ServiceSpec => []AttestationFits` |
| `AttestedOnce` | `ServiceSpec => []OneAttestation` |
| `SplitsPayTheSpend` | `ServiceSpec => []SplitPaysSpend` |
| `ServiceUsesContracts` | `ServiceSpec => Contracts!Spec` |
| `ServiceKeepsPools` | `ServiceSpec => []FundsHeld` |
| `ServiceKeepsTerms` | `ServiceSpec => FundedTermsFixed` |
| `ServiceDividesOnce` | `ServiceSpec => DividedOnce` |

The argument: a run that charged anything was approved, so that its cap is the
budget of its job, which no transaction can change any more (`RunInv`); a stale
approval can only write that same amount again (`ReqInv`); a settled run charges
no more, so every process past the ledger step attests the same spend
(`ProcInv`, `SignedInv`), and what a split pays is that spend (`SplitMoney`): operator
and treasury get it, and since the shares of a split job are its budget, the client
gets the rest. The contracts enter through two lemmas, `NextKeepsJob` (a step of
anybody keeps the terms of a funded job) and `SplitPaysAttested`.

The last four carry the contracts' own theorems over to contracts driven by the
service. `EscrowJob` lets the keeper sign any amount of a set `Spends`, while the
service signs what the ledger says; `Contracts` is therefore `EscrowJob` with
`Spends <- Nat`, which asks nothing of the ledger. `ServiceSteps` goes through every
action of the service: it makes a call the contracts allow (`CallAllowed`), signs a
natural number (`SignatureAllowed`), or changes nothing the contracts keep. What holds
of the contracts in every environment then holds beside this service, its failures
and races included.

**Confidential runs.** `PrivateRun_proofs.tla`, for any requests, workers,
questions, exports, work, prices and caps:

| theorem | statement |
| --- | --- |
| `ActionsApart` | `PrivateSpec => []OneOpenAction` |
| `SellerPaidOnce` | `PrivateSpec => []PaidOnce` |
| `AnsweredWhenPaid` | `PrivateSpec => []PaidIsAnswered` |
| `PrivateTypes` | `PrivateSpec => []PrivateTypeOK` |
| `SpendFits` | `PrivateSpec => []SpendWithinLimits` |
| `FrozenIsFixed` | `PrivateSpec => FrozenChargesFixed` |
| `PerformedOnce` | `PrivateSpec => []LocalOnce` |
| `ResultsAreKept` | `PrivateSpec => ResultsStay` |

* Purchases: one that may still be paid is reserved and has no transfer
  (`PurchaseFacts`), and a charged one was confirmed and answered, though not always
  with its content (`ChargedForContent` fails, section 3). An action that is no export
  opens only when none is open, and until the run is cancelled so does an export
  (`OneOpen`); what is open beside an action after that is exports only.
* Charges (`ChargesInvariant`): what is charged is within what was held
  (`HoldsStand`, `Within`), so that the check against deposit and month, made when
  the hold is taken, still bounds it when the answer comes; a settlement that
  waited for the open actions (`WaitedFor`) freezes a sum nothing adds to
  (`FrozenStands`).
* The journal (`JournalInvariant`): one worker at a time owns the run's journalled
  action (an export has no journal, so it may be open beside it) and saves the
  journal from what it loaded and did itself (`OwnersHaveIt`, `LoadedFresh`); a
  local operation that was started belongs to the owner (`LocalOwned`) and its
  result is saved before the next starts (`PerformedSaved`); entries of a fenced
  worker are refused, so what was saved stays (`JournalIsOld`).

**Agent spend.** `AgentPaymentsAddUp` (`[]PurchasesAddUp`), for any calls, prices,
stages and replays: a call is paid once, and again only after a fault (`BillsSent`
says which payments the owner is billed for). `SpendTypes` is its type invariant.

**The hub.** `TipHolding_proofs.tla`, for any tips, payers, amounts and requests:

| theorem | statement |
| --- | --- |
| `RefundsOnce`, `WalletStaysPinned` | `[]OneRefundPerMessage`, `ClaimKeepsWallet` |
| `HoldTypes` | `[]HoldTypeOK` |
| `TipsPaidOnce` | `[]NoTipPaidTwice` |
| `LedgersStayInStep` | `[]LedgersAgree` |

`Hub_proofs.tla` joins the six components that `MCHub` runs side by side:
`HubIsItsParts` says that a behaviour of the hub is, of each component, a behaviour of
that component, so that its theorems hold of the whole, and `HubTypes`
(`HubSpec => []HubTypeOK`) follows from the types of boxes, ratings and spend.

The row of a message stands as long as some request can still spend it or has
(`OneSpender`, `FreeUnused`). That argument does not use the operation row, so it
covers every abandoned and taken-over request. `MoneyInvariant` is about the money:
the tips that may still be paid out, the credit and the balance of a box differ by
at most the one transaction that landed and whose operation is not final yet
(`Books`). For any proofs and requests `ProofTipsOnce`, `EnvelopeSettledOnce`,
`TransferBuysOnce`, `PaidProofBuysOnce` and `AnswersAreTrue`: the claim row tells
which tips and settlements exist (`RowTells`), and between reservation and
transaction it belongs to one request (`Owns`, `OneOwner`).

**The small ones.** `KeyExecutesApart` (`[]ExecutionsApart`): two executions under
one key claimed it at least a window apart; the row is always the latest claim
(`Latest`), and a stale row that a request goes to remove was seen a window ago
(`SeenIsOld`). `TreasuryStaysWithinCap` and `FeesMoveWithNotice`
(`FeeMoveNoticed`): an operation is ready a delay after its last announcement
(`Announced`), and each share of the treasury is bounded by the cap whatever the
fee was at the time. `TotalsMirrorRatings` (`[]SeededStatsMirror`) and
`RatingTypes`: once a seeding is complete, each rating moves the totals by what it
changes in the stored ratings.

**Only model-checked.** The liveness properties, under their fairness:
`EventuallySettled`, `RunsMove`, `RefundReachable`, `AttestedIsSplit`,
`EscrowReleased` and `SplitRecorded`. Every other property of a passing run is
proved above; the five of `RunLifecycle` named there under their hypotheses, which
the runs have as bounds (`MaxStalls`, `MaxCrashes`, the owner's requests).

## 5. What is left out, and the plan

Not modelled, with the reason:

* planning and intake of a run (configure, `runPlan`, re-configuration) and the
  read-modify-write of the `metadata` and `brief` columns by guidance, discussion
  and settlement. Met while reading: a configuration written while a planner is
  in flight lets the plan of the old brief land (`worker.js:1041-1076`);
* what a stage finds: providers, models, prompts, JEV's answers. They are
  choices wherever a modelled step depends on them;
* of the agent: free tools, ratings, plans and the single stop rules of its loop;
* of escrow: hooks, deployments without escrow or operator, and the order in
  which the sweep takes its batch; of confidential runs: encryption, attestation
  and guests; of the holding boxes: `TipHoldingWalletV2`, which no route calls;
* the retrieval circuit breaker, the event log, exports, the MCP server, the
  index and monitors of the hub, the SDK's request building, the JEV package:
  CRUD, network I/O or pure formatting, with little state of their own;
* front ends, the browser extension, sub-blogs, documentation and operations,
  which are most of the repository's lines.

What would add most next, in order: `RunPlanning`, joined to `RunLifecycle` at the
planned state; `RunMetadata` for the lost updates of the two columns;
`CircuitBreaker` (concurrent half-open probes); and a composition of `AgentSpend`
with the stage rows of `RunLifecycle`.
