---------------------------- MODULE RunLifecycle ----------------------------
(***************************************************************************)
(* One ledger-only Dr. Nib run, from its approval to its settlement         *)
(* (dr-nib/backend/src: worker.js, routes/runs.js, end-run.js, queue.js,    *)
(* escrow/settle.js), over the ledger of RunLedger.                         *)
(*                                                                          *)
(* Processes: drivers executing `run.execute` jobs (executeRun), owner      *)
(* requests (the handlers of routes/runs.js), recovery sweeps (orphaned     *)
(* steps, then stalled runs) and the settlement retry sweep.  They share    *)
(* the run row, the step rows, the ledger and the job queue.  A step is     *)
(* one database transaction: a handler that reads the run, then writes it   *)
(* outside the run lock, takes two.  Processes crash between any two steps. *)
(*                                                                          *)
(* Time is abstracted: a lease may expire whenever its holder is dead (or,  *)
(* within MaxStalls, has missed its heartbeats), and a running run may look *)
(* quiet to the stalled-run sweep at any moment.                            *)
(***************************************************************************)
EXTENDS RunLedger, Sequences, FiniteSets

CONSTANTS
    Workers,               \* driver slots across the worker processes
    Requests,              \* owner requests in flight at once
    Sweepers,              \* processes running the recovery sweep
    Rows,                  \* ids of ResearchStep rows, in creation order
    RoundKinds,            \* the stages of one round; the last is "review"
    MaxRounds,             \* depthLimits().rounds: follow-up rounds allowed
    MaxVersion,            \* bound on the number of revisions
    Deposit, InitialCap,   \* the deposit and the cap of the approved run
    Caps,                  \* the caps a raise may ask for
    Estimate,              \* plan.estimate
    Costs,                 \* the metered costs a stage may report
    OwnerOps,              \* the owner operations of this instance
    StageFaults,           \* how a stage may go wrong: "throw", "jev", "skip"
    MaxCrashes,            \* bound on process crashes
    MaxStalls,             \* bound on leases lost by live workers
    MaxJobs                \* bound on queued duplicates of the run's job

SideKinds == {"write", "verify", "tips"}
KindsOfRound == {RoundKinds[i] : i \in DOMAIN RoundKinds}
Versions == 1..MaxVersion

\* roundAttempt(): attempts of the round stages of one version.
roundAttempt(version, round) == version * 1000 + round

\* The txRef of a stage's charge is `stage:<kind>:<attempt>`.
StageRefs ==
    (KindsOfRound \X {roundAttempt(v, r) : v \in Versions, r \in 0..MaxRounds + 1})
        \cup (SideKinds \X Versions)

ASSUME RefsAssumption == Refs = StageRefs
ASSUME RowsAssumption == Rows \subseteq Nat \ {0}
ASSUME PipelineAssumption ==
    /\ RoundKinds \in Seq(STRING) /\ Len(RoundKinds) > 0
    /\ RoundKinds[Len(RoundKinds)] = "review"
    /\ KindsOfRound \cap SideKinds = {}
ASSUME BoundsAssumption ==
    /\ MaxRounds \in 0..998 /\ MaxVersion \in Nat \ {0}
    /\ MaxCrashes \in Nat /\ MaxStalls \in Nat /\ MaxJobs \in Nat \ {0}
ASSUME MoneyAssumption ==
    /\ Deposit \in Nat /\ InitialCap \in Nat /\ Caps \subseteq Nat /\ Costs \subseteq Nat
    /\ Estimate \in Nat

VARIABLES
    status, pauseReason, version,     \* the ResearchRun row
    steps,                 \* ResearchStep rows by id
    reports,               \* versions that have a ResearchReport row
    jobs,                  \* queued `run.execute` jobs
    pc, row, ver, round, idx, out,    \* drivers: where, and executeRun's locals
    req, seen,             \* owner requests: where, and the version they read
    sweep, snap,           \* recovery sweeps: where, and the status they read
    retry,                 \* the settlement retry sweep
    crashes, stalls        \* faults so far

runVars == <<status, pauseReason, version>>
driverVars == <<pc, row, ver, round, idx, out>>
requestVars == <<req, seen>>
sweepVars == <<sweep, snap, retry>>
faultVars == <<crashes, stalls>>
vars == <<ledgerVars, runVars, steps, reports, jobs, driverVars, requestVars,
          sweepVars, faultVars>>

-----------------------------------------------------------------------------
(* Types *)

Statuses == {"planned", "running", "paused", "ended", "complete", "failed"}
PARKED == {"paused", "ended", "failed", "complete"}
Terminal == {"ended", "complete", "failed"}
REQUEUEABLE == {"running"}
Verdicts == {"none", "continue", "write"}

\* What a stage returned: did it park, did its charge fit, the review verdict.
Outcomes == [parked : BOOLEAN, budgetOk : BOOLEAN, verdict : Verdicts]
NoOutcome == [parked |-> FALSE, budgetOk |-> TRUE, verdict |-> "none"]

StepRows == [status : {"none", "active", "pending", "done", "failed"},
             ref : Refs, expired : BOOLEAN, output : Outcomes]

WriteIdx == Len(RoundKinds) + 1
TipsIdx == Len(RoundKinds) + 2

RunTypeOK ==
    /\ status \in Statuses
    /\ pauseReason \in {"none", "user", "cap", "jev", "error"}
    /\ version \in Versions
    /\ steps \in [Rows -> StepRows]
    /\ reports \subseteq Versions
    /\ jobs \in 0..MaxJobs
    /\ crashes \in 0..MaxCrashes
    /\ stalls \in 0..MaxStalls

Places == {"idle", "top", "reload", "claim", "work", "verify", "draw", "cap",
           "vcap", "mark", "after", "error", "errpark", "complete", "settle",
           "final", "finish"}

DriverTypeOK ==
    /\ pc \in [Workers -> Places]
    /\ row \in [Workers -> Rows \cup {0}]
    /\ ver \in [Workers -> Versions]
    /\ round \in [Workers -> 0..MaxRounds + 1]
    /\ idx \in [Workers -> 1..TipsIdx]
    /\ out \in [Workers -> Outcomes]

RequestTypeOK ==
    /\ req \in [Requests -> {"none", "approve", "pause", "resume", "raise",
                             "raiseParked", "unpark", "enqueue", "settle",
                             "revise"}]
    /\ seen \in [Requests -> Versions]

SweepTypeOK ==
    /\ sweep \in [Sweepers -> {"orphans", "reclaim", "requeue", "finish",
                               "settle", "stalled", "check", "park", "kick"}]
    /\ snap \in [Sweepers -> Statuses]
    /\ retry \in {"idle", "settle"}

\* Every variable holds a value the program can store there; in particular a
\* driver never works on a round, a stage or a row that does not exist.
TypeOK == LedgerTypeOK /\ RunTypeOK /\ DriverTypeOK /\ RequestTypeOK /\ SweepTypeOK

-----------------------------------------------------------------------------
(* The step rows *)

Active == {r \in Rows : steps[r].status = "active"}
Orphans == {r \in Active : steps[r].expired}
DoneRows(ref) == {r \in Rows : steps[r].status = "done" /\ steps[r].ref = ref}
Unused == {r \in Rows : steps[r].status = "none"}
Oldest(r, rs) == r \in rs /\ \A q \in rs : r <= q
Latest(r, rs) == r \in rs /\ \A q \in rs : q <= r

\* finishedRounds(): n is the round after the last finished review.
ReviewRef(v, n) == <<"review", roundAttempt(v, n)>>
Reviewed(v) == {n \in 0..MaxRounds : DoneRows(ReviewRef(v, n)) # {}}
finishedRounds(v, n) ==
    \/ Reviewed(v) = {} /\ n = 0
    \/ n - 1 \in Reviewed(v) /\ \A m \in Reviewed(v) : m < n

readyToWrite(v, n) ==
    \E r \in Rows : /\ n > 0
                    /\ Latest(r, DoneRows(ReviewRef(v, n - 1)))
                    /\ steps[r].output.verdict = "write"

\* The (kind, attempt) of the stage driver w is at.
KindOf(w) == IF idx[w] <= Len(RoundKinds) THEN RoundKinds[idx[w]]
             ELSE IF idx[w] = WriteIdx THEN "write" ELSE "tips"
StageRef(w) ==
    IF idx[w] <= Len(RoundKinds)
      THEN <<KindOf(w), roundAttempt(ver[w], round[w])>>
      ELSE <<KindOf(w), ver[w]>>

-----------------------------------------------------------------------------
(* Shared steps *)

\* park(): under the run lock, a terminal status is never overwritten.
park(newStatus, reason) ==
    /\ IF status \in Terminal /\ newStatus # status
         THEN UNCHANGED <<status, pauseReason>>
         ELSE status' = newStatus /\ pauseReason' = reason
    /\ UNCHANGED version

\* A route handler's write: unconditional, outside the run lock.
SetStatus(newStatus, reason) ==
    status' = newStatus /\ pauseReason' = reason /\ UNCHANGED version

\* enqueue(): duplicates beyond MaxJobs are not told apart.
Enqueue == jobs' = IF jobs < MaxJobs THEN jobs + 1 ELSE jobs

Goto(w, place) == pc' = [pc EXCEPT ![w] = place]

\* The driver's job is over: its locals are gone.
Leave(w) ==
    /\ Goto(w, "idle")
    /\ row' = [row EXCEPT ![w] = 0]
    /\ ver' = [ver EXCEPT ![w] = 1]
    /\ round' = [round EXCEPT ![w] = 0]
    /\ idx' = [idx EXCEPT ![w] = 1]
    /\ out' = [out EXCEPT ![w] = NoOutcome]

-----------------------------------------------------------------------------
(* Drivers: runExecute, executeRun, stage, charge *)

\* A driver takes a job: executeRun works out the round to resume at.
TakeJob(w) ==
    /\ pc[w] = "idle" /\ jobs > 0
    /\ jobs' = jobs - 1
    /\ IF status # "running"
         THEN Goto(w, "final") /\ UNCHANGED <<ver, round>>
         ELSE \E n \in 0..MaxRounds + 1 :
              /\ finishedRounds(version, n)
              /\ Goto(w, IF readyToWrite(version, n) THEN "reload" ELSE "top")
              /\ ver' = [ver EXCEPT ![w] = version]
              /\ round' = [round EXCEPT ![w] = n]
    /\ UNCHANGED <<ledgerVars, runVars, steps, reports, row, idx, out,
                   requestVars, sweepVars, faultVars>>

\* Head of the round loop: reload the run and halt if it is parked.
RoundTop(w) ==
    /\ pc[w] = "top"
    /\ IF status \in PARKED
         THEN Goto(w, "final") /\ UNCHANGED <<ver, idx>>
         ELSE /\ Goto(w, "claim")
              /\ ver' = [ver EXCEPT ![w] = version]
              /\ idx' = [idx EXCEPT ![w] = 1]
    /\ UNCHANGED <<ledgerVars, runVars, steps, reports, jobs, row, round, out,
                   requestVars, sweepVars, faultVars>>

\* After the last round the run is reloaded; nothing halts before the write.
ReloadForWrite(w) ==
    /\ pc[w] = "reload"
    /\ Goto(w, "claim")
    /\ ver' = [ver EXCEPT ![w] = version]
    /\ idx' = [idx EXCEPT ![w] = WriteIdx]
    /\ UNCHANGED <<ledgerVars, runVars, steps, reports, jobs, row, round, out,
                   requestVars, sweepVars, faultVars>>

\* stage(): a finished stage is skipped with the output it stored.
SkipStage(w) ==
    /\ pc[w] = "claim"
    /\ \E r \in Rows :
         /\ Latest(r, DoneRows(StageRef(w)))
         /\ out' = [out EXCEPT ![w] = steps[r].output]
    /\ Goto(w, "after")
    /\ UNCHANGED <<ledgerVars, runVars, steps, reports, jobs, row, ver, round,
                   idx, requestVars, sweepVars, faultVars>>

\* stage(): another stage is in flight or the run is parked (RUN_BUSY).
BusyStage(w) ==
    /\ pc[w] = "claim"
    /\ DoneRows(StageRef(w)) = {}
    /\ Active # {} \/ status # "running"
    /\ Goto(w, "final")
    /\ UNCHANGED <<ledgerVars, runVars, steps, reports, jobs, row, ver, round,
                   idx, out, requestVars, sweepVars, faultVars>>

\* Mutants of Claimable: a finished stage runs again; two stages at once.
ClaimableAgain(w) == Active = {} /\ status = "running"
ClaimableInParallel(w) == DoneRows(StageRef(w)) = {} /\ status = "running"

\* stage(): what is checked, under the run lock, before a stage is claimed.
Claimable(w) ==
    /\ DoneRows(StageRef(w)) = {}
    /\ Active = {}
    /\ status = "running"

\* stage(): claim the stage by creating its active, leased row.
ClaimStage(w) ==
    /\ pc[w] = "claim"
    /\ Claimable(w)
    /\ \E r \in Rows :
         /\ Oldest(r, Unused)
         /\ steps' = [steps EXCEPT ![r] =
                        [status |-> "active", ref |-> StageRef(w),
                         expired |-> FALSE, output |-> NoOutcome]]
         /\ row' = [row EXCEPT ![w] = r]
    /\ out' = [out EXCEPT ![w] = NoOutcome]
    /\ Goto(w, "work")
    /\ UNCHANGED <<ledgerVars, runVars, reports, jobs, ver, round, idx,
                   requestVars, sweepVars, faultVars>>

\* decideRoundContinue(): JEV may continue only below the depth's limit.
VerdictsPastLimit(n) ==    \* mutant: off by one
    IF n <= MaxRounds THEN {"write", "continue"} ELSE {"write"}
VerdictsAt(n) == IF n < MaxRounds THEN {"write", "continue"} ELSE {"write"}

\* The stage function returns; its cost is still to be charged.
StageReturns(w) ==
    /\ pc[w] = "work" /\ KindOf(w) # "write"
    /\ \E verdict \in IF KindOf(w) = "review" THEN VerdictsAt(round[w])
                                              ELSE {"none"} :
         out' = [out EXCEPT ![w].verdict = verdict]
    /\ Goto(w, "draw")
    /\ UNCHANGED <<ledgerVars, runVars, steps, reports, jobs, row, ver, round,
                   idx, requestVars, sweepVars, faultVars>>

\* It had nothing to do (`skipped: true`): nothing is charged.
StageSkips(w) ==
    /\ pc[w] = "work" /\ "skip" \in StageFaults
    /\ KindOf(w) \in {"data", "tips"}
    /\ Goto(w, "mark")
    /\ UNCHANGED <<ledgerVars, runVars, steps, reports, jobs, row, ver, round,
                   idx, out, requestVars, sweepVars, faultVars>>

\* Mutant: the parked stage is charged before it is put back.
StageParksBilled(w) ==
    /\ pc[w] = "work" /\ "jev" \in StageFaults
    /\ KindOf(w) \in {"score", "review"}
    /\ IF status \in Terminal THEN UNCHANGED runVars
                              ELSE SetStatus("paused", "jev")
    /\ out' = [out EXCEPT ![w].parked = TRUE]
    /\ Goto(w, "draw")
    /\ UNCHANGED <<ledgerVars, steps, reports, jobs, row, ver, round, idx,
                   requestVars, sweepVars, faultVars>>

\* JEV is unreachable: parkForJev parks the run, the stage parks with it.
StageParks(w) ==
    /\ pc[w] = "work" /\ "jev" \in StageFaults
    /\ KindOf(w) \in {"score", "review"}
    /\ IF status \in Terminal THEN UNCHANGED runVars
                              ELSE SetStatus("paused", "jev")
    /\ out' = [out EXCEPT ![w].parked = TRUE]
    /\ Goto(w, "mark")
    /\ UNCHANGED <<ledgerVars, steps, reports, jobs, row, ver, round, idx,
                   requestVars, sweepVars, faultVars>>

\* A provider fails.
StageThrows(w) ==
    /\ pc[w] = "work" /\ "throw" \in StageFaults
    /\ Goto(w, "error")
    /\ UNCHANGED <<ledgerVars, runVars, steps, reports, jobs, row, ver, round,
                   idx, out, requestVars, sweepVars, faultVars>>

\* writeStage(): create the report row, unique per (run, version).
WriteReport(w) ==
    /\ pc[w] = "work" /\ KindOf(w) = "write"
    /\ IF ver[w] \in reports
         THEN Goto(w, "error") /\ UNCHANGED reports
         ELSE Goto(w, "verify") /\ reports' = reports \cup {ver[w]}
    /\ UNCHANGED <<ledgerVars, runVars, steps, jobs, row, ver, round, idx, out,
                   requestVars, sweepVars, faultVars>>

\* writeStage() audits the report; whether that charge fits is ignored.
VerifyReport(w) ==
    /\ pc[w] = "verify"
    /\ \E cost \in Costs :
         /\ Draw(<<"verify", ver[w]>>, cost)
         /\ Goto(w, IF DrawOk(<<"verify", ver[w]>>, cost) THEN "draw"
                                                          ELSE "vcap")
    /\ UNCHANGED <<runVars, steps, reports, jobs, row, ver, round, idx, out,
                   requestVars, sweepVars, faultVars>>

\* charge(): draw what the stage cost, and keep the answer as budgetOk.
ChargeStage(w) ==
    /\ pc[w] = "draw"
    /\ \E cost \in Costs :
         LET ok == DrawOk(StageRef(w), cost)
         IN /\ Draw(StageRef(w), cost)
            /\ out' = [out EXCEPT ![w].budgetOk = ok]
            /\ Goto(w, IF ok THEN "mark" ELSE "cap")
    /\ UNCHANGED <<runVars, steps, reports, jobs, row, ver, round, idx,
                   requestVars, sweepVars, faultVars>>

\* charge() was refused: park at the cap rather than overspend.
ParkAtCap(w) ==
    /\ pc[w] \in {"cap", "vcap"}
    /\ park("paused", "cap")
    /\ Goto(w, IF pc[w] = "cap" THEN "mark" ELSE "draw")
    /\ UNCHANGED <<ledgerVars, steps, reports, jobs, row, ver, round, idx, out,
                   requestVars, sweepVars, faultVars>>

\* A stage that parked is to run again.
Checkpointed(outcome) == IF outcome.parked THEN "pending" ELSE "done"

\* The checkpoint: the row this driver claimed, whoever has it now, is
\* written with the outcome.
FinishStage(w) ==
    /\ pc[w] = "mark"
    /\ steps' = [steps EXCEPT ![row[w]] =
                    [status |-> Checkpointed(out[w]), ref |-> @.ref,
                     expired |-> FALSE, output |-> out[w]]]
    /\ row' = [row EXCEPT ![w] = 0]
    /\ Goto(w, "after")
    /\ UNCHANGED <<ledgerVars, runVars, reports, jobs, ver, round, idx, out,
                   requestVars, sweepVars, faultVars>>

\* The stage threw: its row is failed, then the run is parked failed.
FailStage(w) ==
    /\ pc[w] = "error"
    /\ steps' = [steps EXCEPT ![row[w]] =
                    [@ EXCEPT !.status = "failed", !.expired = FALSE]]
    /\ row' = [row EXCEPT ![w] = 0]
    /\ Goto(w, "errpark")
    /\ UNCHANGED <<ledgerVars, runVars, reports, jobs, ver, round, idx, out,
                   requestVars, sweepVars, faultVars>>

ParkFailed(w) ==
    /\ pc[w] = "errpark"
    /\ park("failed", "error")
    /\ Goto(w, "final")
    /\ UNCHANGED <<ledgerVars, steps, reports, jobs, row, ver, round, idx, out,
                   requestVars, sweepVars, faultVars>>

\* executeRun stops after a stage that parked, did not fit the budget, or
\* left the run halted.  Mutant: the answer of the charge is not looked at.
StopsUnlessPaused(w) == out[w].parked \/ status \in PARKED
Stops(w) == out[w].parked \/ ~out[w].budgetOk \/ status \in PARKED

\* Back in executeRun: stop, or move on to the next stage.
AfterStage(w) ==
    /\ pc[w] = "after"
    /\ IF Stops(w)
         THEN Goto(w, "final") /\ UNCHANGED <<round, idx>>
         ELSE IF idx[w] = TipsIdx
         THEN Goto(w, "complete") /\ UNCHANGED <<round, idx>>
         ELSE IF KindOf(w) # "review"
         THEN /\ Goto(w, "claim")
              /\ idx' = [idx EXCEPT ![w] = @ + 1]
              /\ UNCHANGED round
         ELSE IF out[w].verdict = "write"
         THEN Goto(w, "reload") /\ UNCHANGED <<round, idx>>
         ELSE /\ Goto(w, "top")
              /\ round' = [round EXCEPT ![w] = @ + 1]
              /\ UNCHANGED idx
    /\ out' = [out EXCEPT ![w] = NoOutcome]
    /\ UNCHANGED <<ledgerVars, runVars, steps, reports, jobs, row, ver,
                   requestVars, sweepVars, faultVars>>

\* Everything is written: the run completes, then its ledger settles.
CompleteRun(w) ==
    /\ pc[w] = "complete"
    /\ park("complete", "none")
    /\ Goto(w, "settle")
    /\ UNCHANGED <<ledgerVars, steps, reports, jobs, row, ver, round, idx, out,
                   requestVars, sweepVars, faultVars>>

SettleComplete(w) ==
    /\ pc[w] = "settle"
    /\ Settle(Active # {})
    /\ Goto(w, "final")
    /\ UNCHANGED <<runVars, steps, reports, jobs, row, ver, round, idx, out,
                   requestVars, sweepVars, faultVars>>

\* runExecute's finally: finishTerminalRun reads the status, then settles.
FinishTerminalRun(w) ==
    /\ pc[w] = "final"
    /\ IF status \in Terminal
         THEN Goto(w, "finish") /\ UNCHANGED <<row, ver, round, idx, out>>
         ELSE Leave(w)
    /\ UNCHANGED <<ledgerVars, runVars, steps, reports, jobs, requestVars,
                   sweepVars, faultVars>>

SettleTerminal(w) ==
    /\ pc[w] = "finish"
    /\ Settle(Active # {})
    /\ Leave(w)
    /\ UNCHANGED <<runVars, steps, reports, jobs, requestVars, sweepVars,
                   faultVars>>

-----------------------------------------------------------------------------
(* Owner requests: the handlers of routes/runs.js and endRun *)

Reply(o, place) == req' = [req EXCEPT ![o] = place]

Arrives(o, op) == op \in OwnerOps /\ req[o] = "none"

\* approve, pause, resume, revise: the status and budget checks of the
\* handler, made on the row it read; a request that fails them changes nothing.
ReadApprove(o) ==
    /\ Arrives(o, "approve")
    /\ status = "planned" /\ ~settledAt /\ Active = {}
    /\ Spendable >= Estimate
    /\ Reply(o, "approve") /\ UNCHANGED seen
    /\ UNCHANGED <<ledgerVars, runVars, steps, reports, jobs, driverVars,
                   sweepVars, faultVars>>

ReadPause(o) ==
    /\ Arrives(o, "pause")
    /\ status = "running"
    /\ Reply(o, "pause") /\ UNCHANGED seen
    /\ UNCHANGED <<ledgerVars, runVars, steps, reports, jobs, driverVars,
                   sweepVars, faultVars>>

ReadResume(o) ==
    /\ Arrives(o, "resume")
    /\ status = "paused" /\ ~settledAt /\ Balance > 0
    /\ Reply(o, "resume") /\ UNCHANGED seen
    /\ UNCHANGED <<ledgerVars, runVars, steps, reports, jobs, driverVars,
                   sweepVars, faultVars>>

ReadRevise(o) ==
    /\ Arrives(o, "revise")
    /\ status \in Terminal \cup {"paused"} /\ ~settledAt /\ Active = {}
    /\ Spendable > 0 /\ version < MaxVersion
    /\ Reply(o, "revise")
    /\ seen' = [seen EXCEPT ![o] = version]
    /\ UNCHANGED <<ledgerVars, runVars, steps, reports, jobs, driverVars,
                   sweepVars, faultVars>>

\* The write of each: unconditional, whatever happened since the read.
WritePause(o) ==
    /\ req[o] = "pause"
    /\ SetStatus("paused", "user")
    /\ Reply(o, "none") /\ UNCHANGED seen
    /\ UNCHANGED <<ledgerVars, steps, reports, jobs, driverVars, sweepVars,
                   faultVars>>

WriteRunning(o) ==
    /\ req[o] \in {"approve", "resume", "unpark"}
    /\ SetStatus("running", "none")
    /\ Reply(o, "enqueue") /\ UNCHANGED seen
    /\ UNCHANGED <<ledgerVars, steps, reports, jobs, driverVars, sweepVars,
                   faultVars>>

WriteRevise(o) ==
    /\ req[o] = "revise"
    /\ status' = "running" /\ pauseReason' = "none"
    /\ version' = seen[o] + 1
    /\ Reply(o, "enqueue")
    /\ seen' = [seen EXCEPT ![o] = 1]
    /\ UNCHANGED <<ledgerVars, steps, reports, jobs, driverVars, sweepVars,
                   faultVars>>

RequestExecute(o) ==
    /\ req[o] = "enqueue"
    /\ Enqueue
    /\ Reply(o, "none") /\ UNCHANGED seen
    /\ UNCHANGED <<ledgerVars, runVars, steps, reports, driverVars, sweepVars,
                   faultVars>>

\* POST /:id/budget: read the run, raise the cap under the lock, and put the
\* run back to running if the row read was parked at the cap.
ReadRaise(o) ==
    /\ Arrives(o, "raise")
    /\ Reply(o, IF status = "paused" /\ pauseReason = "cap" THEN "raiseParked"
                                                            ELSE "raise")
    /\ UNCHANGED seen
    /\ UNCHANGED <<ledgerVars, runVars, steps, reports, jobs, driverVars,
                   sweepVars, faultVars>>

RaiseBudget(o) ==
    /\ req[o] \in {"raise", "raiseParked"}
    /\ \E amount \in Caps :
         IF CanRaise(amount, status \in Terminal)
           THEN /\ RaiseCap(amount)
                /\ Reply(o, IF req[o] = "raiseParked" /\ Balance' > 0
                              THEN "unpark" ELSE "none")
           ELSE UNCHANGED ledgerVars /\ Reply(o, "none")
    /\ UNCHANGED seen
    /\ UNCHANGED <<runVars, steps, reports, jobs, driverVars, sweepVars,
                   faultVars>>

\* endRun(): the status changes under the lock; an active stage defers the
\* refund to whoever finishes it.
EndRun(o) ==
    /\ Arrives(o, "end")
    /\ status \notin {"ended", "complete"}
    /\ SetStatus("ended", "user")
    /\ Reply(o, IF Active # {} THEN "none" ELSE "settle") /\ UNCHANGED seen
    /\ UNCHANGED <<ledgerVars, steps, reports, jobs, driverVars, sweepVars,
                   faultVars>>

SettleEnded(o) ==
    /\ req[o] = "settle"
    /\ Settle(Active # {})
    /\ Reply(o, "none") /\ UNCHANGED seen
    /\ UNCHANGED <<runVars, steps, reports, jobs, driverVars, sweepVars,
                   faultVars>>

-----------------------------------------------------------------------------
(* Recovery sweeps: requeueOrphans, then requeueStalledRuns, once a minute *)

Sweep(s, place) == sweep' = [sweep EXCEPT ![s] = place]

FindOrphans(s) ==
    /\ sweep[s] = "orphans"
    /\ IF Orphans = {}
         THEN Sweep(s, "stalled") /\ UNCHANGED snap
         ELSE Sweep(s, "reclaim") /\ snap' = [snap EXCEPT ![s] = status]
    /\ UNCHANGED <<ledgerVars, runVars, steps, reports, jobs, driverVars,
                   requestVars, retry, faultVars>>

\* Expired rows become pending; only a run read as movable is requeued.
ReclaimOrphans(s) ==
    /\ sweep[s] = "reclaim"
    /\ steps' = [r \in Rows |->
                   IF r \in Orphans
                     THEN [steps[r] EXCEPT !.status = "pending",
                                           !.expired = FALSE]
                     ELSE steps[r]]
    /\ Sweep(s, IF Orphans = {} THEN "stalled"
                ELSE IF snap[s] \in REQUEUEABLE THEN "requeue" ELSE "finish")
    /\ snap' = [snap EXCEPT ![s] = "planned"]
    /\ UNCHANGED <<ledgerVars, runVars, reports, jobs, driverVars, requestVars,
                   retry, faultVars>>

RequeueOrphaned(s) ==
    /\ sweep[s] = "requeue"
    /\ Enqueue
    /\ Sweep(s, "stalled")
    /\ UNCHANGED <<ledgerVars, runVars, steps, reports, driverVars,
                   requestVars, snap, retry, faultVars>>

FinishOrphaned(s) ==
    /\ sweep[s] = "finish"
    /\ Sweep(s, IF status \in Terminal THEN "settle" ELSE "stalled")
    /\ UNCHANGED <<ledgerVars, runVars, steps, reports, jobs, driverVars,
                   requestVars, snap, retry, faultVars>>

SettleOrphaned(s) ==
    /\ sweep[s] = "settle"
    /\ Settle(Active # {})
    /\ Sweep(s, "stalled")
    /\ UNCHANGED <<runVars, steps, reports, jobs, driverVars, requestVars,
                   snap, retry, faultVars>>

\* A running run that has been quiet for two minutes is stuck.  One that
\* nobody drives and nobody queued does become quiet.
FindStalled(s) ==
    /\ sweep[s] = "stalled"
    /\ \/ status = "running" /\ Sweep(s, "check")
       \/ /\ status = "running" => jobs > 0 \/ \E w \in Workers : pc[w] # "idle"
          /\ Sweep(s, "orphans")
    /\ UNCHANGED <<ledgerVars, runVars, steps, reports, jobs, driverVars,
                   requestVars, snap, retry, faultVars>>

CheckStalled(s) ==
    /\ sweep[s] = "check"
    /\ Sweep(s, IF Active # {} THEN "orphans"
                ELSE IF Balance > 0 THEN "kick" ELSE "park")
    /\ UNCHANGED <<ledgerVars, runVars, steps, reports, jobs, driverVars,
                   requestVars, snap, retry, faultVars>>

ParkStalled(s) ==
    /\ sweep[s] = "park"
    /\ park("paused", "cap")
    /\ Sweep(s, "orphans")
    /\ UNCHANGED <<ledgerVars, steps, reports, jobs, driverVars, requestVars,
                   snap, retry, faultVars>>

TouchStalled(s) ==         \* mutant: touched, never enqueued
    /\ sweep[s] = "kick"
    /\ Sweep(s, "orphans")
    /\ UNCHANGED <<ledgerVars, runVars, steps, reports, jobs, driverVars,
                   requestVars, snap, retry, faultVars>>

KickStalled(s) ==
    /\ sweep[s] = "kick"
    /\ IF status = "running" THEN Enqueue ELSE UNCHANGED jobs
    /\ Sweep(s, "orphans")
    /\ UNCHANGED <<ledgerVars, runVars, steps, reports, driverVars,
                   requestVars, snap, retry, faultVars>>

\* retryPendingSettlements(): terminal, unsettled, no stage in flight.
FindUnsettledComplete ==   \* mutant: ended and failed runs are forgotten
    /\ retry = "idle"
    /\ status = "complete" /\ ~settledAt /\ Active = {}
    /\ retry' = "settle"
    /\ UNCHANGED <<ledgerVars, runVars, steps, reports, jobs, driverVars,
                   requestVars, sweep, snap, faultVars>>

FindUnsettled ==
    /\ retry = "idle"
    /\ status \in Terminal /\ ~settledAt /\ Active = {}
    /\ retry' = "settle"
    /\ UNCHANGED <<ledgerVars, runVars, steps, reports, jobs, driverVars,
                   requestVars, sweep, snap, faultVars>>

RetrySettlement ==
    /\ retry = "settle"
    /\ Settle(Active # {})
    /\ retry' = "idle"
    /\ UNCHANGED <<runVars, steps, reports, jobs, driverVars, requestVars,
                   sweep, snap, faultVars>>

-----------------------------------------------------------------------------
(* Faults *)

Held == {row[w] : w \in Workers}

\* A driver dies: its row stays active, its job may be delivered again.
CrashDriver(w) ==
    /\ crashes < MaxCrashes /\ pc[w] # "idle"
    /\ crashes' = crashes + 1
    /\ Leave(w)
    /\ Enqueue \/ UNCHANGED jobs
    /\ UNCHANGED <<ledgerVars, runVars, steps, reports, requestVars,
                   sweepVars, stalls>>

CrashRequest(o) ==
    /\ crashes < MaxCrashes /\ req[o] # "none"
    /\ crashes' = crashes + 1
    /\ Reply(o, "none")
    /\ seen' = [seen EXCEPT ![o] = 1]
    /\ UNCHANGED <<ledgerVars, runVars, steps, reports, jobs, driverVars,
                   sweepVars, stalls>>

CrashSweep(s) ==
    /\ crashes < MaxCrashes /\ sweep[s] # "orphans"
    /\ crashes' = crashes + 1
    /\ Sweep(s, "orphans")
    /\ snap' = [snap EXCEPT ![s] = "planned"]
    /\ UNCHANGED <<ledgerVars, runVars, steps, reports, jobs, driverVars,
                   requestVars, retry, stalls>>

\* The lease of a row runs out: nobody renews it, or its holder is stalled.
ExpireLease(r) ==
    /\ r \in Active \ Orphans /\ r \notin Held
    /\ steps' = [steps EXCEPT ![r].expired = TRUE]
    /\ UNCHANGED <<ledgerVars, runVars, reports, jobs, driverVars,
                   requestVars, sweepVars, faultVars>>

LoseLease(r) ==
    /\ r \in (Active \ Orphans) \cap Held /\ stalls < MaxStalls
    /\ stalls' = stalls + 1
    /\ steps' = [steps EXCEPT ![r].expired = TRUE]
    /\ UNCHANGED <<ledgerVars, runVars, reports, jobs, driverVars,
                   requestVars, sweepVars, crashes>>

\* The heartbeat of a live holder renews the lease.
Heartbeat(r) ==
    /\ r \in Orphans \cap Held
    /\ steps' = [steps EXCEPT ![r].expired = FALSE]
    /\ UNCHANGED <<ledgerVars, runVars, reports, jobs, driverVars,
                   requestVars, sweepVars, faultVars>>

-----------------------------------------------------------------------------
(* The specification *)

\* An approved-to-be run: planned, its deposit booked, its cap configured.
Init ==
    /\ Configured(Deposit, InitialCap)
    /\ status = "planned" /\ pauseReason = "none" /\ version = 1
    /\ steps = [r \in Rows |-> [status |-> "none",
                                ref |-> <<"review", roundAttempt(1, 0)>>,
                                expired |-> FALSE, output |-> NoOutcome]]
    /\ reports = {}
    /\ jobs = 0
    /\ pc = [w \in Workers |-> "idle"]
    /\ row = [w \in Workers |-> 0]
    /\ ver = [w \in Workers |-> 1]
    /\ round = [w \in Workers |-> 0]
    /\ idx = [w \in Workers |-> 1]
    /\ out = [w \in Workers |-> NoOutcome]
    /\ req = [o \in Requests |-> "none"]
    /\ seen = [o \in Requests |-> 1]
    /\ sweep = [s \in Sweepers |-> "orphans"]
    /\ snap = [s \in Sweepers |-> "planned"]
    /\ retry = "idle"
    /\ crashes = 0 /\ stalls = 0

StageWork(w) ==
    \/ StageReturns(w) \/ StageSkips(w) \/ StageParks(w) \/ StageThrows(w)
    \/ WriteReport(w) \/ VerifyReport(w) \/ ChargeStage(w) \/ ParkAtCap(w)
    \/ FinishStage(w) \/ FailStage(w) \/ ParkFailed(w)

Drive(w) ==
    \/ RoundTop(w) \/ ReloadForWrite(w)
    \/ SkipStage(w) \/ BusyStage(w) \/ ClaimStage(w)
    \/ StageWork(w) \/ AfterStage(w)
    \/ CompleteRun(w) \/ SettleComplete(w)
    \/ FinishTerminalRun(w) \/ SettleTerminal(w)

Ask(o) ==
    \/ ReadApprove(o) \/ ReadPause(o) \/ ReadResume(o) \/ ReadRevise(o)
    \/ ReadRaise(o) \/ EndRun(o)

Answer(o) ==
    \/ WritePause(o) \/ WriteRunning(o) \/ WriteRevise(o) \/ RequestExecute(o)
    \/ RaiseBudget(o) \/ SettleEnded(o)

Recover(s) ==
    \/ FindOrphans(s) \/ ReclaimOrphans(s) \/ RequeueOrphaned(s)
    \/ FinishOrphaned(s) \/ SettleOrphaned(s)
    \/ FindStalled(s) \/ CheckStalled(s) \/ ParkStalled(s) \/ KickStalled(s)

Next ==
    \/ \E w \in Workers : TakeJob(w) \/ Drive(w) \/ CrashDriver(w)
    \/ \E o \in Requests : Ask(o) \/ Answer(o) \/ CrashRequest(o)
    \/ \E s \in Sweepers : Recover(s) \/ CrashSweep(s)
    \/ FindUnsettled \/ RetrySettlement
    \/ \E r \in Rows : ExpireLease(r) \/ LoseLease(r) \/ Heartbeat(r)

Spec == Init /\ [][Next]_vars

\* Processes keep running, timers keep firing, dead leases run out.  Owners
\* need never ask anything, except that a planned run is approved.
Fairness ==
    /\ \A w \in Workers : WF_vars(TakeJob(w)) /\ WF_vars(Drive(w))
    /\ \A o \in Requests : WF_vars(Answer(o)) /\ WF_vars(ReadApprove(o))
    /\ \A s \in Sweepers : WF_vars(Recover(s))
    /\ WF_vars(FindUnsettled) /\ WF_vars(RetrySettlement)
    /\ \A r \in Rows : WF_vars(ExpireLease(r))

FairSpec == Spec /\ Fairness

-----------------------------------------------------------------------------
(* Safety *)

\* At most one stage of a run is in flight, whatever drivers, duplicate jobs,
\* sweeps and late workers there are: stage() counts active rows and creates
\* its own under one lock.
OneActiveStep == \A r, q \in Active : r = q

\* No txRef is ever charged by two spend rows: a stage replayed after a crash,
\* or finished twice by a worker that outlived its lease, is billed once.
ChargedOnce == \A ref \in Refs : charged[ref] <= 1

\* The ledger never goes below zero and spending stays within the cap the
\* owner was shown, whichever of the two a charge meets first.
Solvent ==
    /\ Balance >= 0
    /\ ledger.spend <= budgetCap

\* Once settled, every unspent unit has gone back to the owner.
SettledInFull == settledAt => Balance = 0

\* A run is delivered as complete only when every stage of its last round,
\* the report and the tips are checkpointed with a charge that was accepted.
PaidStage(ref) == \E r \in DoneRows(ref) : steps[r].output.budgetOk
CompleteIsPaid ==
    status = "complete" =>
        /\ \E n \in 1..MaxRounds + 1 :
             finishedRounds(version, n) /\ readyToWrite(version, n)
        /\ PaidStage(<<"write", version>>) /\ PaidStage(<<"tips", version>>)
        /\ version \in reports

\* No stage is checkpointed twice: a resume or a duplicate delivery skips a
\* finished stage instead of running it again.
DoneOnce == \A r, q \in Rows : r \in DoneRows(steps[q].ref)
                                /\ q \in DoneRows(steps[q].ref) => r = q

\* The refund leaves only when no live worker still has a stage's cost to
\* charge: ending or failing a run mid-stage waits for that stage.
RefundAfterDrain ==
    [][settledAt' /\ ~settledAt => \A w \in Workers : row[w] = 0]_vars

\* A stage that parked or failed was not billed, unless a later attempt of
\* it finished.  (A crash between a charge and its checkpoint is excluded.)
UnfinishedIsFree ==
    \A r \in Rows : steps[r].status \in {"pending", "failed"} =>
        charged[steps[r].ref] = 0 \/ DoneRows(steps[r].ref) # {}
            \/ \E q \in Active : steps[q].ref = steps[r].ref

\* A follow-up round starts only when every earlier round was reviewed and
\* sent on, and never past the depth's limit.
RoundsInOrder ==
    \A r \in Rows : \A v \in Versions, n \in 0..MaxRounds + 1 :
        /\ steps[r].status # "none"
        /\ steps[r].ref \in KindsOfRound \X {roundAttempt(v, n)}
        => /\ n <= MaxRounds
           /\ \A m \in 0..n - 1 : \E q \in DoneRows(ReviewRef(v, m)) :
                steps[q].output.verdict = "continue"

\* Settlement is final: nothing is charged, raised or refunded after it.
FrozenAfterSettle ==
    [][settledAt => UNCHANGED <<ledger, charged, budgetCap, settledAt>>]_vars

\* The run keeps the promise of ResearchBudget through every interleaving.
Promise == INSTANCE ResearchBudget WITH
    Work <- Refs,
    held <- ledger.deposit,
    paid <- {ref \in Refs : AlreadyCharged(ref)},
    spent <- ledger.spend,
    returned <- ledger.refund,
    closed <- settledAt
BudgetPromise == Promise!Spec

-----------------------------------------------------------------------------
(* What the comments promise and the code does not keep (see README.md) *)

\* "a crash, a pause, or a closed tab loses at most the round in flight":
\* where no provider ever fails, no run fails.
CrashesFailNoRun == status # "failed"

\* "execution must also check the live ledger balance and refuse settled
\* runs": no stage starts on a settled run.
SettledRunsDoNotExecute == [][settledAt => Active' \subseteq Active]_vars

\* "The version bump means every stage re-executes": a run that completes
\* after a revision has a report of that version.
RevisionsAreRewritten == status = "complete" => version \in reports

\* "Fee rows are the treasury's receivable memo -- reported, never subtracted
\* from the client's balance": the run list shows the ledger's balance.
ListShowsBalance == ListedBalance = Balance

-----------------------------------------------------------------------------
(* Liveness *)

\* The unspent budget of a run that is over goes back, whoever crashes.
EventuallySettled == status \in Terminal ~> settledAt \/ status \notin Terminal

\* A running run does not sit still: it finishes, fails or parks.
RunsMove == status = "running" ~> status # "running"

\* "Raise the cap. If the run was parked at the cap, this is what lets it go
\* on": a run set running again finishes, fails or parks.
RaisedRunsGoOn ==
    \A o \in Requests :
        req[o] = "enqueue" /\ status = "running" ~> status # "running"

=============================================================================
