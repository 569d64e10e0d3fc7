------------------------ MODULE RunLifecycle_proofs ------------------------
(***************************************************************************)
(* Theorems about RunLifecycle, for any number of drivers, requests,        *)
(* sweeps, rounds, crashes and stalls.                                      *)
(*                                                                          *)
(* The ledger is settled first: every step of the run is, on the ledger,    *)
(* one of the four moves of LedgerStep, and these keep LedgerInv.  The type *)
(* invariant needs more: a driver may only be shown to stay within the      *)
(* rounds its depth allows because every finished review of the last round  *)
(* says "write" (LastReviews), which rests on the row a driver holds being  *)
(* the row of its own stage (DriversHoldRows).  IInv is their conjunction,  *)
(* and the first theorems follow from it.                                   *)
(*                                                                          *)
(* The others hold until a fault or a revision.  Until a live worker loses  *)
(* its lease (stalls = 0) the drivers hold their rows alone (LeasesKept);   *)
(* without a crash either, what is charged is checkpointed (ChargesKept).   *)
(* Until the run is revised (version = 1) a driver is in a round the stored *)
(* reviews allow (OrderInv), and with both it delivers what was paid        *)
(* (DeliveryInv).                                                           *)
(***************************************************************************)
EXTENDS RunLifecycle, Sums_proofs

-----------------------------------------------------------------------------
(* The ledger *)

\* All that a step of the run can do to the ledger.
LedgerStep ==
    \/ UNCHANGED ledgerVars
    \/ \E ref \in Refs, amount \in Nat : Draw(ref, amount)
    \/ \E amount \in Nat, terminal \in BOOLEAN :
         CanRaise(amount, terminal) /\ RaiseCap(amount)
    \/ \E stageActive \in BOOLEAN : Settle(stageActive)

\* What the ledger satisfies; refunds happen only at settlement.
LedgerInv ==
    /\ LedgerTypeOK
    /\ Solvent
    /\ SettledInFull
    /\ ChargedOnce
    /\ ~settledAt => ledger.refund = 0

\* The fee of an amount is a whole number of units.
LEMMA FeeNat == ASSUME NEW amount \in Nat PROVE Fee(amount) \in Nat
BY DEF Fee, FEE_BPS

\* A draw (money.js) keeps the ledger solvent and bills its txRef once.
LEMMA DrawKeeps ==
    ASSUME LedgerInv, NEW ref \in Refs, NEW amount \in Nat, Draw(ref, amount)
    PROVE  LedgerInv'
<1>1. CASE ~AlreadyCharged(ref) /\ amount > 0 /\ Affordable(amount)
  <2>1. /\ ledger' = [ledger EXCEPT !.spend = @ + amount, !.fee = @ + Fee(amount)]
        /\ charged' = [charged EXCEPT ![ref] = @ + 1]
        /\ UNCHANGED <<budgetCap, settledAt>>
    BY <1>1 DEF Draw
  <2>0. Fee(amount) \in Nat
    BY FeeNat
  <2>2. LedgerTypeOK'
    <3>1. ledger' \in [deposit : Nat, spend : Nat, fee : Nat, refund : Nat]
      <4>1. ledger \in [deposit : Nat, spend : Nat, fee : Nat, refund : Nat]
        BY DEF LedgerInv, LedgerTypeOK
      <4>2. ledger.spend + amount \in Nat /\ ledger.fee + Fee(amount) \in Nat
        BY <2>0, <4>1
      <4>. QED BY <2>1, <4>1, <4>2
    <3>2. charged' \in [Refs -> Nat]
      BY <2>1 DEF LedgerInv, LedgerTypeOK
    <3>. QED BY <2>1, <3>1, <3>2 DEF LedgerInv, LedgerTypeOK
  <2>3. Solvent' /\ SettledInFull' /\ (~settledAt => ledger.refund = 0)'
    BY <1>1, <2>1, FeeNat DEF LedgerInv, LedgerTypeOK, Solvent, SettledInFull, Affordable,
       Balance
  <2>4. ChargedOnce'
    BY <1>1, <2>1 DEF LedgerInv, LedgerTypeOK, ChargedOnce, AlreadyCharged
  <2>. QED BY <2>2, <2>3, <2>4 DEF LedgerInv
<1>2. CASE ~(~AlreadyCharged(ref) /\ amount > 0 /\ Affordable(amount))
  <2>1. UNCHANGED ledgerVars
    BY <1>2 DEF Draw, ledgerVars
  <2>. QED BY <2>1 DEF LedgerInv, LedgerTypeOK, Solvent, SettledInFull, ChargedOnce, Balance, ledgerVars
<1>. QED BY <1>1, <1>2

\* A raise adds to the deposits exactly what it adds to the cap.
LEMMA RaiseKeeps ==
    ASSUME LedgerInv, NEW amount \in Nat, NEW terminal \in BOOLEAN,
           CanRaise(amount, terminal), RaiseCap(amount)
    PROVE  LedgerInv'
BY DEF LedgerInv, LedgerTypeOK, Solvent, SettledInFull, ChargedOnce, Balance,
       CanRaise, RaiseCap

\* A settlement refunds the whole balance, or does nothing.
LEMMA SettleKeeps ==
    ASSUME LedgerInv, NEW stageActive \in BOOLEAN, Settle(stageActive)
    PROVE  LedgerInv'
<1>1. CASE ~stageActive /\ ~settledAt
  <2>1. /\ ledger \in [deposit : Nat, spend : Nat, fee : Nat, refund : Nat]
        /\ Balance \in Nat /\ ledger.refund = 0
    BY <1>1 DEF LedgerInv, LedgerTypeOK, Solvent, Balance
  <2>2. /\ ledger' = [ledger EXCEPT !.refund = IF Balance > 0 THEN @ + Balance ELSE @]
        /\ settledAt' = TRUE
        /\ UNCHANGED <<charged, budgetCap>>
    BY <1>1 DEF Settle
  <2>3. ledger' = [ledger EXCEPT !.refund = Balance]
    BY <2>1, <2>2
  <2>4. LedgerTypeOK'
    BY <2>1, <2>2, <2>3 DEF LedgerInv, LedgerTypeOK
  <2>5. Solvent' /\ SettledInFull' /\ ChargedOnce'
    BY <2>1, <2>2, <2>3 DEF LedgerInv, Solvent, SettledInFull, ChargedOnce, Balance
  <2>. QED BY <2>2, <2>4, <2>5 DEF LedgerInv
<1>2. CASE stageActive \/ settledAt
  BY <1>2 DEF Settle, LedgerInv, LedgerTypeOK, Solvent, SettledInFull, ChargedOnce, Balance, ledgerVars
<1>. QED BY <1>1, <1>2

\* Hence every move of the ledger keeps LedgerInv.
LEMMA LedgerStepKeeps == LedgerInv /\ LedgerStep => LedgerInv'
<1>. SUFFICES ASSUME LedgerInv, LedgerStep PROVE LedgerInv'
  OBVIOUS
<1>1. CASE UNCHANGED ledgerVars
  BY <1>1 DEF LedgerInv, LedgerTypeOK, Solvent, SettledInFull, ChargedOnce, Balance, ledgerVars
<1>2. CASE ~UNCHANGED ledgerVars
  BY <1>2, DrawKeeps, RaiseKeeps, SettleKeeps DEF LedgerStep
<1>. QED BY <1>1, <1>2

\* A run that has spent nothing satisfies LedgerInv.
LEMMA LedgerInit == Init => LedgerInv
<1>. SUFFICES ASSUME Init PROVE LedgerInv
  OBVIOUS
<1>1. /\ ledger = [deposit |-> Deposit, spend |-> 0, fee |-> 0, refund |-> 0]
      /\ charged = [ref \in Refs |-> 0]
      /\ budgetCap = InitialCap /\ settledAt = FALSE /\ Deposit \in Nat /\ InitialCap \in Nat
  BY MoneyAssumption DEF Init, Configured
<1>2. LedgerTypeOK
  BY <1>1 DEF LedgerTypeOK
<1>3. Solvent /\ SettledInFull /\ ledger.refund = 0
  BY <1>1 DEF Solvent, SettledInFull, Balance
<1>4. ChargedOnce
  <2>1. charged = [ref \in Refs |-> 0]
    BY <1>1
  <2>2. ASSUME NEW ref \in Refs PROVE charged[ref] <= 1
    BY <2>1
  <2>. QED BY <2>2 DEF ChargedOnce
<1>. QED BY <1>2, <1>3, <1>4 DEF LedgerInv

\* What a driver charges is always one of the txRefs.
LEMMA StageRefInRefs ==
    ASSUME TypeOK, NEW w \in Workers
    PROVE  StageRef(w) \in Refs /\ <<"verify", ver[w]>> \in Refs
<1>1. /\ idx[w] \in 1..TipsIdx /\ ver[w] \in Versions
      /\ round[w] \in 0..MaxRounds + 1
  BY DEF TypeOK, DriverTypeOK
<1>2. <<"verify", ver[w]>> \in Refs
  BY <1>1, RefsAssumption DEF StageRefs, SideKinds
<1>3. CASE idx[w] <= Len(RoundKinds)
  <2>1. Len(RoundKinds) \in Nat /\ DOMAIN RoundKinds = 1..Len(RoundKinds)
    BY PipelineAssumption
  <2>2. idx[w] \in DOMAIN RoundKinds
    BY <1>1, <1>3, <2>1 DEF TipsIdx
  <2>3. KindOf(w) \in KindsOfRound
    BY <1>3, <2>2 DEF KindOf, KindsOfRound
  <2>4. roundAttempt(ver[w], round[w]) \in
            {roundAttempt(v, r) : v \in Versions, r \in 0..MaxRounds + 1}
    BY <1>1
  <2>. QED BY <1>2, <1>3, <2>3, <2>4, RefsAssumption DEF StageRef, StageRefs
<1>4. CASE ~(idx[w] <= Len(RoundKinds))
  <2>1. KindOf(w) \in SideKinds
    BY <1>4 DEF KindOf, SideKinds
  <2>. QED BY <1>1, <1>2, <1>4, <2>1, RefsAssumption DEF StageRef, StageRefs
<1>. QED BY <1>3, <1>4

\* No handler, driver or sweep touches the ledger in any other way.
LEMMA NextTakesLedgerStep == TypeOK /\ [Next]_vars => LedgerStep
<1>. SUFFICES ASSUME TypeOK, [Next]_vars PROVE LedgerStep
  OBVIOUS
<1>1. ASSUME NEW w \in Workers, TakeJob(w) \/ Drive(w) \/ CrashDriver(w)
      PROVE  LedgerStep
  <2>1. CASE VerifyReport(w) \/ ChargeStage(w)
    BY <2>1, StageRefInRefs, MoneyAssumption DEF VerifyReport, ChargeStage, LedgerStep
  <2>2. CASE SettleComplete(w) \/ SettleTerminal(w)
    BY <2>2 DEF SettleComplete, SettleTerminal, LedgerStep
  <2>3. CASE ~(VerifyReport(w) \/ ChargeStage(w))
             /\ ~(SettleComplete(w) \/ SettleTerminal(w))
    <3>1. UNCHANGED ledgerVars
      BY <1>1, <2>3 DEF TakeJob, CrashDriver, Drive, StageWork, RoundTop,
         ReloadForWrite, SkipStage, BusyStage, ClaimStage, StageReturns,
         StageSkips, StageParks, StageThrows, WriteReport, ParkAtCap,
         FinishStage, FailStage, ParkFailed, AfterStage, CompleteRun,
         FinishTerminalRun
    <3>. QED BY <3>1 DEF LedgerStep
  <2>. QED BY <2>1, <2>2, <2>3
<1>2. ASSUME NEW o \in Requests, Ask(o) \/ Answer(o) \/ CrashRequest(o)
      PROVE  LedgerStep
  <2>1. CASE RaiseBudget(o)
    <3>1. PICK amount \in Caps :
             IF CanRaise(amount, status \in Terminal)
               THEN /\ RaiseCap(amount)
                    /\ Reply(o, IF req[o] = "raiseParked" /\ Balance' > 0
                                  THEN "unpark" ELSE "none")
               ELSE UNCHANGED ledgerVars /\ Reply(o, "none")
      BY <2>1, Zenon DEF RaiseBudget
    <3>2. amount \in Nat /\ (status \in Terminal) \in BOOLEAN
      BY MoneyAssumption
    <3>3. CASE CanRaise(amount, status \in Terminal)
      BY <3>1, <3>2, <3>3, Zenon DEF LedgerStep
    <3>4. CASE ~CanRaise(amount, status \in Terminal)
      BY <3>1, <3>4, Zenon DEF LedgerStep
    <3>. QED BY <3>3, <3>4
  <2>2. CASE SettleEnded(o)
    BY <2>2 DEF SettleEnded, LedgerStep
  <2>3. CASE ~RaiseBudget(o) /\ ~SettleEnded(o)
    <3>1. UNCHANGED ledgerVars
      BY <1>2, <2>3 DEF Ask, Answer, CrashRequest, ReadApprove, ReadPause,
         ReadResume, ReadRevise, ReadRaise, EndRun, WritePause, WriteRunning,
         WriteRevise, RequestExecute
    <3>. QED BY <3>1 DEF LedgerStep
  <2>. QED BY <2>1, <2>2, <2>3
<1>3. ASSUME NEW s \in Sweepers, Recover(s) \/ CrashSweep(s)
      PROVE  LedgerStep
  <2>1. CASE SettleOrphaned(s)
    BY <2>1 DEF SettleOrphaned, LedgerStep
  <2>2. CASE ~SettleOrphaned(s)
    <3>1. UNCHANGED ledgerVars
      BY <1>3, <2>2 DEF Recover, CrashSweep, FindOrphans, ReclaimOrphans,
         RequeueOrphaned, FinishOrphaned, FindStalled, CheckStalled,
         ParkStalled, KickStalled
    <3>. QED BY <3>1 DEF LedgerStep
  <2>. QED BY <2>1, <2>2
<1>4. CASE FindUnsettled \/ RetrySettlement
  BY <1>4 DEF FindUnsettled, RetrySettlement, LedgerStep
<1>5. ASSUME NEW r \in Rows, ExpireLease(r) \/ LoseLease(r) \/ Heartbeat(r)
      PROVE  LedgerStep
  BY <1>5 DEF ExpireLease, LoseLease, Heartbeat, LedgerStep
<1>6. CASE UNCHANGED vars
  BY <1>6 DEF vars, LedgerStep
<1>. QED BY <1>1, <1>2, <1>3, <1>4, <1>5, <1>6 DEF Next

-----------------------------------------------------------------------------
(* The step rows *)

\* Only stage() creates an active row, and only when there is none.
LEMMA OneActiveStepKept ==
    TypeOK /\ OneActiveStep /\ [Next]_vars => OneActiveStep'
<1>. SUFFICES ASSUME TypeOK, OneActiveStep, [Next]_vars PROVE OneActiveStep'
  OBVIOUS
<1>1. steps \in [Rows -> StepRows]
  BY DEF TypeOK, RunTypeOK
<1>2. ASSUME NEW w \in Workers, ClaimStage(w) PROVE OneActiveStep'
  <2>1. PICK r \in Rows :
          steps' = [steps EXCEPT ![r] =
                      [status |-> "active", ref |-> StageRef(w),
                       expired |-> FALSE, output |-> NoOutcome]]
    BY <1>2 DEF ClaimStage
  <2>2. Active = {}
    BY <1>2 DEF ClaimStage, Claimable
  <2>3. Active' \subseteq {r}
    BY <1>1, <2>1, <2>2 DEF Active
  <2>. QED BY <2>3 DEF OneActiveStep
<1>3. ASSUME Active' \subseteq Active PROVE OneActiveStep'
  BY <1>3 DEF OneActiveStep
<1>4. ASSUME NEW w \in Workers, FinishStage(w) \/ FailStage(w)
      PROVE  Active' \subseteq Active
  <2>. SUFFICES ASSUME NEW q \in Rows
                PROVE  /\ q = row[w] => steps'[q].status # "active"
                       /\ q # row[w] => steps'[q] = steps[q]
    BY DEF Active
  <2>1. CASE FinishStage(w)
    <3>1. Checkpointed(out[w]) # "active"
      BY DEF Checkpointed
    <3>. QED BY <1>1, <2>1, <3>1 DEF FinishStage
  <2>2. CASE FailStage(w)
    BY <1>1, <2>2 DEF FailStage, StepRows
  <2>. QED BY <1>4, <2>1, <2>2
<1>5. ASSUME NEW s \in Sweepers, ReclaimOrphans(s)
      PROVE  Active' \subseteq Active
  <2>. SUFFICES ASSUME NEW q \in Rows, steps'[q].status = "active"
                PROVE  steps[q].status = "active"
    BY DEF Active
  <2>1. steps'[q] = IF q \in Orphans
                      THEN [steps[q] EXCEPT !.status = "pending", !.expired = FALSE]
                      ELSE steps[q]
    BY <1>5 DEF ReclaimOrphans
  <2>. QED BY <2>1 DEF Orphans, Active
<1>6. ASSUME NEW r \in Rows, ExpireLease(r) \/ LoseLease(r) \/ Heartbeat(r)
      PROVE  Active' \subseteq Active
  <2>. SUFFICES ASSUME NEW q \in Rows
                PROVE  steps'[q].status = steps[q].status
    BY DEF Active
  <2>1. \E b \in BOOLEAN : steps' = [steps EXCEPT ![r].expired = b]
    BY <1>6 DEF ExpireLease, LoseLease, Heartbeat
  <2>. QED BY <1>1, <2>1 DEF StepRows
<1>7. ASSUME UNCHANGED steps PROVE Active' \subseteq Active
  BY <1>7 DEF Active
<1>8. ASSUME NEW w \in Workers, TakeJob(w) \/ Drive(w) \/ CrashDriver(w)
      PROVE  OneActiveStep'
  <2>1. CASE ClaimStage(w) \/ FinishStage(w) \/ FailStage(w)
    BY <1>2, <1>3, <1>4, <2>1
  <2>2. CASE ~(ClaimStage(w) \/ FinishStage(w) \/ FailStage(w))
    <3>1. UNCHANGED steps
      BY <1>8, <2>2 DEF TakeJob, CrashDriver, Drive, StageWork, RoundTop,
         ReloadForWrite, SkipStage, BusyStage, StageReturns, StageSkips,
         StageParks, StageThrows, WriteReport, VerifyReport, ChargeStage,
         ParkAtCap, ParkFailed, AfterStage, CompleteRun, SettleComplete,
         FinishTerminalRun, SettleTerminal
    <3>. QED BY <1>3, <1>7, <3>1
  <2>. QED BY <2>1, <2>2
<1>9. ASSUME NEW o \in Requests, Ask(o) \/ Answer(o) \/ CrashRequest(o)
      PROVE  UNCHANGED steps
  BY <1>9 DEF Ask, Answer, CrashRequest, ReadApprove, ReadPause, ReadResume,
     ReadRevise, ReadRaise, EndRun, WritePause, WriteRunning, WriteRevise,
     RequestExecute, RaiseBudget, SettleEnded
<1>10. ASSUME NEW s \in Sweepers, Recover(s) \/ CrashSweep(s)
       PROVE  ReclaimOrphans(s) \/ UNCHANGED steps
  BY <1>10 DEF Recover, CrashSweep, FindOrphans, RequeueOrphaned,
     FinishOrphaned, SettleOrphaned, FindStalled, CheckStalled, ParkStalled,
     KickStalled
<1>11. CASE FindUnsettled \/ RetrySettlement \/ UNCHANGED vars
  <2>1. UNCHANGED steps
    BY <1>11 DEF FindUnsettled, RetrySettlement, vars
  <2>. QED BY <1>3, <1>7, <2>1
<1>. QED BY <1>3, <1>5, <1>6, <1>7, <1>8, <1>9, <1>10, <1>11 DEF Next

\* The step rows keep their type.
LEMMA StepsTypeKept == TypeOK /\ [Next]_vars => (steps \in [Rows -> StepRows])'
<1>. SUFFICES ASSUME TypeOK, [Next]_vars PROVE steps' \in [Rows -> StepRows]
  OBVIOUS
<1>1. steps \in [Rows -> StepRows]
  BY DEF TypeOK, RunTypeOK
<1>2. NoOutcome \in Outcomes
  BY DEF NoOutcome, Outcomes, Verdicts
<1>3. ASSUME NEW w \in Workers, ClaimStage(w)
      PROVE  steps' \in [Rows -> StepRows]
  <2>1. StageRef(w) \in Refs
    BY StageRefInRefs
  <2>2. [status |-> "active", ref |-> StageRef(w), expired |-> FALSE,
         output |-> NoOutcome] \in StepRows
    BY <1>2, <2>1 DEF StepRows
  <2>. QED BY <1>1, <1>3, <2>2 DEF ClaimStage
<1>4. ASSUME NEW w \in Workers, FinishStage(w)
      PROVE  steps' \in [Rows -> StepRows]
  <2>1. Checkpointed(out[w]) \in {"pending", "done"} /\ out[w] \in Outcomes
    BY DEF Checkpointed, TypeOK, DriverTypeOK
  <2>2. ASSUME NEW q \in Rows
        PROVE  [status |-> Checkpointed(out[w]), ref |-> steps[q].ref,
                expired |-> FALSE, output |-> out[w]] \in StepRows
    BY <1>1, <2>1 DEF StepRows
  <2>. QED BY <1>1, <1>4, <2>2 DEF FinishStage
<1>5. ASSUME NEW w \in Workers, FailStage(w)
      PROVE  steps' \in [Rows -> StepRows]
  <2>1. ASSUME NEW q \in Rows
        PROVE  [steps[q] EXCEPT !.status = "failed", !.expired = FALSE] \in StepRows
    BY <1>1 DEF StepRows
  <2>. QED BY <1>1, <1>5, <2>1 DEF FailStage
<1>6. ASSUME NEW s \in Sweepers, ReclaimOrphans(s)
      PROVE  steps' \in [Rows -> StepRows]
  <2>1. ASSUME NEW q \in Rows
        PROVE  [steps[q] EXCEPT !.status = "pending", !.expired = FALSE] \in StepRows
    BY <1>1 DEF StepRows
  <2>. QED BY <1>1, <1>6, <2>1 DEF ReclaimOrphans
<1>7. ASSUME NEW r \in Rows, ExpireLease(r) \/ LoseLease(r) \/ Heartbeat(r)
      PROVE  steps' \in [Rows -> StepRows]
  <2>1. PICK b \in BOOLEAN : steps' = [steps EXCEPT ![r].expired = b]
    BY <1>7 DEF ExpireLease, LoseLease, Heartbeat
  <2>. QED BY <1>1, <2>1 DEF StepRows
<1>8. ASSUME NEW w \in Workers, TakeJob(w) \/ Drive(w) \/ CrashDriver(w)
      PROVE  steps' \in [Rows -> StepRows]
  <2>1. CASE ~(ClaimStage(w) \/ FinishStage(w) \/ FailStage(w))
    <3>1. UNCHANGED steps
      BY <1>8, <2>1 DEF TakeJob, CrashDriver, Drive, StageWork, RoundTop,
         ReloadForWrite, SkipStage, BusyStage, StageReturns, StageSkips,
         StageParks, StageThrows, WriteReport, VerifyReport, ChargeStage,
         ParkAtCap, ParkFailed, AfterStage, CompleteRun, SettleComplete,
         FinishTerminalRun, SettleTerminal
    <3>. QED BY <1>1, <3>1
  <2>. QED BY <1>3, <1>4, <1>5, <2>1
<1>9. ASSUME NEW o \in Requests, Ask(o) \/ Answer(o) \/ CrashRequest(o)
      PROVE  UNCHANGED steps
  BY <1>9 DEF Ask, Answer, CrashRequest, ReadApprove, ReadPause, ReadResume,
     ReadRevise, ReadRaise, EndRun, WritePause, WriteRunning, WriteRevise,
     RequestExecute, RaiseBudget, SettleEnded
<1>10. ASSUME NEW s \in Sweepers, Recover(s) \/ CrashSweep(s)
       PROVE  ReclaimOrphans(s) \/ UNCHANGED steps
  BY <1>10 DEF Recover, CrashSweep, FindOrphans, RequeueOrphaned,
     FinishOrphaned, SettleOrphaned, FindStalled, CheckStalled, ParkStalled,
     KickStalled
<1>11. CASE FindUnsettled \/ RetrySettlement \/ UNCHANGED vars
  BY <1>1, <1>11 DEF FindUnsettled, RetrySettlement, vars
<1>. QED BY <1>1, <1>6, <1>7, <1>8, <1>9, <1>10, <1>11 DEF Next

\* Whatever writes the status writes one of the statuses.
LEMMA ParkKeeps ==
    ASSUME TypeOK, NEW newStatus \in Statuses,
           NEW reason \in {"none", "user", "cap", "jev", "error"},
           park(newStatus, reason) \/ SetStatus(newStatus, reason)
    PROVE  /\ status' \in Statuses /\ version' \in Versions
           /\ pauseReason' \in {"none", "user", "cap", "jev", "error"}
BY DEF TypeOK, RunTypeOK, park, SetStatus

\* The queue stays within its bound.
LEMMA EnqueueKeeps ==
    ASSUME TypeOK, Enqueue PROVE jobs' \in 0..MaxJobs
BY BoundsAssumption DEF TypeOK, RunTypeOK, Enqueue

-----------------------------------------------------------------------------
(* Types of the run, the requests and the sweeps *)

\* A revision under way read a version that can still be followed by one.
RevisionsFit == \A o \in Requests : req[o] = "revise" => seen[o] < MaxVersion

\* The run row, step rows, reports and queue keep their types.
LEMMA RunTypeKept == TypeOK /\ RevisionsFit /\ [Next]_vars => RunTypeOK'
<1>. SUFFICES ASSUME TypeOK, RevisionsFit, [Next]_vars PROVE RunTypeOK'
  OBVIOUS
<1>1. RunTypeOK /\ steps' \in [Rows -> StepRows]
  BY StepsTypeKept DEF TypeOK
<1>2. ASSUME NEW w \in Workers, TakeJob(w) \/ Drive(w) \/ CrashDriver(w)
      PROVE  RunTypeOK'
  <2>1. CASE StageParks(w)
    BY <1>1, <2>1, ParkKeeps DEF StageParks, RunTypeOK, Statuses, faultVars, runVars
  <2>2. CASE ParkAtCap(w) \/ ParkFailed(w) \/ CompleteRun(w)
    BY <1>1, <2>2, ParkKeeps DEF ParkAtCap, ParkFailed, CompleteRun,
       RunTypeOK, Statuses, faultVars
  <2>3. CASE WriteReport(w)
    BY <1>1, <2>3 DEF WriteReport, RunTypeOK, TypeOK, DriverTypeOK, faultVars, runVars
  <2>4. CASE TakeJob(w)
    BY <1>1, <2>4, BoundsAssumption DEF TakeJob, RunTypeOK, faultVars, runVars
  <2>5. CASE CrashDriver(w)
    BY <1>1, <2>5, EnqueueKeeps, BoundsAssumption DEF CrashDriver, RunTypeOK, runVars
  <2>6. CASE ~(StageParks(w) \/ ParkAtCap(w) \/ ParkFailed(w) \/ CompleteRun(w)
               \/ WriteReport(w) \/ TakeJob(w) \/ CrashDriver(w))
    <3>1. UNCHANGED <<runVars, reports, jobs, faultVars>>
      BY <1>2, <2>6 DEF Drive, StageWork, RoundTop,
         ReloadForWrite, SkipStage, BusyStage, ClaimStage, StageReturns, StageSkips,
         StageThrows, VerifyReport, ChargeStage, FinishStage, FailStage,
         AfterStage, SettleComplete, FinishTerminalRun, SettleTerminal
    <3>. QED BY <1>1, <3>1 DEF RunTypeOK, runVars, faultVars
  <2>. QED BY <2>1, <2>2, <2>3, <2>4, <2>5, <2>6
<1>3. ASSUME NEW o \in Requests, Ask(o) \/ Answer(o) \/ CrashRequest(o)
      PROVE  RunTypeOK'
  <2>1. CASE WritePause(o) \/ WriteRunning(o) \/ EndRun(o)
    BY <1>1, <2>1, ParkKeeps DEF WritePause, WriteRunning, EndRun, RunTypeOK,
       Statuses, faultVars
  <2>2. CASE WriteRevise(o)
    <3>1. seen[o] \in Versions /\ seen[o] < MaxVersion
      BY <2>2 DEF WriteRevise, RevisionsFit, TypeOK, RequestTypeOK
    <3>2. seen[o] + 1 \in Versions
      BY <3>1, BoundsAssumption DEF Versions
    <3>. QED BY <1>1, <2>2, <3>2 DEF WriteRevise, RunTypeOK, Statuses, faultVars
  <2>3. CASE RequestExecute(o)
    BY <1>1, <2>3, EnqueueKeeps DEF RequestExecute, RunTypeOK, runVars, faultVars
  <2>4. CASE CrashRequest(o)
    BY <1>1, <2>4, BoundsAssumption DEF CrashRequest, RunTypeOK, runVars
  <2>5. CASE ~(WritePause(o) \/ WriteRunning(o) \/ EndRun(o) \/ WriteRevise(o)
               \/ RequestExecute(o) \/ CrashRequest(o))
    <3>1. UNCHANGED <<runVars, reports, jobs, faultVars>>
      BY <1>3, <2>5 DEF Ask, Answer, ReadApprove, ReadPause, ReadResume,
         ReadRevise, ReadRaise, RaiseBudget, SettleEnded
    <3>. QED BY <1>1, <3>1 DEF RunTypeOK, runVars, faultVars
  <2>. QED BY <2>1, <2>2, <2>3, <2>4, <2>5
<1>4. ASSUME NEW s \in Sweepers, Recover(s) \/ CrashSweep(s)
      PROVE  RunTypeOK'
  <2>1. CASE RequeueOrphaned(s)
    BY <1>1, <2>1, EnqueueKeeps DEF RequeueOrphaned, RunTypeOK, runVars, faultVars
  <2>2. CASE KickStalled(s)
    BY <1>1, <2>2, EnqueueKeeps DEF KickStalled, RunTypeOK, runVars, faultVars
  <2>3. CASE ParkStalled(s)
    BY <1>1, <2>3, ParkKeeps DEF ParkStalled, RunTypeOK, Statuses, faultVars
  <2>4. CASE CrashSweep(s)
    BY <1>1, <2>4, BoundsAssumption DEF CrashSweep, RunTypeOK, runVars
  <2>5. CASE ~(RequeueOrphaned(s) \/ KickStalled(s) \/ ParkStalled(s) \/ CrashSweep(s))
    <3>1. UNCHANGED <<runVars, reports, jobs, faultVars>>
      BY <1>4, <2>5 DEF Recover, FindOrphans, ReclaimOrphans, FinishOrphaned,
         SettleOrphaned, FindStalled, CheckStalled
    <3>. QED BY <1>1, <3>1 DEF RunTypeOK, runVars, faultVars
  <2>. QED BY <2>1, <2>2, <2>3, <2>4, <2>5
<1>5. CASE FindUnsettled \/ RetrySettlement \/ UNCHANGED vars
  BY <1>1, <1>5 DEF FindUnsettled, RetrySettlement, vars, RunTypeOK, runVars, faultVars
<1>6. ASSUME NEW r \in Rows, ExpireLease(r) \/ LoseLease(r) \/ Heartbeat(r)
      PROVE  RunTypeOK'
  BY <1>1, <1>6, BoundsAssumption DEF ExpireLease, LoseLease, Heartbeat, RunTypeOK, runVars, faultVars
<1>. QED BY <1>2, <1>3, <1>4, <1>5, <1>6 DEF Next

\* Owner requests keep their types, and revisions fit.
LEMMA RequestTypeKept ==
    TypeOK /\ RevisionsFit /\ [Next]_vars => RequestTypeOK' /\ RevisionsFit'
<1>. SUFFICES ASSUME TypeOK, RevisionsFit, [Next]_vars
              PROVE  RequestTypeOK' /\ RevisionsFit'
  OBVIOUS
<1>1. RequestTypeOK /\ version \in Versions
  BY DEF TypeOK, RunTypeOK
<1>2. ASSUME UNCHANGED requestVars PROVE RequestTypeOK' /\ RevisionsFit'
  BY <1>1, <1>2 DEF RequestTypeOK, RevisionsFit, requestVars
<1>3. ASSUME NEW o \in Requests, Ask(o)
      PROVE  RequestTypeOK' /\ RevisionsFit'
  <2>1. CASE ReadRevise(o)
    BY <1>1, <2>1 DEF ReadRevise, Reply, RequestTypeOK, RevisionsFit
  <2>2. CASE ~ReadRevise(o)
    <3>1. UNCHANGED seen /\ \E place \in {"approve", "pause", "resume", "raise",
                                          "raiseParked", "none", "settle"} :
                              Reply(o, place)
      BY <1>3, <2>2 DEF Ask, ReadApprove, ReadPause, ReadResume, ReadRaise, EndRun
    <3>. QED BY <1>1, <3>1 DEF Reply, RequestTypeOK, RevisionsFit
  <2>. QED BY <2>1, <2>2
<1>4. ASSUME NEW o \in Requests, Answer(o) \/ CrashRequest(o)
      PROVE  RequestTypeOK' /\ RevisionsFit'
  <2>1. 1 \in Versions
    BY BoundsAssumption DEF Versions
  <2>2. /\ seen' = seen \/ seen' = [seen EXCEPT ![o] = 1]
        /\ \E place \in {"none", "enqueue", "unpark"} : Reply(o, place)
    <3>1. CASE RaiseBudget(o)
      <4>1. UNCHANGED seen /\ (Reply(o, "none") \/ Reply(o, "unpark"))
        BY <3>1 DEF RaiseBudget
      <4>. QED BY <4>1
    <3>2. CASE ~RaiseBudget(o)
      BY <1>4, <3>2 DEF Answer, CrashRequest, WritePause, WriteRunning,
         WriteRevise, RequestExecute, SettleEnded
    <3>. QED BY <3>1, <3>2
  <2>. QED BY <1>1, <2>1, <2>2 DEF Reply, RequestTypeOK, RevisionsFit
<1>5. ASSUME NEW w \in Workers, TakeJob(w) \/ Drive(w) \/ CrashDriver(w)
      PROVE  UNCHANGED requestVars
  BY <1>5 DEF TakeJob, CrashDriver, Drive, StageWork, RoundTop,
     ReloadForWrite, SkipStage, BusyStage, ClaimStage, StageReturns, StageSkips,
     StageParks, StageThrows, WriteReport, VerifyReport, ChargeStage,
     ParkAtCap, FinishStage, FailStage, ParkFailed, AfterStage, CompleteRun,
     SettleComplete, FinishTerminalRun, SettleTerminal
<1>6. ASSUME NEW s \in Sweepers, Recover(s) \/ CrashSweep(s)
      PROVE  UNCHANGED requestVars
  BY <1>6 DEF Recover, CrashSweep, FindOrphans, ReclaimOrphans,
     RequeueOrphaned, FinishOrphaned, SettleOrphaned, FindStalled,
     CheckStalled, ParkStalled, KickStalled
<1>7. ASSUME NEW r \in Rows, ExpireLease(r) \/ LoseLease(r) \/ Heartbeat(r)
      PROVE  UNCHANGED requestVars
  BY <1>7 DEF ExpireLease, LoseLease, Heartbeat
<1>8. CASE FindUnsettled \/ RetrySettlement \/ UNCHANGED vars
  BY <1>2, <1>8 DEF FindUnsettled, RetrySettlement, vars
<1>. QED BY <1>2, <1>3, <1>4, <1>5, <1>6, <1>7, <1>8 DEF Next

\* The sweeps keep their types.
LEMMA SweepTypeKept == TypeOK /\ [Next]_vars => SweepTypeOK'
<1>. SUFFICES ASSUME TypeOK, [Next]_vars PROVE SweepTypeOK'
  OBVIOUS
<1>1. SweepTypeOK /\ status \in Statuses
  BY DEF TypeOK, RunTypeOK
<1>2. ASSUME UNCHANGED sweepVars PROVE SweepTypeOK'
  BY <1>1, <1>2 DEF SweepTypeOK, sweepVars
<1>3. ASSUME NEW s \in Sweepers, Recover(s) \/ CrashSweep(s)
      PROVE  SweepTypeOK'
  <2>1. UNCHANGED retry
    BY <1>3 DEF Recover, CrashSweep, FindOrphans, ReclaimOrphans,
       RequeueOrphaned, FinishOrphaned, SettleOrphaned, FindStalled,
       CheckStalled, ParkStalled, KickStalled
  <2>2. \E place \in {"orphans", "reclaim", "requeue", "finish", "settle",
                      "stalled", "check", "park", "kick"} : Sweep(s, place)
    BY <1>3 DEF Recover, CrashSweep, FindOrphans, ReclaimOrphans,
       RequeueOrphaned, FinishOrphaned, SettleOrphaned, FindStalled,
       CheckStalled, ParkStalled, KickStalled
  <2>3. \/ UNCHANGED snap
        \/ \E seenStatus \in Statuses : snap' = [snap EXCEPT ![s] = seenStatus]
    BY <1>1, <1>3 DEF Recover, CrashSweep, FindOrphans, ReclaimOrphans,
       RequeueOrphaned, FinishOrphaned, SettleOrphaned, FindStalled,
       CheckStalled, ParkStalled, KickStalled, Statuses
  <2>. QED BY <1>1, <2>1, <2>2, <2>3 DEF Sweep, SweepTypeOK
<1>4. ASSUME NEW w \in Workers, TakeJob(w) \/ Drive(w) \/ CrashDriver(w)
      PROVE  UNCHANGED sweepVars
  BY <1>4 DEF TakeJob, CrashDriver, Drive, StageWork, RoundTop,
     ReloadForWrite, SkipStage, BusyStage, ClaimStage, StageReturns, StageSkips,
     StageParks, StageThrows, WriteReport, VerifyReport, ChargeStage,
     ParkAtCap, FinishStage, FailStage, ParkFailed, AfterStage, CompleteRun,
     SettleComplete, FinishTerminalRun, SettleTerminal
<1>5. ASSUME NEW o \in Requests, Ask(o) \/ Answer(o) \/ CrashRequest(o)
      PROVE  UNCHANGED sweepVars
  BY <1>5 DEF Ask, Answer, CrashRequest, ReadApprove, ReadPause, ReadResume,
     ReadRevise, ReadRaise, EndRun, WritePause, WriteRunning, WriteRevise,
     RequestExecute, RaiseBudget, SettleEnded
<1>6. ASSUME NEW r \in Rows, ExpireLease(r) \/ LoseLease(r) \/ Heartbeat(r)
      PROVE  UNCHANGED sweepVars
  BY <1>6 DEF ExpireLease, LoseLease, Heartbeat
<1>7. CASE FindUnsettled \/ RetrySettlement \/ UNCHANGED vars
  BY <1>1, <1>7 DEF FindUnsettled, RetrySettlement, vars, SweepTypeOK, sweepVars
<1>. QED BY <1>2, <1>3, <1>4, <1>5, <1>6, <1>7 DEF Next

-----------------------------------------------------------------------------
(* The drivers *)

\* Where a driver has claimed a row and not yet written its outcome.
Holding == {"work", "verify", "draw", "cap", "vcap", "mark", "error"}
\* The row such a driver holds is a claimed row of its own stage.
DriversHoldRows ==
    \A w \in Workers : pc[w] \in Holding =>
        /\ row[w] \in Rows
        /\ steps[row[w]].status # "none"
        /\ steps[row[w]].ref = StageRef(w)

\* Driver w reviews a round after which no other is allowed.
AtLimit(w) == KindOf(w) = "review" /\ round[w] >= MaxRounds
\* Such a review, on its way to the checkpoint, says "write".
ReviewsStop ==
    \A w \in Workers :
        /\ pc[w] \in {"verify", "vcap"} => KindOf(w) = "write"
        /\ pc[w] \in {"draw", "cap", "mark", "after"} /\ AtLimit(w) /\ ~out[w].parked
             => out[w].verdict = "write"

\* So does every finished one.
LastReviews ==
    \A r \in Rows, v \in Versions, n \in MaxRounds..MaxRounds + 1 :
        steps[r].status = "done" /\ steps[r].ref = ReviewRef(v, n)
            => steps[r].output.verdict = "write"

\* The stages of a pass are numbered through the write and the tips.
LEMMA IdxArith ==
    /\ Len(RoundKinds) \in Nat \ {0}
    /\ WriteIdx = Len(RoundKinds) + 1 /\ TipsIdx = Len(RoundKinds) + 2
BY PipelineAssumption DEF WriteIdx, TipsIdx

\* A driver never leaves the rounds and stages there are.
LEMMA DriverTypeKept ==
    TypeOK /\ ReviewsStop /\ [Next]_vars => DriverTypeOK'
<1>. SUFFICES ASSUME TypeOK, ReviewsStop, [Next]_vars PROVE DriverTypeOK'
  OBVIOUS
<1>1. /\ DriverTypeOK /\ version \in Versions /\ steps \in [Rows -> StepRows]
      /\ MaxRounds \in 0..998 /\ 1 \in Versions
  BY BoundsAssumption DEF TypeOK, RunTypeOK, Versions
<1>2. NoOutcome \in Outcomes
  BY DEF NoOutcome, Outcomes, Verdicts
<1>3. ASSUME UNCHANGED driverVars PROVE DriverTypeOK'
  BY <1>1, <1>3 DEF DriverTypeOK, driverVars
<1>4. ASSUME NEW w \in Workers, Leave(w) PROVE DriverTypeOK'
  BY <1>1, <1>2, <1>4, IdxArith DEF Leave, Goto, DriverTypeOK, Places
<1>5. ASSUME NEW w \in Workers, TakeJob(w) PROVE DriverTypeOK'
  BY <1>1, <1>5 DEF TakeJob, Goto, DriverTypeOK, Places
<1>6. ASSUME NEW w \in Workers, RoundTop(w) PROVE DriverTypeOK'
  <2>1. UNCHANGED <<row, round, out>> /\ \E place \in Places : Goto(w, place)
    BY <1>6 DEF RoundTop, Places
  <2>2. ver' \in [Workers -> Versions]
    BY <1>1, <1>6 DEF RoundTop, DriverTypeOK
  <2>3. idx' \in [Workers -> 1..TipsIdx]
    BY <1>1, <1>6, IdxArith DEF RoundTop, DriverTypeOK
  <2>4. pc' \in [Workers -> Places]
    BY <1>1, <2>1 DEF Goto, DriverTypeOK
  <2>5. /\ row' \in [Workers -> Rows \cup {0}]
        /\ round' \in [Workers -> 0..MaxRounds + 1]
        /\ out' \in [Workers -> Outcomes]
    BY <1>1, <2>1 DEF DriverTypeOK
  <2>. QED BY <2>2, <2>3, <2>4, <2>5 DEF DriverTypeOK
<1>7. ASSUME NEW w \in Workers, ReloadForWrite(w) PROVE DriverTypeOK'
  BY <1>1, <1>7, IdxArith DEF ReloadForWrite, Goto, DriverTypeOK, Places
<1>8. ASSUME NEW w \in Workers, SkipStage(w) PROVE DriverTypeOK'
  <2>1. PICK r \in Rows : out' = [out EXCEPT ![w] = steps[r].output]
    BY <1>8 DEF SkipStage
  <2>2. steps[r].output \in Outcomes
    BY <1>1 DEF StepRows
  <2>. QED BY <1>1, <1>8, <2>1, <2>2 DEF SkipStage, Goto, DriverTypeOK, Places
<1>9. ASSUME NEW w \in Workers, ClaimStage(w) PROVE DriverTypeOK'
  BY <1>1, <1>2, <1>9 DEF ClaimStage, Goto, DriverTypeOK, Places
<1>10. ASSUME NEW w \in Workers, StageReturns(w) PROVE DriverTypeOK'
  <2>1. PICK verdict \in {"none", "write", "continue"} :
            out' = [out EXCEPT ![w].verdict = verdict]
    BY <1>10 DEF StageReturns, VerdictsAt
  <2>2. out[w] \in Outcomes
    BY <1>1 DEF DriverTypeOK
  <2>3. [out[w] EXCEPT !.verdict = verdict] \in Outcomes
    BY <2>2 DEF Outcomes, Verdicts
  <2>. QED BY <1>1, <1>10, <2>1, <2>3 DEF StageReturns, Goto, DriverTypeOK, Places
<1>11. ASSUME NEW w \in Workers, StageParks(w) PROVE DriverTypeOK'
  <2>0. out[w] \in Outcomes
    BY <1>1 DEF DriverTypeOK
  <2>1. [out[w] EXCEPT !.parked = TRUE] \in Outcomes
    BY <2>0 DEF Outcomes
  <2>. QED BY <1>1, <1>11, <2>1 DEF StageParks, Goto, DriverTypeOK, Places
<1>12. ASSUME NEW w \in Workers, ChargeStage(w) PROVE DriverTypeOK'
  <2>1. PICK cost \in Costs :
          /\ out' = [out EXCEPT ![w].budgetOk = DrawOk(StageRef(w), cost)]
          /\ Goto(w, IF DrawOk(StageRef(w), cost) THEN "mark" ELSE "cap")
    BY <1>12 DEF ChargeStage
  <2>2. DrawOk(StageRef(w), cost) \in BOOLEAN
    BY DEF DrawOk
  <2>3. PICK b \in BOOLEAN : out' = [out EXCEPT ![w].budgetOk = b]
    BY <2>1, <2>2
  <2>4. out[w] \in Outcomes
    BY <1>1 DEF DriverTypeOK
  <2>5. [out[w] EXCEPT !.budgetOk = b] \in Outcomes
    BY <2>4 DEF Outcomes
  <2>. QED BY <1>1, <1>12, <2>1, <2>3, <2>5
           DEF ChargeStage, Goto, DriverTypeOK, Places
<1>13. ASSUME NEW w \in Workers, AfterStage(w) PROVE DriverTypeOK'
  <2>1. pc' \in [Workers -> Places] /\ UNCHANGED <<row, ver>>
        /\ out' \in [Workers -> Outcomes]
    BY <1>1, <1>2, <1>13 DEF AfterStage, Goto, DriverTypeOK, Places
  <2>2. idx' \in [Workers -> 1..TipsIdx]
    BY <1>1, <1>13, IdxArith DEF AfterStage, DriverTypeOK
  <2>3. round' \in [Workers -> 0..MaxRounds + 1]
    <3>1. CASE UNCHANGED round
      BY <1>1, <3>1 DEF DriverTypeOK
    <3>2. CASE ~UNCHANGED round
      <4>1. /\ pc[w] = "after" /\ KindOf(w) = "review" /\ ~out[w].parked
            /\ out[w].verdict # "write"
            /\ round' = [round EXCEPT ![w] = @ + 1]
        BY <1>13, <3>2 DEF AfterStage, Stops
      <4>2. ~(round[w] >= MaxRounds)
        BY <4>1 DEF ReviewsStop, AtLimit
      <4>. QED BY <1>1, <4>1, <4>2 DEF DriverTypeOK
    <3>. QED BY <3>1, <3>2
  <2>. QED BY <1>1, <2>1, <2>2, <2>3 DEF DriverTypeOK
<1>14. ASSUME NEW w \in Workers,
              BusyStage(w) \/ StageSkips(w) \/ StageThrows(w) \/ WriteReport(w)
                \/ VerifyReport(w) \/ ParkAtCap(w) \/ ParkFailed(w)
                \/ CompleteRun(w) \/ SettleComplete(w)
       PROVE  DriverTypeOK'
  <2>1. UNCHANGED <<row, ver, round, idx, out>>
        /\ \E place \in Places : Goto(w, place)
    BY <1>14 DEF BusyStage, StageSkips, StageThrows, WriteReport, VerifyReport,
       ParkAtCap, ParkFailed, CompleteRun, SettleComplete, Places
  <2>. QED BY <1>1, <2>1 DEF Goto, DriverTypeOK
<1>15. ASSUME NEW w \in Workers, FinishStage(w) \/ FailStage(w)
       PROVE  DriverTypeOK'
  BY <1>1, <1>15 DEF FinishStage, FailStage, Goto, DriverTypeOK, Places
<1>16. ASSUME NEW w \in Workers, FinishTerminalRun(w)
       PROVE  DriverTypeOK'
  <2>1. CASE Leave(w)
    BY <1>4, <2>1
  <2>2. CASE ~Leave(w)
    BY <1>1, <1>16, <2>2 DEF FinishTerminalRun, Goto, DriverTypeOK, Places
  <2>. QED BY <2>1, <2>2
<1>17. ASSUME NEW w \in Workers, SettleTerminal(w) \/ CrashDriver(w)
       PROVE  DriverTypeOK'
  BY <1>4, <1>17 DEF SettleTerminal, CrashDriver
<1>18. ASSUME NEW w \in Workers, TakeJob(w) \/ Drive(w) \/ CrashDriver(w)
       PROVE  DriverTypeOK'
  BY <1>5, <1>6, <1>7, <1>8, <1>9, <1>10, <1>11, <1>12, <1>13, <1>14, <1>15,
     <1>16, <1>17, <1>18 DEF Drive, StageWork
<1>19. ASSUME NEW o \in Requests, Ask(o) \/ Answer(o) \/ CrashRequest(o)
       PROVE  UNCHANGED driverVars
  BY <1>19 DEF Ask, Answer, CrashRequest, ReadApprove, ReadPause, ReadResume,
     ReadRevise, ReadRaise, EndRun, WritePause, WriteRunning, WriteRevise,
     RequestExecute, RaiseBudget, SettleEnded
<1>20. ASSUME NEW s \in Sweepers, Recover(s) \/ CrashSweep(s)
       PROVE  UNCHANGED driverVars
  BY <1>20 DEF Recover, CrashSweep, FindOrphans, ReclaimOrphans,
     RequeueOrphaned, FinishOrphaned, SettleOrphaned, FindStalled,
     CheckStalled, ParkStalled, KickStalled
<1>21. ASSUME NEW r \in Rows, ExpireLease(r) \/ LoseLease(r) \/ Heartbeat(r)
       PROVE  UNCHANGED driverVars
  BY <1>21 DEF ExpireLease, LoseLease, Heartbeat
<1>22. CASE FindUnsettled \/ RetrySettlement \/ UNCHANGED vars
  BY <1>3, <1>22 DEF FindUnsettled, RetrySettlement, vars
<1>. QED BY <1>3, <1>18, <1>19, <1>20, <1>21, <1>22 DEF Next

\* What one step does to a row: a driver claims it, or writes its outcome; or it stays active
\* or becomes pending, if nobody holds it, it is expired or its holder is stalled.
RowMoves(r) ==
    \/ steps'[r] = steps[r]
    \/ \E w \in Workers :
         /\ ClaimStage(w) /\ row'[w] = r /\ steps[r].status = "none"
         /\ steps'[r] = [status |-> "active", ref |-> StageRef(w),
                         expired |-> FALSE, output |-> NoOutcome]
    \/ \E w \in Workers :
         /\ FinishStage(w) /\ r = row[w]
         /\ steps'[r] = [status |-> Checkpointed(out[w]), ref |-> steps[r].ref,
                         expired |-> FALSE, output |-> out[w]]
    \/ \E w \in Workers :
         /\ FailStage(w) /\ r = row[w]
         /\ steps'[r].status = "failed" /\ steps'[r].ref = steps[r].ref
    \/ /\ steps[r].status = "active" /\ (r \in Held => r \in Orphans \/ stalls' # 0)
       /\ steps'[r].status \in {"active", "pending"} /\ steps'[r].ref = steps[r].ref

\* Every step of the system changes every row in one of those ways.
LEMMA RowsMove == TypeOK /\ [Next]_vars => \A r \in Rows : RowMoves(r)
<1>. SUFFICES ASSUME TypeOK, [Next]_vars, NEW q \in Rows PROVE RowMoves(q)
  OBVIOUS
<1>1. steps \in [Rows -> StepRows] /\ stalls \in Nat /\ DriverTypeOK /\ q # 0
  BY BoundsAssumption, RowsAssumption DEF TypeOK, RunTypeOK
<1>2. ASSUME UNCHANGED steps PROVE RowMoves(q)
  BY <1>2 DEF RowMoves
<1>4. ASSUME NEW w \in Workers, ClaimStage(w) PROVE RowMoves(q)
  <2>1. PICK r \in Unused :
          /\ steps' = [steps EXCEPT ![r] =
                        [status |-> "active", ref |-> StageRef(w),
                         expired |-> FALSE, output |-> NoOutcome]]
          /\ row' = [row EXCEPT ![w] = r]
    BY <1>4 DEF ClaimStage, Oldest
  <2>2. row'[w] = r
    BY <1>1, <2>1 DEF DriverTypeOK
  <2>3. q = r => /\ steps[q].status = "none"
                 /\ steps'[q] = [status |-> "active", ref |-> StageRef(w),
                                 expired |-> FALSE, output |-> NoOutcome]
    BY <1>1, <2>1 DEF Unused
  <2>4. q # r => steps'[q] = steps[q]
    BY <1>1, <2>1
  <2>. QED BY <1>4, <2>2, <2>3, <2>4 DEF RowMoves
<1>5. ASSUME NEW w \in Workers, FinishStage(w) PROVE RowMoves(q)
  <2>1. q # row[w] => steps'[q] = steps[q]
    BY <1>1, <1>5 DEF FinishStage
  <2>2. q = row[w] =>
          steps'[q] = [status |-> Checkpointed(out[w]), ref |-> steps[q].ref,
                       expired |-> FALSE, output |-> out[w]]
    BY <1>1, <1>5 DEF FinishStage
  <2>. QED BY <1>5, <2>1, <2>2 DEF RowMoves
<1>6. ASSUME NEW w \in Workers, FailStage(w) PROVE RowMoves(q)
  <2>1. q # row[w] => steps'[q] = steps[q]
    BY <1>1, <1>6 DEF FailStage
  <2>2. q = row[w] =>
          steps'[q] = [steps[q] EXCEPT !.status = "failed", !.expired = FALSE]
    BY <1>1, <1>6 DEF FailStage
  <2>3. steps[q] \in StepRows
    BY <1>1
  <2>4. q = row[w] => steps'[q].status = "failed" /\ steps'[q].ref = steps[q].ref
    BY <2>2, <2>3 DEF StepRows
  <2>. QED BY <1>6, <2>1, <2>4 DEF RowMoves
<1>7. ASSUME NEW s \in Sweepers, ReclaimOrphans(s) PROVE RowMoves(q)
  <2>1. steps'[q] = IF q \in Orphans
                      THEN [steps[q] EXCEPT !.status = "pending", !.expired = FALSE]
                      ELSE steps[q]
    BY <1>7 DEF ReclaimOrphans
  <2>2. steps[q] \in StepRows
    BY <1>1
  <2>3. q \in Orphans => /\ steps[q].status = "active"
                         /\ steps'[q].status = "pending" /\ steps'[q].ref = steps[q].ref
    BY <2>1, <2>2 DEF StepRows, Orphans, Active
  <2>. QED BY <2>1, <2>3 DEF RowMoves
<1>8. ASSUME NEW r \in Rows, ExpireLease(r) \/ LoseLease(r) \/ Heartbeat(r)
      PROVE  RowMoves(q)
  <2>1. PICK b \in BOOLEAN : steps' = [steps EXCEPT ![r].expired = b]
    BY <1>8 DEF ExpireLease, LoseLease, Heartbeat
  <2>2. steps[r].status = "active" /\ (r \in Held => r \in Orphans \/ stalls' # 0)
    BY <1>1, <1>8 DEF ExpireLease, LoseLease, Heartbeat, Orphans, Active
  <2>3. q # r => steps'[q] = steps[q]
    BY <1>1, <2>1
  <2>4. q = r => steps'[q] = [steps[q] EXCEPT !.expired = b]
    BY <1>1, <2>1
  <2>5. steps[q] \in StepRows
    BY <1>1
  <2>6. q = r => steps'[q].status = "active" /\ steps'[q].ref = steps[q].ref
    BY <2>2, <2>4, <2>5 DEF StepRows
  <2>. QED BY <2>2, <2>3, <2>6 DEF RowMoves
<1>9. ASSUME NEW w \in Workers, TakeJob(w) \/ Drive(w) \/ CrashDriver(w)
      PROVE  RowMoves(q)
  <2>1. CASE ~(ClaimStage(w) \/ FinishStage(w) \/ FailStage(w))
    <3>1. UNCHANGED steps
      BY <1>9, <2>1 DEF TakeJob, CrashDriver, Drive, StageWork, RoundTop,
         ReloadForWrite, SkipStage, BusyStage, StageReturns, StageSkips,
         StageParks, StageThrows, WriteReport, VerifyReport, ChargeStage,
         ParkAtCap, ParkFailed, AfterStage, CompleteRun, SettleComplete,
         FinishTerminalRun, SettleTerminal
    <3>. QED BY <1>2, <3>1
  <2>. QED BY <1>4, <1>5, <1>6, <2>1
<1>10. ASSUME NEW o \in Requests, Ask(o) \/ Answer(o) \/ CrashRequest(o)
       PROVE  UNCHANGED steps
  BY <1>10 DEF Ask, Answer, CrashRequest, ReadApprove, ReadPause, ReadResume,
     ReadRevise, ReadRaise, EndRun, WritePause, WriteRunning, WriteRevise,
     RequestExecute, RaiseBudget, SettleEnded
<1>11. ASSUME NEW s \in Sweepers, Recover(s) \/ CrashSweep(s)
       PROVE  ReclaimOrphans(s) \/ UNCHANGED steps
  BY <1>11 DEF Recover, CrashSweep, FindOrphans, RequeueOrphaned,
     FinishOrphaned, SettleOrphaned, FindStalled, CheckStalled, ParkStalled,
     KickStalled
<1>12. CASE FindUnsettled \/ RetrySettlement \/ UNCHANGED vars
  <2>1. UNCHANGED steps
    BY <1>12 DEF FindUnsettled, RetrySettlement, vars
  <2>. QED BY <1>2, <2>1
<1>. QED BY <1>2, <1>7, <1>8, <1>9, <1>10, <1>11, <1>12 DEF Next

\* A claimed row keeps its stage for ever.
LEMMA RowsStay ==
    TypeOK /\ [Next]_vars =>
        \A r \in Rows : steps[r].status # "none" =>
            steps'[r].status # "none" /\ steps'[r].ref = steps[r].ref
<1>. SUFFICES ASSUME TypeOK, [Next]_vars, NEW r \in Rows, steps[r].status # "none"
              PROVE  steps'[r].status # "none" /\ steps'[r].ref = steps[r].ref
  OBVIOUS
<1>1. RowMoves(r)
  BY RowsMove
<1>2. ASSUME NEW w \in Workers,
             steps'[r] = [status |-> Checkpointed(out[w]), ref |-> steps[r].ref,
                          expired |-> FALSE, output |-> out[w]]
      PROVE  steps'[r].status # "none" /\ steps'[r].ref = steps[r].ref
  <2>1. Checkpointed(out[w]) # "none"
    BY DEF Checkpointed
  <2>. QED BY <1>2, <2>1
<1>3. CASE steps'[r] = steps[r]
  BY <1>3
<1>4. CASE /\ steps'[r].ref = steps[r].ref
           /\ steps'[r].status \in {"active", "pending", "failed"}
  BY <1>4
<1>. QED BY <1>1, <1>2, <1>3, <1>4 DEF RowMoves

\* Nothing of driver w changes.
SameLocals(w) ==
    /\ pc'[w] = pc[w] /\ row'[w] = row[w] /\ ver'[w] = ver[w]
    /\ round'[w] = round[w] /\ idx'[w] = idx[w] /\ out'[w] = out[w]

\* A driver changes only by its own steps, or when it crashes.
LEMMA DriversMove ==
    TypeOK /\ [Next]_vars =>
        \A w \in Workers : SameLocals(w) \/ TakeJob(w) \/ Drive(w) \/ CrashDriver(w)
<1>. SUFFICES ASSUME TypeOK, [Next]_vars, NEW w \in Workers
              PROVE  SameLocals(w) \/ TakeJob(w) \/ Drive(w) \/ CrashDriver(w)
  OBVIOUS
<1>1. DriverTypeOK
  BY DEF TypeOK
<1>2. ASSUME UNCHANGED driverVars PROVE SameLocals(w)
  BY <1>2 DEF SameLocals, driverVars
<1>3. ASSUME NEW x \in Workers, x # w, TakeJob(x) \/ Drive(x) \/ CrashDriver(x)
      PROVE  SameLocals(w)
  <2>1. pc'[w] = pc[w]
    BY <1>1, <1>3 DEF DriverTypeOK, TakeJob, CrashDriver, Drive, StageWork,
       RoundTop, ReloadForWrite, SkipStage, BusyStage, ClaimStage,
       StageReturns, StageSkips, StageParks, StageThrows, WriteReport,
       VerifyReport, ChargeStage, ParkAtCap, FinishStage, FailStage,
       ParkFailed, AfterStage, CompleteRun, SettleComplete, FinishTerminalRun,
       SettleTerminal, Leave, Goto
  <2>2. row'[w] = row[w] /\ out'[w] = out[w]
    BY <1>1, <1>3 DEF DriverTypeOK, TakeJob, CrashDriver, Drive, StageWork,
       RoundTop, ReloadForWrite, SkipStage, BusyStage, ClaimStage,
       StageReturns, StageSkips, StageParks, StageThrows, WriteReport,
       VerifyReport, ChargeStage, ParkAtCap, FinishStage, FailStage,
       ParkFailed, AfterStage, CompleteRun, SettleComplete, FinishTerminalRun,
       SettleTerminal, Leave
  <2>3. ver'[w] = ver[w] /\ round'[w] = round[w] /\ idx'[w] = idx[w]
    BY <1>1, <1>3 DEF DriverTypeOK, TakeJob, CrashDriver, Drive, StageWork,
       RoundTop, ReloadForWrite, SkipStage, BusyStage, ClaimStage,
       StageReturns, StageSkips, StageParks, StageThrows, WriteReport,
       VerifyReport, ChargeStage, ParkAtCap, FinishStage, FailStage,
       ParkFailed, AfterStage, CompleteRun, SettleComplete, FinishTerminalRun,
       SettleTerminal, Leave
  <2>. QED BY <2>1, <2>2, <2>3 DEF SameLocals
<1>4. ASSUME NEW o \in Requests, Ask(o) \/ Answer(o) \/ CrashRequest(o)
      PROVE  UNCHANGED driverVars
  BY <1>4 DEF Ask, Answer, CrashRequest, ReadApprove, ReadPause, ReadResume,
     ReadRevise, ReadRaise, EndRun, WritePause, WriteRunning, WriteRevise,
     RequestExecute, RaiseBudget, SettleEnded
<1>5. ASSUME NEW s \in Sweepers, Recover(s) \/ CrashSweep(s)
      PROVE  UNCHANGED driverVars
  BY <1>5 DEF Recover, CrashSweep, FindOrphans, ReclaimOrphans,
     RequeueOrphaned, FinishOrphaned, SettleOrphaned, FindStalled,
     CheckStalled, ParkStalled, KickStalled
<1>6. ASSUME NEW r \in Rows, ExpireLease(r) \/ LoseLease(r) \/ Heartbeat(r)
      PROVE  UNCHANGED driverVars
  BY <1>6 DEF ExpireLease, LoseLease, Heartbeat
<1>7. CASE FindUnsettled \/ RetrySettlement \/ UNCHANGED vars
  <2>1. UNCHANGED driverVars
    BY <1>7 DEF FindUnsettled, RetrySettlement, vars
  <2>. QED BY <1>2, <2>1
<1>. QED BY <1>2, <1>3, <1>4, <1>5, <1>6, <1>7 DEF Next

\* A driver keeps the row of its stage until it writes the outcome.
LEMMA DriversHoldRowsKept ==
    TypeOK /\ DriversHoldRows /\ [Next]_vars => DriversHoldRows'
<1>. SUFFICES ASSUME TypeOK, DriversHoldRows, [Next]_vars,
                     NEW w \in Workers, pc'[w] \in Holding
              PROVE  /\ row'[w] \in Rows
                     /\ steps'[row'[w]].status # "none"
                     /\ steps'[row'[w]].ref = StageRef(w)'
  BY DEF DriversHoldRows
<1>1. DriverTypeOK /\ steps \in [Rows -> StepRows]
  BY DEF TypeOK, RunTypeOK
<1>2. CASE /\ pc[w] \in Holding /\ row'[w] = row[w] /\ ver'[w] = ver[w]
           /\ round'[w] = round[w] /\ idx'[w] = idx[w]
  <2>1. row[w] \in Rows /\ steps[row[w]].status # "none"
        /\ steps[row[w]].ref = StageRef(w)
    BY <1>2 DEF DriversHoldRows
  <2>2. StageRef(w)' = StageRef(w)
    BY <1>2 DEF StageRef, KindOf
  <2>3. steps'[row[w]].status # "none" /\ steps'[row[w]].ref = steps[row[w]].ref
    BY <2>1, RowsStay
  <2>. QED BY <1>2, <2>1, <2>2, <2>3
<1>3. CASE ClaimStage(w)
  <2>1. PICK r \in Rows :
          /\ steps' = [steps EXCEPT ![r] =
                         [status |-> "active", ref |-> StageRef(w),
                          expired |-> FALSE, output |-> NoOutcome]]
          /\ row' = [row EXCEPT ![w] = r]
    BY <1>3 DEF ClaimStage
  <2>2. StageRef(w)' = StageRef(w)
    BY <1>3 DEF ClaimStage, StageRef, KindOf
  <2>3. row'[w] = r
    BY <1>1, <2>1 DEF DriverTypeOK
  <2>. QED BY <1>1, <2>1, <2>2, <2>3
<1>4. CASE StageWork(w) /\ ~FinishStage(w) /\ ~FailStage(w) /\ ~ParkFailed(w)
  <2>1. pc[w] \in Holding /\ UNCHANGED <<row, ver, round, idx>>
    BY <1>4 DEF StageWork, StageReturns, StageSkips, StageParks, StageThrows,
       WriteReport, VerifyReport, ChargeStage, ParkAtCap, Holding
  <2>. QED BY <1>2, <2>1
<1>5. CASE SameLocals(w)
  BY <1>2, <1>5 DEF SameLocals
<1>6. CASE TakeJob(w) \/ CrashDriver(w) \/ RoundTop(w) \/ ReloadForWrite(w)
           \/ SkipStage(w) \/ BusyStage(w) \/ FinishStage(w) \/ FailStage(w)
           \/ ParkFailed(w) \/ AfterStage(w) \/ CompleteRun(w)
           \/ SettleComplete(w) \/ FinishTerminalRun(w) \/ SettleTerminal(w)
  <2>1. pc'[w] \notin Holding
    BY <1>1, <1>6 DEF TakeJob, CrashDriver, RoundTop, ReloadForWrite,
       SkipStage, BusyStage, FinishStage, FailStage, ParkFailed, AfterStage,
       CompleteRun, SettleComplete, FinishTerminalRun, SettleTerminal,
       Leave, Goto, Holding, DriverTypeOK
  <2>. QED BY <2>1
<1>. QED BY <1>3, <1>4, <1>5, <1>6, DriversMove DEF Drive, StageWork

\* decideRoundContinue answers "write" at the limit, and so do skipped reviews.
LEMMA ReviewsStopKept ==
    TypeOK /\ ReviewsStop /\ LastReviews /\ [Next]_vars => ReviewsStop'
<1>. SUFFICES ASSUME TypeOK, ReviewsStop, LastReviews, [Next]_vars, NEW w \in Workers
              PROVE  /\ pc'[w] \in {"verify", "vcap"} => KindOf(w)' = "write"
                     /\ pc'[w] \in {"draw", "cap", "mark", "after"} /\ AtLimit(w)'
                           /\ ~out'[w].parked => out'[w].verdict = "write"
  BY DEF ReviewsStop
<1>1. DriverTypeOK /\ steps \in [Rows -> StepRows] /\ out[w] \in Outcomes
  BY DEF TypeOK, RunTypeOK, DriverTypeOK
<1>2. ASSUME UNCHANGED <<idx[w], round[w]>>
      PROVE  KindOf(w)' = KindOf(w) /\ AtLimit(w)' = AtLimit(w)
  BY <1>2 DEF KindOf, AtLimit
<1>3. CASE SameLocals(w)
  BY <1>2, <1>3 DEF SameLocals, ReviewsStop
<1>4. CASE SkipStage(w)
  <2>1. PICK r \in Rows : /\ Latest(r, DoneRows(StageRef(w)))
                          /\ out' = [out EXCEPT ![w] = steps[r].output]
    BY <1>4 DEF SkipStage
  <2>2. /\ pc'[w] = "after" /\ out'[w] = steps[r].output
        /\ UNCHANGED <<idx, round, ver>>
    BY <1>1, <1>4, <2>1 DEF SkipStage, Goto, DriverTypeOK
  <2>3. steps[r].status = "done" /\ steps[r].ref = StageRef(w)
    BY <2>1 DEF Latest, DoneRows
  <2>4. ASSUME AtLimit(w) PROVE steps[r].output.verdict = "write"
    <3>1. /\ idx[w] <= Len(RoundKinds) /\ KindOf(w) = "review"
          /\ round[w] >= MaxRounds
      BY <2>4 DEF AtLimit, KindOf
    <3>2. StageRef(w) = ReviewRef(ver[w], round[w])
      BY <3>1 DEF StageRef, ReviewRef
    <3>3. ver[w] \in Versions /\ round[w] \in MaxRounds..MaxRounds + 1
      BY <1>1, <3>1, BoundsAssumption DEF DriverTypeOK
    <3>. QED BY <2>3, <3>2, <3>3 DEF LastReviews
  <2>5. AtLimit(w)' = AtLimit(w)
    BY <1>2, <2>2
  <2>. QED BY <2>2, <2>4, <2>5
<1>5. CASE StageReturns(w)
  <2>1. PICK verdict \in IF KindOf(w) = "review" THEN VerdictsAt(round[w])
                                                ELSE {"none"} :
            out' = [out EXCEPT ![w].verdict = verdict]
    BY <1>5 DEF StageReturns
  <2>2. pc'[w] = "draw" /\ UNCHANGED <<idx, round>>
    BY <1>1, <1>5 DEF StageReturns, Goto, DriverTypeOK
  <2>3. out'[w].verdict = verdict
    BY <1>1, <2>1 DEF DriverTypeOK, Outcomes
  <2>4. ASSUME AtLimit(w) PROVE verdict = "write"
    <3>1. ~(round[w] < MaxRounds)
      BY <1>1, <2>4, BoundsAssumption DEF AtLimit, DriverTypeOK
    <3>. QED BY <2>1, <2>4, <3>1 DEF AtLimit, VerdictsAt
  <2>. QED BY <1>2, <2>2, <2>3, <2>4
<1>6. CASE StageParks(w)
  <2>1. pc'[w] = "mark" /\ out'[w].parked = TRUE
    BY <1>1, <1>6 DEF StageParks, Goto, DriverTypeOK, Outcomes
  <2>. QED BY <2>1
<1>7. CASE StageSkips(w)
  <2>1. pc'[w] = "mark" /\ UNCHANGED <<idx, round>> /\ KindOf(w) # "review"
    BY <1>1, <1>7 DEF StageSkips, Goto, DriverTypeOK
  <2>. QED BY <1>2, <2>1 DEF AtLimit
<1>8. CASE WriteReport(w)
  <2>1. pc'[w] \in {"verify", "error"} /\ UNCHANGED <<idx, round>>
        /\ KindOf(w) = "write"
    BY <1>1, <1>8 DEF WriteReport, Goto, DriverTypeOK
  <2>. QED BY <1>2, <2>1
<1>9. CASE VerifyReport(w) \/ (ParkAtCap(w) /\ pc[w] = "vcap")
  <2>1. pc'[w] \in {"draw", "vcap"} /\ UNCHANGED <<idx, round>>
        /\ KindOf(w) = "write"
    BY <1>1, <1>9 DEF VerifyReport, ParkAtCap, Goto, DriverTypeOK, ReviewsStop
  <2>. QED BY <1>2, <2>1 DEF AtLimit
<1>10. CASE ChargeStage(w) \/ (ParkAtCap(w) /\ pc[w] = "cap") \/ FinishStage(w)
  <2>1. /\ pc[w] \in {"draw", "cap", "mark"} /\ pc'[w] \in {"mark", "cap", "after"}
        /\ UNCHANGED <<idx, round>>
    BY <1>1, <1>10 DEF ChargeStage, ParkAtCap, FinishStage, Goto, DriverTypeOK
  <2>2. out'[w].parked = out[w].parked /\ out'[w].verdict = out[w].verdict
    BY <1>1, <1>10 DEF ChargeStage, ParkAtCap, FinishStage, DriverTypeOK, Outcomes
  <2>. QED BY <1>2, <2>1, <2>2 DEF ReviewsStop
<1>11. CASE TakeJob(w) \/ CrashDriver(w) \/ RoundTop(w) \/ ReloadForWrite(w)
            \/ BusyStage(w) \/ ClaimStage(w) \/ StageThrows(w) \/ FailStage(w)
            \/ ParkFailed(w) \/ AfterStage(w) \/ CompleteRun(w)
            \/ SettleComplete(w) \/ FinishTerminalRun(w) \/ SettleTerminal(w)
  <2>1. pc'[w] \notin {"verify", "vcap", "draw", "cap", "mark", "after"}
    BY <1>1, <1>11 DEF TakeJob, CrashDriver, RoundTop, ReloadForWrite,
       BusyStage, ClaimStage, StageThrows, FailStage, ParkFailed, AfterStage,
       CompleteRun, SettleComplete, FinishTerminalRun, SettleTerminal,
       Leave, Goto, DriverTypeOK
  <2>. QED BY <2>1
<1>12. ParkAtCap(w) => pc[w] \in {"cap", "vcap"}
  BY DEF ParkAtCap
<1>. QED BY <1>3, <1>4, <1>5, <1>6, <1>7, <1>8, <1>9, <1>10, <1>11, <1>12,
            DriversMove DEF Drive, StageWork

\* A review is stored with the verdict the driver was given.
LEMMA LastReviewsKept ==
    TypeOK /\ DriversHoldRows /\ ReviewsStop /\ LastReviews /\ [Next]_vars
        => LastReviews'
<1>. SUFFICES ASSUME TypeOK, DriversHoldRows, ReviewsStop, LastReviews,
                     [Next]_vars,
                     NEW r \in Rows, NEW v \in Versions,
                     NEW n \in MaxRounds..MaxRounds + 1,
                     steps'[r].status = "done", steps'[r].ref = ReviewRef(v, n)
              PROVE  steps'[r].output.verdict = "write"
  BY DEF LastReviews, ReviewRef, roundAttempt
<1>1. RowMoves(r)
  BY RowsMove
<1>2. CASE steps'[r] = steps[r]
  BY <1>2 DEF LastReviews
<1>3. ASSUME NEW w \in Workers, FinishStage(w), r = row[w],
             steps'[r] = [status |-> Checkpointed(out[w]), ref |-> steps[r].ref,
                          expired |-> FALSE, output |-> out[w]]
      PROVE  steps'[r].output.verdict = "write"
  <2>1. Checkpointed(out[w]) = "done" /\ steps[r].ref = ReviewRef(v, n)
        /\ steps'[r].output = out[w]
    BY <1>3
  <2>2. ~out[w].parked
    BY <2>1 DEF Checkpointed
  <2>3. pc[w] = "mark" /\ StageRef(w) = ReviewRef(v, n)
    BY <1>3, <2>1 DEF FinishStage, DriversHoldRows, Holding
  <2>4. idx[w] <= Len(RoundKinds) /\ KindOf(w) = "review"
        /\ roundAttempt(ver[w], round[w]) = roundAttempt(v, n)
    BY <2>3 DEF StageRef, ReviewRef, KindOf
  <2>5. ver[w] \in Nat /\ round[w] \in Nat /\ round[w] < 1000
        /\ v \in Nat /\ n \in Nat /\ n < 1000 /\ n >= MaxRounds
    BY BoundsAssumption DEF TypeOK, DriverTypeOK, Versions
  <2>6. round[w] = n
    BY <2>4, <2>5 DEF roundAttempt
  <2>. QED BY <2>1, <2>2, <2>3, <2>4, <2>5, <2>6 DEF ReviewsStop, AtLimit
<1>4. CASE steps'[r].status \in {"active", "pending", "failed"}
  BY <1>4
<1>5. ASSUME NEW w \in Workers,
             steps'[r] = [status |-> "active", ref |-> StageRef(w),
                          expired |-> FALSE, output |-> NoOutcome]
      PROVE  FALSE
  BY <1>5
<1>. QED BY <1>1, <1>2, <1>3, <1>4, <1>5 DEF RowMoves

-----------------------------------------------------------------------------
(* The theorems *)

\* The inductive invariant.
IInv ==
    /\ TypeOK
    /\ LedgerInv
    /\ OneActiveStep
    /\ RevisionsFit
    /\ DriversHoldRows
    /\ ReviewsStop
    /\ LastReviews

\* A planned run satisfies it.
LEMMA InitIInv == Init => IInv
<1>. SUFFICES ASSUME Init PROVE IInv
  OBVIOUS
<1>1. LedgerInv
  BY LedgerInit
<1>2. 1 \in Versions /\ 0 \in 0..MaxRounds + 1 /\ 1 \in 1..TipsIdx
      /\ NoOutcome \in Outcomes
  BY BoundsAssumption, IdxArith
     DEF Versions, NoOutcome, Outcomes, Verdicts
<1>3. "review" \in KindsOfRound
  BY PipelineAssumption DEF KindsOfRound
<1>4. <<"review", roundAttempt(1, 0)>> \in Refs
  BY <1>2, <1>3, RefsAssumption DEF StageRefs
<1>5. steps = [r \in Rows |-> [status |-> "none",
                               ref |-> <<"review", roundAttempt(1, 0)>>,
                               expired |-> FALSE, output |-> NoOutcome]]
  BY DEF Init
<1>6. steps \in [Rows -> StepRows]
  BY <1>2, <1>4, <1>5 DEF StepRows
<1>7. \A r \in Rows : steps[r].status = "none"
  BY <1>5
<1>8. RunTypeOK
  <2>1. /\ status = "planned" /\ pauseReason = "none" /\ version = 1
        /\ reports = {} /\ jobs = 0 /\ crashes = 0 /\ stalls = 0
    BY DEF Init
  <2>2. 0 \in 0..MaxJobs /\ 0 \in 0..MaxCrashes /\ 0 \in 0..MaxStalls
    BY BoundsAssumption
  <2>. QED BY <1>2, <1>6, <2>1, <2>2 DEF RunTypeOK, Statuses
<1>9. DriverTypeOK
  BY <1>2 DEF Init, DriverTypeOK, Places
<1>10. RequestTypeOK /\ SweepTypeOK
  BY <1>2 DEF Init, RequestTypeOK, SweepTypeOK, Statuses
<1>11. OneActiveStep /\ LastReviews
  BY <1>7 DEF OneActiveStep, Active, LastReviews
<1>12. RevisionsFit
  BY DEF Init, RevisionsFit
<1>13. DriversHoldRows /\ ReviewsStop
  BY DEF Init, DriversHoldRows, ReviewsStop, Holding
<1>. QED BY <1>1, <1>8, <1>9, <1>10, <1>11, <1>12, <1>13
            DEF IInv, TypeOK, LedgerInv

\* Every step keeps it.
LEMMA NextIInv == IInv /\ [Next]_vars => IInv'
<1>. SUFFICES ASSUME IInv, [Next]_vars PROVE IInv'
  OBVIOUS
<1>1. LedgerInv'
  BY NextTakesLedgerStep, LedgerStepKeeps DEF IInv
<1>2. TypeOK' /\ RevisionsFit'
  BY <1>1, RunTypeKept, DriverTypeKept, RequestTypeKept, SweepTypeKept
     DEF IInv, TypeOK, LedgerInv
<1>3. OneActiveStep'
  BY OneActiveStepKept DEF IInv
<1>4. DriversHoldRows' /\ ReviewsStop' /\ LastReviews'
  BY DriversHoldRowsKept, ReviewsStopKept, LastReviewsKept DEF IInv
<1>. QED BY <1>1, <1>2, <1>3, <1>4 DEF IInv

\* The inductive invariant holds in every reachable state.
THEOREM InductiveInvariant == Spec => []IInv
BY InitIInv, NextIInv, PTL DEF Spec

\* Every variable keeps its type: in particular no driver ever enters a round
\* past the limit of the depth, or charges a txRef that does not exist.
THEOREM TypeCorrect == Spec => []TypeOK
<1>1. IInv => TypeOK
  BY DEF IInv
<1>. QED BY <1>1, InductiveInvariant, PTL

\* However many drivers, duplicate jobs, sweeps and late workers there are, at
\* most one stage of the run is in flight (stage() in worker.js).
THEOREM OneStageInFlight == Spec => []OneActiveStep
<1>1. IInv => OneActiveStep
  BY DEF IInv
<1>. QED BY <1>1, InductiveInvariant, PTL

\* No stage is billed twice, through any crash, stall or replay (draw() in
\* money.js).
THEOREM BilledOnce == Spec => []ChargedOnce
<1>1. IInv => ChargedOnce
  BY DEF IInv, LedgerInv
<1>. QED BY <1>1, InductiveInvariant, PTL

\* The ledger never goes below zero, nor spending above the cap (draw() and
\* raiseCap() in money.js).
THEOREM NeverOverspent == Spec => []Solvent
<1>1. IInv => Solvent
  BY DEF IInv, LedgerInv
<1>. QED BY <1>1, InductiveInvariant, PTL

\* A settled run has refunded all it did not spend (settle() in money.js).
THEOREM RefundedInFull == Spec => []SettledInFull
<1>1. IInv => SettledInFull
  BY DEF IInv, LedgerInv
<1>. QED BY <1>1, InductiveInvariant, PTL

\* Nothing moves in the ledger once the run is settled, whoever still runs.
THEOREM SettlementIsFinal == Spec => FrozenAfterSettle
<1>1. ASSUME LedgerInv, LedgerStep, settledAt
      PROVE  UNCHANGED <<ledger, charged, budgetCap, settledAt>>
  BY <1>1 DEF LedgerStep, Draw, Affordable, CanRaise, Settle, ledgerVars
<1>2. IInv /\ [Next]_vars =>
        [settledAt => UNCHANGED <<ledger, charged, budgetCap, settledAt>>]_vars
  BY <1>1, NextTakesLedgerStep DEF IInv
<1>. QED BY <1>2, InductiveInvariant, PTL DEF Spec, FrozenAfterSettle

\* Each move of the ledger is a step of ResearchBudget, or changes nothing it sees.
LEMMA LedgerStepRefines ==
    ASSUME LedgerInv, LedgerStep
    PROVE  [Promise!Next]_(Promise!vars)
<1>1. ledger \in [deposit : Nat, spend : Nat, fee : Nat, refund : Nat]
      /\ charged \in [Refs -> Nat] /\ budgetCap \in Nat
  BY DEF LedgerInv, LedgerTypeOK
<1>2. CASE UNCHANGED ledgerVars
  BY <1>2 DEF ledgerVars, Promise!vars, AlreadyCharged
<1>3. ASSUME NEW ref \in Refs, NEW amount \in Nat, Draw(ref, amount),
             ~UNCHANGED ledgerVars
      PROVE  Promise!Pay(ref)
  <2>1. ~AlreadyCharged(ref) /\ amount > 0 /\ Affordable(amount)
    BY <1>3 DEF Draw, ledgerVars
  <2>2. /\ ledger' = [ledger EXCEPT !.spend = @ + amount, !.fee = @ + Fee(amount)]
        /\ charged' = [charged EXCEPT ![ref] = @ + 1]
        /\ settledAt' = settledAt
    BY <1>3, <2>1 DEF Draw
  <2>3. /\ ledger'.spend = ledger.spend + amount
        /\ ledger'.deposit = ledger.deposit /\ ledger'.refund = ledger.refund
    BY <1>1, <2>2
  <2>4. ~settledAt /\ ledger.spend + amount <= ledger.deposit
    BY <1>1, <2>1 DEF Affordable, LedgerInv, Balance
  <2>5. {x \in Refs : AlreadyCharged(x)}' = {x \in Refs : AlreadyCharged(x)} \cup {ref}
    BY <1>1, <2>2 DEF AlreadyCharged
  <2>6. ref \notin {x \in Refs : AlreadyCharged(x)}
    BY <2>1
  <2>. QED BY <1>1, <2>1, <2>2, <2>3, <2>4, <2>5, <2>6 DEF Promise!Pay
<1>4. ASSUME NEW amount \in Nat, NEW terminal \in BOOLEAN,
             CanRaise(amount, terminal), RaiseCap(amount)
      PROVE  Promise!Hold
  <2>1. /\ ~settledAt /\ amount > budgetCap
        /\ ledger' = [ledger EXCEPT !.deposit = @ + (amount - budgetCap)]
        /\ UNCHANGED <<charged, settledAt>>
    BY <1>4 DEF CanRaise, RaiseCap
  <2>2. /\ ledger'.deposit = ledger.deposit + (amount - budgetCap)
        /\ ledger'.spend = ledger.spend /\ ledger'.refund = ledger.refund
    BY <1>1, <2>1
  <2>. QED BY <1>1, <2>1, <2>2 DEF Promise!Hold, AlreadyCharged
<1>5. ASSUME NEW stageActive \in BOOLEAN, Settle(stageActive), ~UNCHANGED ledgerVars
      PROVE  Promise!Close
  <2>1. /\ ~settledAt /\ settledAt' = TRUE /\ UNCHANGED charged
        /\ ledger' = [ledger EXCEPT !.refund = IF Balance > 0 THEN @ + Balance ELSE @]
    BY <1>5 DEF Settle
  <2>2. Balance \in Nat /\ ledger.refund = 0
    BY <1>1, <2>1 DEF LedgerInv, Solvent, Balance
  <2>3. ledger' = [ledger EXCEPT !.refund = Balance]
    BY <1>1, <2>1, <2>2
  <2>4. /\ ledger'.refund = ledger.deposit - ledger.spend
        /\ ledger'.deposit = ledger.deposit /\ ledger'.spend = ledger.spend
    BY <1>1, <2>2, <2>3 DEF Balance
  <2>. QED BY <2>1, <2>4 DEF Promise!Close, AlreadyCharged
<1>. QED BY <1>2, <1>3, <1>4, <1>5 DEF LedgerStep, Promise!Next

\* The run implements ResearchBudget: what the owner is promised is kept
\* through every interleaving of drivers, owner requests, sweeps and crashes.
THEOREM RunKeepsPromise == Spec => BudgetPromise
<1>1. Init => Promise!Init
  <2>. SUFFICES ASSUME Init PROVE Promise!Init
    OBVIOUS
  <2>1. /\ ledger = [deposit |-> Deposit, spend |-> 0, fee |-> 0, refund |-> 0]
        /\ settledAt = FALSE /\ Deposit \in Nat /\ InitialCap \in Nat
    BY MoneyAssumption DEF Init, Configured
  <2>2. charged = [ref \in Refs |-> 0]
    BY DEF Init, Configured
  <2>3. {ref \in Refs : AlreadyCharged(ref)} = {}
    BY <2>2 DEF AlreadyCharged
  <2>. QED BY <2>1, <2>3 DEF Promise!Init
<1>2. IInv /\ [Next]_vars => [Promise!Next]_(Promise!vars)
  BY NextTakesLedgerStep, LedgerStepRefines DEF IInv
<1>. QED BY <1>1, <1>2, InductiveInvariant, PTL DEF Spec, BudgetPromise, Promise!Spec

-----------------------------------------------------------------------------
(* The rows that drivers hold, lost leases or not *)

\* No two drivers hold one row, and what a driver holds it has not finished.
HoldersApart ==
    \A w, x \in Workers :
        pc[w] \in Holding /\ pc[x] \in Holding /\ row[w] = row[x] => w = x
HeldUndone == \A w \in Workers : pc[w] \in Holding => steps[row[w]].status # "done"
UsedFinite == IsFiniteSet(Rows \ Unused)
RowsApart == HoldersApart /\ HeldUndone /\ UsedFinite

\* A driver comes to hold a row by claiming its stage, and keeps it with the stage.
LEMMA HoldersMove ==
    ASSUME TypeOK, [Next]_vars, NEW w \in Workers, pc'[w] \in Holding
    PROVE  \/ ClaimStage(w)
           \/ /\ pc[w] \in Holding /\ row'[w] = row[w] /\ ver'[w] = ver[w]
              /\ round'[w] = round[w] /\ idx'[w] = idx[w]
<1>1. DriverTypeOK
  BY DEF TypeOK
<1>2. CASE StageWork(w) /\ ~FinishStage(w) /\ ~FailStage(w) /\ ~ParkFailed(w)
  BY <1>2 DEF StageWork, StageReturns, StageSkips, StageParks, StageThrows,
     WriteReport, VerifyReport, ChargeStage, ParkAtCap, Holding
<1>3. CASE SameLocals(w)
  BY <1>3 DEF SameLocals
<1>4. CASE TakeJob(w) \/ CrashDriver(w) \/ RoundTop(w) \/ ReloadForWrite(w)
           \/ SkipStage(w) \/ BusyStage(w) \/ FinishStage(w) \/ FailStage(w)
           \/ ParkFailed(w) \/ AfterStage(w) \/ CompleteRun(w)
           \/ SettleComplete(w) \/ FinishTerminalRun(w) \/ SettleTerminal(w)
  <2>1. pc'[w] \notin Holding
    BY <1>1, <1>4 DEF TakeJob, CrashDriver, RoundTop, ReloadForWrite,
       SkipStage, BusyStage, FinishStage, FailStage, ParkFailed, AfterStage,
       CompleteRun, SettleComplete, FinishTerminalRun, SettleTerminal,
       Leave, Goto, Holding, DriverTypeOK
  <2>. QED BY <2>1
<1>. QED BY <1>2, <1>3, <1>4, DriversMove DEF Drive, StageWork

\* A finished row stays as it is.
LEMMA DoneStays ==
    ASSUME TypeOK, HeldUndone, [Next]_vars, NEW q \in Rows, steps[q].status = "done"
    PROVE  steps'[q] = steps[q]
<1>1. RowMoves(q)
  BY RowsMove
<1>2. ASSUME NEW w \in Workers, FinishStage(w) \/ FailStage(w), q = row[w] PROVE FALSE
  <2>1. pc[w] \in Holding
    BY <1>2 DEF FinishStage, FailStage, Holding
  <2>. QED BY <1>2, <2>1 DEF HeldUndone
<1>. QED BY <1>1, <1>2 DEF RowMoves

\* What was finished stays finished.
LEMMA DoneGrows ==
    ASSUME TypeOK, HeldUndone, [Next]_vars, NEW ref, NEW q \in DoneRows(ref)
    PROVE  q \in DoneRows(ref)' /\ steps'[q] = steps[q]
BY DoneStays DEF DoneRows

\* A row becomes done when the driver that holds it writes its outcome.
LEMMA DoneIsFinished ==
    ASSUME TypeOK, [Next]_vars, NEW q \in Rows, steps'[q].status = "done",
           steps'[q] # steps[q]
    PROVE  \E w \in Workers :
             /\ FinishStage(w) /\ q = row[w] /\ pc[w] = "mark"
             /\ ~out[w].parked /\ steps'[q].ref = steps[q].ref /\ steps'[q].output = out[w]
<1>1. RowMoves(q)
  BY RowsMove
<1>2. ASSUME NEW w \in Workers,
             steps'[q] = [status |-> "active", ref |-> StageRef(w),
                          expired |-> FALSE, output |-> NoOutcome]
      PROVE  FALSE
  BY <1>2
<1>3. PICK w \in Workers :
         /\ FinishStage(w) /\ q = row[w]
         /\ steps'[q] = [status |-> Checkpointed(out[w]), ref |-> steps[q].ref,
                         expired |-> FALSE, output |-> out[w]]
  BY <1>1, <1>2 DEF RowMoves
<1>4. pc[w] = "mark"
  BY <1>3 DEF FinishStage
<1>5. ~out[w].parked
  BY <1>3 DEF Checkpointed
<1>. QED BY <1>3, <1>4, <1>5

\* A claim takes a row that was not used before.
LEMMA ClaimTakes ==
    ASSUME TypeOK, NEW w \in Workers, ClaimStage(w)
    PROVE  /\ row'[w] \in Unused
           /\ steps' = [steps EXCEPT ![row'[w]] =
                          [status |-> "active", ref |-> StageRef(w),
                           expired |-> FALSE, output |-> NoOutcome]]
           /\ \A x \in Workers : x # w => pc'[x] = pc[x] /\ row'[x] = row[x]
<1>1. DriverTypeOK
  BY DEF TypeOK
<1>2. PICK r \in Unused :
        /\ steps' = [steps EXCEPT ![r] = [status |-> "active", ref |-> StageRef(w),
                                          expired |-> FALSE, output |-> NoOutcome]]
        /\ row' = [row EXCEPT ![w] = r]
  BY DEF ClaimStage, Oldest
<1>3. row'[w] = r
  BY <1>1, <1>2 DEF DriverTypeOK
<1>. QED BY <1>1, <1>2, <1>3 DEF ClaimStage, Goto, DriverTypeOK

\* Drivers claim different rows.
LEMMA HoldersApartKept ==
    ASSUME TypeOK, DriversHoldRows, HoldersApart, [Next]_vars
    PROVE  HoldersApart'
<1>. SUFFICES ASSUME NEW w \in Workers, NEW x \in Workers, pc'[w] \in Holding,
                     pc'[x] \in Holding, row'[w] = row'[x], w # x
              PROVE  FALSE
  BY DEF HoldersApart
<1>1. ASSUME NEW y \in Workers, NEW z \in Workers, y # z, ClaimStage(y),
             pc'[z] \in Holding, row'[y] = row'[z]
      PROVE  FALSE
  <2>1. row[z] \in Unused /\ pc[z] \in Holding
    BY <1>1, ClaimTakes
  <2>. QED BY <2>1 DEF DriversHoldRows, Unused
<1>2. CASE /\ pc[w] \in Holding /\ row'[w] = row[w]
           /\ pc[x] \in Holding /\ row'[x] = row[x]
  BY <1>2 DEF HoldersApart
<1>. QED BY <1>1, <1>2, HoldersMove

\* A driver that finishes its row lets go of it, and nobody else holds it.
LEMMA HeldUndoneKept ==
    ASSUME TypeOK, DriversHoldRows, HoldersApart, HeldUndone, [Next]_vars
    PROVE  HeldUndone'
<1>. SUFFICES ASSUME NEW w \in Workers, pc'[w] \in Holding, steps'[row'[w]].status = "done"
              PROVE  FALSE
  BY DEF HeldUndone
<1>1. DriverTypeOK /\ steps \in [Rows -> StepRows]
  BY DEF TypeOK, RunTypeOK
<1>2. CASE ClaimStage(w)
  <2>1. PICK r \in Rows : /\ r = row'[w]
                          /\ steps' = [steps EXCEPT ![r] =
                                         [status |-> "active", ref |-> StageRef(w),
                                          expired |-> FALSE, output |-> NoOutcome]]
    BY <1>2, ClaimTakes DEF Unused
  <2>2. steps'[r].status = "active"
    BY <1>1, <2>1
  <2>. QED BY <2>1, <2>2
<1>3. CASE pc[w] \in Holding /\ row'[w] = row[w]
  <2>1. row[w] \in Rows /\ steps[row[w]].status # "done"
    BY <1>3 DEF DriversHoldRows, HeldUndone
  <2>2. PICK x \in Workers : FinishStage(x) /\ row[w] = row[x] /\ pc[x] = "mark"
    BY <1>3, <2>1, DoneIsFinished
  <2>3. x = w
    BY <1>3, <2>2 DEF HoldersApart, Holding
  <2>4. pc'[w] = "after"
    BY <1>1, <2>2, <2>3 DEF FinishStage, Goto, DriverTypeOK
  <2>. QED BY <2>4 DEF Holding
<1>. QED BY <1>2, <1>3, HoldersMove

\* A step uses at most one row more.
LEMMA UsedFiniteKept ==
    ASSUME TypeOK, DriversHoldRows, UsedFinite, [Next]_vars
    PROVE  UsedFinite'
<1>1. steps \in [Rows -> StepRows]
  BY DEF TypeOK, RunTypeOK
<1>2. ASSUME NEW w \in Workers, ClaimStage(w) PROVE UsedFinite'
  <2>1. Rows \ Unused' \subseteq (Rows \ Unused) \cup {row'[w]}
    BY <1>1, <1>2, ClaimTakes DEF Unused
  <2>. QED BY <2>1, FS_AddElement, FS_Subset DEF UsedFinite
<1>3. CASE \A w \in Workers : ~ClaimStage(w)
  <2>1. ASSUME NEW w \in Workers, FinishStage(w) \/ FailStage(w)
        PROVE  steps[row[w]].status # "none"
    BY <2>1 DEF FinishStage, FailStage, DriversHoldRows, Holding
  <2>2. ASSUME NEW r \in Rows, steps[r].status = "none" PROVE steps'[r].status = "none"
    BY <1>3, <2>1, <2>2, RowsMove DEF RowMoves
  <2>3. Rows \ Unused' \subseteq Rows \ Unused
    BY <2>2 DEF Unused
  <2>. QED BY <2>3, FS_Subset DEF UsedFinite
<1>. QED BY <1>2, <1>3

\* Every step keeps the rows of the drivers apart.
LEMMA RowsStayApart == Spec => []RowsApart
<1>1. Init => RowsApart
  <2>. SUFFICES ASSUME Init PROVE RowsApart
    OBVIOUS
  <2>1. /\ \A r \in Rows : steps[r].status = "none"
        /\ \A w \in Workers : pc[w] = "idle"
    BY DEF Init
  <2>2. Rows \ Unused = {}
    BY <2>1 DEF Unused
  <2>. QED BY <2>1, <2>2, FS_EmptySet DEF RowsApart, HoldersApart, HeldUndone, UsedFinite, Holding
<1>2. IInv /\ RowsApart /\ [Next]_vars => RowsApart'
  BY HoldersApartKept, HeldUndoneKept, UsedFiniteKept DEF IInv, RowsApart
<1>. QED BY <1>1, <1>2, InductiveInvariant, PTL DEF Spec

-----------------------------------------------------------------------------
(* Leases: a stage is done once, and refunds wait for it *)

\* No live worker has lost its lease, so a driver that holds a row holds it alone, and it is
\* active; a driver that holds none has none to write.
HoldersActive ==
    \A w \in Workers : pc[w] \in Holding => row[w] \in Active /\ ~steps[row[w]].expired
HolderAlone == \A w, x \in Workers : pc[w] \in Holding /\ pc[x] \in Holding => w = x
RowsOfHolders == \A w \in Workers : row[w] # 0 => pc[w] \in Holding

\* A stage in flight has not finished before.
ActiveFresh == \A r \in Active : DoneRows(steps[r].ref) = {}

LeasesKept == HoldersActive /\ HolderAlone /\ RowsOfHolders /\ DoneOnce /\ ActiveFresh
LeasesKeptYet == stalls = 0 => LeasesKept

\* What one step does to a row while every live worker keeps its lease.
RowQuietly(r) ==
    \/ steps'[r] = steps[r]
    \/ \E w \in Workers :
         /\ ClaimStage(w) /\ row'[w] = r /\ steps[r].status = "none"
         /\ steps'[r] = [status |-> "active", ref |-> StageRef(w),
                         expired |-> FALSE, output |-> NoOutcome]
    \/ \E w \in Workers :
         /\ FinishStage(w) /\ r = row[w]
         /\ steps'[r] = [status |-> Checkpointed(out[w]), ref |-> steps[r].ref,
                         expired |-> FALSE, output |-> out[w]]
    \/ \E w \in Workers :
         /\ FailStage(w) /\ r = row[w]
         /\ steps'[r].status = "failed" /\ steps'[r].ref = steps[r].ref
    \/ /\ steps[r].status = "active" /\ r \notin Held
       /\ steps'[r].status \in {"active", "pending"} /\ steps'[r].ref = steps[r].ref

\* The sweep takes no row that a live driver holds.
LEMMA RowsMoveQuietly ==
    ASSUME TypeOK, LeasesKept, [Next]_vars, stalls' = 0, NEW q \in Rows
    PROVE  RowQuietly(q)
<1>1. q # 0
  BY RowsAssumption
<1>2. q \in Held => q \notin Orphans
  BY <1>1 DEF LeasesKept, HoldersActive, RowsOfHolders, Orphans, Held
<1>. QED BY <1>2, RowsMove DEF RowMoves, RowQuietly

\* A stage in flight is not done.
LEMMA LeasedUndone == LeasesKept => HeldUndone
BY DEF LeasesKept, HoldersActive, HeldUndone, Active

\* A driver keeps its lease until it writes its outcome.
LEMMA HoldersActiveKept ==
    ASSUME TypeOK, LeasesKept, [Next]_vars, stalls' = 0
    PROVE  HoldersActive'
<1>. SUFFICES ASSUME NEW w \in Workers, pc'[w] \in Holding
              PROVE  /\ row'[w] \in Rows /\ steps'[row'[w]].status = "active"
                     /\ ~steps'[row'[w]].expired
  BY DEF HoldersActive, Active
<1>1. DriverTypeOK /\ steps \in [Rows -> StepRows]
  BY DEF TypeOK, RunTypeOK
<1>2. CASE ClaimStage(w)
  <2>1. PICK r \in Rows :
          /\ steps' = [steps EXCEPT ![r] =
                         [status |-> "active", ref |-> StageRef(w),
                          expired |-> FALSE, output |-> NoOutcome]]
          /\ row' = [row EXCEPT ![w] = r]
    BY <1>2 DEF ClaimStage
  <2>2. row'[w] = r /\ steps'[r].status = "active" /\ ~steps'[r].expired
    BY <1>1, <2>1 DEF DriverTypeOK
  <2>. QED BY <2>2
<1>3. CASE pc[w] \in Holding /\ row'[w] = row[w]
  <2>1. row[w] \in Rows /\ steps[row[w]].status = "active" /\ ~steps[row[w]].expired
    BY <1>3 DEF LeasesKept, HoldersActive, Active
  <2>2. RowQuietly(row[w])
    BY <2>1, RowsMoveQuietly
  <2>3. row[w] \in Held
    BY DEF Held
  <2>4. ASSUME NEW x \in Workers, FinishStage(x) \/ FailStage(x) PROVE FALSE
    <3>1. pc[x] \in Holding
      BY <2>4 DEF FinishStage, FailStage, Holding
    <3>2. x = w
      BY <1>3, <3>1 DEF LeasesKept, HolderAlone
    <3>3. pc'[w] \in {"after", "errpark"}
      BY <1>1, <2>4, <3>2 DEF FinishStage, FailStage, Goto, DriverTypeOK
    <3>. QED BY <3>3 DEF Holding
  <2>5. steps'[row[w]] = steps[row[w]]
    BY <2>1, <2>2, <2>3, <2>4 DEF RowQuietly
  <2>. QED BY <1>3, <2>1, <2>5
<1>. QED BY <1>2, <1>3, HoldersMove

\* A stage is claimed only when no row is active, so by one driver at a time.
LEMMA HolderAloneKept ==
    ASSUME TypeOK, LeasesKept, [Next]_vars
    PROVE  HolderAlone'
<1>. SUFFICES ASSUME NEW w \in Workers, NEW x \in Workers,
                     pc'[w] \in Holding, pc'[x] \in Holding, w # x
              PROVE  FALSE
  BY DEF HolderAlone
<1>1. DriverTypeOK
  BY DEF TypeOK
<1>2. ASSUME NEW y \in Workers, ClaimStage(y), NEW z \in Workers, z # y, pc'[z] \in Holding
      PROVE  FALSE
  <2>1. pc'[z] = pc[z] /\ Active = {}
    BY <1>1, <1>2 DEF ClaimStage, Claimable, Goto, DriverTypeOK
  <2>. QED BY <1>2, <2>1 DEF LeasesKept, HoldersActive
<1>3. CASE pc[w] \in Holding /\ pc[x] \in Holding
  BY <1>3 DEF LeasesKept, HolderAlone
<1>. QED BY <1>2, <1>3, HoldersMove

\* A driver gives up its row with its stage.
LEMMA RowsOfHoldersKept ==
    ASSUME TypeOK, LeasesKept, [Next]_vars
    PROVE  RowsOfHolders'
<1>. SUFFICES ASSUME NEW w \in Workers, row'[w] # 0 PROVE pc'[w] \in Holding
  BY DEF RowsOfHolders
<1>1. DriverTypeOK
  BY DEF TypeOK
<1>2. row[w] # 0 => pc[w] \in Holding
  BY DEF LeasesKept, RowsOfHolders
<1>3. CASE SameLocals(w)
  BY <1>2, <1>3 DEF SameLocals
<1>4. CASE ClaimStage(w) \/ StageReturns(w) \/ StageSkips(w) \/ StageParks(w) \/ StageThrows(w)
           \/ WriteReport(w) \/ VerifyReport(w) \/ ChargeStage(w) \/ ParkAtCap(w)
  BY <1>1, <1>4 DEF ClaimStage, StageReturns, StageSkips, StageParks, StageThrows, WriteReport,
     VerifyReport, ChargeStage, ParkAtCap, Goto, DriverTypeOK, Holding
<1>5. CASE CrashDriver(w) \/ FinishStage(w) \/ FailStage(w) \/ SettleTerminal(w)
  BY <1>1, <1>5 DEF CrashDriver, FinishStage, FailStage, SettleTerminal, Leave, DriverTypeOK
<1>6. CASE TakeJob(w) \/ RoundTop(w) \/ ReloadForWrite(w) \/ SkipStage(w) \/ BusyStage(w)
           \/ ParkFailed(w) \/ AfterStage(w) \/ CompleteRun(w) \/ SettleComplete(w)
           \/ FinishTerminalRun(w)
  <2>1. pc[w] \notin Holding
    BY <1>6 DEF TakeJob, RoundTop, ReloadForWrite, SkipStage, BusyStage, ParkFailed, AfterStage,
       CompleteRun, SettleComplete, FinishTerminalRun, Holding
  <2>2. row'[w] \in {row[w], 0}
    BY <1>1, <1>6 DEF TakeJob, RoundTop, ReloadForWrite, SkipStage, BusyStage, ParkFailed,
       AfterStage, CompleteRun, SettleComplete, FinishTerminalRun, Leave, DriverTypeOK
  <2>. QED BY <1>2, <2>1, <2>2
<1>. QED BY <1>3, <1>4, <1>5, <1>6, DriversMove DEF Drive, StageWork

\* A stage is claimed when no row of it is done, and finished by the one driver that claimed it.
LEMMA DoneOnceKept ==
    ASSUME TypeOK, LeasesKept, [Next]_vars, stalls' = 0
    PROVE  DoneOnce'
<1>. SUFFICES ASSUME NEW r \in Rows, NEW q \in Rows, r # q,
                     steps'[r].status = "done", steps'[q].status = "done",
                     steps'[r].ref = steps'[q].ref
              PROVE  FALSE
  BY DEF DoneOnce, DoneRows
<1>1. ASSUME NEW a \in Rows, NEW b \in Rows, a # b, steps'[a] # steps[a],
             steps'[a].status = "done", steps'[b].status = "done", steps'[a].ref = steps'[b].ref
      PROVE  FALSE
  <2>1. PICK w \in Workers : a = row[w] /\ pc[w] = "mark" /\ steps'[a].ref = steps[a].ref
    BY <1>1, DoneIsFinished
  <2>4. a \in Active
    BY <2>1 DEF LeasesKept, HoldersActive, Holding
  <2>2. CASE steps'[b] = steps[b]
    <3>1. b \in DoneRows(steps[a].ref)
      BY <1>1, <2>1, <2>2 DEF DoneRows
    <3>. QED BY <2>4, <3>1 DEF LeasesKept, ActiveFresh
  <2>3. CASE steps'[b] # steps[b]
    <3>1. PICK x \in Workers : b = row[x] /\ pc[x] = "mark"
      BY <1>1, <2>3, DoneIsFinished
    <3>2. x = w
      BY <2>1, <3>1 DEF LeasesKept, HolderAlone, Holding
    <3>. QED BY <1>1, <2>1, <3>1, <3>2
  <2>. QED BY <2>2, <2>3
<1>2. CASE steps'[r] = steps[r] /\ steps'[q] = steps[q]
  BY <1>2 DEF LeasesKept, DoneOnce, DoneRows
<1>. QED BY <1>1, <1>2

\* A stage is claimed only when it has not finished.
LEMMA ActiveFreshKept ==
    ASSUME TypeOK, OneActiveStep, LeasesKept, [Next]_vars, stalls' = 0
    PROVE  ActiveFresh'
<1>. SUFFICES ASSUME NEW r \in Rows, NEW q \in Rows, steps'[r].status = "active",
                     steps'[q].status = "done", steps'[q].ref = steps'[r].ref
              PROVE  FALSE
  BY DEF ActiveFresh, Active, DoneRows
<1>1. RowQuietly(r)
  BY RowsMoveQuietly
<1>2. CASE steps[r].status = "active" /\ steps'[r].ref = steps[r].ref
  <2>1. CASE steps'[q] = steps[q]
    BY <1>2, <2>1 DEF LeasesKept, ActiveFresh, Active, DoneRows
  <2>2. CASE steps'[q] # steps[q]
    <3>1. q \in Active
      BY <2>2, DoneIsFinished DEF LeasesKept, HoldersActive, Holding
    <3>2. q = r
      BY <1>2, <3>1 DEF OneActiveStep, Active
    <3>. QED BY <3>2
  <2>. QED BY <2>1, <2>2
<1>3. ASSUME NEW w \in Workers, ClaimStage(w),
             steps'[r] = [status |-> "active", ref |-> StageRef(w),
                          expired |-> FALSE, output |-> NoOutcome]
      PROVE  FALSE
  <2>1. Active = {} /\ DoneRows(StageRef(w)) = {} /\ steps'[r].ref = StageRef(w)
    BY <1>3 DEF ClaimStage, Claimable
  <2>2. steps'[q] = steps[q]
    BY <2>1, DoneIsFinished DEF LeasesKept, HoldersActive, Holding
  <2>. QED BY <2>1, <2>2 DEF DoneRows
<1>4. ASSUME NEW w \in Workers,
             steps'[r] = [status |-> Checkpointed(out[w]), ref |-> steps[r].ref,
                          expired |-> FALSE, output |-> out[w]]
      PROVE  FALSE
  BY <1>4 DEF Checkpointed
<1>. QED BY <1>1, <1>2, <1>3, <1>4 DEF RowQuietly

\* Faults are counted, and never forgotten.
LEMMA FaultsGrow ==
    ASSUME TypeOK, [Next]_vars
    PROVE  (stalls' = 0 => stalls = 0) /\ (crashes' = 0 => crashes = 0)
<1>1. stalls \in Nat /\ crashes \in Nat
  BY BoundsAssumption DEF TypeOK, RunTypeOK
<1>2. ASSUME NEW w \in Workers, TakeJob(w) \/ Drive(w) \/ CrashDriver(w)
      PROVE  stalls' = stalls /\ crashes' \in {crashes, crashes + 1}
  BY <1>2 DEF TakeJob, CrashDriver, Drive, StageWork, RoundTop,
     ReloadForWrite, SkipStage, BusyStage, ClaimStage, StageReturns, StageSkips,
     StageParks, StageThrows, WriteReport, VerifyReport, ChargeStage, FinishStage, FailStage,
     ParkAtCap, ParkFailed, AfterStage, CompleteRun, SettleComplete,
     FinishTerminalRun, SettleTerminal, faultVars
<1>3. ASSUME NEW o \in Requests, Ask(o) \/ Answer(o) \/ CrashRequest(o)
      PROVE  stalls' = stalls /\ crashes' \in {crashes, crashes + 1}
  BY <1>3 DEF Ask, Answer, CrashRequest, ReadApprove, ReadPause, ReadResume,
     ReadRevise, ReadRaise, EndRun, WritePause, WriteRunning, WriteRevise,
     RequestExecute, RaiseBudget, SettleEnded, faultVars
<1>4. ASSUME NEW s \in Sweepers, Recover(s) \/ CrashSweep(s)
      PROVE  stalls' = stalls /\ crashes' \in {crashes, crashes + 1}
  BY <1>4 DEF Recover, CrashSweep, FindOrphans, ReclaimOrphans, RequeueOrphaned,
     FinishOrphaned, SettleOrphaned, FindStalled, CheckStalled, ParkStalled,
     KickStalled, faultVars
<1>5. ASSUME NEW r \in Rows, ExpireLease(r) \/ LoseLease(r) \/ Heartbeat(r)
      PROVE  stalls' \in {stalls, stalls + 1} /\ crashes' = crashes
  BY <1>5 DEF ExpireLease, LoseLease, Heartbeat, faultVars
<1>6. CASE FindUnsettled \/ RetrySettlement \/ UNCHANGED vars
  BY <1>6 DEF FindUnsettled, RetrySettlement, vars, faultVars
<1>. QED BY <1>1, <1>2, <1>3, <1>4, <1>5, <1>6 DEF Next

\* Until a live worker loses its lease, every step keeps the holders in order.
LEMMA LeasesKeptHolds ==
    IInv /\ LeasesKeptYet /\ [Next]_vars => LeasesKeptYet'
<1>. SUFFICES ASSUME IInv, LeasesKeptYet, [Next]_vars, stalls' = 0
              PROVE  LeasesKept'
  BY DEF LeasesKeptYet
<1>1. TypeOK /\ OneActiveStep
  BY DEF IInv
<1>2. LeasesKept
  BY <1>1, FaultsGrow DEF LeasesKeptYet
<1>. QED BY <1>1, <1>2, HoldersActiveKept, HolderAloneKept, RowsOfHoldersKept, DoneOnceKept,
            ActiveFreshKept DEF LeasesKept

\* No driver holds a row at first.
LEMMA LeasesInit == Init => LeasesKept
<1>. SUFFICES ASSUME Init PROVE LeasesKept
  OBVIOUS
<1>1. /\ \A r \in Rows : steps[r].status = "none"
      /\ \A w \in Workers : pc[w] = "idle" /\ row[w] = 0
  BY DEF Init
<1>. QED BY <1>1 DEF LeasesKept, HoldersActive, HolderAlone, RowsOfHolders, DoneOnce,
            ActiveFresh, DoneRows, Active, Holding

\* While no live worker has lost its lease, the drivers hold their rows alone.
LEMMA LeasesStay == Spec => []LeasesKeptYet
<1>1. Init => LeasesKeptYet
  BY LeasesInit DEF LeasesKeptYet
<1>. QED BY <1>1, InductiveInvariant, LeasesKeptHolds, PTL DEF Spec

\* Until a live worker loses its lease, no stage is checkpointed twice, whatever crashes,
\* redelivered jobs and sweeps there are (the locked check of stage() in worker.js).
THEOREM StagesDoneOnce == Spec => [](stalls = 0 => DoneOnce)
<1>1. LeasesKeptYet => (stalls = 0 => DoneOnce)
  BY DEF LeasesKeptYet, LeasesKept
<1>. QED BY <1>1, LeasesStay, PTL

\* Until then the refund leaves when no driver holds a stage whose cost is still to be
\* charged (the active-step checks of end-run.js and settle.js).
THEOREM RefundsWait == Spec /\ [](stalls = 0) => RefundAfterDrain
<1>. DEFINE Drained == settledAt' /\ ~settledAt => \A w \in Workers : row[w] = 0
<1>1. IInv /\ LeasesKept /\ [Next]_vars => Drained
  <2>. SUFFICES ASSUME IInv, LeasesKept, [Next]_vars, settledAt', ~settledAt, NEW w \in Workers
                PROVE  row[w] = 0
    OBVIOUS
  <2>1. Active = {}
    <3>1. ASSUME Settle(Active # {}) PROVE Active = {}
      BY <3>1 DEF Settle, ledgerVars
    <3>2. ASSUME NEW x \in Workers, TakeJob(x) \/ Drive(x) \/ CrashDriver(x) PROVE Active = {}
      BY <3>1, <3>2 DEF TakeJob, CrashDriver, Drive, StageWork, RoundTop,
         ReloadForWrite, SkipStage, BusyStage, ClaimStage, StageReturns, StageSkips,
         StageParks, StageThrows, WriteReport, VerifyReport, ChargeStage, FinishStage, FailStage,
         ParkAtCap, ParkFailed, AfterStage, CompleteRun, SettleComplete,
         FinishTerminalRun, SettleTerminal, ledgerVars, Draw
    <3>3. ASSUME NEW o \in Requests, Ask(o) \/ Answer(o) \/ CrashRequest(o) PROVE Active = {}
      BY <3>1, <3>3 DEF Ask, Answer, CrashRequest, ReadApprove, ReadPause, ReadResume,
         ReadRevise, ReadRaise, EndRun, WritePause, WriteRunning, WriteRevise,
         RequestExecute, RaiseBudget, RaiseCap, SettleEnded, ledgerVars
    <3>4. ASSUME NEW s \in Sweepers, Recover(s) \/ CrashSweep(s) PROVE Active = {}
      BY <3>1, <3>4 DEF Recover, CrashSweep, FindOrphans, ReclaimOrphans, RequeueOrphaned,
         FinishOrphaned, SettleOrphaned, FindStalled, CheckStalled, ParkStalled,
         KickStalled, ledgerVars
    <3>5. ASSUME NEW r \in Rows, ExpireLease(r) \/ LoseLease(r) \/ Heartbeat(r) PROVE Active = {}
      BY <3>5 DEF ExpireLease, LoseLease, Heartbeat, ledgerVars
    <3>6. CASE FindUnsettled \/ RetrySettlement \/ UNCHANGED vars
      BY <3>1, <3>6 DEF FindUnsettled, RetrySettlement, vars, ledgerVars
    <3>. QED BY <3>2, <3>3, <3>4, <3>5, <3>6 DEF Next
  <2>. QED BY <2>1 DEF LeasesKept, HoldersActive, RowsOfHolders
<1>2. IInv /\ LeasesKept /\ [Next]_vars => [Drained]_vars
  BY <1>1
<1>3. LeasesKeptYet /\ stalls = 0 => LeasesKept
  BY DEF LeasesKeptYet
<1>. QED BY <1>2, <1>3, InductiveInvariant, LeasesStay, PTL DEF Spec, RefundAfterDrain

-----------------------------------------------------------------------------
(* Charges: what is not finished is free *)

\* No row is of the audit, which is charged apart.
NoVerifyRows == \A r \in Rows : steps[r].ref[1] # "verify"
\* A stage parks instead of being charged.
ChargedUnparked ==
    \A w \in Workers : pc[w] \in Holding \ {"mark"} => ~out[w].parked
\* What was charged is checkpointed, or is about to be.
ChargesCheckpointed ==
    \A ref \in Refs : charged[ref] > 0 /\ ref[1] # "verify" =>
        \/ DoneRows(ref) # {}
        \/ \E w \in Workers : pc[w] = "mark" /\ ~out[w].parked /\ StageRef(w) = ref
ChargesKept == NoVerifyRows /\ ChargedUnparked /\ ChargesCheckpointed
ChargesKeptYet == stalls = 0 /\ crashes = 0 => ChargesKept

\* The kind of a stage, which is never "verify".
LEMMA KindIs ==
    ASSUME TypeOK, NEW w \in Workers
    PROVE  /\ StageRef(w)[1] = KindOf(w) /\ KindOf(w) # "verify"
           /\ idx[w] <= Len(RoundKinds) => KindOf(w) \in KindsOfRound
           /\ idx[w] > Len(RoundKinds) => KindOf(w) \in {"write", "tips"}
<1>1. idx[w] \in 1..TipsIdx /\ DOMAIN RoundKinds = 1..Len(RoundKinds)
  BY PipelineAssumption DEF TypeOK, DriverTypeOK
<1>2. ASSUME idx[w] <= Len(RoundKinds) PROVE KindOf(w) \in KindsOfRound
  BY <1>1, <1>2, IdxArith DEF KindOf, KindsOfRound
<1>3. ASSUME idx[w] > Len(RoundKinds) PROVE KindOf(w) \in {"write", "tips"}
  BY <1>1, <1>3, IdxArith DEF KindOf
<1>4. "verify" \notin KindsOfRound
  BY PipelineAssumption DEF SideKinds
<1>5. idx[w] <= Len(RoundKinds) \/ idx[w] > Len(RoundKinds)
  BY <1>1, IdxArith
<1>. QED BY <1>2, <1>3, <1>4, <1>5 DEF StageRef

\* Stages are claimed for the kinds of a driver, never for the audit.
LEMMA NoVerifyRowsKept ==
    ASSUME TypeOK, LeasesKept, NoVerifyRows, [Next]_vars, stalls' = 0
    PROVE  NoVerifyRows'
<1>. SUFFICES ASSUME NEW r \in Rows PROVE steps'[r].ref[1] # "verify"
  BY DEF NoVerifyRows
<1>1. RowQuietly(r)
  BY RowsMoveQuietly
<1>2. ASSUME NEW w \in Workers,
             steps'[r] = [status |-> "active", ref |-> StageRef(w),
                          expired |-> FALSE, output |-> NoOutcome]
      PROVE  steps'[r].ref[1] # "verify"
  <2>1. steps'[r].ref = StageRef(w)
    BY <1>2
  <2>. QED BY <2>1, KindIs
<1>3. ASSUME NEW w \in Workers,
             steps'[r] = [status |-> Checkpointed(out[w]), ref |-> steps[r].ref,
                          expired |-> FALSE, output |-> out[w]]
      PROVE  steps'[r].ref = steps[r].ref
  BY <1>3
<1>4. CASE steps'[r].ref = steps[r].ref
  BY <1>4 DEF NoVerifyRows
<1>. QED BY <1>1, <1>2, <1>3, <1>4 DEF RowQuietly

\* A stage that parks goes straight to its checkpoint.
LEMMA ChargedUnparkedKept ==
    ASSUME TypeOK, ChargedUnparked, [Next]_vars
    PROVE  ChargedUnparked'
<1>. SUFFICES ASSUME NEW w \in Workers, pc'[w] \in Holding \ {"mark"} PROVE ~out'[w].parked
  BY DEF ChargedUnparked
<1>1. DriverTypeOK /\ out[w] \in Outcomes
  BY DEF TypeOK, DriverTypeOK
<1>2. CASE SameLocals(w)
  BY <1>2 DEF SameLocals, ChargedUnparked
<1>3. CASE ClaimStage(w)
  BY <1>1, <1>3 DEF ClaimStage, NoOutcome, DriverTypeOK
<1>4. CASE StageReturns(w) \/ StageThrows(w) \/ WriteReport(w) \/ VerifyReport(w) \/ ChargeStage(w)
           \/ ParkAtCap(w)
  <2>1. out'[w].parked = out[w].parked
    BY <1>1, <1>4 DEF StageReturns, StageThrows, WriteReport, VerifyReport, ChargeStage, ParkAtCap,
       DriverTypeOK, Outcomes
  <2>2. pc[w] \in Holding \ {"mark"}
    BY <1>4 DEF StageReturns, StageThrows, WriteReport, VerifyReport, ChargeStage, ParkAtCap, Holding
  <2>. QED BY <2>1, <2>2 DEF ChargedUnparked
<1>5. CASE StageSkips(w) \/ StageParks(w)
  BY <1>1, <1>5 DEF StageSkips, StageParks, Goto, DriverTypeOK
<1>6. CASE TakeJob(w) \/ CrashDriver(w) \/ RoundTop(w) \/ ReloadForWrite(w)
           \/ SkipStage(w) \/ BusyStage(w) \/ FinishStage(w) \/ FailStage(w)
           \/ ParkFailed(w) \/ AfterStage(w) \/ CompleteRun(w)
           \/ SettleComplete(w) \/ FinishTerminalRun(w) \/ SettleTerminal(w)
  BY <1>1, <1>6 DEF TakeJob, CrashDriver, RoundTop, ReloadForWrite,
       SkipStage, BusyStage, FinishStage, FailStage, ParkFailed, AfterStage,
       CompleteRun, SettleComplete, FinishTerminalRun, SettleTerminal,
       Leave, Goto, Holding, DriverTypeOK
<1>. QED BY <1>2, <1>3, <1>4, <1>5, <1>6, DriversMove DEF Drive, StageWork

\* Only charge() writes spend rows.
LEMMA ChargesMove ==
    ASSUME TypeOK, [Next]_vars
    PROVE  UNCHANGED charged \/ \E w \in Workers : ChargeStage(w) \/ VerifyReport(w)
<1>1. ASSUME NEW w \in Workers, TakeJob(w) \/ Drive(w) \/ CrashDriver(w),
             ~ChargeStage(w), ~VerifyReport(w)
      PROVE  UNCHANGED charged
  BY <1>1 DEF TakeJob, CrashDriver, Drive, StageWork, RoundTop,
     ReloadForWrite, SkipStage, BusyStage, ClaimStage, StageReturns, StageSkips,
     StageParks, StageThrows, WriteReport, FinishStage, FailStage,
     ParkAtCap, ParkFailed, AfterStage, CompleteRun, SettleComplete,
     FinishTerminalRun, SettleTerminal, ledgerVars, Settle
<1>2. ASSUME NEW o \in Requests, Ask(o) \/ Answer(o) \/ CrashRequest(o)
      PROVE  UNCHANGED charged
  BY <1>2 DEF Ask, Answer, CrashRequest, ReadApprove, ReadPause, ReadResume,
     ReadRevise, ReadRaise, EndRun, WritePause, WriteRunning, WriteRevise,
     RequestExecute, RaiseBudget, RaiseCap, SettleEnded, ledgerVars, Settle
<1>3. ASSUME NEW s \in Sweepers, Recover(s) \/ CrashSweep(s)
      PROVE  UNCHANGED charged
  BY <1>3 DEF Recover, CrashSweep, FindOrphans, ReclaimOrphans, RequeueOrphaned,
     FinishOrphaned, SettleOrphaned, FindStalled, CheckStalled, ParkStalled,
     KickStalled, ledgerVars, Settle
<1>4. ASSUME NEW r \in Rows, ExpireLease(r) \/ LoseLease(r) \/ Heartbeat(r)
      PROVE  UNCHANGED charged
  BY <1>4 DEF ExpireLease, LoseLease, Heartbeat, ledgerVars
<1>5. CASE FindUnsettled \/ RetrySettlement \/ UNCHANGED vars
  BY <1>5 DEF FindUnsettled, RetrySettlement, vars, ledgerVars, Settle
<1>. QED BY <1>1, <1>2, <1>3, <1>4, <1>5 DEF Next

\* Between a charge and its checkpoint there is nothing but a crash.
LEMMA ChargesCheckpointedKept ==
    ASSUME TypeOK, DriversHoldRows, LeasesKept, ChargesKept, [Next]_vars, stalls' = 0, crashes' = 0
    PROVE  ChargesCheckpointed'
<1>. SUFFICES ASSUME NEW ref \in Refs, charged'[ref] > 0, ref[1] # "verify"
              PROVE  \/ DoneRows(ref)' # {}
                     \/ \E w \in Workers : pc'[w] = "mark" /\ ~out'[w].parked /\ StageRef(w)' = ref
  BY DEF ChargesCheckpointed
<1>1. /\ DriverTypeOK /\ steps \in [Rows -> StepRows] /\ charged \in [Refs -> Nat]
      /\ crashes \in Nat
  BY BoundsAssumption DEF TypeOK, RunTypeOK, LedgerTypeOK
<1>2. CASE charged'[ref] = charged[ref]
  <2>1. CASE DoneRows(ref) # {}
    BY <2>1, DoneGrows, LeasedUndone
  <2>2. ASSUME NEW w \in Workers, pc[w] = "mark", ~out[w].parked, StageRef(w) = ref
        PROVE  \/ DoneRows(ref)' # {}
               \/ pc'[w] = "mark" /\ ~out'[w].parked /\ StageRef(w)' = ref
    <3>1. CASE SameLocals(w)
      BY <2>2, <3>1 DEF SameLocals, StageRef, KindOf
    <3>2. CASE FinishStage(w)
      <4>1. row[w] \in Rows /\ steps[row[w]].ref = ref
        BY <2>2 DEF DriversHoldRows, Holding
      <4>2. steps'[row[w]] = [status |-> Checkpointed(out[w]), ref |-> steps[row[w]].ref,
                              expired |-> FALSE, output |-> out[w]]
        BY <1>1, <3>2, <4>1 DEF FinishStage
      <4>3. Checkpointed(out[w]) = "done"
        BY <2>2 DEF Checkpointed
      <4>4. row[w] \in DoneRows(ref)'
        BY <4>1, <4>2, <4>3 DEF DoneRows
      <4>. QED BY <4>4
    <3>3. ~CrashDriver(w)
      BY <1>1 DEF CrashDriver
    <3>4. TakeJob(w) \/ Drive(w) => FinishStage(w)
      BY <2>2 DEF TakeJob, Drive, StageWork, RoundTop,
         ReloadForWrite, SkipStage, BusyStage, ClaimStage, StageReturns, StageSkips,
         StageParks, StageThrows, WriteReport, VerifyReport, ChargeStage, FailStage,
         ParkAtCap, ParkFailed, AfterStage, CompleteRun, SettleComplete,
         FinishTerminalRun, SettleTerminal
    <3>. QED BY <3>1, <3>2, <3>3, <3>4, DriversMove
  <2>3. \/ DoneRows(ref) # {}
        \/ \E w \in Workers : pc[w] = "mark" /\ ~out[w].parked /\ StageRef(w) = ref
    BY <1>2 DEF ChargesKept, ChargesCheckpointed
  <2>. QED BY <2>1, <2>2, <2>3
<1>3. CASE charged'[ref] # charged[ref]
  <2>1. PICK w \in Workers : ChargeStage(w) \/ VerifyReport(w)
    BY <1>3, ChargesMove
  <2>2. ~VerifyReport(w)
    <3>1. ASSUME NEW q, NEW cost, Draw(q, cost) PROVE ref = q
      BY <1>1, <1>3, <3>1 DEF Draw
    <3>2. VerifyReport(w) => \E cost \in Costs : Draw(<<"verify", ver[w]>>, cost)
      BY DEF VerifyReport
    <3>3. VerifyReport(w) => ref = <<"verify", ver[w]>>
      BY <3>1, <3>2
    <3>. QED BY <3>3
  <2>3. PICK cost \in Costs :
          /\ Draw(StageRef(w), cost)
          /\ out' = [out EXCEPT ![w].budgetOk = DrawOk(StageRef(w), cost)]
          /\ Goto(w, IF DrawOk(StageRef(w), cost) THEN "mark" ELSE "cap")
    BY <2>1, <2>2 DEF ChargeStage
  <2>4. ref = StageRef(w) /\ DrawOk(StageRef(w), cost)
    BY <1>1, <1>3, <2>3 DEF Draw, DrawOk
  <2>5. /\ pc[w] = "draw" /\ UNCHANGED <<ver, round, idx>>
        /\ pc'[w] = "mark" /\ out'[w].parked = out[w].parked
    BY <1>1, <2>1, <2>2, <2>3, <2>4 DEF ChargeStage, Goto, DriverTypeOK, Outcomes
  <2>6. ~out[w].parked
    BY <2>5 DEF ChargesKept, ChargedUnparked, Holding
  <2>7. StageRef(w)' = StageRef(w)
    BY <2>5 DEF StageRef, KindOf
  <2>. QED BY <2>4, <2>5, <2>6, <2>7
<1>. QED BY <1>2, <1>3

\* Until a crash or a lost lease, every step keeps the charges with their rows.
LEMMA ChargesKeptHolds ==
    IInv /\ LeasesKeptYet /\ ChargesKeptYet /\ [Next]_vars => ChargesKeptYet'
<1>. SUFFICES ASSUME IInv, LeasesKeptYet, ChargesKeptYet, [Next]_vars, stalls' = 0, crashes' = 0
              PROVE  ChargesKept'
  BY DEF ChargesKeptYet
<1>1. TypeOK /\ DriversHoldRows
  BY DEF IInv
<1>2. LeasesKept /\ ChargesKept
  BY <1>1, FaultsGrow DEF LeasesKeptYet, ChargesKeptYet
<1>. QED BY <1>1, <1>2, NoVerifyRowsKept, ChargedUnparkedKept, ChargesCheckpointedKept
            DEF ChargesKept

\* Nothing is charged at first.
LEMMA ChargesInit == Init => ChargesKept
<1>. SUFFICES ASSUME Init PROVE ChargesKept
  OBVIOUS
<1>1. /\ \A r \in Rows : steps[r].ref = <<"review", roundAttempt(1, 0)>>
      /\ \A w \in Workers : pc[w] = "idle"
      /\ \A ref \in Refs : charged[ref] = 0
  BY DEF Init, Configured
<1>. QED BY <1>1 DEF ChargesKept, NoVerifyRows, ChargedUnparked, ChargesCheckpointed, Holding

\* Without a crash or a lost lease, a stage that parked or failed was not billed, unless a
\* later attempt of it finished or is on its way (stage() and charge() in worker.js).
THEOREM UnfinishedStagesAreFree == Spec => [](stalls = 0 /\ crashes = 0 => UnfinishedIsFree)
<1>1. IInv /\ LeasesKept /\ ChargesKept => UnfinishedIsFree
  <2>. SUFFICES ASSUME IInv, LeasesKept, ChargesKept, NEW r \in Rows,
                       charged[steps[r].ref] # 0, DoneRows(steps[r].ref) = {}
                PROVE  \E q \in Active : steps[q].ref = steps[r].ref
    BY DEF UnfinishedIsFree
  <2>1. steps[r].ref \in Refs /\ charged \in [Refs -> Nat]
    BY DEF IInv, TypeOK, RunTypeOK, StepRows, LedgerTypeOK
  <2>4. charged[steps[r].ref] > 0
    BY <2>1
  <2>5. steps[r].ref[1] # "verify"
    BY DEF ChargesKept, NoVerifyRows
  <2>6. \A ref \in Refs : charged[ref] > 0 /\ ref[1] # "verify" /\ DoneRows(ref) = {} =>
          \E w \in Workers : pc[w] = "mark" /\ StageRef(w) = ref
    BY DEF ChargesKept, ChargesCheckpointed
  <2>2. PICK w \in Workers : pc[w] = "mark" /\ StageRef(w) = steps[r].ref
    BY <2>1, <2>4, <2>5, <2>6
  <2>3. row[w] \in Active /\ steps[row[w]].ref = steps[r].ref
    BY <2>2 DEF LeasesKept, HoldersActive, IInv, DriversHoldRows, Holding
  <2>. QED BY <2>3
<1>2. Spec => []ChargesKeptYet
  <2>1. Init => ChargesKeptYet
    BY ChargesInit DEF ChargesKeptYet
  <2>. QED BY <2>1, InductiveInvariant, LeasesStay, ChargesKeptHolds, PTL DEF Spec
<1>3. IInv /\ LeasesKeptYet /\ ChargesKeptYet => (stalls = 0 /\ crashes = 0 => UnfinishedIsFree)
  BY <1>1 DEF LeasesKeptYet, ChargesKeptYet
<1>. QED BY <1>2, <1>3, InductiveInvariant, LeasesStay, PTL

-----------------------------------------------------------------------------
(* Rounds: in order, and no more than the depth allows *)

\* Rounds 0..n-1 of version v were reviewed and sent on; one was, and may be written.
SentOn(v, n) ==
    \A m \in 0..n - 1 : \E q \in DoneRows(ReviewRef(v, m)) : steps[q].output.verdict = "continue"
WriteReady(v) ==
    \E m \in 0..MaxRounds : \E q \in DoneRows(ReviewRef(v, m)) : steps[q].output.verdict = "write"

InStage(w) == pc[w] \in Holding \cup {"claim", "after"}
InRound(w) == pc[w] = "top" \/ (InStage(w) /\ idx[w] <= Len(RoundKinds))
Decided == {"write", "continue"}

DriversOfVersion == \A w \in Workers : ver[w] = 1
\* What a driver goes on from is stored in a row.
AfterStored ==
    \A w \in Workers : pc[w] = "after" /\ ~out[w].parked =>
        \E q \in DoneRows(StageRef(w)) : steps[q].output = out[w]
ReviewsDecide ==
    \A w \in Workers : pc[w] \in {"draw", "cap", "mark"} /\ KindOf(w) = "review" /\ ~out[w].parked
        => out[w].verdict \in Decided
ReviewsDecided ==
    \A r \in Rows : steps[r].status = "done" /\ steps[r].ref[1] = "review"
        => steps[r].output.verdict \in Decided
DriversInOrder == \A w \in Workers : InRound(w) => SentOn(ver[w], round[w])
RowsInOrder ==
    \A r \in Rows, v \in Versions, n \in 0..MaxRounds + 1 :
        steps[r].status # "none" /\ steps[r].ref \in KindsOfRound \X {roundAttempt(v, n)}
            => SentOn(v, n)
OrderInv ==
    /\ DriversOfVersion /\ AfterStored /\ ReviewsDecide /\ ReviewsDecided
    /\ DriversInOrder /\ RowsInOrder
OrderInvYet == version = 1 => OrderInv

\* The version of a run that was never revised is 1.
LEMMA VersionGrows ==
    ASSUME TypeOK, [Next]_vars, version' = 1
    PROVE  version = 1
<1>1. version \in Nat /\ seen \in [Requests -> Nat] /\ version >= 1
      /\ \A o \in Requests : seen[o] >= 1
  BY BoundsAssumption DEF TypeOK, RunTypeOK, RequestTypeOK, Versions
<1>2. ASSUME NEW w \in Workers, TakeJob(w) \/ Drive(w) \/ CrashDriver(w)
      PROVE  version' = version
  BY <1>2 DEF TakeJob, CrashDriver, Drive, StageWork, RoundTop,
     ReloadForWrite, SkipStage, BusyStage, ClaimStage, StageReturns, StageSkips,
     StageParks, StageThrows, WriteReport, VerifyReport, ChargeStage, FinishStage, FailStage,
     ParkAtCap, ParkFailed, AfterStage, CompleteRun, SettleComplete,
     FinishTerminalRun, SettleTerminal, runVars, park, SetStatus
<1>3. ASSUME NEW o \in Requests, Ask(o) \/ Answer(o) \/ CrashRequest(o)
      PROVE  version' = version
  <2>1. ~WriteRevise(o)
    BY <1>1 DEF WriteRevise
  <2>. QED BY <1>3, <2>1 DEF Ask, Answer, CrashRequest, ReadApprove, ReadPause, ReadResume,
     ReadRevise, ReadRaise, EndRun, WritePause, WriteRunning,
     RequestExecute, RaiseBudget, SettleEnded, runVars, SetStatus
<1>4. ASSUME NEW s \in Sweepers, Recover(s) \/ CrashSweep(s)
      PROVE  version' = version
  BY <1>4 DEF Recover, CrashSweep, FindOrphans, ReclaimOrphans, RequeueOrphaned,
     FinishOrphaned, SettleOrphaned, FindStalled, CheckStalled, ParkStalled,
     KickStalled, runVars, park
<1>5. ASSUME NEW r \in Rows, ExpireLease(r) \/ LoseLease(r) \/ Heartbeat(r)
      PROVE  version' = version
  BY <1>5 DEF ExpireLease, LoseLease, Heartbeat, runVars
<1>6. CASE FindUnsettled \/ RetrySettlement \/ UNCHANGED vars
  BY <1>6 DEF FindUnsettled, RetrySettlement, vars, runVars
<1>. QED BY <1>2, <1>3, <1>4, <1>5, <1>6 DEF Next

\* Without a revision every driver works on the first version.
LEMMA DriversOfVersionKept ==
    ASSUME TypeOK, DriversOfVersion, [Next]_vars, version = 1
    PROVE  DriversOfVersion'
<1>. SUFFICES ASSUME NEW w \in Workers PROVE ver'[w] = 1
  BY DEF DriversOfVersion
<1>1. DriverTypeOK /\ ver[w] = 1
  BY DEF TypeOK, DriversOfVersion
<1>2. CASE SameLocals(w)
  BY <1>1, <1>2 DEF SameLocals
<1>3. CASE TakeJob(w) \/ Drive(w) \/ CrashDriver(w)
  BY <1>1, <1>3 DEF TakeJob, CrashDriver, Drive, StageWork, RoundTop,
     ReloadForWrite, SkipStage, BusyStage, ClaimStage, StageReturns, StageSkips,
     StageParks, StageThrows, WriteReport, VerifyReport, ChargeStage, FinishStage, FailStage,
     ParkAtCap, ParkFailed, AfterStage, CompleteRun, SettleComplete,
     FinishTerminalRun, SettleTerminal, Leave, DriverTypeOK
<1>. QED BY <1>2, <1>3, DriversMove

\* A stage ends in a row that stores what it returned.
LEMMA AfterStoredKept ==
    ASSUME TypeOK, DriversHoldRows, RowsApart, AfterStored, [Next]_vars
    PROVE  AfterStored'
<1>. SUFFICES ASSUME NEW w \in Workers, pc'[w] = "after", ~out'[w].parked
              PROVE  \E q \in Rows : /\ steps'[q].status = "done" /\ steps'[q].ref = StageRef(w)'
                                     /\ steps'[q].output = out'[w]
  BY DEF AfterStored, DoneRows
<1>1. DriverTypeOK /\ steps \in [Rows -> StepRows]
  BY DEF TypeOK, RunTypeOK
<1>2. CASE SameLocals(w)
  <2>1. StageRef(w)' = StageRef(w)
    BY <1>2 DEF SameLocals, StageRef, KindOf
  <2>2. PICK q \in DoneRows(StageRef(w)) : steps[q].output = out[w]
    BY <1>2 DEF SameLocals, AfterStored
  <2>3. steps'[q] = steps[q] /\ q \in Rows
    BY <2>2, DoneGrows DEF DoneRows, RowsApart
  <2>. QED BY <1>2, <2>1, <2>2, <2>3 DEF SameLocals, DoneRows
<1>3. CASE SkipStage(w)
  <2>1. PICK q \in Rows : q \in DoneRows(StageRef(w)) /\ out' = [out EXCEPT ![w] = steps[q].output]
    BY <1>3 DEF SkipStage, Latest
  <2>2. StageRef(w)' = StageRef(w) /\ UNCHANGED steps
    BY <1>3 DEF SkipStage, StageRef, KindOf
  <2>3. out'[w] = steps[q].output
    BY <1>1, <2>1 DEF DriverTypeOK
  <2>. QED BY <2>1, <2>2, <2>3 DEF DoneRows
<1>4. CASE FinishStage(w)
  <2>1. /\ pc[w] = "mark" /\ StageRef(w)' = StageRef(w) /\ UNCHANGED out
    BY <1>4 DEF FinishStage, StageRef, KindOf
  <2>2. row[w] \in Rows /\ steps[row[w]].ref = StageRef(w)
    BY <2>1 DEF DriversHoldRows, Holding
  <2>3. steps'[row[w]] = [status |-> Checkpointed(out[w]), ref |-> steps[row[w]].ref,
                          expired |-> FALSE, output |-> out[w]]
    BY <1>1, <1>4, <2>2 DEF FinishStage
  <2>4. Checkpointed(out[w]) = "done"
    BY <2>1 DEF Checkpointed
  <2>5. /\ steps'[row[w]].status = "done" /\ steps'[row[w]].ref = StageRef(w)'
        /\ steps'[row[w]].output = out'[w]
    BY <2>1, <2>2, <2>3, <2>4
  <2>. QED BY <2>2, <2>5
<1>5. CASE /\ TakeJob(w) \/ Drive(w) \/ CrashDriver(w)
           /\ ~SkipStage(w) /\ ~FinishStage(w)
  <2>1. pc'[w] # "after"
    BY <1>1, <1>5 DEF TakeJob, CrashDriver, Drive, StageWork, RoundTop,
     ReloadForWrite, BusyStage, ClaimStage, StageReturns, StageSkips,
     StageParks, StageThrows, WriteReport, VerifyReport, ChargeStage, FailStage,
     ParkAtCap, ParkFailed, AfterStage, CompleteRun, SettleComplete,
     FinishTerminalRun, SettleTerminal, Leave, Goto, DriverTypeOK
  <2>. QED BY <2>1
<1>. QED BY <1>2, <1>3, <1>4, <1>5, DriversMove

\* A review that did not park has a verdict.
LEMMA ReviewsDecideKept ==
    ASSUME TypeOK, ReviewsStop, ReviewsDecide, [Next]_vars
    PROVE  ReviewsDecide'
<1>. SUFFICES ASSUME NEW w \in Workers, pc'[w] \in {"draw", "cap", "mark"},
                     KindOf(w)' = "review", ~out'[w].parked
              PROVE  out'[w].verdict \in Decided
  BY DEF ReviewsDecide
<1>1. DriverTypeOK /\ out[w] \in Outcomes
  BY DEF TypeOK, DriverTypeOK
<1>2. CASE SameLocals(w)
  BY <1>2 DEF SameLocals, KindOf, ReviewsDecide
<1>3. CASE StageReturns(w)
  <2>1. KindOf(w) = "review"
    BY <1>3 DEF StageReturns, KindOf
  <2>2. PICK verdict \in VerdictsAt(round[w]) : out' = [out EXCEPT ![w].verdict = verdict]
    BY <1>3, <2>1 DEF StageReturns
  <2>3. out'[w].verdict = verdict
    BY <1>1, <2>2 DEF DriverTypeOK, Outcomes
  <2>. QED BY <2>2, <2>3 DEF VerdictsAt, Decided
<1>4. CASE StageSkips(w) \/ VerifyReport(w) \/ (ParkAtCap(w) /\ pc[w] = "vcap")
  <2>1. KindOf(w)' = KindOf(w) /\ KindOf(w) # "review"
    BY <1>4 DEF StageSkips, VerifyReport, ParkAtCap, KindOf, ReviewsStop
  <2>. QED BY <2>1
<1>5. CASE StageParks(w)
  BY <1>1, <1>5 DEF StageParks, DriverTypeOK, Outcomes
<1>6. CASE ChargeStage(w) \/ (ParkAtCap(w) /\ pc[w] = "cap")
  <2>1. /\ KindOf(w)' = KindOf(w) /\ pc[w] \in {"draw", "cap"}
    BY <1>6 DEF ChargeStage, ParkAtCap, KindOf
  <2>2. out'[w].parked = out[w].parked /\ out'[w].verdict = out[w].verdict
    BY <1>1, <1>6 DEF ChargeStage, ParkAtCap, DriverTypeOK, Outcomes
  <2>. QED BY <2>1, <2>2 DEF ReviewsDecide
<1>7. CASE TakeJob(w) \/ CrashDriver(w) \/ RoundTop(w) \/ ReloadForWrite(w) \/ SkipStage(w)
            \/ BusyStage(w) \/ ClaimStage(w) \/ StageThrows(w) \/ WriteReport(w) \/ FinishStage(w)
            \/ FailStage(w) \/ ParkFailed(w) \/ AfterStage(w) \/ CompleteRun(w)
            \/ SettleComplete(w) \/ FinishTerminalRun(w) \/ SettleTerminal(w)
  <2>1. pc'[w] \notin {"draw", "cap", "mark"}
    BY <1>1, <1>7 DEF TakeJob, CrashDriver, RoundTop, ReloadForWrite, SkipStage,
       BusyStage, ClaimStage, StageThrows, WriteReport, FinishStage, FailStage, ParkFailed,
       AfterStage, CompleteRun, SettleComplete, FinishTerminalRun, SettleTerminal,
       Leave, Goto, DriverTypeOK
  <2>. QED BY <2>1
<1>8. ParkAtCap(w) => pc[w] \in {"cap", "vcap"}
  BY DEF ParkAtCap
<1>. QED BY <1>2, <1>3, <1>4, <1>5, <1>6, <1>7, <1>8, DriversMove DEF Drive, StageWork

\* So has every finished review.
LEMMA ReviewsDecidedKept ==
    ASSUME TypeOK, DriversHoldRows, ReviewsDecide, ReviewsDecided, [Next]_vars
    PROVE  ReviewsDecided'
<1>. SUFFICES ASSUME NEW r \in Rows, steps'[r].status = "done", steps'[r].ref[1] = "review"
              PROVE  steps'[r].output.verdict \in Decided
  BY DEF ReviewsDecided
<1>1. CASE steps'[r] = steps[r]
  BY <1>1 DEF ReviewsDecided
<1>2. CASE steps'[r] # steps[r]
  <2>1. PICK w \in Workers :
          /\ r = row[w] /\ pc[w] = "mark" /\ ~out[w].parked
          /\ steps'[r].ref = steps[r].ref /\ steps'[r].output = out[w]
    BY <1>2, DoneIsFinished
  <2>2. KindOf(w) = "review"
    BY <2>1, KindIs DEF DriversHoldRows, Holding
  <2>. QED BY <2>1, <2>2 DEF ReviewsDecide
<1>. QED BY <1>1, <1>2

\* SentOn, after a step.
SentOnNext(v, n) ==
    \A m \in 0..n - 1 : \E q \in Rows :
        /\ steps'[q].status = "done" /\ steps'[q].ref = ReviewRef(v, m)
        /\ steps'[q].output.verdict = "continue"

\* A round that was sent on stays so.
LEMMA SentOnStays ==
    ASSUME TypeOK, RowsApart, [Next]_vars, NEW v, NEW n, SentOn(v, n)
    PROVE  SentOnNext(v, n)
<1>. SUFFICES ASSUME NEW m \in 0..n - 1
              PROVE  \E q \in Rows : /\ steps'[q].status = "done" /\ steps'[q].ref = ReviewRef(v, m)
                                     /\ steps'[q].output.verdict = "continue"
  BY DEF SentOnNext
<1>1. PICK q \in DoneRows(ReviewRef(v, m)) : steps[q].output.verdict = "continue"
  BY DEF SentOn
<1>2. q \in Rows /\ steps'[q] = steps[q]
  BY DoneGrows DEF DoneRows, RowsApart
<1>. QED BY <1>1, <1>2 DEF DoneRows

\* A stage that was finished, once or more often, has a latest row.
LEMMA LatestDone ==
    ASSUME UsedFinite, NEW ref, DoneRows(ref) # {}
    PROVE  \E r \in Rows : Latest(r, DoneRows(ref))
<1>1. DoneRows(ref) \subseteq Rows \ Unused /\ DoneRows(ref) \subseteq Int
  <2>. SUFFICES ASSUME NEW r \in DoneRows(ref) PROVE r \in Rows \ Unused /\ r \in Int
    OBVIOUS
  <2>1. r \in Rows /\ steps[r].status = "done"
    BY DEF DoneRows
  <2>2. r \notin Unused
    BY <2>1 DEF Unused
  <2>. QED BY <2>1, <2>2, RowsAssumption
<1>2. IsFiniteSet(DoneRows(ref))
  <2>1. IsFiniteSet(Rows \ Unused) /\ DoneRows(ref) \in SUBSET (Rows \ Unused)
    BY <1>1 DEF UsedFinite
  <2>. QED BY <2>1, FS_Subset
<1>3. PICK m \in DoneRows(ref) : \A x \in DoneRows(ref) : x <= m
  <2>. HIDE DEF DoneRows
  <2>. QED BY <1>1, <1>2, Greatest
<1>. QED BY <1>1, <1>3 DEF Latest

\* A review is a stage of its round.
LEMMA ReviewIsOfRound ==
    ASSUME NEW v, NEW n PROVE ReviewRef(v, n) \in KindsOfRound \X {roundAttempt(v, n)}
                              /\ ReviewRef(v, n)[1] = "review"
<1>1. "review" \in KindsOfRound
  BY PipelineAssumption DEF KindsOfRound
<1>. QED BY <1>1 DEF ReviewRef

\* The attempt of a stage names its version and its round.
LEMMA AttemptIs ==
    ASSUME NEW v \in Versions, NEW n \in 0..MaxRounds + 1, NEW u \in Versions,
           NEW m \in 0..MaxRounds + 1, roundAttempt(v, n) = roundAttempt(u, m)
    PROVE  v = u /\ n = m
BY BoundsAssumption DEF roundAttempt, Versions

\* The round at which a driver resumes, if the report is not due.
LEMMA ResumedRound ==
    ASSUME TypeOK, UsedFinite, ReviewsDecided, RowsInOrder, NEW v \in Versions,
           NEW n \in 0..MaxRounds + 1, finishedRounds(v, n), ~readyToWrite(v, n)
    PROVE  SentOn(v, n)
<1>1. CASE n = 0
  BY <1>1 DEF SentOn
<1>2. CASE n - 1 \in Reviewed(v)
  <2>1. n - 1 \in 0..MaxRounds /\ n > 0 /\ MaxRounds \in Nat
    BY <1>2, BoundsAssumption DEF Reviewed
  <2>3. PICK r \in Rows : Latest(r, DoneRows(ReviewRef(v, n - 1)))
    BY <1>2, LatestDone DEF Reviewed
  <2>2. r \in DoneRows(ReviewRef(v, n - 1))
    BY <2>3 DEF Latest
  <2>4. steps[r].output.verdict # "write"
    BY <2>1, <2>3 DEF readyToWrite
  <2>5. steps[r].status = "done" /\ steps[r].ref = ReviewRef(v, n - 1)
    BY <2>2 DEF DoneRows
  <2>6. steps[r].output.verdict = "continue"
    BY <2>4, <2>5, ReviewIsOfRound DEF ReviewsDecided, Decided
  <2>7. n - 1 \in 0..MaxRounds + 1
    BY <2>1
  <2>8. SentOn(v, n - 1)
    BY <2>5, <2>7, ReviewIsOfRound DEF RowsInOrder
  <2>9. ASSUME NEW m \in 0..n - 1
        PROVE  \E q \in DoneRows(ReviewRef(v, m)) : steps[q].output.verdict = "continue"
    <3>1. CASE m = n - 1
      BY <2>2, <2>6, <3>1
    <3>2. CASE m # n - 1
      <4>1. m \in 0..(n - 1) - 1
        BY <2>1, <3>2
      <4>. QED BY <2>8, <4>1 DEF SentOn
    <3>. QED BY <3>1, <3>2
  <2>. QED BY <2>9 DEF SentOn
<1>. QED BY <1>1, <1>2 DEF finishedRounds

\* Back in executeRun, a driver has the output of the row of its stage.
LEMMA AfterReview ==
    ASSUME TypeOK, AfterStored, ReviewsDecided, NEW w \in Workers, pc[w] = "after",
           ~out[w].parked, KindOf(w) = "review"
    PROVE  /\ out[w].verdict \in Decided /\ idx[w] <= Len(RoundKinds)
           /\ \E q \in DoneRows(ReviewRef(ver[w], round[w])) : steps[q].output = out[w]
<1>1. idx[w] <= Len(RoundKinds)
  BY DEF KindOf
<1>2. StageRef(w) = ReviewRef(ver[w], round[w])
  BY <1>1 DEF StageRef, ReviewRef
<1>3. PICK q \in DoneRows(ReviewRef(ver[w], round[w])) : steps[q].output = out[w]
  BY <1>2 DEF AfterStored
<1>4. out[w].verdict \in Decided
  BY <1>3, ReviewIsOfRound DEF ReviewsDecided, DoneRows
<1>. QED BY <1>1, <1>3, <1>4

\* A review that sends the run on opens the next round.
LEMMA NextRound ==
    ASSUME NEW v, NEW n \in Nat, SentOn(v, n), NEW q \in DoneRows(ReviewRef(v, n)),
           steps[q].output.verdict = "continue"
    PROVE  SentOn(v, n + 1)
<1>. SUFFICES ASSUME NEW m \in 0..(n + 1) - 1
              PROVE  \E p \in DoneRows(ReviewRef(v, m)) : steps[p].output.verdict = "continue"
  BY DEF SentOn
<1>1. m = n \/ m \in 0..n - 1
  OBVIOUS
<1>. QED BY <1>1 DEF SentOn

\* A driver enters a round when every earlier one was reviewed and sent on.
LEMMA DriversInOrderKept ==
    ASSUME TypeOK, RowsApart, OrderInv, [Next]_vars, version = 1
    PROVE  DriversInOrder'
<1>. SUFFICES ASSUME NEW w \in Workers, InRound(w)' PROVE SentOnNext(ver'[w], round'[w])
  BY DEF DriversInOrder, SentOn, SentOnNext, DoneRows, ReviewRef, roundAttempt
<1>1. /\ DriverTypeOK /\ ver[w] = version /\ version \in Versions /\ round[w] \in Nat
      /\ idx[w] \in Nat
  BY BoundsAssumption DEF TypeOK, RunTypeOK, DriverTypeOK, OrderInv, DriversOfVersion
<1>2. CASE InRound(w) /\ ver'[w] = ver[w] /\ round'[w] = round[w]
  BY <1>2, SentOnStays DEF OrderInv, DriversInOrder
<1>3. CASE SameLocals(w)
  <2>1. InRound(w)
    BY <1>3 DEF SameLocals, InRound, InStage
  <2>. QED BY <1>2, <1>3, <2>1 DEF SameLocals
<1>4. CASE TakeJob(w)
  <2>1. pc'[w] = "top"
    BY <1>1, <1>4 DEF TakeJob, Goto, DriverTypeOK, InRound, InStage, Holding
  <2>2. PICK n \in 0..MaxRounds + 1 :
          /\ finishedRounds(version, n) /\ ~readyToWrite(version, n)
          /\ ver' = [ver EXCEPT ![w] = version]
          /\ round' = [round EXCEPT ![w] = n]
    BY <1>1, <1>4, <2>1 DEF TakeJob, Goto, DriverTypeOK
  <2>3. SentOn(version, n)
    BY <1>1, <2>2, ResumedRound DEF OrderInv, RowsApart
  <2>4. ver'[w] = version /\ round'[w] = n
    BY <1>1, <2>2 DEF DriverTypeOK
  <2>. QED BY <2>3, <2>4, SentOnStays
<1>5. CASE RoundTop(w)
  <2>1. /\ pc[w] = "top" /\ ver'[w] \in {ver[w], version} /\ round'[w] = round[w]
    BY <1>1, <1>5 DEF RoundTop, DriverTypeOK
  <2>. QED BY <1>1, <1>2, <2>1 DEF InRound
<1>6. CASE ReloadForWrite(w)
  <2>1. idx'[w] = WriteIdx /\ pc'[w] = "claim"
    BY <1>1, <1>6 DEF ReloadForWrite, Goto, DriverTypeOK
  <2>. QED BY <2>1, IdxArith DEF InRound
<1>7. CASE SkipStage(w) \/ ClaimStage(w) \/ StageReturns(w) \/ StageSkips(w) \/ StageParks(w)
           \/ StageThrows(w) \/ WriteReport(w) \/ VerifyReport(w) \/ ChargeStage(w)
           \/ ParkAtCap(w) \/ FinishStage(w)
  <2>1. InStage(w) /\ UNCHANGED <<ver, round, idx>>
    BY <1>7 DEF SkipStage, ClaimStage, StageReturns, StageSkips, StageParks, StageThrows,
       WriteReport, VerifyReport, ChargeStage, ParkAtCap, FinishStage, InStage, Holding
  <2>2. pc'[w] # "top"
    BY <1>1, <1>7 DEF SkipStage, ClaimStage, StageReturns, StageSkips, StageParks, StageThrows,
       WriteReport, VerifyReport, ChargeStage, ParkAtCap, FinishStage, Goto, DriverTypeOK
  <2>. QED BY <1>2, <2>1, <2>2 DEF InRound
<1>8. CASE AfterStage(w)
  <2>1. pc[w] = "after" /\ UNCHANGED ver /\ pc'[w] \in {"final", "complete", "claim", "reload", "top"}
    BY <1>1, <1>8 DEF AfterStage, Goto, DriverTypeOK
  <2>2. CASE pc'[w] = "claim"
    <3>1. idx'[w] = idx[w] + 1 /\ round'[w] = round[w]
      BY <1>1, <1>8, <2>2 DEF AfterStage, Goto, DriverTypeOK
    <3>2. idx[w] <= Len(RoundKinds)
      BY <1>1, <2>2, <3>1, IdxArith DEF InRound
    <3>. QED BY <1>2, <2>1, <3>1, <3>2 DEF InRound, InStage
  <2>3. CASE pc'[w] = "top"
    <3>1. /\ ~Stops(w) /\ KindOf(w) = "review" /\ out[w].verdict # "write"
          /\ round' = [round EXCEPT ![w] = @ + 1]
      BY <1>1, <1>8, <2>3 DEF AfterStage, Goto, DriverTypeOK
    <3>2. PICK q \in DoneRows(ReviewRef(ver[w], round[w])) : steps[q].output = out[w]
      BY <2>1, <3>1, AfterReview DEF OrderInv, Stops
    <3>3. out[w].verdict = "continue" /\ InRound(w)
      BY <2>1, <3>1, AfterReview DEF OrderInv, Stops, Decided, InRound, InStage
    <3>4. SentOn(ver[w], round[w] + 1)
      BY <1>1, <3>2, <3>3, NextRound DEF OrderInv, DriversInOrder
    <3>5. ver'[w] = ver[w] /\ round'[w] = round[w] + 1
      BY <1>1, <2>1, <3>1 DEF DriverTypeOK
    <3>. QED BY <3>4, <3>5, SentOnStays
  <2>. QED BY <2>1, <2>2, <2>3 DEF InRound, InStage, Holding
<1>9. CASE CrashDriver(w) \/ BusyStage(w) \/ FailStage(w) \/ ParkFailed(w) \/ CompleteRun(w)
           \/ SettleComplete(w) \/ FinishTerminalRun(w) \/ SettleTerminal(w)
  <2>1. pc'[w] \in {"idle", "final", "errpark", "settle", "finish"}
    BY <1>1, <1>9 DEF CrashDriver, BusyStage, FailStage, ParkFailed, CompleteRun, SettleComplete,
       FinishTerminalRun, SettleTerminal, Leave, Goto, DriverTypeOK
  <2>. QED BY <2>1 DEF InRound, InStage, Holding
<1>. QED BY <1>3, <1>4, <1>5, <1>6, <1>7, <1>8, <1>9, DriversMove DEF Drive, StageWork

\* So is a row of a round claimed.
LEMMA RowsInOrderKept ==
    ASSUME TypeOK, DriversHoldRows, RowsApart, OrderInv, [Next]_vars
    PROVE  RowsInOrder'
<1>. SUFFICES ASSUME NEW r \in Rows, NEW v \in Versions, NEW n \in 0..MaxRounds + 1,
                     steps'[r].status # "none",
                     steps'[r].ref \in KindsOfRound \X {roundAttempt(v, n)}
              PROVE  SentOnNext(v, n)
  <2>1. ASSUME NEW v \in Versions, NEW n \in 0..MaxRounds + 1, SentOnNext(v, n)
        PROVE  SentOn(v, n)'
    BY <2>1 DEF SentOn, SentOnNext, DoneRows, ReviewRef
  <2>. QED BY <2>1 DEF RowsInOrder
<1>1. DriverTypeOK
  BY DEF TypeOK
<1>2. CASE steps[r].status # "none"
  <2>1. SentOn(v, n)
    BY <1>2, RowsStay DEF OrderInv, RowsInOrder
  <2>. QED BY <2>1, SentOnStays
<1>3. CASE steps[r].status = "none"
  <2>1. RowMoves(r)
    BY RowsMove
  <2>2. ASSUME NEW x \in Workers, FinishStage(x) \/ FailStage(x), r = row[x] PROVE FALSE
    <3>1. pc[x] \in Holding
      BY <2>2 DEF FinishStage, FailStage, Holding
    <3>. QED BY <1>3, <2>2, <3>1 DEF DriversHoldRows
  <2>3. PICK w \in Workers :
          /\ ClaimStage(w)
          /\ steps'[r] = [status |-> "active", ref |-> StageRef(w),
                          expired |-> FALSE, output |-> NoOutcome]
    BY <1>3, <2>1, <2>2 DEF RowMoves
  <2>4. StageRef(w) \in KindsOfRound \X {roundAttempt(v, n)} /\ pc[w] = "claim"
    BY <2>3 DEF ClaimStage
  <2>5. StageRef(w)[1] \in KindsOfRound /\ StageRef(w)[2] = roundAttempt(v, n)
    BY <2>4
  <2>6. idx[w] <= Len(RoundKinds)
    <3>1. KindOf(w) \notin {"write", "tips"}
      BY <2>5, KindIs, PipelineAssumption DEF SideKinds
    <3>2. idx[w] \in Nat
      BY <1>1 DEF DriverTypeOK
    <3>. QED BY <3>1, <3>2, KindIs, IdxArith
  <2>7. roundAttempt(ver[w], round[w]) = roundAttempt(v, n)
    BY <2>5, <2>6 DEF StageRef
  <2>8. ver[w] = v /\ round[w] = n
    BY <1>1, <2>7, AttemptIs DEF DriverTypeOK
  <2>9. InRound(w)
    BY <2>4, <2>6 DEF InRound, InStage
  <2>. QED BY <2>8, <2>9, SentOnStays DEF OrderInv, DriversInOrder
<1>. QED BY <1>2, <1>3

\* Every step of a run that was never revised keeps the rounds in order.
LEMMA OrderInvHolds ==
    IInv /\ RowsApart /\ OrderInvYet /\ [Next]_vars => OrderInvYet'
<1>. SUFFICES ASSUME IInv, RowsApart, OrderInvYet, [Next]_vars, version' = 1
              PROVE  OrderInv'
  BY DEF OrderInvYet
<1>1. TypeOK /\ DriversHoldRows /\ ReviewsStop
  BY DEF IInv
<1>2. OrderInv /\ version = 1
  BY <1>1, VersionGrows DEF OrderInvYet
<1>3. DriversOfVersion' /\ AfterStored'
  BY <1>1, <1>2, DriversOfVersionKept, AfterStoredKept DEF OrderInv
<1>4. ReviewsDecide' /\ ReviewsDecided'
  BY <1>1, <1>2, ReviewsDecideKept, ReviewsDecidedKept DEF OrderInv
<1>5. DriversInOrder' /\ RowsInOrder'
  BY <1>1, <1>2, DriversInOrderKept, RowsInOrderKept
<1>. QED BY <1>3, <1>4, <1>5 DEF OrderInv

\* The rounds are in order until the run is revised.
LEMMA OrderStays == Spec => []OrderInvYet
<1>1. Init => OrderInvYet
  <2>. SUFFICES ASSUME Init PROVE OrderInv
    BY DEF OrderInvYet
  <2>1. /\ \A r \in Rows : steps[r].status = "none"
        /\ \A w \in Workers : pc[w] = "idle" /\ ver[w] = 1
    BY DEF Init
  <2>. QED BY <2>1 DEF OrderInv, DriversOfVersion, AfterStored, ReviewsDecide, ReviewsDecided,
              DriversInOrder, RowsInOrder, InRound, InStage, Holding
<1>. QED BY <1>1, InductiveInvariant, RowsStayApart, OrderInvHolds, PTL DEF Spec

\* There is no round after the last: its review says "write".
LEMMA RoundsEnd ==
    ASSUME LastReviews, NEW v \in Versions, NEW n \in 0..MaxRounds + 1, SentOn(v, n)
    PROVE  n <= MaxRounds
<1>1. MaxRounds \in Nat
  BY BoundsAssumption
<1>2. ASSUME n = MaxRounds + 1 PROVE FALSE
  <2>1. MaxRounds \in 0..n - 1 /\ MaxRounds \in MaxRounds..MaxRounds + 1
    BY <1>1, <1>2
  <2>2. PICK q \in DoneRows(ReviewRef(v, MaxRounds)) : steps[q].output.verdict = "continue"
    BY <2>1 DEF SentOn
  <2>. QED BY <2>1, <2>2 DEF LastReviews, DoneRows
<1>. QED BY <1>1, <1>2

\* Until the run is revised, a follow-up round starts only when every earlier round was
\* reviewed and sent on, and never past the limit of the depth, through any crashes, lost
\* leases and redelivered jobs (finishedRounds and the round loop of executeRun in worker.js).
THEOREM RoundsFollow == Spec => [](version = 1 => RoundsInOrder)
<1>1. LastReviews /\ OrderInv => RoundsInOrder
  BY RoundsEnd DEF OrderInv, RowsInOrder, RoundsInOrder, SentOn
<1>2. IInv /\ OrderInvYet => (version = 1 => RoundsInOrder)
  BY <1>1 DEF IInv, OrderInvYet
<1>. QED BY <1>2, InductiveInvariant, OrderStays, PTL

-----------------------------------------------------------------------------
(* Delivery: a complete run was written and paid *)

\* What must be stored before a driver of the first version writes, counts and completes.
DriversWrite ==
    \A w \in Workers :
        /\ pc[w] \in {"reload", "complete"} \/ (InStage(w) /\ idx[w] > Len(RoundKinds))
             => WriteReady(1)
        /\ pc[w] = "complete" \/ (InStage(w) /\ idx[w] = TipsIdx) => PaidStage(<<"write", 1>>)
        /\ pc[w] = "complete" => PaidStage(<<"tips", 1>>)
        /\ pc[w] \in {"verify", "vcap", "draw", "cap", "mark"} /\ KindOf(w) = "write"
             => 1 \in reports
ReportsStored ==
    \A r \in Rows : steps[r].status = "done" /\ steps[r].ref = <<"write", 1>> => 1 \in reports
CompleteStored ==
    status = "complete" =>
        WriteReady(1) /\ PaidStage(<<"write", 1>>) /\ PaidStage(<<"tips", 1>>)
DeliveryInv == DriversWrite /\ ReportsStored /\ CompleteStored
DeliveryInvYet == stalls = 0 /\ version = 1 => DeliveryInv

\* Two rows of one finished stage are one.
LEMMA TheDoneRow ==
    ASSUME DoneOnce, NEW ref, NEW q \in DoneRows(ref), NEW r \in DoneRows(ref)
    PROVE  q = r
BY DEF DoneOnce, DoneRows

\* A finished review is stored for good.
LEMMA ReadyStays ==
    ASSUME TypeOK, LeasesKept, [Next]_vars, stalls' = 0, NEW v, WriteReady(v)
    PROVE  WriteReady(v)'
<1>1. PICK m \in 0..MaxRounds :
        \E q \in DoneRows(ReviewRef(v, m)) : steps[q].output.verdict = "write"
  BY DEF WriteReady
<1>2. PICK q \in DoneRows(ReviewRef(v, m)) : steps[q].output.verdict = "write"
  BY <1>1
<1>3. q \in Rows /\ steps'[q] = steps[q]
  BY <1>2, DoneGrows, LeasedUndone DEF DoneRows
<1>. QED BY <1>2, <1>3 DEF WriteReady, DoneRows, ReviewRef

\* A paid stage stays paid.
LEMMA PaidStays ==
    ASSUME TypeOK, LeasesKept, [Next]_vars, stalls' = 0, NEW ref, PaidStage(ref)
    PROVE  PaidStage(ref)'
<1>1. PICK q \in DoneRows(ref) : steps[q].output.budgetOk
  BY DEF PaidStage
<1>2. q \in Rows /\ steps'[q] = steps[q]
  BY <1>1, DoneGrows, LeasedUndone DEF DoneRows
<1>. QED BY <1>1, <1>2 DEF PaidStage, DoneRows

\* Reports are only ever added.
LEMMA ReportsGrow == [Next]_vars => reports \subseteq reports'
<1>. SUFFICES ASSUME [Next]_vars PROVE reports \subseteq reports'
  OBVIOUS
<1>1. ASSUME NEW w \in Workers, TakeJob(w) \/ Drive(w) \/ CrashDriver(w)
      PROVE  reports \subseteq reports'
  BY <1>1 DEF TakeJob, CrashDriver, Drive, StageWork, RoundTop,
     ReloadForWrite, SkipStage, BusyStage, ClaimStage, StageReturns, StageSkips,
     StageParks, StageThrows, WriteReport, VerifyReport, ChargeStage, FinishStage, FailStage,
     ParkAtCap, ParkFailed, AfterStage, CompleteRun, SettleComplete,
     FinishTerminalRun, SettleTerminal
<1>2. ASSUME NEW o \in Requests, Ask(o) \/ Answer(o) \/ CrashRequest(o)
      PROVE  reports \subseteq reports'
  BY <1>2 DEF Ask, Answer, CrashRequest, ReadApprove, ReadPause, ReadResume,
     ReadRevise, ReadRaise, EndRun, WritePause, WriteRunning, WriteRevise,
     RequestExecute, RaiseBudget, SettleEnded
<1>3. ASSUME NEW s \in Sweepers, Recover(s) \/ CrashSweep(s)
      PROVE  reports \subseteq reports'
  BY <1>3 DEF Recover, CrashSweep, FindOrphans, ReclaimOrphans, RequeueOrphaned,
     FinishOrphaned, SettleOrphaned, FindStalled, CheckStalled, ParkStalled, KickStalled
<1>4. ASSUME NEW r \in Rows, ExpireLease(r) \/ LoseLease(r) \/ Heartbeat(r)
      PROVE  reports \subseteq reports'
  BY <1>4 DEF ExpireLease, LoseLease, Heartbeat
<1>5. CASE FindUnsettled \/ RetrySettlement \/ UNCHANGED vars
  BY <1>5 DEF FindUnsettled, RetrySettlement, vars
<1>. QED BY <1>1, <1>2, <1>3, <1>4, <1>5 DEF Next

\* Only a driver completes a run.
LEMMA WhoCompletes ==
    ASSUME [Next]_vars, status # "complete", status' = "complete"
    PROVE  \E w \in Workers : pc[w] = "complete"
<1>. SUFFICES ASSUME \A w \in Workers : pc[w] # "complete" PROVE FALSE
  OBVIOUS
<1>1. ASSUME NEW w \in Workers, TakeJob(w) \/ Drive(w) \/ CrashDriver(w) PROVE FALSE
  <2>1. ~CompleteRun(w)
    BY DEF CompleteRun
  <2>. QED BY <1>1, <2>1 DEF TakeJob, CrashDriver, Drive, StageWork, RoundTop,
     ReloadForWrite, SkipStage, BusyStage, ClaimStage, StageReturns, StageSkips,
     StageParks, StageThrows, WriteReport, VerifyReport, ChargeStage, FinishStage, FailStage,
     ParkAtCap, ParkFailed, AfterStage, SettleComplete,
     FinishTerminalRun, SettleTerminal, runVars, park, SetStatus
<1>2. ASSUME NEW o \in Requests, Ask(o) \/ Answer(o) \/ CrashRequest(o) PROVE FALSE
  BY <1>2 DEF Ask, Answer, CrashRequest, ReadApprove, ReadPause, ReadResume,
     ReadRevise, ReadRaise, EndRun, WritePause, WriteRunning, WriteRevise,
     RequestExecute, RaiseBudget, SettleEnded, runVars, SetStatus
<1>3. ASSUME NEW s \in Sweepers, Recover(s) \/ CrashSweep(s) PROVE FALSE
  BY <1>3 DEF Recover, CrashSweep, FindOrphans, ReclaimOrphans, RequeueOrphaned,
     FinishOrphaned, SettleOrphaned, FindStalled, CheckStalled, ParkStalled,
     KickStalled, runVars, park
<1>4. ASSUME NEW r \in Rows, ExpireLease(r) \/ LoseLease(r) \/ Heartbeat(r) PROVE FALSE
  BY <1>4 DEF ExpireLease, LoseLease, Heartbeat, runVars
<1>5. CASE FindUnsettled \/ RetrySettlement \/ UNCHANGED vars
  BY <1>5 DEF FindUnsettled, RetrySettlement, vars, runVars
<1>. QED BY <1>1, <1>2, <1>3, <1>4, <1>5 DEF Next

\* Where a driver that is past its rounds, at the tips or done came from.
Writing(w) == pc[w] \in {"reload", "complete"} \/ (InStage(w) /\ idx[w] > Len(RoundKinds))
Tipping(w) == pc[w] = "complete" \/ (InStage(w) /\ idx[w] = TipsIdx)

\* Within a stage a driver stays on it.
LEMMA WithinStage ==
    ASSUME TypeOK, NEW w \in Workers,
           \/ SkipStage(w) \/ ClaimStage(w) \/ StageReturns(w) \/ StageSkips(w) \/ StageParks(w)
           \/ StageThrows(w) \/ WriteReport(w) \/ VerifyReport(w) \/ ChargeStage(w)
           \/ ParkAtCap(w) \/ FinishStage(w)
    PROVE  InStage(w) /\ idx'[w] = idx[w] /\ pc'[w] \notin {"reload", "complete"}
<1>1. DriverTypeOK
  BY DEF TypeOK
<1>2. InStage(w) /\ UNCHANGED idx
  BY DEF SkipStage, ClaimStage, StageReturns, StageSkips, StageParks, StageThrows,
     WriteReport, VerifyReport, ChargeStage, ParkAtCap, FinishStage, InStage, Holding
<1>3. pc'[w] \notin {"reload", "complete"}
  BY <1>1 DEF SkipStage, ClaimStage, StageReturns, StageSkips, StageParks, StageThrows,
     WriteReport, VerifyReport, ChargeStage, ParkAtCap, FinishStage, Goto, DriverTypeOK
<1>. QED BY <1>2, <1>3

\* These steps leave the stages.
LEMMA OffStage ==
    ASSUME TypeOK, NEW w \in Workers,
           \/ CrashDriver(w) \/ BusyStage(w) \/ FailStage(w) \/ ParkFailed(w) \/ CompleteRun(w)
           \/ SettleComplete(w) \/ FinishTerminalRun(w) \/ SettleTerminal(w)
    PROVE  pc'[w] \in {"idle", "final", "errpark", "settle", "finish"}
BY DEF TypeOK, CrashDriver, BusyStage, FailStage, ParkFailed, CompleteRun, SettleComplete,
       FinishTerminalRun, SettleTerminal, Leave, Goto, DriverTypeOK

\* After a stage that was not stopped, it goes on from a stored and paid row.
LEMMA AfterIs ==
    ASSUME TypeOK, AfterStored, NEW w \in Workers, AfterStage(w), pc'[w] # "final"
    PROVE  /\ pc[w] = "after" /\ ~out[w].parked /\ PaidStage(StageRef(w))
           /\ pc'[w] \in {"complete", "claim", "reload", "top"}
           /\ pc'[w] = "complete" => idx[w] = TipsIdx
           /\ pc'[w] = "claim" => idx[w] # TipsIdx /\ KindOf(w) # "review" /\ idx'[w] = idx[w] + 1
           /\ pc'[w] = "reload" => KindOf(w) = "review" /\ out[w].verdict = "write"
<1>1. DriverTypeOK
  BY DEF TypeOK
<1>2. pc[w] = "after" /\ ~Stops(w)
  BY <1>1 DEF AfterStage, Goto, DriverTypeOK
<1>3. PICK q \in DoneRows(StageRef(w)) : steps[q].output = out[w]
  BY <1>2 DEF AfterStored, Stops
<1>4. PaidStage(StageRef(w)) /\ ~out[w].parked
  BY <1>2, <1>3 DEF PaidStage, Stops
<1>5. idx'[w] = idx[w] + 1 \/ pc'[w] # "claim"
  BY <1>1, <1>2 DEF AfterStage, Goto, DriverTypeOK
<1>6. /\ pc'[w] \in {"complete", "claim", "reload", "top"}
      /\ pc'[w] = "complete" => idx[w] = TipsIdx
      /\ pc'[w] = "claim" => idx[w] # TipsIdx /\ KindOf(w) # "review"
      /\ pc'[w] = "reload" => KindOf(w) = "review" /\ out[w].verdict = "write"
  BY <1>1, <1>2 DEF AfterStage, Goto, DriverTypeOK
<1>. QED BY <1>2, <1>4, <1>5, <1>6

\* The write is reached only over a review that says so.
LEMMA WritingKept ==
    ASSUME TypeOK, LeasesKept, OrderInv, LastReviews, [Next]_vars, stalls' = 0, version = 1,
           \A w \in Workers : Writing(w) => WriteReady(1),
           NEW w \in Workers, Writing(w)'
    PROVE  WriteReady(1)'
<1>1. /\ DriverTypeOK /\ AfterStored /\ ReviewsDecided /\ ver[w] = 1 /\ 1 \in Versions
      /\ round[w] \in 0..MaxRounds + 1 /\ idx[w] \in Nat /\ MaxRounds \in Nat
  BY BoundsAssumption, IdxArith
     DEF TypeOK, DriverTypeOK, OrderInv, DriversOfVersion, Versions
<1>2. CASE Writing(w)
  BY <1>2, ReadyStays
<1>3. CASE SameLocals(w)
  BY <1>2, <1>3 DEF SameLocals, Writing, InStage
<1>4. CASE TakeJob(w)
  <2>1. PICK n \in 0..MaxRounds + 1 :
          /\ readyToWrite(1, n) \/ pc'[w] # "reload"
    BY <1>1, <1>4 DEF TakeJob, Goto, DriverTypeOK, Writing, InStage, Holding
  <2>2. pc'[w] = "reload"
    BY <1>1, <1>4 DEF TakeJob, Goto, DriverTypeOK, Writing, InStage, Holding
  <2>3. PICK r \in Rows : /\ n > 0 /\ Latest(r, DoneRows(ReviewRef(1, n - 1)))
                          /\ steps[r].output.verdict = "write"
    BY <2>1, <2>2 DEF readyToWrite
  <2>4. n - 1 \in 0..MaxRounds /\ r \in DoneRows(ReviewRef(1, n - 1))
    BY <1>1, <2>3 DEF Latest
  <2>5. WriteReady(1)
    BY <2>3, <2>4 DEF WriteReady
  <2>. QED BY <2>5, ReadyStays
<1>5. CASE RoundTop(w)
  <2>1. pc'[w] = "final" \/ (pc'[w] = "claim" /\ idx'[w] = 1)
    BY <1>1, <1>5 DEF RoundTop, Goto, DriverTypeOK
  <2>. QED BY <2>1, IdxArith DEF Writing, InStage, Holding
<1>6. CASE ReloadForWrite(w)
  BY <1>2, <1>6 DEF ReloadForWrite, Writing
<1>7. CASE \/ SkipStage(w) \/ ClaimStage(w) \/ StageReturns(w) \/ StageSkips(w) \/ StageParks(w)
           \/ StageThrows(w) \/ WriteReport(w) \/ VerifyReport(w) \/ ChargeStage(w)
           \/ ParkAtCap(w) \/ FinishStage(w)
  BY <1>2, <1>7, WithinStage DEF Writing
<1>8. CASE AfterStage(w)
  <2>1. pc'[w] # "final"
    BY DEF Writing, InStage, Holding
  <2>2. CASE pc'[w] = "complete"
    BY <1>1, <1>2, <1>8, <2>1, <2>2, AfterIs, IdxArith DEF Writing, InStage
  <2>3. CASE pc'[w] = "claim"
    <3>1. /\ pc[w] = "after" /\ KindOf(w) # "review" /\ idx[w] + 1 > Len(RoundKinds)
      BY <1>1, <1>8, <2>1, <2>3, AfterIs DEF Writing
    <3>2. idx[w] # Len(RoundKinds)
      BY <3>1, PipelineAssumption, IdxArith DEF KindOf
    <3>3. idx[w] > Len(RoundKinds)
      BY <1>1, <3>1, <3>2, IdxArith
    <3>. QED BY <1>2, <3>1, <3>3 DEF Writing, InStage
  <2>4. CASE pc'[w] = "reload"
    <3>1. /\ pc[w] = "after" /\ ~out[w].parked /\ KindOf(w) = "review"
          /\ out[w].verdict = "write"
      BY <1>1, <1>8, <2>1, <2>4, AfterIs
    <3>2. PICK q \in DoneRows(ReviewRef(1, round[w])) : steps[q].output = out[w]
      BY <1>1, <3>1, AfterReview
    <3>3. InRound(w)
      BY <1>1, <3>1, AfterReview DEF InRound, InStage
    <3>4. round[w] <= MaxRounds
      BY <1>1, <3>3, RoundsEnd DEF OrderInv, DriversInOrder
    <3>5. WriteReady(1)
      BY <1>1, <3>1, <3>2, <3>4 DEF WriteReady
    <3>. QED BY <3>5, ReadyStays
  <2>5. pc'[w] # "top"
    BY DEF Writing, InStage, Holding
  <2>. QED BY <1>1, <1>8, <2>1, <2>2, <2>3, <2>4, <2>5, AfterIs
<1>9. CASE \/ CrashDriver(w) \/ BusyStage(w) \/ FailStage(w) \/ ParkFailed(w) \/ CompleteRun(w)
           \/ SettleComplete(w) \/ FinishTerminalRun(w) \/ SettleTerminal(w)
  <2>1. pc'[w] \in {"idle", "final", "errpark", "settle", "finish"}
    BY <1>9, OffStage
  <2>. QED BY <2>1 DEF Writing, InStage, Holding
<1>. QED BY <1>3, <1>4, <1>5, <1>6, <1>7, <1>8, <1>9, DriversMove DEF Drive, StageWork

\* The tips are reached only over a report that was paid for.
LEMMA TippingKept ==
    ASSUME TypeOK, LeasesKept, OrderInv, [Next]_vars, stalls' = 0, version = 1,
           \A w \in Workers : Tipping(w) => PaidStage(<<"write", 1>>),
           NEW w \in Workers, Tipping(w)'
    PROVE  PaidStage(<<"write", 1>>)'
<1>1. /\ DriverTypeOK /\ AfterStored /\ ver[w] = 1 /\ idx[w] \in Nat
  BY IdxArith DEF TypeOK, DriverTypeOK, OrderInv, DriversOfVersion
<1>2. CASE Tipping(w)
  BY <1>2, PaidStays
<1>3. CASE SameLocals(w)
  BY <1>2, <1>3 DEF SameLocals, Tipping, InStage
<1>4. CASE TakeJob(w)
  <2>1. pc'[w] \in {"final", "reload", "top"}
    BY <1>1, <1>4 DEF TakeJob, Goto, DriverTypeOK
  <2>. QED BY <2>1 DEF Tipping, InStage, Holding
<1>5. CASE RoundTop(w) \/ ReloadForWrite(w)
  <2>1. pc'[w] = "final" \/ (pc'[w] = "claim" /\ idx'[w] \in {1, WriteIdx})
    BY <1>1, <1>5 DEF RoundTop, ReloadForWrite, Goto, DriverTypeOK
  <2>. QED BY <2>1, IdxArith DEF Tipping, InStage, Holding
<1>6. CASE \/ SkipStage(w) \/ ClaimStage(w) \/ StageReturns(w) \/ StageSkips(w) \/ StageParks(w)
           \/ StageThrows(w) \/ WriteReport(w) \/ VerifyReport(w) \/ ChargeStage(w)
           \/ ParkAtCap(w) \/ FinishStage(w)
  BY <1>2, <1>6, WithinStage DEF Tipping
<1>7. CASE AfterStage(w)
  <2>1. pc'[w] \in {"complete", "claim"}
    BY <1>1, <1>7, AfterIs DEF Tipping, InStage, Holding
  <2>2. CASE pc'[w] = "complete"
    BY <1>1, <1>2, <1>7, <2>2, AfterIs DEF Tipping, InStage
  <2>3. CASE pc'[w] = "claim"
    <3>1. idx[w] = WriteIdx /\ PaidStage(StageRef(w))
      BY <1>1, <1>7, <2>3, AfterIs, IdxArith DEF Tipping
    <3>2. StageRef(w) = <<"write", 1>>
      BY <1>1, <3>1, IdxArith DEF StageRef, KindOf
    <3>. QED BY <3>1, <3>2, PaidStays
  <2>. QED BY <2>1, <2>2, <2>3
<1>8. CASE \/ CrashDriver(w) \/ BusyStage(w) \/ FailStage(w) \/ ParkFailed(w) \/ CompleteRun(w)
           \/ SettleComplete(w) \/ FinishTerminalRun(w) \/ SettleTerminal(w)
  <2>1. pc'[w] \in {"idle", "final", "errpark", "settle", "finish"}
    BY <1>8, OffStage
  <2>. QED BY <2>1 DEF Tipping, InStage, Holding
<1>. QED BY <1>3, <1>4, <1>5, <1>6, <1>7, <1>8, DriversMove DEF Drive, StageWork

\* The end is reached only over tips that were paid for.
LEMMA CompletingKept ==
    ASSUME TypeOK, LeasesKept, OrderInv, [Next]_vars, stalls' = 0, version = 1,
           \A w \in Workers : pc[w] = "complete" => PaidStage(<<"tips", 1>>),
           NEW w \in Workers, pc'[w] = "complete"
    PROVE  PaidStage(<<"tips", 1>>)'
<1>1. /\ DriverTypeOK /\ AfterStored /\ ver[w] = 1
  BY DEF TypeOK, OrderInv, DriversOfVersion
<1>2. CASE pc[w] = "complete"
  BY <1>2, PaidStays
<1>3. CASE AfterStage(w)
  <2>1. idx[w] = TipsIdx /\ PaidStage(StageRef(w))
    BY <1>1, <1>3, AfterIs
  <2>2. StageRef(w) = <<"tips", 1>>
    BY <1>1, <2>1, IdxArith DEF StageRef, KindOf
  <2>. QED BY <2>1, <2>2, PaidStays
<1>4. CASE SameLocals(w)
  BY <1>2, <1>4 DEF SameLocals
<1>5. CASE TakeJob(w) \/ RoundTop(w) \/ ReloadForWrite(w)
  BY <1>1, <1>5 DEF TakeJob, RoundTop, ReloadForWrite, Goto, DriverTypeOK
<1>6. CASE \/ SkipStage(w) \/ ClaimStage(w) \/ StageReturns(w) \/ StageSkips(w) \/ StageParks(w)
           \/ StageThrows(w) \/ WriteReport(w) \/ VerifyReport(w) \/ ChargeStage(w)
           \/ ParkAtCap(w) \/ FinishStage(w)
  BY <1>6, WithinStage
<1>7. CASE \/ CrashDriver(w) \/ BusyStage(w) \/ FailStage(w) \/ ParkFailed(w) \/ CompleteRun(w)
           \/ SettleComplete(w) \/ FinishTerminalRun(w) \/ SettleTerminal(w)
  BY <1>7, OffStage
<1>. QED BY <1>3, <1>4, <1>5, <1>6, <1>7, DriversMove DEF Drive, StageWork

\* Past the work of a write, the report is there.
LEMMA WritersReport ==
    ASSUME TypeOK, OrderInv, DriversWrite, [Next]_vars, version = 1, NEW w \in Workers,
           pc'[w] \in {"verify", "vcap", "draw", "cap", "mark"}, KindOf(w)' = "write"
    PROVE  1 \in reports'
<1>1. DriverTypeOK /\ ver[w] = 1 /\ reports \subseteq reports'
  BY ReportsGrow DEF TypeOK, OrderInv, DriversOfVersion
<1>2. CASE pc[w] \in {"verify", "vcap", "draw", "cap", "mark"} /\ idx'[w] = idx[w]
  BY <1>1, <1>2 DEF DriversWrite, KindOf
<1>3. CASE SameLocals(w)
  BY <1>2, <1>3 DEF SameLocals
<1>4. CASE WriteReport(w)
  BY <1>1, <1>4 DEF WriteReport, Goto, DriverTypeOK
<1>5. CASE VerifyReport(w) \/ ChargeStage(w) \/ ParkAtCap(w)
  BY <1>2, <1>5 DEF VerifyReport, ChargeStage, ParkAtCap
<1>6. CASE StageReturns(w) \/ StageSkips(w) \/ StageParks(w)
  BY <1>6 DEF StageReturns, StageSkips, StageParks, KindOf
<1>7. CASE \/ TakeJob(w) \/ RoundTop(w) \/ ReloadForWrite(w) \/ SkipStage(w) \/ ClaimStage(w)
           \/ StageThrows(w) \/ FinishStage(w) \/ AfterStage(w)
  BY <1>1, <1>7 DEF TakeJob, RoundTop, ReloadForWrite, SkipStage, ClaimStage, StageThrows,
     FinishStage, AfterStage, Goto, DriverTypeOK
<1>8. CASE \/ CrashDriver(w) \/ BusyStage(w) \/ FailStage(w) \/ ParkFailed(w) \/ CompleteRun(w)
           \/ SettleComplete(w) \/ FinishTerminalRun(w) \/ SettleTerminal(w)
  BY <1>8, OffStage
<1>. QED BY <1>3, <1>4, <1>5, <1>6, <1>7, <1>8, DriversMove DEF Drive, StageWork

\* A write is checkpointed after its report is stored.
LEMMA ReportsStoredKept ==
    ASSUME TypeOK, DriversHoldRows, LeasesKept, OrderInv, DriversWrite, ReportsStored,
           [Next]_vars, stalls' = 0
    PROVE  ReportsStored'
<1>. SUFFICES ASSUME NEW r \in Rows, steps'[r].status = "done", steps'[r].ref = <<"write", 1>>
              PROVE  1 \in reports'
  BY DEF ReportsStored
<1>1. CASE steps'[r] = steps[r]
  BY <1>1, ReportsGrow DEF ReportsStored
<1>2. CASE steps'[r] # steps[r]
  <2>1. PICK w \in Workers :
          r = row[w] /\ pc[w] = "mark" /\ steps'[r].ref = steps[r].ref
    BY <1>2, DoneIsFinished
  <2>2. StageRef(w) = <<"write", 1>>
    BY <2>1 DEF DriversHoldRows, Holding
  <2>3. KindOf(w) = "write"
    BY <2>2, KindIs
  <2>4. 1 \in reports
    BY <2>1, <2>3 DEF DriversWrite
  <2>. QED BY <2>4, ReportsGrow
<1>. QED BY <1>1, <1>2

\* Every step of a run that was never revised keeps what completion rests on.
LEMMA DeliveryInvHolds ==
    IInv /\ LeasesKeptYet /\ OrderInvYet /\ DeliveryInvYet /\ [Next]_vars => DeliveryInvYet'
<1>. SUFFICES ASSUME IInv, LeasesKeptYet, OrderInvYet, DeliveryInvYet, [Next]_vars,
                     stalls' = 0, version' = 1
              PROVE  DeliveryInv'
  BY DEF DeliveryInvYet
<1>1. TypeOK /\ DriversHoldRows /\ LastReviews
  BY DEF IInv
<1>2. LeasesKept /\ OrderInv /\ DeliveryInv /\ version = 1
  BY <1>1, FaultsGrow, VersionGrows DEF LeasesKeptYet, OrderInvYet, DeliveryInvYet
<1>3. DriversWrite'
  <2>1. ASSUME NEW w \in Workers, Writing(w)' PROVE WriteReady(1)'
    BY <1>1, <1>2, <2>1, WritingKept DEF DeliveryInv, DriversWrite, Writing
  <2>2. ASSUME NEW w \in Workers, Tipping(w)' PROVE PaidStage(<<"write", 1>>)'
    BY <1>1, <1>2, <2>2, TippingKept DEF DeliveryInv, DriversWrite, Tipping
  <2>3. ASSUME NEW w \in Workers, pc'[w] = "complete" PROVE PaidStage(<<"tips", 1>>)'
    BY <1>1, <1>2, <2>3, CompletingKept DEF DeliveryInv, DriversWrite
  <2>4. ASSUME NEW w \in Workers, pc'[w] \in {"verify", "vcap", "draw", "cap", "mark"},
               KindOf(w)' = "write"
        PROVE  1 \in reports'
    BY <1>1, <1>2, <2>4, WritersReport DEF DeliveryInv
  <2>. QED BY <2>1, <2>2, <2>3, <2>4 DEF DriversWrite, Writing, Tipping
<1>4. ReportsStored'
  BY <1>1, <1>2, ReportsStoredKept DEF DeliveryInv
<1>5. CompleteStored'
  <2>. SUFFICES ASSUME status' = "complete"
                PROVE  WriteReady(1)' /\ PaidStage(<<"write", 1>>)' /\ PaidStage(<<"tips", 1>>)'
    BY DEF CompleteStored
  <2>1. WriteReady(1) /\ PaidStage(<<"write", 1>>) /\ PaidStage(<<"tips", 1>>)
    <3>1. CASE status = "complete"
      BY <1>2, <3>1 DEF DeliveryInv, CompleteStored
    <3>2. CASE status # "complete"
      BY <1>2, <3>2, WhoCompletes DEF DeliveryInv, DriversWrite
    <3>. QED BY <3>1, <3>2
  <2>. QED BY <1>1, <1>2, <2>1, ReadyStays, PaidStays
<1>. QED BY <1>3, <1>4, <1>5 DEF DeliveryInv

\* What completion rests on is stored until a lease is lost or the run is revised.
LEMMA DeliveryStays == Spec => []DeliveryInvYet
<1>1. Init => DeliveryInvYet
  <2>. SUFFICES ASSUME Init PROVE DeliveryInv
    BY DEF DeliveryInvYet
  <2>1. /\ \A r \in Rows : steps[r].status = "none"
        /\ \A w \in Workers : pc[w] = "idle"
        /\ status = "planned"
    BY DEF Init
  <2>. QED BY <2>1 DEF DeliveryInv, DriversWrite, ReportsStored, CompleteStored, InStage, Holding
<1>. QED BY <1>1, InductiveInvariant, LeasesStay, OrderStays, DeliveryInvHolds, PTL DEF Spec

\* The review that sends the run to its write is of the last round that was reviewed.
LEMMA ReadyIsLast ==
    ASSUME TypeOK, LeasesKept, OrderInv, WriteReady(1)
    PROVE  \E n \in 1..MaxRounds + 1 : finishedRounds(1, n) /\ readyToWrite(1, n)
<1>1. MaxRounds \in Nat /\ DoneOnce /\ 1 \in Versions
  BY BoundsAssumption DEF LeasesKept, Versions
<1>2. PICK m \in 0..MaxRounds :
        \E q \in DoneRows(ReviewRef(1, m)) : steps[q].output.verdict = "write"
  BY DEF WriteReady
<1>3. PICK q \in DoneRows(ReviewRef(1, m)) : steps[q].output.verdict = "write"
  BY <1>2
<1>4. m + 1 \in 1..MaxRounds + 1 /\ (m + 1) - 1 = m /\ m + 1 > 0
  BY <1>1
<1>5. Latest(q, DoneRows(ReviewRef(1, m)))
  BY <1>1, <1>3, TheDoneRow, RowsAssumption DEF Latest, DoneRows
<1>6. readyToWrite(1, m + 1)
  BY <1>3, <1>4, <1>5 DEF readyToWrite, DoneRows
<1>7. ASSUME NEW k \in Reviewed(1), k > m PROVE FALSE
  <2>1. k \in 0..MaxRounds /\ k \in 0..MaxRounds + 1 /\ m \in 0..k - 1
    BY <1>1, <1>7 DEF Reviewed
  <2>2. PICK p \in Rows : steps[p].status = "done" /\ steps[p].ref = ReviewRef(1, k)
    BY DEF Reviewed, DoneRows
  <2>3. SentOn(1, k)
    BY <1>1, <2>1, <2>2, ReviewIsOfRound DEF OrderInv, RowsInOrder
  <2>4. PICK p2 \in DoneRows(ReviewRef(1, m)) : steps[p2].output.verdict = "continue"
    BY <2>1, <2>3 DEF SentOn
  <2>5. p2 = q
    BY <1>1, <1>3, <2>4, TheDoneRow
  <2>. QED BY <1>3, <2>4, <2>5
<1>8. m \in Reviewed(1)
  BY <1>3 DEF Reviewed
<1>9. \A k \in Reviewed(1) : k < m + 1
  BY <1>1, <1>7 DEF Reviewed
<1>10. finishedRounds(1, m + 1)
  BY <1>4, <1>8, <1>9 DEF finishedRounds
<1>. QED BY <1>4, <1>6, <1>10

\* Until a lease is lost or the run is revised, a run is complete only when its last round
\* was reviewed and sent to the write, and the report and the tips are stored with a charge
\* that was accepted (the end of executeRun in worker.js).
THEOREM CompletedIsPaid == Spec => [](stalls = 0 /\ version = 1 => CompleteIsPaid)
<1>1. ASSUME TypeOK, LeasesKept, OrderInv, DeliveryInv, version = 1 PROVE CompleteIsPaid
  <2>. SUFFICES ASSUME status = "complete"
                PROVE  /\ \E n \in 1..MaxRounds + 1 : finishedRounds(1, n) /\ readyToWrite(1, n)
                       /\ PaidStage(<<"write", 1>>) /\ PaidStage(<<"tips", 1>>)
                       /\ 1 \in reports
    BY <1>1 DEF CompleteIsPaid
  <2>1. WriteReady(1) /\ PaidStage(<<"write", 1>>) /\ PaidStage(<<"tips", 1>>)
    BY <1>1 DEF DeliveryInv, CompleteStored
  <2>2. 1 \in reports
    BY <1>1, <2>1 DEF DeliveryInv, ReportsStored, PaidStage, DoneRows
  <2>. QED BY <1>1, <2>1, <2>2, ReadyIsLast
<1>2. IInv /\ LeasesKeptYet /\ OrderInvYet /\ DeliveryInvYet
        => (stalls = 0 /\ version = 1 => CompleteIsPaid)
  BY <1>1 DEF IInv, LeasesKeptYet, OrderInvYet, DeliveryInvYet
<1>. QED BY <1>2, InductiveInvariant, LeasesStay, OrderStays, DeliveryStays, PTL

=============================================================================
