----------------------------- MODULE AgentSpend -----------------------------
(***************************************************************************)
(* Money the agent of a research run pays out of its own wallet             *)
(* (dr-nib/backend/src/spend, tools/executor.js, agent/loop.js): unlocks    *)
(* and x402 resources inside the data stages of a run, creator tips inside  *)
(* its last stage.  A stage runs the tool loop, charges the sum of its      *)
(* calls to the run once, and only then is checkpointed with its calls; a   *)
(* worker may die or lose its lease anywhere in between.                    *)
(*                                                                         *)
(* What the model proposes and JEV decides is a choice.  Left out are the   *)
(* free tools, the cost of the model itself, the operator's fee (it only     *)
(* lowers the balance) and the single stop rules of the loop: each of them  *)
(* ends it early, as EndLoop does at any turn.                              *)
(***************************************************************************)
EXTENDS Integers, Sums

CONSTANTS
    Purchases,     \* calls of unlock_content and pay_x402, with their inputs
    Thanks,        \* calls of tip_creator
    UrlOf,         \* the url of a purchase
    Price,         \* what a call costs
    Agents,        \* worker processes that may run a stage
    NoAgent,
    DataStages,    \* the number of data stages before the tips
    SpendDeposit,  \* deposit and cap of the run
    CallCeiling,   \* MAX_TIP_USD, MAX_UNLOCK_USD, MAX_X402_USD
    LoopSpend,     \* LIMITS.maxSpendUsd
    LoopSteps,     \* maxSteps of the two loops
    MaxSpendFaults

ToolCalls == Purchases \cup Thanks

ASSUME AgentSpendAssumption ==
    /\ IsFiniteSet(ToolCalls) /\ Purchases \cap Thanks = {}
    /\ Price \in [ToolCalls -> Nat \ {0}]
    /\ IsFiniteSet(Agents) /\ NoAgent \notin Agents
    /\ {DataStages, SpendDeposit, CallCeiling, LoopSpend, LoopSteps, MaxSpendFaults} \subseteq Nat

VARIABLES
    doneCalls,     \* per stage: the successful calls in its finished rows
    doneStages,    \* stages with a finished row
    activeBy,      \* the worker that claimed the active row, if there is one
    agent,         \* per worker: where it is, and the locals of its loop
    running,       \* is the run still running
    billed,        \* what the ledger charged
    billedStages,  \* the txRefs it charged
    sent,          \* per call: how often the wallet paid for it
    spendFaults

rowVars == <<doneCalls, doneStages, activeBy>>
billVars == <<running, billed, billedStages>>
spendVars == <<rowVars, agent, billVars, sent, spendFaults>>

Stages == 1..(DataStages + 1)
IsTips(s) == s = DataStages + 1
Offered(s) == IF IsTips(s) THEN Thanks ELSE Purchases

Waiting == [pc |-> "idle", stage |-> 0, steps |-> 0, cost |-> 0, made |-> {}, call |-> "none"]

SpendInit ==
    /\ doneCalls = [s \in Stages |-> {}] /\ doneStages = {} /\ activeBy = NoAgent
    /\ agent = [w \in Agents |-> Waiting]
    /\ running = TRUE /\ billed = 0 /\ billedStages = {}
    /\ sent = [c \in ToolCalls |-> 0] /\ spendFaults = 0

-----------------------------------------------------------------------------
BalanceLeft == SpendDeposit - billed

\* Mutant of Purchased: the loop's own memory is trusted.
NeverPurchased(url) == FALSE

\* runTool: a finished data stage has bought the url already.
Purchased(url) ==
    \E s \in doneStages, c \in Purchases : c \in doneCalls[s] /\ UrlOf[c] = url

\* What refuses a call before anything is signed.
Refused(c) ==
    \/ Price[c] > CallCeiling \/ Price[c] > BalanceLeft
    \/ c \in Purchases /\ Purchased(UrlOf[c])

SpendFault == spendFaults < MaxSpendFaults /\ spendFaults' = spendFaults + 1
AgentAt(w, pc) == agent[w].pc = pc
Resume(w, pc) == agent' = [agent EXCEPT ![w].pc = pc]

\* A driver reaches a stage without a finished row, and claims it.
BeginStage(w, s) ==
    /\ AgentAt(w, "idle") /\ running /\ activeBy = NoAgent
    /\ s \notin doneStages /\ 1..(s - 1) \subseteq doneStages
    /\ activeBy' = w
    /\ agent' = [agent EXCEPT ![w] = [Waiting EXCEPT !.pc = "loop", !.stage = s]]
    /\ UNCHANGED <<doneCalls, doneStages, billVars, sent, spendFaults>>

\* The model proposes a call that has not succeeded in this loop, JEV lets it execute.
Propose(w, c) ==
    /\ AgentAt(w, "loop") /\ agent[w].steps < LoopSteps /\ agent[w].cost < LoopSpend
    /\ c \in Offered(agent[w].stage) \ agent[w].made
    /\ agent' = [agent EXCEPT ![w].pc = "proposed", ![w].call = c, ![w].steps = @ + 1]
    /\ UNCHANGED <<rowVars, billVars, sent, spendFaults>>

\* The executor's checks; a refused call is a failed step.
CheckCall(w) ==
    /\ AgentAt(w, "proposed")
    /\ Resume(w, IF Refused(agent[w].call) THEN "loop" ELSE "checked")
    /\ UNCHANGED <<rowVars, billVars, sent, spendFaults>>

\* The wallet pays, or nothing leaves it (no funds, a changed price, an RPC that disagrees).
PayCall(w) ==
    /\ AgentAt(w, "checked")
    /\ \/ sent' = [sent EXCEPT ![agent[w].call] = @ + 1] /\ Resume(w, "paid")
       \/ Resume(w, "loop") /\ UNCHANGED sent
    /\ UNCHANGED <<rowVars, billVars, spendFaults>>

\* The call returns what it bought and its amount.
CallReturns(w) ==
    /\ AgentAt(w, "paid")
    /\ agent' = [agent EXCEPT ![w].pc = "loop", ![w].made = @ \cup {agent[w].call},
                              ![w].cost = @ + Price[agent[w].call]]
    /\ UNCHANGED <<rowVars, billVars, sent, spendFaults>>

\* The answer, the hub's verification or the event is lost: a failed step that costs nothing.
CallFails(w) ==
    /\ AgentAt(w, "paid") /\ SpendFault
    /\ Resume(w, "loop")
    /\ UNCHANGED <<rowVars, billVars, sent>>

\* The loop ends: out of steps or money, covered, answered, a repeated call.
EndLoop(w) ==
    /\ AgentAt(w, "loop")
    /\ Resume(w, "charge")
    /\ UNCHANGED <<rowVars, billVars, sent, spendFaults>>

\* charge: draw() under the txRef of the stage; the balance or, once the run is over, its
\* settlement refuses it, which parks the run: resumed, it stops at the same stage again.
ChargeCalls(w) ==
    LET s == agent[w].stage
        cost == agent[w].cost
    IN /\ AgentAt(w, "charge")
       /\ IF cost = 0 \/ s \in billedStages THEN UNCHANGED billVars
          ELSE \/ /\ cost <= BalanceLeft
                  /\ billed' = billed + cost /\ billedStages' = billedStages \cup {s}
                  /\ UNCHANGED running
               \/ /\ cost > BalanceLeft \/ ~running
                  /\ running' = FALSE /\ UNCHANGED <<billed, billedStages>>
       /\ Resume(w, "save")
       /\ UNCHANGED <<rowVars, sent, spendFaults>>

\* The row is done, with the calls in its output.
SaveCalls(w) ==
    LET s == agent[w].stage IN
    /\ AgentAt(w, "save")
    /\ doneCalls' = [doneCalls EXCEPT ![s] = @ \cup agent[w].made]
    /\ doneStages' = doneStages \cup {s}
    /\ activeBy' = IF activeBy = w THEN NoAgent ELSE activeBy
    /\ agent' = [agent EXCEPT ![w] = Waiting]
    /\ UNCHANGED <<billVars, sent, spendFaults>>

\* The loop throws (its checklist, the judge or the event log): the row and the run fail for good.
LoopThrows(w) ==
    /\ AgentAt(w, "loop")
    /\ running' = FALSE
    /\ activeBy' = IF activeBy = w THEN NoAgent ELSE activeBy
    /\ agent' = [agent EXCEPT ![w] = Waiting]
    /\ UNCHANGED <<doneCalls, doneStages, billed, billedStages, sent, spendFaults>>

\* A worker dies; what it knew of its calls is gone.
AgentDies(w) ==
    /\ ~AgentAt(w, "idle") /\ SpendFault
    /\ agent' = [agent EXCEPT ![w] = Waiting]
    /\ UNCHANGED <<rowVars, billVars, sent>>

\* requeueOrphans: the row of a dead worker is reclaimed, or (a fault) that of a live one
\* whose heartbeats are late.
ReclaimRow ==
    /\ activeBy # NoAgent
    /\ \/ AgentAt(activeBy, "idle") /\ UNCHANGED spendFaults
       \/ ~AgentAt(activeBy, "idle") /\ SpendFault
    /\ activeBy' = NoAgent
    /\ UNCHANGED <<doneCalls, doneStages, agent, billVars, sent>>

SpendNext ==
    \/ \E w \in Agents :
         \/ \E s \in Stages : BeginStage(w, s)
         \/ \E c \in ToolCalls : Propose(w, c)
         \/ CheckCall(w) \/ PayCall(w) \/ CallReturns(w) \/ CallFails(w)
         \/ EndLoop(w) \/ ChargeCalls(w) \/ SaveCalls(w) \/ LoopThrows(w) \/ AgentDies(w)
    \/ ReclaimRow

SpendSpec == SpendInit /\ [][SpendNext]_spendVars

-----------------------------------------------------------------------------
(* Properties *)

SpendTypeOK ==
    /\ doneCalls \in [Stages -> SUBSET ToolCalls] /\ doneStages \subseteq Stages
    /\ activeBy \in Agents \cup {NoAgent}
    /\ agent \in [Agents -> [pc : {"idle", "loop", "proposed", "checked", "paid", "charge", "save"},
                             stage : Stages \cup {0}, steps : 0..LoopSteps, cost : Nat,
                             made : SUBSET ToolCalls, call : ToolCalls \cup {"none"}]]
    /\ running \in BOOLEAN /\ billed \in 0..SpendDeposit /\ billedStages \subseteq Stages
    /\ sent \in [ToolCalls -> Nat] /\ spendFaults \in 0..MaxSpendFaults

TotalSent == Total([c \in ToolCalls |-> sent[c] * Price[c]], ToolCalls)

\* A call is paid again only after a fault: a worker lost, or an answer lost, each of
\* which costs at most one more payment.  This is of one version of a run.  The owner's
\* revision is not modelled: a run revised from a pause in its tips stage runs that stage
\* again as a new version, and may pay a tip a second time with no fault.
PaidAgainOnlyAfterFault == \A c \in ToolCalls : sent[c] <= 1 + spendFaults

\* The owner is billed for nothing the wallet did not pay, whatever is replayed.
BilledForSent == billed <= TotalSent

PurchasesAddUp == PaidAgainOnlyAfterFault /\ BilledForSent

\* "The run balance must cover that exact price (no cap-overshoot window)"
\* (unlocks.js:8): what is paid for a run stays within its deposit.
NoOvershoot == spendFaults = 0 => TotalSent <= SpendDeposit
=============================================================================
