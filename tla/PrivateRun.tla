----------------------------- MODULE PrivateRun -----------------------------
(***************************************************************************)
(* The execution of one confidential Dr. Nib run: private-action-runner.js  *)
(* over private-action-store.js and private-checkpoint.js.                  *)
(*                                                                          *)
(* An action of the owner becomes a receipt, claimed by one worker for a    *)
(* lease it renews; its work is a fixed sequence of operations, each        *)
(* journalled started, performed, and journalled complete, so that an       *)
(* action that stops (a pause, a question, a dead worker) goes on from the  *)
(* results it saved.  What cannot be told apart from having been performed  *)
(* is never performed again, but for a model call whose cost the operator   *)
(* takes over (private-rejected-recovery.js).                               *)
(***************************************************************************)
EXTENDS PrivateMoney, SequencesExt

CONSTANTS
    Work,                  \* kinds of the operations: "infer", "local" or "ask"
    Exports,               \* the requests that are exports of the report
    MaxCovered,            \* calls of each kind the operator takes over, in one journal
    MaxCalls,              \* bound: model calls admitted
    MaxPrivateFaults       \* bound: crashes, timeouts and lost answers

ASSUME WorkAssumption ==
    /\ Work \in Seq({"infer", "local", "ask"}) /\ Len(Work) > 0
    /\ {q \in DOMAIN Work : Work[q] = "ask"} = Questions
    /\ Exports \subseteq Requests
    /\ MaxCovered \in Nat /\ MaxCalls \in Nat /\ MaxPrivateFaults \in Nat

VARIABLES
    hosted,                \* the hosted fallback is deployed
    journal,               \* the checkpoint object
    workers,               \* what each worker holds in memory
    performed,             \* local operations performed in this journal (history)
    privateFaults

privateVars == <<moneyVars, hosted, journal, workers, performed, privateFaults>>

NotCovered == [lost |-> 0, limited |-> 0]
NoJournal == [entries |-> <<>>, req |-> NoRequest, rev |-> 0, covered |-> NotCovered]
Resting == [pc |-> "idle", req |-> NoRequest, rev |-> 0, entries |-> <<>>,
            covered |-> NotCovered, rail |-> 1, call |-> 0, out |-> "none"]

PrivateInit ==
    /\ MoneyInit
    /\ hosted \in BOOLEAN
    /\ journal = NoJournal
    /\ workers = [w \in Workers |-> Resting]
    /\ performed = [i \in DOMAIN Work |-> 0]
    /\ privateFaults = 0

-----------------------------------------------------------------------------
(* Helpers *)

At(w) == Len(workers[w].entries)
Kind(w) == Work[At(w)]
Unfinished(entries) == {i \in DOMAIN entries : entries[i] # "complete"}
Change(w, memory) == workers' = [workers EXCEPT ![w] = memory]
Mishap == privateFaults < MaxPrivateFaults /\ privateFaults' = privateFaults + 1
NoMishap == UNCHANGED privateFaults
moneyOnly == <<runStatus, rev, escrowVars, toolVars>>

\* What the two actions commit that keep no journal.
Unjournalled == {"ended", "export"}

\* Mutant of Fenced: the owner of the lease is not compared.
FencedByStatus(w) ==
    /\ ~cancelled \/ workers[w].req \in Exports
    /\ receipts[workers[w].req].state = "processing"

\* fence: the receipt is still this worker's, and the run not cancelled but for an export.
Fenced(w) ==
    /\ ~cancelled \/ workers[w].req \in Exports
    /\ receipts[workers[w].req].state = "processing"
    /\ receipts[workers[w].req].owner = w

\* saveCheckpoint: the journal in memory replaces the saved one, the lease is renewed.
Saves(w, entries) ==
    /\ Fenced(w)
    /\ journal' = [journal EXCEPT !.entries = entries, !.covered = workers[w].covered]
    /\ receipts' = [receipts EXCEPT ![workers[w].req].live = TRUE]

\* Failures after which the action may still be recovered.
Recoverables == {"unknown", "refused", "limited", "timeout", "exhausted", "fenced"}

\* The worker gives up: uncertain, and failed where nothing can be outstanding.  An
\* export makes no call, and its failure is not the run's.
Fails(w, why) ==
    LET r == workers[w].req
        mine == receipts[r].state = "processing" /\ receipts[r].owner = w
        failed == (why \notin Recoverables \/ r \in Exports) /\ ReservedCalls(r) = {}
        ends == mine /\ failed /\ r \notin Exports /\ ~cancelled
    IN /\ receipts' = IF ~mine THEN receipts
                      ELSE [receipts EXCEPT ![r].state = IF failed THEN "failed" ELSE "uncertain",
                                            ![r].why = why]
       /\ runStatus' = IF ends THEN "failed" ELSE runStatus
       /\ rev' = IF ends THEN rev + 1 ELSE rev
       /\ Change(w, Resting)

-----------------------------------------------------------------------------
(* Claiming an action *)

\* The state is read before the claim: a planned or finished run starts a journal,
\* a paused one goes on with its own, an awaiting one with the answer in it, which
\* for a purchase is the result of that purchase or a refusal to buy.
Load(w, r) ==
    /\ workers[w].pc = "idle" /\ receipts[r].state = "none" /\ r \notin Exports
    /\ runStatus \in {"planned", "complete", "ended", "paused", "awaiting"}
    /\ LET fresh == runStatus \in {"planned", "complete", "ended"} IN
       Change(w, [Resting EXCEPT !.pc = "loaded", !.req = r, !.rev = rev,
            !.entries = IF fresh THEN <<>> ELSE [i \in DOMAIN journal.entries |-> "complete"],
            !.covered = IF fresh THEN NotCovered ELSE journal.covered])
    /\ UNCHANGED <<moneyVars, hosted, journal, performed, privateFaults>>

\* The action "end" has no journal: what it commits is decided as it is loaded.
LoadEnd(w, r) ==
    /\ workers[w].pc = "idle" /\ receipts[r].state = "none" /\ r \notin Exports
    /\ Change(w, [Resting EXCEPT !.pc = "loaded", !.req = r, !.rev = rev, !.out = "ended"])
    /\ UNCHANGED <<moneyVars, hosted, journal, performed, privateFaults>>

\* Nor has an export, which renders the last report and changes nothing of the run but
\* its revision.
LoadExport(w, r) ==
    /\ workers[w].pc = "idle" /\ receipts[r].state = "none" /\ r \in Exports
    /\ Change(w, [Resting EXCEPT !.pc = "loaded", !.req = r, !.rev = rev, !.out = "export"])
    /\ UNCHANGED <<moneyVars, hosted, journal, performed, privateFaults>>

\* Mutant of MayClaim: an open action is not looked for.
MayClaimBeside(w) ==
    /\ receipts[workers[w].req].state = "none" /\ rev = workers[w].rev
    /\ IF cancelled THEN workers[w].req \in Exports ELSE ReservedTools = {}

\* A new request is let in where nothing is open; a cancelled run lets in its exports,
\* whatever is still open beside them, and nothing else.
MayClaim(w) ==
    /\ receipts[workers[w].req].state = "none" /\ rev = workers[w].rev
    /\ IF cancelled THEN workers[w].req \in Exports
       ELSE OpenReceipts = {} /\ ReservedTools = {}

\* claim: the receipt and the journal, if there is one, are written, or nothing is.
Claim(w) ==
    LET r == workers[w].req
        unjournalled == workers[w].out \in Unjournalled
    IN
    /\ workers[w].pc = "loaded"
    /\ IF MayClaim(w)
       THEN /\ receipts' = [receipts EXCEPT ![r] =
                              [NoReceipt EXCEPT !.state = "processing", !.owner = w, !.live = TRUE]]
            /\ journal' = IF unjournalled THEN journal
                          ELSE [entries |-> workers[w].entries, req |-> r, rev |-> rev,
                                covered |-> workers[w].covered]
            /\ performed' = IF ~unjournalled /\ workers[w].entries = <<>>
                            THEN [i \in DOMAIN Work |-> 0] ELSE performed
            /\ Change(w, [workers[w] EXCEPT !.pc = IF unjournalled THEN "commit" ELSE "run"])
       ELSE /\ Change(w, Resting)
            /\ UNCHANGED <<receipts, journal, performed>>
    /\ UNCHANGED <<moneyOnly, calls, hosted, privateFaults>>

\* The operator takes a call whose cost is unknown over.
TakeOver(i, status) == [calls EXCEPT ![i].status = status, ![i].payer = "platform"]

LastIsCall ==
    /\ Unfinished(journal.entries) = {Len(journal.entries)}
    /\ Last(journal.entries) = "started" /\ Work[Len(journal.entries)] = "infer"

\* Mutant of Interrupted: the last operation may be of any kind.
InterruptedAny(r) ==
    /\ hosted /\ receipts[r].state = "processing" /\ ReservedTools = {}
    /\ Unfinished(journal.entries) = {Len(journal.entries)}
    /\ journal.covered.lost < MaxCovered
    /\ \A i \in ReservedCalls(r) : ~calls[i].refused

\* interruptedInferenceRecovery: the last operation is a model call, one call of the
\* action is reserved, and nothing is known of it.
Interrupted(r) ==
    /\ hosted /\ receipts[r].state = "processing" /\ ReservedTools = {}
    /\ LastIsCall /\ journal.covered.lost < MaxCovered
    /\ Cardinality(ReservedCalls(r)) = 1
    /\ \A i \in ReservedCalls(r) : ~calls[i].refused

\* rejected429Recovery: the same, of a call known to have been refused with 429.
Rejected(r) ==
    /\ hosted /\ receipts[r].state = "uncertain" /\ receipts[r].why = "limited"
    /\ LastIsCall /\ journal.covered.limited < MaxCovered
    /\ Cardinality(ReservedCalls(r)) = 1
    /\ \A i \in ReservedCalls(r) : calls[i].refused

\* The only operation of the journal is a model call whose admission timed out, and
\* no call was made.
NeverAdmitted(r) ==
    /\ receipts[r].state = "uncertain" /\ receipts[r].why = "timeout"
    /\ LastIsCall /\ Len(journal.entries) = 1
    /\ \A i \in DOMAIN calls : calls[i].req # r
    /\ \A q \in Questions : tools[q].state = "none"

\* The calls of the action as a recovery leaves them.
Reclassified(r) ==
    [i \in DOMAIN calls |->
       IF i \notin ReservedCalls(r) THEN calls[i]
       ELSE IF Interrupted(r) THEN TakeOver(i, "uncertainHeld")[i]
       ELSE IF Rejected(r) THEN TakeOver(i, "rejectedHeld")[i]
       ELSE calls[i]]

\* recover: the claim of an action whose lease ran out; an export is not recovered.
Recover(w, r) ==
    LET entries == IF Interrupted(r) \/ Rejected(r) \/ NeverAdmitted(r)
                   THEN Front(journal.entries) ELSE journal.entries
        covered == [lost |-> journal.covered.lost + (IF Interrupted(r) THEN 1 ELSE 0),
                    limited |-> journal.covered.limited + (IF Rejected(r) THEN 1 ELSE 0)]
    IN /\ workers[w].pc = "idle" /\ ~cancelled
       /\ r \in OpenReceipts \ Exports /\ ~receipts[r].live
       /\ journal.req = r /\ journal.rev = rev
       /\ Unfinished(entries) = {}
       /\ \A i \in DOMAIN calls : Reclassified(r)[i].status # "reserved"
       /\ ReservedTools = {}
       /\ calls' = Reclassified(r)
       /\ journal' = [journal EXCEPT !.entries = entries, !.covered = covered]
       /\ receipts' = [receipts EXCEPT ![r] =
                         [NoReceipt EXCEPT !.state = "processing", !.owner = w, !.live = TRUE]]
       /\ Change(w, [Resting EXCEPT !.pc = "run", !.req = r, !.rev = rev,
                                    !.entries = entries, !.covered = covered])
       /\ UNCHANGED <<moneyOnly, hosted, performed, privateFaults>>

LeaseExpires(r) ==
    /\ r \in OpenReceipts /\ receipts[r].live
    /\ receipts' = [receipts EXCEPT ![r].live = FALSE]
    /\ UNCHANGED <<moneyOnly, calls, journal, workers, hosted, performed, privateFaults>>

\* heartbeat renews the lease of a worker the fence lets through, expired or not.
Heartbeat(w) ==
    /\ workers[w].pc \notin {"idle", "loaded"} /\ Fenced(w)
    /\ receipts' = [receipts EXCEPT ![workers[w].req].live = TRUE]
    /\ UNCHANGED <<moneyOnly, calls, journal, workers, hosted, performed, privateFaults>>

-----------------------------------------------------------------------------
(* Operations *)

\* The worker stops at an operation boundary: the owner paused it, it must ask, or
\* all the work is done.  A question is journalled as it is asked.
Stop(w) ==
    LET next == At(w) + 1
        asks == next \in Questions
    IN /\ workers[w].pc = "run"
       /\ \E out \in {"paused", "awaiting", "complete"} :
            /\ out = "complete" => next > Len(Work)
            /\ out = "awaiting" => asks
            /\ out = "paused" => next <= Len(Work)
            /\ LET entries == IF out = "awaiting" THEN Append(workers[w].entries, "waiting")
                              ELSE workers[w].entries
               IN /\ Saves(w, entries)
                  /\ Change(w, [workers[w] EXCEPT !.pc = "commit", !.out = out,
                                                  !.entries = entries])
       /\ UNCHANGED <<moneyOnly, calls, hosted, performed, privateFaults>>

\* The next operation is journalled started.
Start(w) ==
    LET entries == Append(workers[w].entries, "started") IN
    /\ workers[w].pc = "run" /\ At(w) < Len(Work) /\ At(w) + 1 \notin Questions
    /\ Saves(w, entries)
    /\ Change(w, [workers[w] EXCEPT !.pc = "started", !.entries = entries, !.rail = 1])
    /\ UNCHANGED <<moneyOnly, calls, hosted, performed, privateFaults>>

\* A parse, a retrieval or code runs.
PerformLocal(w) ==
    /\ workers[w].pc = "started" /\ Kind(w) = "local"
    /\ performed' = [performed EXCEPT ![At(w)] = @ + 1]
    /\ Change(w, [workers[w] EXCEPT !.pc = "answered"])
    /\ UNCHANGED <<moneyVars, journal, hosted, privateFaults>>

\* admission of a model call: reserved before it is sent.  No fence is looked at.
Admit(w) ==
    LET r == workers[w].req IN
    /\ workers[w].pc = "started" /\ Kind(w) = "infer"
    /\ ReservedCalls(r) = {} /\ ~Closed /\ ~Unfunded /\ Hold >= MinHold
    /\ Len(calls) < MaxCalls
    /\ calls' = Append(calls, [req |-> r, at |-> At(w), status |-> "reserved", hold |-> Hold,
                               committed |-> Hold, payer |-> "customer", refused |-> FALSE])
    /\ Change(w, [workers[w] EXCEPT !.pc = "waiting", !.call = Len(calls) + 1])
    /\ UNCHANGED <<moneyOnly, receipts, journal, hosted, performed, privateFaults>>

\* A call known not to have been sent is tried on the fallback, if there is one, or
\* taken out of the journal before the action stops.
FallBack(w) ==
    /\ hosted /\ workers[w].rail = 1
    /\ Change(w, [workers[w] EXCEPT !.pc = "started", !.rail = 2, !.call = 0])
NotSent(w) == Change(w, [workers[w] EXCEPT !.pc = "pop", !.call = 0])

\* A call of the first model was refused with 429 a while ago.
CoolingDown(w) ==
    workers[w].rail = 1 /\ \E i \in DOMAIN calls : calls[i].refused

\* The limits leave too little, or the model cools down: nothing is sent.
AdmitRefused(w) ==
    /\ workers[w].pc = "started" /\ Kind(w) = "infer"
    /\ \/ CoolingDown(w)
       \/ ReservedCalls(workers[w].req) = {} /\ ~Closed /\ ~Unfunded /\ Hold < MinHold
    /\ IF hosted /\ workers[w].rail = 1 THEN FallBack(w) ELSE NotSent(w)
    /\ UNCHANGED <<moneyVars, hosted, journal, performed, privateFaults>>

\* Closed, not funded, a call still reserved; or (a fault) the transaction timed out.
AdmitFails(w) ==
    /\ workers[w].pc = "started" /\ Kind(w) = "infer"
    /\ \/ /\ ReservedCalls(workers[w].req) # {} /\ Fails(w, "refused") /\ NoMishap
       \/ /\ ReservedCalls(workers[w].req) = {} /\ Closed /\ Fails(w, "closed") /\ NoMishap
       \/ /\ ReservedCalls(workers[w].req) = {} /\ ~Closed /\ Unfunded
          /\ Fails(w, "unfunded") /\ NoMishap
       \/ Mishap /\ Fails(w, "timeout")
    /\ UNCHANGED <<escrowVars, calls, toolVars, journal, hosted, performed>>

\* The provider answers and its receipt prices the call, whoever pays it by now.
Respond(w) ==
    /\ workers[w].pc = "waiting"
    /\ \E cost \in {0, calls[workers[w].call].hold} :
         calls' = [calls EXCEPT ![workers[w].call].status = "verified",
                                ![workers[w].call].committed = cost]
    /\ Change(w, [workers[w] EXCEPT !.pc = "answered"])
    /\ UNCHANGED <<moneyOnly, receipts, journal, hosted, performed, privateFaults>>

\* It was not sent, which only the first model's transport can prove: the call, if
\* still reserved, costs nothing; the fallback is tried where the model was not available.
RespondNotSent(w) ==
    LET i == workers[w].call IN
    /\ workers[w].pc = "waiting" /\ workers[w].rail = 1
    /\ calls' = IF calls[i].status # "reserved" THEN calls
                ELSE [calls EXCEPT ![i].status = "notSent", ![i].committed = 0]
    /\ FallBack(w) \/ NotSent(w)
    /\ UNCHANGED <<moneyOnly, receipts, hosted, journal, performed, privateFaults>>

\* It was refused with 429.  With the fallback the operator keeps the hold, if the call
\* is still reserved, and the fallback is tried; without, the evidence stays with it.
RespondLimited(w) ==
    LET i == workers[w].call
        known == [calls EXCEPT ![i].refused = TRUE]
    IN /\ workers[w].pc = "waiting" /\ workers[w].rail = 1 /\ Mishap
       /\ calls' = IF calls[i].status # "reserved" THEN calls
                   ELSE IF ~hosted THEN known
                   ELSE [known EXCEPT ![i].status = "rejectedHeld", ![i].payer = "platform"]
       /\ IF hosted THEN FallBack(w) /\ UNCHANGED <<receipts, runStatus, rev>>
          ELSE Fails(w, "limited")
       /\ UNCHANGED <<escrowVars, toolVars, hosted, journal, performed>>

\* The answer is lost or cannot be priced: the call stays reserved.
RespondLost(w) ==
    /\ workers[w].pc = "waiting" /\ Mishap
    /\ Fails(w, "unknown")
    /\ UNCHANGED <<escrowVars, calls, toolVars, journal, hosted, performed>>

\* The result is journalled.
SaveResult(w) ==
    LET entries == Append(Front(workers[w].entries), "complete") IN
    /\ workers[w].pc = "answered"
    /\ Saves(w, entries)
    /\ Change(w, [workers[w] EXCEPT !.pc = "run", !.entries = entries, !.call = 0])
    /\ UNCHANGED <<moneyOnly, calls, hosted, performed, privateFaults>>

\* The entry of a call that was not sent is taken out, saved or not, and the action stops.
Pop(w) ==
    LET saved == Fenced(w) IN
    /\ workers[w].pc = "pop"
    /\ journal' = IF saved THEN [journal EXCEPT !.entries = Front(workers[w].entries)]
                  ELSE journal
    /\ Fails(w, "exhausted")
    /\ UNCHANGED <<escrowVars, calls, toolVars, hosted, performed, privateFaults>>

\* The worker may not save or commit: the run was cancelled, or another owns the action.
FencedOut(w) ==
    /\ workers[w].pc \in {"run", "answered", "commit"} /\ ~Fenced(w)
    /\ Fails(w, IF cancelled THEN "closed" ELSE "fenced")
    /\ UNCHANGED <<escrowVars, calls, toolVars, hosted, journal, performed, privateFaults>>

\* The results do not do (an unsupported report, an invalid plan), or there is nothing to
\* export or the revision has moved on: the action fails.
GiveUp(w) ==
    /\ \/ workers[w].pc = "run" /\ At(w) > 0
       \/ workers[w].pc = "commit" /\ workers[w].req \in Exports
    /\ Fails(w, "invalid")
    /\ UNCHANGED <<escrowVars, calls, toolVars, journal, hosted, performed, privateFaults>>

\* commit: the state, its revision, the status and the reply, in one transaction.  The
\* status an export commits is the one it loaded.
Commit(w) ==
    /\ workers[w].pc = "commit" /\ Fenced(w) /\ rev = workers[w].rev
    /\ receipts' = [receipts EXCEPT ![workers[w].req] = [NoReceipt EXCEPT !.state = "complete"]]
    /\ runStatus' = IF workers[w].req \in Exports THEN runStatus ELSE workers[w].out
    /\ rev' = rev + 1
    /\ Change(w, Resting)
    /\ UNCHANGED <<escrowVars, calls, toolVars, journal, hosted, performed, privateFaults>>

\* A worker dies, or cannot record that it failed.
Die(w) ==
    /\ workers[w].pc # "idle" /\ Mishap
    /\ Change(w, Resting)
    /\ UNCHANGED <<moneyVars, journal, hosted, performed>>
\* The fallback is deployed while no worker is up.
Deploy ==
    /\ ~hosted /\ \A w \in Workers : workers[w].pc = "idle"
    /\ hosted' = TRUE
    /\ UNCHANGED <<moneyVars, journal, workers, performed, privateFaults>>

-----------------------------------------------------------------------------
Claims(w) ==
    \E r \in Requests : Load(w, r) \/ LoadEnd(w, r) \/ LoadExport(w, r) \/ Recover(w, r)
Works(w) ==
    \/ Claim(w) \/ Heartbeat(w) \/ Stop(w) \/ Start(w) \/ PerformLocal(w)
    \/ Admit(w) \/ AdmitRefused(w) \/ AdmitFails(w)
    \/ Respond(w) \/ RespondNotSent(w) \/ RespondLimited(w) \/ RespondLost(w)
    \/ SaveResult(w) \/ Pop(w) \/ FencedOut(w) \/ GiveUp(w) \/ Commit(w) \/ Die(w)

\* A purchase is approved for the question the run waits on.
Approves(q) == journal.entries # <<>> /\ Len(journal.entries) = q /\ ApproveTool(q)

PrivateNext ==
    \/ Escrow /\ UNCHANGED <<hosted, journal, workers, performed, privateFaults>>
    \/ \E q \in Questions : /\ Approves(q) \/ Purchase(q)
                            /\ UNCHANGED <<hosted, journal, workers, performed, privateFaults>>
    \/ \E w \in Workers : Claims(w) \/ Works(w)
    \/ \E r \in Requests : LeaseExpires(r)
    \/ Deploy

PrivateSpec == PrivateInit /\ [][PrivateNext]_privateVars

-----------------------------------------------------------------------------
(* Properties *)

PrivateTypeOK ==
    /\ runStatus \in {"planned", "paused", "awaiting", "complete", "ended", "failed"}
    /\ rev \in Nat \ {0} /\ cancelled \in BOOLEAN /\ registered \in BOOLEAN
    /\ settled \in BOOLEAN /\ hosted \in BOOLEAN
    /\ onChain \in {"open", "funded", "split"} /\ deposit \in {0, Deposit}
    /\ frozen \in [spent : 0..Deposit, held : {0, Deposit}] \cup {NoFreeze}
    /\ receipts \in [Requests -> [state : {"none", "processing", "uncertain", "complete", "failed"},
                                  owner : Workers \cup {NoWorker}, live : BOOLEAN,
                                  why : {"none", "closed", "unfunded", "invalid"} \cup Recoverables]]
    /\ \A i \in DOMAIN calls :
         calls[i] \in [req : Requests, at : DOMAIN Work, hold : 0..CallHold, committed : 0..CallHold,
                       status : {"reserved", "verified", "notSent", "rejectedHeld", "uncertainHeld"},
                       payer : {"customer", "platform"}, refused : BOOLEAN]
    /\ \A q \in Questions :
         tools[q] \in [state : {"none", "approved", "reserved", "complete", "failed"},
                       committed : 0..ToolHold, rev : Nat, evidence : BOOLEAN,
                       envelope : Answers \cup {"none", "lost"},
                       step : {"none", "prepare", "pay", "answer"}]
    /\ transfer \in [Questions -> {"none", "received", "confirmed", "failed"}]
    /\ journal.entries \in Seq({"started", "complete", "waiting"})
    /\ Len(journal.entries) <= Len(Work)
    /\ \A w \in Workers :
         workers[w].pc \in {"idle", "loaded", "run", "started", "waiting", "answered", "pop", "commit"}

\* A run has one open action, through leases that run out and takeovers.  Only the exports
\* of a cancelled run are let in beside it, and beside each other: all else stays single.
OneOpenAction ==
    /\ Cardinality(OpenReceipts \ Exports) <= 1
    /\ ~cancelled => Cardinality(OpenReceipts) <= 1

\* Parses, retrievals and code are performed at most once in a journal, whatever
\* pauses, dies or is taken over.
LocalOnce == \A i \in DOMAIN Work : performed[i] <= 1

\* Calls and purchases never commit the customer to more than the deposit.
SpendWithinDeposit == SumCalls(CustomerCalls) + SumTools(Questions) <= deposit

\* All calls, those the operator took over included, stay within the month's cap.
MonthWithinCap == SumCalls(DOMAIN calls) <= MonthCap

\* Both limits hold at every moment, whatever answers late, is refused or reconciled.
SpendWithinLimits == SpendWithinDeposit /\ MonthWithinCap

\* What a run that was not cancelled is debited at settlement does not change after it
\* was frozen, whatever answers late.
FrozenChargesFixed == frozen # NoFreeze /\ ~cancelled => frozen.spent = Spent

\* No question is put to its seller twice.
PaidOnce == \A q \in Questions : tools[q].step = "pay" => transfer[q] = "none"

Charged(q) == tools[q].state = "complete" /\ tools[q].committed > 0

\* The customer pays for a purchase whose transfer was confirmed and whose seller's answer
\* was sealed for the owner; never for one whose answer was lost.
PaidIsAnswered ==
    \A q \in Questions :
      Charged(q) => tools[q].envelope \in Answers /\ transfer[q] = "confirmed"

\* "A settled purchase with a lost response must not trap the project or charge the owner
\* for missing content" (private-external-tools.js:35): what is charged was delivered.
\* Fails: an answer whose access proof cannot be redeemed is sealed without content, and
\* charged.
ChargedForContent == \A q \in Questions : Charged(q) => tools[q].envelope = "content"

\* Saved results are kept until a new journal is started.
ResultsStay ==
    [][journal'.req = journal.req \/ journal'.entries # <<>> =>
         \A i \in DOMAIN journal.entries :
           journal.entries[i] = "complete" =>
             i \in DOMAIN journal'.entries /\ journal'.entries[i] = "complete"]_journal
=============================================================================
