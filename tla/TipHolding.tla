----------------------------- MODULE TipHolding -----------------------------
(***************************************************************************)
(* Tips held for a domain until its owner claims them: the holding box on   *)
(* chain (contracts/TipHoldingWallet.sol, driven through                    *)
(* TipHoldingFactory.sol by the hub's keeper key), the hub's claim and      *)
(* refund routes (routes/hub-routes.js over packages/nibgate's holding.js)  *)
(* and the revenue keeper's sweep, for one domain of one network.           *)
(*                                                                          *)
(* Tips are numbered in the order of their rows.  A claim or a refund holds *)
(* the one TipDomainOperation row of the domain from its reservation to its *)
(* end; each step below is what the route does between two points at which  *)
(* others act: the reservation, the ledger snapshot, the collection of the  *)
(* Gateway credit, the broadcast, the receipt, the final transaction.       *)
(***************************************************************************)
EXTENDS Integers, Sums

CONSTANTS
    Tips,                  \* tips, in the order of their rows
    PayerOf, RailOf, UnitsOf, \* what each tip is: payer, "transfer" or "gateway", amount
    ClaimReqs, WalletOf,   \* claims of the verified owner, and the wallet of each
    RefundReqs, SignerOf, DigestOf, \* refund requests: payer, digest of the signed message
    AskOf,                 \* units the message names; 0 for a legacy one (everything)
    NoWallet,
    HoldingBps,            \* the box's cut, fixed at deployment
    GatewayFloor,          \* units a Gateway withdrawal leaves aside for its fee
    MaxFaults              \* bound: faults of one behaviour

HoldReqs == ClaimReqs \cup RefundReqs
Digests == {DigestOf[r] : r \in RefundReqs}

ASSUME TipsAssumption ==
    /\ Tips \subseteq Nat /\ IsFiniteSet(Tips)
    /\ UnitsOf \in [Tips -> Nat \ {0}] /\ RailOf \in [Tips -> {"transfer", "gateway"}]
    /\ AskOf \in [RefundReqs -> Nat] /\ ClaimReqs \cap RefundReqs = {}
    /\ HoldingBps \in 0..5000 /\ GatewayFloor \in Nat /\ MaxFaults \in Nat

VARIABLES
    status, units,         \* Tip rows: status and amount
    fee,                   \* Tip rows: protocolFee
    credit, settling,      \* the box's Gateway ledger; tips whose credit is deferred
    withdrawCost,          \* what Gateway withdrawals cost (history)
    box,                   \* USDC on the box
    op,                    \* the TipDomainOperation row of the domain
    pinned,                \* TipDomainClaim.wallet
    authorization,         \* TipRefundAuthorization rows
    holdPc,                \* where each request is
    plan,                  \* what each request takes of each tip (its snapshot)
    tx,                    \* the keeper transaction of each request
    paidOut,               \* what landed transactions moved, by tip (history)
    feeOut,                \* what the treasury received of the box
    refundsOf,             \* landed refunds of each signed message (history)
    faults

holdVars == <<status, units, fee, credit, settling, withdrawCost, box, op, pinned, authorization,
              holdPc, plan, tx, paidOut, feeOut, refundsOf, faults>>
ledgerVars == <<status, units, fee>>
chainVars == <<box, paidOut, feeOut, refundsOf>>
gatewayVars == <<credit, settling, withdrawCost>>

NoOp == [kind |-> "none", state |-> "none", hash |-> FALSE, why |-> "none"]
OpRow == [kind : {"claim", "refund"}, hash : BOOLEAN, why : {"none", "preparation", "other"},
          state : {"reserved", "submitting", "submitted", "confirmed", "reconcile"}]
NoTx == [state |-> "none", moved |-> 0]
NoPlan == [t \in Tips |-> 0]

HoldInit ==
    /\ status = [t \in Tips |-> "unpaid"]
    /\ units = UnitsOf /\ fee = NoPlan
    /\ credit = 0 /\ settling = {} /\ withdrawCost = 0 /\ box = 0
    /\ op = NoOp /\ pinned = NoWallet
    /\ authorization = [d \in Digests |-> "none"]
    /\ holdPc = [r \in HoldReqs |-> "idle"]
    /\ plan = [r \in HoldReqs |-> NoPlan]
    /\ tx = [r \in HoldReqs |-> NoTx]
    /\ paidOut = NoPlan /\ feeOut = 0
    /\ refundsOf = [d \in Digests |-> 0]
    /\ faults = 0

-----------------------------------------------------------------------------
(* Helpers *)

Least(a, b) == IF a < b THEN a ELSE b
Most(a, b) == IF a > b THEN a ELSE b
Fault == faults < MaxFaults /\ faults' = faults + 1
HoldStep(r, from, to) == holdPc[r] = from /\ holdPc' = [holdPc EXCEPT ![r] = to]
Cut(amount) == (amount * HoldingBps) \div 10000

HeldTips == {t \in Tips : status[t] = "held"}
PayersTips(r) == {t \in HeldTips : PayerOf[t] = SignerOf[r]}
Planned(r) == {t \in Tips : plan[r][t] > 0}
Expected(r) == Total(plan[r], Tips)

\* Mutant of RefundPlan: what is left is not stopped at zero.
RefundPlanPastEnd(r, n) ==
    [t \in Tips |->
       IF t \notin PayersTips(r) THEN 0
       ELSE Least(units[t], n - Total(units, {s \in PayersTips(r) : s < t}))]

\* A refund of n units consumes the payer's held tips in the order of their rows.
RefundPlan(r, n) ==
    [t \in Tips |->
       IF t \notin PayersTips(r) THEN 0
       ELSE Least(units[t], Most(0, n - Total(units, {s \in PayersTips(r) : s < t})))]

RefundAsked(r) == IF AskOf[r] = 0 THEN Total(units, PayersTips(r)) ELSE AskOf[r]

\* Mutant of Recoverable: any refund waiting for reconciliation without a hash.
RecoverableUnsent ==
    /\ op.kind = "refund" /\ op.state = "reconcile"
    /\ ~op.hash

\* A refund that failed before its transaction was sent may be taken over.
Recoverable ==
    /\ op.kind = "refund" /\ op.state = "reconcile"
    /\ ~op.hash /\ op.why = "preparation"

-----------------------------------------------------------------------------
(* Funding *)

\* A payer pays the box: a transfer lands at once, a Gateway payment is credited
\* to the box's ledger when Circle's batch settles.
PayBox(t) ==
    /\ status[t] = "unpaid"
    /\ status' = [status EXCEPT ![t] = "paid"]
    /\ IF RailOf[t] = "transfer"
       THEN box' = box + UnitsOf[t] /\ UNCHANGED settling
       ELSE settling' = settling \cup {t} /\ UNCHANGED box
    /\ UNCHANGED <<units, fee, credit, withdrawCost, op, pinned, authorization, holdPc, plan, tx,
                   paidOut, feeOut, refundsOf, faults>>

SettleBatch(t) ==
    /\ t \in settling
    /\ settling' = settling \ {t} /\ credit' = credit + UnitsOf[t]
    /\ UNCHANGED <<withdrawCost, ledgerVars, chainVars, op, pinned, authorization,
                   holdPc, plan, tx, faults>>

\* /hub/tips/hold records the verified payment (module ProofClaims).
RecordHeld(t) ==
    /\ status[t] = "paid"
    /\ status' = [status EXCEPT ![t] = "held"]
    /\ UNCHANGED <<units, fee, gatewayVars, chainVars, op, pinned, authorization,
                   holdPc, plan, tx, faults>>

\* withdrawHoldingBoxGateway: the credit above the floor is minted into the box;
\* of the floor, what the withdrawal did not cost stays credited.
Collect ==
    /\ credit > GatewayFloor
    /\ box' = box + credit - GatewayFloor
    /\ \E rest \in 0..GatewayFloor :
         credit' = rest /\ withdrawCost' = withdrawCost + GatewayFloor - rest
    /\ UNCHANGED <<settling, paidOut, feeOut, refundsOf>>

\* runHoldingBoxSweep collects for every domain with a held Gateway tip.
KeeperSweep ==
    /\ \E t \in HeldTips : RailOf[t] = "gateway"
    /\ Collect
    /\ UNCHANGED <<ledgerVars, op, pinned, authorization, holdPc, plan, tx, faults>>

-----------------------------------------------------------------------------
(* Claim and refund *)

\* A refund first looks its signed message up: one already used goes no further.
CheckAuthorization(r) ==
    /\ r \in RefundReqs /\ authorization[DigestOf[r]] = "none"
    /\ HoldStep(r, "idle", "checked")
    /\ UNCHANGED <<ledgerVars, gatewayVars, chainVars, op, pinned, authorization, plan,
                   tx, faults>>

\* reserveTipDomainOperation: the row is created, or a refund takes over one whose
\* preparation failed; otherwise the answer is domain-operation-pending.
Reserve(r) ==
    /\ \/ op = NoOp
       \/ r \in RefundReqs /\ Recoverable
    /\ HoldStep(r, IF r \in ClaimReqs THEN "idle" ELSE "checked", "reserved")
    /\ op' = [kind |-> IF r \in ClaimReqs THEN "claim" ELSE "refund",
              state |-> "reserved", hash |-> FALSE, why |-> "none"]
    /\ tx' = [tx EXCEPT ![r] = NoTx]
    /\ UNCHANGED <<ledgerVars, gatewayVars, chainVars, pinned, authorization, plan,
                   faults>>

ReserveRefused(r) ==
    /\ op # NoOp /\ ~Recoverable
    /\ HoldStep(r, "checked", "idle")
    /\ UNCHANGED <<ledgerVars, gatewayVars, chainVars, op, pinned, authorization, plan,
                   tx, faults>>

\* The operation row is deleted and the request answered.
Dismiss(r, from) ==
    /\ HoldStep(r, from, "idle")
    /\ op' = NoOp
    /\ plan' = [plan EXCEPT ![r] = NoPlan]

\* The snapshot is taken and the row marked submitting; Gateway tips among those
\* concerned mean that the credit must be collected first.
Submit(r, p, concerned) ==
    /\ HoldStep(r, "reserved", IF \E t \in concerned : RailOf[t] = "gateway"
                               THEN "collect" ELSE "broadcast")
    /\ plan' = [plan EXCEPT ![r] = p]
    /\ op' = [op EXCEPT !.state = "submitting"]

\* A claim: another wallet has claimed the domain; nothing is held; or a snapshot.
SnapshotClaim(r) ==
    /\ r \in ClaimReqs
    /\ IF pinned \notin {NoWallet, WalletOf[r]}
       THEN Dismiss(r, "reserved") /\ UNCHANGED pinned
       ELSE /\ pinned' = WalletOf[r]
            /\ IF HeldTips = {} THEN Dismiss(r, "reserved")
               ELSE Submit(r, [t \in Tips |-> IF t \in HeldTips THEN units[t] ELSE 0],
                           HeldTips)
    /\ UNCHANGED <<ledgerVars, gatewayVars, chainVars, authorization, tx, faults>>

\* Mutant of SnapshotRefund: the unique key of the authorization is not respected.
SnapshotRefundReused(r) ==
    LET asked == RefundAsked(r) IN
    /\ r \in RefundReqs
    /\ IF asked \in 1..Total(units, PayersTips(r))
       THEN /\ Submit(r, RefundPlan(r, asked), PayersTips(r))
            /\ authorization' = [authorization EXCEPT ![DigestOf[r]] = "used"]
       ELSE Dismiss(r, "reserved") /\ UNCHANGED authorization
    /\ UNCHANGED <<ledgerVars, gatewayVars, chainVars, pinned, tx, faults>>

\* A refund: nothing held, more than is held, or a used message; or a snapshot
\* together with the authorization row.
SnapshotRefund(r) ==
    LET asked == RefundAsked(r)
        d == DigestOf[r] IN
    /\ r \in RefundReqs
    /\ IF asked \in 1..Total(units, PayersTips(r)) /\ authorization[d] = "none"
       THEN /\ Submit(r, RefundPlan(r, asked), PayersTips(r))
            /\ authorization' = [authorization EXCEPT ![d] = "used"]
       ELSE Dismiss(r, "reserved") /\ UNCHANGED authorization
    /\ UNCHANGED <<ledgerVars, gatewayVars, chainVars, pinned, tx, faults>>

\* What stays of an operation that failed: the row, to be reconciled by hand.
Reconcile(why, hash) == op' = [op EXCEPT !.state = "reconcile", !.why = why, !.hash = hash]

CollectCredit(r) ==
    /\ HoldStep(r, "collect", "broadcast")
    /\ Collect
    /\ UNCHANGED <<ledgerVars, op, pinned, authorization, plan, tx, faults>>

\* No credit above the floor, or (a fault) an unread balance, is taken for a batch
\* still settling: the operation and the authorization are undone, the client is
\* told to retry.
PendingSettlement(r) ==
    /\ \/ credit <= GatewayFloor /\ UNCHANGED faults
       \/ Fault
    /\ Dismiss(r, "collect")
    /\ authorization' = [d \in Digests |->
         IF r \in RefundReqs /\ d = DigestOf[r] THEN "none" ELSE authorization[d]]
    /\ UNCHANGED <<ledgerVars, gatewayVars, chainVars, pinned, tx>>

\* The withdrawal fails, before or after the credit was minted.
CollectFails(r) ==
    /\ Fault
    /\ HoldStep(r, "collect", "idle")
    /\ Reconcile("other", FALSE)
    /\ \/ Collect
       \/ UNCHANGED <<gatewayVars, chainVars>>
    /\ UNCHANGED <<ledgerVars, pinned, authorization, plan, tx>>

\* submitKeeperTransaction: sent and its hash kept; or sent and the hash lost with
\* the answer or with the database; or never sent, the preparation having failed.
Broadcast(r) ==
    /\ HoldStep(r, "broadcast", "sent")
    /\ tx' = [tx EXCEPT ![r] = [NoTx EXCEPT !.state = "sent"]]
    /\ op' = [op EXCEPT !.state = "submitted", !.hash = TRUE]
    /\ UNCHANGED <<ledgerVars, gatewayVars, chainVars, pinned, authorization, plan, faults>>

BroadcastLost(r) ==
    /\ Fault
    /\ HoldStep(r, "broadcast", "idle")
    /\ tx' = [tx EXCEPT ![r] = [NoTx EXCEPT !.state = "sent"]]
    /\ \E hash \in BOOLEAN : Reconcile("other", hash)
    /\ UNCHANGED <<ledgerVars, gatewayVars, chainVars, pinned, authorization, plan>>

PreparationFails(r) ==
    /\ Fault
    /\ HoldStep(r, "broadcast", "idle")
    /\ Reconcile("preparation", FALSE)
    /\ UNCHANGED <<ledgerVars, gatewayVars, chainVars, pinned, authorization, plan, tx>>

\* The chain executes a transaction.  release pays out the whole box, a refund the
\* lesser of what it asks and the box; an empty box reverts.
LandRelease(r) ==
    /\ r \in ClaimReqs /\ tx[r].state = "sent" /\ box > 0
    /\ tx' = [tx EXCEPT ![r] = [state |-> "landed", moved |-> box]]
    /\ feeOut' = feeOut + Cut(box)
    /\ box' = 0
    /\ paidOut' = [t \in Tips |-> paidOut[t] + plan[r][t]]
    /\ UNCHANGED <<ledgerVars, gatewayVars, refundsOf, op, pinned, authorization, holdPc,
                   plan, faults>>

LandRefund(r) ==
    /\ r \in RefundReqs /\ tx[r].state = "sent" /\ box > 0
    /\ tx' = [tx EXCEPT ![r] = [state |-> "landed", moved |-> Least(Expected(r), box)]]
    /\ box' = box - Least(Expected(r), box)
    /\ paidOut' = [t \in Tips |-> paidOut[t] + plan[r][t]]
    /\ refundsOf' = [refundsOf EXCEPT ![DigestOf[r]] = @ + 1]
    /\ UNCHANGED <<ledgerVars, gatewayVars, feeOut, op, pinned, authorization, holdPc,
                   plan, faults>>

Revert(r) ==
    /\ tx[r].state = "sent" /\ box = 0
    /\ tx' = [tx EXCEPT ![r] = [NoTx EXCEPT !.state = "reverted"]]
    /\ UNCHANGED <<ledgerVars, gatewayVars, chainVars, op, pinned, authorization, holdPc,
                   plan, faults>>

\* Mutant of ReceiptMatches: any amount will do.
ReceiptMatchesAny(r) == tx[r].state = "landed"

\* The receipt must show one event of exactly the amount of the snapshot.
ReceiptMatches(r) == tx[r] = [state |-> "landed", moved |-> Expected(r)]

Confirm(r) ==
    /\ ReceiptMatches(r)
    /\ HoldStep(r, "sent", "confirmed")
    /\ op' = [op EXCEPT !.state = "confirmed"]
    /\ UNCHANGED <<ledgerVars, gatewayVars, chainVars, pinned, authorization, plan, tx,
                   faults>>

\* It reverted, moved another amount, or (a fault) could not be read in time.
ReceiptFails(r) ==
    /\ \/ tx[r].state \in {"landed", "reverted"} /\ ~ReceiptMatches(r) /\ UNCHANGED faults
       \/ Fault
    /\ HoldStep(r, "sent", "idle")
    /\ Reconcile("other", op.hash)
    /\ UNCHANGED <<ledgerVars, gatewayVars, chainVars, pinned, authorization, plan, tx>>

\* The cut of a release over its tips, the last of which takes the rounding.
FeeShare(r, t) ==
    LET cut == Cut(Expected(r))
        share == [s \in Planned(r) |-> (plan[r][s] * cut) \div Expected(r)]
        last == CHOOSE s \in Planned(r) : \A u \in Planned(r) : u <= s
    IN IF t # last THEN share[t]
       ELSE cut - Total(share, Planned(r) \ {last})

\* The final transaction: every tip of the plan must still be held.
FinalizeClaim(r) ==
    /\ r \in ClaimReqs /\ Planned(r) \subseteq HeldTips
    /\ status' = [t \in Tips |-> IF t \in Planned(r) THEN "released" ELSE status[t]]
    /\ fee' = [t \in Tips |-> IF t \in Planned(r) THEN FeeShare(r, t) ELSE fee[t]]
    /\ Dismiss(r, "confirmed")
    /\ UNCHANGED <<units, gatewayVars, chainVars, pinned, authorization, tx, faults>>

FinalizeRefund(r) ==
    /\ r \in RefundReqs /\ Planned(r) \subseteq HeldTips
    /\ status' = [t \in Tips |-> IF t \in Planned(r) /\ plan[r][t] = units[t]
                                 THEN "refunded" ELSE status[t]]
    /\ units' = [t \in Tips |-> IF plan[r][t] = units[t] THEN units[t]
                               ELSE units[t] - plan[r][t]]
    /\ authorization' = [authorization EXCEPT ![DigestOf[r]] = "linked"]
    /\ Dismiss(r, "confirmed")
    /\ UNCHANGED <<fee, gatewayVars, chainVars, pinned, tx, faults>>

\* The server dies, or a database error ends a request where it stands: the rows
\* stay as they are, a transaction that was sent may still land.
Abandon(r) ==
    /\ Fault
    /\ holdPc[r] # "idle"
    /\ holdPc' = [holdPc EXCEPT ![r] = "idle"]
    /\ UNCHANGED <<ledgerVars, gatewayVars, chainVars, op, pinned, authorization, plan, tx>>

-----------------------------------------------------------------------------
Chain(r) == LandRelease(r) \/ LandRefund(r) \/ Revert(r)
Route(r) ==
    \/ CheckAuthorization(r) \/ Reserve(r) \/ ReserveRefused(r)
    \/ holdPc[r] = "reserved" /\ (SnapshotClaim(r) \/ SnapshotRefund(r))
    \/ CollectCredit(r) \/ PendingSettlement(r) \/ Broadcast(r)
    \/ Confirm(r) \/ ReceiptFails(r) \/ FinalizeClaim(r) \/ FinalizeRefund(r)
RouteFaults(r) ==
    \/ CollectFails(r) \/ BroadcastLost(r) \/ PreparationFails(r) \/ Abandon(r)
Funding == \E t \in Tips : PayBox(t) \/ SettleBatch(t) \/ RecordHeld(t)

HoldNext ==
    \/ Funding \/ KeeperSweep
    \/ \E r \in HoldReqs : Route(r) \/ RouteFaults(r) \/ Chain(r)

HoldSpec == HoldInit /\ [][HoldNext]_holdVars

\* Requests are retried, transactions land, batches settle, the keeper sweeps: all
\* of it weakly fair, with no fault.
HoldFairness ==
    /\ \A t \in Tips : WF_holdVars(RecordHeld(t)) /\ WF_holdVars(SettleBatch(t))
    /\ WF_holdVars(KeeperSweep)
    /\ \A r \in HoldReqs : WF_holdVars(Route(r)) /\ WF_holdVars(Chain(r))

HoldLiveSpec == HoldSpec /\ HoldFairness

-----------------------------------------------------------------------------
(* Properties *)

HoldTypeOK ==
    /\ status \in [Tips -> {"unpaid", "paid", "held", "released", "refunded"}]
    /\ units \in [Tips -> Nat] /\ fee \in [Tips -> Nat]
    /\ credit \in Nat /\ settling \subseteq Tips /\ withdrawCost \in Nat
    /\ box \in Nat /\ op \in OpRow \cup {NoOp}
    /\ authorization \in [Digests -> {"none", "used", "linked"}]
    /\ holdPc \in [HoldReqs -> {"idle", "checked", "reserved", "collect", "broadcast",
                                "sent", "confirmed"}]
    /\ plan \in [HoldReqs -> [Tips -> Nat]]
    /\ tx \in [HoldReqs -> [state : {"none", "sent", "landed", "reverted"}, moved : Nat]]
    /\ paidOut \in [Tips -> Nat] /\ feeOut \in Nat /\ refundsOf \in [Digests -> Nat]
    /\ faults \in 0..MaxFaults

\* No tip leaves the box twice, through any claims and refunds, takeovers of failed
\* ones, lost hashes, late transactions and abandoned requests.
NoTipPaidTwice == \A t \in Tips : paidOut[t] <= UnitsOf[t]

\* The rows tell what the chain did: a tip still owed has what it was less what was
\* paid, any other was paid in full.
Owed(t) == IF status[t] \in {"released", "refunded"} THEN 0 ELSE units[t]
RowsMatchChain == \A t \in Tips : paidOut[t] + Owed(t) = UnitsOf[t]

\* What the box holds and is credited with is what the tips are owed, but for the
\* cost of the Gateway withdrawals.
BoxBacksTips ==
    box + credit + Total(UnitsOf, settling) + withdrawCost
      = Total([t \in Tips |-> Owed(t)], {t \in Tips : status[t] # "unpaid"})

\* The fees booked on released tips add up to what the treasury received.
FeesAddUp == Total(fee, Tips) = feeOut

\* Between operations the three ledgers agree, whatever was paid, lost, swept or taken
\* over on the way: tip rows, box and treasury.
LedgersAgree == op = NoOp => RowsMatchChain /\ BoxBacksTips /\ FeesAddUp

\* A signed refund message moves money at most once.
OneRefundPerMessage == \A d \in Digests : refundsOf[d] <= 1

\* A domain stays with the wallet that claimed it first.
ClaimKeepsWallet == [][pinned # NoWallet => pinned' = pinned]_pinned

\* A payer who keeps asking gets an unclaimed tip back
\* (tipping/NON-NIBGATE-CREATORS.md:57, holdPolicy of tip.js).
HeldIsReclaimable == \A t \in Tips : status[t] = "held" ~> status[t] # "held"
=============================================================================
