-------------------------- MODULE TipHolding_proofs --------------------------
(***************************************************************************)
(* Theorems about TipHolding, for any tips, claims and refund requests.     *)
(*                                                                          *)
(* What makes a signed refund message good for one refund is its row in     *)
(* TipRefundAuthorization, not the lock of the domain: the row stands while *)
(* some request can still send the refund, or has (OneSpender, FreeUnused). *)
(* That argument needs nothing of the operation row, so it covers every     *)
(* request that was abandoned or took over a failed one.                    *)
(*                                                                          *)
(* The ledgers agree because that row is a lock of transactions as well as  *)
(* of requests (Exclusive): a snapshot stays true until its operation is    *)
(* final (PlansFit), and rows, box and treasury differ by one transaction   *)
(* at most, that which landed and is not booked yet (BooksKept).            *)
(***************************************************************************)
EXTENDS TipHolding, Sums_proofs

States == {"none", "sent", "landed", "reverted"}

\* Types of the variables the argument is about.
TypesUsed ==
    /\ authorization \in [Digests -> {"none", "used", "linked"}]
    /\ holdPc \in [HoldReqs -> {"idle", "checked", "reserved", "collect", "broadcast",
                                "sent", "confirmed"}]
    /\ tx = [r \in HoldReqs |-> tx[r]]
    /\ refundsOf \in [Digests -> Nat]

\* A request that may still refund its message.
Spends(r) == holdPc[r] \in {"collect", "broadcast"} \/ tx[r].state = "sent"

\* Until it broadcasts, a request has no transaction.
NothingSentYet ==
    \A r \in HoldReqs : holdPc[r] \in {"reserved", "collect", "broadcast"} => tx[r] = NoTx

\* One request spends a message, which then has not been refunded.
OneSpender ==
    \A r \in RefundReqs : Spends(r) =>
      /\ refundsOf[DigestOf[r]] = 0
      /\ \A s \in RefundReqs : DigestOf[s] = DigestOf[r] /\ Spends(s) => s = r

\* A message without a row has not been used.
FreeUnused ==
    \A d \in Digests : authorization[d] = "none" =>
      /\ refundsOf[d] = 0
      /\ \A r \in RefundReqs : DigestOf[r] = d => ~Spends(r)

IInv == TypesUsed /\ NothingSentYet /\ OneSpender /\ FreeUnused /\ OneRefundPerMessage

-----------------------------------------------------------------------------
(* The invariant *)

\* A step that leaves messages and refunds alone, and lets no request spend that did
\* not, keeps the invariant.
LEMMA NoNewSpender ==
    ASSUME IInv, TypesUsed', NothingSentYet', UNCHANGED refundsOf,
           \A d \in Digests : authorization'[d] = "none" => authorization[d] = "none",
           \A r \in RefundReqs : Spends(r)' => Spends(r)
    PROVE  IInv'
<1>1. OneSpender'
  BY DEF IInv, OneSpender
<1>2. FreeUnused'
  BY DEF IInv, FreeUnused
<1>3. OneRefundPerMessage'
  BY DEF IInv, OneRefundPerMessage
<1>. QED BY <1>1, <1>2, <1>3 DEF IInv

LEMMA HoldInitHolds == HoldInit => IInv
<1>. SUFFICES ASSUME HoldInit PROVE IInv
  OBVIOUS
<1>1. TypesUsed /\ NothingSentYet /\ OneRefundPerMessage
  BY DEF HoldInit, TypesUsed, NothingSentYet, OneRefundPerMessage
<1>2. \A r \in RefundReqs : ~Spends(r)
  BY DEF HoldInit, Spends, NoTx, HoldReqs
<1>. QED BY <1>1, <1>2 DEF IInv, OneSpender, FreeUnused, HoldInit

\* Steps that neither concern a request nor a message.
LEMMA OthersHold ==
    ASSUME IInv, UNCHANGED <<authorization, holdPc, tx, refundsOf>> PROVE IInv'
BY DEF IInv, TypesUsed, NothingSentYet, OneSpender, FreeUnused, OneRefundPerMessage, Spends

\* A request moves on without a transaction of its own, or stops.
LEMMA MovesHold ==
    ASSUME IInv, NEW r \in HoldReqs, NEW to, UNCHANGED <<authorization, tx, refundsOf>>,
           to \in {"idle", "checked", "sent", "confirmed"}
                  \cup (IF holdPc[r] = "collect" THEN {"broadcast"} ELSE {}),
           holdPc' = [holdPc EXCEPT ![r] = to]
    PROVE  IInv'
<1>1. TypesUsed'
  BY DEF IInv, TypesUsed
<1>2. NothingSentYet'
  BY DEF IInv, TypesUsed, NothingSentYet
<1>3. ASSUME NEW s \in RefundReqs, Spends(s)' PROVE Spends(s)
  BY <1>3 DEF IInv, TypesUsed, Spends, HoldReqs
<1>. QED BY <1>1, <1>2, <1>3, NoNewSpender

LEMMA ReserveHolds == ASSUME IInv, NEW r \in HoldReqs, Reserve(r) PROVE IInv'
<1>1. /\ holdPc' = [holdPc EXCEPT ![r] = "reserved"] /\ tx' = [tx EXCEPT ![r] = NoTx]
      /\ UNCHANGED <<authorization, refundsOf>>
  BY DEF Reserve, HoldStep, chainVars
<1>2. TypesUsed' /\ NothingSentYet'
  BY <1>1 DEF IInv, TypesUsed, NothingSentYet
<1>3. ASSUME NEW s \in RefundReqs, Spends(s)' PROVE Spends(s)
  BY <1>1, <1>3 DEF IInv, TypesUsed, Spends, HoldReqs, NoTx
<1>. QED BY <1>1, <1>2, <1>3, NoNewSpender

\* The snapshot of a claim concerns no message.
LEMMA SnapshotClaimHolds ==
    ASSUME IInv, NEW r \in HoldReqs, SnapshotClaim(r) PROVE IInv'
<1>1. PICK to \in {"idle", "collect", "broadcast"} : holdPc' = [holdPc EXCEPT ![r] = to]
  BY DEF SnapshotClaim, Dismiss, Submit, HoldStep
<1>2. /\ r \notin RefundReqs /\ holdPc[r] = "reserved"
      /\ UNCHANGED <<authorization, tx, refundsOf>>
  BY TipsAssumption DEF SnapshotClaim, Dismiss, Submit, HoldStep, chainVars
<1>3. TypesUsed' /\ NothingSentYet'
  BY <1>1, <1>2 DEF IInv, TypesUsed, NothingSentYet
<1>4. ASSUME NEW s \in RefundReqs, Spends(s)' PROVE Spends(s)
  BY <1>1, <1>2, <1>4 DEF IInv, TypesUsed, Spends, HoldReqs
<1>. QED BY <1>2, <1>3, <1>4, NoNewSpender

\* The snapshot of a refund takes a message that was free.
LEMMA SnapshotRefundHolds ==
    ASSUME IInv, NEW r \in HoldReqs, SnapshotRefund(r) PROVE IInv'
<1>. DEFINE d == DigestOf[r]
<1>1. r \in RefundReqs /\ d \in Digests /\ holdPc[r] = "reserved"
  BY DEF SnapshotRefund, Digests, Dismiss, Submit, HoldStep
<1>2. UNCHANGED <<tx, refundsOf>>
  BY DEF SnapshotRefund, chainVars
<1>3. CASE UNCHANGED authorization /\ holdPc' = [holdPc EXCEPT ![r] = "idle"]
  BY <1>2, <1>3, MovesHold
<1>4. CASE /\ authorization[d] = "none"
           /\ authorization' = [authorization EXCEPT ![d] = "used"]
           /\ \E to \in {"collect", "broadcast"} : holdPc' = [holdPc EXCEPT ![r] = to]
  <2>1. TypesUsed' /\ NothingSentYet'
    BY <1>1, <1>2, <1>4 DEF IInv, TypesUsed, NothingSentYet
  <2>2. refundsOf[d] = 0 /\ \A s \in RefundReqs : DigestOf[s] = d => ~Spends(s)
    BY <1>1, <1>4 DEF IInv, FreeUnused
  <2>3. \A s \in RefundReqs : s # r /\ Spends(s)' => Spends(s)
    BY <1>1, <1>2, <1>4 DEF IInv, TypesUsed, Spends, HoldReqs
  <2>4. OneSpender'
    BY <1>2, <2>2, <2>3 DEF IInv, OneSpender
  <2>5. FreeUnused'
    BY <1>1, <1>2, <1>4, <2>3 DEF IInv, TypesUsed, FreeUnused
  <2>6. OneRefundPerMessage'
    BY <1>2 DEF IInv, OneRefundPerMessage
  <2>. QED BY <2>1, <2>4, <2>5, <2>6 DEF IInv
<1>. QED
  BY <1>3, <1>4 DEF SnapshotRefund, Dismiss, Submit, HoldStep

\* A request told to come back gives its message free again: nobody else spends it.
LEMMA PendingHolds ==
    ASSUME IInv, NEW r \in HoldReqs, PendingSettlement(r) PROVE IInv'
<1>1. /\ holdPc[r] = "collect" /\ holdPc' = [holdPc EXCEPT ![r] = "idle"]
      /\ authorization' = [d \in Digests |->
           IF r \in RefundReqs /\ d = DigestOf[r] THEN "none" ELSE authorization[d]]
      /\ UNCHANGED <<tx, refundsOf>>
  BY DEF PendingSettlement, Dismiss, HoldStep, chainVars
<1>2. TypesUsed' /\ NothingSentYet'
  BY <1>1 DEF IInv, TypesUsed, NothingSentYet
<1>3. \A s \in RefundReqs : Spends(s)' => Spends(s) /\ s # r
  BY <1>1 DEF IInv, TypesUsed, NothingSentYet, Spends, HoldReqs, NoTx
<1>4. OneSpender'
  BY <1>1, <1>3 DEF IInv, OneSpender
<1>5. FreeUnused'
  <2>. SUFFICES ASSUME NEW d \in Digests, authorization'[d] = "none"
                PROVE  /\ refundsOf'[d] = 0
                       /\ \A s \in RefundReqs : DigestOf[s] = d => ~Spends(s)'
    BY DEF FreeUnused
  <2>1. CASE r \in RefundReqs /\ d = DigestOf[r]
    <3>1. Spends(r)
      BY <1>1 DEF Spends
    <3>. QED BY <1>1, <1>3, <2>1, <3>1 DEF IInv, OneSpender
  <2>2. CASE ~(r \in RefundReqs /\ d = DigestOf[r])
    BY <1>1, <1>3, <2>2 DEF IInv, FreeUnused
  <2>. QED BY <2>1, <2>2
<1>6. OneRefundPerMessage'
  BY <1>1 DEF IInv, OneRefundPerMessage
<1>. QED BY <1>2, <1>4, <1>5, <1>6 DEF IInv

\* A request that broadcasts goes on spending.
LEMMA BroadcastHolds ==
    ASSUME IInv, NEW r \in HoldReqs, Broadcast(r) \/ BroadcastLost(r) PROVE IInv'
<1>1. /\ holdPc[r] = "broadcast" /\ holdPc' \in {[holdPc EXCEPT ![r] = "sent"],
                                                 [holdPc EXCEPT ![r] = "idle"]}
      /\ tx' = [tx EXCEPT ![r] = [NoTx EXCEPT !.state = "sent"]]
      /\ UNCHANGED <<authorization, refundsOf>>
  BY DEF Broadcast, BroadcastLost, HoldStep, chainVars
<1>2. TypesUsed' /\ NothingSentYet'
  BY <1>1 DEF IInv, TypesUsed, NothingSentYet
<1>3. ASSUME NEW s \in RefundReqs, Spends(s)' PROVE Spends(s)
  BY <1>1, <1>3 DEF IInv, TypesUsed, Spends, HoldReqs
<1>. QED BY <1>1, <1>2, <1>3, NoNewSpender

\* A refund lands: the one request that spends its message does no more.
LEMMA LandRefundHolds == ASSUME IInv, NEW r \in HoldReqs, LandRefund(r) PROVE IInv'
<1>. DEFINE d == DigestOf[r]
<1>1. /\ r \in RefundReqs /\ d \in Digests /\ tx[r].state = "sent"
      /\ refundsOf' = [refundsOf EXCEPT ![d] = @ + 1]
      /\ UNCHANGED <<authorization, holdPc>>
  BY DEF LandRefund, Digests
<1>2. \E n : tx' = [tx EXCEPT ![r] = [state |-> "landed", moved |-> n]]
  BY DEF LandRefund
<1>3. Spends(r) /\ holdPc[r] \notin {"reserved", "collect", "broadcast"}
  BY <1>1 DEF IInv, NothingSentYet, NoTx, Spends
<1>4. /\ refundsOf[d] = 0
      /\ \A s \in RefundReqs : DigestOf[s] = d /\ Spends(s) => s = r
  BY <1>1, <1>3 DEF IInv, OneSpender
<1>5. refundsOf'[d] = 1 /\ \A e \in Digests \ {d} : refundsOf'[e] = refundsOf[e]
  BY <1>1, <1>4 DEF IInv, TypesUsed
<1>6. TypesUsed' /\ NothingSentYet'
  BY <1>1, <1>2, <1>3 DEF IInv, TypesUsed, NothingSentYet
<1>7. \A s \in RefundReqs : Spends(s)' => Spends(s) /\ s # r
  BY <1>1, <1>2, <1>3 DEF IInv, TypesUsed, Spends, HoldReqs
<1>8. \A s \in RefundReqs : Spends(s)' => DigestOf[s] \in Digests \ {d}
  BY <1>4, <1>7 DEF Digests
<1>9. OneSpender'
  BY <1>5, <1>7, <1>8 DEF IInv, OneSpender
<1>10. authorization[d] # "none"
  BY <1>1, <1>3 DEF IInv, FreeUnused
<1>11. FreeUnused'
  BY <1>1, <1>5, <1>7, <1>10 DEF IInv, FreeUnused
<1>12. OneRefundPerMessage'
  BY <1>5 DEF IInv, OneRefundPerMessage
<1>. QED BY <1>6, <1>9, <1>11, <1>12 DEF IInv

\* A release lands, or a transaction reverts.
LEMMA OtherChainHolds ==
    ASSUME IInv, NEW r \in HoldReqs, LandRelease(r) \/ Revert(r) PROVE IInv'
<1>1. UNCHANGED <<authorization, holdPc, refundsOf>> /\ tx[r].state = "sent"
  BY DEF LandRelease, Revert, chainVars
<1>2. \/ tx' = [tx EXCEPT ![r] = [state |-> "landed", moved |-> box]]
      \/ tx' = [tx EXCEPT ![r] = [state |-> "reverted", moved |-> 0]]
  BY DEF LandRelease, Revert, NoTx
<1>3. holdPc[r] \notin {"reserved", "collect", "broadcast"}
  BY <1>1 DEF IInv, NothingSentYet, NoTx
<1>4. TypesUsed' /\ NothingSentYet'
  BY <1>1, <1>2, <1>3 DEF IInv, TypesUsed, NothingSentYet
<1>5. ASSUME NEW s \in RefundReqs, Spends(s)' PROVE Spends(s)
  BY <1>1, <1>2, <1>5 DEF IInv, TypesUsed, Spends, HoldReqs
<1>. QED BY <1>1, <1>4, <1>5, NoNewSpender

\* The final transactions; that of a refund links the row to it.
LEMMA FinalizeHolds ==
    ASSUME IInv, NEW r \in HoldReqs, FinalizeClaim(r) \/ FinalizeRefund(r) PROVE IInv'
<1>1. holdPc' = [holdPc EXCEPT ![r] = "idle"] /\ UNCHANGED <<tx, refundsOf>>
  BY DEF FinalizeClaim, FinalizeRefund, Dismiss, HoldStep, chainVars
<1>2. \/ UNCHANGED authorization
      \/ authorization' = [authorization EXCEPT ![DigestOf[r]] = "linked"]
  BY DEF FinalizeClaim, FinalizeRefund
<1>3. TypesUsed' /\ NothingSentYet'
  BY <1>1, <1>2 DEF IInv, TypesUsed, NothingSentYet
<1>4. \A e \in Digests : authorization'[e] = "none" => authorization[e] = "none"
  BY <1>2 DEF IInv, TypesUsed
<1>5. ASSUME NEW s \in RefundReqs, Spends(s)' PROVE Spends(s)
  BY <1>1, <1>5 DEF IInv, TypesUsed, Spends, HoldReqs
<1>. QED BY <1>1, <1>3, <1>4, <1>5, NoNewSpender

\* Every step preserves the invariant.
LEMMA HoldStepHolds == IInv /\ [HoldNext]_holdVars => IInv'
<1>. SUFFICES ASSUME IInv, [HoldNext]_holdVars PROVE IInv'
  OBVIOUS
<1>1. CASE Funding \/ KeeperSweep \/ UNCHANGED holdVars
  <2>1. UNCHANGED <<authorization, holdPc, tx, refundsOf>>
    BY <1>1 DEF Funding, PayBox, SettleBatch, RecordHeld, KeeperSweep, Collect, chainVars, holdVars
  <2>. QED BY <2>1, OthersHold
<1>2. ASSUME NEW r \in HoldReqs, Route(r) PROVE IInv'
  <2>1. CASE CheckAuthorization(r)
    BY <2>1, MovesHold DEF CheckAuthorization, HoldStep, chainVars
  <2>2. CASE Reserve(r)
    BY <2>2, ReserveHolds
  <2>3. CASE ReserveRefused(r)
    BY <2>3, MovesHold DEF ReserveRefused, HoldStep, chainVars
  <2>4. CASE SnapshotClaim(r)
    BY <2>4, SnapshotClaimHolds
  <2>5. CASE SnapshotRefund(r)
    BY <2>5, SnapshotRefundHolds
  <2>6. CASE CollectCredit(r)
    BY <2>6, MovesHold DEF CollectCredit, Collect, HoldStep
  <2>7. CASE PendingSettlement(r)
    BY <2>7, PendingHolds
  <2>8. CASE Broadcast(r)
    BY <2>8, BroadcastHolds
  <2>9. CASE Confirm(r)
    BY <2>9, MovesHold DEF Confirm, HoldStep, chainVars
  <2>10. CASE ReceiptFails(r)
    BY <2>10, MovesHold DEF ReceiptFails, HoldStep, chainVars
  <2>11. CASE FinalizeClaim(r) \/ FinalizeRefund(r)
    BY <2>11, FinalizeHolds
  <2>. QED BY <1>2, <2>1, <2>2, <2>3, <2>4, <2>5, <2>6, <2>7, <2>8, <2>9, <2>10, <2>11 DEF Route
<1>3. ASSUME NEW r \in HoldReqs, RouteFaults(r) PROVE IInv'
  <2>1. CASE CollectFails(r)
    BY <2>1, MovesHold DEF CollectFails, Collect, HoldStep, chainVars
  <2>2. CASE BroadcastLost(r)
    BY <2>2, BroadcastHolds
  <2>3. CASE PreparationFails(r)
    BY <2>3, MovesHold DEF PreparationFails, HoldStep, chainVars
  <2>4. CASE Abandon(r)
    BY <2>4, MovesHold DEF Abandon, chainVars
  <2>. QED BY <1>3, <2>1, <2>2, <2>3, <2>4 DEF RouteFaults
<1>4. ASSUME NEW r \in HoldReqs, Chain(r) PROVE IInv'
  BY <1>4, LandRefundHolds, OtherChainHolds DEF Chain
<1>. QED BY <1>1, <1>2, <1>3, <1>4 DEF HoldNext

\* The invariant holds in every reachable state.
THEOREM HoldInvariant == HoldSpec => []IInv
<1>. QED BY HoldInitHolds, HoldStepHolds, PTL DEF HoldSpec

-----------------------------------------------------------------------------
(* The properties *)

\* A signed refund message moves money at most once, whatever was abandoned, lost or
\* taken over (the unique digest of TipRefundAuthorization).
THEOREM RefundsOnce == HoldSpec => []OneRefundPerMessage
<1>1. IInv => OneRefundPerMessage
  BY DEF IInv
<1>. QED BY <1>1, HoldInvariant, PTL

\* A domain stays with the wallet that claimed it first (TipDomainClaim).
THEOREM WalletStaysPinned == HoldSpec => ClaimKeepsWallet
<1>1. [HoldNext]_holdVars => [pinned # NoWallet => pinned' = pinned]_pinned
  <2>. SUFFICES ASSUME [HoldNext]_holdVars, pinned # NoWallet PROVE pinned' = pinned
    OBVIOUS
  <2>1. CASE Funding \/ KeeperSweep \/ UNCHANGED holdVars
    BY <2>1 DEF Funding, PayBox, SettleBatch, RecordHeld, KeeperSweep, holdVars
  <2>2. ASSUME NEW r \in HoldReqs, SnapshotClaim(r) PROVE pinned' = pinned
    BY <2>2 DEF SnapshotClaim
  <2>3. ASSUME NEW r \in HoldReqs, Route(r) PROVE pinned' = pinned
    BY <2>2, <2>3 DEF Route, CheckAuthorization, Reserve, ReserveRefused, SnapshotRefund,
         CollectCredit, PendingSettlement, Broadcast, Confirm, ReceiptFails, FinalizeClaim,
         FinalizeRefund
  <2>4. ASSUME NEW r \in HoldReqs, RouteFaults(r) \/ Chain(r) PROVE pinned' = pinned
    BY <2>4 DEF RouteFaults, CollectFails, BroadcastLost, PreparationFails, Abandon, Chain,
         LandRelease, LandRefund, Revert
  <2>. QED BY <2>1, <2>3, <2>4 DEF HoldNext
<1>. QED BY <1>1, PTL DEF HoldSpec, ClaimKeepsWallet

-----------------------------------------------------------------------------
(* The ledgers *)

\* A transaction that landed and whose operation is not final.
Landed(r) == tx[r].state = "landed" /\ plan[r] # NoPlan

\* A request that works on the domain, or whose transaction did or may still.
Working(r) == holdPc[r] \in {"reserved", "collect", "broadcast", "sent", "confirmed"}
Engaged(r) == Working(r) \/ tx[r].state = "sent" \/ Landed(r)

\* The operation row is a lock, for transactions too: while a request is engaged no other
\* is, and the row is there and may not be taken over.
Exclusive ==
    /\ \A r, s \in HoldReqs : Engaged(r) /\ Engaged(s) => r = s
    /\ \A r \in HoldReqs : Engaged(r) => op # NoOp /\ ~Recoverable

\* What the rows of the tips say of each other.
RowsFit ==
    \A t \in Tips :
      /\ units[t] > 0
      /\ status[t] = "unpaid" => units[t] = UnitsOf[t] /\ t \notin settling
      /\ status[t] # "released" => fee[t] = 0

\* A snapshot stays true until its operation is final: its tips are held, and have what it
\* takes; that of a claim takes something, and all there is of it.
PlanFits(r) ==
    /\ \A t \in Tips : plan[r][t] > 0 =>
         /\ status[t] = "held" /\ plan[r][t] <= units[t]
         /\ r \in ClaimReqs => plan[r][t] = units[t]
    /\ r \in ClaimReqs => plan[r] # NoPlan
PlansFit == \A r \in HoldReqs : Engaged(r) /\ holdPc[r] # "reserved" => PlanFits(r)

ConfirmedMatch == \A r \in HoldReqs : holdPc[r] = "confirmed" => ReceiptMatches(r)

\* The ledgers, with the plan p, the money m and the fee c of a transaction that landed.
OwedNow == [t \in Tips |-> IF status[t] = "unpaid" THEN 0 ELSE Owed(t)]
Books(p, m, c) ==
    /\ \A t \in Tips : paidOut[t] + Owed(t) = UnitsOf[t] + p[t]
    /\ box + credit + Total(UnitsOf, settling) + withdrawCost + m = Total(OwedNow, Tips)
    /\ Total(fee, Tips) + c = feeOut
FeeOf(r) == IF r \in ClaimReqs THEN Cut(tx[r].moved) ELSE 0

\* They differ by the one transaction whose operation is not final, if there is one.
BooksKept ==
    /\ (\A r \in HoldReqs : ~Landed(r)) => Books(NoPlan, 0, 0)
    /\ \A r \in HoldReqs : Landed(r) => Books(plan[r], tx[r].moved, FeeOf(r))

MoneyInv ==
    /\ HoldTypeOK /\ NothingSentYet /\ Exclusive /\ RowsFit /\ PlansFit /\ ConfirmedMatch
    /\ BooksKept

\* What tips are owed, and were sent for, are natural numbers.
LEMMA OwedIsNat == ASSUME HoldTypeOK, NEW t \in Tips PROVE Owed(t) \in Nat /\ OwedNow[t] \in Nat
BY DEF HoldTypeOK, Owed, OwedNow

LEMMA TipsAreFinite ==
    /\ IsFiniteSet(Tips) /\ IntOn(UnitsOf, Tips)
    /\ \A S \in SUBSET Tips : IsFiniteSet(S) /\ IntOn(UnitsOf, S) /\ Total(UnitsOf, S) \in Nat
<1>1. IsFiniteSet(Tips) /\ \A t \in Tips : UnitsOf[t] \in Nat
  BY TipsAssumption
<1>2. ASSUME NEW S \in SUBSET Tips PROVE IsFiniteSet(S) /\ Total(UnitsOf, S) \in Nat
  <2>1. IsFiniteSet(S) /\ \A t \in S : UnitsOf[t] \in Nat
    BY <1>1, FS_Subset
  <2>. QED BY <2>1, TotalNat
<1>. QED BY <1>1, <1>2 DEF IntOn

\* The sum over the funded tips is that of what tips are owed now.
LEMMA FundedOwed ==
    ASSUME HoldTypeOK
    PROVE  Total([t \in Tips |-> Owed(t)], {t \in Tips : status[t] # "unpaid"})
             = Total(OwedNow, Tips)
<1>. DEFINE f == [t \in Tips |-> Owed(t)]
            S == {t \in Tips : status[t] # "unpaid"}
<1>1. /\ IsFiniteSet(Tips) /\ IsFiniteSet(S) /\ IsFiniteSet(Tips \ S) /\ S \in SUBSET Tips
      /\ IntOn(OwedNow, Tips) /\ IntOn(f, S)
  BY TipsAreFinite, OwedIsNat DEF IntOn
<1>2. (\A t \in S : f[t] = OwedNow[t]) /\ \A t \in Tips \ S : OwedNow[t] = 0
  BY DEF OwedNow
<1>. HIDE DEF f, S
<1>3. Total(OwedNow, Tips) = Total(OwedNow, S) + Total(OwedNow, Tips \ S)
  BY <1>1, TotalSplit
<1>4. Total(OwedNow, Tips \ S) = 0
  BY <1>1, <1>2, TotalZero
<1>5. Total(f, S) = Total(OwedNow, S) /\ Total(f, S) \in Int
  BY <1>1, <1>2, TotalSame, TotalInt
<1>6. Total(f, S) = Total(OwedNow, Tips)
  BY <1>3, <1>4, <1>5
<1>. QED BY <1>6 DEF f, S

\* A collection moves the credit into the box, but for what it costs.
LEMMA CollectMoves ==
    ASSUME HoldTypeOK, Collect
    PROVE  /\ box' \in Nat /\ credit' \in Nat /\ withdrawCost' \in Nat
           /\ UNCHANGED <<settling, paidOut, feeOut, refundsOf>>
           /\ box' + credit' + withdrawCost' = box + credit + withdrawCost
<1>1. box \in Nat /\ credit \in Nat /\ withdrawCost \in Nat /\ GatewayFloor \in Nat
  BY TipsAssumption DEF HoldTypeOK
<1>2. PICK rest \in 0..GatewayFloor :
        credit' = rest /\ withdrawCost' = withdrawCost + GatewayFloor - rest
  BY DEF Collect
<1>3. /\ credit > GatewayFloor /\ box' = box + credit - GatewayFloor
      /\ UNCHANGED <<settling, paidOut, feeOut, refundsOf>>
  BY DEF Collect
<1>. QED BY <1>1, <1>2, <1>3

LEMMA CollectBooks ==
    ASSUME HoldTypeOK, Collect, UNCHANGED ledgerVars, NEW p, NEW m, NEW c,
           m \in Int /\ Books(p, m, c)
    PROVE  Books(p, m, c)'
<1>1. UNCHANGED <<status, units, fee, settling, paidOut, feeOut>>
  BY CollectMoves DEF ledgerVars
<1>2. OwedNow' = OwedNow /\ \A t \in Tips : Owed(t)' = Owed(t)
  BY <1>1 DEF OwedNow, Owed
<1>3. settling \in SUBSET Tips
  BY DEF HoldTypeOK
<1>4. Total(UnitsOf, settling) \in Nat /\ Total(OwedNow, Tips) \in Nat
  <2>1. \A t \in Tips : OwedNow[t] \in Nat
    BY OwedIsNat
  <2>. QED BY <1>3, <2>1, TipsAreFinite, TotalNat
<1>5. /\ box \in Nat /\ credit \in Nat /\ withdrawCost \in Nat
      /\ box' \in Nat /\ credit' \in Nat /\ withdrawCost' \in Nat
      /\ box' + credit' + withdrawCost' = box + credit + withdrawCost
  BY CollectMoves DEF HoldTypeOK
<1>6. box + credit + Total(UnitsOf, settling) + withdrawCost + m = Total(OwedNow, Tips)
  BY DEF Books
<1>7. box' + credit' + Total(UnitsOf, settling) + withdrawCost' + m = Total(OwedNow, Tips)
  <2>. DEFINE T == Total(UnitsOf, settling)
  <2>1. m \in Int /\ T \in Nat
    BY <1>4
  <2>. HIDE DEF T
  <2>2. T + m \in Int
    BY <2>1
  <2>3. /\ box' + credit' + T + withdrawCost' + m = (box' + credit' + withdrawCost') + (T + m)
        /\ box + credit + T + withdrawCost + m = (box + credit + withdrawCost) + (T + m)
    BY <1>5, <2>1
  <2>4. box' + credit' + T + withdrawCost' + m = box + credit + T + withdrawCost + m
    BY <1>5, <2>3
  <2>. QED BY <1>6, <2>4 DEF T
<1>. QED BY <1>1, <1>2, <1>7 DEF Books

\* Money and rows stand still.
LEMMA SameBooks ==
    ASSUME UNCHANGED <<ledgerVars, chainVars, gatewayVars>>, NEW p, NEW m, NEW c, Books(p, m, c)
    PROVE  Books(p, m, c)'
BY DEF Books, Owed, OwedNow, ledgerVars, chainVars, gatewayVars

\* A step that moves the books as a whole, and no request.
LEMMA BooksMove ==
    ASSUME MoneyInv, HoldTypeOK', RowsFit', UNCHANGED <<op, holdPc, plan, tx>>,
           \A t \in Tips : status[t] = "held" => status'[t] = "held" /\ units'[t] = units[t],
           \A p, m, c : m \in Int /\ Books(p, m, c) => Books(p, m, c)'
    PROVE  MoneyInv'
<1>1. \A r \in HoldReqs : (Landed(r)' <=> Landed(r)) /\ (Engaged(r)' <=> Engaged(r))
  BY DEF Landed, Engaged, Working
<1>2. Exclusive' /\ NothingSentYet' /\ ConfirmedMatch'
  BY <1>1 DEF MoneyInv, Exclusive, Recoverable, NothingSentYet, ConfirmedMatch,
              ReceiptMatches, Expected
<1>3. PlansFit'
  BY <1>1 DEF MoneyInv, PlansFit, PlanFits
<1>4. BooksKept'
  <2>1. \A r \in HoldReqs : FeeOf(r)' = FeeOf(r) /\ tx[r].moved \in Int
    BY DEF FeeOf, MoneyInv, HoldTypeOK
  <2>2. (\A r \in HoldReqs : ~Landed(r)') => Books(NoPlan, 0, 0)'
    BY <1>1 DEF MoneyInv, BooksKept
  <2>3. ASSUME NEW r \in HoldReqs, Landed(r)' PROVE Books(plan[r], tx[r].moved, FeeOf(r))'
    BY <1>1, <2>1, <2>3 DEF MoneyInv, BooksKept
  <2>. QED BY <2>2, <2>3 DEF BooksKept
<1>. QED BY <1>2, <1>3, <1>4 DEF MoneyInv

-----------------------------------------------------------------------------
(* Funding *)

LEMMA PayBoxHolds == ASSUME MoneyInv, NEW t \in Tips, PayBox(t) PROVE MoneyInv'
<1>1. /\ status[t] = "unpaid" /\ status' = [status EXCEPT ![t] = "paid"]
      /\ UNCHANGED <<units, fee, credit, withdrawCost, op, pinned, authorization, holdPc,
                     plan, tx, paidOut, feeOut, refundsOf, faults>>
      /\ \/ box' = box + UnitsOf[t] /\ settling' = settling
         \/ settling' = settling \cup {t} /\ box' = box
  BY DEF PayBox
<1>2. /\ HoldTypeOK /\ UnitsOf[t] \in Nat /\ box \in Nat /\ settling \in SUBSET Tips
      /\ credit \in Nat /\ withdrawCost \in Nat /\ units[t] = UnitsOf[t] /\ t \notin settling
  BY <1>1, TipsAssumption DEF MoneyInv, HoldTypeOK, RowsFit
<1>3. HoldTypeOK'
  BY <1>1, <1>2 DEF HoldTypeOK
<1>4. RowsFit'
  BY <1>1, <1>2 DEF MoneyInv, RowsFit, HoldTypeOK
<1>5. OwedNow'[t] = OwedNow[t] + UnitsOf[t] /\ OwedNow[t] = 0 /\ Owed(t)' = Owed(t)
  BY <1>1, <1>2 DEF HoldTypeOK, OwedNow, Owed
<1>6. \A s \in Tips \ {t} : OwedNow'[s] = OwedNow[s] /\ Owed(s)' = Owed(s)
  BY <1>1, <1>2 DEF HoldTypeOK, OwedNow, Owed
<1>7. Total(OwedNow', Tips) = Total(OwedNow, Tips) + UnitsOf[t]
  <2>. DEFINE f == OwedNow
              g == OwedNow'
  <2>1. /\ IsFiniteSet(Tips) /\ \A s \in Tips : f[s] \in Nat
        /\ f[t] = 0 /\ g[t] = f[t] + UnitsOf[t] /\ \A s \in Tips \ {t} : g[s] = f[s]
    BY <1>2, <1>5, <1>6, OwedIsNat, TipsAreFinite
  <2>. HIDE DEF f, g
  <2>2. g[t] \in Int /\ IntOn(f, Tips) /\ Total(f, Tips) \in Nat
    BY <1>2, <2>1, TotalNat DEF IntOn
  <2>3. Total(g, Tips) = Total(f, Tips) - f[t] + g[t]
    BY <2>1, <2>2, TotalUpdate
  <2>4. Total(g, Tips) = Total(f, Tips) + UnitsOf[t]
    BY <1>2, <2>1, <2>2, <2>3
  <2>. QED BY <2>4 DEF f, g
<1>8. box' + Total(UnitsOf, settling') = box + Total(UnitsOf, settling) + UnitsOf[t]
  <2>1. Total(UnitsOf, settling) \in Nat
    BY <1>2, TipsAreFinite
  <2>2. CASE box' = box + UnitsOf[t] /\ settling' = settling
    BY <1>2, <2>1, <2>2
  <2>3. CASE settling' = settling \cup {t} /\ box' = box
    <3>1. settling \cup {t} \in SUBSET Tips
      BY <1>2
    <3>2. IsFiniteSet(settling) /\ IntOn(UnitsOf, settling \cup {t})
      BY <1>2, <3>1, TipsAreFinite
    <3>3. Total(UnitsOf, settling \cup {t}) = UnitsOf[t] + Total(UnitsOf, settling)
      BY <1>2, <3>2, TotalAdd
    <3>. QED BY <1>2, <2>1, <2>3, <3>3
  <2>. QED BY <1>1, <2>2, <2>3
<1>9. ASSUME NEW p, NEW m, NEW c, m \in Int /\ Books(p, m, c) PROVE Books(p, m, c)'
  <2>1. /\ Total(UnitsOf, settling) \in Nat /\ Total(UnitsOf, settling') \in Nat
        /\ box' \in Nat /\ Total(OwedNow, Tips) \in Nat
    <3>1. \A s \in Tips : OwedNow[s] \in Nat
      BY <1>2, OwedIsNat
    <3>2. settling' \in SUBSET Tips /\ box' \in Nat
      BY <1>3 DEF HoldTypeOK
    <3>. QED BY <1>2, <3>1, <3>2, TipsAreFinite, TotalNat
  <2>2. box + credit + Total(UnitsOf, settling) + withdrawCost + m = Total(OwedNow, Tips)
    BY <1>9 DEF Books
  <2>3. box' + credit' + Total(UnitsOf, settling') + withdrawCost' + m = Total(OwedNow', Tips)
    BY <1>1, <1>2, <1>7, <1>8, <1>9, <2>1, <2>2
  <2>. QED BY <1>1, <1>5, <1>6, <1>9, <2>3 DEF Books
<1>10. \A s \in Tips : status[s] = "held" => status'[s] = "held" /\ units'[s] = units[s]
  BY <1>1, <1>2 DEF HoldTypeOK
<1>. QED BY <1>1, <1>3, <1>4, <1>9, <1>10, BooksMove

LEMMA SettleBatchHolds == ASSUME MoneyInv, NEW t \in Tips, SettleBatch(t) PROVE MoneyInv'
<1>1. /\ t \in settling /\ settling' = settling \ {t} /\ credit' = credit + UnitsOf[t]
      /\ UNCHANGED <<withdrawCost, status, units, fee, box, paidOut, feeOut, refundsOf, op,
                     pinned, authorization, holdPc, plan, tx, faults>>
  BY DEF SettleBatch, ledgerVars, chainVars
<1>2. /\ HoldTypeOK /\ UnitsOf[t] \in Nat /\ box \in Nat /\ settling \in SUBSET Tips
      /\ credit \in Nat /\ withdrawCost \in Nat
  BY TipsAssumption DEF MoneyInv, HoldTypeOK
<1>3. HoldTypeOK'
  BY <1>1, <1>2 DEF HoldTypeOK
<1>4. RowsFit'
  BY <1>1 DEF MoneyInv, RowsFit
<1>5. /\ Total(UnitsOf, settling) = UnitsOf[t] + Total(UnitsOf, settling')
      /\ Total(UnitsOf, settling') \in Nat
  <2>1. IsFiniteSet(settling) /\ IntOn(UnitsOf, settling) /\ settling \ {t} \in SUBSET Tips
    BY <1>2, TipsAreFinite
  <2>. QED BY <1>1, <2>1, TotalRemove, TipsAreFinite
<1>6. OwedNow' = OwedNow /\ \A s \in Tips : Owed(s)' = Owed(s)
  BY <1>1 DEF OwedNow, Owed
<1>7. ASSUME NEW p, NEW m, NEW c, m \in Int /\ Books(p, m, c) PROVE Books(p, m, c)'
  <2>1. box + credit + Total(UnitsOf, settling) + withdrawCost + m = Total(OwedNow, Tips)
    BY <1>7 DEF Books
  <2>2. box' + credit' + Total(UnitsOf, settling') + withdrawCost' + m = Total(OwedNow', Tips)
    BY <1>1, <1>2, <1>5, <1>6, <1>7, <2>1
  <2>. QED BY <1>1, <1>6, <1>7, <2>2 DEF Books
<1>. QED BY <1>1, <1>3, <1>4, <1>7, BooksMove

LEMMA RecordHeldHolds == ASSUME MoneyInv, NEW t \in Tips, RecordHeld(t) PROVE MoneyInv'
<1>1. /\ status[t] = "paid" /\ status' = [status EXCEPT ![t] = "held"]
      /\ UNCHANGED <<units, fee, credit, settling, withdrawCost, box, paidOut, feeOut,
                     refundsOf, op, pinned, authorization, holdPc, plan, tx, faults>>
  BY DEF RecordHeld, gatewayVars, chainVars
<1>2. HoldTypeOK /\ HoldTypeOK'
  BY <1>1 DEF MoneyInv, HoldTypeOK
<1>3. RowsFit'
  BY <1>1, <1>2 DEF MoneyInv, RowsFit, HoldTypeOK
<1>4. \A s \in Tips : Owed(s)' = Owed(s) /\ (status'[s] = "unpaid" <=> status[s] = "unpaid")
  BY <1>1, <1>2 DEF HoldTypeOK, Owed
<1>5. OwedNow' = OwedNow
  BY <1>4 DEF OwedNow
<1>6. \A p, m, c : Books(p, m, c) => Books(p, m, c)'
  BY <1>1, <1>4, <1>5 DEF Books
<1>7. \A s \in Tips : status[s] = "held" => status'[s] = "held" /\ units'[s] = units[s]
  BY <1>1, <1>2 DEF HoldTypeOK
<1>. QED BY <1>1, <1>2, <1>3, <1>6, <1>7, BooksMove

LEMMA KeeperSweepHolds == ASSUME MoneyInv, KeeperSweep PROVE MoneyInv'
<1>1. /\ Collect /\ UNCHANGED ledgerVars
      /\ UNCHANGED <<status, units, fee, op, pinned, authorization, holdPc, plan, tx, faults>>
  BY DEF KeeperSweep, ledgerVars
<1>2. /\ HoldTypeOK /\ box' \in Nat /\ credit' \in Nat /\ withdrawCost' \in Nat
      /\ UNCHANGED <<settling, paidOut, feeOut, refundsOf>>
  BY <1>1, CollectMoves DEF MoneyInv
<1>3. HoldTypeOK' /\ RowsFit'
  BY <1>1, <1>2 DEF MoneyInv, HoldTypeOK, RowsFit
<1>4. \A p, m, c : m \in Int /\ Books(p, m, c) => Books(p, m, c)'
  BY <1>1, <1>2, CollectBooks
<1>. QED BY <1>1, <1>3, <1>4, BooksMove

-----------------------------------------------------------------------------
(* Requests *)

\* A turn of one request keeps the invariant if it starts only where nobody is engaged,
\* leaves the row in its own hands, and moves neither tips nor money but as a whole.
LEMMA TurnKeeps ==
    ASSUME MoneyInv, HoldTypeOK', NothingSentYet', RowsFit', NEW r \in HoldReqs,
           \A s \in HoldReqs \ {r} :
             holdPc'[s] = holdPc[s] /\ tx'[s] = tx[s] /\ plan'[s] = plan[s],
           UNCHANGED <<status, units>>,
           \A p, m, c : m \in Int /\ Books(p, m, c) => Books(p, m, c)',
           Engaged(r) \/ op = NoOp \/ Recoverable \/ (op' = op /\ ~Engaged(r)'),
           Engaged(r)' => op' # NoOp /\ ~Recoverable',
           Engaged(r)' /\ holdPc'[r] # "reserved" => PlanFits(r)',
           holdPc'[r] = "confirmed" => ReceiptMatches(r)',
           Landed(r)' <=> Landed(r), Landed(r) => plan'[r] = plan[r] /\ tx'[r] = tx[r]
    PROVE  MoneyInv'
<1>1. \A s \in HoldReqs \ {r} : (Landed(s)' <=> Landed(s)) /\ (Engaged(s)' <=> Engaged(s))
  BY DEF Landed, Engaged, Working
<1>2. /\ \A s, q \in HoldReqs : Engaged(s) /\ Engaged(q) => s = q
      /\ \A s \in HoldReqs : Engaged(s) => op # NoOp /\ ~Recoverable
  BY DEF MoneyInv, Exclusive
<1>3. \A s \in HoldReqs \ {r} : Engaged(s) => op' = op /\ ~Engaged(r)'
  BY <1>2
<1>4. Recoverable' <=> /\ op'.kind = "refund" /\ op'.state = "reconcile"
                       /\ ~op'.hash /\ op'.why = "preparation"
  BY DEF Recoverable
<1>5. Exclusive'
  <2>1. ASSUME NEW s \in HoldReqs, Engaged(s)' PROVE op' # NoOp /\ ~Recoverable'
    <3>1. CASE s = r
      BY <2>1, <3>1
    <3>2. CASE s # r
      BY <1>1, <1>2, <1>3, <1>4, <2>1, <3>2 DEF Recoverable
    <3>. QED BY <3>1, <3>2
  <2>2. ASSUME NEW s \in HoldReqs, NEW q \in HoldReqs, Engaged(s)', Engaged(q)' PROVE s = q
    BY <1>1, <1>2, <1>3, <2>2
  <2>. QED BY <2>1, <2>2 DEF Exclusive
<1>6. PlansFit'
  <2>1. ASSUME NEW s \in HoldReqs, Engaged(s)', holdPc'[s] # "reserved" PROVE PlanFits(s)'
    <3>1. CASE s = r
      BY <2>1, <3>1
    <3>2. CASE s # r
      BY <1>1, <2>1, <3>2 DEF MoneyInv, PlansFit, PlanFits
    <3>. QED BY <3>1, <3>2
  <2>. QED BY <2>1 DEF PlansFit
<1>7. ConfirmedMatch'
  <2>1. ASSUME NEW s \in HoldReqs, holdPc'[s] = "confirmed" PROVE ReceiptMatches(s)'
    <3>1. CASE s = r
      BY <2>1, <3>1
    <3>2. CASE s # r
      BY <2>1, <3>2 DEF MoneyInv, ConfirmedMatch, ReceiptMatches, Expected
    <3>. QED BY <3>1, <3>2
  <2>. QED BY <2>1 DEF ConfirmedMatch
<1>8. BooksKept'
  <2>1. (\A s \in HoldReqs : ~Landed(s)') => Books(NoPlan, 0, 0)'
    BY <1>1 DEF MoneyInv, BooksKept
  <2>2. ASSUME NEW s \in HoldReqs, Landed(s)' PROVE Books(plan[s], tx[s].moved, FeeOf(s))'
    <3>1. Landed(s) /\ plan'[s] = plan[s] /\ tx'[s] = tx[s] /\ FeeOf(s)' = FeeOf(s)
      BY <1>1, <2>2 DEF FeeOf
    <3>2. Books(plan[s], tx[s].moved, FeeOf(s)) /\ tx[s].moved \in Int
      BY <3>1 DEF MoneyInv, BooksKept, HoldTypeOK
    <3>. DEFINE p == plan[s]
                m == tx[s].moved
                c == FeeOf(s)
    <3>3. p' = p /\ m' = m /\ c' = c
      BY <3>1
    <3>. QED BY <3>1, <3>2, <3>3
  <2>. QED BY <2>1, <2>2 DEF BooksKept
<1>. QED BY <1>5, <1>6, <1>7, <1>8 DEF MoneyInv

\* The operation row of a request that is engaged.
LEMMA OwnRow ==
    ASSUME MoneyInv, NEW r \in HoldReqs, Engaged(r)
    PROVE  op \in OpRow /\ op # NoOp /\ ~Recoverable
BY DEF MoneyInv, Exclusive, HoldTypeOK

\* What becomes of a row that is advanced, or left to be reconciled.
LEMMA RowAdvances ==
    ASSUME NEW row \in OpRow, NEW st \in {"submitting", "submitted", "confirmed"}, NEW new,
           \/ new = [row EXCEPT !.state = st]
           \/ new = [row EXCEPT !.state = st, !.hash = TRUE]
    PROVE  new \in OpRow /\ new # NoOp /\ new.state = st
<1>1. st \in {"reserved", "submitting", "submitted", "confirmed", "reconcile"}
  OBVIOUS
<1>2. new \in OpRow
  BY <1>1 DEF OpRow
<1>3. new.state = st
  BY DEF OpRow
<1>. QED BY <1>2, <1>3 DEF OpRow, NoOp

LEMMA RowFails ==
    ASSUME NEW row \in OpRow, NEW why \in {"preparation", "other"}, NEW h \in BOOLEAN, NEW new,
           new = [row EXCEPT !.state = "reconcile", !.why = why, !.hash = h]
    PROVE  new \in OpRow /\ new # NoOp /\ new.why = why
<1>1. new \in OpRow
  BY DEF OpRow
<1>2. new.why = why
  BY DEF OpRow
<1>. QED BY <1>1, <1>2 DEF OpRow, NoOp

\* A request moves on or stops, with its plan and its transaction as they are.
LEMMA MoveKeeps ==
    ASSUME MoneyInv, HoldTypeOK', NothingSentYet', NEW r \in HoldReqs, NEW to,
           holdPc' = [holdPc EXCEPT ![r] = to], UNCHANGED <<status, units, fee, settling, plan, tx>>,
           \A p, m, c : m \in Int /\ Books(p, m, c) => Books(p, m, c)',
           Engaged(r)' => Engaged(r) /\ holdPc[r] # "reserved",
           to = "confirmed" => ReceiptMatches(r),
           op' = op \/ (Engaged(r) /\ (Engaged(r)' => op' # NoOp /\ ~Recoverable'))
    PROVE  MoneyInv'
<1>1. /\ \A s \in HoldReqs \ {r} : holdPc'[s] = holdPc[s]
      /\ holdPc'[r] = to
  BY DEF MoneyInv, HoldTypeOK
<1>2. RowsFit'
  BY DEF MoneyInv, RowsFit
<1>3. Engaged(r) => op # NoOp /\ ~Recoverable
  BY OwnRow
<1>4. Engaged(r)' => op' # NoOp /\ ~Recoverable'
  BY <1>3 DEF Recoverable
<1>5. Engaged(r)' => PlanFits(r)'
  BY DEF MoneyInv, PlansFit, PlanFits
<1>6. holdPc'[r] = "confirmed" => ReceiptMatches(r)'
  BY <1>1 DEF ReceiptMatches, Expected
<1>7. Landed(r)' <=> Landed(r)
  BY DEF Landed
<1>8. Engaged(r) \/ op = NoOp \/ Recoverable \/ (op' = op /\ ~Engaged(r)')
  OBVIOUS
<1>. QED BY <1>1, <1>2, <1>4, <1>5, <1>6, <1>7, <1>8, TurnKeeps

\* The steps that move a request and nothing of what it takes.
LEMMA ChecksHold ==
    ASSUME MoneyInv, NothingSentYet', NEW r \in HoldReqs,
           CheckAuthorization(r) \/ ReserveRefused(r) \/ Abandon(r)
    PROVE  MoneyInv'
<1>1. PICK to \in {"idle", "checked"} : holdPc' = [holdPc EXCEPT ![r] = to]
  BY DEF CheckAuthorization, ReserveRefused, Abandon, HoldStep
<1>2. /\ UNCHANGED <<status, units, fee, credit, settling, withdrawCost, box, op, pinned,
                     authorization, plan, tx, paidOut, feeOut, refundsOf>>
      /\ UNCHANGED <<ledgerVars, chainVars, gatewayVars>>
      /\ faults' \in {faults} \cup {faults + 1} /\ (faults' # faults => faults < MaxFaults)
  BY DEF CheckAuthorization, ReserveRefused, Abandon, Fault, ledgerVars, gatewayVars, chainVars
<1>3. HoldTypeOK'
  BY <1>1, <1>2, TipsAssumption DEF MoneyInv, HoldTypeOK
<1>4. holdPc'[r] = to
  BY <1>1 DEF MoneyInv, HoldTypeOK
<1>5. Engaged(r)' => Engaged(r) /\ holdPc[r] # "reserved"
  <2>1. holdPc[r] = "reserved" => tx[r] = NoTx
    BY DEF MoneyInv, NothingSentYet
  <2>. QED BY <1>2, <1>4, <2>1 DEF Engaged, Working, Landed, NoTx
<1>6. \A p, m, c : Books(p, m, c) => Books(p, m, c)'
  BY <1>2, SameBooks
<1>. QED BY <1>1, <1>2, <1>3, <1>5, <1>6, MoveKeeps

LEMMA ConfirmHolds ==
    ASSUME MoneyInv, NothingSentYet', NEW r \in HoldReqs, Confirm(r) PROVE MoneyInv'
<1>1. /\ holdPc[r] = "sent" /\ holdPc' = [holdPc EXCEPT ![r] = "confirmed"] /\ ReceiptMatches(r)
      /\ op' = [op EXCEPT !.state = "confirmed"]
      /\ UNCHANGED <<status, units, fee, credit, settling, withdrawCost, box, pinned,
                     authorization, plan, tx, paidOut, feeOut, refundsOf, faults>>
      /\ UNCHANGED <<ledgerVars, chainVars, gatewayVars>>
  BY DEF Confirm, HoldStep, ledgerVars, gatewayVars, chainVars
<1>2. Engaged(r) /\ op \in OpRow
  BY <1>1, OwnRow DEF Engaged, Working
<1>3. op' \in OpRow /\ op' # NoOp /\ op'.state = "confirmed"
  <2>. DEFINE new == op'
  <2>1. new = [op EXCEPT !.state = "confirmed"]
    BY <1>1
  <2>. HIDE DEF new
  <2>2. new \in OpRow /\ new # NoOp /\ new.state = "confirmed"
    BY <1>2, <2>1, RowAdvances
  <2>. QED BY <2>2 DEF new
<1>4. ~Recoverable'
  BY <1>3 DEF Recoverable
<1>5. HoldTypeOK'
  BY <1>1, <1>3 DEF MoneyInv, HoldTypeOK
<1>6. \A p, m, c : Books(p, m, c) => Books(p, m, c)'
  BY <1>1, SameBooks
<1>. QED BY <1>1, <1>2, <1>3, <1>4, <1>5, <1>6, MoveKeeps

\* The failures that leave the row to be reconciled.
LEMMA FailuresHold ==
    ASSUME MoneyInv, NothingSentYet', NEW r \in HoldReqs,
           ReceiptFails(r) \/ PreparationFails(r) \/ CollectFails(r)
    PROVE  MoneyInv'
<1>1. /\ holdPc[r] \in {"sent", "broadcast", "collect"} /\ holdPc' = [holdPc EXCEPT ![r] = "idle"]
      /\ UNCHANGED <<status, units, fee, pinned, authorization, plan, tx>>
      /\ UNCHANGED ledgerVars
      /\ faults' \in {faults} \cup {faults + 1} /\ (faults' # faults => faults < MaxFaults)
  BY DEF ReceiptFails, PreparationFails, CollectFails, Fault, HoldStep, ledgerVars
<1>2. \/ UNCHANGED <<chainVars, gatewayVars>>
      \/ Collect
  BY DEF ReceiptFails, PreparationFails, CollectFails
<1>3. Engaged(r) /\ op \in OpRow
  BY <1>1, OwnRow DEF Engaged, Working
<1>4. PICK why \in {"preparation", "other"}, hash \in BOOLEAN :
        /\ op' = [op EXCEPT !.state = "reconcile", !.why = why, !.hash = hash]
        /\ why = "other" \/ holdPc[r] = "broadcast"
  <2>1. op.hash \in BOOLEAN
    BY <1>3 DEF OpRow
  <2>. QED BY <2>1 DEF ReceiptFails, PreparationFails, CollectFails, Reconcile, HoldStep
<1>5. op' \in OpRow /\ op' # NoOp /\ op'.why = why
  <2>. DEFINE new == op'
  <2>1. new = [op EXCEPT !.state = "reconcile", !.why = why, !.hash = hash]
    BY <1>4
  <2>. HIDE DEF new
  <2>2. new \in OpRow /\ new # NoOp /\ new.why = why
    BY <1>3, <2>1, RowFails
  <2>. QED BY <2>2 DEF new
<1>6. /\ credit' \in Nat /\ box' \in Nat /\ withdrawCost' \in Nat
      /\ UNCHANGED <<settling, paidOut, feeOut, refundsOf>>
  BY <1>2, CollectMoves DEF MoneyInv, HoldTypeOK, chainVars, gatewayVars
<1>7. HoldTypeOK'
  <2>1. faults' \in 0..MaxFaults
    BY <1>1, TipsAssumption DEF MoneyInv, HoldTypeOK
  <2>. QED BY <1>1, <1>5, <1>6, <2>1 DEF MoneyInv, HoldTypeOK
<1>8. Engaged(r)' => op' # NoOp /\ ~Recoverable'
  <2>1. holdPc[r] = "broadcast" => tx[r] = NoTx
    BY DEF MoneyInv, NothingSentYet
  <2>2. holdPc'[r] = "idle"
    BY <1>1 DEF MoneyInv, HoldTypeOK
  <2>3. Engaged(r)' => why = "other"
    BY <1>1, <1>4, <2>1, <2>2 DEF Engaged, Working, Landed, NoTx
  <2>. QED BY <1>5, <2>3 DEF Recoverable
<1>9. \A p, m, c : m \in Int /\ Books(p, m, c) => Books(p, m, c)'
  BY <1>1, <1>2, SameBooks, CollectBooks DEF MoneyInv
<1>. QED BY <1>1, <1>3, <1>6, <1>7, <1>8, <1>9, MoveKeeps

LEMMA CollectCreditHolds ==
    ASSUME MoneyInv, NothingSentYet', NEW r \in HoldReqs, CollectCredit(r) PROVE MoneyInv'
<1>1. /\ holdPc[r] = "collect" /\ holdPc' = [holdPc EXCEPT ![r] = "broadcast"] /\ Collect
      /\ UNCHANGED <<status, units, fee, op, pinned, authorization, plan, tx, faults>>
      /\ UNCHANGED ledgerVars
  BY DEF CollectCredit, HoldStep, ledgerVars
<1>2. Engaged(r)
  BY <1>1 DEF Engaged, Working
<1>3. /\ credit' \in Nat /\ box' \in Nat /\ withdrawCost' \in Nat
      /\ UNCHANGED <<settling, paidOut, feeOut, refundsOf>>
  BY <1>1, CollectMoves DEF MoneyInv
<1>4. HoldTypeOK'
  BY <1>1, <1>3 DEF MoneyInv, HoldTypeOK
<1>5. \A p, m, c : m \in Int /\ Books(p, m, c) => Books(p, m, c)'
  BY <1>1, CollectBooks DEF MoneyInv
<1>. QED BY <1>1, <1>2, <1>3, <1>4, <1>5, MoveKeeps

\* The row is created, or taken over from a refund nobody is engaged in any more.
LEMMA ReserveTurn ==
    ASSUME MoneyInv, NothingSentYet', NEW r \in HoldReqs, Reserve(r) PROVE MoneyInv'
<1>1. /\ op = NoOp \/ Recoverable
      /\ holdPc' = [holdPc EXCEPT ![r] = "reserved"] /\ tx' = [tx EXCEPT ![r] = NoTx]
      /\ op' = [kind |-> IF r \in ClaimReqs THEN "claim" ELSE "refund",
                state |-> "reserved", hash |-> FALSE, why |-> "none"]
      /\ UNCHANGED <<status, units, fee, credit, settling, withdrawCost, box, pinned,
                     authorization, plan, paidOut, feeOut, refundsOf, faults>>
      /\ UNCHANGED <<ledgerVars, chainVars, gatewayVars>>
  BY DEF Reserve, HoldStep, ledgerVars, gatewayVars, chainVars
<1>2. op' \in OpRow /\ op' # NoOp /\ ~Recoverable'
  BY <1>1 DEF OpRow, NoOp, Recoverable
<1>3. HoldTypeOK'
  BY <1>1, <1>2 DEF MoneyInv, HoldTypeOK, NoTx
<1>4. RowsFit'
  BY <1>1 DEF MoneyInv, RowsFit
<1>5. /\ \A s \in HoldReqs \ {r} :
           holdPc'[s] = holdPc[s] /\ tx'[s] = tx[s] /\ plan'[s] = plan[s]
      /\ holdPc'[r] = "reserved" /\ tx'[r] = NoTx
  BY <1>1 DEF MoneyInv, HoldTypeOK
<1>6. ~Engaged(r)
  BY <1>1, OwnRow
<1>7. ~Landed(r) /\ ~Landed(r)'
  BY <1>5, <1>6 DEF Engaged, Landed, NoTx
<1>8. \A p, m, c : Books(p, m, c) => Books(p, m, c)'
  BY <1>1, SameBooks
<1>. QED BY <1>1, <1>2, <1>3, <1>4, <1>5, <1>7, <1>8, TurnKeeps

\* A request gives the domain up before anything was sent.
LEMMA DismissTurn ==
    ASSUME MoneyInv, NothingSentYet', HoldTypeOK', NEW r \in HoldReqs, NEW from,
           from \in {"reserved", "collect"}, Dismiss(r, from), UNCHANGED <<status, units, fee, tx>>,
           UNCHANGED <<ledgerVars, chainVars, gatewayVars>>
    PROVE  MoneyInv'
<1>1. /\ holdPc[r] = from /\ holdPc' = [holdPc EXCEPT ![r] = "idle"]
      /\ op' = NoOp /\ plan' = [plan EXCEPT ![r] = NoPlan]
  BY DEF Dismiss, HoldStep
<1>2. Engaged(r) /\ tx[r] = NoTx
  BY <1>1 DEF Engaged, Working, MoneyInv, NothingSentYet
<1>3. /\ \A s \in HoldReqs \ {r} :
           holdPc'[s] = holdPc[s] /\ tx'[s] = tx[s] /\ plan'[s] = plan[s]
      /\ holdPc'[r] = "idle" /\ tx'[r] = NoTx
  BY <1>1, <1>2 DEF MoneyInv, HoldTypeOK
<1>4. ~Landed(r) /\ ~Landed(r)' /\ ~Engaged(r)'
  BY <1>2, <1>3 DEF Engaged, Working, Landed, NoTx
<1>5. RowsFit'
  BY DEF MoneyInv, RowsFit, gatewayVars
<1>6. \A p, m, c : Books(p, m, c) => Books(p, m, c)'
  BY SameBooks
<1>. QED BY <1>2, <1>3, <1>4, <1>5, <1>6, TurnKeeps

\* A snapshot of held tips, with no more of each than it has.
LEMMA SubmitTurn ==
    ASSUME MoneyInv, NothingSentYet', HoldTypeOK', NEW r \in HoldReqs, NEW p, NEW concerned,
           Submit(r, p, concerned), UNCHANGED <<status, units, fee, tx>>,
           UNCHANGED <<ledgerVars, chainVars, gatewayVars>>,
           \A t \in Tips : p[t] > 0 => status[t] = "held" /\ p[t] <= units[t],
           r \in ClaimReqs => p # NoPlan /\ \A t \in Tips : p[t] > 0 => p[t] = units[t]
    PROVE  MoneyInv'
<1>1. /\ holdPc[r] = "reserved" /\ plan' = [plan EXCEPT ![r] = p]
      /\ op' = [op EXCEPT !.state = "submitting"]
      /\ \E to \in {"collect", "broadcast"} : holdPc' = [holdPc EXCEPT ![r] = to]
  BY DEF Submit, HoldStep
<1>2. Engaged(r) /\ tx[r] = NoTx /\ op \in OpRow
  BY <1>1, OwnRow DEF Engaged, Working, MoneyInv, NothingSentYet
<1>3. /\ \A s \in HoldReqs \ {r} :
           holdPc'[s] = holdPc[s] /\ tx'[s] = tx[s] /\ plan'[s] = plan[s]
      /\ holdPc'[r] \in {"collect", "broadcast"} /\ tx'[r] = NoTx /\ plan'[r] = p
  BY <1>1, <1>2 DEF MoneyInv, HoldTypeOK
<1>4. ~Landed(r) /\ ~Landed(r)'
  BY <1>2, <1>3 DEF Landed, NoTx
<1>5. RowsFit'
  BY DEF MoneyInv, RowsFit, gatewayVars
<1>6. op' # NoOp /\ ~Recoverable'
  <2>. DEFINE new == op'
  <2>1. new = [op EXCEPT !.state = "submitting"]
    BY <1>1
  <2>. HIDE DEF new
  <2>2. new # NoOp /\ new.state = "submitting"
    BY <1>2, <2>1, RowAdvances
  <2>. QED BY <2>2 DEF new, Recoverable
<1>7. PlanFits(r)'
  BY <1>3 DEF PlanFits
<1>8. \A q, m, c : Books(q, m, c) => Books(q, m, c)'
  BY SameBooks
<1>. QED BY <1>2, <1>3, <1>4, <1>5, <1>6, <1>7, <1>8, TurnKeeps

\* What a refund takes of each tip of its payer: no more than it has.
LEMMA RefundPlanFits ==
    ASSUME HoldTypeOK, NEW r \in RefundReqs, NEW n \in Int, NEW t \in Tips
    PROVE  /\ RefundPlan(r, n)[t] \in Nat
           /\ RefundPlan(r, n)[t] > 0 => status[t] = "held" /\ RefundPlan(r, n)[t] <= units[t]
<1>. DEFINE before == {s \in PayersTips(r) : s < t}
<1>1. before \in SUBSET Tips /\ PayersTips(r) \subseteq HeldTips
  BY DEF PayersTips, HeldTips
<1>2. Total(units, before) \in Nat
  <2>1. IsFiniteSet(before) /\ \A s \in before : units[s] \in Nat
    BY <1>1, TipsAreFinite DEF HoldTypeOK
  <2>. HIDE DEF before
  <2>. QED BY <2>1, TotalNat
<1>3. RefundPlan(r, n)[t] = IF t \notin PayersTips(r) THEN 0
                            ELSE Least(units[t], Most(0, n - Total(units, before)))
  BY DEF RefundPlan
<1>. HIDE DEF before
<1>4. Most(0, n - Total(units, before)) \in Nat
  BY <1>2 DEF Most
<1>5. units[t] \in Nat
  BY DEF HoldTypeOK
<1>. QED BY <1>1, <1>3, <1>4, <1>5 DEF Least, HeldTips

LEMMA SnapshotClaimTurn ==
    ASSUME MoneyInv, NothingSentYet', NEW r \in HoldReqs, SnapshotClaim(r) PROVE MoneyInv'
<1>1. /\ UNCHANGED <<status, units, fee, credit, settling, withdrawCost, box, authorization, tx,
                     paidOut, feeOut, refundsOf, faults>>
      /\ UNCHANGED <<ledgerVars, chainVars, gatewayVars>>
  BY DEF SnapshotClaim, ledgerVars, gatewayVars, chainVars
<1>2. CASE Dismiss(r, "reserved")
  <2>1. HoldTypeOK'
    BY <1>1, <1>2 DEF MoneyInv, HoldTypeOK, Dismiss, HoldStep, NoPlan
  <2>. QED BY <1>1, <1>2, <2>1, DismissTurn
<1>. DEFINE p == [t \in Tips |-> IF t \in HeldTips THEN units[t] ELSE 0]
<1>3. CASE HeldTips # {} /\ Submit(r, p, HeldTips)
  <2>1. /\ p \in [Tips -> Nat]
        /\ \A t \in Tips : p[t] > 0 => status[t] = "held" /\ p[t] = units[t] /\ p[t] <= units[t]
    BY DEF MoneyInv, HoldTypeOK, HeldTips
  <2>2. p # NoPlan
    <3>1. PICK t \in Tips : t \in HeldTips
      BY <1>3 DEF HeldTips
    <3>2. p[t] > 0 /\ NoPlan[t] = 0
      BY <3>1 DEF MoneyInv, RowsFit, NoPlan
    <3>. QED BY <3>2
  <2>. HIDE DEF p
  <2>3. op' \in OpRow
    <3>1. holdPc[r] = "reserved" /\ op' = [op EXCEPT !.state = "submitting"]
      BY <1>3 DEF Submit, HoldStep
    <3>2. op \in OpRow
      BY <3>1, OwnRow DEF Engaged, Working
    <3>. DEFINE new == op'
    <3>3. new = [op EXCEPT !.state = "submitting"]
      BY <3>1
    <3>. HIDE DEF new
    <3>4. new \in OpRow
      BY <3>2, <3>3, RowAdvances
    <3>. QED BY <3>4 DEF new
  <2>4. HoldTypeOK'
    <3>1. plan' = [plan EXCEPT ![r] = p] /\ \E to \in {"collect", "broadcast"} :
             holdPc' = [holdPc EXCEPT ![r] = to]
      BY <1>3 DEF Submit, HoldStep
    <3>. QED BY <1>1, <2>1, <2>3, <3>1 DEF MoneyInv, HoldTypeOK
  <2>. QED BY <1>1, <1>3, <2>1, <2>2, <2>4, SubmitTurn
<1>. QED BY <1>2, <1>3 DEF SnapshotClaim

LEMMA SnapshotRefundTurn ==
    ASSUME MoneyInv, NothingSentYet', NEW r \in HoldReqs, SnapshotRefund(r) PROVE MoneyInv'
<1>. DEFINE asked == RefundAsked(r)
            p == RefundPlan(r, asked)
<1>1. /\ UNCHANGED <<status, units, fee, credit, settling, withdrawCost, box, tx,
                     paidOut, feeOut, refundsOf, faults>>
      /\ UNCHANGED <<ledgerVars, chainVars, gatewayVars>>
      /\ r \in RefundReqs /\ r \notin ClaimReqs
      /\ authorization' \in {authorization, [authorization EXCEPT ![DigestOf[r]] = "used"]}
  BY TipsAssumption DEF SnapshotRefund, ledgerVars, gatewayVars, chainVars
<1>2. CASE Dismiss(r, "reserved")
  <2>1. HoldTypeOK'
    BY <1>1, <1>2 DEF MoneyInv, HoldTypeOK, Dismiss, HoldStep, NoPlan
  <2>. QED BY <1>1, <1>2, <2>1, DismissTurn
<1>3. CASE asked \in 1..Total(units, PayersTips(r)) /\ Submit(r, p, PayersTips(r))
  <2>1. p \in [Tips -> Nat] /\ \A t \in Tips : p[t] > 0 => status[t] = "held" /\ p[t] <= units[t]
    <3>1. asked \in Int
      BY <1>3
    <3>. HIDE DEF asked
    <3>2. \A t \in Tips : p[t] \in Nat /\ (p[t] > 0 => status[t] = "held" /\ p[t] <= units[t])
      BY <1>1, <3>1, RefundPlanFits DEF MoneyInv
    <3>3. p = [t \in Tips |-> p[t]]
      BY DEF RefundPlan
    <3>. QED BY <3>2, <3>3
  <2>. HIDE DEF p
  <2>2. op' \in OpRow
    <3>1. holdPc[r] = "reserved" /\ op' = [op EXCEPT !.state = "submitting"]
      BY <1>3 DEF Submit, HoldStep
    <3>2. op \in OpRow
      BY <3>1, OwnRow DEF Engaged, Working
    <3>. DEFINE new == op'
    <3>3. new = [op EXCEPT !.state = "submitting"]
      BY <3>1
    <3>. HIDE DEF new
    <3>4. new \in OpRow
      BY <3>2, <3>3, RowAdvances
    <3>. QED BY <3>4 DEF new
  <2>3. HoldTypeOK'
    <3>1. plan' = [plan EXCEPT ![r] = p] /\ \E to \in {"collect", "broadcast"} :
             holdPc' = [holdPc EXCEPT ![r] = to]
      BY <1>3 DEF Submit, HoldStep
    <3>. QED BY <1>1, <2>1, <2>2, <3>1 DEF MoneyInv, HoldTypeOK
  <2>. QED BY <1>1, <1>3, <2>1, <2>3, SubmitTurn
<1>. QED BY <1>2, <1>3 DEF SnapshotRefund

LEMMA PendingTurn ==
    ASSUME MoneyInv, NothingSentYet', NEW r \in HoldReqs, PendingSettlement(r) PROVE MoneyInv'
<1>1. /\ UNCHANGED <<status, units, fee, credit, settling, withdrawCost, box, tx,
                     paidOut, feeOut, refundsOf>>
      /\ UNCHANGED <<ledgerVars, chainVars, gatewayVars>> /\ Dismiss(r, "collect")
      /\ authorization' = [d \in Digests |->
           IF r \in RefundReqs /\ d = DigestOf[r] THEN "none" ELSE authorization[d]]
      /\ faults' \in {faults} \cup {faults + 1} /\ (faults' # faults => faults < MaxFaults)
  BY DEF PendingSettlement, Fault, ledgerVars, gatewayVars, chainVars
<1>2. HoldTypeOK'
  <2>1. faults' \in 0..MaxFaults
    BY <1>1, TipsAssumption DEF MoneyInv, HoldTypeOK
  <2>. QED BY <1>1, <2>1 DEF MoneyInv, HoldTypeOK, Dismiss, HoldStep, NoPlan
<1>. QED BY <1>1, <1>2, DismissTurn

LEMMA BroadcastTurn ==
    ASSUME MoneyInv, NothingSentYet', NEW r \in HoldReqs, Broadcast(r) \/ BroadcastLost(r)
    PROVE  MoneyInv'
<1>. DEFINE sent == [state |-> "sent", moved |-> 0]
<1>1. /\ holdPc[r] = "broadcast" /\ \E to \in {"sent", "idle"} : holdPc' = [holdPc EXCEPT ![r] = to]
      /\ tx' = [tx EXCEPT ![r] = sent]
      /\ UNCHANGED <<status, units, fee, credit, settling, withdrawCost, box, pinned,
                     authorization, plan, paidOut, feeOut, refundsOf>>
      /\ UNCHANGED <<ledgerVars, chainVars, gatewayVars>>
      /\ faults' \in {faults} \cup {faults + 1} /\ (faults' # faults => faults < MaxFaults)
  BY DEF Broadcast, BroadcastLost, HoldStep, Fault, NoTx, ledgerVars, gatewayVars, chainVars
<1>2. Engaged(r) /\ tx[r] = NoTx /\ op \in OpRow
  BY <1>1, OwnRow DEF Engaged, Working, MoneyInv, NothingSentYet
<1>3. op' \in OpRow /\ op' # NoOp /\ ~Recoverable'
  <2>. DEFINE new == op'
  <2>1. \/ new = [op EXCEPT !.state = "submitted", !.hash = TRUE]
        \/ \E hash \in BOOLEAN :
             new = [op EXCEPT !.state = "reconcile", !.why = "other", !.hash = hash]
    BY DEF Broadcast, BroadcastLost, Reconcile
  <2>. HIDE DEF new
  <2>2. new \in OpRow /\ new # NoOp /\ (new.state = "submitted" \/ new.why = "other")
    BY <1>2, <2>1, RowAdvances, RowFails
  <2>. QED BY <2>2 DEF new, Recoverable
<1>4. HoldTypeOK'
  <2>1. faults' \in 0..MaxFaults
    BY <1>1, TipsAssumption DEF MoneyInv, HoldTypeOK
  <2>. QED BY <1>1, <1>3, <2>1 DEF MoneyInv, HoldTypeOK
<1>5. /\ \A s \in HoldReqs \ {r} :
           holdPc'[s] = holdPc[s] /\ tx'[s] = tx[s] /\ plan'[s] = plan[s]
      /\ holdPc'[r] \in {"sent", "idle"} /\ tx'[r] = sent
  BY <1>1 DEF MoneyInv, HoldTypeOK
<1>6. ~Landed(r) /\ ~Landed(r)'
  BY <1>2, <1>5 DEF Landed, NoTx
<1>7. RowsFit'
  BY <1>1 DEF MoneyInv, RowsFit
<1>8. PlanFits(r)'
  BY <1>1, <1>2 DEF MoneyInv, PlansFit, PlanFits
<1>9. \A p, m, c : Books(p, m, c) => Books(p, m, c)'
  BY <1>1, SameBooks
<1>. QED BY <1>1, <1>2, <1>3, <1>4, <1>5, <1>6, <1>7, <1>8, <1>9, TurnKeeps

LEMMA RevertTurn ==
    ASSUME MoneyInv, NothingSentYet', NEW r \in HoldReqs, Revert(r) PROVE MoneyInv'
<1>1. /\ tx[r].state = "sent" /\ tx' = [tx EXCEPT ![r] = [state |-> "reverted", moved |-> 0]]
      /\ UNCHANGED <<status, units, fee, credit, settling, withdrawCost, box, op, pinned,
                     authorization, holdPc, plan, paidOut, feeOut, refundsOf, faults>>
      /\ UNCHANGED <<ledgerVars, chainVars, gatewayVars>>
  <2>1. [NoTx EXCEPT !.state = "reverted"] = [state |-> "reverted", moved |-> 0]
    BY DEF NoTx
  <2>. QED BY <2>1 DEF Revert, ledgerVars, gatewayVars, chainVars
<1>2. Engaged(r) /\ op # NoOp /\ ~Recoverable
  BY <1>1, OwnRow DEF Engaged
<1>3. op' # NoOp /\ ~Recoverable'
  BY <1>1, <1>2 DEF Recoverable
<1>4. HoldTypeOK'
  BY <1>1 DEF MoneyInv, HoldTypeOK
<1>5. /\ \A s \in HoldReqs \ {r} :
           holdPc'[s] = holdPc[s] /\ tx'[s] = tx[s] /\ plan'[s] = plan[s]
      /\ tx'[r] = [state |-> "reverted", moved |-> 0]
  BY <1>1 DEF MoneyInv, HoldTypeOK
<1>6. ~Landed(r) /\ ~Landed(r)'
  BY <1>1, <1>5 DEF Landed
<1>7. RowsFit'
  BY <1>1 DEF MoneyInv, RowsFit
<1>8. holdPc[r] # "reserved" => PlanFits(r)'
  BY <1>1, <1>2 DEF MoneyInv, PlansFit, PlanFits
<1>9. holdPc[r] # "confirmed"
  <2>1. holdPc[r] = "confirmed" => tx[r] = [state |-> "landed", moved |-> Expected(r)]
    BY DEF MoneyInv, ConfirmedMatch, ReceiptMatches
  <2>. QED BY <1>1, <2>1
<1>10. \A p, m, c : Books(p, m, c) => Books(p, m, c)'
  BY <1>1, SameBooks
<1>. QED BY <1>1, <1>2, <1>3, <1>4, <1>5, <1>6, <1>7, <1>8, <1>9, <1>10, TurnKeeps

-----------------------------------------------------------------------------
(* Landing *)

\* A plan is a function of natural numbers, and so is what it adds up to.
LEMMA ExpectedIsNat == ASSUME HoldTypeOK, NEW r \in HoldReqs PROVE Expected(r) \in Nat
<1>1. IsFiniteSet(Tips) /\ \A t \in Tips : plan[r][t] \in Nat
  BY TipsAreFinite DEF HoldTypeOK
<1>. DEFINE p == plan[r]
<1>2. \A t \in Tips : p[t] \in Nat
  BY <1>1
<1>. HIDE DEF p
<1>3. Total(p, Tips) \in Nat
  BY <1>1, <1>2, TotalNat
<1>. QED BY <1>3 DEF Expected, p

\* The cut of an amount is a natural number.
LEMMA CutIsNat == ASSUME NEW n \in Nat PROVE Cut(n) \in Nat
<1>1. HoldingBps \in Nat
  BY TipsAssumption
<1>2. n * HoldingBps \in Nat
  BY <1>1
<1>3. \A k \in Nat : k \div 10000 \in Nat
  OBVIOUS
<1>. QED BY <1>2, <1>3 DEF Cut

\* A transaction moves m of the box and a fee of c for its plan.
LEMMA LandTurn ==
    ASSUME MoneyInv, NothingSentYet', HoldTypeOK', NEW r \in HoldReqs, tx[r].state = "sent",
           NEW m \in Nat, NEW c \in Nat, m <= box, box' = box - m, feeOut' = feeOut + c,
           r \in ClaimReqs => c = Cut(m), r \notin ClaimReqs => m <= Expected(r) /\ c = 0,
           tx' = [tx EXCEPT ![r] = [state |-> "landed", moved |-> m]],
           paidOut' = [t \in Tips |-> paidOut[t] + plan[r][t]],
           UNCHANGED <<status, units, fee, credit, settling, withdrawCost, op, holdPc, plan>>
    PROVE  MoneyInv'
<1>1. /\ \A s \in HoldReqs \ {r} : tx'[s] = tx[s]
      /\ tx'[r] = [state |-> "landed", moved |-> m]
  BY DEF MoneyInv, HoldTypeOK
<1>2. Engaged(r) /\ \A s \in HoldReqs : Engaged(s) => s = r
  BY DEF MoneyInv, Exclusive, Engaged
<1>3. \A s \in HoldReqs : ~Landed(s) /\ (Landed(s)' => s = r) /\ (Engaged(s)' => Engaged(s))
  BY <1>1, <1>2 DEF Engaged, Working, Landed
<1>4. holdPc[r] # "reserved" /\ holdPc[r] # "confirmed"
  <2>1. holdPc[r] = "reserved" => tx[r] = [state |-> "none", moved |-> 0]
    BY DEF MoneyInv, NothingSentYet, NoTx
  <2>2. holdPc[r] = "confirmed" => tx[r] = [state |-> "landed", moved |-> Expected(r)]
    BY DEF MoneyInv, ConfirmedMatch, ReceiptMatches
  <2>. QED BY <2>1, <2>2
<1>5. RowsFit' /\ PlansFit' /\ Exclusive'
  <2>1. RowsFit'
    BY DEF MoneyInv, RowsFit
  <2>2. PlansFit'
    BY <1>3 DEF MoneyInv, PlansFit, PlanFits
  <2>3. Exclusive'
    BY <1>3 DEF MoneyInv, Exclusive, Recoverable
  <2>. QED BY <2>1, <2>2, <2>3
<1>6. ConfirmedMatch'
  <2>1. ASSUME NEW s \in HoldReqs, holdPc'[s] = "confirmed" PROVE ReceiptMatches(s)'
    BY <1>1, <1>4, <2>1 DEF MoneyInv, ConfirmedMatch, ReceiptMatches, Expected
  <2>. QED BY <2>1 DEF ConfirmedMatch
<1>7. Books(NoPlan, 0, 0)
  BY <1>3 DEF MoneyInv, BooksKept
<1>8. OwedNow' = OwedNow /\ \A t \in Tips : Owed(t)' = Owed(t)
  BY DEF OwedNow, Owed
<1>9. ASSUME NEW p, \A t \in Tips : p[t] = plan[r][t] PROVE Books(p, m, c)'
  <2>1. \A t \in Tips : paidOut'[t] + Owed(t)' = UnitsOf[t] + p[t]
    <3>. SUFFICES ASSUME NEW t \in Tips PROVE paidOut'[t] + Owed(t)' = UnitsOf[t] + p[t]
      OBVIOUS
    <3>1. paidOut[t] + Owed(t) = UnitsOf[t] + 0 /\ paidOut'[t] = paidOut[t] + plan[r][t]
      BY <1>7 DEF Books, NoPlan
    <3>2. paidOut[t] \in Nat /\ Owed(t) \in Nat /\ UnitsOf[t] \in Nat /\ plan[r][t] \in Nat
      BY OwedIsNat, TipsAssumption DEF MoneyInv, HoldTypeOK
    <3>. QED BY <1>8, <1>9, <3>1, <3>2
  <2>2. box' + credit' + Total(UnitsOf, settling') + withdrawCost' + m = Total(OwedNow', Tips)
    <3>1. box + credit + Total(UnitsOf, settling) + withdrawCost + 0 = Total(OwedNow, Tips)
      BY <1>7 DEF Books
    <3>2. /\ box \in Nat /\ credit \in Nat /\ withdrawCost \in Nat
          /\ Total(UnitsOf, settling) \in Nat
      BY TipsAreFinite DEF MoneyInv, HoldTypeOK
    <3>. QED BY <1>8, <3>1, <3>2
  <2>3. Total(fee', Tips) + c = feeOut'
    <3>1. Total(fee, Tips) + 0 = feeOut /\ feeOut \in Nat /\ fee' = fee
      BY <1>7 DEF Books, MoneyInv, HoldTypeOK
    <3>2. IsFiniteSet(Tips) /\ \A t \in Tips : fee[t] \in Nat
      BY TipsAreFinite DEF MoneyInv, HoldTypeOK
    <3>3. Total(fee, Tips) \in Nat
      BY <3>2, TotalNat
    <3>. QED BY <3>1, <3>3
  <2>. QED BY <2>1, <2>2, <2>3 DEF Books
<1>10. BooksKept'
  <2>1. ASSUME NEW s \in HoldReqs, Landed(s)' PROVE Books(plan[s], tx[s].moved, FeeOf(s))'
    <3>. DEFINE p == plan[r]
                n == tx[r].moved
                f == FeeOf(r)
    <3>1. s = r /\ p' = p /\ n' = m /\ f' = c
      BY <1>1, <1>3, <2>1 DEF FeeOf
    <3>2. Books(p, m, c)'
      BY <1>9
    <3>. QED BY <3>1, <3>2
  <2>2. CASE plan[r] = NoPlan
    <3>1. r \notin ClaimReqs
      BY <1>2, <1>4, <2>2 DEF MoneyInv, PlansFit, PlanFits
    <3>2. \A t \in Tips : NoPlan[t] = plan[r][t] /\ NoPlan[t] = 0
      BY <2>2 DEF NoPlan
    <3>3. Expected(r) = 0
      BY <2>2, <3>2, TotalZero, TipsAreFinite DEF Expected
    <3>4. m = 0 /\ c = 0
      BY <3>1, <3>3
    <3>5. Books(NoPlan, m, c)'
      BY <1>9, <3>2
    <3>. QED BY <2>1, <3>4, <3>5 DEF BooksKept
  <2>3. CASE plan[r] # NoPlan
    <3>1. Landed(r)'
      BY <1>1, <2>3 DEF Landed
    <3>. QED BY <2>1, <3>1 DEF BooksKept
  <2>. QED BY <2>2, <2>3
<1>. QED BY <1>5, <1>6, <1>10 DEF MoneyInv

LEMMA LandsTurn ==
    ASSUME MoneyInv, NothingSentYet', NEW r \in HoldReqs, LandRelease(r) \/ LandRefund(r)
    PROVE  MoneyInv'
<1>1. /\ box \in Nat /\ feeOut \in Nat /\ Cut(box) \in Nat /\ Expected(r) \in Nat
      /\ Least(Expected(r), box) \in Nat /\ Least(Expected(r), box) <= box
      /\ Least(Expected(r), box) <= Expected(r)
  <2>1. box \in Nat /\ feeOut \in Nat /\ Expected(r) \in Nat
    BY ExpectedIsNat DEF MoneyInv, HoldTypeOK
  <2>. QED BY <2>1, CutIsNat DEF Least
<1>2. /\ tx[r].state = "sent" /\ paidOut' = [t \in Tips |-> paidOut[t] + plan[r][t]]
      /\ UNCHANGED <<status, units, fee, credit, settling, withdrawCost, op, pinned,
                     authorization, holdPc, plan, faults>>
      /\ refundsOf' \in {refundsOf, [refundsOf EXCEPT ![DigestOf[r]] = @ + 1]}
  BY DEF LandRelease, LandRefund, ledgerVars, gatewayVars
<1>3. PICK m \in Nat, c \in Nat :
        /\ m <= box /\ box' = box - m /\ feeOut' = feeOut + c
        /\ tx' = [tx EXCEPT ![r] = [state |-> "landed", moved |-> m]]
        /\ r \in ClaimReqs => c = Cut(m)
        /\ r \notin ClaimReqs => m <= Expected(r) /\ c = 0
  <2>1. CASE LandRelease(r)
    <3>1. /\ r \in ClaimReqs /\ box' = 0 /\ feeOut' = feeOut + Cut(box)
          /\ tx' = [tx EXCEPT ![r] = [state |-> "landed", moved |-> box]]
      BY <2>1 DEF LandRelease
    <3>2. box' = box - box /\ box <= box
      BY <1>1, <3>1
    <3>3. box \in Nat /\ Cut(box) \in Nat
      BY <1>1
    <3>. QED
      <4>. USE <3>3
      <4>. WITNESS box \in Nat, Cut(box) \in Nat
      <4>. QED BY <3>1, <3>2
  <2>2. CASE LandRefund(r)
    <3>. DEFINE m == Least(Expected(r), box)
    <3>1. /\ r \notin ClaimReqs /\ box' = box - m /\ feeOut' = feeOut
          /\ tx' = [tx EXCEPT ![r] = [state |-> "landed", moved |-> m]]
      BY <2>2, TipsAssumption DEF LandRefund
    <3>2. feeOut' = feeOut + 0 /\ m \in Nat /\ m <= box /\ m <= Expected(r)
      BY <1>1, <3>1
    <3>. HIDE DEF m
    <3>. QED BY <3>1, <3>2
  <2>. QED BY <2>1, <2>2
<1>4. paidOut' \in [Tips -> Nat]
  BY <1>2 DEF MoneyInv, HoldTypeOK
<1>5. refundsOf' \in [Digests -> Nat]
  BY <1>2 DEF MoneyInv, HoldTypeOK
<1>6. tx' \in [HoldReqs -> [state : {"none", "sent", "landed", "reverted"}, moved : Nat]]
  BY <1>3 DEF MoneyInv, HoldTypeOK
<1>7. box' \in Nat /\ feeOut' \in Nat
  BY <1>1, <1>3
<1>8. HoldTypeOK'
  BY <1>2, <1>4, <1>5, <1>6, <1>7 DEF MoneyInv, HoldTypeOK
<1>. QED BY <1>2, <1>3, <1>8, LandTurn

-----------------------------------------------------------------------------
(* The cut of a release, shared out *)

\* Shares of a part of a cut are no more than the cut.
LEMMA SharesFit ==
    ASSUME NEW P, IsFiniteSet(P), NEW w, \A s \in P : w[s] \in Nat, NEW n \in Nat, n > 0,
           n = Total(w, P), NEW cut \in Nat, NEW share,
           \A s \in P : share[s] = (w[s] * cut) \div n
    PROVE  (\A s \in P : share[s] \in Nat) /\ Total(share, P) <= cut
<1>. DEFINE part == [s \in P |-> cut * w[s]]
            most == [s \in P |-> n * share[s]]
<1>1. \A a, b \in Nat : b > 0 => a \div b \in Nat /\ b * (a \div b) <= a
  OBVIOUS
<1>2. \A s \in P : w[s] * cut \in Nat /\ w[s] * cut = cut * w[s]
  OBVIOUS
<1>3. \A s \in P : share[s] \in Nat /\ n * share[s] <= cut * w[s]
  BY <1>1, <1>2
<1>4. IntOn(share, P) /\ IntOn(w, P)
  BY <1>3 DEF IntOn
<1>5. IntOn(part, P) /\ IntOn(most, P) /\ \A s \in P : most[s] <= part[s]
  BY <1>3 DEF IntOn
<1>6. (\A s \in P : part[s] = cut * w[s]) /\ \A s \in P : most[s] = n * share[s]
  OBVIOUS
<1>. HIDE DEF part, most
<1>7. Total(part, P) = cut * Total(w, P) /\ Total(most, P) = n * Total(share, P)
  BY <1>4, <1>6, TotalScale
<1>8. Total(most, P) <= Total(part, P)
  BY <1>5, TotalMonotone
<1>9. Total(share, P) \in Nat
  BY <1>3, TotalNat
<1>10. n * Total(share, P) <= n * cut
  BY <1>7, <1>8
<1>11. \A k \in Nat : n * k <= n * cut => k <= cut
  OBVIOUS
<1>. QED BY <1>3, <1>9, <1>10, <1>11

\* The fees booked on the tips of a release are natural numbers and add up to its cut.
LEMMA FeeSharesAddUp ==
    ASSUME HoldTypeOK, NEW r \in HoldReqs, plan[r] # NoPlan,
           NEW g, \A t \in Tips : g[t] = IF t \in Planned(r) THEN FeeShare(r, t) ELSE 0
    PROVE  (\A t \in Tips : g[t] \in Nat) /\ Total(g, Tips) = Cut(Expected(r))
<1>. DEFINE P == Planned(r)
            w == plan[r]
            n == Expected(r)
            cut == Cut(n)
            share == [s \in P |-> (w[s] * cut) \div n]
            last == CHOOSE s \in P : \A u \in P : u <= s
<1>1. /\ IsFiniteSet(Tips) /\ IsFiniteSet(P) /\ P \in SUBSET Tips /\ P \subseteq Int
      /\ \A t \in Tips : w[t] \in Nat
  <2>1. P \in SUBSET Tips
    BY DEF Planned
  <2>2. IsFiniteSet(Tips) /\ Tips \subseteq Int
    BY TipsAssumption
  <2>3. \A t \in Tips : w[t] \in Nat
    BY DEF HoldTypeOK
  <2>. HIDE DEF P
  <2>. QED BY <2>1, <2>2, <2>3, FS_Subset
<1>2. \A t \in Tips \ P : w[t] = 0
  BY <1>1 DEF Planned
<1>3. P # {}
  <2>1. w = [t \in Tips |-> w[t]]
    BY DEF HoldTypeOK
  <2>2. P = {} => w = NoPlan
    BY <1>2, <2>1 DEF NoPlan
  <2>. QED BY <2>2
<1>4. last \in P
  BY <1>1, <1>3, Greatest
<1>5. \A t \in P : FeeShare(r, t) = IF t # last THEN share[t] ELSE cut - Total(share, P \ {last})
  BY DEF FeeShare
<1>6. n = Total(w, P) /\ n \in Nat /\ cut \in Nat
  <2>1. n = Total(w, Tips)
    BY DEF Expected
  <2>2. n \in Nat /\ cut \in Nat
    BY ExpectedIsNat, CutIsNat
  <2>. HIDE DEF P, w, n, cut
  <2>3. IntOn(w, Tips) /\ \A t \in P : w[t] \in Nat
    BY <1>1 DEF IntOn
  <2>4. Total(w, Tips) = Total(w, P) + Total(w, Tips \ P)
    <3>1. IsFiniteSet(Tips) /\ IntOn(w, Tips) /\ P \in SUBSET Tips
      BY <1>1, <2>3
    <3>. QED BY <3>1, TotalSplit
  <2>5. Total(w, Tips \ P) = 0
    BY <1>1, <1>2, FS_Subset, TotalZero
  <2>6. Total(w, P) \in Nat
    BY <1>1, <2>3, TotalNat
  <2>. QED BY <2>1, <2>2, <2>4, <2>5, <2>6
<1>7. w[last] > 0 /\ w[last] \in Nat
  BY <1>1, <1>4 DEF Planned
<1>8. \A t \in P : g[t] = FeeShare(r, t)
  BY <1>1
<1>9. \A t \in Tips \ P : g[t] = 0
  OBVIOUS
<1>10. \A s \in P : share[s] = (w[s] * cut) \div n
  OBVIOUS
<1>. HIDE DEF P, w, n, cut, share, last
<1>11. n > 0
  <2>1. IntOn(w, P)
    BY <1>1 DEF IntOn
  <2>2. Total(w, P) = w[last] + Total(w, P \ {last})
    BY <1>1, <1>4, <2>1, TotalRemove
  <2>3. IsFiniteSet(P \ {last}) /\ \A t \in P \ {last} : w[t] \in Nat
    BY <1>1, FS_Subset
  <2>4. Total(w, P \ {last}) \in Nat
    BY <2>3, TotalNat
  <2>. QED BY <1>6, <1>7, <2>2, <2>4
<1>12. (\A s \in P : share[s] \in Nat) /\ Total(share, P) <= cut
  <2>1. \A s \in P : w[s] \in Nat
    BY <1>1
  <2>. QED BY <1>1, <1>6, <1>10, <1>11, <2>1, SharesFit
<1>. DEFINE rest == P \ {last}
<1>13. /\ IsFiniteSet(rest) /\ Total(share, rest) \in Nat /\ Total(share, rest) <= cut
  <2>1. IsFiniteSet(rest) /\ rest \in SUBSET P /\ \A s \in rest : share[s] \in Nat
    BY <1>1, <1>12, FS_Subset
  <2>. HIDE DEF rest
  <2>2. Total(share, rest) \in Nat /\ Total(share, P) \in Nat
    BY <1>1, <1>12, <2>1, TotalNat
  <2>3. Total(share, rest) <= Total(share, P)
    BY <1>1, <1>12, <2>1, TotalSubset
  <2>. QED BY <1>6, <1>12, <2>1, <2>2, <2>3
<1>14. g[last] = cut - Total(share, rest) /\ \A t \in rest : g[t] = share[t]
  BY <1>4, <1>5, <1>8
<1>15. \A t \in Tips : g[t] \in Nat
  BY <1>6, <1>9, <1>12, <1>13, <1>14
<1>16. Total(g, Tips) = Total(g, P) /\ Total(g, P) = g[last] + Total(g, rest)
  <2>1. IntOn(g, Tips) /\ IntOn(g, P)
    BY <1>1, <1>15 DEF IntOn
  <2>2. Total(g, Tips) = Total(g, P) + Total(g, Tips \ P)
    <3>1. IsFiniteSet(Tips) /\ IntOn(g, Tips) /\ P \in SUBSET Tips
      BY <1>1, <2>1
    <3>. QED BY <3>1, TotalSplit
  <2>3. Total(g, Tips \ P) = 0
    BY <1>1, <1>9, FS_Subset, TotalZero
  <2>4. Total(g, P) = g[last] + Total(g, rest) /\ Total(g, P) \in Int
    BY <1>1, <1>4, <2>1, TotalRemove, TotalInt
  <2>. QED BY <2>2, <2>3, <2>4
<1>17. Total(g, rest) = Total(share, rest)
  <2>1. IntOn(share, rest)
    BY <1>12 DEF IntOn
  <2>. HIDE DEF rest
  <2>. QED BY <1>13, <1>14, <2>1, TotalSame
<1>18. Total(g, Tips) = cut
  BY <1>6, <1>13, <1>14, <1>16, <1>17
<1>. QED BY <1>15, <1>18 DEF cut, n

-----------------------------------------------------------------------------
(* The final transaction *)

\* A request that confirmed its receipt is alone, and the books differ by its plan.
LEMMA Confirmed ==
    ASSUME MoneyInv, NEW r \in HoldReqs, holdPc[r] = "confirmed"
    PROVE  /\ PlanFits(r) /\ Expected(r) \in Nat
           /\ \A s \in HoldReqs : Engaged(s) => s = r
           /\ Books(plan[r], Expected(r), IF r \in ClaimReqs THEN Cut(Expected(r)) ELSE 0)
<1>1. Engaged(r) /\ \A s \in HoldReqs : Engaged(s) => s = r
  BY DEF MoneyInv, Exclusive, Engaged, Working
<1>2. PlanFits(r) /\ Expected(r) \in Nat
  BY <1>1, ExpectedIsNat DEF MoneyInv, PlansFit
<1>3. tx[r] = [state |-> "landed", moved |-> Expected(r)]
  BY DEF MoneyInv, ConfirmedMatch, ReceiptMatches
<1>4. CASE plan[r] # NoPlan
  BY <1>1, <1>2, <1>3, <1>4 DEF MoneyInv, BooksKept, Landed, FeeOf
<1>5. CASE plan[r] = NoPlan
  <2>1. r \notin ClaimReqs
    BY <1>2, <1>5 DEF PlanFits
  <2>2. Books(NoPlan, 0, 0)
    BY <1>1, <1>5 DEF MoneyInv, BooksKept, Engaged, Landed
  <2>3. \A t \in Tips : NoPlan[t] = 0
    BY DEF NoPlan
  <2>4. Expected(r) = 0
    BY <1>5, <2>3, TotalZero, TipsAreFinite DEF Expected
  <2>. QED BY <1>1, <1>2, <1>5, <2>1, <2>2, <2>4
<1>. QED BY <1>4, <1>5

\* What a final transaction does to the rows of the tips, and why the books then agree.
LEMMA FinalTurn ==
    ASSUME MoneyInv, NothingSentYet', HoldTypeOK', RowsFit', NEW r \in HoldReqs,
           Dismiss(r, "confirmed"), UNCHANGED <<tx, box, credit, settling, withdrawCost, paidOut, feeOut>>,
           \A t \in Tips : /\ status'[t] = "unpaid" <=> status[t] = "unpaid"
                          /\ Owed(t)' = Owed(t) - plan[r][t],
           NEW c \in Int, c = IF r \in ClaimReqs THEN Cut(Expected(r)) ELSE 0,
           Total(fee', Tips) = Total(fee, Tips) + c
    PROVE  MoneyInv'
<1>1. /\ holdPc[r] = "confirmed" /\ holdPc' = [holdPc EXCEPT ![r] = "idle"]
      /\ op' = NoOp /\ plan' = [plan EXCEPT ![r] = NoPlan]
  BY DEF Dismiss, HoldStep
<1>2. /\ Expected(r) \in Nat /\ Books(plan[r], Expected(r), c)
      /\ \A s \in HoldReqs : Engaged(s) => s = r
  BY <1>1, Confirmed
<1>3. /\ \A s \in HoldReqs \ {r} : holdPc'[s] = holdPc[s] /\ plan'[s] = plan[s]
      /\ holdPc'[r] = "idle" /\ plan'[r] = NoPlan
  BY <1>1 DEF MoneyInv, HoldTypeOK
<1>4. tx[r] = [state |-> "landed", moved |-> Expected(r)]
  BY <1>1 DEF MoneyInv, ConfirmedMatch, ReceiptMatches
<1>5. \A s \in HoldReqs : ~Engaged(s)' /\ ~Landed(s)' /\ holdPc'[s] # "confirmed"
  <2>1. ASSUME NEW s \in HoldReqs PROVE ~Engaged(s)'
    <3>1. CASE s = r
      BY <1>3, <1>4, <3>1 DEF Engaged, Working, Landed
    <3>2. CASE s # r
      BY <1>2, <1>3, <3>2 DEF Engaged, Working, Landed
    <3>. QED BY <3>1, <3>2
  <2>. QED BY <2>1 DEF Engaged, Working
<1>6. Exclusive' /\ PlansFit' /\ ConfirmedMatch'
  BY <1>5 DEF Exclusive, PlansFit, ConfirmedMatch
<1>7. Total(OwedNow, Tips) = Total(OwedNow', Tips) + Expected(r)
  <2>. DEFINE f == OwedNow
              g == OwedNow'
              p == plan[r]
  <2>1. \A t \in Tips : g[t] \in Nat /\ p[t] \in Nat /\ f[t] = g[t] + p[t]
    <3>. SUFFICES ASSUME NEW t \in Tips PROVE g[t] \in Nat /\ p[t] \in Nat /\ f[t] = g[t] + p[t]
      OBVIOUS
    <3>1. Owed(t) \in Nat /\ p[t] \in Nat
      BY OwedIsNat DEF MoneyInv, HoldTypeOK
    <3>2. Owed(t)' \in Nat
      BY DEF HoldTypeOK, Owed
    <3>3. status[t] = "unpaid" => p[t] = 0
      <4>1. p[t] > 0 => status[t] = "held"
        BY <1>1, Confirmed DEF PlanFits
      <4>. QED BY <3>1, <4>1
    <3>4. /\ f[t] = IF status[t] = "unpaid" THEN 0 ELSE Owed(t)
          /\ g[t] = IF status'[t] = "unpaid" THEN 0 ELSE Owed(t)'
      BY DEF OwedNow
    <3>. HIDE DEF f, g, p
    <3>5. Owed(t)' = Owed(t) - p[t]
      BY DEF p
    <3>. QED BY <3>1, <3>2, <3>3, <3>4, <3>5
  <2>2. IsFiniteSet(Tips) /\ Expected(r) = Total(p, Tips)
    BY TipsAreFinite DEF Expected
  <2>. HIDE DEF f, g, p
  <2>3. IntOn(g, Tips) /\ IntOn(p, Tips) /\ \A t \in Tips : f[t] = g[t] + p[t]
    BY <2>1 DEF IntOn
  <2>4. Total(f, Tips) = Total(g, Tips) + Total(p, Tips)
    BY <2>2, <2>3, TotalPlus
  <2>. QED BY <2>2, <2>4 DEF f, g
<1>8. Books(NoPlan, 0, 0)'
  <2>1. \A t \in Tips : paidOut'[t] + Owed(t)' = UnitsOf[t] + NoPlan[t]
    <3>. SUFFICES ASSUME NEW t \in Tips PROVE paidOut'[t] + Owed(t)' = UnitsOf[t] + NoPlan[t]
      OBVIOUS
    <3>1. paidOut[t] + Owed(t) = UnitsOf[t] + plan[r][t] /\ NoPlan[t] = 0
      BY <1>2 DEF Books, NoPlan
    <3>2. paidOut[t] \in Nat /\ Owed(t) \in Nat /\ UnitsOf[t] \in Nat /\ plan[r][t] \in Nat
      BY OwedIsNat, TipsAssumption DEF MoneyInv, HoldTypeOK
    <3>. QED BY <3>1, <3>2
  <2>2. box' + credit' + Total(UnitsOf, settling') + withdrawCost' + 0 = Total(OwedNow', Tips)
    <3>1. box + credit + Total(UnitsOf, settling) + withdrawCost + Expected(r) = Total(OwedNow, Tips)
      BY <1>2 DEF Books
    <3>2. /\ box \in Nat /\ credit \in Nat /\ withdrawCost \in Nat
          /\ Total(UnitsOf, settling) \in Nat
      BY TipsAreFinite DEF MoneyInv, HoldTypeOK
    <3>. DEFINE g == OwedNow'
    <3>3. IsFiniteSet(Tips) /\ \A t \in Tips : g[t] \in Nat
      BY TipsAreFinite DEF HoldTypeOK, OwedNow, Owed
    <3>. HIDE DEF g
    <3>4. Total(g, Tips) \in Nat
      BY <3>3, TotalNat
    <3>5. Total(OwedNow', Tips) \in Nat
      BY <3>4 DEF g
    <3>. QED BY <1>2, <1>7, <3>1, <3>2, <3>5
  <2>3. Total(fee', Tips) + 0 = feeOut'
    <3>1. Total(fee, Tips) + c = feeOut
      BY <1>2 DEF Books
    <3>2. feeOut \in Nat
      BY DEF MoneyInv, HoldTypeOK
    <3>. QED BY <3>1, <3>2
  <2>. QED BY <2>1, <2>2, <2>3 DEF Books
<1>9. BooksKept'
  BY <1>5, <1>8 DEF BooksKept
<1>. QED BY <1>6, <1>9 DEF MoneyInv

LEMMA FinalizeClaimTurn ==
    ASSUME MoneyInv, NothingSentYet', NEW r \in HoldReqs, FinalizeClaim(r) PROVE MoneyInv'
<1>. DEFINE g == [t \in Tips |-> IF t \in Planned(r) THEN FeeShare(r, t) ELSE 0]
            c == Cut(Expected(r))
<1>1. /\ r \in ClaimReqs /\ Dismiss(r, "confirmed") /\ holdPc[r] = "confirmed"
      /\ status' = [t \in Tips |-> IF t \in Planned(r) THEN "released" ELSE status[t]]
      /\ fee' = [t \in Tips |-> IF t \in Planned(r) THEN FeeShare(r, t) ELSE fee[t]]
      /\ UNCHANGED <<units, credit, settling, withdrawCost, box, paidOut, feeOut, refundsOf,
                     pinned, authorization, tx, faults>>
  BY DEF FinalizeClaim, Dismiss, HoldStep, gatewayVars, chainVars
<1>2. PlanFits(r) /\ Expected(r) \in Nat /\ c \in Int
  BY <1>1, Confirmed, CutIsNat
<1>3. \A t \in Tips : t \in Planned(r) => /\ status[t] = "held" /\ plan[r][t] = units[t]
                                         /\ fee[t] = 0
  BY <1>1, <1>2 DEF PlanFits, Planned, MoneyInv, RowsFit
<1>4. \A t \in Tips : t \notin Planned(r) => plan[r][t] = 0
  BY DEF Planned, MoneyInv, HoldTypeOK
<1>5. (\A t \in Tips : g[t] \in Nat) /\ Total(g, Tips) = c
  <2>1. plan[r] # NoPlan /\ HoldTypeOK
    BY <1>1, <1>2 DEF PlanFits, MoneyInv
  <2>2. \A t \in Tips : g[t] = IF t \in Planned(r) THEN FeeShare(r, t) ELSE 0
    OBVIOUS
  <2>. HIDE DEF g
  <2>. QED BY <2>1, <2>2, FeeSharesAddUp
<1>6. fee' \in [Tips -> Nat]
  <2>1. \A t \in Tips : fee'[t] = IF t \in Planned(r) THEN g[t] ELSE fee[t]
    BY <1>1
  <2>2. \A t \in Tips : fee'[t] \in Nat
    BY <1>5, <2>1 DEF MoneyInv, HoldTypeOK
  <2>. QED BY <1>1, <2>2
<1>7. Total(fee', Tips) = Total(fee, Tips) + c
  <2>. DEFINE h == fee'
  <2>1. IsFiniteSet(Tips) /\ IntOn(g, Tips) /\ IntOn(fee, Tips)
    BY <1>5, TipsAreFinite DEF IntOn, MoneyInv, HoldTypeOK
  <2>2. \A t \in Tips : h[t] = fee[t] + g[t]
    <3>. SUFFICES ASSUME NEW t \in Tips PROVE h[t] = fee[t] + g[t]
      OBVIOUS
    <3>1. fee[t] \in Nat /\ g[t] \in Nat
      BY <1>5 DEF MoneyInv, HoldTypeOK
    <3>2. CASE t \in Planned(r)
      <4>1. h[t] = g[t] /\ fee[t] = 0
        BY <1>1, <1>3, <3>2
      <4>. QED BY <3>1, <4>1
    <3>3. CASE t \notin Planned(r)
      <4>1. h[t] = fee[t] /\ g[t] = 0
        BY <1>1, <3>3
      <4>. QED BY <3>1, <4>1
    <3>. QED BY <3>2, <3>3
  <2>. HIDE DEF g, h
  <2>3. Total(h, Tips) = Total(fee, Tips) + Total(g, Tips)
    BY <2>1, <2>2, TotalPlus
  <2>. QED BY <1>5, <2>3 DEF h
<1>8. \A t \in Tips : /\ status'[t] = "unpaid" <=> status[t] = "unpaid"
                     /\ Owed(t)' = Owed(t) - plan[r][t]
  <2>. SUFFICES ASSUME NEW t \in Tips
                PROVE  /\ status'[t] = "unpaid" <=> status[t] = "unpaid"
                       /\ Owed(t)' = Owed(t) - plan[r][t]
    OBVIOUS
  <2>1. units[t] \in Nat /\ Owed(t) \in Nat
    BY OwedIsNat DEF MoneyInv, HoldTypeOK
  <2>2. CASE t \in Planned(r)
    <3>1. status'[t] = "released" /\ status[t] = "held" /\ plan[r][t] = units[t]
      BY <1>1, <1>3, <2>2
    <3>2. Owed(t) = units[t] /\ Owed(t)' = 0
      BY <3>1 DEF Owed
    <3>. QED BY <2>1, <3>1, <3>2
  <2>3. CASE t \notin Planned(r)
    <3>1. status'[t] = status[t] /\ plan[r][t] = 0 /\ units' = units
      BY <1>1, <1>4, <2>3
    <3>2. Owed(t)' = Owed(t)
      BY <3>1 DEF Owed
    <3>. QED BY <2>1, <3>1, <3>2
  <2>. QED BY <2>2, <2>3
<1>9. RowsFit'
  <2>. SUFFICES ASSUME NEW t \in Tips
                PROVE  /\ units'[t] > 0
                       /\ status'[t] = "unpaid" => units'[t] = UnitsOf[t] /\ t \notin settling'
                       /\ status'[t] # "released" => fee'[t] = 0
    BY DEF RowsFit
  <2>1. status'[t] # "released" => status'[t] = status[t] /\ fee'[t] = fee[t]
    BY <1>1
  <2>. QED BY <1>1, <2>1 DEF MoneyInv, RowsFit
<1>10. HoldTypeOK'
  BY <1>1, <1>6 DEF MoneyInv, HoldTypeOK, Dismiss, HoldStep, NoPlan
<1>. HIDE DEF g
<1>. QED BY <1>1, <1>2, <1>7, <1>8, <1>9, <1>10, FinalTurn

LEMMA FinalizeRefundTurn ==
    ASSUME MoneyInv, NothingSentYet', NEW r \in HoldReqs, FinalizeRefund(r) PROVE MoneyInv'
<1>1. /\ r \notin ClaimReqs /\ Dismiss(r, "confirmed") /\ holdPc[r] = "confirmed"
      /\ status' = [t \in Tips |-> IF t \in Planned(r) /\ plan[r][t] = units[t]
                                  THEN "refunded" ELSE status[t]]
      /\ units' = [t \in Tips |-> IF plan[r][t] = units[t] THEN units[t]
                                 ELSE units[t] - plan[r][t]]
      /\ authorization' = [authorization EXCEPT ![DigestOf[r]] = "linked"]
      /\ UNCHANGED <<fee, credit, settling, withdrawCost, box, paidOut, feeOut, refundsOf,
                     pinned, tx, faults>>
  BY TipsAssumption DEF FinalizeRefund, Dismiss, HoldStep, gatewayVars, chainVars
<1>2. PlanFits(r)
  BY <1>1, Confirmed
<1>3. \A t \in Tips : /\ units[t] \in Nat /\ units[t] > 0 /\ plan[r][t] \in Nat
                     /\ plan[r][t] <= units[t] /\ (plan[r][t] > 0 => status[t] = "held")
  BY <1>2 DEF PlanFits, MoneyInv, HoldTypeOK, RowsFit
<1>4. ASSUME NEW t \in Tips
      PROVE  /\ units'[t] \in Nat /\ units'[t] > 0
             /\ status'[t] = "unpaid" <=> status[t] = "unpaid"
             /\ status'[t] \in {status[t], "refunded"}
             /\ status'[t] = "unpaid" => units'[t] = units[t]
             /\ status'[t] # "released" => status[t] # "released"
             /\ Owed(t)' = Owed(t) - plan[r][t]
  <2>1. CASE plan[r][t] = units[t]
    <3>1. units'[t] = units[t] /\ status'[t] = "refunded" /\ status[t] = "held"
      BY <1>1, <1>3, <2>1 DEF Planned
    <3>2. Owed(t) = units[t] /\ Owed(t)' = 0
      BY <3>1 DEF Owed
    <3>. QED BY <1>3, <2>1, <3>1, <3>2
  <2>2. CASE plan[r][t] # units[t]
    <3>1. units'[t] = units[t] - plan[r][t] /\ status'[t] = status[t]
      BY <1>1, <2>2
    <3>2. units'[t] \in Nat /\ units'[t] > 0
      BY <1>3, <2>2, <3>1
    <3>3. Owed(t)' = Owed(t) - plan[r][t]
      <4>1. CASE plan[r][t] = 0
        <5>1. units'[t] = units[t]
          BY <1>3, <3>1, <4>1
        <5>2. Owed(t)' = Owed(t) /\ Owed(t) \in Nat
          BY <3>1, <5>1, OwedIsNat DEF Owed, MoneyInv
        <5>. QED BY <4>1, <5>2
      <4>2. CASE plan[r][t] > 0
        BY <1>3, <3>1, <4>2 DEF Owed
      <4>. QED BY <1>3, <4>1, <4>2
    <3>4. status[t] = "unpaid" => units'[t] = units[t]
      BY <1>3, <3>1
    <3>. QED BY <3>1, <3>2, <3>3, <3>4
  <2>. QED BY <2>1, <2>2
<1>5. RowsFit'
  BY <1>1, <1>4 DEF MoneyInv, RowsFit
<1>6. status' \in [Tips -> {"unpaid", "paid", "held", "released", "refunded"}] /\ units' \in [Tips -> Nat]
  BY <1>1, <1>4 DEF MoneyInv, HoldTypeOK
<1>7. HoldTypeOK'
  BY <1>1, <1>6 DEF MoneyInv, HoldTypeOK, Dismiss, HoldStep, NoPlan
<1>8. Total(fee', Tips) = Total(fee, Tips) + 0
  <2>1. IsFiniteSet(Tips) /\ \A t \in Tips : fee[t] \in Nat
    BY TipsAreFinite DEF MoneyInv, HoldTypeOK
  <2>2. Total(fee, Tips) \in Nat
    BY <2>1, TotalNat
  <2>. QED BY <1>1, <2>2
<1>. QED BY <1>1, <1>4, <1>5, <1>7, <1>8, FinalTurn

-----------------------------------------------------------------------------
(* The ledgers in every reachable state *)

LEMMA MoneyInitHolds == HoldInit => MoneyInv
<1>. SUFFICES ASSUME HoldInit PROVE MoneyInv
  OBVIOUS
<1>1. HoldTypeOK
  BY TipsAssumption DEF HoldInit, HoldTypeOK, NoPlan, NoTx
<1>2. \A r \in HoldReqs : ~Engaged(r) /\ ~Landed(r) /\ holdPc[r] = "idle"
  BY DEF HoldInit, Engaged, Working, Landed, NoTx
<1>3. NothingSentYet /\ Exclusive /\ PlansFit /\ ConfirmedMatch
  BY <1>2 DEF NothingSentYet, Exclusive, PlansFit, ConfirmedMatch
<1>4. RowsFit
  BY TipsAssumption DEF HoldInit, RowsFit, NoPlan
<1>5. Books(NoPlan, 0, 0)
  <2>1. \A t \in Tips : paidOut[t] + Owed(t) = UnitsOf[t] + NoPlan[t]
    BY TipsAssumption DEF HoldInit, NoPlan, Owed
  <2>2. Total(UnitsOf, settling) = 0
    BY TotalEmpty DEF HoldInit
  <2>3. \A t \in Tips : OwedNow[t] = 0 /\ fee[t] = 0
    BY DEF HoldInit, OwedNow, NoPlan
  <2>4. Total(OwedNow, Tips) = 0 /\ Total(fee, Tips) = 0
    BY <2>3, TotalZero, TipsAreFinite
  <2>. QED BY <2>1, <2>2, <2>4 DEF Books, HoldInit
<1>6. BooksKept
  BY <1>2, <1>5 DEF BooksKept
<1>. QED BY <1>1, <1>3, <1>4, <1>6 DEF MoneyInv

LEMMA MoneyStepHolds == MoneyInv /\ NothingSentYet' /\ [HoldNext]_holdVars => MoneyInv'
<1>. SUFFICES ASSUME MoneyInv, NothingSentYet', [HoldNext]_holdVars PROVE MoneyInv'
  OBVIOUS
<1>1. CASE UNCHANGED holdVars
  <2>1. HoldTypeOK' /\ RowsFit' /\ UNCHANGED <<ledgerVars, chainVars, gatewayVars>>
    BY <1>1 DEF MoneyInv, HoldTypeOK, RowsFit, holdVars, ledgerVars, chainVars, gatewayVars
  <2>2. \A p, m, c : Books(p, m, c) => Books(p, m, c)'
    BY <2>1, SameBooks
  <2>. QED BY <1>1, <2>1, <2>2, BooksMove DEF holdVars
<1>2. CASE Funding \/ KeeperSweep
  BY <1>2, PayBoxHolds, SettleBatchHolds, RecordHeldHolds, KeeperSweepHolds DEF Funding
<1>3. ASSUME NEW r \in HoldReqs, Route(r) PROVE MoneyInv'
  <2>1. CASE CheckAuthorization(r) \/ ReserveRefused(r)
    BY <2>1, ChecksHold
  <2>2. CASE Reserve(r)
    BY <2>2, ReserveTurn
  <2>3. CASE SnapshotClaim(r) \/ SnapshotRefund(r)
    BY <2>3, SnapshotClaimTurn, SnapshotRefundTurn
  <2>4. CASE CollectCredit(r)
    BY <2>4, CollectCreditHolds
  <2>5. CASE PendingSettlement(r)
    BY <2>5, PendingTurn
  <2>6. CASE Broadcast(r)
    BY <2>6, BroadcastTurn
  <2>7. CASE Confirm(r)
    BY <2>7, ConfirmHolds
  <2>8. CASE ReceiptFails(r)
    BY <2>8, FailuresHold
  <2>9. CASE FinalizeClaim(r) \/ FinalizeRefund(r)
    BY <2>9, FinalizeClaimTurn, FinalizeRefundTurn
  <2>. QED BY <1>3, <2>1, <2>2, <2>3, <2>4, <2>5, <2>6, <2>7, <2>8, <2>9 DEF Route
<1>4. ASSUME NEW r \in HoldReqs, RouteFaults(r) PROVE MoneyInv'
  BY <1>4, FailuresHold, BroadcastTurn, ChecksHold DEF RouteFaults
<1>5. ASSUME NEW r \in HoldReqs, Chain(r) PROVE MoneyInv'
  BY <1>5, LandsTurn, RevertTurn DEF Chain
<1>. QED BY <1>1, <1>2, <1>3, <1>4, <1>5 DEF HoldNext

\* The invariant of the ledgers, in every reachable state.
THEOREM MoneyInvariant == HoldSpec => []MoneyInv
<1>1. IInv' => NothingSentYet'
  BY DEF IInv
<1>2. IInv /\ MoneyInv /\ [HoldNext]_holdVars => (IInv /\ MoneyInv)'
  BY <1>1, HoldStepHolds, MoneyStepHolds
<1>3. HoldInit => IInv /\ MoneyInv
  BY HoldInitHolds, MoneyInitHolds
<1>. QED BY <1>2, <1>3, PTL DEF HoldSpec

\* The state of the domain, its tips and its box is what TipHolding says it is.
THEOREM HoldTypes == HoldSpec => []HoldTypeOK
<1>1. MoneyInv => HoldTypeOK
  BY DEF MoneyInv
<1>. QED BY <1>1, MoneyInvariant, PTL

\* No tip leaves the box twice, through any claims and refunds, takeovers of failed ones, lost
\* hashes and late transactions: what was sent for a tip and what it is still owed, less the
\* plan of a transaction whose operation is not final, is what the payer sent.
THEOREM TipsPaidOnce == HoldSpec => []NoTipPaidTwice
<1>1. MoneyInv => NoTipPaidTwice
  <2>. SUFFICES ASSUME MoneyInv, NEW t \in Tips PROVE paidOut[t] <= UnitsOf[t]
    BY DEF NoTipPaidTwice
  <2>1. paidOut[t] \in Nat /\ Owed(t) \in Nat /\ UnitsOf[t] \in Nat /\ units[t] \in Nat
    BY OwedIsNat, TipsAssumption DEF MoneyInv, HoldTypeOK
  <2>2. CASE \A r \in HoldReqs : ~Landed(r)
    <3>1. paidOut[t] + Owed(t) = UnitsOf[t] + 0
      BY <2>2 DEF MoneyInv, BooksKept, Books, NoPlan
    <3>. QED BY <2>1, <3>1
  <2>3. ASSUME NEW r \in HoldReqs, Landed(r) PROVE paidOut[t] <= UnitsOf[t]
    <3>1. paidOut[t] + Owed(t) = UnitsOf[t] + plan[r][t] /\ plan[r][t] \in Nat
      BY <2>3 DEF MoneyInv, BooksKept, Books, HoldTypeOK
    <3>2. holdPc[r] # "reserved"
      <4>1. holdPc[r] = "reserved" => tx[r] = [state |-> "none", moved |-> 0]
        BY DEF MoneyInv, NothingSentYet, NoTx
      <4>. QED BY <2>3, <4>1 DEF Landed
    <3>3. PlanFits(r)
      BY <2>3, <3>2 DEF MoneyInv, PlansFit, Engaged
    <3>4. plan[r][t] > 0 => Owed(t) = units[t] /\ plan[r][t] <= units[t]
      BY <3>3 DEF PlanFits, Owed
    <3>5. plan[r][t] <= Owed(t)
      BY <2>1, <3>1, <3>4
    <3>. QED BY <2>1, <3>1, <3>5
  <2>. QED BY <2>2, <2>3
<1>. QED BY <1>1, MoneyInvariant, PTL

\* Between operations the rows of the tips, the box and the treasury agree to the unit.
THEOREM LedgersStayInStep == HoldSpec => []LedgersAgree
<1>1. MoneyInv => LedgersAgree
  <2>. SUFFICES ASSUME MoneyInv, op = NoOp PROVE RowsMatchChain /\ BoxBacksTips /\ FeesAddUp
    BY DEF LedgersAgree
  <2>1. Books(NoPlan, 0, 0)
    BY DEF MoneyInv, Exclusive, Engaged, BooksKept
  <2>2. RowsMatchChain
    <3>. SUFFICES ASSUME NEW t \in Tips PROVE paidOut[t] + Owed(t) = UnitsOf[t]
      BY DEF RowsMatchChain
    <3>1. paidOut[t] + Owed(t) = UnitsOf[t] + 0 /\ UnitsOf[t] \in Nat
      BY <2>1, TipsAssumption DEF Books, NoPlan
    <3>. QED BY <3>1
  <2>3. BoxBacksTips
    <3>1. box + credit + Total(UnitsOf, settling) + withdrawCost + 0 = Total(OwedNow, Tips)
      BY <2>1 DEF Books
    <3>2. /\ box \in Nat /\ credit \in Nat /\ withdrawCost \in Nat
          /\ Total(UnitsOf, settling) \in Nat
      BY TipsAreFinite DEF MoneyInv, HoldTypeOK
    <3>3. HoldTypeOK
      BY DEF MoneyInv
    <3>. QED BY <3>1, <3>2, <3>3, FundedOwed DEF BoxBacksTips
  <2>4. FeesAddUp
    <3>1. Total(fee, Tips) + 0 = feeOut
      BY <2>1 DEF Books
    <3>2. IsFiniteSet(Tips) /\ \A t \in Tips : fee[t] \in Nat
      BY TipsAreFinite DEF MoneyInv, HoldTypeOK
    <3>3. Total(fee, Tips) \in Nat
      BY <3>2, TotalNat
    <3>. QED BY <3>1, <3>3 DEF FeesAddUp
  <2>. QED BY <2>2, <2>3, <2>4
<1>. QED BY <1>1, MoneyInvariant, PTL
=============================================================================
