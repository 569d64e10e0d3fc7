----------------------------- MODULE ProofClaims -----------------------------
(***************************************************************************)
(* How the hub records a payment once: the PaymentTxClaim table, keyed by   *)
(* the proof of payment, in front of tips (recordTipOnce of                 *)
(* hub/tip-idempotency.js, used by /hub/tips/verify and /hub/tips/hold) and *)
(* of unlocks (/hub/pay), over concurrent requests, an answer the           *)
(* facilitator may leave ambiguous, and crashes of the server.              *)
(*                                                                          *)
(* A proof is a signed Gateway envelope, settled by asking the facilitator  *)
(* once, or the hash of a mined transfer, read from the chain as often as   *)
(* one likes.  A binding is the digest of what a tip request attributes the *)
(* payment to (payee, content, amount, ...); a content id is what an unlock *)
(* pays for.  Rows older than the claim table are not modelled.             *)
(***************************************************************************)
EXTENDS Naturals, FiniteSets

CONSTANTS
    Gateways, Transfers,   \* proofs of payment
    TipRequests,           \* requests to record a tip
    UnlockRequests,        \* requests to pay for content
    Bindings, Contents     \* what tips and unlocks attribute a payment to

Proofs == Gateways \cup Transfers
ClaimRequests == TipRequests \cup UnlockRequests

ASSUME ProofsAssumption ==
    /\ Gateways \cap Transfers = {} /\ TipRequests \cap UnlockRequests = {}
    /\ Bindings \cap Contents = {}

VARIABLES
    presents,              \* what each request presents: its proof and binding
    claim,                 \* the PaymentTxClaim rows
    tipRows,               \* Tip rows, with the request that created them
    moved,                 \* proofs whose tip left the status it was recorded with
    settlements,           \* how often the facilitator was asked to settle a proof
    claimPc,               \* where each request is
    reply                  \* what it was answered

claimVars == <<presents, claim, tipRows, moved, settlements, claimPc, reply>>

Unclaimed == [kind |-> "none", binding |-> "none", state |-> "none"]
ClaimRow == [kind : {"tip", "unlock"}, binding : Bindings \cup Contents,
             state : {"pending", "complete"}]
Replies == {"none", "recorded", "replayed", "conflict", "pending", "failed",
            "served", "refused"}

ClaimsInit ==
    /\ presents \in {p \in [ClaimRequests ->
                              [proof : Proofs, binding : Bindings \cup Contents]] :
                       /\ \A r \in TipRequests : p[r].binding \in Bindings
                       /\ \A r \in UnlockRequests :
                            p[r].binding \in Contents /\ p[r].proof \in Transfers}
    /\ claim = [p \in Proofs |-> Unclaimed]
    /\ tipRows = {} /\ moved = {}
    /\ settlements = [p \in Gateways |-> 0]
    /\ claimPc = [r \in ClaimRequests |-> "start"]
    /\ reply = [r \in ClaimRequests |-> "none"]

-----------------------------------------------------------------------------
ProofOf(r) == presents[r].proof
TipClaim(r, state) ==
    [kind |-> "tip", binding |-> presents[r].binding, state |-> state]

Step(r, from, to) == claimPc[r] = from /\ claimPc' = [claimPc EXCEPT ![r] = to]

Reply(r, from, answer) ==
    /\ Step(r, from, "done")
    /\ reply' = [reply EXCEPT ![r] = answer]

\* readExisting: the claim must be a tip's, of the same binding and complete, and
\* its row unchanged since.
ExistingAnswer(r) ==
    LET row == claim[ProofOf(r)] IN
    CASE row.kind # "tip" \/ row.binding # presents[r].binding -> "conflict"
      [] row.state = "pending" -> "pending"
      [] ProofOf(r) \in moved -> "conflict"
      [] OTHER -> "replayed"

\* A transfer is read from the chain again first, which may fail.
ReadExisting(r, from) ==
    /\ claim[ProofOf(r)] # Unclaimed
    /\ \/ Reply(r, from, ExistingAnswer(r))
       \/ /\ ExistingAnswer(r) = "replayed" /\ ProofOf(r) \in Transfers
          /\ Reply(r, from, "failed")
    /\ UNCHANGED <<presents, claim, tipRows, moved, settlements>>

\* An unclaimed proof goes on.  A transfer is verified on chain, with no claim
\* held; a Gateway envelope must be inside its validity window.
FreshProof(r) ==
    /\ claim[ProofOf(r)] = Unclaimed
    /\ Step(r, "start", "fresh")
    /\ UNCHANGED <<presents, claim, tipRows, moved, settlements, reply>>

RefuseProof(r) ==
    /\ Reply(r, "fresh", "failed")
    /\ UNCHANGED <<presents, claim, tipRows, moved, settlements>>

\* Mutant of ReserveClaim: a pending claim may be reserved again.
ReserveClaimPending(r) ==
    /\ claim[ProofOf(r)] = Unclaimed \/ claim[ProofOf(r)].state = "pending"
    /\ claim' = [claim EXCEPT ![ProofOf(r)] = TipClaim(r, "pending")]
    /\ Step(r, "fresh", IF ProofOf(r) \in Gateways THEN "settle" ELSE "commit")
    /\ UNCHANGED <<presents, tipRows, moved, settlements, reply>>

\* The claim row is created; of two creators the second meets the unique key.
ReserveClaim(r) ==
    /\ claim[ProofOf(r)] = Unclaimed
    /\ claim' = [claim EXCEPT ![ProofOf(r)] = TipClaim(r, "pending")]
    /\ Step(r, "fresh", IF ProofOf(r) \in Gateways THEN "settle" ELSE "commit")
    /\ UNCHANGED <<presents, tipRows, moved, settlements, reply>>

\* The facilitator settles the envelope, or its answer is an error or lost.
SettleGateway(r) ==
    /\ \/ Step(r, "settle", "commit") /\ UNCHANGED reply
       \/ Reply(r, "settle", "pending")
    /\ settlements' = [settlements EXCEPT ![ProofOf(r)] = @ + 1]
    /\ UNCHANGED <<presents, claim, tipRows, moved>>

\* One transaction creates the tip and completes the claim, or neither.
CommitTip(r) ==
    /\ Reply(r, "commit", "recorded")
    /\ claim' = [claim EXCEPT ![ProofOf(r)] = TipClaim(r, "complete")]
    /\ tipRows' = tipRows \cup {[by |-> r, proof |-> ProofOf(r),
                                 binding |-> presents[r].binding]}
    /\ UNCHANGED <<presents, moved, settlements>>

RollBackTip(r) ==
    /\ Reply(r, "commit", "pending")
    /\ UNCHANGED <<presents, claim, tipRows, moved, settlements>>

RecordTip(r) ==
    \/ ReadExisting(r, "start") \/ FreshProof(r) \/ RefuseProof(r)
    \/ ReadExisting(r, "fresh") \/ ReserveClaim(r)
    \/ SettleGateway(r) \/ CommitTip(r) \/ RollBackTip(r)

\* Mutant of UnlockServed: a complete claim of any kind serves.
UnlockServedAny(r) ==
    LET wanted == [kind |-> "unlock", binding |-> presents[r].binding,
                   state |-> "complete"] IN
    /\ claim[ProofOf(r)] = Unclaimed \/ claim[ProofOf(r)].state = "complete"
    /\ claim' = [claim EXCEPT ![ProofOf(r)] =
                    IF claim[ProofOf(r)] = Unclaimed THEN wanted ELSE claim[ProofOf(r)]]
    /\ Reply(r, "start", "served")
    /\ UNCHANGED <<presents, tipRows, moved, settlements>>

\* /hub/pay: a verified transfer is claimed for one content id; on a unique
\* conflict the row in place decides.
UnlockServed(r) ==
    LET wanted == [kind |-> "unlock", binding |-> presents[r].binding,
                   state |-> "complete"] IN
    /\ claim[ProofOf(r)] \in {Unclaimed, wanted}
    /\ claim' = [claim EXCEPT ![ProofOf(r)] = wanted]
    /\ Reply(r, "start", "served")
    /\ UNCHANGED <<presents, tipRows, moved, settlements>>

UnlockRefused(r) ==
    /\ claim[ProofOf(r)] # Unclaimed
    /\ \/ claim[ProofOf(r)].kind = "tip"
       \/ claim[ProofOf(r)].binding # presents[r].binding
    /\ Reply(r, "start", "refused")
    /\ UNCHANGED <<presents, claim, tipRows, moved, settlements>>

\* Claim and refund routes move a held tip on (module TipHolding).
MoveTip(p) ==
    /\ \E t \in tipRows : t.proof = p
    /\ moved' = moved \cup {p}
    /\ UNCHANGED <<presents, claim, tipRows, settlements, claimPc, reply>>

\* The server dies: requests in flight end without an answer, rows stay.
CrashHub ==
    /\ claimPc' = [r \in ClaimRequests |->
                     IF claimPc[r] \in {"start", "done"} THEN claimPc[r] ELSE "done"]
    /\ UNCHANGED <<presents, claim, tipRows, moved, settlements, reply>>

ClaimsNext ==
    \/ \E r \in TipRequests : RecordTip(r)
    \/ \E r \in UnlockRequests : UnlockServed(r) \/ UnlockRefused(r)
    \/ \E p \in Proofs : MoveTip(p)
    \/ CrashHub

ClaimsSpec == ClaimsInit /\ [][ClaimsNext]_claimVars

-----------------------------------------------------------------------------
(* Properties *)

ClaimsTypeOK ==
    /\ presents \in [ClaimRequests -> [proof : Proofs, binding : Bindings \cup Contents]]
    /\ claim \in [Proofs -> ClaimRow \cup {Unclaimed}]
    /\ tipRows \subseteq [by : TipRequests, proof : Proofs, binding : Bindings]
    /\ moved \subseteq Proofs
    /\ settlements \in [Gateways -> Nat]
    /\ claimPc \in [ClaimRequests -> {"start", "fresh", "settle", "commit", "done"}]
    /\ reply \in [ClaimRequests -> Replies]

\* A proof of payment records at most one tip, whichever requests present it and
\* wherever the server dies.
OneTipPerProof ==
    \A s, t \in tipRows : s.proof = t.proof => s = t

\* The facilitator is asked to settle an envelope at most once, over crashes and
\* ambiguous answers: a claim is never released for a second try.
SettledOnce == \A p \in Gateways : settlements[p] <= 1

\* One broadcast transfer buys one thing: a tip, or one content id.
OnePurchasePerTransfer ==
    \A u \in UnlockRequests : reply[u] = "served" =>
        /\ \A t \in tipRows : t.proof # ProofOf(u)
        /\ \A v \in UnlockRequests :
             reply[v] = "served" /\ ProofOf(v) = ProofOf(u)
               => presents[v].binding = presents[u].binding

\* A payment proof buys once, whatever it is presented for, by whom and how often.
ProofBuysOnce == OneTipPerProof /\ OnePurchasePerTransfer

\* A request told its tip is recorded, or was, has a row of its own attribution;
\* a complete claim always has its row.
AnswersHaveRows ==
    /\ \A r \in TipRequests : reply[r] \in {"recorded", "replayed"} =>
         \E t \in tipRows : t.proof = ProofOf(r) /\ t.binding = presents[r].binding
    /\ \A p \in Proofs : claim[p].kind = "tip" =>
         (claim[p].state = "complete" <=> \E t \in tipRows : t.proof = p)
=============================================================================
