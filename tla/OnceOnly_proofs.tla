--------------------------- MODULE OnceOnly_proofs --------------------------
(***************************************************************************)
(* Theorems about what is done once, whatever is sent again:                *)
(*                                                                          *)
(*  - ProofClaims, for any proofs of payment, requests and attributions:    *)
(*    the claim row of a proof tells which tips and settlements exist for   *)
(*    it (RowTells), and a request between its reservation and its          *)
(*    transaction has the pending claim of its proof to itself (Owns,       *)
(*    OneOwner).                                                            *)
(*  - Idempotency, for any requests, window, database errors and crashes:   *)
(*    the row of a key is always that of the latest claim, every earlier    *)
(*    claim is a window older (Latest), and a request that goes to remove a *)
(*    row saw a claim that is a window old by now (SeenIsOld).              *)
(*  - AgentSpend, for any workers, calls, prices and faults: the invariant  *)
(*    counts the payments that are still possible, of the workers that may  *)
(*    yet pay for a call (Open) and of the row that lets one more begin     *)
(*    (FreeRow), against the faults there were (FewPayments); what workers  *)
(*    remember and have not charged was paid (BillsSent).                   *)
(***************************************************************************)
EXTENDS ProofClaims, Idempotency, AgentSpend, Sums_proofs

-----------------------------------------------------------------------------
(* Proofs of payment *)

\* A tip attributes a payment to a binding; an unlock pays for a content, by transfer.
PresentsFit ==
    /\ \A r \in TipRequests : presents[r].binding \in Bindings
    /\ \A u \in UnlockRequests :
         presents[u].binding \in Contents /\ presents[u].proof \in Transfers

\* What the claim row of a proof says about its tips and its settlement.
RowTells(p) ==
    /\ \A t \in tipRows : t.proof = p =>
         /\ claim[p].kind = "tip" /\ claim[p].state = "complete"
         /\ claim[p].binding = t.binding
    /\ claim[p].kind = "tip" /\ claim[p].state = "complete" =>
         \E t \in tipRows : t.proof = p
    /\ p \in Gateways =>
         /\ settlements[p] <= 1
         /\ claim[p] = Unclaimed => settlements[p] = 0

Reserving(r) == claimPc[r] \in {"settle", "commit"}

\* A request at work holds the pending claim of its proof, not settled yet where it
\* is still to be.
Owns(r) ==
    Reserving(r) =>
      /\ r \in TipRequests /\ claim[ProofOf(r)] = TipClaim(r, "pending")
      /\ claimPc[r] = "settle" => ProofOf(r) \in Gateways /\ settlements[ProofOf(r)] = 0

OneOwner ==
    \A r, s \in ClaimRequests :
      Reserving(r) /\ Reserving(s) /\ ProofOf(r) = ProofOf(s) => r = s

\* What a request was told is so.
Bought(u) == [kind |-> "unlock", binding |-> presents[u].binding, state |-> "complete"]
Told(r) ==
    /\ r \in UnlockRequests /\ reply[r] = "served" => claim[ProofOf(r)] = Bought(r)
    /\ r \in TipRequests /\ reply[r] \in {"recorded", "replayed"} =>
         \E t \in tipRows : t.proof = ProofOf(r) /\ t.binding = presents[r].binding

ClaimsInv ==
    /\ ClaimsTypeOK /\ PresentsFit /\ OneTipPerProof /\ OneOwner
    /\ \A p \in Proofs : RowTells(p)
    /\ \A r \in ClaimRequests : Owns(r) /\ Told(r)

-----------------------------------------------------------------------------
(* What the invariant implies *)

LEMMA InvSettledOnce == ClaimsInv => SettledOnce
BY DEF ClaimsInv, SettledOnce, RowTells, Proofs

LEMMA InvOnePurchase == ClaimsInv => OnePurchasePerTransfer
<1>. SUFFICES ASSUME ClaimsInv, NEW u \in UnlockRequests, reply[u] = "served"
              PROVE  /\ \A t \in tipRows : t.proof # ProofOf(u)
                     /\ \A v \in UnlockRequests :
                          reply[v] = "served" /\ ProofOf(v) = ProofOf(u)
                            => presents[v].binding = presents[u].binding
  BY DEF OnePurchasePerTransfer
<1>1. claim[ProofOf(u)] = Bought(u)
  BY DEF ClaimsInv, Told, ClaimRequests
<1>2. ASSUME NEW t \in tipRows, t.proof = ProofOf(u) PROVE FALSE
  <2>1. t.proof \in Proofs
    BY DEF ClaimsInv, ClaimsTypeOK
  <2>2. claim[ProofOf(u)].kind = "tip"
    BY <1>2, <2>1 DEF ClaimsInv, RowTells
  <2>. QED BY <1>1, <2>2 DEF Bought
<1>3. ASSUME NEW v \in UnlockRequests, reply[v] = "served", ProofOf(v) = ProofOf(u)
      PROVE  presents[v].binding = presents[u].binding
  <2>1. claim[ProofOf(u)] = Bought(v)
    BY <1>3 DEF ClaimsInv, Told, ClaimRequests
  <2>. QED BY <1>1, <2>1 DEF Bought
<1>. QED BY <1>2, <1>3

LEMMA InvAnswersHaveRows == ClaimsInv => AnswersHaveRows
<1>. SUFFICES ASSUME ClaimsInv PROVE AnswersHaveRows
  OBVIOUS
<1>1. \A r \in TipRequests : reply[r] \in {"recorded", "replayed"} =>
        \E t \in tipRows : t.proof = ProofOf(r) /\ t.binding = presents[r].binding
  BY DEF ClaimsInv, Told, ClaimRequests
<1>2. ASSUME NEW p \in Proofs, claim[p].kind = "tip"
      PROVE  claim[p].state = "complete" <=> \E t \in tipRows : t.proof = p
  BY <1>2 DEF ClaimsInv, RowTells
<1>. QED BY <1>1, <1>2 DEF AnswersHaveRows

-----------------------------------------------------------------------------
(* The invariant *)

\* Kinds of claims differ.
LEMMA Kinds ==
    /\ \A r \in ClaimRequests : TipClaim(r, "pending") # Unclaimed
    /\ Unclaimed.kind = "none" /\ Unclaimed.state = "none"
BY DEF TipClaim, Unclaimed

LEMMA ClaimsInitHolds == ClaimsInit => ClaimsInv
<1>. SUFFICES ASSUME ClaimsInit PROVE ClaimsInv
  OBVIOUS
<1>1. ClaimsTypeOK /\ PresentsFit
  BY DEF ClaimsInit, ClaimsTypeOK, PresentsFit, Replies, ClaimRequests
<1>2. OneTipPerProof
  BY DEF ClaimsInit, OneTipPerProof
<1>3. \A r \in ClaimRequests : claimPc[r] = "start" /\ reply[r] = "none"
  BY DEF ClaimsInit
<1>4. \A p \in Proofs : RowTells(p)
  BY Kinds DEF ClaimsInit, RowTells
<1>. QED BY <1>1, <1>2, <1>3, <1>4 DEF ClaimsInv, OneOwner, Owns, Told, Reserving

\* A step that leaves claims, tips and settlements alone, starts no work and tells
\* the truth.
LEMMA SameLedger ==
    ASSUME ClaimsInv, ClaimsTypeOK', UNCHANGED <<presents, claim, tipRows, settlements>>,
           \A r \in ClaimRequests : Reserving(r)' => claimPc'[r] = claimPc[r],
           \A r \in ClaimRequests : Told(r)'
    PROVE  ClaimsInv'
<1>1. PresentsFit' /\ OneTipPerProof'
  BY DEF ClaimsInv, PresentsFit, OneTipPerProof
<1>2. \A p \in Proofs : RowTells(p)'
  BY DEF ClaimsInv, RowTells
<1>3. \A r \in ClaimRequests : Reserving(r)' => Reserving(r)
  BY DEF Reserving
<1>4. OneOwner'
  BY <1>3 DEF ClaimsInv, OneOwner, ProofOf
<1>5. \A r \in ClaimRequests : Owns(r)'
  BY <1>3 DEF ClaimsInv, Owns, TipClaim, ProofOf
<1>. QED BY <1>1, <1>2, <1>4, <1>5 DEF ClaimsInv

\* What was told stays true while no claim or tip is lost and no answer is given.
LEMMA ToldStays ==
    ASSUME ClaimsInv, UNCHANGED presents, tipRows \subseteq tipRows',
           NEW r \in ClaimRequests, reply'[r] = reply[r],
           r \in UnlockRequests /\ reply[r] = "served"
             => claim'[ProofOf(r)] = claim[ProofOf(r)]
    PROVE  Told(r)'
BY DEF ClaimsInv, Told, ProofOf, Bought

\* An answer other than these three tells nothing.
LEMMA ToldNothing ==
    ASSUME NEW r \in ClaimRequests, reply'[r] \notin {"served", "recorded", "replayed"}
    PROVE  Told(r)'
BY DEF Told

\* A reply goes to the one request that ends its work.
LEMMA ReplyEffect ==
    ASSUME ClaimsTypeOK, NEW r \in ClaimRequests, NEW from, NEW answer \in Replies,
           Reply(r, from, answer)
    PROVE  /\ claimPc[r] = from /\ claimPc'[r] = "done" /\ reply'[r] = answer
           /\ \A s \in ClaimRequests \ {r} : claimPc'[s] = claimPc[s] /\ reply'[s] = reply[s]
           /\ claimPc' \in [ClaimRequests -> {"start", "fresh", "settle", "commit", "done"}]
           /\ reply' \in [ClaimRequests -> Replies]
BY DEF ClaimsTypeOK, Reply, Step

\* A reply that changes no row keeps the invariant if it is true.
LEMMA AnswerOnly ==
    ASSUME ClaimsInv, NEW r \in ClaimRequests, NEW from, NEW answer \in Replies,
           Reply(r, from, answer), UNCHANGED <<presents, claim, tipRows, moved, settlements>>,
           Told(r)'
    PROVE  ClaimsInv'
<1>1. /\ claimPc'[r] = "done"
      /\ \A s \in ClaimRequests \ {r} : claimPc'[s] = claimPc[s] /\ reply'[s] = reply[s]
      /\ claimPc' \in [ClaimRequests -> {"start", "fresh", "settle", "commit", "done"}]
      /\ reply' \in [ClaimRequests -> Replies]
  BY ReplyEffect DEF ClaimsInv
<1>2. ClaimsTypeOK'
  BY <1>1 DEF ClaimsInv, ClaimsTypeOK
<1>3. \A s \in ClaimRequests : Reserving(s)' => claimPc'[s] = claimPc[s]
  BY <1>1 DEF Reserving
<1>4. \A s \in ClaimRequests \ {r} : Told(s)'
  BY <1>1, ToldStays
<1>. QED BY <1>2, <1>3, <1>4, SameLedger

\* The reading of a claim: "replayed" needs a complete claim of the same binding.
LEMMA ReadExistingHolds ==
    ASSUME ClaimsInv, NEW r \in TipRequests, NEW from, ReadExisting(r, from)
    PROVE  ClaimsInv'
<1>0. r \in ClaimRequests /\ r \notin UnlockRequests /\ ProofOf(r) \in Proofs
  BY ProofsAssumption DEF ClaimRequests, ClaimsInv, ClaimsTypeOK, ProofOf
<1>1. CASE Reply(r, from, ExistingAnswer(r))
  <2>1. CASE ExistingAnswer(r) = "replayed"
    <3>1. /\ claim[ProofOf(r)].kind = "tip"
          /\ claim[ProofOf(r)].binding = presents[r].binding
          /\ claim[ProofOf(r)].state # "pending" /\ claim[ProofOf(r)] # Unclaimed
      BY <2>1 DEF ExistingAnswer, ReadExisting
    <3>2. claim[ProofOf(r)].state = "complete"
      BY <1>0, <3>1 DEF ClaimsInv, ClaimsTypeOK, ClaimRow
    <3>3. \E t \in tipRows : t.proof = ProofOf(r) /\ t.binding = presents[r].binding
      BY <1>0, <3>1, <3>2 DEF ClaimsInv, RowTells
    <3>4. Told(r)'
      BY <1>0, <3>3 DEF Told, ReadExisting, ProofOf
    <3>. QED BY <1>0, <1>1, <2>1, <3>4, AnswerOnly DEF ReadExisting, Replies
  <2>2. CASE ExistingAnswer(r) \in {"conflict", "pending"}
    <3>1. Told(r)'
      BY <1>0, <1>1, <2>2, ReplyEffect, ToldNothing DEF ClaimsInv, Replies
    <3>. QED BY <1>0, <1>1, <2>2, <3>1, AnswerOnly DEF ReadExisting, Replies
  <2>. QED BY <2>1, <2>2 DEF ExistingAnswer
<1>2. CASE Reply(r, from, "failed")
  <2>1. Told(r)'
    BY <1>0, <1>2, ReplyEffect, ToldNothing DEF ClaimsInv, Replies
  <2>. QED BY <1>0, <1>2, <2>1, AnswerOnly DEF ReadExisting, Replies
<1>. QED BY <1>1, <1>2 DEF ReadExisting

\* The reservation of an unclaimed proof.
LEMMA ReserveClaimHolds ==
    ASSUME ClaimsInv, NEW r \in TipRequests, ReserveClaim(r)
    PROVE  ClaimsInv'
<1>. DEFINE p == ProofOf(r)
<1>0. /\ r \in ClaimRequests /\ r \notin UnlockRequests /\ p \in Proofs
      /\ presents[r].binding \in Bindings
  BY ProofsAssumption DEF ClaimRequests, ClaimsInv, ClaimsTypeOK, PresentsFit, ProofOf
<1>1. /\ claim[p] = Unclaimed /\ claimPc[r] = "fresh"
      /\ UNCHANGED <<presents, tipRows, moved, settlements, reply>>
  BY DEF ReserveClaim, Step
<1>2. /\ claim'[p] = TipClaim(r, "pending")
      /\ \A q \in Proofs \ {p} : claim'[q] = claim[q]
      /\ claim' \in [Proofs -> ClaimRow \cup {Unclaimed}]
  BY <1>0 DEF ReserveClaim, ClaimsInv, ClaimsTypeOK, TipClaim, ClaimRow
<1>3. /\ claimPc'[r] = (IF p \in Gateways THEN "settle" ELSE "commit")
      /\ \A s \in ClaimRequests \ {r} : claimPc'[s] = claimPc[s]
      /\ claimPc' \in [ClaimRequests -> {"start", "fresh", "settle", "commit", "done"}]
  BY <1>0 DEF ReserveClaim, Step, ClaimsInv, ClaimsTypeOK
<1>4. ClaimsTypeOK' /\ PresentsFit' /\ OneTipPerProof'
  BY <1>1, <1>2, <1>3 DEF ClaimsInv, ClaimsTypeOK, PresentsFit, OneTipPerProof
<1>5. \A t \in tipRows : t.proof # p
  BY <1>0, <1>1, Kinds DEF ClaimsInv, RowTells
<1>6. ASSUME NEW q \in Proofs PROVE RowTells(q)'
  <2>1. CASE q = p
    <3>1. q \in Gateways => settlements[q] = 0
      BY <1>0, <1>1, <2>1 DEF ClaimsInv, RowTells
    <3>2. claim'[q].state = "pending" /\ claim'[q] # Unclaimed
      BY <1>0, <1>2, <2>1, Kinds DEF TipClaim
    <3>. QED BY <1>1, <1>5, <2>1, <3>1, <3>2 DEF RowTells
  <2>2. CASE q # p
    BY <1>1, <1>2, <2>2 DEF ClaimsInv, RowTells
  <2>. QED BY <2>1, <2>2
<1>7. \A s \in ClaimRequests \ {r} : Reserving(s)' => Reserving(s) /\ ProofOf(s) # p
  BY <1>1, <1>3, Kinds DEF ClaimsInv, Reserving, Owns
<1>8. OneOwner'
  BY <1>0, <1>1, <1>7 DEF ClaimsInv, OneOwner, ProofOf
<1>9. ASSUME NEW s \in ClaimRequests PROVE Owns(s)'
  <2>1. CASE s = r
    BY <1>0, <1>1, <1>2, <1>3, <2>1 DEF ClaimsInv, RowTells, Owns, ProofOf, TipClaim
  <2>2. CASE s # r
    <3>1. ProofOf(s) \in Proofs
      BY DEF ClaimsInv, ClaimsTypeOK, ProofOf
    <3>. QED BY <1>1, <1>2, <1>3, <1>7, <2>2, <3>1 DEF ClaimsInv, Owns, ProofOf, TipClaim
  <2>. QED BY <2>1, <2>2
<1>10. ASSUME NEW s \in ClaimRequests PROVE Told(s)'
  <2>1. s \in UnlockRequests /\ reply[s] = "served" => claim[ProofOf(s)] = Bought(s)
    BY DEF ClaimsInv, Told
  <2>2. Bought(s) # Unclaimed /\ ProofOf(s) \in Proofs
    BY DEF Bought, Unclaimed, ClaimsInv, ClaimsTypeOK, ProofOf
  <2>. QED BY <1>1, <1>2, <2>1, <2>2, ToldStays
<1>. QED BY <1>4, <1>6, <1>8, <1>9, <1>10 DEF ClaimsInv

\* The facilitator is asked by the owner of the claim, which it asks once.
LEMMA SettleGatewayHolds ==
    ASSUME ClaimsInv, NEW r \in TipRequests, SettleGateway(r)
    PROVE  ClaimsInv'
<1>. DEFINE p == ProofOf(r)
<1>0. r \in ClaimRequests /\ r \notin UnlockRequests /\ p \in Proofs
  BY ProofsAssumption DEF ClaimRequests, ClaimsInv, ClaimsTypeOK, ProofOf
<1>1. /\ claimPc[r] = "settle" /\ UNCHANGED <<presents, claim, tipRows, moved>>
      /\ settlements' = [settlements EXCEPT ![p] = @ + 1]
  BY DEF SettleGateway, Step, Reply
<1>2. /\ p \in Gateways /\ settlements[p] = 0 /\ claim[p] = TipClaim(r, "pending")
  BY <1>0, <1>1 DEF ClaimsInv, Owns, Reserving
<1>3. /\ settlements' \in [Gateways -> Nat] /\ settlements'[p] = 1
      /\ \A q \in Gateways \ {p} : settlements'[q] = settlements[q]
  BY <1>1, <1>2 DEF ClaimsInv, ClaimsTypeOK
<1>4. /\ claimPc'[r] \in {"commit", "done"} /\ reply'[r] \in {reply[r], "pending"}
      /\ \A s \in ClaimRequests \ {r} : claimPc'[s] = claimPc[s] /\ reply'[s] = reply[s]
      /\ claimPc' \in [ClaimRequests -> {"start", "fresh", "settle", "commit", "done"}]
      /\ reply' \in [ClaimRequests -> Replies]
  BY <1>0 DEF SettleGateway, Step, Reply, ClaimsInv, ClaimsTypeOK, Replies
<1>5. ClaimsTypeOK' /\ PresentsFit' /\ OneTipPerProof'
  BY <1>1, <1>3, <1>4 DEF ClaimsInv, ClaimsTypeOK, PresentsFit, OneTipPerProof
<1>6. ASSUME NEW q \in Proofs PROVE RowTells(q)'
  BY <1>0, <1>1, <1>2, <1>3, Kinds DEF ClaimsInv, RowTells
<1>7. \A s \in ClaimRequests : Reserving(s)' => Reserving(s)
  BY <1>1, <1>4 DEF Reserving
<1>8. OneOwner'
  BY <1>1, <1>7 DEF ClaimsInv, OneOwner, ProofOf
<1>9. ASSUME NEW s \in ClaimRequests PROVE Owns(s)'
  <2>1. CASE s = r
    BY <1>1, <1>2, <1>4, <2>1 DEF Owns, ProofOf, TipClaim
  <2>2. CASE s # r
    <3>1. Reserving(s)' => ProofOf(s) # p
      BY <1>0, <1>1, <1>7, <2>2 DEF ClaimsInv, OneOwner, Reserving
    <3>. QED BY <1>1, <1>3, <1>4, <1>7, <2>2, <3>1 DEF ClaimsInv, Owns, ProofOf, TipClaim
  <2>. QED BY <2>1, <2>2
<1>10. ASSUME NEW s \in ClaimRequests PROVE Told(s)'
  <2>1. CASE reply'[s] = reply[s]
    BY <1>1, <2>1, ToldStays
  <2>2. CASE reply'[s] = "pending"
    BY <2>2, ToldNothing
  <2>. QED BY <1>4, <2>1, <2>2
<1>. QED BY <1>5, <1>6, <1>8, <1>9, <1>10 DEF ClaimsInv

\* The transaction that creates the tip and completes its claim.
LEMMA CommitTipHolds ==
    ASSUME ClaimsInv, NEW r \in TipRequests, CommitTip(r)
    PROVE  ClaimsInv'
<1>. DEFINE p == ProofOf(r)
            tip == [by |-> r, proof |-> p, binding |-> presents[r].binding]
<1>0. /\ r \in ClaimRequests /\ r \notin UnlockRequests /\ p \in Proofs
      /\ presents[r].binding \in Bindings
  BY ProofsAssumption DEF ClaimRequests, ClaimsInv, ClaimsTypeOK, PresentsFit, ProofOf
<1>1. /\ Reply(r, "commit", "recorded") /\ UNCHANGED <<presents, moved, settlements>>
      /\ tipRows' = tipRows \cup {tip}
  BY DEF CommitTip
<1>2. /\ claimPc[r] = "commit" /\ claimPc'[r] = "done" /\ reply'[r] = "recorded"
      /\ \A s \in ClaimRequests \ {r} : claimPc'[s] = claimPc[s] /\ reply'[s] = reply[s]
      /\ claimPc' \in [ClaimRequests -> {"start", "fresh", "settle", "commit", "done"}]
      /\ reply' \in [ClaimRequests -> Replies]
  BY <1>0, <1>1, ReplyEffect DEF ClaimsInv, Replies
<1>3. claim[p] = TipClaim(r, "pending")
  BY <1>0, <1>2 DEF ClaimsInv, Owns, Reserving
<1>4. /\ claim'[p] = TipClaim(r, "complete")
      /\ \A q \in Proofs \ {p} : claim'[q] = claim[q]
      /\ claim' \in [Proofs -> ClaimRow \cup {Unclaimed}]
  BY <1>0 DEF CommitTip, ClaimsInv, ClaimsTypeOK, TipClaim, ClaimRow
<1>5. claim[p].state = "pending" /\ claim[p].kind = "tip"
  BY <1>3 DEF TipClaim
<1>6. \A t \in tipRows : t.proof # p
  BY <1>0, <1>5 DEF ClaimsInv, RowTells
<1>7. ClaimsTypeOK' /\ PresentsFit'
  <2>1. tipRows' \subseteq [by : TipRequests, proof : Proofs, binding : Bindings]
    BY <1>0, <1>1 DEF ClaimsInv, ClaimsTypeOK
  <2>. QED BY <1>1, <1>2, <1>4, <2>1 DEF ClaimsInv, ClaimsTypeOK, PresentsFit
<1>8. OneTipPerProof'
  BY <1>1, <1>6 DEF ClaimsInv, OneTipPerProof
<1>9. ASSUME NEW q \in Proofs PROVE RowTells(q)'
  <2>1. CASE q = p
    <3>1. /\ claim'[q].kind = "tip" /\ claim'[q].state = "complete"
          /\ claim'[q].binding = tip.binding /\ claim'[q] # Unclaimed
      BY <1>4, <2>1 DEF TipClaim, Unclaimed
    <3>2. \A t \in tipRows' : t.proof = q => t = tip
      BY <1>1, <1>6, <2>1
    <3>3. tip \in tipRows' /\ tip.proof = q
      BY <1>1, <2>1
    <3>4. q \in Gateways => settlements'[q] <= 1
      BY <1>1 DEF ClaimsInv, RowTells
    <3>. QED BY <3>1, <3>2, <3>3, <3>4 DEF RowTells
  <2>2. CASE q # p
    <3>1. claim'[q] = claim[q] /\ settlements' = settlements
      BY <1>1, <1>4, <2>2
    <3>2. \A t : t.proof = q => (t \in tipRows' <=> t \in tipRows)
      BY <1>1, <2>2
    <3>. QED BY <3>1, <3>2 DEF ClaimsInv, RowTells
  <2>. QED BY <2>1, <2>2
<1>10. \A s \in ClaimRequests : Reserving(s)' => s # r /\ Reserving(s)
  BY <1>2 DEF Reserving
<1>11. OneOwner'
  BY <1>1, <1>10 DEF ClaimsInv, OneOwner, ProofOf
<1>12. ASSUME NEW s \in ClaimRequests PROVE Owns(s)'
  <2>1. Reserving(s)' => ProofOf(s) # p /\ ProofOf(s) \in Proofs
    BY <1>0, <1>2, <1>10 DEF ClaimsInv, OneOwner, Reserving, ClaimsTypeOK, ProofOf
  <2>. QED BY <1>1, <1>2, <1>4, <1>10, <2>1 DEF ClaimsInv, Owns, ProofOf, TipClaim
<1>13. ASSUME NEW s \in ClaimRequests PROVE Told(s)'
  <2>1. CASE s = r
    <3>1. tip \in tipRows' /\ tip.proof = p /\ tip.binding = presents[r].binding
      BY <1>1
    <3>. QED BY <1>0, <1>1, <2>1, <3>1 DEF Told, ProofOf
  <2>2. CASE s # r
    <3>1. s \in UnlockRequests /\ reply[s] = "served" => claim[ProofOf(s)] = Bought(s)
      BY DEF ClaimsInv, Told
    <3>2. Bought(s).kind = "unlock" /\ ProofOf(s) \in Proofs
      BY DEF Bought, ClaimsInv, ClaimsTypeOK, ProofOf
    <3>3. s \in UnlockRequests /\ reply[s] = "served" => claim'[ProofOf(s)] = claim[ProofOf(s)]
      BY <1>4, <1>5, <3>1, <3>2
    <3>. QED BY <1>1, <1>2, <2>2, <3>3, ToldStays
  <2>. QED BY <2>1, <2>2
<1>. QED BY <1>7, <1>8, <1>9, <1>11, <1>12, <1>13 DEF ClaimsInv

\* A transfer is claimed for a content, or was before.
LEMMA UnlockServedHolds ==
    ASSUME ClaimsInv, NEW u \in UnlockRequests, UnlockServed(u)
    PROVE  ClaimsInv'
<1>. DEFINE p == ProofOf(u)
<1>0. /\ u \in ClaimRequests /\ u \notin TipRequests /\ p \in Proofs
      /\ p \in Transfers /\ p \notin Gateways /\ presents[u].binding \in Contents
  BY ProofsAssumption DEF ClaimRequests, Proofs, ClaimsInv, PresentsFit, ProofOf
<1>1. /\ claim[p] \in {Unclaimed, Bought(u)} /\ Reply(u, "start", "served")
      /\ UNCHANGED <<presents, tipRows, moved, settlements>>
  BY DEF UnlockServed, Bought
<1>2. /\ claimPc'[u] = "done" /\ reply'[u] = "served"
      /\ \A s \in ClaimRequests \ {u} : claimPc'[s] = claimPc[s] /\ reply'[s] = reply[s]
      /\ claimPc' \in [ClaimRequests -> {"start", "fresh", "settle", "commit", "done"}]
      /\ reply' \in [ClaimRequests -> Replies]
  BY <1>0, <1>1, ReplyEffect DEF ClaimsInv, Replies
<1>3. /\ claim'[p] = Bought(u) /\ \A q \in Proofs \ {p} : claim'[q] = claim[q]
      /\ claim' \in [Proofs -> ClaimRow \cup {Unclaimed}]
  BY <1>0 DEF UnlockServed, ClaimsInv, ClaimsTypeOK, Bought, ClaimRow
<1>4. claim[p].kind # "tip" /\ Bought(u).kind = "unlock"
  BY <1>1, Kinds DEF Bought
<1>5. ClaimsTypeOK' /\ PresentsFit' /\ OneTipPerProof'
  BY <1>1, <1>2, <1>3 DEF ClaimsInv, ClaimsTypeOK, PresentsFit, OneTipPerProof
<1>6. ASSUME NEW q \in Proofs PROVE RowTells(q)'
  <2>1. CASE q = p
    <3>1. \A t \in tipRows : t.proof # p
      BY <1>0, <1>4 DEF ClaimsInv, RowTells
    <3>. QED BY <1>0, <1>1, <1>3, <1>4, <2>1, <3>1 DEF RowTells
  <2>2. CASE q # p
    BY <1>1, <1>3, <2>2 DEF ClaimsInv, RowTells
  <2>. QED BY <2>1, <2>2
<1>7. \A s \in ClaimRequests : Reserving(s)' => s # u /\ Reserving(s)
  BY <1>2 DEF Reserving
<1>8. OneOwner'
  BY <1>1, <1>7 DEF ClaimsInv, OneOwner, ProofOf
<1>9. ASSUME NEW s \in ClaimRequests PROVE Owns(s)'
  <2>1. ProofOf(s) \in Proofs
    BY DEF ClaimsInv, ClaimsTypeOK, ProofOf
  <2>2. Reserving(s)' => claim[ProofOf(s)] = TipClaim(s, "pending")
    BY <1>7 DEF ClaimsInv, Owns
  <2>3. Reserving(s)' => claim[ProofOf(s)].kind = "tip"
    BY <2>2 DEF TipClaim
  <2>4. Reserving(s)' => claim'[ProofOf(s)] = claim[ProofOf(s)]
    BY <1>3, <1>4, <2>1, <2>3
  <2>. QED BY <1>1, <1>2, <1>7, <2>4 DEF ClaimsInv, Owns, ProofOf, TipClaim
<1>10. ASSUME NEW s \in ClaimRequests PROVE Told(s)'
  <2>1. CASE s = u
    BY <1>0, <1>1, <1>3, <2>1 DEF Told, ProofOf, Bought
  <2>2. CASE s # u
    <3>1. s \in UnlockRequests /\ reply[s] = "served" =>
            claim[ProofOf(s)] = Bought(s) /\ Bought(s) # Unclaimed
      BY DEF ClaimsInv, Told, Bought, Unclaimed
    <3>2. ProofOf(s) \in Proofs
      BY DEF ClaimsInv, ClaimsTypeOK, ProofOf
    <3>3. s \in UnlockRequests /\ reply[s] = "served" => claim'[ProofOf(s)] = claim[ProofOf(s)]
      BY <1>1, <1>3, <3>1, <3>2
    <3>. QED BY <1>1, <1>2, <2>2, <3>3, ToldStays
  <2>. QED BY <2>1, <2>2
<1>. QED BY <1>5, <1>6, <1>8, <1>9, <1>10 DEF ClaimsInv

\* Every step preserves the invariant.
LEMMA ClaimsStepHolds == ClaimsInv /\ [ClaimsNext]_claimVars => ClaimsInv'
<1>. SUFFICES ASSUME ClaimsInv, [ClaimsNext]_claimVars PROVE ClaimsInv'
  OBVIOUS
<1>0. TipRequests \subseteq ClaimRequests /\ UnlockRequests \subseteq ClaimRequests
  BY DEF ClaimRequests
<1>1. CASE UNCHANGED claimVars
  <2>1. ClaimsTypeOK'
    BY <1>1 DEF claimVars, ClaimsInv, ClaimsTypeOK
  <2>2. \A r \in ClaimRequests : Told(r)'
    BY <1>1, ToldStays DEF claimVars
  <2>. QED BY <1>1, <2>1, <2>2, SameLedger DEF claimVars
<1>2. ASSUME NEW r \in TipRequests, RecordTip(r) PROVE ClaimsInv'
  <2>0. r \in ClaimRequests
    BY <1>0
  <2>1. CASE FreshProof(r)
    <3>1. ClaimsTypeOK'
      BY <2>1, <2>0 DEF FreshProof, Step, ClaimsInv, ClaimsTypeOK
    <3>2. \A s \in ClaimRequests : Told(s)'
      BY <2>1, ToldStays DEF FreshProof
    <3>3. \A s \in ClaimRequests : Reserving(s)' => claimPc'[s] = claimPc[s]
      BY <2>1, <2>0 DEF FreshProof, Step, Reserving, ClaimsInv, ClaimsTypeOK
    <3>. QED BY <2>1, <3>1, <3>2, <3>3, SameLedger DEF FreshProof
  <2>2. CASE RefuseProof(r)
    <3>1. Told(r)'
      BY <2>0, <2>2, ReplyEffect, ToldNothing DEF RefuseProof, ClaimsInv, Replies
    <3>. QED BY <2>0, <2>2, <3>1, AnswerOnly DEF RefuseProof, Replies
  <2>3. CASE RollBackTip(r)
    <3>1. Told(r)'
      BY <2>0, <2>3, ReplyEffect, ToldNothing DEF RollBackTip, ClaimsInv, Replies
    <3>. QED BY <2>0, <2>3, <3>1, AnswerOnly DEF RollBackTip, Replies
  <2>. QED BY <1>2, <2>1, <2>2, <2>3, ReadExistingHolds, ReserveClaimHolds,
              SettleGatewayHolds, CommitTipHolds DEF RecordTip
<1>3. ASSUME NEW u \in UnlockRequests, UnlockRefused(u) PROVE ClaimsInv'
  <2>1. u \in ClaimRequests
    BY <1>0
  <2>2. Told(u)'
    BY <1>3, <2>1, ReplyEffect, ToldNothing DEF UnlockRefused, ClaimsInv, Replies
  <2>. QED BY <1>3, <2>1, <2>2, AnswerOnly DEF UnlockRefused, Replies
<1>4. ASSUME NEW p \in Proofs, MoveTip(p) PROVE ClaimsInv'
  <2>1. ClaimsTypeOK'
    BY <1>4 DEF MoveTip, ClaimsInv, ClaimsTypeOK
  <2>2. \A r \in ClaimRequests : Told(r)'
    BY <1>4, ToldStays DEF MoveTip
  <2>. QED BY <1>4, <2>1, <2>2, SameLedger DEF MoveTip
<1>5. CASE CrashHub
  <2>1. ClaimsTypeOK'
    BY <1>5 DEF CrashHub, ClaimsInv, ClaimsTypeOK
  <2>2. \A r \in ClaimRequests : Told(r)'
    BY <1>5, ToldStays DEF CrashHub
  <2>3. \A r \in ClaimRequests : Reserving(r)' => claimPc'[r] = claimPc[r]
    BY <1>5 DEF CrashHub, Reserving
  <2>. QED BY <1>5, <2>1, <2>2, <2>3, SameLedger DEF CrashHub
<1>. QED BY <1>1, <1>2, <1>3, <1>4, <1>5, UnlockServedHolds DEF ClaimsNext

\* The invariant holds in every state.
THEOREM ClaimsInvariant == ClaimsSpec => []ClaimsInv
BY ClaimsInitHolds, ClaimsStepHolds, PTL DEF ClaimsSpec

\* Every variable keeps its type.
THEOREM ClaimsTypes == ClaimsSpec => []ClaimsTypeOK
BY ClaimsInvariant, PTL DEF ClaimsInv

\* A proof of payment records at most one tip.
THEOREM ProofTipsOnce == ClaimsSpec => []OneTipPerProof
BY ClaimsInvariant, PTL DEF ClaimsInv

\* The facilitator is asked to settle an envelope at most once, over any crashes.
THEOREM EnvelopeSettledOnce == ClaimsSpec => []SettledOnce
BY ClaimsInvariant, InvSettledOnce, PTL

\* A transfer buys one thing, whatever is presented with it and in which order.
THEOREM TransferBuysOnce == ClaimsSpec => []OnePurchasePerTransfer
BY ClaimsInvariant, InvOnePurchase, PTL

\* A payment proof buys once, whatever it is presented for, by whom and how often.
THEOREM PaidProofBuysOnce == ClaimsSpec => []ProofBuysOnce
BY ProofTipsOnce, TransferBuysOnce, PTL DEF ProofBuysOnce

\* What a request is told is in the rows, and a complete claim has its tip.
THEOREM AnswersAreTrue == ClaimsSpec => []AnswersHaveRows
BY ClaimsInvariant, InvAnswersHaveRows, PTL

-----------------------------------------------------------------------------
(* Idempotency keys *)

\* The claim of request b is a window older than moment t.
Older(b, t) == claimedAt[b] + Window <= t

\* Only requests that got the key have a claim.
ClaimsOnce ==
    \A r \in KeyRequests : phase[r] \in {"new", "reclaim", "claim"} => ~Executed(r)

\* The row is the latest claim, which every other precedes by a window; without a
\* row, all claims are a window old.
Latest ==
    IF row = NoRow THEN \A b \in KeyRequests : Executed(b) => Older(b, tick)
    ELSE /\ Executed(row.id) /\ claimedAt[row.id] = row.at /\ row.at <= tick
         /\ \A b \in KeyRequests \ {row.id} : Executed(b) => Older(b, row.at)

\* The claim a request found abandoned is a window old.
SeenIsOld ==
    \A r \in KeyRequests : seen[r] \in KeyRequests => Executed(seen[r]) /\ Older(seen[r], tick)

KeyInv == KeyTypeOK /\ ClaimsOnce /\ Latest /\ SeenIsOld /\ ExecutionsApart

\* A row that exists is a record with a claimant, a time and an answer.
LEMMA RowFields ==
    ASSUME KeyTypeOK, row # NoRow
    PROVE  /\ row \in [id : KeyRequests, at : Nat, answer : KeyRequests \cup {NoAnswer}]
           /\ row.id \in KeyRequests /\ row.at \in Nat
           /\ row.answer \in KeyRequests \cup {NoAnswer}
BY DEF KeyTypeOK

\* Initially nobody has claimed the key.
LEMMA KeyInitHolds == KeyInit => KeyInv
<1>. SUFFICES ASSUME KeyInit PROVE KeyInv
  OBVIOUS
<1>1. KeyTypeOK
  BY KeyAssumption DEF KeyInit, KeyTypeOK
<1>2. ASSUME NEW r \in KeyRequests PROVE ~Executed(r) /\ seen[r] \notin KeyRequests
  <2>1. claimedAt[r] = -1 /\ seen[r] = NoAnswer
    BY DEF KeyInit
  <2>2. ~Executed(r)
    BY <2>1 DEF Executed
  <2>. QED BY <2>1, <2>2, KeyAssumption
<1>3. row = NoRow
  BY DEF KeyInit
<1>. QED BY <1>1, <1>2, <1>3 DEF KeyInv, ClaimsOnce, Latest, SeenIsOld, ExecutionsApart

\* A step that leaves the claims, the clock, the row's claim and what was seen alone.
LEMMA SameClaims ==
    ASSUME KeyInv, KeyTypeOK', UNCHANGED <<tick, seen, claimedAt>>,
           (row = NoRow) <=> (row' = NoRow),
           row # NoRow => row'.id = row.id /\ row'.at = row.at,
           \A r \in KeyRequests :
             phase'[r] \in {"new", "reclaim", "claim"} => ~Executed(r)
    PROVE  KeyInv'
<1>1. ClaimsOnce' /\ SeenIsOld' /\ ExecutionsApart'
  BY DEF KeyInv, ClaimsOnce, SeenIsOld, ExecutionsApart, Executed, Older
<1>2. Latest'
  BY DEF KeyInv, Latest, Executed, Older
<1>. QED BY <1>1, <1>2 DEF KeyInv

\* Every step preserves the invariant.
LEMMA KeyStepHolds == KeyInv /\ [KeyNext]_idemVars => KeyInv'
<1>. SUFFICES ASSUME KeyInv, [KeyNext]_idemVars PROVE KeyInv'
  OBVIOUS
<1>. USE KeyAssumption
<1>0. KeyTypeOK
  BY DEF KeyInv
<1>1. CASE UNCHANGED idemVars
  <2>1. KeyTypeOK'
    BY <1>0, <1>1 DEF idemVars, KeyTypeOK
  <2>. QED BY <1>1, <2>1, SameClaims DEF idemVars, KeyInv, ClaimsOnce
<1>2. CASE KeyTick
  <2>1. KeyTypeOK'
    BY <1>0, <1>2 DEF KeyTick, KeyTypeOK
  <2>2. tick' = tick + 1 /\ tick \in Nat
    BY <1>0, <1>2 DEF KeyTick, KeyTypeOK
  <2>3. ClaimsOnce' /\ ExecutionsApart'
    BY <1>2 DEF KeyTick, KeyInv, ClaimsOnce, ExecutionsApart, Executed
  <2>4. \A b \in KeyRequests : claimedAt[b] \in Int
    BY <1>0 DEF KeyTypeOK
  <2>5. \A b \in KeyRequests : Older(b, tick) => Older(b, tick)'
    BY <1>2, <2>2, <2>4 DEF KeyTick, Older
  <2>6. SeenIsOld'
    BY <1>2, <2>5 DEF KeyTick, KeyInv, SeenIsOld, Executed
  <2>9. Latest'
    <3>1. CASE row = NoRow
      BY <1>2, <2>5, <3>1 DEF KeyTick, KeyInv, Latest, Executed
    <3>2. CASE row # NoRow
      <4>1. row.at \in Nat
        BY <1>0, <3>2, RowFields
      <4>. QED BY <1>2, <2>2, <3>2, <4>1 DEF KeyTick, KeyInv, Latest, Executed, Older
    <3>. QED BY <3>1, <3>2
  <2>. QED BY <2>1, <2>3, <2>6, <2>9 DEF KeyInv
<1>3. ASSUME NEW r \in KeyRequests, LookUp(r) PROVE KeyInv'
  <2>1. phase[r] = "new" /\ ~Executed(r)
    BY <1>3 DEF LookUp, Moves, KeyInv, ClaimsOnce
  <2>2. \A q \in KeyRequests : phase'[q] \in {"new", "reclaim", "claim"} => ~Executed(q)
    BY <1>0, <1>3, <2>1 DEF LookUp, Moves, KeyInv, ClaimsOnce, KeyTypeOK
  <2>3. CASE seen' = seen
    <3>1. KeyTypeOK'
      <4>1. row # NoRow => row.answer \in KeyRequests \cup {NoAnswer}
        BY <1>0, RowFields
      <4>. QED BY <1>0, <1>3, <2>3, <4>1 DEF LookUp, Moves, KeyTypeOK
    <3>. QED BY <1>3, <2>2, <2>3, <3>1, SameClaims DEF LookUp
  <2>4. CASE /\ row # NoRow /\ row.answer = NoAnswer /\ ~InFlight
             /\ Moves(r, "new", "reclaim")
             /\ seen' = [seen EXCEPT ![r] = row.id] /\ UNCHANGED replayed
    <3>1. row.id \in KeyRequests /\ row.at \in Nat
      BY <1>0, <2>4, RowFields
    <3>2. KeyTypeOK'
      BY <1>0, <1>3, <2>4, <3>1 DEF LookUp, Moves, KeyTypeOK
    <3>3. Executed(row.id) /\ Older(row.id, tick)
      BY <1>0, <2>4, <3>1 DEF InFlight, KeyInv, Latest, Older, KeyTypeOK
    <3>4. SeenIsOld'
      BY <1>0, <1>3, <2>4, <3>3 DEF LookUp, KeyInv, SeenIsOld, Executed, Older, KeyTypeOK
    <3>5. ClaimsOnce' /\ Latest' /\ ExecutionsApart'
      BY <1>3, <2>2 DEF LookUp, KeyInv, ClaimsOnce, Latest, ExecutionsApart, Executed, Older
    <3>. QED BY <3>2, <3>4, <3>5 DEF KeyInv
  <2>. QED BY <1>3, <2>3, <2>4 DEF LookUp
<1>4. ASSUME NEW r \in KeyRequests, Reclaim(r) PROVE KeyInv'
  <2>1. \A q \in KeyRequests : phase'[q] \in {"new", "reclaim", "claim"} => ~Executed(q)
    BY <1>0, <1>4 DEF Reclaim, Moves, KeyInv, ClaimsOnce, KeyTypeOK
  <2>2. KeyTypeOK'
    BY <1>0, <1>4 DEF Reclaim, Moves, KeyFault, KeyTypeOK
  <2>3. CASE row' = row
    BY <1>4, <2>1, <2>2, <2>3, SameClaims DEF Reclaim
  <2>4. CASE IsStaleRow(r) /\ row' = NoRow
    <3>1. row # NoRow /\ row.id \in KeyRequests /\ row.at \in Nat /\ row.id = seen[r]
      BY <1>0, <2>4, RowFields DEF IsStaleRow
    <3>2. Older(row.id, tick) /\ row.at + Window <= tick /\ row.at <= tick
      BY <3>1 DEF KeyInv, SeenIsOld, Latest, Older
    <3>3. \A b \in KeyRequests : claimedAt[b] \in Int
      BY <1>0 DEF KeyTypeOK
    <3>4. \A b \in KeyRequests : Executed(b) => Older(b, tick)
      BY <1>0, <3>1, <3>2, <3>3 DEF KeyInv, Latest, Older, KeyTypeOK
    <3>5. Latest'
      BY <1>4, <2>4, <3>4 DEF Reclaim, Latest, Executed, Older
    <3>6. ClaimsOnce' /\ SeenIsOld' /\ ExecutionsApart'
      BY <1>4, <2>1
         DEF Reclaim, KeyInv, ClaimsOnce, SeenIsOld, ExecutionsApart, Executed, Older
    <3>. QED BY <2>2, <3>5, <3>6 DEF KeyInv
  <2>. QED BY <1>4, <2>3, <2>4 DEF Reclaim
<1>5. ASSUME NEW r \in KeyRequests, ClaimKey(r) PROVE KeyInv'
  <2>1. CASE row # NoRow /\ Moves(r, "claim", "refused") /\ UNCHANGED <<row, claimedAt>>
    <3>1. \A q \in KeyRequests : phase'[q] \in {"new", "reclaim", "claim"} => ~Executed(q)
      BY <1>0, <2>1 DEF Moves, KeyInv, ClaimsOnce, KeyTypeOK
    <3>2. KeyTypeOK'
      BY <1>0, <1>5, <2>1 DEF ClaimKey, Moves, KeyTypeOK
    <3>. QED BY <1>5, <2>1, <3>1, <3>2, SameClaims DEF ClaimKey
  <2>2. CASE /\ row = NoRow /\ Moves(r, "claim", "executing")
             /\ row' = [id |-> r, at |-> tick, answer |-> NoAnswer]
             /\ claimedAt' = [claimedAt EXCEPT ![r] = tick]
    <3>0. tick \in Nat /\ \A b \in KeyRequests : claimedAt[b] \in Int
      BY <1>0 DEF KeyTypeOK
    <3>1. ~Executed(r) /\ phase[r] = "claim"
      BY <2>2 DEF Moves, KeyInv, ClaimsOnce
    <3>2. KeyTypeOK'
      BY <1>0, <1>5, <2>2 DEF ClaimKey, Moves, KeyTypeOK
    <3>3. row' # NoRow
      BY <2>2, <3>0, KeyAssumption
    <3>4. /\ claimedAt'[r] = tick /\ Executed(r)'
          /\ \A b \in KeyRequests \ {r} : claimedAt'[b] = claimedAt[b]
      BY <1>0, <2>2, <3>0 DEF KeyTypeOK, Executed
    <3>5. \A b \in KeyRequests \ {r} : Executed(b)' => Older(b, tick)
      BY <2>2, <3>4 DEF KeyInv, Latest, Executed
    <3>6. Latest'
      BY <1>5, <2>2, <3>0, <3>3, <3>4, <3>5 DEF ClaimKey, Latest, Older
    <3>7. ExecutionsApart'
      BY <3>0, <3>4, <3>5 DEF KeyInv, ExecutionsApart, Executed, Older
    <3>8. ClaimsOnce'
      BY <1>0, <2>2, <3>4 DEF Moves, KeyInv, ClaimsOnce, Executed, KeyTypeOK
    <3>9. SeenIsOld'
      BY <1>5, <3>1, <3>4 DEF ClaimKey, KeyInv, SeenIsOld, Executed, Older
    <3>. QED BY <3>2, <3>6, <3>7, <3>8, <3>9 DEF KeyInv
  <2>. QED BY <1>5, <2>1, <2>2 DEF ClaimKey
<1>6. ASSUME NEW r \in KeyRequests, Unguarded(r) \/ Finish(r) \/ Lost(r) PROVE KeyInv'
  <2>1. \A q \in KeyRequests : phase'[q] \in {"new", "reclaim", "claim"} => ~Executed(q)
    BY <1>0, <1>6 DEF Unguarded, Finish, Lost, Moves, KeyInv, ClaimsOnce, KeyTypeOK
  <2>2. KeyTypeOK'
    BY <1>0, <1>6 DEF Unguarded, Finish, Lost, Moves, KeyFault, KeyTypeOK
  <2>. QED BY <1>6, <2>1, <2>2, SameClaims DEF Unguarded, Finish, Lost
<1>7. ASSUME NEW r \in KeyRequests, Record(r) PROVE KeyInv'
  <2>1. \A q \in KeyRequests : phase'[q] \in {"new", "reclaim", "claim"} => ~Executed(q)
    BY <1>0, <1>7 DEF Record, Moves, KeyInv, ClaimsOnce, KeyTypeOK
  <2>2. /\ row' = row \/ (row # NoRow /\ row' = [row EXCEPT !.answer = r])
        /\ row' \in [id : KeyRequests, at : Nat, answer : KeyRequests \cup {NoAnswer}]
                   \cup {NoRow}
        /\ row # NoRow => row' # NoRow /\ row'.id = row.id /\ row'.at = row.at
    <3>1. CASE row = NoRow
      BY <1>7, <3>1 DEF Record, Recorded
    <3>2. CASE row # NoRow /\ row' = row
      BY <1>0, <3>2 DEF KeyTypeOK
    <3>3. CASE row # NoRow /\ row' = [row EXCEPT !.answer = r]
      <4>1. row \in [id : KeyRequests, at : Nat, answer : KeyRequests \cup {NoAnswer}]
        BY <1>0, <3>3, RowFields
      <4>2. row' \in [id : KeyRequests, at : Nat, answer : KeyRequests \cup {NoAnswer}]
        BY <3>3, <4>1
      <4>. QED BY <3>3, <4>1, <4>2, KeyAssumption
    <3>. QED BY <1>7, <3>1, <3>2, <3>3 DEF Record, Recorded
  <2>3. KeyTypeOK'
    BY <1>0, <1>7, <2>2 DEF Record, Moves, KeyFault, KeyTypeOK
  <2>. QED BY <1>7, <2>1, <2>2, <2>3, SameClaims DEF Record
<1>. QED BY <1>1, <1>2, <1>3, <1>4, <1>5, <1>6, <1>7 DEF KeyNext

-----------------------------------------------------------------------------
\* The invariant holds in every state.
THEOREM KeyInvariant == KeySpec => []KeyInv
BY KeyInitHolds, KeyStepHolds, PTL DEF KeySpec

\* Every variable of the middleware keeps its type.
THEOREM KeyTypes == KeySpec => []KeyTypeOK
BY KeyInvariant, PTL DEF KeyInv

\* Two guarded executions of one key are a window apart: a stale row is removed by
\* its id, so a slow reader never removes the row of the request that replaced it.
THEOREM KeyExecutesApart == KeySpec => []ExecutionsApart
BY KeyInvariant, PTL DEF KeyInv

-----------------------------------------------------------------------------
(* Spend of an agent *)

Idle(w) == agent[w].pc = "idle"
CallRunning(w) == agent[w].pc \in {"proposed", "checked", "paid"}

\* A call in progress is one the stage offers and the loop has not made.
LoopAt(w) ==
    ~Idle(w) =>
      /\ agent[w].stage \in Stages /\ agent[w].made \subseteq Offered(agent[w].stage)
      /\ CallRunning(w) => agent[w].call \in Offered(agent[w].stage) \ agent[w].made
RowsOffered == \A s \in Stages : doneCalls[s] \subseteq Offered(s)

\* A finished stage has the call.
Saved(c) == \E s \in doneStages : c \in doneCalls[s]

\* A worker may still pay for the call, without a further fault.
Open(w, c) ==
    /\ ~Idle(w) /\ c \notin agent[w].made
    /\ ~(agent[w].pc = "paid" /\ agent[w].call = c)
    /\ Saved(c) => IF c \in Purchases THEN agent[w].pc = "checked" /\ agent[w].call = c
                                      ELSE IsTips(agent[w].stage)
Chances(c) == [w \in Agents |-> IF Open(w, c) THEN 1 ELSE 0]

\* So may the next worker to claim a stage.
RowFree == activeBy = NoAgent \/ Idle(activeBy)
FreeRow(c) == IF running /\ RowFree /\ ~Saved(c) THEN 1 ELSE 0

\* The payments of a call, made and still possible, are paid for by faults but for one.
FewPayments(c) == sent[c] + Total(Chances(c), Agents) + FreeRow(c) <= 1 + spendFaults

\* What a worker has paid, as far as it remembers, and not charged.
ToBill(a) ==
    IF a.pc \in {"idle", "save"} THEN 0
    ELSE a.cost + (IF a.pc = "paid" THEN Price[a.call] ELSE 0)
Unbilled == [w \in Agents |-> ToBill(agent[w])]
BillsSent == billed + Total(Unbilled, Agents) <= TotalSent

SpendInv ==
    /\ SpendTypeOK /\ RowsOffered /\ BillsSent
    /\ \A w \in Agents : LoopAt(w)
    /\ \A c \in ToolCalls : FewPayments(c)

\* What a worker is: where, in which stage, and the locals of its loop.
LEMMA AgentFields ==
    ASSUME SpendTypeOK, NEW w \in Agents
    PROVE  /\ agent[w].pc \in {"idle", "loop", "proposed", "checked", "paid", "charge", "save"}
           /\ agent[w].stage \in Stages \cup {0} /\ agent[w].steps \in 0..LoopSteps
           /\ agent[w].cost \in Nat /\ agent[w].made \in SUBSET ToolCalls
           /\ agent[w].call \in ToolCalls \cup {"none"}
BY DEF SpendTypeOK

LEMMA OfferedCalls ==
    ASSUME NEW s \in Stages
    PROVE  /\ Offered(s) \subseteq ToolCalls
           /\ \A c \in Offered(s) : c \in Purchases <=> ~IsTips(s)
BY AgentSpendAssumption DEF Offered, ToolCalls

LEMMA PricesAreNat == ASSUME NEW c \in ToolCalls PROVE Price[c] \in Nat /\ Price[c] > 0
BY AgentSpendAssumption

\* What a worker owes and what the calls cost are sums of natural numbers.
LEMMA BillIsNat ==
    ASSUME NEW a, a.cost \in Nat, a.pc = "paid" => a.call \in ToolCalls
    PROVE  ToBill(a) \in Nat
<1>1. CASE a.pc = "paid"
  <2>1. Price[a.call] \in Nat
    BY <1>1, PricesAreNat
  <2>. QED BY <1>1, <2>1 DEF ToBill
<1>2. CASE a.pc # "paid"
  BY <1>2 DEF ToBill
<1>. QED BY <1>1, <1>2

LEMMA CostsAreNat ==
    ASSUME NEW f \in [ToolCalls -> Nat]
    PROVE  /\ IntOn([c \in ToolCalls |-> f[c] * Price[c]], ToolCalls)
           /\ Total([c \in ToolCalls |-> f[c] * Price[c]], ToolCalls) \in Nat
<1>. DEFINE g == [c \in ToolCalls |-> f[c] * Price[c]]
<1>1. ASSUME NEW c \in ToolCalls PROVE g[c] \in Nat
  <2>1. f[c] \in Nat /\ Price[c] \in Nat
    BY PricesAreNat
  <2>2. f[c] * Price[c] \in Nat
    BY <2>1
  <2>. QED BY <2>2
<1>2. IntOn(g, ToolCalls)
  BY <1>1 DEF IntOn
<1>. HIDE DEF g
<1>3. Total(g, ToolCalls) \in Nat
  BY <1>1, TotalNat, AgentSpendAssumption
<1>. QED BY <1>2, <1>3 DEF g

LEMMA SentIsNat == SpendTypeOK => TotalSent \in Nat
BY CostsAreNat DEF SpendTypeOK, TotalSent

\* A worker that has paid knows for what.
LEMMA UnbilledNat ==
    ASSUME SpendTypeOK, NEW w \in Agents, LoopAt(w)
    PROVE  Unbilled[w] \in Nat
<1>1. agent[w].cost \in Nat
  BY AgentFields
<1>2. agent[w].pc = "paid" => agent[w].call \in ToolCalls
  BY OfferedCalls DEF LoopAt, Idle, CallRunning
<1>. QED BY <1>1, <1>2, BillIsNat DEF Unbilled

LEMMA ChanceSums ==
    \A c \in ToolCalls :
      /\ IntOn(Chances(c), Agents) /\ Total(Chances(c), Agents) \in Nat
      /\ \A w \in Agents : Chances(c)[w] \in {0, 1}
      /\ FreeRow(c) \in {0, 1}
<1>. SUFFICES ASSUME NEW c \in ToolCalls
              PROVE  /\ IntOn(Chances(c), Agents) /\ Total(Chances(c), Agents) \in Nat
                     /\ \A w \in Agents : Chances(c)[w] \in {0, 1}
                     /\ FreeRow(c) \in {0, 1}
  OBVIOUS
<1>1. \A w \in Agents : Chances(c)[w] \in {0, 1}
  BY DEF Chances
<1>2. Total(Chances(c), Agents) \in Nat
  BY <1>1, TotalNat, AgentSpendAssumption
<1>. QED BY <1>1, <1>2 DEF IntOn, FreeRow

\* A turn of one worker that pays, bills and forgets no more than it may keeps the
\* invariant.
LEMMA TurnBills ==
    ASSUME SpendInv, SpendTypeOK', RowsOffered', NEW w \in Agents, LoopAt(w)',
           \A v \in Agents \ {w} : agent'[v] = agent[v],
           \A c \in ToolCalls : Saved(c) => Saved(c)',
           billed' + ToBill(agent'[w]) + TotalSent <= billed + ToBill(agent[w]) + TotalSent',
           \A c \in ToolCalls :
             sent'[c] + Chances(c)'[w] + FreeRow(c)' + spendFaults
               <= sent[c] + Chances(c)[w] + FreeRow(c) + spendFaults'
    PROVE  SpendInv'
<1>1. \A v \in Agents : LoopAt(v) /\ LoopAt(v)'
  <2>1. ASSUME NEW v \in Agents \ {w} PROVE LoopAt(v)'
    <3>1. LoopAt(v) /\ agent'[v] = agent[v]
      BY DEF SpendInv
    <3>. QED BY <3>1 DEF LoopAt, Idle, CallRunning
  <2>. QED BY <2>1 DEF SpendInv
<1>2. BillsSent'
  <2>. DEFINE U == Unbilled
              V == Unbilled'
  <2>1. \A v \in Agents : U[v] \in Nat
    BY <1>1, UnbilledNat DEF SpendInv
  <2>2. ASSUME NEW v \in Agents \ {w} PROVE V[v] = U[v]
    <3>1. agent'[v] = agent[v]
      OBVIOUS
    <3>. QED BY <3>1 DEF Unbilled
  <2>3. U[w] = ToBill(agent[w]) /\ V[w] = ToBill(agent'[w])
    BY DEF Unbilled
  <2>4. V[w] \in Nat
    <3>1. agent'[w].cost \in Nat
      BY DEF SpendTypeOK
    <3>2. agent'[w].pc = "paid" => agent'[w].call \in ToolCalls
      BY OfferedCalls DEF LoopAt, Idle, CallRunning
    <3>. QED BY <2>3, <3>1, <3>2, BillIsNat
  <2>5. /\ TotalSent \in Nat /\ TotalSent' \in Nat /\ billed \in Nat /\ billed' \in Nat
        /\ IsFiniteSet(Agents)
    BY CostsAreNat, AgentSpendAssumption DEF SpendInv, SpendTypeOK, TotalSent
  <2>6. billed + Total(U, Agents) <= TotalSent
    BY DEF SpendInv, BillsSent
  <2>7. billed' + V[w] + TotalSent <= billed + U[w] + TotalSent'
    BY <2>3
  <2>. HIDE DEF U, V
  <2>8. /\ IntOn(U, Agents) /\ IntOn(V, Agents) /\ U[w] \in Nat
        /\ Total(U, Agents) \in Nat /\ Total(V, Agents) \in Nat
    <3>1. \A v \in Agents : V[v] \in Nat
      BY <2>1, <2>2, <2>4
    <3>. QED BY <2>1, <2>5, <3>1, TotalNat DEF IntOn
  <2>9. Total(V, Agents) = Total(U, Agents) - U[w] + V[w]
    BY <2>2, <2>4, <2>5, <2>8, TotalUpdate
  <2>10. billed' + Total(V, Agents) <= TotalSent'
    BY <2>4, <2>5, <2>6, <2>7, <2>8, <2>9
  <2>. QED BY <2>10 DEF BillsSent, V
<1>3. ASSUME NEW c \in ToolCalls PROVE FewPayments(c)'
  <2>. DEFINE C == Chances(c)
              D == Chances(c)'
              r == FreeRow(c)
              q == FreeRow(c)'
  <2>1. /\ \A v \in Agents : C[v] \in {0, 1} /\ D[v] \in {0, 1}
        /\ r \in {0, 1} /\ q \in {0, 1} /\ IsFiniteSet(Agents)
    BY AgentSpendAssumption DEF Chances, FreeRow
  <2>2. ASSUME NEW v \in Agents \ {w} PROVE D[v] <= C[v]
    <3>1. agent'[v] = agent[v] /\ (Saved(c) => Saved(c)')
      OBVIOUS
    <3>2. Open(v, c)' => Open(v, c)
      BY <3>1 DEF Open, Idle
    <3>3. /\ C[v] = IF Open(v, c) THEN 1 ELSE 0
          /\ D[v] = IF Open(v, c)' THEN 1 ELSE 0
      BY DEF Chances
    <3>. QED BY <3>2, <3>3
  <2>3. sent[c] + Total(C, Agents) + r <= 1 + spendFaults
    BY DEF SpendInv, FewPayments
  <2>4. sent'[c] + D[w] + q + spendFaults <= sent[c] + C[w] + r + spendFaults'
    OBVIOUS
  <2>5. sent[c] \in Nat /\ sent'[c] \in Nat /\ spendFaults \in Nat /\ spendFaults' \in Nat
    BY AgentSpendAssumption DEF SpendInv, SpendTypeOK
  <2>. HIDE DEF C, D, r, q
  <2>6. /\ IntOn(C, Agents) /\ IntOn(D, Agents)
        /\ Total(C, Agents) \in Nat /\ Total(D, Agents) \in Nat
    BY <2>1, TotalNat DEF IntOn
  <2>7. Total(D, Agents) <= Total(C, Agents) - C[w] + D[w]
    BY <2>1, <2>2, <2>6, TotalShift
  <2>8. C[w] \in {0, 1} /\ D[w] \in {0, 1}
    BY <2>1
  <2>9. sent'[c] + Total(D, Agents) + q <= 1 + spendFaults'
    BY <2>1, <2>3, <2>4, <2>5, <2>6, <2>7, <2>8
  <2>. QED BY <2>9 DEF FewPayments, D, q
<1>. QED BY <1>1, <1>2, <1>3 DEF SpendInv

LEMMA BillAmounts ==
    ASSUME SpendInv, NEW w \in Agents
    PROVE  /\ ToBill(agent[w]) \in Nat /\ agent[w].cost \in Nat /\ billed \in Nat
           /\ spendFaults \in Nat /\ LoopAt(w) /\ SpendTypeOK
BY UnbilledNat, AgentFields, AgentSpendAssumption DEF SpendInv, Unbilled, SpendTypeOK

\* Inside a stage, a worker neither frees a row nor adds to one.
LEMMA InsideStage ==
    ASSUME SpendInv, NEW w \in Agents, ~Idle(w), ~Idle(w)',
           \A v \in Agents \ {w} : agent'[v] = agent[v],
           UNCHANGED rowVars, running' => running, NEW c \in ToolCalls
    PROVE  /\ Saved(c)' <=> Saved(c)
           /\ FreeRow(c)' <= FreeRow(c)
<1>1. doneCalls' = doneCalls /\ doneStages' = doneStages /\ activeBy' = activeBy
  BY DEF rowVars
<1>2. Saved(c)' <=> Saved(c)
  BY <1>1 DEF Saved
<1>3. activeBy \in Agents \cup {NoAgent}
  BY DEF SpendInv, SpendTypeOK
<1>4. RowFree' => RowFree
  <2>1. CASE activeBy \in Agents \ {w}
    BY <1>1, <2>1 DEF RowFree, Idle
  <2>2. CASE activeBy = w
    BY <1>1, <2>2 DEF RowFree, Idle
  <2>3. CASE activeBy = NoAgent
    BY <1>1, <2>3 DEF RowFree
  <2>. QED BY <1>3, <2>1, <2>2, <2>3
<1>. QED BY <1>2, <1>4 DEF FreeRow

\* A turn inside a stage that pays nothing, owes no more and opens no chance.
LEMMA QuietTurn ==
    ASSUME SpendInv, SpendTypeOK', NEW w \in Agents, ~Idle(w), ~Idle(w)', LoopAt(w)',
           \A v \in Agents \ {w} : agent'[v] = agent[v],
           UNCHANGED <<rowVars, sent>>, running' => running, spendFaults <= spendFaults',
           billed' + ToBill(agent'[w]) <= billed + ToBill(agent[w]),
           \A c \in ToolCalls : spendFaults < spendFaults' \/ (Open(w, c)' => Open(w, c))
    PROVE  SpendInv'
<1>1. UNCHANGED rowVars /\ sent' = sent
  OBVIOUS
<1>2. RowsOffered'
  BY <1>1 DEF SpendInv, RowsOffered, rowVars
<1>3. TotalSent' = TotalSent /\ TotalSent \in Nat
  BY <1>1, SentIsNat DEF TotalSent, SpendInv
<1>4. billed' + ToBill(agent'[w]) + TotalSent <= billed + ToBill(agent[w]) + TotalSent'
  <2>1. billed \in Nat /\ billed' \in Nat
    BY AgentSpendAssumption DEF SpendInv, SpendTypeOK
  <2>2. ToBill(agent[w]) \in Nat
    BY UnbilledNat DEF SpendInv, Unbilled
  <2>3. ToBill(agent'[w]) \in Nat
    <3>1. agent'[w].cost \in Nat
      BY DEF SpendTypeOK
    <3>2. agent'[w].pc = "paid" => agent'[w].call \in ToolCalls
      BY OfferedCalls DEF LoopAt, Idle, CallRunning
    <3>. QED BY <3>1, <3>2, BillIsNat
  <2>4. billed' + ToBill(agent'[w]) <= billed + ToBill(agent[w])
    OBVIOUS
  <2>. QED BY <1>3, <2>1, <2>2, <2>3, <2>4
<1>5. ASSUME NEW c \in ToolCalls
      PROVE  /\ Saved(c) => Saved(c)'
             /\ sent'[c] + Chances(c)'[w] + FreeRow(c)' + spendFaults
                  <= sent[c] + Chances(c)[w] + FreeRow(c) + spendFaults'
  <2>1. (Saved(c)' <=> Saved(c)) /\ FreeRow(c)' <= FreeRow(c)
    BY <1>1, InsideStage
  <2>2. FreeRow(c) \in {0, 1} /\ FreeRow(c)' \in {0, 1}
    BY DEF FreeRow
  <2>3. sent'[c] = sent[c] /\ sent[c] \in Nat /\ spendFaults \in Nat /\ spendFaults' \in Nat
    BY <1>1, AgentSpendAssumption DEF SpendInv, SpendTypeOK
  <2>4. Chances(c)'[w] \in {0, 1} /\ Chances(c)[w] \in {0, 1}
    BY DEF Chances
  <2>5. spendFaults < spendFaults' \/ Chances(c)'[w] <= Chances(c)[w]
    <3>1. /\ Chances(c)[w] = IF Open(w, c) THEN 1 ELSE 0
          /\ Chances(c)'[w] = IF Open(w, c)' THEN 1 ELSE 0
      BY DEF Chances
    <3>2. spendFaults < spendFaults' \/ (Open(w, c)' => Open(w, c))
      OBVIOUS
    <3>. QED BY <3>1, <3>2
  <2>6. spendFaults <= spendFaults'
    OBVIOUS
  <2>. QED BY <2>1, <2>2, <2>3, <2>4, <2>5, <2>6
<1>. QED BY <1>2, <1>4, <1>5, TurnBills

LEMMA ProposeHolds ==
    ASSUME SpendInv, NEW w \in Agents, NEW d \in ToolCalls, Propose(w, d)
    PROVE  SpendInv'
<1>1. /\ agent[w].pc = "loop" /\ agent[w].steps < LoopSteps
      /\ d \in Offered(agent[w].stage) \ agent[w].made
      /\ agent' = [agent EXCEPT ![w].pc = "proposed", ![w].call = d, ![w].steps = @ + 1]
      /\ UNCHANGED <<rowVars, billVars, sent, spendFaults>>
  BY DEF Propose, AgentAt
<1>2. agent[w].steps \in 0..LoopSteps /\ LoopSteps \in Nat
  BY AgentFields, AgentSpendAssumption DEF SpendInv
<1>3. agent[w].steps + 1 \in 0..LoopSteps
  BY <1>1, <1>2
<1>4. SpendTypeOK'
  BY <1>1, <1>3 DEF SpendInv, SpendTypeOK, rowVars, billVars
<1>5. /\ \A v \in Agents \ {w} : agent'[v] = agent[v]
      /\ agent'[w].pc = "proposed" /\ agent'[w].call = d /\ agent'[w].cost = agent[w].cost
      /\ agent'[w].made = agent[w].made /\ agent'[w].stage = agent[w].stage
  BY <1>1 DEF SpendInv, SpendTypeOK
<1>6. ~Idle(w) /\ ~Idle(w)'
  BY <1>1, <1>5 DEF Idle
<1>7. LoopAt(w)'
  BY <1>1, <1>5, <1>6 DEF SpendInv, LoopAt, CallRunning
<1>8. ToBill(agent'[w]) = ToBill(agent[w]) /\ billed' = billed /\ running' = running
      /\ sent' = sent /\ spendFaults' = spendFaults
  BY <1>1, <1>5 DEF ToBill, billVars
<1>9. ASSUME NEW c \in ToolCalls PROVE Open(w, c)' => Open(w, c)
  <2>1. Saved(c)' <=> Saved(c)
    BY <1>1, <1>5, <1>6, <1>8, InsideStage
  <2>. QED BY <1>1, <1>5, <1>6, <2>1 DEF Open
<1>10. ToBill(agent[w]) \in Nat /\ billed \in Nat /\ spendFaults \in Nat
  BY BillAmounts
<1>11. billed' + ToBill(agent'[w]) <= billed + ToBill(agent[w]) /\ spendFaults <= spendFaults'
  BY <1>8, <1>10
<1>. QED BY <1>1, <1>4, <1>5, <1>6, <1>7, <1>8, <1>9, <1>11, QuietTurn

\* A bought url is refused: the call the executor lets through is in no finished row.
LEMMA CheckCallHolds == ASSUME SpendInv, NEW w \in Agents, CheckCall(w) PROVE SpendInv'
<1>. DEFINE d == agent[w].call
            pc == IF Refused(d) THEN "loop" ELSE "checked"
<1>1. /\ agent[w].pc = "proposed" /\ agent' = [agent EXCEPT ![w].pc = pc]
      /\ UNCHANGED <<rowVars, billVars, sent, spendFaults>>
  BY DEF CheckCall, AgentAt, Resume
<1>2. pc \in {"loop", "checked"} /\ (pc = "checked" => ~Refused(d))
  OBVIOUS
<1>. HIDE DEF d, pc
<1>3. SpendTypeOK'
  BY <1>1, <1>2 DEF SpendInv, SpendTypeOK, rowVars, billVars
<1>4. /\ \A v \in Agents \ {w} : agent'[v] = agent[v]
      /\ agent'[w].pc = pc /\ agent'[w].call = agent[w].call
      /\ agent'[w].cost = agent[w].cost /\ agent'[w].made = agent[w].made
      /\ agent'[w].stage = agent[w].stage
  BY <1>1 DEF SpendInv, SpendTypeOK
<1>5. ~Idle(w) /\ ~Idle(w)'
  BY <1>1, <1>2, <1>4 DEF Idle
<1>6. LoopAt(w)'
  BY <1>1, <1>4, <1>5 DEF SpendInv, LoopAt, CallRunning
<1>7. /\ ToBill(agent'[w]) = ToBill(agent[w]) /\ billed' = billed /\ running' = running
      /\ sent' = sent /\ spendFaults' = spendFaults
  BY <1>1, <1>2, <1>4 DEF ToBill, billVars
<1>8. ASSUME NEW c \in ToolCalls PROVE Open(w, c)' => Open(w, c)
  <2>1. Saved(c)' <=> Saved(c)
    BY <1>1, <1>4, <1>5, <1>7, InsideStage
  <2>2. Saved(c) /\ c \in Purchases => ~(pc = "checked" /\ d = c)
    BY <1>2 DEF Saved, Refused, Purchased
  <2>. QED BY <1>1, <1>4, <1>5, <2>1, <2>2 DEF Open, d
<1>9. billed' + ToBill(agent'[w]) <= billed + ToBill(agent[w]) /\ spendFaults <= spendFaults'
  BY <1>7, BillAmounts
<1>. QED BY <1>1, <1>3, <1>4, <1>5, <1>6, <1>7, <1>8, <1>9, QuietTurn

\* The loop remembers the call and what it cost, instead of the wallet's answer.
LEMMA CallReturnsHolds == ASSUME SpendInv, NEW w \in Agents, CallReturns(w) PROVE SpendInv'
<1>. DEFINE d == agent[w].call
            sum == agent[w].cost + Price[d]
<1>1. /\ agent[w].pc = "paid"
      /\ agent' = [agent EXCEPT ![w].pc = "loop", ![w].made = @ \cup {d}, ![w].cost = sum]
      /\ UNCHANGED <<rowVars, billVars, sent, spendFaults>>
  BY DEF CallReturns, AgentAt
<1>2. /\ d \in Offered(agent[w].stage) /\ agent[w].stage \in Stages
      /\ agent[w].made \subseteq Offered(agent[w].stage)
  BY <1>1, BillAmounts DEF LoopAt, Idle, CallRunning
<1>3. d \in ToolCalls /\ sum \in Nat /\ ToBill(agent[w]) = sum
  <2>1. d \in ToolCalls /\ agent[w].cost \in Nat
    BY <1>2, OfferedCalls, BillAmounts
  <2>2. Price[d] \in Nat
    BY <2>1, PricesAreNat
  <2>. QED BY <1>1, <2>1, <2>2 DEF ToBill
<1>. HIDE DEF d, sum
<1>4. SpendTypeOK'
  <2>1. agent[w].made \cup {d} \in SUBSET ToolCalls
    BY <1>3, BillAmounts, AgentFields
  <2>. DEFINE all == agent[w].made \cup {d}
              r == [agent[w] EXCEPT !.pc = "loop", !.made = all, !.cost = sum]
              Row == [pc : {"idle", "loop", "proposed", "checked", "paid", "charge", "save"},
                      stage : Stages \cup {0}, steps : 0..LoopSteps, cost : Nat,
                      made : SUBSET ToolCalls, call : ToolCalls \cup {"none"}]
  <2>2. agent \in [Agents -> Row]
    BY DEF SpendInv, SpendTypeOK
  <2>3. agent' = [agent EXCEPT ![w] = r]
    BY <1>1, <2>2
  <2>4. all \in SUBSET ToolCalls
    BY <2>1
  <2>. HIDE DEF all
  <2>5. r \in Row
    BY <1>3, <2>2, <2>4
  <2>. HIDE DEF r, Row
  <2>6. agent' \in [Agents -> Row]
    BY <2>2, <2>3, <2>5
  <2>. QED BY <1>1, <2>6 DEF Row, SpendInv, SpendTypeOK, rowVars, billVars
<1>5. /\ \A v \in Agents \ {w} : agent'[v] = agent[v]
      /\ agent'[w].pc = "loop" /\ agent'[w].cost = sum
      /\ agent'[w].made = agent[w].made \cup {d} /\ agent'[w].stage = agent[w].stage
  BY <1>1 DEF SpendInv, SpendTypeOK
<1>6. ~Idle(w) /\ ~Idle(w)'
  BY <1>1, <1>5 DEF Idle
<1>7. LoopAt(w)'
  BY <1>2, <1>5, <1>6 DEF LoopAt, CallRunning
<1>8. /\ ToBill(agent'[w]) = sum /\ billed' = billed /\ running' = running
      /\ sent' = sent /\ spendFaults' = spendFaults
  BY <1>1, <1>3, <1>5 DEF ToBill, billVars
<1>9. ASSUME NEW c \in ToolCalls PROVE Open(w, c)' => Open(w, c)
  <2>1. Saved(c)' <=> Saved(c)
    BY <1>1, <1>5, <1>6, <1>8, InsideStage
  <2>. QED BY <1>1, <1>5, <1>6, <2>1 DEF Open, d
<1>10. billed' + ToBill(agent'[w]) <= billed + ToBill(agent[w]) /\ spendFaults <= spendFaults'
  BY <1>3, <1>8, BillAmounts
<1>. QED BY <1>1, <1>4, <1>5, <1>6, <1>7, <1>8, <1>9, <1>10, QuietTurn

\* A lost answer is a fault, which one more payment may follow.
LEMMA CallFailsHolds == ASSUME SpendInv, NEW w \in Agents, CallFails(w) PROVE SpendInv'
<1>1. /\ agent[w].pc = "paid" /\ agent' = [agent EXCEPT ![w].pc = "loop"]
      /\ spendFaults < MaxSpendFaults /\ spendFaults' = spendFaults + 1
      /\ UNCHANGED <<rowVars, billVars, sent>>
  BY DEF CallFails, AgentAt, Resume, SpendFault
<1>2. spendFaults' \in 0..MaxSpendFaults /\ spendFaults < spendFaults'
  BY <1>1, BillAmounts, AgentSpendAssumption
<1>3. SpendTypeOK'
  BY <1>1, <1>2 DEF SpendInv, SpendTypeOK, rowVars, billVars
<1>4. /\ \A v \in Agents \ {w} : agent'[v] = agent[v]
      /\ agent'[w].pc = "loop" /\ agent'[w].cost = agent[w].cost
      /\ agent'[w].made = agent[w].made /\ agent'[w].stage = agent[w].stage
  BY <1>1 DEF SpendInv, SpendTypeOK
<1>5. ~Idle(w) /\ ~Idle(w)'
  BY <1>1, <1>4 DEF Idle
<1>6. LoopAt(w)'
  BY <1>4, <1>5, BillAmounts DEF LoopAt, CallRunning
<1>7. agent[w].call \in ToolCalls
  BY <1>1, <1>5, BillAmounts, OfferedCalls DEF LoopAt, CallRunning
<1>8. billed' + ToBill(agent'[w]) <= billed + ToBill(agent[w])
  <2>1. /\ ToBill(agent'[w]) = agent[w].cost /\ billed' = billed
        /\ ToBill(agent[w]) = agent[w].cost + Price[agent[w].call]
    BY <1>1, <1>4, BillAmounts DEF ToBill, billVars
  <2>2. Price[agent[w].call] \in Nat /\ agent[w].cost \in Nat /\ billed \in Nat
    BY <1>7, PricesAreNat, BillAmounts
  <2>3. agent[w].cost <= agent[w].cost + Price[agent[w].call]
    BY <2>2
  <2>. QED BY <2>1, <2>2, <2>3
<1>9. /\ sent' = sent /\ running' = running /\ spendFaults <= spendFaults'
      /\ UNCHANGED rowVars
  BY <1>1, <1>2, BillAmounts, AgentSpendAssumption DEF billVars
<1>. QED BY <1>2, <1>3, <1>4, <1>5, <1>6, <1>8, <1>9, QuietTurn

LEMMA EndLoopHolds == ASSUME SpendInv, NEW w \in Agents, EndLoop(w) PROVE SpendInv'
<1>1. /\ agent[w].pc = "loop" /\ agent' = [agent EXCEPT ![w].pc = "charge"]
      /\ UNCHANGED <<rowVars, billVars, sent, spendFaults>>
  BY DEF EndLoop, AgentAt, Resume
<1>2. SpendTypeOK'
  BY <1>1 DEF SpendInv, SpendTypeOK, rowVars, billVars
<1>3. /\ \A v \in Agents \ {w} : agent'[v] = agent[v]
      /\ agent'[w].pc = "charge" /\ agent'[w].cost = agent[w].cost
      /\ agent'[w].made = agent[w].made /\ agent'[w].stage = agent[w].stage
  BY <1>1 DEF SpendInv, SpendTypeOK
<1>4. ~Idle(w) /\ ~Idle(w)'
  BY <1>1, <1>3 DEF Idle
<1>5. LoopAt(w)'
  BY <1>3, <1>4, BillAmounts DEF LoopAt, CallRunning
<1>6. /\ ToBill(agent'[w]) = ToBill(agent[w]) /\ billed' = billed /\ running' = running
      /\ sent' = sent /\ spendFaults' = spendFaults /\ UNCHANGED rowVars
  BY <1>1, <1>3 DEF ToBill, billVars
<1>7. ASSUME NEW c \in ToolCalls PROVE Open(w, c)' => Open(w, c)
  <2>1. Saved(c)' <=> Saved(c)
    BY <1>3, <1>4, <1>6, InsideStage
  <2>. QED BY <1>1, <1>3, <1>4, <2>1 DEF Open
<1>8. billed' + ToBill(agent'[w]) <= billed + ToBill(agent[w]) /\ spendFaults <= spendFaults'
  BY <1>6, BillAmounts
<1>. QED BY <1>2, <1>3, <1>4, <1>5, <1>6, <1>7, <1>8, QuietTurn

\* What is charged is what the worker owed.
LEMMA ChargeCallsHolds == ASSUME SpendInv, NEW w \in Agents, ChargeCalls(w) PROVE SpendInv'
<1>. DEFINE cost == agent[w].cost
<1>1. /\ agent[w].pc = "charge" /\ agent' = [agent EXCEPT ![w].pc = "save"]
      /\ UNCHANGED <<rowVars, sent, spendFaults>>
  BY DEF ChargeCalls, AgentAt, Resume
<1>2. /\ billed' = billed \/ (cost <= SpendDeposit - billed /\ billed' = billed + cost)
      /\ running' \in BOOLEAN /\ (running' => running) /\ billedStages' \subseteq Stages
  <2>1. agent[w].stage \in Stages /\ running \in BOOLEAN /\ billedStages \subseteq Stages
    BY <1>1, BillAmounts DEF LoopAt, Idle, SpendTypeOK
  <2>2. CASE UNCHANGED billVars
    BY <2>1, <2>2 DEF billVars
  <2>3. CASE /\ cost <= BalanceLeft /\ billed' = billed + cost
             /\ billedStages' = billedStages \cup {agent[w].stage} /\ UNCHANGED running
    BY <2>1, <2>3 DEF BalanceLeft
  <2>4. CASE running' = FALSE /\ UNCHANGED <<billed, billedStages>>
    BY <2>1, <2>4
  <2>. QED BY <2>2, <2>3, <2>4, Zenon DEF ChargeCalls
<1>3. cost \in Nat /\ billed \in Nat /\ billed \in 0..SpendDeposit /\ SpendDeposit \in Nat
  BY BillAmounts, AgentSpendAssumption DEF SpendTypeOK
<1>. HIDE DEF cost
<1>4. billed' \in 0..SpendDeposit /\ billed' <= billed + cost
  BY <1>2, <1>3
<1>5. SpendTypeOK'
  BY <1>1, <1>2, <1>4 DEF SpendInv, SpendTypeOK, rowVars
<1>6. /\ \A v \in Agents \ {w} : agent'[v] = agent[v]
      /\ agent'[w].pc = "save" /\ agent'[w].cost = cost
      /\ agent'[w].made = agent[w].made /\ agent'[w].stage = agent[w].stage
  BY <1>1 DEF SpendInv, SpendTypeOK, cost
<1>7. ~Idle(w) /\ ~Idle(w)'
  BY <1>1, <1>6 DEF Idle
<1>8. LoopAt(w)'
  BY <1>6, <1>7, BillAmounts DEF LoopAt, CallRunning
<1>9. ASSUME NEW c \in ToolCalls PROVE Open(w, c)' => Open(w, c)
  <2>1. Saved(c)' <=> Saved(c)
    BY <1>1, <1>2, <1>6, <1>7, InsideStage
  <2>. QED BY <1>1, <1>6, <1>7, <2>1 DEF Open
<1>10. billed' + ToBill(agent'[w]) <= billed + ToBill(agent[w])
  <2>1. ToBill(agent'[w]) = 0 /\ ToBill(agent[w]) = cost + 0
    BY <1>1, <1>6 DEF ToBill, cost
  <2>. QED BY <1>3, <1>4, <2>1
<1>11. spendFaults <= spendFaults' /\ sent' = sent /\ UNCHANGED rowVars
  BY <1>1, BillAmounts
<1>. QED BY <1>2, <1>5, <1>6, <1>7, <1>8, <1>9, <1>10, <1>11, QuietTurn

\* A payment uses the worker's chance of paying for the call.
LEMMA PayCallHolds == ASSUME SpendInv, NEW w \in Agents, PayCall(w) PROVE SpendInv'
<1>. DEFINE d == agent[w].call
<1>1. /\ agent[w].pc = "checked"
      /\ \/ sent' = [sent EXCEPT ![d] = @ + 1] /\ agent' = [agent EXCEPT ![w].pc = "paid"]
         \/ agent' = [agent EXCEPT ![w].pc = "loop"] /\ sent' = sent
      /\ UNCHANGED <<rowVars, billVars, spendFaults>>
  BY DEF PayCall, AgentAt, Resume
<1>2. agent[w].stage \in Stages /\ d \in Offered(agent[w].stage) \ agent[w].made /\ ~Idle(w)
  BY <1>1, BillAmounts DEF LoopAt, Idle, CallRunning
<1>3. d \in ToolCalls /\ (d \in Purchases <=> ~IsTips(agent[w].stage))
  BY <1>2, OfferedCalls
<1>4. PICK pc \in {"paid", "loop"} :
        /\ agent' = [agent EXCEPT ![w].pc = pc]
        /\ sent' = IF pc = "paid" THEN [sent EXCEPT ![d] = @ + 1] ELSE sent
  BY <1>1
<1>5. SpendTypeOK'
  <2>1. sent' \in [ToolCalls -> Nat]
    BY <1>3, <1>4 DEF SpendInv, SpendTypeOK
  <2>. QED BY <1>1, <1>4, <2>1 DEF SpendInv, SpendTypeOK, rowVars, billVars
<1>6. /\ \A v \in Agents \ {w} : agent'[v] = agent[v]
      /\ agent'[w].pc = pc /\ agent'[w].cost = agent[w].cost /\ agent'[w].call = d
      /\ agent'[w].made = agent[w].made /\ agent'[w].stage = agent[w].stage
  BY <1>4 DEF SpendInv, SpendTypeOK
<1>7. ~Idle(w)'
  BY <1>4, <1>6 DEF Idle
<1>8. /\ LoopAt(w)' /\ RowsOffered' /\ UNCHANGED rowVars
      /\ running' = running /\ billed' = billed /\ spendFaults' = spendFaults
  <2>1. LoopAt(w)'
    BY <1>2, <1>6, BillAmounts DEF LoopAt
  <2>. QED BY <1>1, <2>1 DEF SpendInv, RowsOffered, rowVars, billVars
<1>. HIDE DEF d
<1>9. CASE pc = "loop"
  <2>1. ASSUME NEW c \in ToolCalls PROVE Open(w, c)' => Open(w, c)
    <3>1. Saved(c)' <=> Saved(c)
      BY <1>2, <1>6, <1>7, <1>8, InsideStage
    <3>. QED BY <1>1, <1>2, <1>6, <1>9, <3>1 DEF Open
  <2>2. billed' + ToBill(agent'[w]) <= billed + ToBill(agent[w])
    <3>1. ToBill(agent'[w]) = ToBill(agent[w])
      BY <1>1, <1>6, <1>9 DEF ToBill
    <3>. QED BY <1>8, <3>1, BillAmounts
  <2>3. sent' = sent /\ spendFaults <= spendFaults'
    BY <1>4, <1>8, <1>9, BillAmounts
  <2>. QED BY <1>2, <1>5, <1>6, <1>7, <1>8, <2>1, <2>2, <2>3, QuietTurn
<1>10. CASE pc = "paid"
  <2>1. sent' = [sent EXCEPT ![d] = @ + 1] /\ sent \in [ToolCalls -> Nat]
    BY <1>4, <1>10 DEF SpendInv, SpendTypeOK
  <2>2. Price[d] \in Nat /\ sent[d] \in Nat /\ sent'[d] = sent[d] + 1
    BY <1>3, <2>1, PricesAreNat
  <2>3. TotalSent' = TotalSent + Price[d]
    <3>. DEFINE f == [c \in ToolCalls |-> sent[c] * Price[c]]
                g == [c \in ToolCalls |-> sent'[c] * Price[c]]
    <3>1. g[d] = f[d] + Price[d] /\ f[d] \in Nat /\ g[d] \in Nat
      <4>1. \A n, p \in Nat : (n + 1) * p = n * p + p /\ n * p \in Nat
        OBVIOUS
      <4>2. g[d] = (sent[d] + 1) * Price[d] /\ f[d] = sent[d] * Price[d]
        BY <1>3, <2>2
      <4>3. /\ (sent[d] + 1) * Price[d] = sent[d] * Price[d] + Price[d]
            /\ sent[d] * Price[d] \in Nat
        BY <2>2, <4>1
      <4>. QED BY <2>2, <4>2, <4>3
    <3>2. \A c \in ToolCalls \ {d} : g[c] = f[c]
      BY <2>1
    <3>3. IntOn(f, ToolCalls) /\ Total(f, ToolCalls) \in Nat /\ IsFiniteSet(ToolCalls)
      BY <2>1, CostsAreNat, AgentSpendAssumption
    <3>4. TotalSent = Total(f, ToolCalls) /\ TotalSent' = Total(g, ToolCalls)
      BY DEF TotalSent
    <3>. HIDE DEF f, g
    <3>5. Total(g, ToolCalls) = Total(f, ToolCalls) - f[d] + g[d]
      BY <1>3, <3>1, <3>2, <3>3, TotalUpdate
    <3>. QED BY <2>2, <3>1, <3>3, <3>4, <3>5
  <2>4. billed' + ToBill(agent'[w]) + TotalSent <= billed + ToBill(agent[w]) + TotalSent'
    <3>1. ToBill(agent'[w]) = agent[w].cost + Price[d] /\ ToBill(agent[w]) = agent[w].cost + 0
      BY <1>1, <1>6, <1>10 DEF ToBill
    <3>2. TotalSent \in Nat /\ agent[w].cost \in Nat /\ billed \in Nat
      BY SentIsNat, BillAmounts
    <3>. QED BY <1>8, <2>2, <2>3, <3>1, <3>2
  <2>5. ASSUME NEW c \in ToolCalls
        PROVE  /\ Saved(c) => Saved(c)'
               /\ sent'[c] + Chances(c)'[w] + FreeRow(c)' + spendFaults
                    <= sent[c] + Chances(c)[w] + FreeRow(c) + spendFaults'
    <3>1. (Saved(c)' <=> Saved(c)) /\ FreeRow(c)' <= FreeRow(c)
      BY <1>2, <1>6, <1>7, <1>8, InsideStage
    <3>2. /\ Chances(c)[w] = IF Open(w, c) THEN 1 ELSE 0
          /\ Chances(c)'[w] = IF Open(w, c)' THEN 1 ELSE 0
          /\ FreeRow(c) \in {0, 1} /\ FreeRow(c)' \in {0, 1}
      BY DEF Chances, FreeRow
    <3>3. sent[c] \in Nat /\ sent'[c] \in Nat /\ spendFaults \in Nat
      BY <1>5, BillAmounts DEF SpendTypeOK
    <3>4. CASE c = d
      <4>1. ~Open(w, c)'
        BY <1>6, <1>10, <3>4 DEF Open
      <4>2. Open(w, c)
        BY <1>1, <1>2, <1>3, <3>4 DEF Open, d
      <4>. QED BY <1>8, <2>2, <3>1, <3>2, <3>3, <3>4, <4>1, <4>2
    <3>5. CASE c # d
      <4>1. Open(w, c)' => Open(w, c)
        BY <1>1, <1>2, <1>6, <1>10, <3>1, <3>5 DEF Open
      <4>2. sent'[c] = sent[c]
        BY <2>1, <3>5
      <4>. QED BY <1>8, <3>1, <3>2, <3>3, <4>1, <4>2
    <3>. QED BY <3>4, <3>5
  <2>. QED BY <1>5, <1>6, <1>8, <2>4, <2>5, TurnBills
<1>. QED BY <1>9, <1>10

\* Waiting workers fit the type and owe nothing.
LEMMA WaitingFits ==
    ASSUME SpendTypeOK, NEW w \in Agents, agent' = [agent EXCEPT ![w] = Waiting]
    PROVE  /\ agent' \in [Agents ->
                [pc : {"idle", "loop", "proposed", "checked", "paid", "charge", "save"},
                 stage : Stages \cup {0}, steps : 0..LoopSteps, cost : Nat,
                 made : SUBSET ToolCalls, call : ToolCalls \cup {"none"}]]
           /\ agent'[w].pc = "idle" /\ \A v \in Agents \ {w} : agent'[v] = agent[v]
           /\ Idle(w)' /\ LoopAt(w)' /\ ToBill(agent'[w]) = 0
           /\ \A c \in ToolCalls : ~Open(w, c)' /\ Chances(c)'[w] = 0
<1>1. 0 \in 0..LoopSteps
  BY AgentSpendAssumption
<1>2. Waiting \in [pc : {"idle", "loop", "proposed", "checked", "paid", "charge", "save"},
                   stage : Stages \cup {0}, steps : 0..LoopSteps, cost : Nat,
                   made : SUBSET ToolCalls, call : ToolCalls \cup {"none"}]
  BY <1>1 DEF Waiting
<1>3. agent'[w].pc = "idle" /\ \A v \in Agents \ {w} : agent'[v] = agent[v]
  BY DEF SpendTypeOK, Waiting
<1>4. Idle(w)'
  BY <1>3 DEF Idle
<1>5. \A c \in ToolCalls : ~Open(w, c)'
  BY <1>4 DEF Open
<1>. QED BY <1>2, <1>3, <1>4, <1>5 DEF SpendTypeOK, LoopAt, ToBill, Chances

\* A worker that leaves its stage without a payment gives its chance to the next one, to
\* nobody, or to a fault.
LEMMA LeavesStage ==
    ASSUME SpendInv, SpendTypeOK', RowsOffered', NEW w \in Agents,
           agent' = [agent EXCEPT ![w] = Waiting], UNCHANGED <<billed, sent>>,
           \A c \in ToolCalls :
             /\ Saved(c) => Saved(c)'
             /\ Chances(c)'[w] + FreeRow(c)' + spendFaults
                  <= Chances(c)[w] + FreeRow(c) + spendFaults'
    PROVE  SpendInv'
<1>1. /\ \A v \in Agents \ {w} : agent'[v] = agent[v]
      /\ LoopAt(w)' /\ ToBill(agent'[w]) = 0
  BY WaitingFits DEF SpendInv
<1>2. TotalSent' = TotalSent /\ TotalSent \in Nat /\ billed' = billed
  BY SentIsNat DEF TotalSent, SpendInv
<1>3. billed' + ToBill(agent'[w]) + TotalSent <= billed + ToBill(agent[w]) + TotalSent'
  <2>1. billed \in Nat /\ ToBill(agent[w]) \in Nat
    BY BillAmounts
  <2>. QED BY <1>1, <1>2, <2>1
<1>4. ASSUME NEW c \in ToolCalls
      PROVE  /\ Saved(c) => Saved(c)'
             /\ sent'[c] + Chances(c)'[w] + FreeRow(c)' + spendFaults
                  <= sent[c] + Chances(c)[w] + FreeRow(c) + spendFaults'
  <2>1. /\ Chances(c)'[w] + FreeRow(c)' + spendFaults
             <= Chances(c)[w] + FreeRow(c) + spendFaults'
        /\ Saved(c) => Saved(c)'
    OBVIOUS
  <2>2. /\ Chances(c)'[w] \in {0, 1} /\ Chances(c)[w] \in {0, 1}
        /\ FreeRow(c)' \in {0, 1} /\ FreeRow(c) \in {0, 1}
    BY DEF Chances, FreeRow
  <2>3. /\ sent'[c] = sent[c] /\ sent[c] \in Nat
        /\ spendFaults \in Nat /\ spendFaults' \in Nat
    BY AgentSpendAssumption DEF SpendInv, SpendTypeOK
  <2>. QED BY <2>1, <2>2, <2>3
<1>. QED BY <1>1, <1>3, <1>4, TurnBills

\* A stage that is saved without the call leaves the chance to the next one.
LEMMA SaveCallsHolds == ASSUME SpendInv, NEW w \in Agents, SaveCalls(w) PROVE SpendInv'
<1>. DEFINE s == agent[w].stage
<1>1. /\ agent[w].pc = "save" /\ agent' = [agent EXCEPT ![w] = Waiting]
      /\ doneCalls' = [doneCalls EXCEPT ![s] = @ \cup agent[w].made]
      /\ doneStages' = doneStages \cup {s}
      /\ activeBy' = IF activeBy = w THEN NoAgent ELSE activeBy
      /\ UNCHANGED <<billVars, sent, spendFaults>>
  BY DEF SaveCalls, AgentAt
<1>2. s \in Stages /\ agent[w].made \subseteq Offered(s) /\ agent[w].made \subseteq ToolCalls
  BY <1>1, BillAmounts, OfferedCalls DEF LoopAt, Idle
<1>. HIDE DEF s
<1>3. SpendTypeOK'
  BY <1>1, <1>2, BillAmounts, WaitingFits DEF SpendTypeOK, billVars
<1>4. RowsOffered'
  BY <1>1, <1>2, BillAmounts DEF SpendInv, SpendTypeOK, RowsOffered
<1>5. billed' = billed /\ sent' = sent /\ running' = running /\ spendFaults' = spendFaults
  BY <1>1 DEF billVars
<1>6. ASSUME NEW c \in ToolCalls
      PROVE  /\ Saved(c) => Saved(c)'
             /\ Chances(c)'[w] + FreeRow(c)' + spendFaults
                  <= Chances(c)[w] + FreeRow(c) + spendFaults'
  <2>1. Saved(c) => Saved(c)'
    BY <1>1, BillAmounts DEF Saved, SpendTypeOK
  <2>2. c \in agent[w].made => Saved(c)'
    BY <1>1, <1>2, BillAmounts DEF Saved, SpendTypeOK
  <2>3. Chances(c)'[w] = 0
    BY <1>1, BillAmounts, WaitingFits
  <2>4. FreeRow(c)' = 1 => Open(w, c)
    BY <1>1, <2>1, <2>2 DEF FreeRow, Open, Idle
  <2>5. /\ Chances(c)[w] = IF Open(w, c) THEN 1 ELSE 0
        /\ FreeRow(c) \in {0, 1} /\ FreeRow(c)' \in {0, 1}
    BY DEF Chances, FreeRow
  <2>. QED BY <1>5, <2>1, <2>3, <2>4, <2>5, BillAmounts
<1>. QED BY <1>1, <1>3, <1>4, <1>5, <1>6, LeavesStage

\* A loop that throws ends the run: nobody claims a stage of it.
LEMMA LoopThrowsHolds == ASSUME SpendInv, NEW w \in Agents, LoopThrows(w) PROVE SpendInv'
<1>1. /\ agent' = [agent EXCEPT ![w] = Waiting] /\ running' = FALSE
      /\ activeBy' = IF activeBy = w THEN NoAgent ELSE activeBy
      /\ UNCHANGED <<doneCalls, doneStages, billed, billedStages, sent, spendFaults>>
  BY DEF LoopThrows
<1>2. SpendTypeOK'
  BY <1>1, BillAmounts, WaitingFits DEF SpendTypeOK
<1>3. RowsOffered'
  BY <1>1 DEF SpendInv, RowsOffered
<1>4. ASSUME NEW c \in ToolCalls
      PROVE  /\ Saved(c) => Saved(c)'
             /\ Chances(c)'[w] + FreeRow(c)' + spendFaults
                  <= Chances(c)[w] + FreeRow(c) + spendFaults'
  <2>1. Saved(c) => Saved(c)'
    BY <1>1 DEF Saved
  <2>2. Chances(c)'[w] = 0 /\ FreeRow(c)' = 0
    BY <1>1, BillAmounts, WaitingFits DEF FreeRow
  <2>3. Chances(c)[w] \in {0, 1} /\ FreeRow(c) \in {0, 1} /\ spendFaults' = spendFaults
    BY <1>1 DEF Chances, FreeRow
  <2>. QED BY <2>1, <2>2, <2>3, BillAmounts
<1>. QED BY <1>1, <1>2, <1>3, <1>4, LeavesStage

\* A worker that dies is a fault.
LEMMA AgentDiesHolds == ASSUME SpendInv, NEW w \in Agents, AgentDies(w) PROVE SpendInv'
<1>1. /\ agent' = [agent EXCEPT ![w] = Waiting]
      /\ spendFaults < MaxSpendFaults /\ spendFaults' = spendFaults + 1
      /\ UNCHANGED <<rowVars, billVars, sent>>
  BY DEF AgentDies, SpendFault
<1>2. spendFaults' \in 0..MaxSpendFaults
  BY <1>1, BillAmounts, AgentSpendAssumption
<1>3. SpendTypeOK'
  BY <1>1, <1>2, BillAmounts, WaitingFits DEF SpendTypeOK, rowVars, billVars
<1>4. RowsOffered'
  BY <1>1 DEF SpendInv, RowsOffered, rowVars
<1>5. ASSUME NEW c \in ToolCalls
      PROVE  /\ Saved(c) => Saved(c)'
             /\ Chances(c)'[w] + FreeRow(c)' + spendFaults
                  <= Chances(c)[w] + FreeRow(c) + spendFaults'
  <2>1. Saved(c) => Saved(c)'
    BY <1>1 DEF Saved, rowVars
  <2>2. Chances(c)'[w] = 0
    BY <1>1, BillAmounts, WaitingFits
  <2>3. Chances(c)[w] \in {0, 1} /\ FreeRow(c) \in {0, 1} /\ FreeRow(c)' \in {0, 1}
    BY DEF Chances, FreeRow
  <2>. QED BY <1>1, <2>1, <2>2, <2>3, BillAmounts
<1>. QED BY <1>1, <1>3, <1>4, <1>5, LeavesStage DEF billVars

\* The worker that claims a stage takes the chance of the free row; a tip that is saved
\* leaves no stage to claim it in.
LEMMA BeginStageHolds ==
    ASSUME SpendInv, NEW w \in Agents, NEW s \in Stages, BeginStage(w, s)
    PROVE  SpendInv'
<1>. DEFINE first == [Waiting EXCEPT !.pc = "loop", !.stage = s]
<1>1. /\ agent[w].pc = "idle" /\ running /\ activeBy = NoAgent /\ s \notin doneStages
      /\ activeBy' = w /\ agent' = [agent EXCEPT ![w] = first]
      /\ UNCHANGED <<doneCalls, doneStages, billVars, sent, spendFaults>>
  BY DEF BeginStage, AgentAt
<1>2. 0 \in 0..LoopSteps
  BY AgentSpendAssumption
<1>3. /\ first.pc = "loop" /\ first.stage = s /\ first.made = {} /\ first.cost = 0
      /\ first \in [pc : {"idle", "loop", "proposed", "checked", "paid", "charge", "save"},
                    stage : Stages \cup {0}, steps : 0..LoopSteps, cost : Nat,
                    made : SUBSET ToolCalls, call : ToolCalls \cup {"none"}]
  BY <1>2 DEF Waiting
<1>. HIDE DEF first
<1>4. SpendTypeOK'
  BY <1>1, <1>3, BillAmounts DEF SpendTypeOK, billVars
<1>5. /\ \A v \in Agents \ {w} : agent'[v] = agent[v]
      /\ agent'[w] = first
  BY <1>1, BillAmounts DEF SpendTypeOK
<1>6. LoopAt(w)' /\ RowsOffered' /\ ToBill(agent'[w]) = 0
  BY <1>1, <1>3, <1>5 DEF SpendInv, LoopAt, CallRunning, RowsOffered, ToBill
<1>7. billed' + ToBill(agent'[w]) + TotalSent <= billed + ToBill(agent[w]) + TotalSent'
  <2>1. TotalSent' = TotalSent /\ billed' = billed /\ TotalSent \in Nat
    BY <1>1, SentIsNat DEF TotalSent, billVars, SpendInv
  <2>2. ToBill(agent[w]) \in Nat /\ billed \in Nat
    BY BillAmounts
  <2>. QED BY <1>6, <2>1, <2>2
<1>8. ASSUME NEW c \in ToolCalls
      PROVE  /\ Saved(c) => Saved(c)'
             /\ sent'[c] + Chances(c)'[w] + FreeRow(c)' + spendFaults
                  <= sent[c] + Chances(c)[w] + FreeRow(c) + spendFaults'
  <2>1. Saved(c)' <=> Saved(c)
    BY <1>1 DEF Saved
  <2>2. FreeRow(c)' = 0
    <3>1. ~RowFree'
      BY <1>1, <1>3, <1>5, AgentSpendAssumption DEF RowFree, Idle
    <3>. QED BY <3>1 DEF FreeRow
  <2>3. FreeRow(c) = IF Saved(c) THEN 0 ELSE 1
    BY <1>1 DEF FreeRow, RowFree
  <2>4. Open(w, c)' => ~Saved(c)
    <3>1. SUFFICES ASSUME Saved(c), Open(w, c)' PROVE FALSE
      OBVIOUS
    <3>2. c \notin Purchases /\ IsTips(s)
      BY <1>3, <1>5, <2>1, <3>1 DEF Open
    <3>3. PICK t \in doneStages : c \in doneCalls[t]
      BY <3>1 DEF Saved
    <3>4. t \in Stages /\ c \in Offered(t)
      BY <3>3, BillAmounts DEF SpendInv, SpendTypeOK, RowsOffered
    <3>5. IsTips(t)
      BY <3>2, <3>4, OfferedCalls
    <3>. QED BY <1>1, <3>2, <3>3, <3>5 DEF IsTips
  <2>5. /\ Chances(c)'[w] = IF Open(w, c)' THEN 1 ELSE 0
        /\ Chances(c)[w] \in {0, 1}
    BY DEF Chances
  <2>6. /\ sent'[c] = sent[c] /\ sent[c] \in Nat /\ spendFaults' = spendFaults
        /\ spendFaults \in Nat
    BY <1>1, BillAmounts DEF SpendTypeOK
  <2>. QED BY <2>1, <2>2, <2>3, <2>4, <2>5, <2>6
<1>. QED BY <1>4, <1>5, <1>6, <1>7, <1>8, TurnBills

\* The row of a dead worker is free already; that of a live one costs a fault.
LEMMA ReclaimRowHolds == ASSUME SpendInv, ReclaimRow PROVE SpendInv'
<1>1. /\ activeBy # NoAgent /\ activeBy' = NoAgent
      /\ UNCHANGED <<doneCalls, doneStages, agent, billVars, sent>>
      /\ \/ agent[activeBy].pc = "idle" /\ spendFaults' = spendFaults
         \/ spendFaults < MaxSpendFaults /\ spendFaults' = spendFaults + 1
  BY DEF ReclaimRow, AgentAt, SpendFault
<1>2. /\ SpendTypeOK /\ spendFaults \in Nat /\ MaxSpendFaults \in Nat
      /\ spendFaults \in 0..MaxSpendFaults
  BY AgentSpendAssumption DEF SpendInv, SpendTypeOK
<1>3. spendFaults' \in 0..MaxSpendFaults
  BY <1>1, <1>2
<1>4. SpendTypeOK'
  BY <1>1, <1>2, <1>3 DEF SpendTypeOK, billVars
<1>5. RowsOffered' /\ BillsSent' /\ \A w \in Agents : LoopAt(w)'
  BY <1>1 DEF SpendInv, RowsOffered, BillsSent, Unbilled, TotalSent, LoopAt, Idle,
              CallRunning, billVars
<1>6. ASSUME NEW c \in ToolCalls PROVE FewPayments(c)'
  <2>1. Saved(c)' <=> Saved(c)
    BY <1>1 DEF Saved
  <2>2. Chances(c)' = Chances(c)
    BY <1>1, <2>1 DEF Chances, Open, Idle
  <2>3. FreeRow(c)' + spendFaults <= FreeRow(c) + spendFaults'
    <3>1. CASE agent[activeBy].pc = "idle" /\ spendFaults' = spendFaults
      <4>1. RowFree
        BY <3>1 DEF RowFree, Idle
      <4>2. FreeRow(c)' = FreeRow(c) /\ FreeRow(c) \in {0, 1}
        BY <1>1, <2>1, <4>1 DEF FreeRow, RowFree, billVars
      <4>. QED BY <1>2, <3>1, <4>2
    <3>2. CASE spendFaults' = spendFaults + 1
      <4>1. FreeRow(c)' \in {0, 1} /\ FreeRow(c) \in {0, 1}
        BY DEF FreeRow
      <4>. QED BY <1>2, <3>2, <4>1
    <3>. QED BY <1>1, <3>1, <3>2
  <2>4. sent'[c] = sent[c] /\ sent[c] \in Nat /\ spendFaults' \in Nat
    BY <1>1, <1>2 DEF SpendTypeOK
  <2>5. Total(Chances(c), Agents) \in Nat /\ FreeRow(c) \in {0, 1}
    BY ChanceSums
  <2>6. FreeRow(c)' \in {0, 1}
    BY DEF FreeRow
  <2>7. sent[c] + Total(Chances(c), Agents) + FreeRow(c) <= 1 + spendFaults
    BY DEF SpendInv, FewPayments
  <2>8. sent'[c] + Total(Chances(c), Agents) + FreeRow(c)' <= 1 + spendFaults'
    BY <1>2, <2>3, <2>4, <2>5, <2>6, <2>7
  <2>. QED BY <2>2, <2>8 DEF FewPayments
<1>. QED BY <1>4, <1>5, <1>6 DEF SpendInv

LEMMA SpendInitHolds == SpendInit => SpendInv
<1>. SUFFICES ASSUME SpendInit PROVE SpendInv
  OBVIOUS
<1>1. /\ doneCalls = [s \in Stages |-> {}] /\ doneStages = {} /\ activeBy = NoAgent
      /\ agent = [w \in Agents |-> Waiting] /\ running = TRUE /\ billed = 0
      /\ billedStages = {} /\ sent = [c \in ToolCalls |-> 0] /\ spendFaults = 0
  BY DEF SpendInit
<1>2. /\ 0 \in 0..LoopSteps /\ 0 \in 0..SpendDeposit /\ 0 \in 0..MaxSpendFaults
      /\ IsFiniteSet(Agents)
  BY AgentSpendAssumption
<1>3. Waiting \in [pc : {"idle", "loop", "proposed", "checked", "paid", "charge", "save"},
                   stage : Stages \cup {0}, steps : 0..LoopSteps, cost : Nat,
                   made : SUBSET ToolCalls, call : ToolCalls \cup {"none"}]
  BY <1>2 DEF Waiting
<1>4. SpendTypeOK
  BY <1>1, <1>2, <1>3 DEF SpendTypeOK
<1>5. \A w \in Agents : agent[w].pc = "idle"
  BY <1>1 DEF Waiting
<1>6. RowsOffered /\ \A w \in Agents : LoopAt(w)
  BY <1>1, <1>5 DEF RowsOffered, LoopAt, Idle
<1>7. BillsSent
  <2>1. \A w \in Agents : Unbilled[w] = 0
    BY <1>5 DEF Unbilled, ToBill
  <2>2. Total(Unbilled, Agents) = 0
    BY <1>2, <2>1, TotalZero
  <2>. QED BY <1>1, <1>4, <2>2, SentIsNat DEF BillsSent
<1>8. ASSUME NEW c \in ToolCalls PROVE FewPayments(c)
  <2>1. \A w \in Agents : Chances(c)[w] = 0
    BY <1>5 DEF Chances, Open, Idle
  <2>2. Total(Chances(c), Agents) = 0
    BY <1>2, <2>1, TotalZero
  <2>. QED BY <1>1, <2>2 DEF FewPayments, FreeRow
<1>. QED BY <1>4, <1>6, <1>7, <1>8 DEF SpendInv

LEMMA SpendStepHolds == SpendInv /\ [SpendNext]_spendVars => SpendInv'
<1>. SUFFICES ASSUME SpendInv, [SpendNext]_spendVars PROVE SpendInv'
  OBVIOUS
<1>1. CASE UNCHANGED spendVars
  BY <1>1 DEF spendVars, rowVars, billVars, SpendInv, SpendTypeOK, RowsOffered, BillsSent,
              Unbilled, TotalSent, LoopAt, Idle, CallRunning, FewPayments, Chances, Open,
              FreeRow, RowFree, Saved
<1>2. ASSUME NEW w \in Agents,
             \/ \E s \in Stages : BeginStage(w, s)
             \/ \E c \in ToolCalls : Propose(w, c)
             \/ CheckCall(w) \/ PayCall(w) \/ CallReturns(w) \/ CallFails(w)
             \/ EndLoop(w) \/ ChargeCalls(w) \/ SaveCalls(w) \/ LoopThrows(w)
             \/ AgentDies(w)
      PROVE  SpendInv'
  BY <1>2, BeginStageHolds, ProposeHolds, CheckCallHolds, PayCallHolds, CallReturnsHolds,
     CallFailsHolds, EndLoopHolds, ChargeCallsHolds, SaveCallsHolds, LoopThrowsHolds,
     AgentDiesHolds
<1>3. CASE ReclaimRow
  BY <1>3, ReclaimRowHolds
<1>. QED BY <1>1, <1>2, <1>3 DEF SpendNext

\* The invariant of the agent's spend holds in every state.
THEOREM SpendInvariant == SpendSpec => []SpendInv
BY SpendInitHolds, SpendStepHolds, PTL DEF SpendSpec

\* Every variable keeps its type; in particular a run is never billed past its deposit.
THEOREM SpendTypes == SpendSpec => []SpendTypeOK
BY SpendInvariant, PTL DEF SpendInv

LEMMA InvPurchasesAddUp == SpendInv => PurchasesAddUp
<1>. SUFFICES ASSUME SpendInv PROVE PurchasesAddUp
  OBVIOUS
<1>1. ASSUME NEW c \in ToolCalls PROVE sent[c] <= 1 + spendFaults
  <2>1. sent[c] + Total(Chances(c), Agents) + FreeRow(c) <= 1 + spendFaults
    BY DEF SpendInv, FewPayments
  <2>2. sent[c] \in Nat /\ spendFaults \in Nat
    BY AgentSpendAssumption DEF SpendInv, SpendTypeOK
  <2>3. Total(Chances(c), Agents) \in Nat /\ FreeRow(c) \in {0, 1}
    BY ChanceSums
  <2>. QED BY <2>1, <2>2, <2>3
<1>2. billed <= TotalSent
  <2>1. billed + Total(Unbilled, Agents) <= TotalSent
    BY DEF SpendInv, BillsSent
  <2>2. billed \in Nat /\ TotalSent \in Nat
    BY SentIsNat, AgentSpendAssumption DEF SpendInv, SpendTypeOK
  <2>3. \A w \in Agents : Unbilled[w] \in Nat
    BY UnbilledNat DEF SpendInv
  <2>4. Total(Unbilled, Agents) \in Nat
    BY <2>3, TotalNat, AgentSpendAssumption
  <2>. QED BY <2>1, <2>2, <2>4
<1>. QED BY <1>1, <1>2 DEF PurchasesAddUp, PaidAgainOnlyAfterFault, BilledForSent

\* A call is paid again only after a fault, at most once for each, and the run is billed
\* for nothing its wallet did not pay, whatever stage is replayed by whichever worker.
THEOREM AgentPaymentsAddUp == SpendSpec => []PurchasesAddUp
BY SpendInvariant, InvPurchasesAddUp, PTL
=============================================================================
