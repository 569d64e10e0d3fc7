-------------------------------- MODULE MCHub --------------------------------
(***************************************************************************)
(* TLC instance of the hub's payment components, of Dr. Nib's request keys  *)
(* and of its agent's wallet.  They share no state, so one run explores     *)
(* each of them in turn: a behaviour exercises one, and the others stay in  *)
(* a fixed initial state.                                                   *)
(***************************************************************************)
EXTENDS TipHolding, ProofClaims, FeePolicy, Reputation, Idempotency, AgentSpend, TLC

CONSTANTS
    Exercised,             \* the components this run explores
    alice, bob, w1, w2, c1, c2, f1, f2, f3, m1, m2, \* TipHolding
    g1, x1, q1, q2, u1, u2, b1, b2, n1, n2,     \* ProofClaims
    k1, k2,                                         \* FeePolicy
    p1, p2, t1                                      \* AgentSpend

VARIABLE exercised

\* TipHolding: two payers, three tips, one of them through the Gateway; alice
\* signs a partial refund, presented twice, and a legacy one.
MixedTips == 1..3
MixedPayers == 1 :> alice @@ 2 :> bob @@ 3 :> alice
MixedRails == 1 :> "transfer" @@ 2 :> "gateway" @@ 3 :> "transfer"
MixedUnits == 1 :> 2 @@ 2 :> 2 @@ 3 :> 1
TwoWallets == c1 :> w1 @@ c2 :> w2
Signers == f1 :> alice @@ f2 :> alice @@ f3 :> alice
Messages == f1 :> m1 @@ f2 :> m1 @@ f3 :> m2
Amounts == f1 :> 1 @@ f2 :> 1 @@ f3 :> 0

\* AgentSpend: one url offered as an unlock and as an x402 resource.
OneUrl == p1 :> "url" @@ p2 :> "url"
Prices == p1 :> 1 @@ p2 :> 2 @@ t1 :> 1

\* Where a component that is not exercised stays.
SomePresents ==
    [r \in ClaimRequests |-> [proof |-> x1, binding |-> IF r \in TipRequests THEN b1 ELSE n1]]
SomeRating == [w \in Raters |-> IF w \in OldRaters THEN 1 ELSE 0]

HubInit ==
    /\ exercised \in Exercised
    /\ HoldInit /\ ClaimsInit /\ FeeInit /\ RatingInit /\ KeyInit /\ SpendInit
    /\ exercised # "claims" => presents = SomePresents
    /\ exercised # "ratings" => rating = SomeRating

HubNext ==
    /\ UNCHANGED exercised
    /\ \/ /\ exercised = "tips" /\ HoldNext
          /\ UNCHANGED <<claimVars, feeVars, ratingVars, idemVars, spendVars>>
       \/ /\ exercised = "claims" /\ ClaimsNext
          /\ UNCHANGED <<holdVars, feeVars, ratingVars, idemVars, spendVars>>
       \/ /\ exercised = "fees" /\ FeeNext
          /\ UNCHANGED <<holdVars, claimVars, ratingVars, idemVars, spendVars>>
       \/ /\ exercised = "ratings" /\ RatingNext
          /\ UNCHANGED <<holdVars, claimVars, feeVars, idemVars, spendVars>>
       \/ /\ exercised = "keys" /\ KeyNext
          /\ UNCHANGED <<holdVars, claimVars, feeVars, ratingVars, spendVars>>
       \/ /\ exercised = "spend" /\ SpendNext
          /\ UNCHANGED <<holdVars, claimVars, feeVars, ratingVars, idemVars>>

HubSpec ==
    HubInit /\ [][HubNext]_<<exercised, holdVars, claimVars, feeVars, ratingVars, idemVars,
                             spendVars>>

\* The types of the components that keep totals: box and treasury never go below zero,
\* and neither do the totals of the ratings; a run is billed within its deposit.
HubTypeOK == HoldTypeOK /\ RatingTypeOK /\ SpendTypeOK
=============================================================================
