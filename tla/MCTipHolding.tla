---------------------------- MODULE MCTipHolding ----------------------------
(***************************************************************************)
(* TLC instance of TipHolding for the liveness question: one tip paid       *)
(* through the Gateway, never claimed, and its payer, who asks for it back  *)
(* as often as the answer says to.                                          *)
(***************************************************************************)
EXTENDS TipHolding, TLC

CONSTANTS alice, f1, m1

LoneTip == {1}
LonePayer == 1 :> alice
LoneRail == 1 :> "gateway"
LoneUnits == 1 :> 3
NoClaims == [c \in {} |-> NoWallet]
LoneSigner == f1 :> alice
LoneMessage == f1 :> m1
LoneAmount == f1 :> 0
=============================================================================
