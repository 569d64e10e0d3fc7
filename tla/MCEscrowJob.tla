----------------------------- MODULE MCEscrowJob -----------------------------
(* TLC instances of EscrowJob. *)
EXTENDS EscrowJob, TLC

CONSTANTS u1, u2

OneJob == {1}
TwoJobs == 1..2

OneUser == {u1}
TwoUsers == {u1, u2}
ResearchProviders == {Splitter}
AnyProvider == {Splitter, u2, ZeroAddress}
KeeperOnly == {Keeper}
AnyEvaluator == {Keeper, u2}
=============================================================================
