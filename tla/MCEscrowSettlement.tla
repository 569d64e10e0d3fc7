-------------------------- MODULE MCEscrowSettlement --------------------------
(* TLC instances of EscrowSettlement. *)
EXTENDS EscrowSettlement, TLC

CONSTANTS u1, r1, r2

OneJob == {1}
OneUser == {u1}
OneRun == {r1}
TwoRuns == {r1, r2}
ResearchProviders == {Splitter}
EitherProvider == {Splitter, u1}
KeeperOnly == {Keeper}
EitherEvaluator == {Keeper, u1}

Symmetry == Permutations(Procs) \cup Permutations(Requests)
=============================================================================
