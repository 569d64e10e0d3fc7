--------------------------- MODULE MCRunLifecycle ---------------------------
(* TLC instances of RunLifecycle: the stages of a round, the row ids, and    *)
(* the symmetry of the interchangeable processes.                            *)
EXTENDS RunLifecycle, TLC

ReviewOnly == <<"review">>
ShortRound == <<"search", "review">>
MediumRound == <<"data", "review">>

FewRows == 1..5
RowIds == 1..8
ManyRows == 1..14

Symmetry == Permutations(Workers) \cup Permutations(Requests)
=============================================================================
