-------------------------------- MODULE Sums --------------------------------
(***************************************************************************)
(* The sum of the values a function takes on a finite set, as the ledgers   *)
(* of every component are added up.  Sums_proofs has its laws.              *)
(***************************************************************************)
EXTENDS Integers, FiniteSetsExt

Total(f, S) == MapThenSumSet(LAMBDA x : f[x], S)
=============================================================================
