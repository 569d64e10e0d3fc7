----------------------------- MODULE Reputation -----------------------------
(***************************************************************************)
(* On-chain ratings of one content (contracts/NibgateReputationV2.sol), an  *)
(* upgrade of a registry that stored ratings and no totals.  The owner      *)
(* seeds the totals from a list of raters read from the hub's index         *)
(* (scripts/seed-reputation.mjs); ratings go on while the list is out.      *)
(***************************************************************************)
EXTENDS Integers, Sums

CONSTANTS
    Raters, OldRaters,     \* wallets, and those with a rating from before the upgrade
    Scores,                \* ratings used here, within 1..50
    MaxRatings             \* bound: ratings given in one behaviour

ASSUME RatingAssumption ==
    /\ IsFiniteSet(Raters) /\ OldRaters \subseteq Raters
    /\ Scores \subseteq 1..50 /\ MaxRatings \in Nat

VARIABLES
    rating,                \* stored rating by wallet; 0: none
    contentCount, contentSum, contentSeeded,
    raterList,             \* the list of a seeding under way; {} when there is none
    complete,              \* the last seeding listed every rater (history)
    given                  \* ratings given so far

ratingVars == <<rating, contentCount, contentSum, contentSeeded, raterList, complete, given>>

Rated(S) == {w \in S : rating[w] > 0}
SumOf(S) == Total(rating, S)

RatingInit ==
    /\ rating \in {f \in [Raters -> Scores \cup {0}] :
                     \A w \in Raters : f[w] > 0 <=> w \in OldRaters}
    /\ contentCount = 0 /\ contentSum = 0 /\ contentSeeded = FALSE
    /\ raterList = {} /\ complete = FALSE /\ given = 0

\* A first rating is added to the totals.
RateFirst(w, n) ==
    /\ rating[w] = 0
    /\ contentCount' = contentCount + 1 /\ contentSum' = contentSum + n
    /\ UNCHANGED contentSeeded

\* Mutant of RateAgain: the former rating stays in the total.
RateAgainAdds(w, n) ==
    /\ rating[w] > 0
    /\ contentCount' = IF contentSeeded THEN contentCount ELSE contentCount + 1
    /\ contentSum' = contentSum + n
    /\ contentSeeded' = TRUE

\* A changed one replaces the stored value; before any seeding it is taken for one
\* from before the upgrade and added first.  The subtraction is checked.
RateAgain(w, n) ==
    LET sum == contentSum + (IF contentSeeded THEN 0 ELSE rating[w]) IN
    /\ rating[w] > 0 /\ sum >= rating[w]
    /\ contentCount' = IF contentSeeded THEN contentCount ELSE contentCount + 1
    /\ contentSum' = sum - rating[w] + n
    /\ contentSeeded' = TRUE

RateContent(w, n) ==
    /\ given < MaxRatings /\ given' = given + 1
    /\ RateFirst(w, n) \/ RateAgain(w, n)
    /\ rating' = [rating EXCEPT ![w] = n]
    /\ UNCHANGED <<raterList, complete>>

\* The owner reads the raters the hub has indexed so far ...
ListRaters ==
    /\ raterList = {}
    /\ raterList' \in SUBSET Rated(Raters) \ {{}}
    /\ UNCHANGED <<rating, contentCount, contentSum, contentSeeded, complete, given>>

\* ... and seedRatings sets the totals of the listed ones, as stored by then.
SeedRatings ==
    /\ raterList # {}
    /\ contentCount' = Cardinality(Rated(raterList)) /\ contentSum' = SumOf(raterList)
    /\ contentSeeded' = TRUE
    /\ complete' = (Rated(Raters) \subseteq raterList)
    /\ raterList' = {}
    /\ UNCHANGED <<rating, given>>

RatingNext ==
    \/ \E w \in Raters, n \in Scores : RateContent(w, n)
    \/ ListRaters \/ SeedRatings

RatingSpec == RatingInit /\ [][RatingNext]_ratingVars

-----------------------------------------------------------------------------
(* Properties *)

RatingTypeOK ==
    /\ rating \in [Raters -> Scores \cup {0}]
    /\ contentCount \in Nat /\ contentSum \in Nat /\ contentSeeded \in BOOLEAN
    /\ raterList \subseteq Raters /\ complete \in BOOLEAN /\ given \in 0..MaxRatings

\* contentStats is the number of wallets with a rating and the sum of what they
\* stored.
StatsMirrorRatings ==
    contentCount = Cardinality(Rated(Raters)) /\ contentSum = SumOf(Raters)

\* Once a seeding that missed nobody has landed, the totals mirror the stored
\* ratings for good, through new and changed ratings.
SeededStatsMirror == complete => StatsMirrorRatings
=============================================================================
