----------------------------- MODULE Hub_proofs -----------------------------
(***************************************************************************)
(* Theorems about the two small contracts of the hub: FeePolicy, for any    *)
(* creators, fees, cap, delay and grace period, and Reputation, for any     *)
(* finite set of wallets; and about the hub of MCHub as a whole.            *)
(*                                                                          *)
(* An operation that is scheduled becomes ready exactly a delay after it    *)
(* was announced last (Announced); the cap of a wallet bounds every share   *)
(* of the treasury, however the balance is cut up.  The totals of a content *)
(* follow its ratings one by one once a seeding has made them equal.        *)
(* Taken together the components behave as each does alone.                 *)
(***************************************************************************)
EXTENDS MCHub, TipHolding_proofs, OnceOnly_proofs

\* What the timelock knows of an operation agrees with when it was announced.
Announced ==
    /\ now >= 1
    /\ \A o \in Operations : readyAt[o] # 0 =>
         announcedAt[o] # 0 /\ readyAt[o] = announcedAt[o] + Delay

FeeInv == FeeTypeOK /\ Announced /\ TreasuryWithinCap

-----------------------------------------------------------------------------
(* Amounts *)

\* Fees and payments are natural numbers.
LEMMA FeesAreNat == ASSUME NEW n \in FeeChoices PROVE n \in Nat
BY FeeAssumption

LEMMA ReceiptsAreNat == ASSUME NEW n \in Receipts PROVE n \in Nat
BY FeeAssumption

\* The treasury's share of a balance is at most the cap's, and no more than the balance.
LEMMA ShareFits ==
    ASSUME FeeTypeOK, NEW c \in Creators
    PROVE  /\ TreasuryShare(c) \in Nat /\ TreasuryShare(c) <= held[c]
           /\ 10000 * TreasuryShare(c) <= MaxFeeBps * held[c]
           /\ MaxFeeBps * held[c] \in Nat
<1>1. /\ held[c] \in Nat /\ feeBps[c] \in Nat /\ feeBps[c] <= MaxFeeBps
      /\ MaxFeeBps \in Nat /\ MaxFeeBps <= 5000
  BY FeeAssumption DEF FeeTypeOK
<1>. DEFINE h == held[c]
            f == feeBps[c]
<1>2. h * f \in Nat /\ h * f <= MaxFeeBps * h /\ MaxFeeBps * h <= 5000 * h
      /\ MaxFeeBps * h \in Nat
  BY <1>1
<1>3. ASSUME NEW p \in Nat, NEW m \in Nat, p <= m, m <= 5000 * h
      PROVE  p \div 10000 \in Nat /\ 10000 * (p \div 10000) <= m /\ p \div 10000 <= h
  BY <1>1, <1>3
<1>. QED BY <1>2, <1>3 DEF TreasuryShare

\* Splitting one more balance keeps the treasury within the cap of what it split.
LEMMA DistributeWithinCap ==
    ASSUME FeeTypeOK, TreasuryWithinCap, NEW c \in Creators, Distribute(c)
    PROVE  TreasuryWithinCap'
<1>. SUFFICES ASSUME NEW d \in Creators
              PROVE  10000 * taken'[d] <= MaxFeeBps * (earned'[d] + taken'[d])
  BY DEF TreasuryWithinCap
<1>. DEFINE s == TreasuryShare(c)
<1>1. CASE d # c
  <2>1. taken'[d] = taken[d] /\ earned'[d] = earned[d]
    BY <1>1 DEF Distribute, FeeTypeOK
  <2>. QED BY <2>1 DEF TreasuryWithinCap
<1>2. CASE d = c
  <2>1. taken'[c] = taken[c] + s /\ earned'[c] = earned[c] + held[c] - s
    BY DEF Distribute, FeeTypeOK
  <2>2. /\ s \in Nat /\ s <= held[c] /\ 10000 * s <= MaxFeeBps * held[c]
        /\ taken[c] \in Nat /\ earned[c] \in Nat /\ held[c] \in Nat /\ MaxFeeBps \in Nat
    BY ShareFits, FeeAssumption DEF FeeTypeOK
  <2>3. 10000 * taken[c] <= MaxFeeBps * (earned[c] + taken[c])
    BY DEF TreasuryWithinCap
  <2>4. earned'[c] + taken'[c] = (earned[c] + taken[c]) + held[c]
    BY <2>1, <2>2
  <2>5. MaxFeeBps * ((earned[c] + taken[c]) + held[c])
          = MaxFeeBps * (earned[c] + taken[c]) + MaxFeeBps * held[c]
    BY <2>2
  <2>6. 10000 * (taken[c] + s) = 10000 * taken[c] + 10000 * s
    BY <2>2
  <2>7. /\ MaxFeeBps * (earned[c] + taken[c]) \in Nat /\ MaxFeeBps * held[c] \in Nat
        /\ 10000 * taken[c] \in Nat /\ 10000 * s \in Nat
    BY <2>2
  <2>. QED BY <1>2, <2>1, <2>2, <2>3, <2>4, <2>5, <2>6, <2>7
<1>. QED BY <1>1, <1>2

\* Money that arrives is added to the balance of its wallet.
LEMMA ReceiveGrows ==
    ASSUME held \in [Creators -> Nat], NEW c \in Creators, Receive(c)
    PROVE  held' \in [Creators -> Nat]
<1>1. PICK n \in Receipts : /\ held[c] + earned[c] + taken[c] + n <= MaxReceived
                            /\ held' = [held EXCEPT ![c] = @ + n]
  BY Zenon DEF Receive
<1>2. n \in Nat
  BY ReceiptsAreNat
<1>. QED BY <1>1, <1>2

-----------------------------------------------------------------------------
(* The invariant *)

\* An operation is a creator and a fee.
LEMMA OperationParts ==
    ASSUME NEW o \in Operations
    PROVE  o[1] \in Creators /\ o[2] \in Nat /\ o = <<o[1], o[2]>>
<1>1. PICK c \in Creators, n \in FeeChoices : o = <<c, n>>
  BY DEF Operations
<1>2. n \in Nat
  BY FeesAreNat
<1>. QED BY <1>1, <1>2

LEMMA FeeInitHolds == FeeInit => FeeInv
<1>. SUFFICES ASSUME FeeInit PROVE FeeInv
  OBVIOUS
<1>1. FeeTypeOK
  BY FeeAssumption DEF FeeInit, FeeTypeOK
<1>2. Announced
  BY DEF FeeInit, Announced
<1>3. ASSUME NEW c \in Creators
      PROVE  10000 * taken[c] <= MaxFeeBps * (earned[c] + taken[c])
  <2>1. taken[c] = 0 /\ earned[c] = 0 /\ MaxFeeBps \in Nat
    BY FeeAssumption DEF FeeInit
  <2>2. 10000 * 0 <= MaxFeeBps * (0 + 0)
    BY <2>1
  <2>. QED BY <2>1, <2>2
<1>. QED BY <1>1, <1>2, <1>3 DEF FeeInv, TreasuryWithinCap

\* Every step preserves the invariant.
LEMMA FeeStepHolds == FeeInv /\ [FeeNext]_feeVars => FeeInv'
<1>. SUFFICES ASSUME FeeInv, [FeeNext]_feeVars PROVE FeeInv'
  OBVIOUS
<1>. USE FeeAssumption
<1>0. FeeTypeOK /\ now \in Nat
  BY DEF FeeInv, FeeTypeOK
<1>1. CASE UNCHANGED feeVars
  BY <1>1 DEF feeVars, FeeInv, FeeTypeOK, Announced, TreasuryWithinCap
<1>2. CASE Tick
  BY <1>0, <1>2 DEF Tick, timelockVars, walletVars, FeeInv, FeeTypeOK, Announced,
                    TreasuryWithinCap
<1>3. ASSUME NEW o \in Operations, Schedule(o) PROVE FeeInv'
  <2>1. FeeTypeOK'
    BY <1>0, <1>3 DEF Schedule, walletVars, FeeTypeOK
  <2>2. Announced'
    BY <1>0, <1>3 DEF Schedule, FeeInv, FeeTypeOK, Announced
  <2>3. TreasuryWithinCap'
    BY <1>3 DEF Schedule, walletVars, FeeInv, TreasuryWithinCap
  <2>. QED BY <2>1, <2>2, <2>3 DEF FeeInv
<1>4. ASSUME NEW o \in Operations, Execute(o) PROVE FeeInv'
  <2>1. o[1] \in Creators /\ o[2] \in Nat
    BY OperationParts
  <2>2. FeeTypeOK'
    BY <1>0, <1>4, <2>1 DEF Execute, SetFee, FeeTypeOK
  <2>3. Announced'
    BY <1>0, <1>4 DEF Execute, FeeInv, FeeTypeOK, Announced
  <2>4. TreasuryWithinCap'
    BY <1>4 DEF Execute, FeeInv, TreasuryWithinCap
  <2>. QED BY <2>2, <2>3, <2>4 DEF FeeInv
<1>5. ASSUME NEW o \in Operations, Cancel(o) PROVE FeeInv'
  BY <1>5 DEF Cancel, walletVars, FeeInv, FeeTypeOK, Announced, TreasuryWithinCap
<1>6. ASSUME NEW c \in Creators, Deploy(c) \/ Receive(c) PROVE FeeInv'
  <2>1. held' \in [Creators -> Nat] /\ deployed' \in [Creators -> BOOLEAN]
    <3>1. CASE Deploy(c)
      BY <1>0, <3>1 DEF Deploy, FeeTypeOK
    <3>2. CASE Receive(c)
      BY <1>0, <3>2, ReceiveGrows DEF Receive, FeeTypeOK
    <3>. QED BY <1>6, <3>1, <3>2
  <2>2. UNCHANGED <<now, readyAt, cancelled, announcedAt, feeBps, earned, taken>>
    BY <1>6 DEF Deploy, Receive, timelockVars
  <2>. QED BY <2>1, <2>2 DEF FeeInv, FeeTypeOK, Announced, TreasuryWithinCap
<1>7. ASSUME NEW c \in Creators, Distribute(c) PROVE FeeInv'
  <2>1. TreasuryShare(c) \in Nat /\ TreasuryShare(c) <= held[c]
    BY <1>0, ShareFits
  <2>2. FeeTypeOK'
    BY <1>0, <1>7, <2>1 DEF Distribute, timelockVars, FeeTypeOK
  <2>3. Announced'
    BY <1>7 DEF Distribute, timelockVars, FeeInv, Announced
  <2>. QED BY <1>7, <2>2, <2>3, DistributeWithinCap DEF FeeInv
<1>. QED BY <1>1, <1>2, <1>3, <1>4, <1>5, <1>6, <1>7 DEF FeeNext

\* The invariant holds in every state.
THEOREM FeeInvariant == FeeSpec => []FeeInv
BY FeeInitHolds, FeeStepHolds, PTL DEF FeeSpec

\* Every variable keeps its type; in particular no fee passes the cap of its wallet.
THEOREM FeeTypes == FeeSpec => []FeeTypeOK
BY FeeInvariant, PTL DEF FeeInv

\* The treasury never has more than the cap's share of what went through a wallet,
\* for any sequence of fees and splits.
THEOREM TreasuryStaysWithinCap == FeeSpec => []TreasuryWithinCap
BY FeeInvariant, PTL DEF FeeInv

\* A fee only ever moves to a value announced at least a delay and at most a delay and
\* a grace period before, and not cancelled since.
THEOREM FeesMoveWithNotice == FeeSpec => FeeMoveNoticed
<1>. DEFINE Noticed(c) ==
       /\ <<c, feeBps'[c]>> \in Operations
       /\ ~cancelled[<<c, feeBps'[c]>>]
       /\ announcedAt[<<c, feeBps'[c]>>] # 0
       /\ now - announcedAt[<<c, feeBps'[c]>>] \in Delay..(Delay + GracePeriod)
<1>1. FeeInv /\ [FeeNext]_feeVars
        => [\A c \in Creators : feeBps'[c] # feeBps[c] => Noticed(c)]_feeVars
  <2>. SUFFICES ASSUME FeeInv, FeeNext, NEW c \in Creators, feeBps'[c] # feeBps[c]
                PROVE  Noticed(c)
    OBVIOUS
  <2>. USE FeeAssumption
  <2>1. PICK o \in Operations : Execute(o)
    BY DEF FeeNext, Tick, Schedule, Cancel, Deploy, Receive, Distribute, walletVars
  <2>2. o[1] = c /\ feeBps'[c] = o[2]
    BY <2>1 DEF Execute, SetFee, FeeInv, FeeTypeOK
  <2>3. o = <<c, feeBps'[c]>>
    BY <2>2, OperationParts
  <2>4. /\ announcedAt[o] # 0 /\ readyAt[o] = announcedAt[o] + Delay
        /\ announcedAt[o] \in Nat /\ now \in Nat
        /\ now >= readyAt[o] /\ now <= readyAt[o] + GracePeriod /\ ~cancelled[o]
    BY <2>1 DEF Execute, Executable, InGrace, FeeInv, FeeTypeOK, Announced
  <2>. QED BY <2>3, <2>4
<1>. QED BY <1>1, FeeInvariant, PTL DEF FeeSpec, FeeMoveNoticed

-----------------------------------------------------------------------------
(* Ratings *)

\* A complete seeding leaves the content seeded: no later rating is taken for one from
\* before the upgrade.
RatingInv ==
    /\ RatingTypeOK
    /\ complete => contentSeeded
    /\ SeededStatsMirror

\* What raters stored is a natural number, and there are finitely many of them.
LEMMA RatingsFinite ==
    ASSUME RatingTypeOK, NEW S \in SUBSET Raters
    PROVE  /\ IsFiniteSet(S) /\ IsFiniteSet(Rated(S)) /\ Cardinality(Rated(S)) \in Nat
           /\ \A w \in Raters : rating[w] \in Nat
           /\ IntOn(rating, S) /\ SumOf(S) \in Nat
<1>1. IsFiniteSet(S)
  BY RatingAssumption, FS_Subset
<1>2. IsFiniteSet(Rated(S)) /\ Cardinality(Rated(S)) \in Nat
  BY <1>1, FS_Subset, FS_CardinalityType DEF Rated
<1>3. \A w \in Raters : rating[w] \in Nat
  <2>1. \A n \in Scores \cup {0} : n \in Nat
    BY RatingAssumption
  <2>. QED BY <2>1 DEF RatingTypeOK
<1>4. \A w \in S : rating[w] \in Nat
  BY <1>3
<1>5. IntOn(rating, S)
  BY <1>4 DEF IntOn
<1>6. SumOf(S) \in Nat
  BY <1>1, <1>4, TotalNat DEF SumOf
<1>. QED BY <1>1, <1>2, <1>3, <1>5, <1>6

\* A new rating moves the sum by the difference, and the count if it is the first.
LEMMA RatingMoves ==
    ASSUME RatingTypeOK, NEW w \in Raters, NEW n \in Scores,
           rating' = [rating EXCEPT ![w] = n]
    PROVE  /\ SumOf(Raters)' = SumOf(Raters) - rating[w] + n
           /\ Cardinality(Rated(Raters))' =
                IF rating[w] = 0 THEN Cardinality(Rated(Raters)) + 1
                                 ELSE Cardinality(Rated(Raters))
<1>1. /\ IsFiniteSet(Raters) /\ IsFiniteSet(Rated(Raters)) /\ IntOn(rating, Raters)
      /\ rating[w] \in Nat /\ n \in Nat /\ n > 0
  BY RatingsFinite, RatingAssumption
<1>2. rating'[w] = n /\ \A v \in Raters \ {w} : rating'[v] = rating[v]
  BY DEF RatingTypeOK
<1>3. Total(rating', Raters) = Total(rating, Raters) - rating[w] + rating'[w]
  <2>1. rating'[w] \in Int
    BY <1>1, <1>2
  <2>2. /\ IsFiniteSet(Raters) /\ IntOn(rating, Raters)
        /\ \A v \in Raters \ {w} : rating'[v] = rating[v]
    BY <1>1, <1>2
  <2>. DEFINE g == rating'
  <2>3. w \in Raters /\ g[w] \in Int /\ \A v \in Raters \ {w} : g[v] = rating[v]
    BY <2>1, <2>2
  <2>. HIDE DEF g
  <2>4. Total(g, Raters) = Total(rating, Raters) - rating[w] + g[w]
    BY <2>2, <2>3, TotalUpdate
  <2>. QED BY <2>4 DEF g
<1>4. Rated(Raters)' = Rated(Raters) \cup {w}
  BY <1>1, <1>2 DEF Rated
<1>5. w \in Rated(Raters) <=> rating[w] # 0
  BY <1>1 DEF Rated
<1>6. CASE rating[w] = 0
  BY <1>1, <1>4, <1>5, <1>6, <1>2, <1>3, FS_AddElement DEF SumOf
<1>7. CASE rating[w] # 0
  BY <1>4, <1>5, <1>7, <1>2, <1>3 DEF SumOf
<1>. QED BY <1>6, <1>7

\* One rating, first or changed, keeps the invariant.
LEMMA RateContentHolds ==
    ASSUME RatingInv, NEW w \in Raters, NEW n \in Scores, RateContent(w, n)
    PROVE  RatingInv'
<1>. DEFINE C == Cardinality(Rated(Raters))
            T == SumOf(Raters)
<1>1. /\ RatingTypeOK /\ rating[w] \in Nat /\ n \in Nat
      /\ contentCount \in Nat /\ contentSum \in Nat
      /\ C \in Nat /\ T \in Nat
  BY RatingsFinite, RatingAssumption DEF RatingInv, RatingTypeOK
<1>2. /\ rating' = [rating EXCEPT ![w] = n] /\ given' = given + 1 /\ given < MaxRatings
      /\ UNCHANGED <<raterList, complete>>
      /\ RateFirst(w, n) \/ RateAgain(w, n)
  BY DEF RateContent
<1>3. /\ T' = T - rating[w] + n
      /\ C' = IF rating[w] = 0 THEN C + 1 ELSE C
  BY <1>1, <1>2, RatingMoves
<1>4. complete => contentSeeded /\ contentCount = C /\ contentSum = T
  BY DEF RatingInv, SeededStatsMirror, StatsMirrorRatings
<1>5. /\ rating' \in [Raters -> Scores \cup {0}] /\ given' \in 0..MaxRatings
  BY <1>1, <1>2, RatingAssumption DEF RatingTypeOK
<1>. HIDE DEF C, T
<1>6. CASE RateFirst(w, n)
  <2>1. /\ rating[w] = 0 /\ contentCount' = contentCount + 1
        /\ contentSum' = contentSum + n /\ contentSeeded' = contentSeeded
    BY <1>6 DEF RateFirst
  <2>2. RatingTypeOK'
    BY <1>1, <1>2, <1>5, <2>1 DEF RatingTypeOK
  <2>3. complete' => contentSeeded' /\ contentCount' = C' /\ contentSum' = T'
    BY <1>1, <1>2, <1>3, <1>4, <2>1
  <2>. QED BY <2>2, <2>3 DEF RatingInv, SeededStatsMirror, StatsMirrorRatings, C, T
<1>7. CASE RateAgain(w, n)
  <2>1. /\ rating[w] > 0 /\ contentSeeded' = TRUE
        /\ contentSum + (IF contentSeeded THEN 0 ELSE rating[w]) >= rating[w]
        /\ contentCount' = IF contentSeeded THEN contentCount ELSE contentCount + 1
        /\ contentSum' = contentSum + (IF contentSeeded THEN 0 ELSE rating[w])
                            - rating[w] + n
    BY <1>1, <1>7 DEF RateAgain, RatingTypeOK
  <2>2. contentCount' \in Nat /\ contentSum' \in Nat
    BY <1>1, <2>1
  <2>3. RatingTypeOK'
    BY <1>1, <1>2, <1>5, <2>1, <2>2 DEF RatingTypeOK
  <2>4. complete' => contentSeeded' /\ contentCount' = C' /\ contentSum' = T'
    BY <1>1, <1>2, <1>3, <1>4, <2>1
  <2>. QED BY <2>3, <2>4 DEF RatingInv, SeededStatsMirror, StatsMirrorRatings, C, T
<1>. QED BY <1>2, <1>6, <1>7

\* A seeding that lists every rater makes the totals equal, one that misses some is not
\* complete.
LEMMA SeedRatingsHolds == ASSUME RatingInv, SeedRatings PROVE RatingInv'
<1>1. RatingTypeOK /\ raterList \in SUBSET Raters
  BY DEF RatingInv, RatingTypeOK
<1>2. /\ rating' = rating /\ given' = given /\ raterList' = {} /\ contentSeeded' = TRUE
      /\ contentCount' = Cardinality(Rated(raterList)) /\ contentSum' = SumOf(raterList)
      /\ complete' = (Rated(Raters) \subseteq raterList)
  BY DEF SeedRatings
<1>3. RatingTypeOK'
  <2>1. contentCount' \in Nat /\ contentSum' \in Nat
    BY <1>1, <1>2, RatingsFinite
  <2>. QED BY <1>1, <1>2, <2>1 DEF RatingTypeOK
<1>4. ASSUME Rated(Raters) \subseteq raterList
      PROVE  Rated(raterList) = Rated(Raters) /\ SumOf(raterList) = SumOf(Raters)
  <2>1. Rated(raterList) = Rated(Raters)
    BY <1>1, <1>4 DEF Rated
  <2>0. \A w \in Raters : rating[w] \in Nat
    BY <1>1, RatingsFinite
  <2>2. \A w \in Raters : w \notin raterList => rating[w] = 0
    BY <1>4, <2>0 DEF Rated
  <2>3. IsFiniteSet(Raters) /\ IsFiniteSet(Raters \ raterList) /\ IntOn(rating, Raters)
    BY <1>1, RatingsFinite, RatingAssumption
  <2>4. Total(rating, Raters \ raterList) = 0
    BY <2>2, <2>3, TotalZero
  <2>5. Total(rating, Raters) = Total(rating, raterList) + Total(rating, Raters \ raterList)
    BY <1>1, <2>3, TotalSplit
  <2>6. Total(rating, raterList) \in Nat
    BY <1>1, RatingsFinite DEF SumOf
  <2>. QED BY <2>1, <2>4, <2>5, <2>6 DEF SumOf
<1>5. Rated(Raters)' = Rated(Raters) /\ SumOf(Raters)' = SumOf(Raters)
  BY <1>2 DEF Rated, SumOf
<1>6. complete' => contentCount' = Cardinality(Rated(Raters)') /\ contentSum' = SumOf(Raters)'
  BY <1>2, <1>4, <1>5
<1>. QED BY <1>2, <1>3, <1>6 DEF RatingInv, SeededStatsMirror, StatsMirrorRatings

LEMMA RatingInitHolds == RatingInit => RatingInv
<1>. SUFFICES ASSUME RatingInit PROVE RatingInv
  OBVIOUS
<1>1. rating \in [Raters -> Scores \cup {0}]
  BY Zenon DEF RatingInit
<1>2. /\ contentCount = 0 /\ contentSum = 0 /\ contentSeeded = FALSE
      /\ raterList = {} /\ complete = FALSE /\ given = 0
  BY DEF RatingInit
<1>3. RatingTypeOK
  <2>1. given \in 0..MaxRatings
    BY <1>2, RatingAssumption
  <2>. QED BY <1>1, <1>2, <2>1 DEF RatingTypeOK
<1>. QED BY <1>2, <1>3 DEF RatingInv, SeededStatsMirror

LEMMA RatingStepHolds == RatingInv /\ [RatingNext]_ratingVars => RatingInv'
<1>. SUFFICES ASSUME RatingInv, [RatingNext]_ratingVars PROVE RatingInv'
  OBVIOUS
<1>1. CASE UNCHANGED ratingVars
  BY <1>1 DEF ratingVars, RatingInv, RatingTypeOK, SeededStatsMirror, StatsMirrorRatings,
              Rated, SumOf
<1>2. CASE ListRaters
  <2>1. raterList' \subseteq Raters
    BY <1>2 DEF ListRaters, Rated
  <2>. QED BY <1>2, <2>1 DEF ListRaters, RatingInv, RatingTypeOK, SeededStatsMirror,
                             StatsMirrorRatings, Rated, SumOf
<1>. QED BY <1>1, <1>2, RateContentHolds, SeedRatingsHolds DEF RatingNext

\* The invariant of the ratings holds in every state.
THEOREM RatingInvariant == RatingSpec => []RatingInv
BY RatingInitHolds, RatingStepHolds, PTL DEF RatingSpec

\* The totals of a content and what its raters stored keep their types: no subtraction
\* of a former rating ever falls below zero.
THEOREM RatingTypes == RatingSpec => []RatingTypeOK
BY RatingInvariant, PTL DEF RatingInv

\* Once a seeding that missed nobody has landed, count and sum are those of the stored
\* ratings for good, whoever rates first or again.
THEOREM TotalsMirrorRatings == RatingSpec => []SeededStatsMirror
BY RatingInvariant, PTL DEF RatingInv

-----------------------------------------------------------------------------
(* The hub *)

\* The components share no state, so that each behaves in the hub as it does alone:
\* what is proved of tips (hub-routes.js), claims (tip-idempotency.js), fees
\* (Timelock.sol), ratings (NibgateReputationV2.sol), keys (idempotency.js) and the
\* agent's purchases (spend/) holds of all of them together.
THEOREM HubIsItsParts ==
    HubSpec => HoldSpec /\ ClaimsSpec /\ FeeSpec /\ RatingSpec /\ KeySpec /\ SpendSpec
<1>. DEFINE hubVars == <<exercised, holdVars, claimVars, feeVars, ratingVars, idemVars, spendVars>>
<1>1. HubInit => HoldInit /\ ClaimsInit /\ FeeInit /\ RatingInit /\ KeyInit /\ SpendInit
  BY DEF HubInit
<1>2. [HubNext]_hubVars => /\ [HoldNext]_holdVars /\ [ClaimsNext]_claimVars /\ [FeeNext]_feeVars
                           /\ [RatingNext]_ratingVars /\ [KeyNext]_idemVars
                           /\ [SpendNext]_spendVars
  BY DEF HubNext
<1>. QED
  BY <1>1, <1>2, PTL DEF HubSpec, HoldSpec, ClaimsSpec, FeeSpec, RatingSpec, KeySpec, SpendSpec

\* In the hub taken together no box, treasury or total ever goes below zero, and no run of
\* the agent is billed past its deposit.
THEOREM HubTypes == HubSpec => []HubTypeOK
<1>. QED BY HubIsItsParts, HoldTypes, RatingTypes, SpendTypes, PTL DEF HubTypeOK

=============================================================================
