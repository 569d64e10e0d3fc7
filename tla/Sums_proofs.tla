----------------------------- MODULE Sums_proofs -----------------------------
(***************************************************************************)
(* The laws of Total, for every function and every finite set.              *)
(*                                                                          *)
(* Total is a fold: an iteration over the subsets of the set, which takes   *)
(* out one element, Pick, after the other.  That the iteration is defined   *)
(* (FoldExists) and that its order does not matter (TotalRemove) are proved *)
(* by induction.  The induction theorems of the library take the property   *)
(* as an operator, so each proof here takes instead the set of the subsets  *)
(* the statement is false of, and a least element of it (LeastSubset).      *)
(***************************************************************************)
EXTENDS Sums, FiniteSetTheorems, TLAPS

\* The element a fold takes next.
Pick(s) == CHOOSE x \in s : TRUE

\* g is the function a fold over S iterates.
Folds(g, f, S) ==
    g = [s \in SUBSET S |-> IF s = {} THEN 0 ELSE f[Pick(s)] + g[s \ {Pick(s)}]]

Fold(f, S) == CHOOSE g : Folds(g, f, S)

\* A total is the value of the fold for the whole set.
LEMMA TotalIsFold == ASSUME NEW f, NEW S PROVE Total(f, S) = Fold(f, S)[S]
BY DEF Total, Fold, Folds, Pick, MapThenSumSet, MapThenFoldSet

\* Induction over the subsets of a finite set: a set of counterexamples has a least one.
LEMMA LeastSubset ==
    ASSUME NEW S, IsFiniteSet(S), NEW Bad, Bad \subseteq SUBSET S, Bad # {}
    PROVE  \E s \in Bad : \A t \in SUBSET s : t # s => t \notin Bad
<1>1. FiniteSubsetsOf(S) = SUBSET S
  BY FS_FiniteSubsetsOfFinite
<1>2. IsWellFoundedOn(StrictSubsetOrdering(S), FiniteSubsetsOf(S))
  BY FS_StrictSubsetOrderingWellFounded
<1>3. PICK s \in Bad : \A t \in Bad : ~ (<<t, s>> \in StrictSubsetOrdering(S))
  BY <1>1, <1>2, WFMin
<1>. QED BY <1>3 DEF StrictSubsetOrdering

\* What is taken is an element.
LEMMA PickIn == ASSUME NEW s, s # {} PROVE Pick(s) \in s
BY DEF Pick

\* Folds over two sets agree on the subsets of both.
LEMMA FoldsAgree ==
    ASSUME NEW f, NEW S, IsFiniteSet(S), NEW T, NEW g, NEW h, Folds(g, f, S), Folds(h, f, T),
           NEW v \in SUBSET (S \cap T)
    PROVE  g[v] = h[v]
<1>. DEFINE Bad == {u \in SUBSET (S \cap T) : g[u] # h[u]}
<1>1. SUFFICES ASSUME Bad # {} PROVE FALSE
  OBVIOUS
<1>2. PICK s \in Bad : \A t \in SUBSET s : t # s => t \notin Bad
  <2>1. Bad \subseteq SUBSET S
    OBVIOUS
  <2>. HIDE DEF Bad
  <2>. QED BY <1>1, <2>1, LeastSubset
<1>3. s # {}
  BY DEF Folds
<1>4. Pick(s) \in s
  BY <1>3, PickIn
<1>5. g[s \ {Pick(s)}] = h[s \ {Pick(s)}]
  BY <1>2, <1>4
<1>6. /\ g[s] = f[Pick(s)] + g[s \ {Pick(s)}]
      /\ h[s] = f[Pick(s)] + h[s \ {Pick(s)}]
  BY <1>3 DEF Folds
<1>. QED BY <1>5, <1>6

\* The recursion defines a function: that of a set is put together from those of its
\* smaller subsets.
LEMMA FoldExists == ASSUME NEW f, NEW S, IsFiniteSet(S) PROVE Folds(Fold(f, S), f, S)
<1>. DEFINE Bad == {T \in SUBSET S : ~ \E g : Folds(g, f, T)}
<1>1. SUFFICES ASSUME Bad # {} PROVE FALSE
  BY DEF Fold
<1>2. PICK T \in Bad : \A U \in SUBSET T : U # T => U \notin Bad
  <2>1. Bad \subseteq SUBSET S
    OBVIOUS
  <2>. HIDE DEF Bad
  <2>. QED BY <1>1, <2>1, LeastSubset
<1>3. \A U \in SUBSET T : U # T => Folds(Fold(f, U), f, U)
  BY <1>2 DEF Fold
<1>. DEFINE rest(s) == s \ {Pick(s)}
            g == [s \in SUBSET T |-> IF s = {} THEN 0 ELSE f[Pick(s)] + Fold(f, rest(s))[rest(s)]]
<1>4. ASSUME NEW U \in SUBSET T, U # T PROVE g[U] = Fold(f, U)[U]
  <2>1. CASE U = {}
    BY <1>3, <2>1 DEF Folds
  <2>2. CASE U # {}
    <3>1. Pick(U) \in U
      BY <2>2, PickIn
    <3>2. Folds(Fold(f, U), f, U) /\ Folds(Fold(f, rest(U)), f, rest(U))
      BY <1>3, <1>4, <3>1
    <3>3. IsFiniteSet(U)
      BY FS_Subset
    <3>4. Fold(f, U)[rest(U)] = Fold(f, rest(U))[rest(U)]
      BY <3>2, <3>3, FoldsAgree
    <3>5. Fold(f, U)[U] = f[Pick(U)] + Fold(f, U)[rest(U)]
      BY <2>2, <3>2 DEF Folds
    <3>. QED BY <2>2, <3>4, <3>5
  <2>. QED BY <2>1, <2>2
<1>5. ASSUME NEW s \in SUBSET T, s # {} PROVE g[s] = f[Pick(s)] + g[s \ {Pick(s)}]
  <2>1. rest(s) \in SUBSET T /\ rest(s) # T
    BY <1>5, PickIn
  <2>2. g[rest(s)] = Fold(f, rest(s))[rest(s)]
    BY <1>4, <2>1
  <2>. QED BY <1>5, <2>2
<1>6. g = [s \in SUBSET T |-> IF s = {} THEN 0 ELSE f[Pick(s)] + g[s \ {Pick(s)}]]
  BY <1>5
<1>7. Folds(g, f, T)
  BY <1>6 DEF Folds
<1>. QED BY <1>2, <1>7

-----------------------------------------------------------------------------
(* Totals, whatever order the fold takes *)

IntOn(f, S) == \A x \in S : f[x] \in Int

\* Nothing adds up to zero.
LEMMA TotalEmpty == ASSUME NEW f PROVE Total(f, {}) = 0
<1>1. Folds(Fold(f, {}), f, {})
  BY FS_EmptySet, FoldExists
<1>. QED BY <1>1, TotalIsFold DEF Folds

\* One turn of the fold.
LEMMA TotalPick ==
    ASSUME NEW f, NEW S, IsFiniteSet(S), S # {}
    PROVE  Pick(S) \in S /\ Total(f, S) = f[Pick(S)] + Total(f, S \ {Pick(S)})
<1>. DEFINE R == S \ {Pick(S)}
<1>1. Pick(S) \in S
  BY PickIn
<1>2. IsFiniteSet(R)
  BY FS_RemoveElement
<1>3. Folds(Fold(f, S), f, S) /\ Folds(Fold(f, R), f, R)
  BY <1>2, FoldExists
<1>4. Fold(f, S)[R] = Fold(f, R)[R]
  BY <1>2, <1>3, FoldsAgree
<1>5. Fold(f, S)[S] = f[Pick(S)] + Fold(f, S)[R]
  BY <1>3 DEF Folds
<1>. QED BY <1>1, <1>4, <1>5, TotalIsFold

\* A total of integers is an integer.
LEMMA TotalInt == ASSUME NEW f, NEW S, IsFiniteSet(S), IntOn(f, S) PROVE Total(f, S) \in Int
<1>. DEFINE Bad == {T \in SUBSET S : Total(f, T) \notin Int}
<1>1. SUFFICES ASSUME Bad # {} PROVE FALSE
  OBVIOUS
<1>2. PICK s \in Bad : \A t \in SUBSET s : t # s => t \notin Bad
  <2>1. Bad \subseteq SUBSET S
    OBVIOUS
  <2>. HIDE DEF Bad
  <2>. QED BY <1>1, <2>1, LeastSubset
<1>3. s # {}
  BY TotalEmpty
<1>4. Pick(s) \in s /\ Total(f, s) = f[Pick(s)] + Total(f, s \ {Pick(s)})
  BY <1>3, FS_Subset, TotalPick
<1>. QED BY <1>2, <1>4 DEF IntOn

\* Any element may be taken out first.
LEMMA TotalRemove ==
    ASSUME NEW f, NEW S, IsFiniteSet(S), IntOn(f, S), NEW x \in S
    PROVE  Total(f, S) = f[x] + Total(f, S \ {x})
<1>. DEFINE Bad == {T \in SUBSET S : \E y \in T : Total(f, T) # f[y] + Total(f, T \ {y})}
<1>1. SUFFICES ASSUME Bad # {} PROVE FALSE
  OBVIOUS
<1>2. PICK s \in Bad : \A t \in SUBSET s : t # s => t \notin Bad
  <2>1. Bad \subseteq SUBSET S
    OBVIOUS
  <2>. HIDE DEF Bad
  <2>. QED BY <1>1, <2>1, LeastSubset
<1>3. PICK y \in s : Total(f, s) # f[y] + Total(f, s \ {y})
  OBVIOUS
<1>. DEFINE p == Pick(s)
            rest == s \ {p, y}
<1>4. p \in s /\ Total(f, s) = f[p] + Total(f, s \ {p})
  BY FS_Subset, TotalPick
<1>5. p # y
  BY <1>3, <1>4
<1>6. Total(f, s \ {p}) = f[y] + Total(f, rest)
  <2>1. s \ {p} \notin Bad /\ y \in s \ {p} /\ (s \ {p}) \ {y} = rest
    BY <1>2, <1>4, <1>5
  <2>. QED BY <2>1
<1>7. Total(f, s \ {y}) = f[p] + Total(f, rest)
  <2>1. s \ {y} \notin Bad /\ p \in s \ {y} /\ (s \ {y}) \ {p} = rest
    BY <1>2, <1>4, <1>5
  <2>. QED BY <2>1
<1>8. f[p] \in Int /\ f[y] \in Int /\ Total(f, rest) \in Int
  <2>1. IsFiniteSet(rest) /\ IntOn(f, rest)
    BY FS_Subset DEF IntOn
  <2>. QED BY <1>4, <2>1, TotalInt DEF IntOn
<1>. QED BY <1>3, <1>4, <1>6, <1>7, <1>8

\* A new element adds its value.
LEMMA TotalAdd ==
    ASSUME NEW f, NEW S, IsFiniteSet(S), NEW x, x \notin S, IntOn(f, S \cup {x})
    PROVE  Total(f, S \cup {x}) = f[x] + Total(f, S)
<1>1. IsFiniteSet(S \cup {x}) /\ (S \cup {x}) \ {x} = S
  BY FS_AddElement
<1>. QED BY <1>1, TotalRemove

\* Values add up one by one or function by function.
LEMMA TotalPlus ==
    ASSUME NEW f, NEW g, NEW h, NEW S, IsFiniteSet(S), IntOn(f, S), IntOn(g, S),
           \A x \in S : h[x] = f[x] + g[x]
    PROVE  Total(h, S) = Total(f, S) + Total(g, S)
<1>. DEFINE Bad == {T \in SUBSET S : Total(h, T) # Total(f, T) + Total(g, T)}
<1>1. SUFFICES ASSUME Bad # {} PROVE FALSE
  OBVIOUS
<1>2. PICK s \in Bad : \A t \in SUBSET s : t # s => t \notin Bad
  <2>1. Bad \subseteq SUBSET S
    OBVIOUS
  <2>. HIDE DEF Bad
  <2>. QED BY <1>1, <2>1, LeastSubset
<1>3. s # {}
  BY TotalEmpty
<1>. DEFINE p == Pick(s)
            rest == s \ {p}
<1>4. /\ p \in s /\ Total(f, s) = f[p] + Total(f, rest)
      /\ Total(g, s) = g[p] + Total(g, rest) /\ Total(h, s) = h[p] + Total(h, rest)
  BY <1>3, FS_Subset, TotalPick
<1>5. Total(h, rest) = Total(f, rest) + Total(g, rest)
  <2>1. rest \notin Bad
    BY <1>2, <1>4
  <2>. QED BY <2>1
<1>6. h[p] = f[p] + g[p] /\ f[p] \in Int /\ g[p] \in Int
  BY <1>4 DEF IntOn
<1>7. Total(f, rest) \in Int /\ Total(g, rest) \in Int
  BY FS_Subset, TotalInt DEF IntOn
<1>. QED BY <1>4, <1>5, <1>6, <1>7

\* Zeros add up to zero.
LEMMA TotalZero ==
    ASSUME NEW f, NEW S, IsFiniteSet(S), \A x \in S : f[x] = 0 PROVE Total(f, S) = 0
<1>1. Total(f, S) \in Int /\ Total(f, S) = Total(f, S) + Total(f, S)
  BY TotalInt, TotalPlus DEF IntOn
<1>2. \A n \in Int : n = n + n => n = 0
  OBVIOUS
<1>. QED BY <1>1, <1>2

\* Only the values on the set count.
LEMMA TotalSame ==
    ASSUME NEW f, NEW g, NEW S, IsFiniteSet(S), IntOn(f, S), \A x \in S : f[x] = g[x]
    PROVE  Total(f, S) = Total(g, S)
<1>. DEFINE z == [x \in S |-> 0]
<1>1. Total(z, S) = 0 /\ IntOn(z, S)
  BY TotalZero DEF IntOn
<1>2. Total(g, S) = Total(f, S) + Total(z, S)
  BY <1>1, TotalPlus DEF IntOn
<1>. QED BY <1>1, <1>2, TotalInt

\* A set may be added up in two parts.
LEMMA TotalSplit ==
    ASSUME NEW f, NEW S, IsFiniteSet(S), IntOn(f, S), NEW T \in SUBSET S
    PROVE  Total(f, S) = Total(f, T) + Total(f, S \ T)
<1>. DEFINE Bad == {U \in SUBSET T : Total(f, S) # Total(f, U) + Total(f, S \ U)}
<1>1. SUFFICES ASSUME Bad # {} PROVE FALSE
  OBVIOUS
<1>2. PICK s \in Bad : \A t \in SUBSET s : t # s => t \notin Bad
  <2>1. Bad \subseteq SUBSET S
    OBVIOUS
  <2>. HIDE DEF Bad
  <2>. QED BY <1>1, <2>1, LeastSubset
<1>3. s # {}
  <2>1. S \ {} = S
    OBVIOUS
  <2>. QED BY <2>1, TotalEmpty, TotalInt
<1>. DEFINE p == Pick(s)
            rest == s \ {p}
<1>4. p \in s /\ IsFiniteSet(s) /\ IsFiniteSet(rest) /\ IsFiniteSet(S \ rest) /\ IsFiniteSet(S \ s)
  BY <1>3, FS_Subset, PickIn
<1>5. Total(f, S) = Total(f, rest) + Total(f, S \ rest)
  <2>1. rest \notin Bad
    BY <1>2, <1>4
  <2>. QED BY <2>1
<1>6. Total(f, s) = f[p] + Total(f, rest)
  BY <1>4, TotalRemove DEF IntOn
<1>7. Total(f, S \ rest) = f[p] + Total(f, S \ s)
  <2>1. p \in S \ rest /\ (S \ rest) \ {p} = S \ s
    BY <1>4
  <2>2. IntOn(f, S \ rest)
    BY DEF IntOn
  <2>. QED BY <1>4, <2>1, <2>2, TotalRemove
<1>8. f[p] \in Int /\ Total(f, rest) \in Int /\ Total(f, S \ s) \in Int
  BY <1>4, TotalInt DEF IntOn
<1>. QED BY <1>5, <1>6, <1>7, <1>8

\* A total of natural numbers is one.
LEMMA TotalNat ==
    ASSUME NEW f, NEW S, IsFiniteSet(S), \A x \in S : f[x] \in Nat PROVE Total(f, S) \in Nat
<1>. DEFINE Bad == {T \in SUBSET S : Total(f, T) \notin Nat}
<1>1. SUFFICES ASSUME Bad # {} PROVE FALSE
  OBVIOUS
<1>2. PICK s \in Bad : \A t \in SUBSET s : t # s => t \notin Bad
  <2>1. Bad \subseteq SUBSET S
    OBVIOUS
  <2>. HIDE DEF Bad
  <2>. QED BY <1>1, <2>1, LeastSubset
<1>3. s # {}
  BY TotalEmpty
<1>4. Pick(s) \in s /\ Total(f, s) = f[Pick(s)] + Total(f, s \ {Pick(s)})
  BY <1>3, FS_Subset, TotalPick
<1>. QED BY <1>2, <1>4

\* A part adds up to no more than the whole.
LEMMA TotalSubset ==
    ASSUME NEW f, NEW S, IsFiniteSet(S), \A x \in S : f[x] \in Nat, NEW T \in SUBSET S
    PROVE  Total(f, T) <= Total(f, S)
<1>1. Total(f, S) = Total(f, T) + Total(f, S \ T)
  BY TotalSplit DEF IntOn
<1>2. Total(f, T) \in Nat /\ Total(f, S \ T) \in Nat
  BY FS_Subset, TotalNat
<1>. QED BY <1>1, <1>2

\* Smaller values add up to no more.
LEMMA TotalMonotone ==
    ASSUME NEW f, NEW g, NEW S, IsFiniteSet(S), IntOn(f, S), IntOn(g, S),
           \A x \in S : f[x] <= g[x]
    PROVE  Total(f, S) <= Total(g, S)
<1>. DEFINE d == [x \in S |-> g[x] - f[x]]
<1>1. \A x \in S : d[x] \in Nat /\ g[x] = f[x] + d[x]
  BY DEF IntOn
<1>2. IntOn(d, S)
  BY <1>1 DEF IntOn
<1>. HIDE DEF d
<1>3. Total(g, S) = Total(f, S) + Total(d, S)
  BY <1>1, <1>2, TotalPlus
<1>4. Total(d, S) \in Nat /\ Total(f, S) \in Int
  BY <1>1, TotalNat, TotalInt
<1>. QED BY <1>3, <1>4

\* A change of one value changes the total by as much.
LEMMA TotalUpdate ==
    ASSUME NEW f, NEW g, NEW S, IsFiniteSet(S), IntOn(f, S), NEW x \in S, g[x] \in Int,
           \A y \in S \ {x} : g[y] = f[y]
    PROVE  Total(g, S) = Total(f, S) - f[x] + g[x]
<1>1. IsFiniteSet(S \ {x}) /\ IntOn(f, S \ {x}) /\ IntOn(g, S)
  BY FS_RemoveElement DEF IntOn
<1>2. Total(g, S \ {x}) = Total(f, S \ {x})
  BY <1>1, TotalSame
<1>3. Total(f, S) = f[x] + Total(f, S \ {x}) /\ Total(g, S) = g[x] + Total(g, S \ {x})
  BY <1>1, TotalRemove
<1>. QED BY <1>1, <1>2, <1>3, TotalInt DEF IntOn

\* A sum moves by no more than one value does, if no other value grows.
LEMMA TotalShift ==
    ASSUME NEW f, NEW g, NEW S, IsFiniteSet(S), IntOn(f, S), IntOn(g, S), NEW x \in S,
           \A y \in S \ {x} : g[y] <= f[y]
    PROVE  Total(g, S) <= Total(f, S) - f[x] + g[x]
<1>1. IsFiniteSet(S \ {x}) /\ IntOn(f, S \ {x}) /\ IntOn(g, S \ {x})
  BY FS_RemoveElement DEF IntOn
<1>2. Total(g, S \ {x}) <= Total(f, S \ {x})
  BY <1>1, TotalMonotone
<1>3. Total(f, S) = f[x] + Total(f, S \ {x}) /\ Total(g, S) = g[x] + Total(g, S \ {x})
  BY TotalRemove
<1>4. /\ Total(f, S \ {x}) \in Int /\ Total(g, S \ {x}) \in Int
      /\ f[x] \in Int /\ g[x] \in Int
  BY <1>1, TotalInt DEF IntOn
<1>. QED BY <1>2, <1>3, <1>4

\* A factor may be taken out.
LEMMA TotalScale ==
    ASSUME NEW f, NEW h, NEW c \in Int, NEW S, IsFiniteSet(S), IntOn(f, S),
           \A x \in S : h[x] = c * f[x]
    PROVE  Total(h, S) = c * Total(f, S)
<1>. DEFINE Bad == {T \in SUBSET S : Total(h, T) # c * Total(f, T)}
<1>1. SUFFICES ASSUME Bad # {} PROVE FALSE
  OBVIOUS
<1>2. PICK s \in Bad : \A t \in SUBSET s : t # s => t \notin Bad
  <2>. HIDE DEF Bad
  <2>1. Bad \subseteq SUBSET S
    BY DEF Bad
  <2>. QED BY <1>1, <2>1, LeastSubset
<1>3. s # {}
  BY TotalEmpty
<1>. DEFINE p == Pick(s)
            rest == s \ {p}
<1>4. p \in s /\ Total(f, s) = f[p] + Total(f, rest) /\ Total(h, s) = h[p] + Total(h, rest)
  BY <1>3, FS_Subset, TotalPick
<1>5. Total(h, rest) = c * Total(f, rest)
  <2>1. rest \in SUBSET s /\ rest # s /\ rest \in SUBSET S
    BY <1>4
  <2>. QED BY <1>2, <2>1
<1>6. h[p] = c * f[p] /\ f[p] \in Int
  BY <1>4 DEF IntOn
<1>7. Total(f, rest) \in Int
  BY FS_Subset, TotalInt DEF IntOn
<1>8. \A a, b \in Int : c * (a + b) = c * a + c * b
  OBVIOUS
<1>9. c * Total(f, s) = c * f[p] + c * Total(f, rest)
  BY <1>4, <1>6, <1>7, <1>8
<1>. QED BY <1>4, <1>5, <1>6, <1>9

\* Some numbers have a greatest one.
LEMMA Greatest ==
    ASSUME NEW S, IsFiniteSet(S), S # {}, S \subseteq Int
    PROVE  \E m \in S : \A x \in S : x <= m
<1>. DEFINE Bad == {T \in SUBSET S : T # {} /\ ~ \E m \in T : \A x \in T : x <= m}
<1>1. SUFFICES ASSUME Bad # {} PROVE FALSE
  OBVIOUS
<1>2. PICK s \in Bad : \A t \in SUBSET s : t # s => t \notin Bad
  <2>. HIDE DEF Bad
  <2>1. Bad \subseteq SUBSET S
    BY DEF Bad
  <2>. QED BY <1>1, <2>1, LeastSubset
<1>3. PICK y \in s : TRUE
  OBVIOUS
<1>4. s \ {y} # {}
  BY <1>3
<1>5. PICK m \in s \ {y} : \A x \in s \ {y} : x <= m
  <2>1. s \ {y} \in SUBSET s /\ s \ {y} # s /\ s \ {y} \in SUBSET S
    BY <1>3
  <2>. QED BY <1>2, <1>4, <2>1
<1>6. \A x \in s : x <= (IF y <= m THEN m ELSE y)
  BY <1>3, <1>5
<1>. QED BY <1>3, <1>5, <1>6
=============================================================================
