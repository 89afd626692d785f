------------------------------ MODULE PolicyProofs ---------------------------
(****************************************************************************)
(* Theorems about the parts that decide and keep account, composed as in    *)
(* MCPolicy: each part keeps an inductive invariant of its own, whatever    *)
(* part moves; the theorems put them together.  This module has what the    *)
(* others rest on, the accounts, the providers of models and the            *)
(* experiments on prompts.                                                  *)
(****************************************************************************)
EXTENDS MCPolicy, FiniteSetsExt, SequencesExt, FiniteSetTheorems,
        WellFoundedInduction, TLAPS

(****************************************************************************)
(* Folds of the community modules, which the proofs about sums and          *)
(* sequences rest on.  A fold is a recursive function on the subsets of a   *)
(* finite set; that there is such a function is shown with the smallest     *)
(* number for which there would be none.                                    *)
(****************************************************************************)

\* Of natural numbers there is a smallest: of finite sets ordered by inclusion
\* there is a minimal one.
LEMMA Smallest ==
  ASSUME NEW T, T \subseteq Nat, T # {}
  PROVE  \E x \in T : \A y \in T : x <= y
<1>. DEFINE Below(y) == {x \in T : x <= y}
            Downs == {Below(y) : y \in T}
<1>1. \A y \in T : IsFiniteSet(Below(y))
  <2>. TAKE y \in T
  <2>0. y \in Int /\ 0 \in Int
    OBVIOUS
  <2>1. IsFiniteSet(0 .. y)
    BY <2>0, FS_Interval
  <2>2. \A z \in T : z <= y => z \in 0 .. y
    BY <2>0
  <2>3. Below(y) \in SUBSET (0 .. y)
    BY <2>2
  <2>. HIDE DEF Below
  <2>. QED
    BY <2>1, <2>3, FS_Subset
<1>2. Downs \subseteq FiniteSubsetsOf(T) /\ Downs # {}
  BY <1>1 DEF FiniteSubsetsOf
<1>3. PICK D \in Downs : \A E \in Downs : <<E, D>> \notin StrictSubsetOrdering(T)
  <2>. HIDE DEF Downs
  <2>1. IsWellFoundedOn(StrictSubsetOrdering(T), FiniteSubsetsOf(T))
    BY FS_StrictSubsetOrderingWellFounded
  <2>. QED
    BY <1>2, <2>1, WFMin
<1>4. PICK x \in T : D = Below(x)
  OBVIOUS
<1>5. ASSUME NEW y \in T, y < x PROVE FALSE
  <2>1. Below(y) \subseteq Below(x) /\ Below(y) # Below(x)
    <3>1. x \in Below(x) /\ x \notin Below(y)
      <4>1. x \in Nat /\ y \in Nat /\ x <= x /\ ~(x <= y)
        BY <1>5
      <4>. QED
        BY <4>1
    <3>2. Below(y) \subseteq Below(x)
      <4>1. \A z \in T : z <= y => z <= x
        BY <1>5
      <4>. QED
        BY <4>1
    <3>. QED
      BY <3>1, <3>2
  <2>2. <<Below(y), Below(x)>> \in StrictSubsetOrdering(T)
    BY <2>1 DEF StrictSubsetOrdering
  <2>. QED
    BY <1>3, <1>4, <2>2
<1>. QED
  BY <1>5

\* What holds of 0 and passes from each number to the next holds of all: the
\* set of numbers stands for the predicate.
LEMMA Upwards ==
  ASSUME NEW T, 0 \in T, \A n \in Nat : n \in T => n + 1 \in T
  PROVE  Nat \subseteq T
<1>. SUFFICES ASSUME Nat \ T # {} PROVE FALSE
  OBVIOUS
<1>1. PICK n \in Nat \ T : \A m \in Nat \ T : n <= m
  BY Smallest
<1>2. n # 0 /\ n - 1 \in Nat
  BY <1>1
<1>3. n - 1 \in T
  <2>1. ~(n <= n - 1)
    BY <1>2
  <2>. QED
    BY <1>1, <1>2, <2>1
<1>4. (n - 1) + 1 = n
  BY <1>2
<1>. QED
  BY <1>1, <1>2, <1>3, <1>4

\* What holds of the empty subset of a finite set, and of a subset if it holds
\* without its chosen element, holds of all of them.
LEMMA SubsetByPick ==
  ASSUME NEW S, IsFiniteSet(S), NEW P, {} \in P,
         NEW pick, \A s \in SUBSET S : s # {} => pick[s] \in s,
         \A s \in SUBSET S : s # {} /\ s \ {pick[s]} \in P => s \in P
  PROVE  SUBSET S \subseteq P
<1>. DEFINE T == {n \in Nat : \A s \in SUBSET S : Cardinality(s) = n => s \in P}
<1>0. \A s \in SUBSET S : IsFiniteSet(s) /\ Cardinality(s) \in Nat
  BY FS_Subset, FS_CardinalityType
<1>1. 0 \in T
  <2>1. \A s \in SUBSET S : Cardinality(s) = 0 => s = {}
    BY <1>0, FS_EmptySet
  <2>. QED
    BY <2>1
<1>2. ASSUME NEW n \in Nat, n \in T PROVE n + 1 \in T
  <2>. SUFFICES ASSUME NEW s \in SUBSET S, Cardinality(s) = n + 1 PROVE s \in P
    BY <1>2
  <2>1. s # {}
    BY <1>0, FS_EmptySet
  <2>2. /\ s \ {pick[s]} \in SUBSET S
        /\ Cardinality(s \ {pick[s]}) = Cardinality(s) - 1
    BY <1>0, <2>1, FS_RemoveElement
  <2>3. Cardinality(s \ {pick[s]}) = n
    BY <2>2
  <2>. QED
    BY <1>2, <2>1, <2>2, <2>3
<1>3. Nat \subseteq T
  <2>. HIDE DEF T
  <2>. QED
    BY <1>1, <1>2, Upwards
<1>. QED
  BY <1>0, <1>3

\* The function a fold computes: V are the values it takes, one the step.
IsFold(S, base, pick, one, f) ==
  f = [s \in SUBSET S |-> IF s = {} THEN base ELSE one[pick[s]][f[s \ {pick[s]}]]]

\* A fold over a finite set exists, by the smallest size for which it would not.
LEMMA FoldExists ==
  ASSUME NEW S, IsFiniteSet(S), NEW V, NEW base \in V,
         NEW pick, \A s \in SUBSET S : s # {} => pick[s] \in s,
         NEW one, \A x \in S, v \in V : one[x][v] \in V
  PROVE  \E f \in [SUBSET S -> V] : IsFold(S, base, pick, one, f)
<1>. DEFINE Agrees(f, n) ==
              \A s \in SUBSET S : Cardinality(s) <= n =>
                f[s] = IF s = {} THEN base ELSE one[pick[s]][f[s \ {pick[s]}]]
            T == {n \in Nat : \E f \in [SUBSET S -> V] : Agrees(f, n)}
<1>0. /\ \A s \in SUBSET S : IsFiniteSet(s) /\ Cardinality(s) \in Nat
      /\ \A s \in SUBSET S : (Cardinality(s) = 0) = (s = {})
  BY FS_Subset, FS_CardinalityType, FS_EmptySet
<1>1. 0 \in T
  <2>1. [s \in SUBSET S |-> base] \in [SUBSET S -> V]
    OBVIOUS
  <2>2. Agrees([s \in SUBSET S |-> base], 0)
    <3>1. \A s \in SUBSET S : Cardinality(s) <= 0 => s = {}
      BY <1>0
    <3>. QED
      BY <3>1
  <2>. QED
    BY <2>1, <2>2
<1>2. ASSUME NEW n \in Nat, n \in T PROVE n + 1 \in T
  <2>1. PICK f \in [SUBSET S -> V] : Agrees(f, n)
    BY <1>2
  <2>. DEFINE g == [s \in SUBSET S |->
                      IF s = {} THEN base ELSE one[pick[s]][f[s \ {pick[s]}]]]
  <2>2. g \in [SUBSET S -> V]
    <3>. SUFFICES ASSUME NEW s \in SUBSET S, s # {}
                  PROVE  one[pick[s]][f[s \ {pick[s]}]] \in V
      OBVIOUS
    <3>1. s \ {pick[s]} \in SUBSET S /\ pick[s] \in S
      OBVIOUS
    <3>2. f[s \ {pick[s]}] \in V
      BY <3>1
    <3>. QED
      BY <3>1, <3>2
  <2>3. \A s \in SUBSET S : Cardinality(s) <= n => g[s] = f[s]
    BY <2>1
  <2>4. Agrees(g, n + 1)
    <3>. SUFFICES ASSUME NEW s \in SUBSET S, Cardinality(s) <= n + 1, s # {}
                  PROVE  g[s] = one[pick[s]][g[s \ {pick[s]}]]
      OBVIOUS
    <3>1. /\ s \ {pick[s]} \in SUBSET S
          /\ Cardinality(s \ {pick[s]}) = Cardinality(s) - 1
      BY <1>0, FS_RemoveElement
    <3>2. Cardinality(s \ {pick[s]}) <= n
      BY <1>0, <3>1
    <3>3. g[s \ {pick[s]}] = f[s \ {pick[s]}]
      BY <2>3, <3>1, <3>2
    <3>. QED
      BY <3>3
  <2>. HIDE DEF g, Agrees
  <2>. QED
    BY <2>2, <2>4
<1>3. Nat \subseteq T
  <2>. HIDE DEF T
  <2>. QED
    BY <1>1, <1>2, Upwards
<1>4. PICK f \in [SUBSET S -> V] : Agrees(f, Cardinality(S))
  <2>1. Cardinality(S) \in T
    BY <1>0, <1>3
  <2>. QED
    BY <2>1
<1>5. \A s \in SUBSET S : Cardinality(s) <= Cardinality(S)
  BY FS_Subset
<1>6. ASSUME NEW s \in SUBSET S
      PROVE  f[s] = IF s = {} THEN base ELSE one[pick[s]][f[s \ {pick[s]}]]
  BY <1>4, <1>5
<1>. HIDE DEF Agrees, T
<1>7. DOMAIN f = SUBSET S /\ f = [s \in SUBSET S |-> f[s]]
  OBVIOUS
<1>8. f = [s \in SUBSET S |-> IF s = {} THEN base ELSE one[pick[s]][f[s \ {pick[s]}]]]
  BY <1>6, <1>7
<1>9. IsFold(S, base, pick, one, f)
  BY <1>8 DEF IsFold
<1>. QED
  BY <1>9

(****************************************************************************)
(* Division rounded down.                                                   *)
(****************************************************************************)
LEMMA Division ==
  ASSUME NEW n \in Nat, NEW d \in Nat, d > 0
  PROVE  /\ n \div d \in Nat
         /\ (n \div d) * d <= n /\ n < (n \div d) * d + d
OBVIOUS

\* A part a of t is given no more than all of r.
LEMMA ShareIsPart ==
  ASSUME NEW a \in Nat, NEW r \in Nat, NEW t \in Nat, t > 0, a <= t
  PROVE  (a * r) \div t \in Nat /\ (a * r) \div t <= r
<1>1. a * r \in Nat
  OBVIOUS
<1>2. PICK q \in Nat : q = (a * r) \div t /\ q * t <= a * r
  BY <1>1, Division
<1>3. a * r <= t * r
  OBVIOUS
<1>4. q * t <= t * r
  BY <1>1, <1>2, <1>3
<1>5. ASSUME q > r PROVE FALSE
  <2>1. PICK k \in Nat : q = r + 1 + k
    BY <1>5
  <2>2. q * t = r * t + t + k * t
    BY <2>1
  <2>3. k * t \in Nat /\ r * t = t * r
    OBVIOUS
  <2>. QED
    BY <1>4, <2>2, <2>3
<1>. QED
  BY <1>2, <1>5

(****************************************************************************)
(* Sums of natural numbers over a finite set.                               *)
(****************************************************************************)
Pick(s) == CHOOSE x \in s : TRUE
SumOver(f, S) == FoldSet(LAMBDA x, sum : sum + f[x], 0, S)

\* The sums over the subsets.
Sums(f, S, g) ==
  /\ SumOver(f, S) = g[S]
  /\ g[{}] = 0
  /\ \A s \in SUBSET S : g[s] \in Nat
  /\ \A s \in SUBSET S : s # {} => g[s] = g[s \ {Pick(s)}] + f[Pick(s)]

\* The sum over a finite set exists as a function on its subsets.
LEMMA SumIsFold ==
  ASSUME NEW S, IsFiniteSet(S), NEW f, \A x \in S : f[x] \in Nat
  PROVE  \E g : Sums(f, S, g)
<1>. DEFINE pick == [s \in SUBSET S |-> Pick(s)]
            one == [x \in S |-> [v \in Nat |-> v + f[x]]]
            IsSum(g) == g = [s \in SUBSET S |->
                              IF s = {} THEN 0
                              ELSE g[s \ {CHOOSE x \in s : TRUE}] + f[CHOOSE x \in s : TRUE]]
<1>1. \A s \in SUBSET S : s # {} => pick[s] = Pick(s) /\ pick[s] \in s
  BY DEF Pick
<1>2. \A x \in S, v \in Nat : one[x][v] \in Nat
  OBVIOUS
<1>3. PICK g \in [SUBSET S -> Nat] : IsFold(S, 0, pick, one, g)
  <2>. HIDE DEF pick, one
  <2>. QED
    BY <1>1, <1>2, FoldExists
<1>4. IsSum(g)
  <2>1. ASSUME NEW s \in SUBSET S
        PROVE  g[s] = IF s = {} THEN 0
                      ELSE g[s \ {CHOOSE x \in s : TRUE}] + f[CHOOSE x \in s : TRUE]
    <3>1. g[s] = IF s = {} THEN 0 ELSE one[pick[s]][g[s \ {pick[s]}]]
      BY <1>3 DEF IsFold
    <3>2. CASE s # {}
      <4>1. pick[s] \in S /\ g[s \ {pick[s]}] \in Nat
        BY <1>1, <1>3, <3>2
      <4>. QED
        BY <3>1, <3>2, <4>1 DEF Pick
    <3>. QED
      BY <3>1, <3>2
  <2>2. g = [s \in SUBSET S |-> g[s]]
    BY <1>3
  <2>. QED
    BY <2>1, <2>2
<1>5. SumOver(f, S) = (CHOOSE h : IsSum(h))[S]
  BY DEF SumOver, FoldSet, MapThenFoldSet
<1>6. PICK h : IsSum(h) /\ SumOver(f, S) = h[S]
  <2>. HIDE DEF IsSum
  <2>. QED
    BY <1>4, <1>5
<1>7. h[{}] = 0 /\ \A s \in SUBSET S : s # {} => h[s] = h[s \ {Pick(s)}] + f[Pick(s)]
  BY <1>6 DEF Pick
<1>8. SUBSET S \subseteq {s \in SUBSET S : h[s] \in Nat}
  <2>1. {} \in {s \in SUBSET S : h[s] \in Nat}
    BY <1>7
  <2>2. ASSUME NEW s \in SUBSET S, s # {}, s \ {pick[s]} \in {t \in SUBSET S : h[t] \in Nat}
        PROVE  s \in {t \in SUBSET S : h[t] \in Nat}
    <3>1. h[s] = h[s \ {pick[s]}] + f[pick[s]]
      BY <1>1, <1>7, <2>2
    <3>2. pick[s] \in S
      BY <1>1, <2>2
    <3>. QED
      BY <2>2, <3>1, <3>2
  <2>. HIDE DEF pick
  <2>. QED
    BY <1>1, <2>1, <2>2, SubsetByPick
<1>. HIDE DEF IsSum
<1>. QED
  BY <1>6, <1>7, <1>8 DEF Sums

\* The bound on a sum survives one more summand.
LEMMA OneMore ==
  ASSUME NEW a \in Nat, NEW b \in Nat, NEW c \in Nat, NEW k \in Nat,
         NEW F \in Nat, NEW f \in Nat, NEW H \in Nat, NEW h \in Nat,
         a * f <= b * h + c, a * F <= b * H + c * k
  PROVE  a * (F + f) <= b * (H + h) + c * (k + 1)
<1>1. a * (F + f) = a * F + a * f
  OBVIOUS
<1>2. b * (H + h) = b * H + b * h
  OBVIOUS
<1>3. c * (k + 1) = c * k + c
  OBVIOUS
<1>. QED
  BY <1>1, <1>2, <1>3

\* a times each value is at most b times another and c.
AtMost(S, a, f, b, h, c) == \A x \in S : a * f[x] <= b * h[x] + c

\* So it is with the sums, c counting once for each element.
LEMMA SumsCompare ==
  ASSUME NEW S, IsFiniteSet(S), NEW a \in Nat, NEW b \in Nat, NEW c \in Nat,
         NEW f, NEW h, \A x \in S : f[x] \in Nat /\ h[x] \in Nat,
         AtMost(S, a, f, b, h, c)
  PROVE  /\ SumOver(f, S) \in Nat /\ SumOver(h, S) \in Nat
         /\ a * SumOver(f, S) <= b * SumOver(h, S) + c * Cardinality(S)
<1>. DEFINE pick == [s \in SUBSET S |-> Pick(s)]
<1>1. PICK F : Sums(f, S, F)
  BY SumIsFold
<1>2. PICK H : Sums(h, S, H)
  BY SumIsFold
<1>. DEFINE Good == {s \in SUBSET S : a * F[s] <= b * H[s] + c * Cardinality(s)}
<1>3. {} \in Good
  <2>1. Cardinality({}) = 0
    BY FS_EmptySet
  <2>. QED
    BY <1>1, <1>2, <2>1 DEF Sums
<1>4. \A s \in SUBSET S : s # {} => pick[s] = Pick(s) /\ pick[s] \in s
  BY DEF Pick
<1>5. ASSUME NEW s \in SUBSET S, s # {}, s \ {pick[s]} \in Good PROVE s \in Good
  <2>1. PICK x \in S : x = pick[s] /\ x = Pick(s) /\ x \in s
    BY <1>4, <1>5
  <2>2. PICK t \in SUBSET S : t = s \ {x}
    OBVIOUS
  <2>3. F[s] = F[t] + f[x] /\ H[s] = H[t] + h[x]
    BY <1>1, <1>2, <1>5, <2>1, <2>2 DEF Sums, AtMost
  <2>4. /\ F[t] \in Nat /\ H[t] \in Nat /\ f[x] \in Nat /\ h[x] \in Nat
        /\ a * f[x] <= b * h[x] + c /\ a * F[t] <= b * H[t] + c * Cardinality(t)
    BY <1>1, <1>2, <1>5, <2>1, <2>2 DEF Sums, AtMost
  <2>5. Cardinality(t) \in Nat /\ Cardinality(s) = Cardinality(t) + 1
    <3>1. IsFiniteSet(s) /\ IsFiniteSet(t)
      BY FS_Subset
    <3>. QED
      BY <3>1, <2>1, <2>2, FS_RemoveElement, FS_CardinalityType
  <2>8. a * F[s] <= b * H[s] + c * Cardinality(s)
    BY <2>3, <2>4, <2>5, OneMore
  <2>. QED
    BY <2>8
<1>6. SUBSET S \subseteq Good
  <2>. HIDE DEF Good, pick
  <2>1. \A s \in SUBSET S : s # {} => pick[s] \in s
    BY <1>4
  <2>2. \A s \in SUBSET S : s # {} /\ s \ {pick[s]} \in Good => s \in Good
    BY <1>5
  <2>. QED
    BY ONLY IsFiniteSet(S), <1>3, <2>1, <2>2, SubsetByPick
<1>. QED
  BY <1>1, <1>2, <1>6 DEF Sums

\* A sum of naturals is a natural.
LEMMA SumsAreNatural ==
  ASSUME NEW S, IsFiniteSet(S), NEW f, \A x \in S : f[x] \in Nat
  PROVE  SumOver(f, S) \in Nat
<1>1. PICK g : Sums(f, S, g)
  BY SumIsFold
<1>. QED
  BY <1>1 DEF Sums

\* The sum over nothing is 0.
LEMMA SumOfNothing ==
  ASSUME NEW f PROVE SumOver(f, {}) = 0
<1>1. IsFiniteSet({})
  BY FS_EmptySet
<1>2. \E g : Sums(f, {}, g)
  BY <1>1, SumIsFold
<1>. QED
  BY <1>2 DEF Sums

\* What k shares lose by rounding is less than k.
LEMMA RoundingLoses ==
  ASSUME NEW T \in Nat \ {0}, NEW E \in Nat, NEW R \in Nat, NEW k \in Nat, k > 0,
         T * R <= E * T, E * T <= T * R + (T - 1) * k
  PROVE  R <= E /\ E - R < k
<1>1. R <= E
  <2>1. ASSUME R > E PROVE FALSE
    <3>1. PICK d \in Nat : R = E + 1 + d
      BY <2>1
    <3>2. T * R = T * E + T + T * d
      BY <3>1
    <3>3. T * d \in Nat /\ T * E = E * T /\ E * T \in Nat
      OBVIOUS
    <3>. QED
      BY <3>2, <3>3
  <2>. QED
    BY <2>1
<1>2. ASSUME E - R >= k PROVE FALSE
  <2>1. PICK d \in Nat : E = R + k + d
    BY <1>1, <1>2
  <2>2. E * T = R * T + k * T + d * T
    BY <2>1
  <2>3. (T - 1) * k = T * k - k
    OBVIOUS
  <2>4. R * T = T * R /\ k * T = T * k /\ d * T \in Nat /\ T * R \in Nat /\ T * k \in Nat
    OBVIOUS
  <2>. QED
    BY <2>2, <2>3, <2>4
<1>. QED
  BY <1>1, <1>2

\* A sum is the sum without one element, and that element's value.
LEMMA SumUnfolds ==
  ASSUME NEW S, IsFiniteSet(S), S # {}, NEW f, \A x \in S : f[x] \in Nat
  PROVE  SumOver(f, S) = SumOver(f, S \ {Pick(S)}) + f[Pick(S)]
<1>. DEFINE T == S \ {Pick(S)}
            pick == [s \in SUBSET T |-> Pick(s)]
<1>0. IsFiniteSet(T) /\ T \subseteq S
  BY FS_Subset
<1>1. PICK g : Sums(f, S, g)
  BY SumIsFold
<1>2. PICK h : Sums(f, T, h)
  <2>1. \A x \in T : f[x] \in Nat
    BY <1>0
  <2>. HIDE DEF T
  <2>. QED
    BY <1>0, <2>1, SumIsFold
<1>. DEFINE Same == {s \in SUBSET T : g[s] = h[s]}
<1>3. SUBSET T \subseteq Same
  <2>0. \A s \in SUBSET T : s # {} => pick[s] \in s /\ pick[s] = Pick(s)
    BY DEF Pick
  <2>1. {} \in Same
    BY <1>1, <1>2 DEF Sums
  <2>2. ASSUME NEW s \in SUBSET T, s # {}, s \ {pick[s]} \in Same
        PROVE  s \in Same
    <3>1. s \in SUBSET S
      BY <1>0
    <3>2. /\ g[s] = g[s \ {Pick(s)}] + f[Pick(s)]
          /\ h[s] = h[s \ {Pick(s)}] + f[Pick(s)]
      BY <1>1, <1>2, <2>2, <3>1 DEF Sums
    <3>. QED
      BY <2>0, <2>2, <3>2
  <2>. HIDE DEF T, pick, Same
  <2>3. \A s \in SUBSET T : s # {} => pick[s] \in s
    BY <2>0
  <2>. QED
    BY <1>0, <2>1, <2>2, <2>3, SubsetByPick
<1>4. g[T] = h[T]
  <2>. HIDE DEF T
  <2>. QED
    BY <1>3
<1>5. g[S] = g[T] + f[Pick(S)]
  BY <1>1 DEF Sums
<1>. QED
  BY <1>1, <1>2, <1>4, <1>5 DEF Sums

\* The order does not matter.
LEMMA SumSplits ==
  ASSUME NEW S, IsFiniteSet(S), NEW f, \A x \in S : f[x] \in Nat
  PROVE  \A p \in S : SumOver(f, S) = SumOver(f, S \ {p}) + f[p]
<1>. DEFINE Splits(t) == \A p \in t : SumOver(f, t) = SumOver(f, t \ {p}) + f[p]
            T == {n \in Nat : \A t \in SUBSET S : Cardinality(t) = n => Splits(t)}
<1>0. \A t \in SUBSET S : /\ IsFiniteSet(t) /\ Cardinality(t) \in Nat
                          /\ SumOver(f, t) \in Nat
  <2>. SUFFICES ASSUME NEW t \in SUBSET S
                PROVE  IsFiniteSet(t) /\ Cardinality(t) \in Nat /\ SumOver(f, t) \in Nat
    OBVIOUS
  <2>1. IsFiniteSet(t) /\ \A x \in t : f[x] \in Nat
    BY FS_Subset
  <2>. QED
    BY <2>1, FS_CardinalityType, SumsAreNatural
<1>1. 0 \in T
  <2>1. \A t \in SUBSET S : Cardinality(t) = 0 => t = {}
    BY <1>0, FS_EmptySet
  <2>. QED
    BY <2>1
<1>2. ASSUME NEW n \in Nat, n \in T PROVE n + 1 \in T
  <2>. SUFFICES ASSUME NEW t \in SUBSET S, Cardinality(t) = n + 1, NEW p \in t
                PROVE  SumOver(f, t) = SumOver(f, t \ {p}) + f[p]
    OBVIOUS
  <2>1. t # {}
    OBVIOUS
  <2>2. PICK q \in t : q = Pick(t)
    BY <2>1 DEF Pick
  <2>3. SumOver(f, t) = SumOver(f, t \ {q}) + f[q]
    <3>1. IsFiniteSet(t) /\ \A x \in t : f[x] \in Nat
      BY <1>0
    <3>. QED
      BY <2>1, <2>2, <3>1, SumUnfolds
  <2>4. CASE p = q
    BY <2>3, <2>4
  <2>5. CASE p # q
    <3>1. /\ Cardinality(t \ {q}) = n /\ t \ {q} \in SUBSET S
          /\ Cardinality(t \ {p}) = n /\ t \ {p} \in SUBSET S
      <4>1. IsFiniteSet(t)
        BY <1>0
      <4>2. \A x \in t : Cardinality(t \ {x}) = Cardinality(t) - 1
        BY <4>1, FS_RemoveElement
      <4>. QED
        BY <4>2
    <3>2. Splits(t \ {q}) /\ Splits(t \ {p})
      BY <1>2, <3>1
    <3>3. /\ SumOver(f, t \ {q}) = SumOver(f, (t \ {q}) \ {p}) + f[p]
          /\ SumOver(f, t \ {p}) = SumOver(f, (t \ {p}) \ {q}) + f[q]
      BY <2>5, <3>2
    <3>4. (t \ {q}) \ {p} = (t \ {p}) \ {q} /\ (t \ {q}) \ {p} \in SUBSET S
      OBVIOUS
    <3>5. /\ SumOver(f, (t \ {q}) \ {p}) \in Nat /\ f[p] \in Nat /\ f[q] \in Nat
          /\ SumOver(f, (t \ {p}) \ {q}) = SumOver(f, (t \ {q}) \ {p})
      BY <1>0, <3>4
    <3>. QED
      BY <2>3, <3>3, <3>5
  <2>. QED
    BY <2>4, <2>5
<1>3. Nat \subseteq T
  <2>. HIDE DEF T
  <2>. QED
    BY <1>1, <1>2, Upwards
<1>. QED
  BY <1>0, <1>3

\* What counts nothing can be left out.
LEMMA SumOfThePart ==
  ASSUME NEW S, IsFiniteSet(S), NEW f, \A x \in S : f[x] \in Nat,
         NEW Q \in SUBSET S, \A x \in S \ Q : f[x] = 0
  PROVE  SumOver(f, S) = SumOver(f, Q)
<1>. DEFINE Good == {s \in SUBSET S : SumOver(f, s) = SumOver(f, s \intersect Q)}
            pick == [s \in SUBSET S |-> Pick(s)]
<1>0. \A s \in SUBSET S : s # {} => pick[s] \in s
  BY DEF Pick
<1>1. {} \in Good
  <2>1. {} \intersect Q = {}
    OBVIOUS
  <2>. QED
    BY <2>1
<1>2. ASSUME NEW s \in SUBSET S, s # {}, s \ {pick[s]} \in Good PROVE s \in Good
  <2>1. PICK x \in s : x = pick[s]
    BY <1>0, <1>2
  <2>2. IsFiniteSet(s) /\ IsFiniteSet(s \intersect Q) /\ s \intersect Q \subseteq S
    BY FS_Subset
  <2>3. SumOver(f, s) = SumOver(f, s \ {x}) + f[x]
    BY <2>2, SumSplits
  <2>4. SumOver(f, s \ {x}) = SumOver(f, (s \ {x}) \intersect Q)
    BY <1>2, <2>1
  <2>5. CASE x \in Q
    <3>1. (s \ {x}) \intersect Q = (s \intersect Q) \ {x}
      OBVIOUS
    <3>2. SumOver(f, s \intersect Q) = SumOver(f, (s \intersect Q) \ {x}) + f[x]
      <4>1. x \in s \intersect Q /\ \A y \in s \intersect Q : f[y] \in Nat
        BY <2>2, <2>5
      <4>. QED
        BY <2>2, <4>1, SumSplits
    <3>. QED
      BY <2>3, <2>4, <3>1, <3>2
  <2>6. CASE x \notin Q
    <3>1. (s \ {x}) \intersect Q = s \intersect Q /\ f[x] = 0
      BY <2>6
    <3>2. SumOver(f, s \intersect Q) \in Nat
      <4>1. \A y \in s \intersect Q : f[y] \in Nat
        BY <2>2
      <4>. QED
        BY <2>2, <4>1, SumsAreNatural
    <3>3. SumOver(f, s \ {x}) = SumOver(f, s \intersect Q)
      BY <2>4, <3>1
    <3>4. SumOver(f, s) = SumOver(f, s \intersect Q)
      BY <2>3, <3>1, <3>2, <3>3
    <3>. QED
      BY <3>4
  <2>. QED
    BY <2>5, <2>6
<1>3. SUBSET S \subseteq Good
  <2>. HIDE DEF Good, pick
  <2>. QED
    BY <1>0, <1>1, <1>2, SubsetByPick
<1>4. S \intersect Q = Q
  OBVIOUS
<1>. QED
  BY <1>3, <1>4

\* A common factor on both sides may go.
LEMMA CancelsFactor ==
  ASSUME NEW e \in Nat, e # 0, NEW w \in Nat, NEW b \in Nat, NEW k \in Nat, e * w <= b * e + 0 * k
  PROVE  w <= b
<1>1. ASSUME w > b PROVE FALSE
  <2>1. PICK d \in Nat : w = b + 1 + d
    BY <1>1
  <2>2. e * w = e * b + e + e * d
    BY <2>1
  <2>3. e * d \in Nat /\ e * b = b * e /\ b * e \in Nat /\ 0 * k = 0
    OBVIOUS
  <2>. QED
    BY <2>2, <2>3
<1>. QED
  BY <1>1

\* Of a set of places in a sequence there is a last one, and Max is it.
LEMMA MaxIsLast ==
  ASSUME NEW n \in Nat, NEW S \in SUBSET (1 .. n), S # {}
  PROVE  Max(S) \in S /\ \A i \in S : i <= Max(S)
<1>. DEFINE T == {n - i : i \in S}
<1>0. \A i \in S : n - i \in Nat
  OBVIOUS
<1>1. T \subseteq Nat /\ T # {}
  BY <1>0
<1>2. PICK t \in T : \A u \in T : t <= u
  BY <1>1, Smallest
<1>3. PICK i \in S : t = n - i
  BY <1>2
<1>4. \A j \in S : i >= j
  <2>. SUFFICES ASSUME NEW j \in S PROVE i >= j
    OBVIOUS
  <2>1. n - i <= n - j
    BY <1>2, <1>3
  <2>. QED
    BY <2>1
<1>5. Max(S) \in S /\ \A j \in S : Max(S) >= j
  BY <1>3, <1>4 DEF Max
<1>. QED
  BY <1>5

\* Whatever a fold comes from, it stays among values that no step leaves.
FoldsWithin(S, V, base, pick, one, h) ==
  /\ h[{}] = base
  /\ \A s \in SUBSET S : s # {} => pick[s] \in s
  /\ \A x \in S, v \in V : one[x][v] \in V
  /\ \A s \in SUBSET S : s # {} /\ h[s \ {pick[s]}] \in V =>
                          h[s] = one[pick[s]][h[s \ {pick[s]}]]

\* A fold stays in the set that each of its steps stays in.
LEMMA FoldStaysIn ==
  ASSUME NEW S, IsFiniteSet(S), NEW V, NEW base \in V, NEW pick, NEW one, NEW h,
         FoldsWithin(S, V, base, pick, one, h)
  PROVE  \A s \in SUBSET S : h[s] \in V
<1>. USE DEF FoldsWithin
<1>. DEFINE P == {s \in SUBSET S : h[s] \in V}
<1>1. {} \in P
  OBVIOUS
<1>2. ASSUME NEW s \in SUBSET S, s # {}, s \ {pick[s]} \in P PROVE s \in P
  BY <1>2
<1>3. SUBSET S \subseteq P
  <2>. HIDE DEF P
  <2>. QED
    BY <1>1, <1>2, SubsetByPick
<1>. QED
  BY <1>3

(****************************************************************************)
(* Folds over sequences, from the first place to the last.                  *)
(****************************************************************************)

\* h goes through the subsets of the places, the last place of each last.
IsLeft(n, V, base, one, h) ==
  /\ h[{}] = base
  /\ \A s \in SUBSET (1 .. n) : s # {} /\ h[s \ {Max(s)}] \in V =>
                                  h[s] = one[Max(s)][h[s \ {Max(s)}]]

StepsWithin(n, V, base, one) ==
  base \in V /\ \A i \in 1 .. n, v \in V : one[i][v] \in V

\* The largest of the first n numbers, and of each of their parts.
LEMMA LastPlace ==
  ASSUME NEW n \in Nat
  PROVE  /\ \A s \in SUBSET (1 .. n) : s # {} => Max(s) \in s /\ Max(s) \in 1 .. n
         /\ \A k \in 1 .. n : Max(1 .. k) = k /\ (1 .. k) \ {Max(1 .. k)} = 1 .. (k - 1)
                              /\ 1 .. k \in SUBSET (1 .. n) /\ 1 .. k # {}
<1>1. \A s \in SUBSET (1 .. n) : s # {} => Max(s) \in s /\ \A i \in s : i <= Max(s)
  BY MaxIsLast
<1>2. ASSUME NEW k \in 1 .. n
      PROVE  /\ Max(1 .. k) = k /\ (1 .. k) \ {Max(1 .. k)} = 1 .. (k - 1)
             /\ 1 .. k \in SUBSET (1 .. n) /\ 1 .. k # {}
  <2>1. 1 .. k \in SUBSET (1 .. n) /\ 1 .. k # {} /\ k \in 1 .. k
    OBVIOUS
  <2>2. PICK m \in 1 .. k : m = Max(1 .. k) /\ k <= m
    BY <1>1, <2>1
  <2>3. m = k
    BY <2>2
  <2>4. (1 .. k) \ {k} = 1 .. (k - 1)
    OBVIOUS
  <2>. QED
    BY <2>1, <2>2, <2>3, <2>4
<1>. QED
  BY <1>1, <1>2

\* A fold of a sequence from the left exists.
LEMMA LeftFoldExists ==
  ASSUME NEW n \in Nat, NEW V, NEW base, NEW one, StepsWithin(n, V, base, one)
  PROVE  \E g \in [SUBSET (1 .. n) -> V] :
           /\ g[{}] = base
           /\ \A s \in SUBSET (1 .. n) : s # {} =>
                /\ Max(s) \in 1 .. n /\ g[s \ {Max(s)}] \in V
                /\ g[s] = one[Max(s)][g[s \ {Max(s)}]]
<1>. DEFINE D == 1 .. n
            pick == [s \in SUBSET D |-> Max(s)]
<1>1. IsFiniteSet(D)
  BY FS_Interval
<1>2. \A s \in SUBSET D : pick[s] = Max(s) /\ (s # {} => pick[s] \in s)
  BY LastPlace
<1>3. PICK g \in [SUBSET D -> V] : IsFold(D, base, pick, one, g)
  <2>1. base \in V /\ \A i \in D, v \in V : one[i][v] \in V
    BY DEF StepsWithin
  <2>. HIDE DEF D, pick
  <2>. QED
    BY <1>1, <1>2, <2>1, FoldExists
<1>4. \A s \in SUBSET D : g[s] = IF s = {} THEN base ELSE one[pick[s]][g[s \ {pick[s]}]]
  <2>. HIDE DEF D, pick
  <2>. QED
    BY <1>3 DEF IsFold
<1>5. \A s \in SUBSET D : s # {} => Max(s) \in D /\ g[s \ {Max(s)}] \in V
  BY LastPlace
<1>. HIDE DEF pick
<1>6. /\ g[{}] = base
      /\ \A s \in SUBSET D : s # {} => g[s] = one[Max(s)][g[s \ {Max(s)}]]
  BY <1>2, <1>4
<1>. QED
  BY <1>5, <1>6

\* What the fold comes to, and what passes from place to place holds at the end.
LEMMA LeftFoldGoes ==
  ASSUME NEW n \in Nat, NEW V, NEW base, NEW one, StepsWithin(n, V, base, one),
         NEW h, IsLeft(n, V, base, one, h),
         NEW P, base \in P[0],
         \A i \in 1 .. n, v \in V : v \in P[i - 1] => one[i][v] \in P[i]
  PROVE  h[1 .. n] \in V /\ h[1 .. n] \in P[n]
<1>. DEFINE T == {k \in Nat : k <= n => h[1 .. k] \in V /\ h[1 .. k] \in P[k]}
<1>1. 0 \in T
  <2>1. 1 .. 0 = {}
    OBVIOUS
  <2>. QED
    BY <2>1 DEF IsLeft, StepsWithin
<1>2. ASSUME NEW k \in Nat, k \in T PROVE k + 1 \in T
  <2>. SUFFICES ASSUME k + 1 <= n PROVE h[1 .. (k + 1)] \in V /\ h[1 .. (k + 1)] \in P[k + 1]
    OBVIOUS
  <2>1. PICK i \in 1 .. n : i = k + 1
    OBVIOUS
  <2>2. i - 1 = k /\ h[1 .. (i - 1)] \in V /\ h[1 .. (i - 1)] \in P[i - 1]
    BY <1>2, <2>1
  <2>3. h[1 .. i] = one[i][h[1 .. (i - 1)]]
    BY <2>2, LastPlace DEF IsLeft
  <2>4. one[i][h[1 .. (i - 1)]] \in V
    BY <2>2 DEF StepsWithin
  <2>. QED
    BY <2>1, <2>2, <2>3, <2>4
<1>3. Nat \subseteq T
  <2>. HIDE DEF T
  <2>. QED
    BY <1>1, <1>2, Upwards
<1>. QED
  BY <1>3

(****************************************************************************)
(* A step of the whole is a step of each part, or leaves it alone.          *)
(****************************************************************************)
LEMMA StepOfParts ==
  ASSUME [Next]_vars
  PROVE  /\ [AgentProxy!ChatTurnsNext]_chatVars
         /\ [LlmProviders!Next]_llmVars
         /\ [Experiments!Next]_experimentsVars
         /\ [SwarmRouting!SwarmsNext]_swarmsVars
         /\ [SwarmRouting!SwarmMembersNext]_swarmMembersVars
         /\ [TokenEconomy!TokenDayNext]_tokensVars
         /\ [TokenEconomy!FeePoolNext]_feesVars
         /\ [TokenEconomy!StakeDecayNext]_decayVars
         /\ [TokenEconomy!TrustNext]_trustVars
         /\ [SwarmRouting!FitnessNext]_fitnessVars
         /\ [SwarmRouting!SwarmWeightsNext]_weightsVars
         /\ [AgentProxy!UploadsNext]_uploadsVars
         /\ [DocumentsPart!KnowledgeNext]_knowledgeVars
         /\ [DocumentsPart!TextChunksNext]_chunksVars
         /\ [SystemTools!ConfirmationsNext]_confirmVars
         /\ [SystemTools!FileEditsNext]_filesVars
         /\ [AgentProxy!BedrockStreamNext]_streamVars
         /\ [OutsideParties!SpecialistsNext]_specialistsVars
         /\ [OutsideParties!WalletsNext]_walletsVars
         /\ [OutsideParties!ExternalAgentsNext]_externalVars
         /\ [AgentContext!Next]_agentContextVars
         /\ [DocumentsPart!DocumentTextNext]_documentTextVars
         /\ [BountyWork!BountyProofNext]_bountyProofVars
         /\ [BountyWork!ProtocolIntakeNext]_protocolIntakeVars
         /\ [BountyWork!BountyWorkspaceNext]_workspaceVars
BY DEF Next, vars, Still

(****************************************************************************)
(* The emission of a day.                                                   *)
(****************************************************************************)
TokensInv == TokenEconomy!TokenDayTypeOK /\ distributed <= Emission

\* What is awarded fits in what the day has left.
LEMMA AwardIsPart ==
  ASSUME NEW adjusted \in Nat, pointsToday \in Nat, distributed \in Nat, distributed <= Emission
  PROVE  /\ TokenEconomy!TokensFor(adjusted) \in Nat
         /\ distributed + TokenEconomy!TokensFor(adjusted) <= Emission
<1>. Emission \in Nat
  BY ConstantsOfPolicy
<1>1. PICK total \in Nat, left \in Nat :
        /\ total = pointsToday + adjusted /\ left = Emission - distributed
        /\ adjusted <= total
  OBVIOUS
<1>2. TokenEconomy!TokensFor(adjusted) = IF total > 0 THEN (adjusted * left) \div total ELSE 0
  BY <1>1 DEF TokenEconomy!TokensFor
<1>3. total > 0 => (adjusted * left) \div total \in Nat /\ (adjusted * left) \div total <= left
  BY <1>1, ShareIsPart
<1>. QED
  BY <1>1, <1>2, <1>3

\* A step of this part, or of another, keeps TokensInv.
LEMMA TokensStep ==
  ASSUME TokensInv, [TokenEconomy!TokenDayNext]_tokensVars PROVE TokensInv'
<1>. USE DEF TokensInv, TokenEconomy!TokenDayTypeOK
<1>0. {Emission, U64, MaxRaw, MaxEntries} \subseteq Nat /\ BountyValues \subseteq Nat
  BY ConstantsOfPolicy
<1>1. ASSUME NEW c \in Contributors, NEW n \in TokenEconomy!PointsOfActivities,
             TokenEconomy!AddEntry(c, n)
      PROVE  TokensInv'
  <2>1. n \in Nat
    BY <1>0 DEF TokenEconomy!PointsOfActivities, TokenEconomy!FixedPoints
  <2>2. TokenEconomy!Saturated(totalPoints[c] + n) \in 0 .. U64
    BY <1>0, <2>1 DEF TokenEconomy!Saturated
  <2>3. totalPoints' \in [Contributors -> 0 .. U64]
    BY <1>1, <2>2 DEF TokenEconomy!AddEntry
  <2>. QED
    BY <1>0, <1>1, <2>3 DEF TokenEconomy!AddEntry
<1>2. ASSUME NEW raw \in 0 .. MaxRaw, NEW m \in TokenEconomy!Multipliers, awards < 2,
             TokenEconomy!CalculateBountyAward(raw, m)
      PROVE  TokensInv'
  <2>1. PICK adjusted \in Nat : adjusted = TokenEconomy!Adjusted(raw, m)
    <3>1. raw \in Nat /\ m \in Nat
      BY <1>0 DEF TokenEconomy!Multipliers
    <3>2. raw * m \in Nat
      BY <3>1
    <3>3. (raw * m) \div 10000 \in Nat
      BY <3>2, Division
    <3>. QED
      BY <3>3 DEF TokenEconomy!Adjusted, TokenEconomy!BPS
  <2>2. PICK tokens \in Nat : /\ tokens = TokenEconomy!TokensFor(adjusted)
                              /\ distributed + tokens <= Emission
    BY AwardIsPart
  <2>3. PICK reviewer \in Nat : reviewer = (tokens * TokenEconomy!ReviewerBps) \div TokenEconomy!BPS
    BY <2>2, Division DEF TokenEconomy!ReviewerBps, TokenEconomy!BPS
  <2>4. /\ pointsToday' = pointsToday + adjusted
        /\ distributed' = distributed + reviewer + (tokens - reviewer)
        /\ awards' = awards + 1 /\ UNCHANGED <<totalPoints, entered>>
    BY <1>2, <2>1, <2>2, <2>3 DEF TokenEconomy!CalculateBountyAward
  <2>. QED
    BY <1>0, <1>2, <2>2, <2>3, <2>4
<1>3. CASE UNCHANGED tokensVars
  BY <1>3 DEF tokensVars
<1>. QED
  BY <1>1, <1>2, <1>3 DEF TokenEconomy!TokenDayNext

\* TokensInv holds in every reachable state.
LEMMA TokensHold == Spec => []TokensInv
<1>1. Init => TokensInv
  BY ConstantsOfPolicy DEF Init, TokenEconomy!TokenDayInit, TokensInv, TokenEconomy!TokenDayTypeOK
<1>2. TokensInv /\ [Next]_vars => TokensInv'
  BY StepOfParts, TokensStep
<1>. QED
  BY <1>1, <1>2, PTL DEF Spec

\* The reward of each is its share rounded down, so that together they fall
\* short of the emission by less than a token each.
LEMMA RewardsAreShares ==
  ASSUME TokensInv PROVE TokenEconomy!RewardsWithinEmission
<1>. DEFINE S == TokenEconomy!Entries
            total == TokenEconomy!SnapshotTotal
            rewards == TokenEconomy!DailyRewards
<1>0. U64 \in Nat /\ Emission \in Nat /\ IsFiniteSet(Contributors)
  BY ConstantsOfPolicy
<1>1. IsFiniteSet(S) /\ S \subseteq Contributors
  BY <1>0, FS_Subset DEF TokenEconomy!Entries
<1>2. \A x \in S : totalPoints[x] \in Nat
  BY <1>0, <1>1 DEF TokensInv, TokenEconomy!TokenDayTypeOK
<1>3. total = TokenEconomy!Saturated(SumOver(totalPoints, S))
  BY DEF TokenEconomy!SnapshotTotal, TokenEconomy!FoldSet, TokenEconomy!MapThenFoldSet,
         SumOver, FoldSet, MapThenFoldSet
<1>. SUFFICES ASSUME total # 0, total # U64
              PROVE  /\ SumOver(rewards, S) <= Emission
                     /\ Emission - SumOver(rewards, S) < TokenEconomy!Cardinality(S)
  <2>1. TokenEconomy!FoldSet(LAMBDA c, sum : sum + rewards[c], 0, S) = SumOver(rewards, S)
    BY DEF TokenEconomy!FoldSet, TokenEconomy!MapThenFoldSet, SumOver, FoldSet, MapThenFoldSet
  <2>. QED
    BY <2>1 DEF TokenEconomy!RewardsWithinEmission, TokenEconomy!RewardsFail
<1>4. PICK T \in Nat \ {0} : total = T /\ SumOver(totalPoints, S) = T
  <2>1. SumOver(totalPoints, S) \in Nat
    <3>. HIDE DEF S
    <3>. QED
      BY <1>1, <1>2, SumsAreNatural
  <2>. HIDE DEF S, total, rewards
  <2>. QED
    BY <1>0, <1>3, <2>1 DEF TokenEconomy!Saturated
<1>5. \A x \in S : /\ rewards[x] \in Nat
                   /\ T * rewards[x] <= Emission * totalPoints[x]
                   /\ Emission * totalPoints[x] <= T * rewards[x] + (T - 1)
  <2>. SUFFICES ASSUME NEW x \in S
                PROVE  /\ rewards[x] \in Nat
                       /\ T * rewards[x] <= Emission * totalPoints[x]
                       /\ Emission * totalPoints[x] <= T * rewards[x] + (T - 1)
    OBVIOUS
  <2>1. PICK p \in Nat : p = totalPoints[x]
    BY <1>2
  <2>2. rewards[x] = (p * Emission) \div T
    BY <1>4, <2>1 DEF TokenEconomy!DailyRewards, TokenEconomy!TokenReward
  <2>. HIDE DEF S, total, rewards
  <2>3. PICK n \in Nat : n = p * Emission /\ n = Emission * p
    BY <1>0
  <2>4. PICK r \in Nat : r = n \div T /\ r * T <= n /\ n < r * T + T
    BY <2>3, Division
  <2>5. T * r = r * T /\ r * T \in Nat
    OBVIOUS
  <2>6. T * r <= n /\ n <= T * r + (T - 1)
    BY <2>4, <2>5
  <2>. QED
    BY <2>1, <2>2, <2>3, <2>4, <2>6
<1>6. PICK R \in Nat, k \in Nat :
        /\ R = SumOver(rewards, S) /\ k = Cardinality(S)
        /\ T * R <= Emission * T
        /\ Emission * T <= T * R + (T - 1) * k
  <2>. HIDE DEF S, total, rewards
  <2>1. /\ AtMost(S, T, rewards, Emission, totalPoints, 0)
        /\ AtMost(S, Emission, totalPoints, T, rewards, T - 1)
    <3>1. \A x \in S : T * rewards[x] \in Nat /\ Emission * totalPoints[x] \in Nat
      BY <1>0, <1>2, <1>5
    <3>. QED
      BY <1>5, <3>1 DEF AtMost
  <2>2. T - 1 \in Nat /\ T \in Nat
    OBVIOUS
  <2>3. \A x \in S : rewards[x] \in Nat /\ totalPoints[x] \in Nat
    BY <1>2, <1>5
  <2>4. Cardinality(S) \in Nat
    BY <1>1, FS_CardinalityType
  <2>5. /\ SumOver(rewards, S) \in Nat
        /\ T * SumOver(rewards, S) <= Emission * SumOver(totalPoints, S) + 0 * Cardinality(S)
        /\ Emission * SumOver(totalPoints, S) <= T * SumOver(rewards, S) + (T - 1) * Cardinality(S)
    BY <1>0, <1>1, <2>1, <2>2, <2>3, SumsCompare
  <2>6. 0 * Cardinality(S) = 0 /\ Emission * T \in Nat
    BY <1>0, <2>4
  <2>. QED
    BY <1>4, <2>4, <2>5, <2>6
<1>7. k > 0
  <2>1. S # {}
    <3>1. SumOver(totalPoints, {}) = 0
      BY SumOfNothing
    <3>. HIDE DEF S
    <3>. QED
      BY <1>4, <3>1
  <2>. HIDE DEF S
  <2>. QED
    BY <1>1, <1>6, <2>1, FS_EmptySet
<1>8. R <= Emission /\ Emission - R < k
  <2>. HIDE DEF S, total, rewards
  <2>. QED
    BY <1>0, <1>6, <1>7, RoundingLoses
<1>9. TokenEconomy!Cardinality(S) = Cardinality(S)
  BY DEF TokenEconomy!Cardinality, Cardinality
<1>. QED
  BY <1>6, <1>8, <1>9

(****************************************************************************)
(* The pool of fees.                                                        *)
(****************************************************************************)

\* Claims are all made on the same pool and the same stakes.
FeesInv ==
  /\ TokenEconomy!FeePoolTypeOK
  /\ TokenEconomy!FeesAddUp
  /\ ~claimed => \A h \in Holders : payouts[h] = 0
  /\ \A h \in Holders :
       payouts[h] = 0
       \/ /\ TokenEconomy!EligibleStake > 0 /\ stakes[h] >= 100
          /\ payouts[h] = TokenEconomy!HolderShare(h)

\* The payouts are shares of the pool by stake, so they fit in it.
LEMMA StakesAddUp ==
  /\ TokenEconomy!EligibleStake = SumOver(stakes, {h \in Holders : stakes[h] >= 100})
  /\ SumOver(payouts, Holders) <= holderPool => TokenEconomy!ClaimsWithinPool
BY DEF TokenEconomy!EligibleStake, TokenEconomy!ClaimsWithinPool, TokenEconomy!MinStake,
       TokenEconomy!FoldSet, TokenEconomy!MapThenFoldSet, SumOver, FoldSet, MapThenFoldSet

\* The eligible stake is a natural.
LEMMA EligibleIsNatural ==
  ASSUME TokenEconomy!FeePoolTypeOK
  PROVE  TokenEconomy!EligibleStake \in Nat
<1>1. IsFiniteSet({h \in Holders : stakes[h] >= 100})
  BY ConstantsOfPolicy, FS_Subset
<1>2. \A h \in Holders : stakes[h] \in Nat
  <2>1. stakes \in [Holders -> Stakes \union {0}]
    BY DEF TokenEconomy!FeePoolTypeOK
  <2>2. \A h \in Holders : stakes[h] \in Stakes \union {0}
    BY <2>1
  <2>3. Stakes \union {0} \subseteq Nat
    BY ConstantsOfPolicy
  <2>. QED
    BY <2>2, <2>3
<1>. QED
  BY <1>1, <1>2, StakesAddUp, SumsAreNatural

\* A share in basis points is a natural.
LEMMA SharesAreNatural ==
  ASSUME NEW amount \in Nat, NEW bps \in Nat, bps <= 10000
  PROVE  (amount * bps) \div 10000 \in Nat
<1>1. amount * bps \in Nat
  OBVIOUS
<1>. QED
  BY <1>1, Division

\* A step of this part, or of another, keeps FeesInv.
LEMMA FeesStep ==
  ASSUME FeesInv, [TokenEconomy!FeePoolNext]_feesVars PROVE FeesInv'
<1>. USE DEF FeesInv
<1>0. /\ MaxFees \in Nat /\ Fees \subseteq Nat /\ Stakes \subseteq Nat
  BY ConstantsOfPolicy
<1>1. ASSUME NEW amount \in Fees, TokenEconomy!SplitProtocolFee(amount)
      PROVE  FeesInv'
  <2>1. PICK holders \in Nat, burn \in Nat :
          /\ holders = (amount * 5000) \div 10000 /\ burn = (amount * 4000) \div 10000
          /\ holders + burn <= amount
    <3>1. amount \in Nat /\ amount * 5000 \in Nat /\ amount * 4000 \in Nat
      BY <1>0
    <3>2. /\ (amount * 5000) \div 10000 \in Nat /\ (amount * 4000) \div 10000 \in Nat
          /\ (amount * 5000) \div 10000 + (amount * 4000) \div 10000 <= amount
      BY <3>1
    <3>. QED
      BY <3>2
  <2>2. /\ holderPool' = holderPool + holders /\ feesBurned' = feesBurned + burn
        /\ labs' = labs + (amount - holders - burn)
        /\ collected' = <<collected[1] + 1, collected[2] + amount>>
        /\ collected[1] < MaxFees /\ ~claimed
        /\ UNCHANGED <<stakes, payouts, claimed>>
    BY <1>1, <2>1 DEF TokenEconomy!SplitProtocolFee, TokenEconomy!Share, TokenEconomy!BPS,
                      TokenEconomy!HolderBps, TokenEconomy!BurnBps
  <2>3. /\ collected[1] \in 0 .. MaxFees /\ collected[2] \in Nat
        /\ holderPool \in Nat /\ feesBurned \in Nat /\ labs \in Nat
        /\ holderPool + feesBurned + labs = collected[2]
    BY <1>0 DEF TokenEconomy!FeePoolTypeOK, TokenEconomy!FeesAddUp
  <2>4. amount \in Nat
    BY <1>0
  <2>5. /\ collected' \in (0 .. MaxFees) \X Nat /\ holderPool' \in Nat /\ feesBurned' \in Nat
        /\ labs' \in Nat /\ holderPool' + feesBurned' + labs' = collected'[2]
    BY <1>0, <2>1, <2>2, <2>3, <2>4
  <2>6. TokenEconomy!FeePoolTypeOK' /\ TokenEconomy!FeesAddUp'
    BY <2>2, <2>5 DEF TokenEconomy!FeePoolTypeOK, TokenEconomy!FeesAddUp
  <2>. QED
    BY <2>2, <2>6
<1>2. ASSUME NEW h \in Holders, NEW n \in Stakes, TokenEconomy!SetStake(h, n)
      PROVE  FeesInv'
  <2>1. /\ stakes' \in [Holders -> Stakes \union {0}]
        /\ UNCHANGED <<collected, holderPool, feesBurned, labs, payouts, claimed>> /\ ~claimed
    BY <1>2 DEF TokenEconomy!SetStake, TokenEconomy!FeePoolTypeOK
  <2>. QED
    BY <2>1 DEF TokenEconomy!FeePoolTypeOK, TokenEconomy!FeesAddUp
<1>3. ASSUME NEW h \in Holders, TokenEconomy!CalculateHolderClaim(h)
      PROVE  FeesInv'
  <2>1. /\ TokenEconomy!EligibleStake > 0 /\ stakes[h] >= 100
        /\ payouts' = [payouts EXCEPT ![h] = TokenEconomy!HolderShare(h)] /\ claimed' = TRUE
        /\ UNCHANGED <<collected, holderPool, feesBurned, labs, stakes>>
    BY <1>3 DEF TokenEconomy!CalculateHolderClaim, TokenEconomy!MinStake
  <2>2. TokenEconomy!EligibleStake' = TokenEconomy!EligibleStake
    BY <2>1 DEF TokenEconomy!EligibleStake, TokenEconomy!MinStake, TokenEconomy!FoldSet,
                TokenEconomy!MapThenFoldSet
  <2>3. \A g \in Holders : TokenEconomy!HolderShare(g)' = TokenEconomy!HolderShare(g)
    BY <2>1, <2>2 DEF TokenEconomy!HolderShare
  <2>4. TokenEconomy!HolderShare(h) \in Nat
    <3>1. stakes[h] \in Nat /\ holderPool \in Nat
      <4>1. stakes \in [Holders -> Stakes \union {0}] /\ holderPool \in Nat
        BY DEF TokenEconomy!FeePoolTypeOK
      <4>2. stakes[h] \in Stakes \union {0}
        BY <4>1
      <4>3. Stakes \union {0} \subseteq Nat
        BY <1>0
      <4>. QED
        BY <4>1, <4>2, <4>3
    <3>2. stakes[h] * 10000 \in Nat
      BY <3>1
    <3>3. TokenEconomy!EligibleStake \in Nat
      BY EligibleIsNatural
    <3>4. (stakes[h] * 10000) \div TokenEconomy!EligibleStake \in Nat
      BY <2>1, <3>2, <3>3, Division
    <3>5. holderPool * ((stakes[h] * 10000) \div TokenEconomy!EligibleStake) \in Nat
      BY <3>1, <3>4
    <3>6. (holderPool * ((stakes[h] * 10000) \div TokenEconomy!EligibleStake)) \div 10000 \in Nat
      BY <3>5, Division
    <3>. QED
      BY <3>6 DEF TokenEconomy!HolderShare, TokenEconomy!BPS
  <2>5. payouts \in [Holders -> Nat]
    BY DEF TokenEconomy!FeePoolTypeOK
  <2>6. payouts' \in [Holders -> Nat]
    BY <2>1, <2>4, <2>5
  <2>7. TokenEconomy!FeePoolTypeOK' /\ TokenEconomy!FeesAddUp'
    BY <2>1, <2>6 DEF TokenEconomy!FeePoolTypeOK, TokenEconomy!FeesAddUp
  <2>8. ASSUME NEW g \in Holders
        PROVE  \/ payouts'[g] = 0
               \/ /\ TokenEconomy!EligibleStake' > 0 /\ stakes'[g] >= 100
                  /\ payouts'[g] = TokenEconomy!HolderShare(g)'
    <3>1. CASE g = h
      BY <2>1, <2>2, <2>3, <2>5, <3>1
    <3>2. CASE g # h
      <4>1. payouts'[g] = payouts[g] /\ stakes'[g] = stakes[g]
        BY <2>1, <2>5, <3>2
      <4>. QED
        BY <2>2, <2>3, <4>1
    <3>. QED
      BY <3>1, <3>2
  <2>. QED
    BY <2>1, <2>7, <2>8
<1>4. CASE UNCHANGED feesVars
  <2>1. UNCHANGED <<collected, holderPool, feesBurned, labs, stakes, payouts, claimed>>
    BY <1>4 DEF feesVars
  <2>2. TokenEconomy!EligibleStake' = TokenEconomy!EligibleStake
    BY <2>1 DEF TokenEconomy!EligibleStake, TokenEconomy!MinStake, TokenEconomy!FoldSet,
                TokenEconomy!MapThenFoldSet
  <2>3. \A g \in Holders : TokenEconomy!HolderShare(g)' = TokenEconomy!HolderShare(g)
    BY <2>1, <2>2 DEF TokenEconomy!HolderShare
  <2>4. TokenEconomy!FeePoolTypeOK' /\ TokenEconomy!FeesAddUp'
    BY <2>1 DEF TokenEconomy!FeePoolTypeOK, TokenEconomy!FeesAddUp
  <2>. QED
    BY <2>1, <2>2, <2>3, <2>4
<1>. QED
  BY <1>1, <1>2, <1>3, <1>4 DEF TokenEconomy!FeePoolNext

\* FeesInv holds in every reachable state.
LEMMA FeesHold == Spec => []FeesInv
<1>1. Init => FeesInv
  <2>. SUFFICES ASSUME Init PROVE FeesInv
    OBVIOUS
  <2>1. /\ collected = <<0, 0>> /\ holderPool = 0 /\ feesBurned = 0 /\ labs = 0
        /\ stakes = [h \in Holders |-> 0] /\ payouts = [h \in Holders |-> 0] /\ claimed = FALSE
    BY DEF Init, TokenEconomy!FeePoolInit
  <2>2. 0 \in 0 .. MaxFees
    BY ConstantsOfPolicy
  <2>. QED
    <3>1. TokenEconomy!FeePoolTypeOK
      BY <2>1, <2>2 DEF TokenEconomy!FeePoolTypeOK
    <3>2. TokenEconomy!FeesAddUp /\ \A h \in Holders : payouts[h] = 0
      BY <2>1 DEF TokenEconomy!FeesAddUp
    <3>. QED
      BY <3>1, <3>2 DEF FeesInv
<1>2. FeesInv /\ [Next]_vars => FeesInv'
  BY StepOfParts, FeesStep
<1>. QED
  BY <1>1, <1>2, PTL DEF Spec

\* Shares of the stake are rounded down, and so are the claims made of them.
LEMMA ClaimsAreShares ==
  ASSUME FeesInv PROVE TokenEconomy!ClaimsWithinPool
<1>. DEFINE E == TokenEconomy!EligibleStake
            Q == {h \in Holders : stakes[h] >= 100}
            share == [h \in Q |-> (stakes[h] * 10000) \div E]
<1>1. /\ IsFiniteSet(Holders) /\ IsFiniteSet(Q) /\ Q \subseteq Holders
      /\ holderPool \in Nat /\ E \in Nat /\ \A h \in Holders : stakes[h] \in Nat
      /\ \A h \in Holders : payouts[h] \in Nat
  <2>1. /\ stakes \in [Holders -> Stakes \union {0}] /\ payouts \in [Holders -> Nat]
        /\ holderPool \in Nat
    BY DEF FeesInv, TokenEconomy!FeePoolTypeOK
  <2>2. \A h \in Holders : stakes[h] \in Stakes \union {0}
    BY <2>1
  <2>3. Stakes \union {0} \subseteq Nat /\ IsFiniteSet(Holders)
    BY ConstantsOfPolicy
  <2>. QED
    BY <2>1, <2>2, <2>3, FS_Subset, EligibleIsNatural DEF FeesInv
<1>2. \A h \in Holders \ Q : payouts[h] = 0
  BY DEF FeesInv
<1>3. SumOver(payouts, Holders) = SumOver(payouts, Q)
  <2>. HIDE DEF Q
  <2>. QED
    BY <1>1, <1>2, SumOfThePart
<1>4. CASE E = 0
  <2>1. \A h \in Holders : payouts[h] = 0
    BY <1>4 DEF FeesInv
  <2>2. SumOver(payouts, Holders) = SumOver(payouts, {})
    BY <1>1, <2>1, SumOfThePart
  <2>3. SumOver(payouts, Holders) = 0
    BY <2>2, SumOfNothing
  <2>4. SumOver(payouts, Holders) <= holderPool
    BY <1>1, <2>3
  <2>. QED
    BY <2>4, StakesAddUp
<1>5. CASE E # 0
  <2>1. \A h \in Q : /\ share[h] \in Nat
                     /\ E * share[h] <= 10000 * stakes[h] + 0
                     /\ 10000 * payouts[h] <= holderPool * share[h] + 0
    <3>. SUFFICES ASSUME NEW h \in Q
                  PROVE  /\ share[h] \in Nat
                         /\ E * share[h] <= 10000 * stakes[h] + 0
                         /\ 10000 * payouts[h] <= holderPool * share[h] + 0
      OBVIOUS
    <3>1. PICK n \in Nat : n = stakes[h] * 10000 /\ n = 10000 * stakes[h]
      BY <1>1
    <3>2. PICK s \in Nat : s = share[h] /\ s * E <= n
      BY <1>1, <1>5, <3>1, Division
    <3>3. PICK m \in Nat : m = holderPool * s
      BY <1>1
    <3>4. PICK p \in Nat : p = m \div 10000 /\ p * 10000 <= m
      BY <3>3, Division
    <3>5. TokenEconomy!HolderShare(h) = p
      BY <3>2, <3>3, <3>4 DEF TokenEconomy!HolderShare, TokenEconomy!BPS
    <3>6. payouts[h] \in {0, p}
      BY <1>1, <3>5 DEF FeesInv
    <3>7. E * s = s * E /\ s * E \in Nat
      BY <1>1
    <3>. HIDE DEF share, E
    <3>8. share[h] \in Nat /\ E * share[h] <= 10000 * stakes[h] + 0
      BY <3>1, <3>2, <3>7
    <3>9. 10000 * payouts[h] <= holderPool * share[h] + 0
      BY <3>2, <3>3, <3>4, <3>6
    <3>. QED
      BY <3>8, <3>9
  <2>2. PICK k \in Nat : k = Cardinality(Q)
    BY <1>1, FS_CardinalityType
  <2>3. PICK W \in Nat, P \in Nat :
          /\ W = SumOver(share, Q) /\ P = SumOver(payouts, Q)
          /\ E * W <= 10000 * E + 0 * k /\ 10000 * P <= holderPool * W + 0 * k
    <3>1. E = SumOver(stakes, Q)
      BY StakesAddUp
    <3>2. /\ AtMost(Q, E, share, 10000, stakes, 0)
          /\ AtMost(Q, 10000, payouts, holderPool, share, 0)
      <4>. HIDE DEF E, Q, share
      <4>1. AtMost(Q, E, share, 10000, stakes, 0)
        BY <2>1 DEF AtMost
      <4>2. AtMost(Q, 10000, payouts, holderPool, share, 0)
        BY <2>1 DEF AtMost
      <4>. QED
        BY <4>1, <4>2
    <3>3. \A h \in Q : share[h] \in Nat /\ stakes[h] \in Nat /\ payouts[h] \in Nat
      BY <1>1, <2>1
    <3>. HIDE DEF E, Q, share
    <3>4. /\ SumOver(share, Q) \in Nat /\ SumOver(stakes, Q) \in Nat
          /\ E * SumOver(share, Q) <= 10000 * SumOver(stakes, Q) + 0 * Cardinality(Q)
      BY <1>1, <3>2, <3>3, SumsCompare
    <3>5. /\ SumOver(payouts, Q) \in Nat
          /\ 10000 * SumOver(payouts, Q) <= holderPool * SumOver(share, Q) + 0 * Cardinality(Q)
      BY <1>1, <3>2, <3>3, SumsCompare
    <3>. QED
      BY <2>2, <3>1, <3>4, <3>5
  <2>4. W <= 10000
    <3>. HIDE DEF E
    <3>. QED
      BY <1>1, <1>5, <2>3, CancelsFactor
  <2>5. P <= holderPool
    <3>1. PICK d \in Nat : 10000 = W + d
      BY <2>4
    <3>2. holderPool * 10000 = holderPool * W + holderPool * d /\ holderPool * d \in Nat
      BY <1>1, <3>1
    <3>3. holderPool * W \in Nat /\ 0 * k = 0
      BY <1>1
    <3>. QED
      BY <1>1, <2>3, <3>2, <3>3
  <2>6. SumOver(payouts, Holders) <= holderPool
    <3>. HIDE DEF Q
    <3>. QED
      BY <1>3, <2>3, <2>5
  <2>. QED
    BY <2>6, StakesAddUp
<1>. QED
  BY <1>4, <1>5

(****************************************************************************)
(* The decay of a stake.                                                    *)
(****************************************************************************)
DecayInv ==
  /\ TokenEconomy!StakeDecayTypeOK
  /\ TokenEconomy!TokensConserved
  /\ TokenEconomy!FloorHolds

\* A rate lies between its bounds, whatever the platform earns and spends.
LEMMA RatesAreBounded ==
  ASSUME NEW e \in TokenEconomy!Economies
  PROVE  /\ TokenEconomy!CalculateDynamicDecayRate(e) \in Nat
         /\ TokenEconomy!CalculateDynamicDecayRate(e) <= 2500
<1>1. PICK r \in Nat, c \in Nat : r = e.revenue /\ c = e.costs
  <2>1. e.revenue \in Revenues /\ e.costs \in Costs
    BY DEF TokenEconomy!Economies
  <2>. QED
    BY <2>1, ConstantsOfPolicy
<1>2. CASE c = 0
  BY <1>1, <1>2 DEF TokenEconomy!CalculateDynamicDecayRate
<1>3. CASE c # 0
  <2>1. \A a \in Int, b \in Nat \ {0} : TokenEconomy!Quotient(a, b) \in Int
    <3>. SUFFICES ASSUME NEW a \in Int, NEW b \in Nat \ {0} PROVE TokenEconomy!Quotient(a, b) \in Int
      OBVIOUS
    <3>1. CASE a < 0
      <4>1. -a \in Nat /\ (-a) \div b \in Nat
        BY <3>1, Division
      <4>. QED
        BY <3>1, <4>1 DEF TokenEconomy!Quotient
    <3>2. CASE a >= 0
      <4>1. a \div b \in Nat
        BY <3>2, Division
      <4>. QED
        BY <3>2, <4>1 DEF TokenEconomy!Quotient
    <3>. QED
      BY <3>1, <3>2
  <2>2. PICK ratio \in Int : ratio = TokenEconomy!Quotient((e.revenue - e.costs) * TokenEconomy!BPS, e.costs)
    <3>1. (r - c) * 10000 \in Int
      OBVIOUS
    <3>. QED
      BY <1>1, <1>3, <2>1, <3>1 DEF TokenEconomy!BPS
  <2>3. PICK q \in Int : q = TokenEconomy!Quotient(ratio * 500, TokenEconomy!BPS)
    <3>1. ratio * 500 \in Int
      OBVIOUS
    <3>. QED
      BY <2>1, <3>1 DEF TokenEconomy!BPS
  <2>4. TokenEconomy!CalculateDynamicDecayRate(e) = TokenEconomy!At(1000 - q, 200, 2500)
    BY <1>1, <1>3, <2>2, <2>3 DEF TokenEconomy!CalculateDynamicDecayRate
  <2>. QED
    BY <2>4 DEF TokenEconomy!At
<1>. QED
  BY <1>2, <1>3

\* What tenure and vault take off a rate leaves less of it.
LEMMA PartOfRate ==
  ASSUME NEW base \in Nat, base <= 2500, NEW less \in Nat, less <= 10000
  PROVE  /\ (base * (10000 - less)) \div 10000 \in Nat
         /\ (base * (10000 - less)) \div 10000 <= 2500
<1>1. PICK d \in Nat : d = 10000 - less /\ d <= 10000
  OBVIOUS
<1>2. base * d \in Nat /\ base * d <= base * 10000
  BY <1>1
<1>3. PICK q \in Nat : q = (base * d) \div 10000 /\ q * 10000 <= base * d
  BY <1>2, Division
<1>4. q <= 2500
  BY <1>2, <1>3
<1>. QED
  BY <1>1, <1>3, <1>4

\* The daily rate of decay is a natural.
LEMMA DailyRateExists ==
  ASSUME NEW e \in TokenEconomy!Economies, NEW tier, tenure \in Nat
  PROVE  TokenEconomy!AnnualToDailyRate(
           TokenEconomy!EffectiveAnnualRate(TokenEconomy!CalculateDynamicDecayRate(e), tier)) \in Nat
<1>1. PICK base \in Nat : base = TokenEconomy!CalculateDynamicDecayRate(e) /\ base <= 2500
  BY RatesAreBounded
<1>2. PICK t \in Nat : t = TokenEconomy!TenureReduction /\ t <= 10000
  <2>1. TokenEconomy!TenureReduction \in {0, 2000, 4000, 7000}
    BY DEF TokenEconomy!TenureReduction
  <2>. QED
    BY <2>1
<1>3. PICK v \in Nat : v = TokenEconomy!VaultReduction(tier) /\ v <= 10000
  <2>1. TokenEconomy!VaultReduction(tier) \in {0, 2000, 5000, 8000, 9500}
    BY DEF TokenEconomy!VaultReduction
  <2>. QED
    BY <2>1
<1>4. PICK a \in Nat : a = (base * (10000 - t)) \div 10000 /\ a <= 2500
  BY <1>1, <1>2, PartOfRate
<1>5. PICK b \in Nat : b = (a * (10000 - v)) \div 10000 /\ b <= 2500
  BY <1>3, <1>4, PartOfRate
<1>6. PICK annual \in Nat :
        /\ annual = TokenEconomy!EffectiveAnnualRate(TokenEconomy!CalculateDynamicDecayRate(e), tier)
        /\ annual <= 2533
  <2>1. TokenEconomy!EffectiveAnnualRate(base, tier) = TokenEconomy!At(b, 200, 10000)
    BY <1>2, <1>3, <1>4, <1>5 DEF TokenEconomy!EffectiveAnnualRate, TokenEconomy!BPS
  <2>. QED
    BY <1>1, <1>5, <2>1 DEF TokenEconomy!At
<1>7. \E d \in 1 .. 8 : annual <= TokenEconomy!DailySteps[d]
                        /\ \A k \in 1 .. (d - 1) : annual > TokenEconomy!DailySteps[k]
  <2>. DEFINE Good == {d \in 1 .. 8 : annual <= TokenEconomy!DailySteps[d]}
  <2>1. 8 \in Good
    BY <1>6 DEF TokenEconomy!DailySteps
  <2>2. PICK d \in Good : \A k \in Good : d <= k
    <3>1. Good \subseteq Nat /\ Good # {}
      BY <2>1
    <3>. HIDE DEF Good
    <3>. QED
      BY <3>1, Smallest
  <2>3. \A k \in 1 .. 8 : TokenEconomy!DailySteps[k] \in Nat
    BY DEF TokenEconomy!DailySteps
  <2>4. \A k \in 1 .. (d - 1) : annual > TokenEconomy!DailySteps[k]
    BY <2>2, <2>3
  <2>. QED
    BY <2>4
<1>8. TokenEconomy!AnnualToDailyRate(annual) \in 1 .. 8
  <2>1. DOMAIN TokenEconomy!DailySteps = 1 .. 8
    BY DEF TokenEconomy!DailySteps
  <2>. QED
    BY <1>7, <2>1 DEF TokenEconomy!AnnualToDailyRate
<1>. QED
  BY <1>6, <1>8

\* After the first year the floor is at least a tenth, and it is a number.
LEMMA FloorOfTenure ==
  ASSUME tenure \in Nat
  PROVE  /\ TokenEconomy!Floor \in Nat
         /\ (Original * 1000) \div 10000 \in Nat
         /\ tenure >= 365 => (Original * 1000) \div 10000 <= TokenEconomy!Floor
<1>0. Original \in Nat
  BY ConstantsOfPolicy
<1>1. PICK y \in Nat : y = TokenEconomy!Years /\ (tenure >= 365 => y >= 1)
  <2>1. PICK y \in Nat : y = tenure \div 365 /\ tenure < y * 365 + 365
    BY Division
  <2>. QED
    BY <2>1 DEF TokenEconomy!Years
<1>2. PICK f \in Nat : f = TokenEconomy!TenureFloor /\ (tenure >= 365 => f >= 1000)
  <2>1. CASE y = 0
    BY <1>1, <2>1 DEF TokenEconomy!TenureFloor
  <2>2. CASE y = 1
    BY <1>1, <2>2 DEF TokenEconomy!TenureFloor
  <2>3. CASE y \in 2 .. 4
    BY <1>1, <2>3 DEF TokenEconomy!TenureFloor
  <2>4. CASE y > 4
    BY <1>1, <2>4 DEF TokenEconomy!TenureFloor
  <2>. QED
    BY <2>1, <2>2, <2>3, <2>4
<1>3. Original * f \in Nat /\ Original * 1000 \in Nat
  BY <1>0
<1>4. PICK p \in Nat : p = (Original * f) \div 10000 /\ Original * f < p * 10000 + 10000
  BY <1>3, Division
<1>5. PICK q \in Nat : q = (Original * 1000) \div 10000 /\ q * 10000 <= Original * 1000
  BY <1>3, Division
<1>6. tenure >= 365 => q <= p
  <2>. SUFFICES ASSUME tenure >= 365 PROVE q <= p
    OBVIOUS
  <2>1. PICK d \in Nat : f = 1000 + d
    BY <1>2
  <2>2. Original * f = Original * 1000 + Original * d /\ Original * d \in Nat
    BY <1>0, <2>1
  <2>. QED
    BY <1>3, <1>4, <1>5, <2>2
<1>. QED
  BY <1>2, <1>4, <1>5, <1>6 DEF TokenEconomy!Floor, TokenEconomy!BPS

\* A step keeps DecayInv, and takes nothing from a balance at the floor.
LEMMA DecayStep ==
  ASSUME DecayInv, [TokenEconomy!StakeDecayNext]_decayVars
  PROVE  DecayInv' /\ (balance <= TokenEconomy!Floor => balance' = balance)
<1>0. /\ Held \in Nat /\ tenure \in Tenures \union {0} /\ Tenures \subseteq Nat
      /\ balance \in Nat /\ burned \in Nat /\ recycled \in Nat
      /\ balance <= Held /\ balance + burned + recycled = Held
      /\ tenure < 365 => balance = Held
      /\ balance < Held => balance >= (Original * 1000) \div 10000
  BY ConstantsOfPolicy DEF DecayInv, TokenEconomy!StakeDecayTypeOK, TokenEconomy!TokensConserved,
     TokenEconomy!FloorHolds, TokenEconomy!BPS, TokenEconomy!GracePeriod
<1>1. tenure \in Nat
  <2>1. Tenures \union {0} \subseteq Nat
    BY <1>0
  <2>. QED
    BY <1>0, <2>1
<1>2. PICK floor \in Nat : floor = TokenEconomy!Floor
  BY <1>1, FloorOfTenure
<1>3. PICK tenth \in Nat : /\ tenth = (Original * 1000) \div 10000
                          /\ (tenure >= 365 => tenth <= floor)
  BY <1>1, <1>2, FloorOfTenure
<1>4. CASE TokenEconomy!DaysPass
  <2>1. /\ tenure' \in Tenures /\ tenure' > tenure
        /\ UNCHANGED <<balance, burned, recycled>>
    BY <1>4 DEF TokenEconomy!DaysPass
  <2>2. tenure' \in Nat
    BY <1>0, <2>1
  <2>3. tenure' < 365 => balance' = Held
    BY <1>0, <1>1, <2>1, <2>2
  <2>. QED
    BY <1>0, <2>1, <2>3 DEF DecayInv, TokenEconomy!StakeDecayTypeOK,
       TokenEconomy!TokensConserved, TokenEconomy!FloorHolds, TokenEconomy!BPS,
       TokenEconomy!GracePeriod
<1>5. ASSUME NEW e \in TokenEconomy!Economies, NEW tier \in Tiers, TokenEconomy!ApplyDailyDecay(e, tier)
      PROVE  DecayInv' /\ (balance <= TokenEconomy!Floor => balance' = balance)
  <2>1. PICK rate \in Nat :
          rate = TokenEconomy!AnnualToDailyRate(
                   TokenEconomy!EffectiveAnnualRate(TokenEconomy!CalculateDynamicDecayRate(e), tier))
    BY <1>1, DailyRateExists
  <2>2. tenure >= 365 /\ balance > floor
    BY <1>2, <1>5 DEF TokenEconomy!ApplyDailyDecay, TokenEconomy!GracePeriod
  <2>3. PICK left \in Nat :
          /\ left = TokenEconomy!DailyDecay(rate)
          /\ left < balance /\ floor <= left
    <3>1. balance * rate \in Nat
      BY <1>0
    <3>2. PICK part1 \in Nat : part1 = (balance * rate) \div 10000
      BY <3>1, Division
    <3>3. TokenEconomy!DailyDecay(rate) =
            TokenEconomy!Larger(balance - TokenEconomy!Larger(part1, 1), floor)
      BY <1>2, <3>2 DEF TokenEconomy!DailyDecay, TokenEconomy!BPS
    <3>4. PICK less \in Nat : less = TokenEconomy!Larger(part1, 1) /\ less >= 1
      BY DEF TokenEconomy!Larger
    <3>5. PICK left \in Nat :
            left = TokenEconomy!Larger(balance - less, floor) /\ left < balance /\ floor <= left
      <4>1. CASE balance - less > floor
        <5>1. PICK left \in Nat : left = balance - less
          BY <1>0, <4>1
        <5>2. left < balance /\ left > floor
          BY <1>0, <3>4, <4>1, <5>1
        <5>. QED
          BY <5>1, <5>2 DEF TokenEconomy!Larger
      <4>2. CASE ~(balance - less > floor)
        BY <2>2, <4>2 DEF TokenEconomy!Larger
      <4>. QED
        BY <4>1, <4>2
    <3>. QED
      BY <3>3, <3>4, <3>5
  <2>4. PICK decayed \in Nat : decayed = balance - left
    BY <1>0, <2>3
  <2>5. PICK burn \in Nat : burn = (decayed * 1000) \div 10000 /\ burn <= decayed
    <3>1. decayed * 1000 \in Nat
      OBVIOUS
    <3>2. PICK burn \in Nat : burn = (decayed * 1000) \div 10000 /\ burn * 10000 <= decayed * 1000
      BY <3>1, Division
    <3>. QED
      BY <3>2
  <2>6. /\ balance' = balance - decayed /\ burned' = burned + burn
        /\ recycled' = recycled + (decayed - burn) /\ tenure' = tenure
    BY <1>5, <2>1, <2>3, <2>4, <2>5 DEF TokenEconomy!ApplyDailyDecay, TokenEconomy!BPS
  <2>7. /\ balance' = left /\ balance' \in 0 .. Held /\ burned' \in 0 .. Held /\ recycled' \in 0 .. Held
        /\ balance' + burned' + recycled' = Held
    BY <1>0, <2>3, <2>4, <2>5, <2>6
  <2>8. tenth <= balance' /\ ~(tenure' < 365)
    BY <1>1, <1>3, <2>2, <2>3, <2>6, <2>7
  <2>9. DecayInv'
    BY <1>0, <1>3, <2>6, <2>7, <2>8 DEF DecayInv, TokenEconomy!StakeDecayTypeOK,
       TokenEconomy!TokensConserved, TokenEconomy!FloorHolds, TokenEconomy!BPS,
       TokenEconomy!GracePeriod
  <2>. QED
    BY <1>0, <1>2, <2>2, <2>9
<1>6. CASE UNCHANGED decayVars
  BY <1>6 DEF decayVars, DecayInv, TokenEconomy!StakeDecayTypeOK, TokenEconomy!TokensConserved,
     TokenEconomy!FloorHolds
<1>. QED
  BY <1>4, <1>5, <1>6 DEF TokenEconomy!StakeDecayNext

\* DecayInv holds in every reachable state.
LEMMA DecayHolds == Spec => []DecayInv
<1>1. Init => DecayInv
  <2>. SUFFICES ASSUME Init PROVE DecayInv
    OBVIOUS
  <2>1. balance = Held /\ tenure = 0 /\ burned = 0 /\ recycled = 0 /\ Held \in Nat
    BY ConstantsOfPolicy DEF Init, TokenEconomy!StakeDecayInit
  <2>. QED
    BY <2>1 DEF DecayInv, TokenEconomy!StakeDecayTypeOK, TokenEconomy!TokensConserved,
       TokenEconomy!FloorHolds
<1>2. DecayInv /\ [Next]_vars => DecayInv'
  BY StepOfParts, DecayStep
<1>. QED
  BY <1>1, <1>2, PTL DEF Spec

(****************************************************************************)
(* The trust of an agent.                                                   *)
(****************************************************************************)
TrustInv ==
  /\ TokenEconomy!TrustTypeOK
  /\ completions + rejections + open <= MaxBounties
  /\ TokenEconomy!LevelEarned

\* A level deserved of the fleet manager may be granted by the protocol.
LEMMA DeservedIsGranted ==
  ASSUME completions \in Nat, rejections \in Nat, open \in Nat,
         NEW l \in 2 .. 5, TokenEconomy!Deserved(l), NEW k \in 1 .. (l - 1)
  PROVE  /\ completions >= TokenEconomy!MinCompletions[k]
         /\ TokenEconomy!Reputation >= TokenEconomy!MinReputation[k]
<1>1. PICK least \in Nat, most \in Nat, bps \in Nat, now \in Nat :
        /\ most = TokenEconomy!MinCompletions[l - 1] /\ bps = TokenEconomy!MinReputation[l - 1]
        /\ least = TokenEconomy!MinCompletions[k] /\ now = TokenEconomy!MinReputation[k]
        /\ least <= most /\ now <= bps /\ most > 0
  BY DEF TokenEconomy!MinCompletions, TokenEconomy!MinReputation
<1>2. completions >= most /\ completions * 10000 > bps * (completions + rejections + open)
  BY <1>1 DEF TokenEconomy!Deserved, TokenEconomy!RateAbove, TokenEconomy!Claimed, TokenEconomy!BPS
<1>3. PICK n \in Nat \ {0} : n = completions + rejections
  BY <1>1, <1>2
<1>4. PICK r \in Nat : r = (completions * 10000) \div n /\ completions * 10000 < r * n + n
  <2>1. completions * 10000 \in Nat
    OBVIOUS
  <2>. QED
    BY <2>1, Division
<1>5. TokenEconomy!Reputation = r
  BY <1>3, <1>4 DEF TokenEconomy!Reputation, TokenEconomy!BPS
<1>6. bps * n < r * n + n
  <2>1. bps * (completions + rejections + open) = bps * n + bps * open /\ bps * open \in Nat
    BY <1>3
  <2>2. bps * n \in Nat /\ r * n \in Nat
    OBVIOUS
  <2>. QED
    BY <1>2, <1>4, <2>1, <2>2
<1>7. bps <= r
  <2>. SUFFICES ASSUME bps > r PROVE FALSE
    OBVIOUS
  <2>1. PICK d \in Nat : bps = r + 1 + d
    OBVIOUS
  <2>2. bps * n = r * n + n + d * n /\ d * n \in Nat /\ r * n \in Nat
    BY <2>1
  <2>. QED
    BY <1>6, <2>2
<1>. QED
  BY <1>1, <1>2, <1>5, <1>7

\* The level announced is deserved, or the one stored, which is the lowest.
LEMMA FleetLevelIs ==
  ASSUME storedLevel = 1
  PROVE  /\ TokenEconomy!FleetLevel \in 1 .. 5
         /\ TokenEconomy!FleetLevel > 1 => TokenEconomy!Deserved(TokenEconomy!FleetLevel)
<1>1. CASE \E l \in 2 .. 5 : TokenEconomy!Deserved(l)
  <2>1. \E l \in 2 .. 5 : /\ TokenEconomy!Deserved(l)
                          /\ \A k \in 2 .. 5 : TokenEconomy!Deserved(k) => k <= l
    <3>1. CASE TokenEconomy!Deserved(5)
      BY <3>1
    <3>2. CASE ~TokenEconomy!Deserved(5) /\ TokenEconomy!Deserved(4)
      <4>1. \A k \in 2 .. 5 : TokenEconomy!Deserved(k) => k <= 4
        <5>1. \A k \in 2 .. 5 : k = 5 \/ k <= 4
          OBVIOUS
        <5>. QED
          BY <3>2, <5>1
      <4>. QED
        BY <3>2, <4>1
    <3>3. CASE ~TokenEconomy!Deserved(5) /\ ~TokenEconomy!Deserved(4) /\ TokenEconomy!Deserved(3)
      <4>1. \A k \in 2 .. 5 : TokenEconomy!Deserved(k) => k <= 3
        <5>1. \A k \in 2 .. 5 : k = 5 \/ k = 4 \/ k <= 3
          OBVIOUS
        <5>. QED
          BY <3>3, <5>1
      <4>. QED
        BY <3>3, <4>1
    <3>4. CASE ~TokenEconomy!Deserved(5) /\ ~TokenEconomy!Deserved(4) /\ ~TokenEconomy!Deserved(3)
      <4>1. \A k \in 2 .. 5 : k = 5 \/ k = 4 \/ k = 3 \/ k = 2
        OBVIOUS
      <4>2. \A k \in 2 .. 5 : TokenEconomy!Deserved(k) => k = 2
        BY <3>4, <4>1
      <4>. QED
        BY <1>1, <4>2
    <3>. QED
      BY <3>1, <3>2, <3>3, <3>4
  <2>2. /\ TokenEconomy!FleetLevel \in 2 .. 5
        /\ TokenEconomy!Deserved(TokenEconomy!FleetLevel)
    BY <1>1, <2>1 DEF TokenEconomy!FleetLevel
  <2>. QED
    BY <2>2
<1>2. CASE ~\E l \in 2 .. 5 : TokenEconomy!Deserved(l)
  BY <1>2 DEF TokenEconomy!FleetLevel
<1>. QED
  BY <1>1, <1>2

\* What the protocol would grant is at least every level that is enough.
LEMMA GrantableIsHighest ==
  ASSUME NEW l \in 1 .. 5,
         \A k \in 1 .. (l - 1) : /\ completions >= TokenEconomy!MinCompletions[k]
                                 /\ TokenEconomy!Reputation >= TokenEconomy!MinReputation[k]
  PROVE  l <= TokenEconomy!Grantable
<1>. DEFINE enough(n) == \A k \in 1 .. (n - 1) :
              /\ completions >= TokenEconomy!MinCompletions[k]
              /\ TokenEconomy!Reputation >= TokenEconomy!MinReputation[k]
            Good == {n \in Nat : n \in 0 .. 4 /\ enough(5 - n)}
<1>1. PICK m \in Good : \A n \in Good : m <= n
  <2>1. 5 - l \in Good
    <3>1. 5 - (5 - l) = l /\ 5 - l \in Nat /\ 5 - l \in 0 .. 4
      OBVIOUS
    <3>. QED
      BY <3>1
  <2>2. Good \subseteq Nat
    OBVIOUS
  <2>. HIDE DEF Good
  <2>. QED
    BY <2>1, <2>2, Smallest
<1>2. /\ 5 - m \in 1 .. 5 /\ enough(5 - m)
      /\ \A n \in 1 .. 5 : enough(n) => n <= 5 - m
  <2>1. m \in 0 .. 4 /\ enough(5 - m)
    OBVIOUS
  <2>2. ASSUME NEW n \in 1 .. 5, enough(n) PROVE n <= 5 - m
    <3>1. PICK d \in Nat : d = 5 - n /\ d \in 0 .. 4 /\ 5 - d = n
      OBVIOUS
    <3>2. d \in Good
      BY <2>2, <3>1
    <3>3. m <= d
      BY <1>1, <3>2
    <3>. HIDE DEF enough, Good
    <3>. QED
      BY <2>1, <3>1, <3>3
  <2>. QED
    BY <2>1, <2>2
<1>3. TokenEconomy!Grantable = CHOOSE n \in 1 .. 5 : enough(n) /\ \A k \in 1 .. 5 : enough(k) => k <= n
  BY DEF TokenEconomy!Grantable
<1>4. enough(l)
  OBVIOUS
<1>. HIDE DEF enough, Good
<1>5. \A k \in 1 .. 5 : enough(k) => k <= TokenEconomy!Grantable
  BY <1>2, <1>3
<1>. QED
  BY <1>4, <1>5

\* The trust the fleet knows is never ahead of the relay's.
LEMMA FleetStaysBehind ==
  ASSUME TrustInv PROVE TokenEconomy!FleetNeverAhead
<1>1. /\ completions \in Nat /\ rejections \in Nat /\ open \in Nat /\ storedLevel = 1
  BY ConstantsOfPolicy DEF TrustInv, TokenEconomy!TrustTypeOK
<1>2. PICK l \in 1 .. 5 : l = TokenEconomy!FleetLevel /\ (l > 1 => TokenEconomy!Deserved(l))
  BY <1>1, FleetLevelIs
<1>3. \A k \in 1 .. (l - 1) : /\ completions >= TokenEconomy!MinCompletions[k]
                              /\ TokenEconomy!Reputation >= TokenEconomy!MinReputation[k]
  <2>1. CASE l = 1
    BY <2>1
  <2>2. CASE l > 1
    <3>1. l \in 2 .. 5 /\ TokenEconomy!Deserved(l)
      BY <1>2, <2>2
    <3>. QED
      BY <1>1, <3>1, DeservedIsGranted
  <2>. QED
    BY <2>1, <2>2
<1>. QED
  BY <1>2, <1>3, GrantableIsHighest DEF TokenEconomy!FleetNeverAhead

\* A step of this part, or of another, keeps TrustInv.
LEMMA TrustStep ==
  ASSUME TrustInv, [TokenEconomy!TrustNext]_trustVars PROVE TrustInv'
<1>0. /\ completions \in Nat /\ rejections \in Nat /\ open \in Nat /\ storedLevel = 1
      /\ trustLevel \in 1 .. 5 /\ announced \in 1 .. 5 /\ open <= MaxOpen
      /\ completions + rejections + open <= MaxBounties /\ MaxBounties \in Nat /\ MaxOpen \in Nat
      /\ trustLevel > 1 => completions >= TokenEconomy!MinCompletions[trustLevel - 1]
  BY ConstantsOfPolicy DEF TrustInv, TokenEconomy!TrustTypeOK, TokenEconomy!LevelEarned
<1>1. CASE TokenEconomy!Claim
  BY <1>0, <1>1 DEF TokenEconomy!Claim, TrustInv, TokenEconomy!TrustTypeOK, TokenEconomy!LevelEarned
<1>2. ASSUME NEW approved \in BOOLEAN, TokenEconomy!RecordCompletion(approved)
      PROVE  TrustInv'
  <2>1. /\ open > 0 /\ open' = open - 1 /\ UNCHANGED <<trustLevel, announced, storedLevel>>
        /\ \/ completions' = completions + 1 /\ rejections' = rejections
           \/ rejections' = rejections + 1 /\ completions' = completions
    BY <1>2 DEF TokenEconomy!RecordCompletion
  <2>2. trustLevel > 1 => TokenEconomy!MinCompletions[trustLevel - 1] \in Nat
    BY <1>0 DEF TokenEconomy!MinCompletions
  <2>3. trustLevel' > 1 => completions' >= TokenEconomy!MinCompletions[trustLevel' - 1]
    BY <1>0, <2>1, <2>2
  <2>4. TokenEconomy!MinCompletions' = TokenEconomy!MinCompletions
    BY DEF TokenEconomy!MinCompletions
  <2>. QED
    BY <1>0, <2>1, <2>3, <2>4 DEF TrustInv, TokenEconomy!TrustTypeOK, TokenEconomy!LevelEarned
<1>3. CASE TokenEconomy!TryUpgrade
  <2>1. /\ trustLevel < 5 /\ completions >= TokenEconomy!MinCompletions[trustLevel]
        /\ trustLevel' = trustLevel + 1
        /\ UNCHANGED <<completions, rejections, open, announced, storedLevel>>
    BY <1>3 DEF TokenEconomy!TryUpgrade, TokenEconomy!CanUpgrade
  <2>2. trustLevel' - 1 = trustLevel /\ trustLevel' \in 1 .. 5
    BY <1>0, <2>1
  <2>3. completions' >= TokenEconomy!MinCompletions[trustLevel' - 1]
    BY <2>1, <2>2
  <2>. QED
    BY <1>0, <2>1, <2>2, <2>3 DEF TrustInv, TokenEconomy!TrustTypeOK, TokenEconomy!LevelEarned
<1>4. CASE TokenEconomy!CheckTrustProgression
  <2>1. announced' \in 1 .. 5 /\ UNCHANGED <<completions, rejections, open, trustLevel, storedLevel>>
    BY <1>0, <1>4, FleetLevelIs DEF TokenEconomy!CheckTrustProgression
  <2>. QED
    BY <1>0, <2>1 DEF TrustInv, TokenEconomy!TrustTypeOK, TokenEconomy!LevelEarned
<1>5. CASE UNCHANGED trustVars
  BY <1>5 DEF trustVars, TrustInv, TokenEconomy!TrustTypeOK, TokenEconomy!LevelEarned
<1>. QED
  BY <1>1, <1>2, <1>3, <1>4, <1>5 DEF TokenEconomy!TrustNext

\* TrustInv holds in every reachable state.
LEMMA TrustHolds == Spec => []TrustInv
<1>1. Init => TrustInv
  BY ConstantsOfPolicy DEF Init, TokenEconomy!TrustInit, TrustInv, TokenEconomy!TrustTypeOK,
     TokenEconomy!LevelEarned
<1>2. TrustInv /\ [Next]_vars => TrustInv'
  BY StepOfParts, TrustStep
<1>. QED
  BY <1>1, <1>2, PTL DEF Spec

(****************************************************************************)
(* Wallets and external agents.                                             *)
(****************************************************************************)

\* A row is there because its tenant proved the wallet to be its own.
WalletsInv ==
  /\ connected \in [Wallets -> Tenants \union {Nobody}]
  /\ requests \in [WalletCalls -> [stage : {"idle", "verified", "free"},
                                   tenant : Tenants \cup {Nobody}, wallet : Wallets \cup {Nobody}]]
  /\ \A w \in Wallets : connected[w] # Nobody => <<connected[w], w>> \in answeredTo
  /\ injected \subseteq answeredTo

\* A step keeps WalletsInv, and a wallet leaves its owner before it gets another.
LEMMA WalletsStep ==
  ASSUME WalletsInv, [OutsideParties!WalletsNext]_walletsVars
  PROVE  /\ WalletsInv'
         /\ \A w \in Wallets :
              connected[w] # Nobody /\ connected'[w] # connected[w] => connected'[w] = Nobody
<1>0. Nobody \notin Tenants
  BY ConstantsOfPolicy
<1>. USE DEF WalletsInv
<1>1. ASSUME NEW c \in WalletCalls, NEW t \in Tenants, NEW w \in Wallets,
             OutsideParties!ConnectWallet(c, t, w)
      PROVE  WalletsInv' /\ connected' = connected
  BY <1>1 DEF OutsideParties!ConnectWallet
<1>2. ASSUME NEW c \in WalletCalls, OutsideParties!CheckOwner(c)
      PROVE  WalletsInv' /\ connected' = connected
  <2>1. requests' = [requests EXCEPT ![c] = IF connected[requests[c].wallet] \in {Nobody, requests[c].tenant}
                                            THEN [requests[c] EXCEPT !.stage = "free"]
                                            ELSE OutsideParties!NoWalletCall]
    BY <1>2 DEF OutsideParties!CheckOwner
  <2>2. requests' \in [WalletCalls -> [stage : {"idle", "verified", "free"},
                                   tenant : Tenants \cup {Nobody}, wallet : Wallets \cup {Nobody}]]
    BY <2>1 DEF OutsideParties!NoWalletCall
  <2>. QED
    BY <1>2, <2>2 DEF OutsideParties!CheckOwner
<1>3. ASSUME NEW c \in WalletCalls, OutsideParties!UpdateVerified(c)
      PROVE  WalletsInv' /\ connected' = connected
  BY <1>3 DEF OutsideParties!UpdateVerified, OutsideParties!Verified, OutsideParties!NoWalletCall
<1>4. ASSUME NEW c \in WalletCalls, OutsideParties!InsertWallet(c)
      PROVE  /\ WalletsInv'
             /\ \A w \in Wallets : connected[w] # Nobody => connected'[w] = connected[w]
  <2>1. PICK t, w : /\ t = requests[c].tenant /\ w = requests[c].wallet
                    /\ t \in Tenants \union {Nobody} /\ connected[w] = Nobody
                    /\ connected' = [connected EXCEPT ![w] = t]
                    /\ answeredTo' = answeredTo \union {<<t, w>>}
                    /\ requests' = [requests EXCEPT ![c] = OutsideParties!NoWalletCall]
                    /\ injected' = injected
    BY <1>4 DEF OutsideParties!InsertWallet, OutsideParties!Verified
  <2>2. connected' \in [Wallets -> Tenants \union {Nobody}]
    BY <2>1
  <2>3. requests' \in [WalletCalls -> [stage : {"idle", "verified", "free"},
                                   tenant : Tenants \cup {Nobody}, wallet : Wallets \cup {Nobody}]]
    BY <2>1 DEF OutsideParties!NoWalletCall
  <2>4. ASSUME NEW v \in Wallets
        PROVE  /\ connected'[v] # Nobody => <<connected'[v], v>> \in answeredTo'
               /\ connected[v] # Nobody => connected'[v] = connected[v]
    <3>1. CASE v = w
      BY <2>1, <3>1
    <3>2. CASE v # w
      BY <2>1, <3>2
    <3>. QED
      BY <3>1, <3>2
  <2>. QED
    BY <2>1, <2>2, <2>3, <2>4
<1>5. ASSUME NEW c \in WalletCalls, OutsideParties!InsertFails(c)
      PROVE  WalletsInv' /\ connected' = connected
  BY <1>5 DEF OutsideParties!InsertFails, OutsideParties!NoWalletCall
<1>6. ASSUME NEW t \in Tenants, OutsideParties!DisconnectWallet(t)
      PROVE  /\ WalletsInv'
             /\ \A w \in Wallets : connected'[w] # connected[w] => connected'[w] = Nobody
  BY <1>6 DEF OutsideParties!DisconnectWallet
<1>7. ASSUME NEW t \in Tenants, OutsideParties!InjectWalletAddress(t)
      PROVE  WalletsInv' /\ connected' = connected
  <2>1. PICK w \in Wallets : /\ connected[w] = t /\ injected' = injected \union {<<t, w>>}
                             /\ UNCHANGED <<connected, requests, answeredTo>>
    BY <1>7 DEF OutsideParties!InjectWalletAddress, OutsideParties!PrimaryOf
  <2>2. <<t, w>> \in answeredTo
    BY <1>0, <2>1
  <2>. QED
    BY <2>1, <2>2
<1>8. CASE UNCHANGED walletsVars
  BY <1>8 DEF walletsVars
<1>. QED
  BY <1>1, <1>2, <1>3, <1>4, <1>5, <1>6, <1>7, <1>8 DEF OutsideParties!WalletsNext

\* WalletsInv holds in every reachable state.
LEMMA WalletsHold == Spec => []WalletsInv
<1>1. Init => WalletsInv
  BY DEF Init, OutsideParties!WalletsInit, OutsideParties!NoWalletCall, WalletsInv
<1>2. WalletsInv /\ [Next]_vars => WalletsInv'
  BY StepOfParts, WalletsStep
<1>. QED
  BY <1>1, <1>2, PTL DEF Spec

ExternalInv ==
  /\ OutsideParties!ExternalAgentsTypeOK
  /\ OutsideParties!OneResultCounts
  /\ OutsideParties!RunsWithinTrust

\* A step of this part, or of another, keeps ExternalInv.
LEMMA ExternalStep ==
  ASSUME ExternalInv, [OutsideParties!ExternalAgentsNext]_externalVars
  PROVE  ExternalInv'
<1>. USE DEF ExternalInv, OutsideParties!Open, OutsideParties!Ended
<1>0. /\ agents \in [Names -> {0, 1, 5}]
      /\ items \in [Items -> OutsideParties!Open \cup OutsideParties!Ended]
      /\ doing \in [Names -> SUBSET Items]
      /\ tool \in [Names -> [category : Categories \cup {NoCategory}, trust : 0 .. 5]]
      /\ accepted \in [Items -> 0 .. 2]
  BY DEF OutsideParties!ExternalAgentsTypeOK, OutsideParties!SidecarTrust, OutsideParties!OthersTrust
<1>1. ASSUME NEW n \in Names, \/ OutsideParties!EapRegister(n)
                              \/ OutsideParties!StopAgent(n)
      PROVE  ExternalInv'
  <2>1. agents' \in [Names -> {0, 1, 5}] /\ UNCHANGED <<items, doing, tool, accepted>>
    BY <1>0, <1>1 DEF OutsideParties!EapRegister, OutsideParties!StopAgent,
       OutsideParties!SidecarTrust, OutsideParties!OthersTrust
  <2>. QED
    BY <2>1 DEF OutsideParties!ExternalAgentsTypeOK, OutsideParties!OneResultCounts,
       OutsideParties!RunsWithinTrust, OutsideParties!SidecarTrust, OutsideParties!OthersTrust
<1>2. ASSUME NEW n \in Names, \/ OutsideParties!ToolEnds(n)
                              \/ \E k \in Categories : OutsideParties!EapToolExecute(n, k)
      PROVE  ExternalInv'
  <2>1. PICK k \in Categories \cup {NoCategory}, trust \in 0 .. 5 :
          /\ tool' = [tool EXCEPT ![n] = [category |-> k, trust |-> trust]]
          /\ k # NoCategory => trust >= OutsideParties!TrustLevelForCategory(k)
          /\ UNCHANGED <<agents, items, doing, accepted>>
    <3>1. CASE OutsideParties!ToolEnds(n)
      <4>1. NoCategory \in Categories \cup {NoCategory} /\ 0 \in 0 .. 5
        OBVIOUS
      <4>2. /\ tool' = [tool EXCEPT ![n] = [category |-> NoCategory, trust |-> 0]]
            /\ UNCHANGED <<agents, items, doing, accepted>>
        BY <3>1 DEF OutsideParties!ToolEnds
      <4>. QED
        BY <4>1, <4>2, Zenon
    <3>2. CASE \E k \in Categories : OutsideParties!EapToolExecute(n, k)
      <4>1. PICK k \in Categories : OutsideParties!EapToolExecute(n, k)
        BY <3>2
      <4>2. agents[n] \in 0 .. 5
        BY <1>0
      <4>. QED
        BY <4>1, <4>2 DEF OutsideParties!EapToolExecute
    <3>. QED
      BY <1>2, <3>1, <3>2
  <2>2. tool' \in [Names -> [category : Categories \cup {NoCategory}, trust : 0 .. 5]]
    BY <1>0, <2>1
  <2>3. ASSUME NEW m \in Names, tool'[m].category # NoCategory
        PROVE  tool'[m].trust >= OutsideParties!TrustLevelForCategory(tool'[m].category)
    <3>1. CASE m = n
      <4>1. tool'[m] = [category |-> k, trust |-> trust]
        BY <1>0, <2>1, <3>1
      <4>. QED
        BY <2>1, <2>3, <4>1
    <3>2. CASE m # n
      <4>1. tool'[m] = tool[m]
        BY <1>0, <2>1, <3>2
      <4>. QED
        BY <2>3, <4>1 DEF OutsideParties!RunsWithinTrust
    <3>. QED
      BY <3>1, <3>2
  <2>4. OutsideParties!RunsWithinTrust'
    BY <2>3 DEF OutsideParties!RunsWithinTrust, OutsideParties!TrustLevelForCategory
  <2>. QED
    BY <2>1, <2>2, <2>4 DEF OutsideParties!ExternalAgentsTypeOK, OutsideParties!OneResultCounts,
       OutsideParties!SidecarTrust, OutsideParties!OthersTrust
<1>3. ASSUME NEW n \in Names, OutsideParties!EapPollTasks(n)
      PROVE  ExternalInv'
  <2>1. doing' \in [Names -> SUBSET Items] /\ UNCHANGED <<agents, items, tool, accepted>>
    <3>1. PICK taken \in SUBSET Items : /\ doing' = [doing EXCEPT ![n] = doing[n] \union taken]
                                       /\ UNCHANGED <<agents, items, tool, accepted>>
      BY <1>3 DEF OutsideParties!EapPollTasks
    <3>. QED
      BY <1>0, <3>1
  <2>. QED
    BY <2>1 DEF OutsideParties!ExternalAgentsTypeOK, OutsideParties!OneResultCounts,
       OutsideParties!RunsWithinTrust
<1>4. ASSUME NEW i \in Items, OutsideParties!AssignItem(i)
      PROVE  ExternalInv'
  <2>1. PICK s \in {"assigned", "in_progress"} :
          /\ items[i] \in OutsideParties!Open /\ items' = [items EXCEPT ![i] = s]
          /\ UNCHANGED <<agents, doing, tool, accepted>>
    BY <1>4 DEF OutsideParties!AssignItem
  <2>2. items' \in [Items -> OutsideParties!Open \cup OutsideParties!Ended]
    BY <1>0, <2>1
  <2>3. \A j \in Items : items'[j] \in OutsideParties!Ended <=> items[j] \in OutsideParties!Ended
    BY <1>0, <2>1
  <2>. QED
    BY <2>1, <2>2, <2>3 DEF OutsideParties!ExternalAgentsTypeOK, OutsideParties!OneResultCounts,
       OutsideParties!RunsWithinTrust
<1>5. ASSUME NEW n \in Names, NEW i \in Items, NEW status \in OutsideParties!Ended,
             OutsideParties!EapSubmitTaskResult(n, i, status)
      PROVE  ExternalInv'
  <2>1. doing' \in [Names -> SUBSET Items] /\ UNCHANGED <<agents, tool>>
    BY <1>0, <1>5 DEF OutsideParties!EapSubmitTaskResult
  <2>2. CASE items[i] \in OutsideParties!Open
    <3>1. /\ items' = [items EXCEPT ![i] = status]
          /\ accepted' = [accepted EXCEPT ![i] = accepted[i] + 1]
      BY <1>5, <2>2 DEF OutsideParties!EapSubmitTaskResult
    <3>2. accepted[i] = 0
      BY <2>2 DEF OutsideParties!OneResultCounts
    <3>3. accepted' = [accepted EXCEPT ![i] = 1]
      BY <3>1, <3>2
    <3>4. /\ items' \in [Items -> OutsideParties!Open \cup OutsideParties!Ended]
          /\ accepted' \in [Items -> 0 .. 2]
      BY <1>0, <3>1, <3>3
    <3>5. ASSUME NEW j \in Items
          PROVE  accepted'[j] = IF items'[j] \in OutsideParties!Ended THEN 1 ELSE 0
      <4>1. CASE j = i
        BY <1>0, <3>1, <3>3, <4>1
      <4>2. CASE j # i
        <5>1. items'[j] = items[j] /\ accepted'[j] = accepted[j]
          BY <1>0, <3>1, <3>3, <4>2
        <5>. QED
          BY <5>1 DEF OutsideParties!OneResultCounts
      <4>. QED
        BY <4>1, <4>2
    <3>. QED
      BY <2>1, <3>4, <3>5 DEF OutsideParties!ExternalAgentsTypeOK, OutsideParties!OneResultCounts,
         OutsideParties!RunsWithinTrust
  <2>3. CASE items[i] \notin OutsideParties!Open
    <3>1. UNCHANGED <<items, accepted>>
      BY <1>5, <2>3 DEF OutsideParties!EapSubmitTaskResult
    <3>. QED
      BY <2>1, <3>1 DEF OutsideParties!ExternalAgentsTypeOK, OutsideParties!OneResultCounts,
         OutsideParties!RunsWithinTrust
  <2>. QED
    BY <2>2, <2>3
<1>6. CASE UNCHANGED externalVars
  BY <1>6 DEF externalVars, OutsideParties!ExternalAgentsTypeOK, OutsideParties!OneResultCounts,
     OutsideParties!RunsWithinTrust
<1>. QED
  BY <1>1, <1>2, <1>3, <1>4, <1>5, <1>6 DEF OutsideParties!ExternalAgentsNext

\* ExternalInv holds in every reachable state.
LEMMA ExternalHolds == Spec => []ExternalInv
<1>1. Init => ExternalInv
  <2>. SUFFICES ASSUME Init PROVE ExternalInv
    OBVIOUS
  <2>1. /\ agents = [n \in Names |-> 0] /\ items = [i \in Items |-> "pending"]
        /\ doing = [n \in Names |-> {}] /\ accepted = [i \in Items |-> 0]
        /\ tool = [n \in Names |-> [category |-> NoCategory, trust |-> 0]]
    BY DEF Init, OutsideParties!ExternalAgentsInit
  <2>2. tool \in [Names -> [category : Categories \cup {NoCategory}, trust : 0 .. 5]]
    BY <2>1
  <2>3. OutsideParties!ExternalAgentsTypeOK
    BY <2>1, <2>2 DEF OutsideParties!ExternalAgentsTypeOK, OutsideParties!Open,
       OutsideParties!SidecarTrust, OutsideParties!OthersTrust
  <2>4. OutsideParties!OneResultCounts
    BY <2>1 DEF OutsideParties!OneResultCounts, OutsideParties!Ended
  <2>5. OutsideParties!RunsWithinTrust
    BY <2>1 DEF OutsideParties!RunsWithinTrust
  <2>. QED
    BY <2>3, <2>4, <2>5 DEF ExternalInv
<1>2. ExternalInv /\ [Next]_vars => ExternalInv'
  BY StepOfParts, ExternalStep
<1>. QED
  BY <1>1, <1>2, PTL DEF Spec

\* Nothing is paid beyond what there is, nothing appears or vanishes, and
\* nobody is credited or trusted beyond what was earned or proved: a day's
\* emission, the pool of fees, a stake, a trust level, a wallet, a result.
THEOREM AccountsAlwaysAddUp == Spec => []AccountsAddUp
<1>1. TokensInv /\ FeesInv /\ DecayInv /\ TrustInv /\ WalletsInv /\ ExternalInv => AccountsAddUp
  BY RewardsAreShares, ClaimsAreShares, FleetStaysBehind
     DEF AccountsAddUp, TokensInv, FeesInv, DecayInv, TrustInv, WalletsInv, ExternalInv,
         TokenEconomy!PoolNeverOverspent, OutsideParties!InjectedWasProved
<1>. QED
  BY <1>1, TokensHold, FeesHold, DecayHolds, TrustHolds, WalletsHold, ExternalHolds, PTL

(****************************************************************************)
(* Specialist harnesses.  The platform gives each number once, so whoever   *)
(* names a harness by number, from a list however old, means the package it *)
(* read there; and a call that is certain is the only one at work.          *)
(****************************************************************************)
Packages == Specialties \cup {FirstSpecialty} \cup EnvSpecialties
Harness == [id : Nat, package : Packages, address : BOOLEAN]
ToolCall == [stage : {"idle", "refresh", "fetched", "look", "provision", "delete"},
             does : {"list", "activate", "deactivate"}, package : Specialties \cup {NoSpecialty},
             answer : SUBSET Harness, target : Nat, certain : BOOLEAN]

\* A sibling that names a running harness by its number names its package.
Means(list, harnesses, numbers) ==
  \A h \in list : h.id <= numbers /\ \A r \in harnesses : r.id = h.id => r.package = h.package

NumbersInv ==
  /\ made \in Nat
  /\ running \subseteq Harness
  /\ \A r \in running : r.id > 0 /\ r.id <= made
  /\ \A r, q \in running : r.id = q.id => r = q
ListsInv ==
  /\ known \subseteq Harness /\ Means(known, running, made)
  /\ calls \in [ToolCalls -> ToolCall]
  /\ \A c \in ToolCalls : Means(calls[c].answer, running, made)
TargetsInv ==
  \A c \in ToolCalls : calls[c].stage = "delete" =>
    /\ calls[c].target <= made
    /\ \A r \in running : r.id = calls[c].target => r.package = calls[c].package
CertainInv ==
  \A c \in ToolCalls : calls[c].certain /\ calls[c].does = "activate" /\ calls[c].stage # "idle" =>
    /\ \A d \in ToolCalls \ {c} : calls[d].stage = "idle"
    /\ calls[c].stage = "look" => known = calls[c].answer
    /\ calls[c].stage = "provision" => \A h \in calls[c].answer : h.package # calls[c].package
ProvisionInv ==
  \A c \in ToolCalls : /\ calls[c].stage = "provision" => calls[c].does = "activate"
                       /\ calls[c].does = "activate" => calls[c].package \in Specialties
SpecialistsInv == NumbersInv /\ ListsInv /\ TargetsInv /\ CertainInv /\ ProvisionInv

\* The idle call is a call.
LEMMA IdleIsCall == OutsideParties!Idle \in ToolCall
BY DEF OutsideParties!Idle, ToolCall

\* Harnesses of the environment mean no number the platform gave.
LEMMA EnvironmentMeansNothing ==
  ASSUME NumbersInv
  PROVE  OutsideParties!EnvSiblings \subseteq Harness /\ Means(OutsideParties!EnvSiblings, running, made)
<1>. SUFFICES ASSUME NEW p \in EnvSpecialties, NEW h, h = [id |-> 0, package |-> p, address |-> TRUE]
              PROVE  h \in Harness /\ h.id <= made /\ \A r \in running : r.id # h.id
  BY DEF OutsideParties!EnvSiblings, Means
<1>1. h \in Harness /\ h.id = 0
  BY DEF Harness, Packages
<1>. QED
  BY <1>1 DEF NumbersInv

\* One call takes a step and is what it was to the platform.
LEMMA CallMoves ==
  ASSUME SpecialistsInv, NEW c \in ToolCalls, NEW now \in ToolCall,
         UNCHANGED <<running, made>>, known' \subseteq Harness, Means(known', running, made),
         calls' = [calls EXCEPT ![c] = now],
         Means(now.answer, running, made),
         now.stage = "delete" =>
           /\ now.target <= made
           /\ \A r \in running : r.id = now.target => r.package = now.package,
         now.stage = "provision" => now.does = "activate",
         now.does = "activate" => now.package \in Specialties,
         now.certain /\ now.does = "activate" /\ now.stage # "idle" =>
           /\ \A d \in ToolCalls \ {c} : calls[d].stage = "idle"
           /\ now.stage = "look" => known' = now.answer
           /\ now.stage = "provision" => \A h \in now.answer : h.package # now.package,
         known' = known \/ calls[c].stage # "idle",
         calls[c].stage = "idle" => now.stage = "idle"
  PROVE  SpecialistsInv'
<1>1. /\ calls' \in [ToolCalls -> ToolCall] /\ calls'[c] = now
      /\ \A d \in ToolCalls : d # c => calls'[d] = calls[d]
  BY DEF SpecialistsInv, ListsInv
<1>2. NumbersInv'
  BY DEF SpecialistsInv, NumbersInv
<1>3. ListsInv'
  BY <1>1 DEF SpecialistsInv, ListsInv, Means
<1>4. TargetsInv'
  BY <1>1 DEF SpecialistsInv, TargetsInv
<1>5. ProvisionInv'
  BY <1>1 DEF SpecialistsInv, ProvisionInv
<1>6. ASSUME NEW e \in ToolCalls, calls'[e].certain, calls'[e].does = "activate", calls'[e].stage # "idle"
      PROVE  /\ \A d \in ToolCalls \ {e} : calls'[d].stage = "idle"
             /\ calls'[e].stage = "look" => known' = calls'[e].answer
             /\ calls'[e].stage = "provision" => \A h \in calls'[e].answer : h.package # calls'[e].package
  <2>1. CASE e = c
    BY <1>1, <1>6, <2>1
  <2>2. CASE e # c
    <3>1. calls'[e] = calls[e]
      BY <1>1, <2>2
    <3>2. /\ \A d \in ToolCalls \ {e} : calls[d].stage = "idle"
          /\ calls[e].stage = "look" => known = calls[e].answer
          /\ calls[e].stage = "provision" => \A h \in calls[e].answer : h.package # calls[e].package
      BY <1>6, <3>1 DEF SpecialistsInv, CertainInv
    <3>3. calls[c].stage = "idle" /\ now.stage = "idle" /\ known' = known
      BY <2>2, <3>2
    <3>. QED
      BY <1>1, <3>1, <3>2, <3>3
  <2>. QED
    BY <2>1, <2>2
<1>7. CertainInv'
  BY <1>6 DEF CertainInv
<1>. QED
  BY <1>2, <1>3, <1>4, <1>5, <1>7 DEF SpecialistsInv

\* Beginning makes every other call uncertain.
LEMMA BeginKeeps ==
  ASSUME SpecialistsInv, NEW c \in ToolCalls, NEW does \in {"list", "activate", "deactivate"},
         NEW p \in Specialties \cup {NoSpecialty}, does = "activate" => p \in Specialties,
         OutsideParties!Begin(c, does, p)
  PROVE  SpecialistsInv' /\ \A d \in ToolCalls : calls[d].stage = "delete" => calls'[d].stage = "delete"
<1>1. /\ calls[c].stage = "idle" /\ UNCHANGED <<running, made, known>>
      /\ calls' = [d \in ToolCalls |->
                     IF d = c THEN [OutsideParties!Idle EXCEPT !.stage = "refresh", !.does = does,
                                                               !.package = p, !.certain = OutsideParties!Alone(c)]
                     ELSE [calls[d] EXCEPT !.certain = FALSE]]
  BY DEF OutsideParties!Begin
<1>2. OutsideParties!Alone(c) \in BOOLEAN
  BY DEF OutsideParties!Alone
<1>3. /\ calls'[c] \in ToolCall /\ calls'[c].stage = "refresh" /\ calls'[c].answer = {}
      /\ calls'[c].certain => OutsideParties!Alone(c)
      /\ calls'[c].does = does /\ calls'[c].package = p
  BY <1>1, <1>2 DEF OutsideParties!Idle, ToolCall
<1>4. ASSUME NEW d \in ToolCalls, d # c
      PROVE  /\ calls'[d] \in ToolCall /\ calls'[d].stage = calls[d].stage /\ calls'[d].does = calls[d].does
             /\ calls'[d].package = calls[d].package /\ calls'[d].answer = calls[d].answer
             /\ calls'[d].target = calls[d].target /\ ~calls'[d].certain
  <2>1. calls[d] \in ToolCall /\ calls'[d] = [calls[d] EXCEPT !.certain = FALSE]
    BY <1>1, <1>4 DEF SpecialistsInv, ListsInv
  <2>. QED
    BY <2>1 DEF ToolCall
<1>5. \A d \in ToolCalls : calls'[d] \in ToolCall
  BY <1>3, <1>4
<1>6. calls' \in [ToolCalls -> ToolCall]
  BY <1>1, <1>5
<1>7. NumbersInv'
  BY <1>1 DEF SpecialistsInv, NumbersInv
<1>8. ListsInv'
  BY <1>1, <1>3, <1>4, <1>6 DEF SpecialistsInv, ListsInv, Means
<1>9. TargetsInv'
  BY <1>1, <1>3, <1>4 DEF SpecialistsInv, TargetsInv
<1>10. ProvisionInv'
  BY <1>3, <1>4 DEF SpecialistsInv, ProvisionInv
<1>11. CertainInv'
  <2>1. ASSUME NEW e \in ToolCalls, calls'[e].certain
        PROVE  e = c /\ \A d \in ToolCalls \ {e} : calls'[d].stage = "idle"
    BY <1>3, <1>4, <2>1 DEF OutsideParties!Alone
  <2>. QED
    BY <1>3, <2>1 DEF CertainInv
<1>. QED
  BY <1>1, <1>3, <1>4, <1>7, <1>8, <1>9, <1>10, <1>11 DEF SpecialistsInv

\* What the platform carries out for one call: the harnesses change, the call
\* is answered or its answer is lost, the list waits for the refresh.
LEMMA PlatformMoves ==
  ASSUME SpecialistsInv, NEW c \in ToolCalls, UNCHANGED known,
         made' \in Nat, made <= made', running' \subseteq Harness,
         \A r \in running' : r.id > 0 /\ r.id <= made',
         \A r, q \in running' : r.id = q.id => r = q,
         \A r \in running' : r.id <= made => \E q \in running : q.id = r.id /\ q.package = r.package,
         OutsideParties!Answered(c) \/ calls' = [calls EXCEPT ![c] = OutsideParties!Idle] \/ UNCHANGED calls,
         calls[c].stage # "idle" \/ UNCHANGED calls
  PROVE  SpecialistsInv'
<1>1. PICK now \in ToolCall : /\ calls' = [calls EXCEPT ![c] = now]
                              /\ \/ now = calls[c]
                                 \/ /\ now.does = "list" /\ now.answer = {}
                                    /\ now.stage \in {"idle", "refresh"}
  <2>1. CASE UNCHANGED calls
    <3>1. calls' = [calls EXCEPT ![c] = calls[c]] /\ calls[c] \in ToolCall /\ calls[c] = calls[c]
      BY <2>1 DEF SpecialistsInv, ListsInv
    <3>. QED
      BY <3>1, Zenon
  <2>2. CASE calls' = [calls EXCEPT ![c] = OutsideParties!Idle]
    BY <2>2, IdleIsCall DEF OutsideParties!Idle
  <2>3. CASE calls' = [calls EXCEPT ![c] = [OutsideParties!Idle EXCEPT !.stage = "refresh"]]
    <3>1. /\ [OutsideParties!Idle EXCEPT !.stage = "refresh"] \in ToolCall
          /\ [OutsideParties!Idle EXCEPT !.stage = "refresh"].does = "list"
          /\ [OutsideParties!Idle EXCEPT !.stage = "refresh"].answer = {}
          /\ [OutsideParties!Idle EXCEPT !.stage = "refresh"].stage = "refresh"
      BY DEF OutsideParties!Idle, ToolCall
    <3>. QED
      BY <2>3, <3>1
  <2>. QED
    BY <2>1, <2>2, <2>3 DEF OutsideParties!Answered
<1>2. /\ calls' \in [ToolCalls -> ToolCall] /\ calls'[c] = now
      /\ \A d \in ToolCalls : d # c => calls'[d] = calls[d]
  BY <1>1 DEF SpecialistsInv, ListsInv
<1>3. \A list \in SUBSET Harness : Means(list, running, made) => Means(list, running', made')
  <2>. SUFFICES ASSUME NEW list \in SUBSET Harness, Means(list, running, made),
                       NEW h \in list
                PROVE  h.id <= made' /\ \A r \in running' : r.id = h.id => r.package = h.package
    BY DEF Means
  <2>1. h.id \in Nat /\ h.id <= made /\ made \in Nat
    BY DEF Means, Harness, SpecialistsInv, NumbersInv
  <2>2. ASSUME NEW r \in running', r.id = h.id PROVE r.package = h.package
    <3>1. PICK q \in running : q.id = r.id /\ q.package = r.package
      BY <2>1, <2>2
    <3>. QED
      BY <2>2, <3>1 DEF Means
  <2>. QED
    BY <2>1, <2>2
<1>4. NumbersInv'
  BY DEF NumbersInv
<1>5. ListsInv'
  <2>1. \A d \in ToolCalls : calls[d].answer \in SUBSET Harness
    BY DEF SpecialistsInv, ListsInv, ToolCall
  <2>2. Means(known, running', made')
    BY <1>3 DEF SpecialistsInv, ListsInv
  <2>3. \A d \in ToolCalls : Means(calls[d].answer, running', made')
    BY <1>3, <2>1 DEF SpecialistsInv, ListsInv
  <2>4. Means({}, running', made')
    BY DEF Means
  <2>5. ASSUME NEW d \in ToolCalls PROVE Means(calls'[d].answer, running', made')
    <3>1. calls'[d].answer = calls[d].answer \/ calls'[d].answer = {}
      BY <1>1, <1>2
    <3>. QED
      BY <2>3, <2>4, <3>1 DEF Means
  <2>. QED
    BY <1>2, <2>2, <2>5 DEF SpecialistsInv, ListsInv, Means
<1>6. TargetsInv'
  <2>. SUFFICES ASSUME NEW d \in ToolCalls, calls'[d].stage = "delete"
                PROVE  /\ calls'[d].target <= made'
                       /\ \A r \in running' : r.id = calls'[d].target => r.package = calls'[d].package
    BY DEF TargetsInv
  <2>1. calls'[d] = calls[d]
    BY <1>1, <1>2
  <2>2. calls[d].target \in Nat /\ calls[d].target <= made /\ made \in Nat
    BY <2>1 DEF SpecialistsInv, TargetsInv, ListsInv, NumbersInv, ToolCall
  <2>3. ASSUME NEW r \in running', r.id = calls[d].target PROVE r.package = calls[d].package
    <3>1. PICK q \in running : q.id = r.id /\ q.package = r.package
      BY <2>2, <2>3
    <3>. QED
      BY <2>1, <2>3, <3>1 DEF SpecialistsInv, TargetsInv
  <2>. QED
    BY <2>1, <2>2, <2>3
<1>7. ProvisionInv'
  BY <1>1, <1>2 DEF SpecialistsInv, ProvisionInv
<1>8. ASSUME NEW e \in ToolCalls, calls'[e].certain, calls'[e].does = "activate", calls'[e].stage # "idle"
      PROVE  /\ \A d \in ToolCalls \ {e} : calls'[d].stage = "idle"
             /\ calls'[e].stage = "look" => known' = calls'[e].answer
             /\ calls'[e].stage = "provision" => \A h \in calls'[e].answer : h.package # calls'[e].package
  <2>1. calls'[e] = calls[e]
    BY <1>1, <1>2, <1>8
  <2>2. /\ \A d \in ToolCalls \ {e} : calls[d].stage = "idle"
        /\ calls[e].stage = "look" => known = calls[e].answer
        /\ calls[e].stage = "provision" => \A h \in calls[e].answer : h.package # calls[e].package
    BY <1>8, <2>1 DEF SpecialistsInv, CertainInv
  <2>3. e = c \/ UNCHANGED calls
    BY <2>2
  <2>4. \A d \in ToolCalls \ {e} : calls'[d] = calls[d]
    BY <1>2, <2>3
  <2>. QED
    BY <2>1, <2>2, <2>4
<1>9. CertainInv'
  BY <1>8 DEF CertainInv
<1>. QED
  BY <1>4, <1>5, <1>6, <1>7, <1>9 DEF SpecialistsInv
\* A step keeps SpecialistsInv, and a deletion takes only what its call means.
LEMMA SpecialistsStep ==
  ASSUME SpecialistsInv, [OutsideParties!SpecialistsNext]_specialistsVars
  PROVE  /\ SpecialistsInv'
         /\ \A c \in ToolCalls :
              calls[c].stage = "delete" /\ calls'[c].stage # "delete" /\ running' # running =>
                \A p \in (Specialties \cup {FirstSpecialty}) \ {calls[c].package} :
                  OutsideParties!Of(p) \subseteq running'
<1>. DEFINE Asked == \A c \in ToolCalls :
              calls[c].stage = "delete" /\ calls'[c].stage # "delete" /\ running' # running =>
                \A p \in (Specialties \cup {FirstSpecialty}) \ {calls[c].package} :
                  OutsideParties!Of(p) \subseteq running'
<1>a. running' = running => Asked
  OBVIOUS
<1>b. UNCHANGED calls => Asked
  OBVIOUS
<1>t. \A c \in ToolCalls : calls[c] \in ToolCall
  BY DEF SpecialistsInv, ListsInv
<1>p. \A c \in ToolCalls : calls[c].does = "activate" => calls[c].package \in Specialties
  BY DEF SpecialistsInv, ProvisionInv
<1>1. CASE OutsideParties!WriteEnvSiblings
  <2>1. /\ known' = OutsideParties!EnvSiblings /\ UNCHANGED <<running, made>>
        /\ calls' = [c \in ToolCalls |-> [calls[c] EXCEPT !.certain = FALSE]]
    BY <1>1 DEF OutsideParties!WriteEnvSiblings
  <2>2. ASSUME NEW d \in ToolCalls
        PROVE  /\ calls'[d] \in ToolCall /\ calls'[d].stage = calls[d].stage /\ calls'[d].does = calls[d].does
               /\ calls'[d].package = calls[d].package /\ calls'[d].answer = calls[d].answer
               /\ calls'[d].target = calls[d].target /\ ~calls'[d].certain
    <3>1. calls'[d] = [calls[d] EXCEPT !.certain = FALSE]
      BY <2>1
    <3>. QED
      BY <1>t, <3>1 DEF ToolCall
  <2>3. calls' \in [ToolCalls -> ToolCall]
    BY <2>1, <2>2
  <2>4. NumbersInv'
    BY <2>1 DEF SpecialistsInv, NumbersInv
  <2>5. ListsInv'
    BY <2>1, <2>2, <2>3, EnvironmentMeansNothing DEF SpecialistsInv, ListsInv
  <2>6. TargetsInv'
    BY <2>1, <2>2 DEF SpecialistsInv, TargetsInv
  <2>7. ProvisionInv' /\ CertainInv'
    BY <2>2 DEF SpecialistsInv, ProvisionInv, CertainInv
  <2>. QED
    BY <1>a, <2>1, <2>4, <2>5, <2>6, <2>7 DEF SpecialistsInv
<1>2. CASE OutsideParties!HarnessStarts
  <2>1. PICK h \in running : ~h.address /\ running' = (running \ {h}) \cup {[h EXCEPT !.address = TRUE]}
    BY <1>2 DEF OutsideParties!HarnessStarts
  <2>2. PICK up : up = [h EXCEPT !.address = TRUE]
    OBVIOUS
  <2>3. h \in Harness
    BY DEF SpecialistsInv, NumbersInv
  <2>4. up \in Harness /\ up.id = h.id /\ up.package = h.package
    BY <2>2, <2>3 DEF Harness
  <2>5. UNCHANGED <<made, known, calls>> /\ running' = (running \ {h}) \cup {up}
    BY <1>2, <2>1, <2>2 DEF OutsideParties!HarnessStarts
  <2>6. NumbersInv'
    <3>1. \A r, q \in running' : r.id = q.id => r = q
      BY <2>4, <2>5 DEF SpecialistsInv, NumbersInv
    <3>. QED
      BY <2>4, <2>5, <3>1 DEF SpecialistsInv, NumbersInv
  <2>7. \A r \in running' : \E q \in running : q.id = r.id /\ q.package = r.package
    BY <2>4, <2>5
  <2>8. \A list : Means(list, running, made) => Means(list, running', made')
    BY <2>5, <2>7 DEF Means
  <2>9. ListsInv'
    BY <2>5, <2>8 DEF SpecialistsInv, ListsInv
  <2>10. TargetsInv'
    BY <2>5, <2>7 DEF SpecialistsInv, TargetsInv
  <2>11. ProvisionInv' /\ CertainInv'
    BY <2>5 DEF SpecialistsInv, ProvisionInv, CertainInv
  <2>. QED
    BY <1>b, <2>5, <2>6, <2>9, <2>10, <2>11 DEF SpecialistsInv
<1>3. ASSUME NEW c \in ToolCalls,
             \/ OutsideParties!ListAvailableSpecialists(c)
             \/ \E p \in Specialties : \/ OutsideParties!ActivateSpecialist(c, p)
                                       \/ OutsideParties!DeactivateSpecialist(c, p)
      PROVE  SpecialistsInv' /\ Asked
  <2>1. PICK does \in {"list", "activate", "deactivate"}, p \in Specialties \cup {NoSpecialty} :
          OutsideParties!Begin(c, does, p) /\ (does = "activate" => p \in Specialties)
    BY <1>3 DEF OutsideParties!ListAvailableSpecialists, OutsideParties!ActivateSpecialist,
       OutsideParties!DeactivateSpecialist
  <2>2. running' = running
    BY <2>1 DEF OutsideParties!Begin
  <2>. QED
    BY <1>a, <2>1, <2>2, BeginKeeps
<1>4. ASSUME NEW c \in ToolCalls, OutsideParties!FetchFromPlatform(c)
      PROVE  SpecialistsInv' /\ Asked
  <2>1. PICK now : now = [calls[c] EXCEPT !.answer = OutsideParties!Addressed, !.stage = "fetched"]
    OBVIOUS
  <2>2. /\ calls' = [calls EXCEPT ![c] = now] /\ UNCHANGED <<running, made, known>>
        /\ calls[c].stage = "refresh"
    BY <1>4, <1>t, <2>1 DEF OutsideParties!FetchFromPlatform, SpecialistsInv, ListsInv, ToolCall
  <2>3. OutsideParties!Addressed \subseteq running /\ running \subseteq Harness
    BY DEF OutsideParties!Addressed, SpecialistsInv, NumbersInv
  <2>4. /\ now \in ToolCall /\ now.stage = "fetched" /\ now.answer \subseteq running
        /\ now.certain = calls[c].certain /\ now.does = calls[c].does /\ now.package = calls[c].package
    BY <1>t, <2>1, <2>3 DEF ToolCall
  <2>5. Means(now.answer, running, made)
    BY <2>4 DEF Means, SpecialistsInv, NumbersInv
  <2>6. Means(known', running, made) /\ known' \subseteq Harness
    BY <2>2 DEF SpecialistsInv, ListsInv
  <2>7. now.certain /\ now.does = "activate" => \A d \in ToolCalls \ {c} : calls[d].stage = "idle"
    BY <2>2, <2>4 DEF SpecialistsInv, CertainInv
  <2>. QED
    BY <1>a, <1>p, <2>2, <2>4, <2>5, <2>6, <2>7, CallMoves
<1>5. ASSUME NEW c \in ToolCalls, OutsideParties!FetchFails(c)
      PROVE  SpecialistsInv' /\ Asked
  <2>1. PICK now : now = [calls[c] EXCEPT !.stage = "look", !.certain = FALSE]
    OBVIOUS
  <2>2. /\ calls' = [calls EXCEPT ![c] = now] /\ UNCHANGED <<running, made>>
        /\ calls[c].stage = "refresh" /\ known' \in {known, OutsideParties!EnvSiblings}
    BY <1>5, <1>t, <2>1 DEF OutsideParties!FetchFails, SpecialistsInv, ListsInv, ToolCall
  <2>3. /\ now \in ToolCall /\ now.stage = "look" /\ now.answer = calls[c].answer /\ ~now.certain
          /\ now.does = calls[c].does /\ now.package = calls[c].package
    BY <1>t, <2>1 DEF ToolCall
  <2>4. Means(now.answer, running, made)
    BY <2>3 DEF SpecialistsInv, ListsInv
  <2>5. Means(known', running, made) /\ known' \subseteq Harness
    BY <2>2, EnvironmentMeansNothing DEF SpecialistsInv, ListsInv
  <2>. QED
    BY <1>a, <1>p, <2>2, <2>3, <2>4, <2>5, CallMoves
<1>6. ASSUME NEW c \in ToolCalls, OutsideParties!RefreshEnds(c)
      PROVE  SpecialistsInv' /\ Asked
  <2>1. PICK now : now = [calls[c] EXCEPT !.stage = "look"]
    OBVIOUS
  <2>2. /\ calls' = [calls EXCEPT ![c] = now] /\ UNCHANGED <<running, made>>
        /\ calls[c].stage = "fetched" /\ known' = calls[c].answer
    BY <1>6, <1>t, <2>1 DEF OutsideParties!RefreshEnds
  <2>3. /\ now \in ToolCall /\ now.stage = "look" /\ now.answer = calls[c].answer
        /\ now.certain = calls[c].certain /\ now.does = calls[c].does /\ now.package = calls[c].package
    BY <1>t, <2>1 DEF ToolCall
  <2>4. Means(now.answer, running, made) /\ Means(known', running, made) /\ known' \subseteq Harness
    BY <1>t, <2>2, <2>3 DEF SpecialistsInv, ListsInv, ToolCall
  <2>5. now.certain /\ now.does = "activate" => \A d \in ToolCalls \ {c} : calls[d].stage = "idle"
    BY <2>2, <2>3 DEF SpecialistsInv, CertainInv
  <2>. QED
    BY <1>a, <1>p, <2>2, <2>3, <2>4, <2>5, CallMoves
<1>7. ASSUME NEW c \in ToolCalls, OutsideParties!Look(c)
      PROVE  SpecialistsInv' /\ Asked
  <2>1. calls[c].stage = "look" /\ UNCHANGED <<running, made, known>>
    BY <1>7 DEF OutsideParties!Look
  <2>2. Means(known', running, made) /\ known' \subseteq Harness /\ Means(calls[c].answer, running, made)
    BY <2>1 DEF SpecialistsInv, ListsInv
  <2>3. CASE /\ calls[c].does = "activate" /\ OutsideParties!Matches(c) = {}
             /\ calls' = [calls EXCEPT ![c].stage = "provision"]
    <3>1. PICK now : now = [calls[c] EXCEPT !.stage = "provision"]
      OBVIOUS
    <3>2. calls' = [calls EXCEPT ![c] = now]
      BY <2>3, <3>1
    <3>3. /\ now \in ToolCall /\ now.stage = "provision" /\ now.answer = calls[c].answer
          /\ now.certain = calls[c].certain /\ now.does = calls[c].does /\ now.package = calls[c].package
      BY <1>t, <3>1 DEF ToolCall
    <3>4. now.certain => /\ \A d \in ToolCalls \ {c} : calls[d].stage = "idle"
                         /\ known = now.answer
      BY <2>1, <2>3, <3>3 DEF SpecialistsInv, CertainInv
    <3>5. Means(now.answer, running, made) /\ now.package \in Specialties /\ now.does = "activate"
      BY <1>p, <2>2, <2>3, <3>3
    <3>6. now.certain => \A h \in now.answer : h.package # now.package
      BY <2>3, <3>3, <3>4 DEF OutsideParties!Matches
    <3>. QED
      <4>1. SpecialistsInv'
        BY <2>1, <2>2, <3>2, <3>3, <3>4, <3>5, <3>6, CallMoves
      <4>. QED
        BY <1>a, <2>1, <4>1
  <2>4. ASSUME NEW h \in OutsideParties!Matches(c), calls[c].does = "deactivate",
               calls' = [calls EXCEPT ![c].stage = "delete", ![c].target = h.id]
        PROVE  SpecialistsInv' /\ Asked
    <3>1. PICK now : now = [calls[c] EXCEPT !.stage = "delete", !.target = h.id]
      OBVIOUS
    <3>2. calls' = [calls EXCEPT ![c] = now]
      BY <1>t, <2>4, <3>1 DEF SpecialistsInv, ListsInv, ToolCall
    <3>3. h \in known /\ h \in Harness /\ h.package = calls[c].package
      BY DEF OutsideParties!Matches, SpecialistsInv, ListsInv
    <3>4. /\ now \in ToolCall /\ now.stage = "delete" /\ now.answer = calls[c].answer
          /\ now.does = "deactivate" /\ now.package = calls[c].package /\ now.target = h.id
      BY <1>t, <2>4, <3>1, <3>3 DEF ToolCall, Harness
    <3>5. /\ now.target <= made
          /\ \A r \in running : r.id = now.target => r.package = now.package
      BY <3>3, <3>4 DEF SpecialistsInv, ListsInv, Means
    <3>. QED
      BY <1>a, <2>1, <2>2, <3>2, <3>4, <3>5, CallMoves
  <2>5. CASE calls' = [calls EXCEPT ![c] = OutsideParties!Idle]
    <3>1. /\ OutsideParties!Idle \in ToolCall /\ OutsideParties!Idle.stage = "idle" /\ OutsideParties!Idle.does = "list"
          /\ Means(OutsideParties!Idle.answer, running, made)
      BY IdleIsCall DEF OutsideParties!Idle, Means
    <3>. QED
      BY <1>a, <2>1, <2>2, <2>5, <3>1, CallMoves
  <2>. QED
    BY <1>7, <2>3, <2>4, <2>5 DEF OutsideParties!Look
<1>8. ASSUME NEW c \in ToolCalls, OutsideParties!Provision(c)
      PROVE  SpecialistsInv' /\ Asked
  <2>1. calls[c].stage = "provision" /\ UNCHANGED known
    BY <1>8 DEF OutsideParties!Provision
  <2>2. CASE /\ made' = made + 1
             /\ running' = running \cup {[id |-> made', package |-> calls[c].package, address |-> FALSE]}
             /\ OutsideParties!Answered(c)
    <3>1. PICK new : new = [id |-> made + 1, package |-> calls[c].package, address |-> FALSE]
      OBVIOUS
    <3>2. made \in Nat /\ made' = made + 1 /\ running' = running \cup {new}
      BY <2>2, <3>1 DEF SpecialistsInv, NumbersInv
    <3>3. calls[c].package \in Specialties
      BY <2>1 DEF SpecialistsInv, ProvisionInv
    <3>4. new \in Harness /\ new.id = made + 1
      BY <3>1, <3>2, <3>3 DEF Harness, Packages
    <3>5. /\ running' \subseteq Harness
          /\ \A r \in running' : r.id > 0 /\ r.id <= made'
          /\ \A r, q \in running' : r.id = q.id => r = q
          /\ \A r \in running' : r.id <= made => \E q \in running : q.id = r.id /\ q.package = r.package
      <4>1. \A r \in running : r \in Harness /\ r.id \in Nat /\ r.id > 0 /\ r.id <= made
        BY DEF SpecialistsInv, NumbersInv, Harness
      <4>2. \A r, q \in running' : r.id = q.id => r = q
        BY <3>2, <3>4, <4>1 DEF SpecialistsInv, NumbersInv
      <4>3. \A r \in running' : r.id <= made => r \in running
        BY <3>2, <3>4
      <4>. QED
        BY <3>2, <3>4, <4>1, <4>2, <4>3
    <3>6. made' \in Nat /\ made <= made'
      BY <3>2
    <3>7. SpecialistsInv'
      BY <2>1, <2>2, <3>5, <3>6, PlatformMoves
    <3>8. Asked
      BY <3>2 DEF OutsideParties!Of
    <3>. QED
      BY <3>7, <3>8
  <2>3. CASE calls' = [calls EXCEPT ![c] = OutsideParties!Idle] /\ UNCHANGED <<running, made>>
    <3>1. /\ OutsideParties!Idle \in ToolCall /\ OutsideParties!Idle.stage = "idle" /\ OutsideParties!Idle.does = "list"
          /\ Means(OutsideParties!Idle.answer, running, made)
      BY IdleIsCall DEF OutsideParties!Idle, Means
    <3>2. known' \subseteq Harness /\ Means(known', running, made)
      BY <2>1 DEF SpecialistsInv, ListsInv
    <3>. QED
      BY <1>a, <2>1, <2>3, <3>1, <3>2, CallMoves
  <2>. QED
    BY <1>8, <2>2, <2>3 DEF OutsideParties!Provision
<1>9. ASSUME NEW c \in ToolCalls, OutsideParties!Deprovision(c)
      PROVE  SpecialistsInv' /\ Asked
  <2>1. calls[c].stage = "delete" /\ UNCHANGED <<made, known>>
    BY <1>9 DEF OutsideParties!Deprovision
  <2>2. running' = running \/ \E h \in running : h.id = calls[c].target /\ running' = running \ {h}
    BY <1>9 DEF OutsideParties!Deprovision
  <2>3. running' \subseteq running
    BY <2>2
  <2>4. OutsideParties!Answered(c) \/ calls' = [calls EXCEPT ![c] = OutsideParties!Idle]
    BY <1>9 DEF OutsideParties!Deprovision
  <2>5. SpecialistsInv'
    <3>1. made \in Nat /\ made' = made
      BY <2>1 DEF SpecialistsInv, NumbersInv
    <3>2. /\ running' \subseteq Harness
          /\ \A r \in running' : r.id > 0 /\ r.id <= made'
          /\ \A r, q \in running' : r.id = q.id => r = q
          /\ \A r \in running' : r.id <= made => \E q \in running : q.id = r.id /\ q.package = r.package
      BY <2>3, <3>1 DEF SpecialistsInv, NumbersInv
    <3>3. made' \in Nat /\ made <= made'
      BY <3>1
    <3>. QED
      BY <2>1, <2>4, <3>2, <3>3, PlatformMoves
  <2>6. Asked
    <3>. SUFFICES ASSUME NEW d \in ToolCalls, calls[d].stage = "delete", calls'[d].stage # "delete",
                         running' # running,
                         NEW p \in (Specialties \cup {FirstSpecialty}) \ {calls[d].package}
                  PROVE  OutsideParties!Of(p) \subseteq running'
      OBVIOUS
    <3>1. d = c
      BY <2>4 DEF OutsideParties!Answered, SpecialistsInv, ListsInv
    <3>2. PICK h \in running : h.id = calls[c].target /\ running' = running \ {h}
      BY <2>2
    <3>3. h.package = calls[c].package
      BY <2>1, <3>2 DEF SpecialistsInv, TargetsInv
    <3>. QED
      BY <3>1, <3>2, <3>3 DEF OutsideParties!Of
  <2>. QED
    BY <2>5, <2>6
<1>10. CASE UNCHANGED specialistsVars
  <2>1. UNCHANGED <<running, made, known, calls>>
    BY <1>10 DEF specialistsVars
  <2>. QED
    BY <1>a, <2>1 DEF SpecialistsInv, NumbersInv, ListsInv, TargetsInv, ProvisionInv, CertainInv
<1>. QED
  BY <1>1, <1>2, <1>3, <1>4, <1>5, <1>6, <1>7, <1>8, <1>9, <1>10 DEF OutsideParties!SpecialistsNext

\* SpecialistsInv holds in every reachable state.
LEMMA SpecialistsHold == Spec => []SpecialistsInv
<1>1. Init => SpecialistsInv
  <2>. SUFFICES ASSUME Init PROVE SpecialistsInv
    OBVIOUS
  <2>0. /\ running = {[id |-> 1, package |-> FirstSpecialty, address |-> TRUE]} /\ made = 1 /\ known = {}
        /\ calls = [c \in ToolCalls |-> OutsideParties!Idle]
    BY DEF Init, OutsideParties!SpecialistsInit
  <2>1. NumbersInv
    BY <2>0 DEF NumbersInv, Harness, Packages
  <2>2. \A c \in ToolCalls : calls[c] \in ToolCall /\ calls[c].stage = "idle" /\ calls[c].answer = {}
                              /\ calls[c].does = "list"
    BY <2>0, IdleIsCall DEF OutsideParties!Idle
  <2>3. ListsInv
    BY <2>0, <2>2, IdleIsCall DEF ListsInv, Means
  <2>. QED
    BY <2>1, <2>2, <2>3 DEF SpecialistsInv, TargetsInv, CertainInv, ProvisionInv
<1>2. SpecialistsInv /\ [Next]_vars => SpecialistsInv'
  BY StepOfParts, SpecialistsStep
<1>. QED
  BY <1>1, <1>2, PTL DEF Spec

\* A certain call makes no second harness.
LEMMA SecondIsRace == SpecialistsInv => OutsideParties!SecondNeedsARace
BY DEF SpecialistsInv, CertainInv, ProvisionInv, OutsideParties!SecondNeedsARace

(****************************************************************************)
(* Model providers: at most one is active, and the active one has a key.    *)
(****************************************************************************)
ProviderRow == [exists : BOOLEAN, key : VaultKeys \union {NoKey}, active : BOOLEAN]

AdminCall ==
  [step : {"none", "insert", "revoke", "store", "set", "auto", "activate",
           "drop", "delete", "decrypt"},
   provider : SUBSET Providers, old : VaultKeys \union {NoKey},
   new : VaultKeys \union {NoKey}, auto : BOOLEAN]

ProviderShapes ==
  /\ rowsLlm \in [Providers -> ProviderRow]
  /\ adminCalls \in [AdminCalls -> AdminCall]

\* A call is about one provider,
CallsHaveOneTarget ==
  \A c \in AdminCalls : \A p, q \in adminCalls[c].provider : p = q

\* holds a stored key when it is about to write one,
CarriesKey ==
  \A c \in AdminCalls :
    adminCalls[c].step \in {"insert", "set"} => adminCalls[c].new \in VaultKeys

\* and is about to activate only what has a key, if it still exists: keys of
\* rows are replaced, never taken away.
ActivatesKeyed ==
  \A c \in AdminCalls :
    adminCalls[c].step \in {"auto", "activate"} =>
      \A p \in adminCalls[c].provider : p \in LlmProviders!Rows => rowsLlm[p].key # NoKey

\* The index, without counting.
SingleActive == \A p, q \in LlmProviders!Active : p = q

ProvidersInv ==
  /\ ProviderShapes /\ CallsHaveOneTarget /\ CarriesKey /\ ActivatesKeyed
  /\ SingleActive /\ LlmProviders!ActiveHasKey

\* ProvidersInv holds at the start.
LEMMA ProvidersStart == LlmProviders!Init => ProvidersInv
<1>. SUFFICES ASSUME LlmProviders!Init PROVE ProvidersInv
  OBVIOUS
<1>1. ProviderShapes
  <2>1. rowsLlm \in [Providers -> ProviderRow]
    <3>1. ASSUME NEW p \in Providers
          PROVE  [LlmProviders!Absent EXCEPT !.exists = p \in SeededProviders] \in ProviderRow
      <4>1. CASE p \in SeededProviders
        <5>1. (p \in SeededProviders) = TRUE
          BY <4>1
        <5>. QED
          BY <5>1 DEF LlmProviders!Absent, ProviderRow
      <4>2. CASE p \notin SeededProviders
        <5>1. (p \in SeededProviders) = FALSE
          BY <4>2
        <5>. QED
          BY <5>1 DEF LlmProviders!Absent, ProviderRow
      <4>. QED
        BY <4>1, <4>2
    <3>. QED
      BY <3>1 DEF LlmProviders!Init
  <2>2. adminCalls \in [AdminCalls -> AdminCall]
    BY DEF LlmProviders!Init, AdminCall, LlmProviders!Idle
  <2>. QED
    BY <2>1, <2>2 DEF ProviderShapes
<1>2. CallsHaveOneTarget /\ CarriesKey /\ ActivatesKeyed
  BY DEF LlmProviders!Init, LlmProviders!Idle, CallsHaveOneTarget, CarriesKey, ActivatesKeyed
<1>3. LlmProviders!Active = {}
  BY DEF LlmProviders!Init, LlmProviders!Active, LlmProviders!Rows, LlmProviders!Absent
<1>. QED
  BY <1>1, <1>2, <1>3 DEF ProvidersInv, SingleActive, LlmProviders!ActiveHasKey

\* A call that only moves on, with the rows as they are.
LEMMA ProviderCallMoves ==
  ASSUME ProvidersInv, UNCHANGED rowsLlm, NEW c \in AdminCalls, NEW new \in AdminCall,
         LlmProviders!Call(c, new),
         \A p, q \in new.provider : p = q,
         new.step \in {"insert", "set"} => new.new \in VaultKeys,
         new.step \in {"auto", "activate"} =>
           \A p \in new.provider : p \in LlmProviders!Rows => rowsLlm[p].key # NoKey
  PROVE  ProvidersInv'
<1>1. \A d \in AdminCalls : adminCalls'[d] = IF d = c THEN new ELSE adminCalls[d]
  BY DEF LlmProviders!Call, ProvidersInv, ProviderShapes
<1>2. ProviderShapes'
  BY DEF LlmProviders!Call, ProvidersInv, ProviderShapes
<1>3. LlmProviders!Rows' = LlmProviders!Rows /\ LlmProviders!Active' = LlmProviders!Active
  BY DEF LlmProviders!Rows, LlmProviders!Active
<1>4. CallsHaveOneTarget' /\ CarriesKey' /\ ActivatesKeyed'
  BY <1>1, <1>3 DEF ProvidersInv, CallsHaveOneTarget, CarriesKey, ActivatesKeyed
<1>. QED
  BY <1>2, <1>3, <1>4 DEF ProvidersInv, SingleActive, LlmProviders!ActiveHasKey

\* The steps of an administrator that leave the rows alone keep ProvidersInv.
LEMMA ProviderReads ==
  ASSUME ProvidersInv, NEW c \in AdminCalls,
         \/ LlmProviders!RevokeOld(c) \/ LlmProviders!StoreFails(c) \/ LlmProviders!DropKey(c) \/ LlmProviders!InjectProvider(c)
         \/ LlmProviders!Decrypt(c)
         \/ \E k \in VaultKeys : LlmProviders!StoreKey(c, k)
         \/ \E p \in Providers :
              \/ LlmProviders!UpdateProvider(c, p) \/ LlmProviders!ActivateProvider(c, p)
              \/ LlmProviders!DeleteProvider(c, p)
              \/ \E k \in VaultKeys : LlmProviders!CreateProvider(c, p, k)
  PROVE  ProvidersInv'
<1>. USE DEF ProvidersInv, ProviderShapes, AdminCall, ProviderRow, LlmProviders!Idle
<1>1. CASE LlmProviders!RevokeOld(c)
  <2>. DEFINE new == [adminCalls[c] EXCEPT !.step = "store"]
  <2>1. new \in AdminCall /\ new.step = "store" /\ new.provider = adminCalls[c].provider
    OBVIOUS
  <2>. QED
    BY <1>1, <2>1, ProviderCallMoves DEF LlmProviders!RevokeOld, CallsHaveOneTarget
<1>2. CASE LlmProviders!StoreFails(c) \/ LlmProviders!Decrypt(c)
  <2>1. LlmProviders!Idle \in AdminCall
    OBVIOUS
  <2>. QED
    BY <1>2, <2>1, ProviderCallMoves DEF LlmProviders!StoreFails, LlmProviders!Decrypt, LlmProviders!Done
<1>3. CASE LlmProviders!DropKey(c)
  <2>. DEFINE new == [adminCalls[c] EXCEPT !.step = "delete"]
  <2>1. new \in AdminCall /\ new.step = "delete" /\ new.provider = adminCalls[c].provider
    OBVIOUS
  <2>. QED
    BY <1>3, <2>1, ProviderCallMoves DEF LlmProviders!DropKey, CallsHaveOneTarget
<1>4. CASE LlmProviders!InjectProvider(c)
  <2>1. PICK p \in LlmProviders!Active :
          LlmProviders!Call(c, [LlmProviders!Idle EXCEPT !.step = "decrypt", !.old = rowsLlm[p].key])
    BY <1>4 DEF LlmProviders!InjectProvider
  <2>. DEFINE new == [LlmProviders!Idle EXCEPT !.step = "decrypt", !.old = rowsLlm[p].key]
  <2>2. new \in AdminCall /\ new.step = "decrypt" /\ new.provider = {}
    BY DEF LlmProviders!Active, LlmProviders!Rows
  <2>. QED
    BY <1>4, <2>1, <2>2, ProviderCallMoves DEF LlmProviders!InjectProvider
<1>5. ASSUME NEW k \in VaultKeys, LlmProviders!StoreKey(c, k)
      PROVE  ProvidersInv'
  <2>. DEFINE new == [adminCalls[c] EXCEPT !.step = "set", !.new = k]
  <2>1. /\ new \in AdminCall /\ new.step = "set" /\ new.new = k
        /\ new.provider = adminCalls[c].provider
    OBVIOUS
  <2>. QED
    BY <1>5, <2>1, ProviderCallMoves DEF LlmProviders!StoreKey, CallsHaveOneTarget
<1>6. ASSUME NEW p \in Providers, LlmProviders!UpdateProvider(c, p)
      PROVE  ProvidersInv'
  <2>. DEFINE new == [LlmProviders!Idle EXCEPT !.step = "revoke", !.provider = {p}, !.old = rowsLlm[p].key]
  <2>1. new \in AdminCall /\ new.step = "revoke" /\ new.provider = {p}
    OBVIOUS
  <2>. QED
    BY <1>6, <2>1, ProviderCallMoves DEF LlmProviders!UpdateProvider
<1>7. ASSUME NEW p \in Providers, LlmProviders!ActivateProvider(c, p)
      PROVE  ProvidersInv'
  <2>. DEFINE new == [LlmProviders!Idle EXCEPT !.step = "activate", !.provider = {p}]
  <2>1. new \in AdminCall /\ new.step = "activate" /\ new.provider = {p}
    OBVIOUS
  <2>. QED
    BY <1>7, <2>1, ProviderCallMoves DEF LlmProviders!ActivateProvider
<1>8. ASSUME NEW p \in Providers, LlmProviders!DeleteProvider(c, p)
      PROVE  ProvidersInv'
  <2>. DEFINE new == [LlmProviders!Idle EXCEPT !.step = "drop", !.provider = {p}, !.old = rowsLlm[p].key]
  <2>1. new \in AdminCall /\ new.step = "drop" /\ new.provider = {p}
    OBVIOUS
  <2>. QED
    BY <1>8, <2>1, ProviderCallMoves DEF LlmProviders!DeleteProvider
<1>9. ASSUME NEW p \in Providers, NEW k \in VaultKeys, LlmProviders!CreateProvider(c, p, k)
      PROVE  ProvidersInv'
  <2>. DEFINE new == [LlmProviders!Idle EXCEPT !.step = "insert", !.provider = {p}, !.new = k,
                                  !.auto = LlmProviders!Rows = {}]
  <2>1. /\ new \in AdminCall /\ new.step = "insert" /\ new.new = k
        /\ new.provider = {p}
    OBVIOUS
  <2>. QED
    BY <1>9, <2>1, ProviderCallMoves DEF LlmProviders!CreateProvider
<1>. QED
  BY <1>1, <1>2, <1>3, <1>4, <1>5, <1>6, <1>7, <1>8, <1>9

\* Rows that change no key of a row that stays, while a call ends or moves to
\* "auto" or "none" with the provider it was about.
LEMMA ProviderCallWrites ==
  ASSUME ProvidersInv, rowsLlm' \in [Providers -> ProviderRow], NEW c \in AdminCalls,
         NEW new \in AdminCall, LlmProviders!Call(c, new),
         new.provider \subseteq adminCalls[c].provider,
         new.step \in {"none", "auto"},
         \A p \in LlmProviders!Rows' : rowsLlm'[p].key # NoKey
                            \/ (p \in LlmProviders!Rows /\ rowsLlm'[p].key = rowsLlm[p].key),
         new.step = "auto" =>
           \A p \in new.provider : p \in LlmProviders!Rows' => rowsLlm'[p].key # NoKey,
         SingleActive', LlmProviders!ActiveHasKey'
  PROVE  ProvidersInv'
<1>1. \A d \in AdminCalls : adminCalls'[d] = IF d = c THEN new ELSE adminCalls[d]
  BY DEF LlmProviders!Call, ProvidersInv, ProviderShapes
<1>2. ProviderShapes'
  BY DEF LlmProviders!Call, ProvidersInv, ProviderShapes
<1>3. CallsHaveOneTarget' /\ CarriesKey'
  BY <1>1 DEF ProvidersInv, CallsHaveOneTarget, CarriesKey
<1>4. ActivatesKeyed'
  BY <1>1 DEF ProvidersInv, ActivatesKeyed
<1>. QED
  BY <1>2, <1>3, <1>4 DEF ProvidersInv

\* The five steps that write rows.
LEMMA ProviderWrites ==
  ASSUME ProvidersInv, NEW c \in AdminCalls,
         \/ LlmProviders!InsertProvider(c) \/ LlmProviders!SetKey(c) \/ LlmProviders!AutoActivate(c) \/ LlmProviders!SwitchOver(c)
         \/ LlmProviders!DropRow(c)
  PROVE  ProvidersInv'
<1>. USE DEF ProvidersInv, ProviderShapes, LlmProviders!Active, LlmProviders!Rows
<1>0. LlmProviders!Idle \in AdminCall /\ LlmProviders!Idle.provider = {} /\ LlmProviders!Idle.step = "none"
  BY DEF LlmProviders!Idle, AdminCall
<1>1. CASE LlmProviders!InsertProvider(c)
  <2>1. PICK p \in adminCalls[c].provider :
          rowsLlm' = IF rowsLlm[p].exists \/ (adminCalls[c].auto /\ LlmProviders!Active # {}) THEN rowsLlm
                     ELSE [rowsLlm EXCEPT ![p] = [exists |-> TRUE,
                             key |-> adminCalls[c].new, active |-> adminCalls[c].auto]]
    BY <1>1 DEF LlmProviders!InsertProvider
  <2>2. adminCalls[c].new \in VaultKeys /\ adminCalls[c].auto \in BOOLEAN
    BY <1>1 DEF LlmProviders!InsertProvider, CarriesKey, AdminCall
  <2>2a. adminCalls[c].new # NoKey
    BY <2>2, ConstantsOfPolicy
  <2>3. p \in Providers
    BY DEF AdminCall
  <2>4. [exists |-> TRUE, key |-> adminCalls[c].new, active |-> adminCalls[c].auto] \in ProviderRow
    BY <2>2 DEF ProviderRow
  <2>5. rowsLlm' \in [Providers -> ProviderRow]
    BY <2>1, <2>3, <2>4
  <2>6. \A q \in LlmProviders!Rows' : rowsLlm'[q].key # NoKey
                           \/ (q \in LlmProviders!Rows /\ rowsLlm'[q].key = rowsLlm[q].key)
    <3>1. CASE rowsLlm' = rowsLlm
      BY <3>1
    <3>2. CASE rowsLlm' = [rowsLlm EXCEPT ![p] =
                             [exists |-> TRUE, key |-> adminCalls[c].new,
                              active |-> adminCalls[c].auto]]
      <4>1. rowsLlm'[p].key = adminCalls[c].new
        BY <3>2, <2>3
      <4>2. \A q \in Providers \ {p} : rowsLlm'[q] = rowsLlm[q]
        BY <3>2
      <4>. QED
        BY <4>1, <4>2, <2>2a
    <3>. QED
      BY <3>1, <3>2, <2>1
  <2>7. SingleActive' /\ LlmProviders!ActiveHasKey'
    <3>1. CASE rowsLlm' = rowsLlm
      BY <3>1 DEF SingleActive, LlmProviders!ActiveHasKey
    <3>2. CASE /\ rowsLlm' # rowsLlm /\ adminCalls[c].auto /\ LlmProviders!Active = {}
      <4>1. LlmProviders!Active' \subseteq {p}
        BY <3>2, <2>1, <2>3, <2>5
      <4>. QED
        BY <4>1, <3>2, <2>1, <2>2a, <2>3, <2>5 DEF SingleActive, LlmProviders!ActiveHasKey
    <3>3. CASE rowsLlm' # rowsLlm /\ ~adminCalls[c].auto
      <4>1. LlmProviders!Active' \subseteq LlmProviders!Active /\ \A q \in LlmProviders!Active' : rowsLlm'[q] = rowsLlm[q]
        BY <3>3, <2>1, <2>3, <2>5
      <4>. QED
        BY <4>1 DEF SingleActive, LlmProviders!ActiveHasKey
    <3>. QED
      BY <3>1, <3>2, <3>3, <2>1
  <2>. QED
    BY <1>1, <1>0, <2>5, <2>6, <2>7, ProviderCallWrites DEF LlmProviders!InsertProvider, LlmProviders!Done
<1>2. CASE LlmProviders!SetKey(c)
  <2>. DEFINE new == [adminCalls[c] EXCEPT !.step = "auto", !.auto = LlmProviders!Active = {}]
  <2>1. (LlmProviders!Active = {}) \in BOOLEAN
    BY Zenon
  <2>2. new \in AdminCall /\ new.step = "auto" /\ new.provider = adminCalls[c].provider
    BY <2>1 DEF AdminCall
  <2>3. adminCalls[c].new \in VaultKeys
    BY <1>2 DEF LlmProviders!SetKey, CarriesKey
  <2>3a. adminCalls[c].new # NoKey
    BY <2>3, ConstantsOfPolicy
  <2>4. \A q \in Providers :
          rowsLlm'[q] = IF q \in adminCalls[c].provider /\ rowsLlm[q].exists
                          THEN [rowsLlm[q] EXCEPT !.key = adminCalls[c].new] ELSE rowsLlm[q]
    BY <1>2 DEF LlmProviders!SetKey
  <2>5. \A q \in Providers :
          /\ rowsLlm'[q] \in ProviderRow
          /\ rowsLlm'[q].exists = rowsLlm[q].exists
          /\ rowsLlm'[q].active = rowsLlm[q].active
          /\ rowsLlm'[q].key = IF q \in adminCalls[c].provider /\ rowsLlm[q].exists
                                 THEN adminCalls[c].new ELSE rowsLlm[q].key
    BY <2>3, <2>4 DEF ProviderRow
  <2>6. rowsLlm' \in [Providers -> ProviderRow]
    BY <2>5, <1>2 DEF LlmProviders!SetKey
  <2>7. LlmProviders!Rows' = LlmProviders!Rows /\ LlmProviders!Active' = LlmProviders!Active
    BY <2>5
  <2>8. SingleActive' /\ LlmProviders!ActiveHasKey'
    BY <2>3a, <2>5, <2>7 DEF SingleActive, LlmProviders!ActiveHasKey
  <2>9. \A q \in LlmProviders!Rows' : rowsLlm'[q].key # NoKey
                           \/ (q \in LlmProviders!Rows /\ rowsLlm'[q].key = rowsLlm[q].key)
    BY <2>3a, <2>5, <2>7
  <2>10. \A q \in new.provider : q \in LlmProviders!Rows' => rowsLlm'[q].key # NoKey
    BY <2>2, <2>3a, <2>5, <2>7
  <2>11. LlmProviders!Call(c, new)
    BY <1>2 DEF LlmProviders!SetKey
  <2>. HIDE DEF new, LlmProviders!Rows, LlmProviders!Active, ProviderShapes
  <2>. QED
    BY <2>2, <2>6, <2>8, <2>9, <2>10, <2>11, ProviderCallWrites
<1>3. CASE LlmProviders!AutoActivate(c)
  <2>. DEFINE chosen(q) == /\ q \in adminCalls[c].provider /\ rowsLlm[q].exists
                           /\ adminCalls[c].auto /\ LlmProviders!Active \subseteq {q}
  <2>1. \A q \in Providers :
          rowsLlm'[q] = IF chosen(q) THEN [rowsLlm[q] EXCEPT !.active = TRUE] ELSE rowsLlm[q]
    BY <1>3 DEF LlmProviders!AutoActivate
  <2>2. \A q \in Providers :
          /\ rowsLlm'[q] \in ProviderRow
          /\ rowsLlm'[q].exists = rowsLlm[q].exists /\ rowsLlm'[q].key = rowsLlm[q].key
          /\ ~chosen(q) => rowsLlm'[q].active = rowsLlm[q].active
    <3>. SUFFICES ASSUME NEW q \in Providers
         PROVE  /\ rowsLlm'[q] \in ProviderRow
                /\ rowsLlm'[q].exists = rowsLlm[q].exists
                /\ rowsLlm'[q].key = rowsLlm[q].key
                /\ ~chosen(q) => rowsLlm'[q].active = rowsLlm[q].active
      OBVIOUS
    <3>. HIDE DEF chosen
    <3>1. CASE chosen(q)
      BY <3>1, <2>1 DEF ProviderRow
    <3>2. CASE ~chosen(q)
      BY <3>2, <2>1
    <3>. QED
      BY <3>1, <3>2
  <2>3. rowsLlm' \in [Providers -> ProviderRow]
    BY <2>2, <1>3 DEF LlmProviders!AutoActivate
  <2>4. LlmProviders!Rows' = LlmProviders!Rows
    BY <2>2
  <2>5. SingleActive' /\ LlmProviders!ActiveHasKey'
    <3>1. CASE \E p \in Providers : chosen(p)
      <4>1. PICK p \in Providers : chosen(p)
        BY <3>1
      <4>2. \A q \in adminCalls[c].provider : q = p
        BY <4>1 DEF CallsHaveOneTarget
      <4>3. LlmProviders!Active' \subseteq {p}
        BY <4>1, <4>2, <2>2
      <4>4. rowsLlm[p].key # NoKey
        BY <4>1, <1>3 DEF LlmProviders!AutoActivate, ActivatesKeyed
      <4>. QED
        BY <4>3, <4>4, <4>1, <2>2 DEF SingleActive, LlmProviders!ActiveHasKey
    <3>2. CASE \A p \in Providers : ~chosen(p)
      BY <3>2, <2>2 DEF SingleActive, LlmProviders!ActiveHasKey
    <3>. QED
      BY <3>1, <3>2
  <2>. QED
    BY <1>3, <1>0, <2>2, <2>3, <2>4, <2>5, ProviderCallWrites DEF LlmProviders!AutoActivate, LlmProviders!Done
<1>4. CASE LlmProviders!SwitchOver(c)
  <2>1. \A q \in Providers :
          (rowsLlm[q].exists /\ q \in adminCalls[c].provider) \in BOOLEAN
    BY Zenon
  <2>2. \A q \in Providers :
          /\ rowsLlm'[q] \in ProviderRow
          /\ rowsLlm'[q].exists = rowsLlm[q].exists /\ rowsLlm'[q].key = rowsLlm[q].key
          /\ rowsLlm'[q].active <=> rowsLlm[q].exists /\ q \in adminCalls[c].provider
    BY <1>4, <2>1 DEF LlmProviders!SwitchOver, ProviderRow
  <2>3. rowsLlm' \in [Providers -> ProviderRow]
    BY <2>2, <1>4 DEF LlmProviders!SwitchOver
  <2>4. LlmProviders!Rows' = LlmProviders!Rows
    BY <2>2
  <2>5. SingleActive' /\ LlmProviders!ActiveHasKey'
    <3>1. \A q \in LlmProviders!Active' : q \in adminCalls[c].provider /\ q \in LlmProviders!Rows
      BY <2>2
    <3>2. \A q \in LlmProviders!Active' : rowsLlm[q].key # NoKey
      BY <3>1, <1>4 DEF LlmProviders!SwitchOver, ActivatesKeyed
    <3>. QED
      BY <3>1, <3>2, <2>2 DEF CallsHaveOneTarget, SingleActive, LlmProviders!ActiveHasKey
  <2>. QED
    BY <1>4, <1>0, <2>2, <2>3, <2>4, <2>5, ProviderCallWrites DEF LlmProviders!SwitchOver, LlmProviders!Done
<1>5. CASE LlmProviders!DropRow(c)
  <2>1. \A q \in Providers :
          rowsLlm'[q] = IF q \in adminCalls[c].provider THEN LlmProviders!Absent ELSE rowsLlm[q]
    BY <1>5 DEF LlmProviders!DropRow
  <2>2. LlmProviders!Absent \in ProviderRow /\ ~LlmProviders!Absent.exists
    BY DEF LlmProviders!Absent, ProviderRow
  <2>3. rowsLlm' \in [Providers -> ProviderRow]
    BY <2>1, <2>2, <1>5 DEF LlmProviders!DropRow
  <2>4. \A q \in LlmProviders!Rows' : q \in LlmProviders!Rows /\ rowsLlm'[q] = rowsLlm[q]
    BY <2>1, <2>2
  <2>5. SingleActive' /\ LlmProviders!ActiveHasKey'
    BY <2>4 DEF SingleActive, LlmProviders!ActiveHasKey
  <2>. QED
    BY <1>5, <1>0, <2>3, <2>4, <2>5, ProviderCallWrites DEF LlmProviders!DropRow, LlmProviders!Done
<1>. QED
  BY <1>1, <1>2, <1>3, <1>4, <1>5

\* A step of this part, or of another, keeps ProvidersInv.
LEMMA ProvidersStep ==
  ASSUME ProvidersInv, [LlmProviders!Next]_llmVars PROVE ProvidersInv'
<1>1. CASE UNCHANGED <<rowsLlm, adminCalls>>
  BY <1>1
  DEF ProvidersInv, ProviderShapes, CallsHaveOneTarget, CarriesKey, ActivatesKeyed, SingleActive,
      LlmProviders!ActiveHasKey, LlmProviders!Active, LlmProviders!Rows
<1>2. ASSUME NEW c \in AdminCalls,
             \/ LlmProviders!RevokeOld(c) \/ LlmProviders!StoreFails(c) \/ LlmProviders!DropKey(c)
             \/ LlmProviders!InjectProvider(c) \/ LlmProviders!Decrypt(c)
             \/ \E k \in VaultKeys : LlmProviders!StoreKey(c, k)
             \/ \E p \in Providers :
                  \/ LlmProviders!UpdateProvider(c, p) \/ LlmProviders!ActivateProvider(c, p)
                  \/ LlmProviders!DeleteProvider(c, p)
                  \/ \E k \in VaultKeys : LlmProviders!CreateProvider(c, p, k)
      PROVE  ProvidersInv'
  BY <1>2, ProviderReads
<1>3. ASSUME NEW c \in AdminCalls,
             \/ LlmProviders!InsertProvider(c) \/ LlmProviders!SetKey(c)
             \/ LlmProviders!AutoActivate(c) \/ LlmProviders!SwitchOver(c)
             \/ LlmProviders!DropRow(c)
      PROVE  ProvidersInv'
  BY <1>3, ProviderWrites
<1>. QED
  BY <1>1, <1>2, <1>3 DEF LlmProviders!Next, llmVars, LlmProviders!UpdateSettings,
     LlmProviders!RevokeCredential

\* ProvidersInv holds in every reachable state.
LEMMA ProvidersHold == Spec => []ProvidersInv
<1>1. Init => ProvidersInv
  BY ProvidersStart DEF Init
<1>2. ProvidersInv /\ [Next]_vars => ProvidersInv'
  BY StepOfParts, ProvidersStep
<1>. QED
  BY <1>1, <1>2, PTL DEF Spec

\* The index, by counting.
LEMMA SingleIsOne ==
  ASSUME SingleActive PROVE LlmProviders!OneActive
<1>1. CASE LlmProviders!Active = {}
  BY <1>1, FS_EmptySet DEF LlmProviders!OneActive, Cardinality, LlmProviders!Cardinality
<1>2. CASE LlmProviders!Active # {}
  <2>1. PICK p \in LlmProviders!Active : TRUE
    BY <1>2
  <2>2. LlmProviders!Active = {p}
    BY <2>1 DEF SingleActive
  <2>3. Cardinality(LlmProviders!Active) = 1
    BY <2>2, FS_Singleton
  <2>. QED
    BY <2>3 DEF LlmProviders!OneActive, Cardinality, LlmProviders!Cardinality
<1>. QED
  BY <1>1, <1>2

(****************************************************************************)
(* Keys.  A key is stored once and set in one row, so what a call revokes   *)
(* is the key of the provider it is about, or of none any more.             *)
(****************************************************************************)
Working == {"revoke", "store", "set", "drop", "delete"}

VaultInv == vault \in [VaultKeys -> {"unused", "active", "revoked"}]

\* Keys of rows were stored, each is of one row, and a row that is gone has none.
RowKeysInv ==
  /\ \A p \in Providers :
       /\ ~rowsLlm[p].exists => rowsLlm[p].key = NoKey
       /\ rowsLlm[p].key # NoKey => vault[rowsLlm[p].key] # "unused"
  /\ \A p, q \in Providers : rowsLlm[p].key = rowsLlm[q].key /\ rowsLlm[p].key # NoKey => p = q

\* A key that a call read was stored.
OldKeysInv ==
  \A c \in AdminCalls : adminCalls[c].old # NoKey => vault[adminCalls[c].old] # "unused"

\* A key that a call stored and did not set is nobody else's, and was revoked
\* only by the route of the vault.
InHand(c) == adminCalls[c].step \in {"insert", "set"}
NewKeysInv ==
  \A c \in AdminCalls : InHand(c) =>
    /\ vault[adminCalls[c].new] # "unused"
    /\ vault[adminCalls[c].new] = "revoked" => adminCalls[c].new \in cutOff
    /\ \A p \in Providers : rowsLlm[p].key # adminCalls[c].new
    /\ \A d \in AdminCalls : /\ adminCalls[d].old # adminCalls[c].new
                             /\ InHand(d) /\ adminCalls[d].new = adminCalls[c].new => d = c

\* The key a call is to revoke or has revoked is of its own provider; once it is
\* replaced it is of no row.
OwnKeysInv ==
  \A c \in AdminCalls, q \in Providers :
    rowsLlm[q].key = adminCalls[c].old /\ rowsLlm[q].key # NoKey =>
      IF adminCalls[c].step \in Working THEN q \in adminCalls[c].provider
      ELSE q \notin adminCalls[c].provider

KeysInv ==
  /\ VaultInv /\ RowKeysInv /\ OldKeysInv /\ NewKeysInv /\ OwnKeysInv
  /\ LlmProviders!KeysWork

\* How the state of one call, and of the key it handles, may change.
CallKeeps(c, new) ==
  /\ \A k \in VaultKeys : vault[k] # "unused" => vault'[k] # "unused"
  /\ \A k \in VaultKeys : vault'[k] = "revoked" /\ vault[k] # "revoked" =>
       /\ k = adminCalls[c].old /\ adminCalls[c].step \in Working
       /\ new.old = k /\ new.provider = adminCalls[c].provider
  /\ \/ new.old \in {NoKey, adminCalls[c].old}
     \/ \E p \in Providers : new.old = rowsLlm[p].key
  /\ new.step \in {"insert", "set"} =>
       new.new \in VaultKeys /\ vault[new.new] = "unused" /\ vault'[new.new] = "active"
  /\ \/ new.old = NoKey
     \/ new.provider = {} /\ new.step \notin Working
     \/ new.step \in Working /\ \E p \in Providers : new.provider = {p} /\ new.old = rowsLlm[p].key
     \/ /\ new.old = adminCalls[c].old /\ new.provider = adminCalls[c].provider
        /\ adminCalls[c].step \in Working /\ new.step \in Working
  /\ adminCalls[c].step \in Working /\ adminCalls[c].old # NoKey =>
       \/ new.old = adminCalls[c].old /\ new.provider = adminCalls[c].provider
       \/ adminCalls[c].old \in cutOff'

\* Call: KeysInv is kept.
LEMMA KeysKeep ==
  ASSUME ProvidersInv, KeysInv, NEW c \in AdminCalls, NEW new \in AdminCall,
         LlmProviders!Call(c, new), rowsLlm' \in [Providers -> ProviderRow],
         \A p \in Providers : /\ rowsLlm'[p].key = rowsLlm[p].key
                              /\ rowsLlm'[p].exists = rowsLlm[p].exists,
         VaultInv', cutOff \subseteq cutOff', CallKeeps(c, new)
  PROVE  KeysInv'
<1>1. \A d \in AdminCalls : adminCalls'[d] = IF d = c THEN new ELSE adminCalls[d]
  BY DEF LlmProviders!Call, ProvidersInv, ProviderShapes
<1>2. /\ \A p \in Providers : rowsLlm[p].key \in VaultKeys \cup {NoKey}
      /\ \A d \in AdminCalls : adminCalls[d] \in AdminCall
  BY DEF ProvidersInv, ProviderShapes, ProviderRow
<1>3. \A d \in AdminCalls : adminCalls[d].old \in VaultKeys \cup {NoKey}
                            /\ adminCalls[d].new \in VaultKeys \cup {NoKey}
  BY <1>2 DEF AdminCall
<1>4. new.old \in VaultKeys \cup {NoKey} /\ new.new \in VaultKeys \cup {NoKey}
  BY DEF AdminCall
<1>5. RowKeysInv'
  BY <1>2 DEF KeysInv, RowKeysInv, CallKeeps
<1>6. OldKeysInv'
  BY <1>1, <1>2, <1>3, <1>4 DEF KeysInv, RowKeysInv, OldKeysInv, CallKeeps
<1>7. NewKeysInv'
  <2>. SUFFICES ASSUME NEW d \in AdminCalls, InHand(d)'
                PROVE  /\ vault'[adminCalls'[d].new] # "unused"
                       /\ vault'[adminCalls'[d].new] = "revoked" => adminCalls'[d].new \in cutOff'
                       /\ \A p \in Providers : rowsLlm'[p].key # adminCalls'[d].new
                       /\ \A e \in AdminCalls :
                            /\ adminCalls'[e].old # adminCalls'[d].new
                            /\ InHand(e)' /\ adminCalls'[e].new = adminCalls'[d].new => e = d
    BY DEF NewKeysInv
  <2>1. CASE d = c
    <3>1. /\ new.new \in VaultKeys /\ vault[new.new] = "unused" /\ vault'[new.new] = "active"
          /\ adminCalls'[d] = new
      BY <1>1, <2>1 DEF InHand, CallKeeps
    <3>2. \A p \in Providers : rowsLlm[p].key # new.new
      BY <3>1, ConstantsOfPolicy DEF KeysInv, RowKeysInv
    <3>3. \A e \in AdminCalls : adminCalls[e].old # new.new
      BY <3>1, ConstantsOfPolicy DEF KeysInv, OldKeysInv
    <3>4. new.old # new.new
      BY <3>1, <3>2, <3>3, ConstantsOfPolicy DEF CallKeeps
    <3>5. \A e \in AdminCalls : InHand(e) => adminCalls[e].new # new.new
      BY <3>1 DEF KeysInv, NewKeysInv
    <3>. QED
      BY <1>1, <2>1, <3>1, <3>2, <3>3, <3>4, <3>5 DEF InHand
  <2>2. CASE d # c
    <3>1. adminCalls'[d] = adminCalls[d] /\ InHand(d)
      BY <1>1, <2>2 DEF InHand
    <3>2. PICK k \in VaultKeys : k = adminCalls[d].new
      BY <3>1 DEF ProvidersInv, CarriesKey, InHand
    <3>3. /\ vault[k] # "unused" /\ (vault[k] = "revoked" => k \in cutOff)
          /\ \A p \in Providers : rowsLlm[p].key # k
          /\ \A e \in AdminCalls : /\ adminCalls[e].old # k
                                   /\ InHand(e) /\ adminCalls[e].new = k => e = d
      BY <3>1, <3>2 DEF KeysInv, NewKeysInv
    <3>4. vault'[k] # "unused" /\ (vault'[k] = "revoked" => k \in cutOff')
      BY <3>3 DEF CallKeeps
    <3>5. new.old # k
      BY <3>2, <3>3, ConstantsOfPolicy DEF CallKeeps
    <3>6. InHand(c)' => new.new # k
      BY <1>1, <3>3 DEF InHand, CallKeeps
    <3>. QED
      BY <1>1, <3>1, <3>2, <3>3, <3>4, <3>5, <3>6 DEF InHand
  <2>. QED
    BY <2>1, <2>2
<1>8. OwnKeysInv'
  <2>. SUFFICES ASSUME NEW d \in AdminCalls, NEW q \in Providers,
                       rowsLlm[q].key = adminCalls'[d].old, rowsLlm[q].key # NoKey
                PROVE  IF adminCalls'[d].step \in Working THEN q \in adminCalls'[d].provider
                       ELSE q \notin adminCalls'[d].provider
    BY DEF OwnKeysInv
  <2>1. CASE d # c
    BY <1>1, <2>1 DEF KeysInv, OwnKeysInv
  <2>2. CASE d = c
    <3>1. adminCalls'[d] = new
      BY <1>1, <2>2
    <3>2. CASE new.provider = {} /\ new.step \notin Working
      BY <3>1, <3>2
    <3>3. CASE new.step \in Working /\ \E p \in Providers : new.provider = {p} /\ new.old = rowsLlm[p].key
      BY <3>1, <3>3 DEF KeysInv, RowKeysInv
    <3>4. CASE /\ new.old = adminCalls[c].old /\ new.provider = adminCalls[c].provider
               /\ adminCalls[c].step \in Working /\ new.step \in Working
      BY <3>1, <3>4 DEF KeysInv, OwnKeysInv
    <3>. QED
      BY <3>1, <3>2, <3>3, <3>4 DEF CallKeeps
  <2>. QED
    BY <2>1, <2>2
<1>9. LlmProviders!KeysWork'
  <2>. SUFFICES ASSUME NEW p \in Providers, rowsLlm[p].exists, NEW k, k = rowsLlm[p].key,
                       k # NoKey, vault'[k] = "revoked", k \notin cutOff'
                PROVE  \E d \in AdminCalls : p \in adminCalls'[d].provider /\ adminCalls'[d].old = k
    BY DEF LlmProviders!KeysWork, LlmProviders!Rows
  <2>1. k \in VaultKeys
    BY <1>2
  <2>2. CASE vault[k] = "revoked"
    <3>1. PICK d \in AdminCalls : p \in adminCalls[d].provider /\ adminCalls[d].old = k
      BY <2>2 DEF KeysInv, LlmProviders!KeysWork, LlmProviders!Rows
    <3>2. CASE d # c
      BY <1>1, <3>1, <3>2
    <3>3. CASE d = c
      <4>1. adminCalls[c].step \in Working
        BY <3>1, <3>3 DEF KeysInv, OwnKeysInv
      <4>. QED
        BY <1>1, <3>1, <3>3, <4>1 DEF CallKeeps
    <3>. QED
      BY <3>2, <3>3
  <2>3. CASE vault[k] # "revoked"
    <3>1. /\ k = adminCalls[c].old /\ adminCalls[c].step \in Working
          /\ new.old = k /\ new.provider = adminCalls[c].provider
      BY <2>1, <2>3 DEF CallKeeps
    <3>2. p \in adminCalls[c].provider
      BY <3>1 DEF KeysInv, OwnKeysInv
    <3>. QED
      BY <1>1, <3>1, <3>2
  <2>. QED
    BY <2>2, <2>3
<1>. QED
  BY <1>5, <1>6, <1>7, <1>8, <1>9 DEF KeysInv
\* Call: KeysInv is kept.
LEMMA KeysWritten ==
  ASSUME ProvidersInv, KeysInv, NEW c \in AdminCalls, NEW new \in AdminCall,
         LlmProviders!Call(c, new), rowsLlm' \in [Providers -> ProviderRow], UNCHANGED <<vault, cutOff>>,
         InHand(c), new.step \notin Working \cup {"insert"}, new.old \in {NoKey, adminCalls[c].old},
         new.provider \subseteq adminCalls[c].provider,
         \A q \in Providers :
           /\ \/ rowsLlm'[q].key = rowsLlm[q].key /\ rowsLlm'[q].exists = rowsLlm[q].exists
              \/ q \in adminCalls[c].provider /\ rowsLlm'[q].exists /\ rowsLlm'[q].key = adminCalls[c].new
           /\ q \in new.provider \/ (adminCalls[c].step \in Working /\ q \in adminCalls[c].provider)
                => rowsLlm'[q].key \in {NoKey, adminCalls[c].new}
  PROVE  KeysInv'
<1>1. \A d \in AdminCalls : adminCalls'[d] = IF d = c THEN new ELSE adminCalls[d]
  BY DEF LlmProviders!Call, ProvidersInv, ProviderShapes
<1>2. PICK k \in VaultKeys : k = adminCalls[c].new
  BY DEF ProvidersInv, CarriesKey, InHand
<1>3. /\ vault[k] # "unused" /\ (vault[k] = "revoked" => k \in cutOff) /\ k # NoKey
      /\ \A p \in Providers : rowsLlm[p].key # k
      /\ \A e \in AdminCalls : /\ adminCalls[e].old # k
                               /\ InHand(e) /\ adminCalls[e].new = k => e = c
  BY <1>2, ConstantsOfPolicy DEF KeysInv, NewKeysInv
<1>4. \A p, q \in adminCalls[c].provider : p = q
  BY DEF ProvidersInv, CallsHaveOneTarget
<1>5. ~InHand(c)'
  BY <1>1 DEF InHand, Working
<1>6. VaultInv'
  BY DEF KeysInv, VaultInv
<1>7. RowKeysInv'
  BY <1>2, <1>3, <1>4 DEF KeysInv, RowKeysInv
<1>8. OldKeysInv'
  BY <1>1 DEF KeysInv, OldKeysInv
<1>9. NewKeysInv'
  <2>. SUFFICES ASSUME NEW d \in AdminCalls, InHand(d)'
                PROVE  /\ vault[adminCalls'[d].new] # "unused"
                       /\ vault[adminCalls'[d].new] = "revoked" => adminCalls'[d].new \in cutOff
                       /\ \A p \in Providers : rowsLlm'[p].key # adminCalls'[d].new
                       /\ \A e \in AdminCalls :
                            /\ adminCalls'[e].old # adminCalls'[d].new
                            /\ InHand(e)' /\ adminCalls'[e].new = adminCalls'[d].new => e = d
    BY DEF NewKeysInv
  <2>1. d # c /\ adminCalls'[d] = adminCalls[d] /\ InHand(d)
    BY <1>1, <1>5 DEF InHand
  <2>2. PICK j \in VaultKeys : j = adminCalls[d].new
    BY <2>1 DEF ProvidersInv, CarriesKey, InHand
  <2>3. /\ vault[j] # "unused" /\ (vault[j] = "revoked" => j \in cutOff)
        /\ \A p \in Providers : rowsLlm[p].key # j
        /\ \A e \in AdminCalls : /\ adminCalls[e].old # j
                                 /\ InHand(e) /\ adminCalls[e].new = j => e = d
    BY <2>1, <2>2 DEF KeysInv, NewKeysInv
  <2>4. j # k
    BY <1>2, <2>1, <2>3
  <2>5. new.old # j
    BY <2>2, <2>3, ConstantsOfPolicy
  <2>. QED
    BY <1>1, <1>2, <1>5, <2>1, <2>2, <2>3, <2>4, <2>5 DEF InHand
<1>10. OwnKeysInv'
  <2>. SUFFICES ASSUME NEW d \in AdminCalls, NEW q \in Providers,
                       rowsLlm'[q].key = adminCalls'[d].old, rowsLlm'[q].key # NoKey
                PROVE  IF adminCalls'[d].step \in Working THEN q \in adminCalls'[d].provider
                       ELSE q \notin adminCalls'[d].provider
    BY DEF OwnKeysInv
  <2>1. rowsLlm'[q].key # k
    BY <1>1, <1>3
  <2>2. rowsLlm'[q].key = rowsLlm[q].key
    BY <1>2, <2>1
  <2>3. CASE d # c
    BY <1>1, <2>2, <2>3 DEF KeysInv, OwnKeysInv
  <2>4. CASE d = c
    BY <1>1, <1>2, <2>1, <2>4
  <2>. QED
    BY <2>3, <2>4
<1>11. LlmProviders!KeysWork'
  <2>. SUFFICES ASSUME NEW p \in Providers, rowsLlm'[p].exists, NEW j, j = rowsLlm'[p].key,
                       j # NoKey, vault[j] = "revoked", j \notin cutOff
                PROVE  \E d \in AdminCalls : p \in adminCalls'[d].provider /\ adminCalls'[d].old = j
    BY DEF LlmProviders!KeysWork, LlmProviders!Rows
  <2>1. j # k
    BY <1>3
  <2>2. j = rowsLlm[p].key /\ rowsLlm[p].exists
    BY <1>2, <2>1
  <2>3. PICK d \in AdminCalls : p \in adminCalls[d].provider /\ adminCalls[d].old = j
    BY <2>2 DEF KeysInv, LlmProviders!KeysWork, LlmProviders!Rows
  <2>4. d # c
    <3>1. adminCalls[c].step \notin Working \/ p \notin adminCalls[c].provider
      BY <1>2, <2>1
    <3>. QED
      BY <2>2, <2>3, <3>1 DEF KeysInv, OwnKeysInv
  <2>. QED
    BY <1>1, <2>3, <2>4
<1>. QED
  BY <1>6, <1>7, <1>8, <1>9, <1>10, <1>11 DEF KeysInv

\* DropRow: KeysInv is kept.
LEMMA KeysDropped ==
  ASSUME ProvidersInv, KeysInv, NEW c \in AdminCalls, LlmProviders!DropRow(c)
  PROVE  KeysInv'
<1>0. /\ LlmProviders!Idle.provider = {} /\ LlmProviders!Idle.step = "none"
      /\ LlmProviders!Idle.old = NoKey
  BY DEF LlmProviders!Idle
<1>1. \A d \in AdminCalls : adminCalls'[d] = IF d = c THEN LlmProviders!Idle ELSE adminCalls[d]
  BY DEF LlmProviders!DropRow, LlmProviders!Done, LlmProviders!Call, ProvidersInv, ProviderShapes
<1>2. \A q \in Providers :
        \/ rowsLlm'[q] = rowsLlm[q] /\ q \notin adminCalls[c].provider
        \/ ~rowsLlm'[q].exists /\ rowsLlm'[q].key = NoKey
  BY DEF LlmProviders!DropRow, LlmProviders!Absent
<1>3. UNCHANGED <<vault, cutOff>>
  BY DEF LlmProviders!DropRow
<1>4. VaultInv' /\ OldKeysInv'
  BY <1>0, <1>1, <1>3 DEF KeysInv, VaultInv, OldKeysInv
<1>5. RowKeysInv'
  BY <1>2, <1>3 DEF KeysInv, RowKeysInv
<1>6. NewKeysInv'
  <2>1. \A d \in AdminCalls : InHand(d)' => d # c /\ adminCalls'[d] = adminCalls[d] /\ InHand(d)
                                            /\ adminCalls[d].new \in VaultKeys
    BY <1>0, <1>1 DEF InHand, ProvidersInv, CarriesKey
  <2>2. \A d \in AdminCalls : InHand(d)' => adminCalls[d].new # NoKey
    BY <2>1, ConstantsOfPolicy
  <2>. QED
    BY <1>0, <1>1, <1>2, <1>3, <2>1, <2>2 DEF KeysInv, NewKeysInv
<1>7. OwnKeysInv'
  BY <1>0, <1>1, <1>2 DEF KeysInv, OwnKeysInv
<1>8. LlmProviders!KeysWork'
  BY <1>0, <1>1, <1>2, <1>3 DEF KeysInv, LlmProviders!KeysWork, LlmProviders!Rows
<1>. QED
  BY <1>4, <1>5, <1>6, <1>7, <1>8 DEF KeysInv

\* RevokeCredential: KeysInv is kept.
LEMMA KeysRevoked ==
  ASSUME ProvidersInv, KeysInv, NEW k \in VaultKeys, LlmProviders!RevokeCredential(k)
  PROVE  KeysInv'
<1>1. /\ UNCHANGED <<rowsLlm, adminCalls>> /\ cutOff' = cutOff \cup {k}
      /\ \A j \in VaultKeys : vault'[j] = IF j = k /\ vault[j] = "active" THEN "revoked" ELSE vault[j]
  BY DEF LlmProviders!RevokeCredential, LlmProviders!Revoked
<1>2. VaultInv'
  BY DEF KeysInv, VaultInv, LlmProviders!RevokeCredential, LlmProviders!Revoked
<1>3. /\ \A p \in Providers : rowsLlm[p].key \in VaultKeys \cup {NoKey}
      /\ \A d \in AdminCalls : adminCalls[d].old \in VaultKeys \cup {NoKey}
      /\ \A d \in AdminCalls : InHand(d) => adminCalls[d].new \in VaultKeys
  BY DEF ProvidersInv, ProviderShapes, ProviderRow, AdminCall, CarriesKey, InHand
<1>4. RowKeysInv' /\ OldKeysInv' /\ OwnKeysInv'
  BY <1>1, <1>3 DEF KeysInv, RowKeysInv, OldKeysInv, OwnKeysInv
<1>5. NewKeysInv'
  BY <1>1, <1>3 DEF KeysInv, NewKeysInv, InHand
<1>6. LlmProviders!KeysWork'
  BY <1>1, <1>3 DEF KeysInv, LlmProviders!KeysWork, LlmProviders!Rows
<1>. QED
  BY <1>2, <1>4, <1>5, <1>6 DEF KeysInv

\* Every step of one call.
LEMMA KeysMove ==
  ASSUME ProvidersInv, KeysInv, ProvidersInv', NEW c \in AdminCalls,
         \/ LlmProviders!InsertProvider(c) \/ LlmProviders!RevokeOld(c) \/ LlmProviders!StoreFails(c)
         \/ LlmProviders!SetKey(c) \/ LlmProviders!AutoActivate(c) \/ LlmProviders!SwitchOver(c)
         \/ LlmProviders!DropKey(c) \/ LlmProviders!DropRow(c)
         \/ LlmProviders!InjectProvider(c) \/ LlmProviders!Decrypt(c)
         \/ \E k \in VaultKeys : LlmProviders!StoreKey(c, k)
         \/ \E p \in Providers :
              \/ LlmProviders!UpdateProvider(c, p) \/ LlmProviders!ActivateProvider(c, p)
              \/ LlmProviders!DeleteProvider(c, p)
              \/ \E k \in VaultKeys : LlmProviders!CreateProvider(c, p, k)
  PROVE  KeysInv'
<1>0. /\ adminCalls[c] \in AdminCall /\ adminCalls' \in [AdminCalls -> AdminCall]
      /\ rowsLlm \in [Providers -> ProviderRow] /\ rowsLlm' \in [Providers -> ProviderRow]
      /\ vault \in [VaultKeys -> {"unused", "active", "revoked"}]
  BY DEF ProvidersInv, ProviderShapes, KeysInv, VaultInv
<1>1. LlmProviders!Idle \in AdminCall /\ LlmProviders!Idle.provider = {}
      /\ LlmProviders!Idle.step = "none" /\ LlmProviders!Idle.old = NoKey
  BY DEF LlmProviders!Idle, AdminCall
<1>2. ASSUME NEW new, LlmProviders!Call(c, new)
      PROVE  new \in AdminCall
  BY <1>0, <1>2 DEF LlmProviders!Call, ProvidersInv, ProviderShapes
<1>3. ASSUME NEW new, LlmProviders!Call(c, new), VaultInv', UNCHANGED rowsLlm,
             cutOff \subseteq cutOff', CallKeeps(c, new)
      PROVE  KeysInv'
  BY <1>0, <1>2, <1>3, KeysKeep
<1>4. CASE LlmProviders!RevokeOld(c)
  <2>. DEFINE new == [adminCalls[c] EXCEPT !.step = "store"]
  <2>1. /\ new.step = "store" /\ new.old = adminCalls[c].old /\ new.provider = adminCalls[c].provider
        /\ adminCalls[c].step = "revoke"
    BY <1>0, <1>4 DEF AdminCall, LlmProviders!RevokeOld
  <2>2. /\ LlmProviders!Call(c, new) /\ UNCHANGED <<rowsLlm, cutOff>>
        /\ vault' = LlmProviders!Revoked({adminCalls[c].old})
    BY <1>4 DEF LlmProviders!RevokeOld
  <2>. HIDE DEF new
  <2>3. VaultInv' /\ CallKeeps(c, new)
    BY <1>0, <2>1, <2>2 DEF LlmProviders!Revoked, VaultInv, CallKeeps, Working
  <2>. QED
    BY <1>3, <2>2, <2>3
<1>5. CASE LlmProviders!DropKey(c)
  <2>. DEFINE new == [adminCalls[c] EXCEPT !.step = "delete"]
  <2>1. /\ new.step = "delete" /\ new.old = adminCalls[c].old /\ new.provider = adminCalls[c].provider
        /\ adminCalls[c].step = "drop"
    BY <1>0, <1>5 DEF AdminCall, LlmProviders!DropKey
  <2>2. /\ LlmProviders!Call(c, new) /\ UNCHANGED <<rowsLlm, cutOff>>
        /\ vault' = LlmProviders!Revoked({adminCalls[c].old})
    BY <1>5 DEF LlmProviders!DropKey
  <2>. HIDE DEF new
  <2>3. VaultInv' /\ CallKeeps(c, new)
    BY <1>0, <2>1, <2>2 DEF LlmProviders!Revoked, VaultInv, CallKeeps, Working
  <2>. QED
    BY <1>3, <2>2, <2>3
<1>6. CASE LlmProviders!StoreFails(c)
  <2>1. CallKeeps(c, LlmProviders!Idle)
    BY <1>0, <1>1, <1>6 DEF LlmProviders!StoreFails, CallKeeps, Working
  <2>. QED
    BY <1>0, <1>3, <1>6, <2>1 DEF LlmProviders!StoreFails, LlmProviders!Done, VaultInv
<1>7. CASE LlmProviders!Decrypt(c)
  <2>1. CallKeeps(c, LlmProviders!Idle)
    BY <1>0, <1>1, <1>7 DEF LlmProviders!Decrypt, CallKeeps, Working
  <2>. QED
    BY <1>0, <1>3, <1>7, <2>1 DEF LlmProviders!Decrypt, LlmProviders!Done, VaultInv
<1>8. CASE LlmProviders!AutoActivate(c) \/ LlmProviders!SwitchOver(c)
  <2>1. CallKeeps(c, LlmProviders!Idle)
    BY <1>0, <1>1, <1>8 DEF LlmProviders!AutoActivate, LlmProviders!SwitchOver, CallKeeps, Working
  <2>2. \A p \in Providers : rowsLlm'[p].key = rowsLlm[p].key /\ rowsLlm'[p].exists = rowsLlm[p].exists
    <3>1. CASE LlmProviders!AutoActivate(c)
      <4>1. \A p \in Providers :
              rowsLlm'[p] = rowsLlm[p] \/ rowsLlm'[p] = [rowsLlm[p] EXCEPT !.active = TRUE]
        BY <3>1 DEF LlmProviders!AutoActivate
      <4>. QED
        BY <1>0, <4>1 DEF ProviderRow
    <3>2. CASE LlmProviders!SwitchOver(c)
      BY <1>0, <3>2 DEF LlmProviders!SwitchOver, ProviderRow
    <3>. QED
      BY <1>8, <3>1, <3>2
  <2>3. LlmProviders!Call(c, LlmProviders!Idle) /\ UNCHANGED <<vault, cutOff>>
    BY <1>8 DEF LlmProviders!AutoActivate, LlmProviders!SwitchOver, LlmProviders!Done
  <2>4. VaultInv' /\ cutOff \subseteq cutOff'
    BY <1>0, <2>3 DEF VaultInv
  <2>. QED
    BY <1>0, <1>1, <2>1, <2>2, <2>3, <2>4, KeysKeep
<1>9. CASE LlmProviders!InjectProvider(c)
  <2>1. PICK p \in LlmProviders!Active :
          LlmProviders!Call(c, [LlmProviders!Idle EXCEPT !.step = "decrypt", !.old = rowsLlm[p].key])
    BY <1>9 DEF LlmProviders!InjectProvider
  <2>. DEFINE new == [LlmProviders!Idle EXCEPT !.step = "decrypt", !.old = rowsLlm[p].key]
  <2>2. /\ new.step = "decrypt" /\ new.provider = {} /\ new.old = rowsLlm[p].key
        /\ p \in Providers /\ adminCalls[c].step = "none"
    BY <1>9 DEF LlmProviders!InjectProvider, LlmProviders!Idle, LlmProviders!Active, LlmProviders!Rows
  <2>3. LlmProviders!Call(c, new) /\ UNCHANGED <<rowsLlm, vault, cutOff>>
    BY <1>9, <2>1 DEF LlmProviders!InjectProvider
  <2>. HIDE DEF new
  <2>4. CallKeeps(c, new)
    BY <1>0, <2>2, <2>3 DEF CallKeeps, Working
  <2>. QED
    BY <1>0, <1>3, <2>3, <2>4 DEF VaultInv
<1>10. ASSUME NEW k \in VaultKeys, LlmProviders!StoreKey(c, k)
       PROVE  KeysInv'
  <2>. DEFINE new == [adminCalls[c] EXCEPT !.step = "set", !.new = k]
  <2>1. /\ new.step = "set" /\ new.old = adminCalls[c].old /\ new.provider = adminCalls[c].provider
        /\ new.new = k /\ adminCalls[c].step = "store"
    BY <1>0, <1>10 DEF AdminCall, LlmProviders!StoreKey
  <2>2. /\ LlmProviders!Call(c, new) /\ UNCHANGED <<rowsLlm, cutOff>>
        /\ vault[k] = "unused" /\ vault' = [vault EXCEPT ![k] = "active"]
    BY <1>10 DEF LlmProviders!StoreKey
  <2>. HIDE DEF new
  <2>3. VaultInv' /\ CallKeeps(c, new)
    BY <1>0, <2>1, <2>2 DEF VaultInv, CallKeeps, Working
  <2>. QED
    BY <1>3, <2>2, <2>3
<1>11. ASSUME NEW p \in Providers, LlmProviders!UpdateProvider(c, p) \/ LlmProviders!DeleteProvider(c, p)
       PROVE  KeysInv'
  <2>1. PICK s \in {"revoke", "drop"} :
          LlmProviders!Call(c, [LlmProviders!Idle EXCEPT !.step = s, !.provider = {p}, !.old = rowsLlm[p].key])
    BY <1>11 DEF LlmProviders!UpdateProvider, LlmProviders!DeleteProvider
  <2>. DEFINE new == [LlmProviders!Idle EXCEPT !.step = s, !.provider = {p}, !.old = rowsLlm[p].key]
  <2>2. /\ new.step = s /\ new.provider = {p} /\ new.old = rowsLlm[p].key /\ adminCalls[c].step = "none"
    BY <1>11 DEF LlmProviders!UpdateProvider, LlmProviders!DeleteProvider, LlmProviders!Idle
  <2>3. LlmProviders!Call(c, new) /\ UNCHANGED <<rowsLlm, vault, cutOff>>
    BY <1>11, <2>1 DEF LlmProviders!UpdateProvider, LlmProviders!DeleteProvider
  <2>. HIDE DEF new
  <2>4. CallKeeps(c, new)
    BY <1>0, <2>2, <2>3 DEF CallKeeps, Working
  <2>. QED
    BY <1>0, <1>3, <2>3, <2>4 DEF VaultInv
<1>12. ASSUME NEW p \in Providers, LlmProviders!ActivateProvider(c, p)
       PROVE  KeysInv'
  <2>. DEFINE new == [LlmProviders!Idle EXCEPT !.step = "activate", !.provider = {p}]
  <2>2. new.step = "activate" /\ new.old = NoKey /\ adminCalls[c].step = "none"
    BY <1>12 DEF LlmProviders!ActivateProvider, LlmProviders!Idle
  <2>3. LlmProviders!Call(c, new) /\ UNCHANGED <<rowsLlm, vault, cutOff>>
    BY <1>12 DEF LlmProviders!ActivateProvider
  <2>. HIDE DEF new
  <2>4. CallKeeps(c, new)
    BY <1>0, <2>2, <2>3 DEF CallKeeps, Working
  <2>. QED
    BY <1>0, <1>3, <2>3, <2>4 DEF VaultInv
<1>13. ASSUME NEW p \in Providers, NEW k \in VaultKeys, LlmProviders!CreateProvider(c, p, k)
       PROVE  KeysInv'
  <2>. DEFINE new == [LlmProviders!Idle EXCEPT !.step = "insert", !.provider = {p}, !.new = k,
                                               !.auto = LlmProviders!Rows = {}]
  <2>1. new.step = "insert" /\ new.old = NoKey /\ new.new = k /\ adminCalls[c].step = "none"
    BY <1>13 DEF LlmProviders!CreateProvider, LlmProviders!Idle
  <2>2. /\ LlmProviders!Call(c, new) /\ UNCHANGED <<rowsLlm, cutOff>>
        /\ vault[k] = "unused" /\ vault' = [vault EXCEPT ![k] = "active"]
    BY <1>13 DEF LlmProviders!CreateProvider
  <2>. HIDE DEF new
  <2>3. VaultInv' /\ CallKeeps(c, new)
    BY <1>0, <2>1, <2>2 DEF VaultInv, CallKeeps, Working
  <2>. QED
    BY <1>3, <2>2, <2>3
<1>14. CASE LlmProviders!InsertProvider(c)
  <2>1. PICK p \in adminCalls[c].provider :
          rowsLlm' = IF rowsLlm[p].exists \/ (adminCalls[c].auto /\ LlmProviders!Active # {}) THEN rowsLlm
                     ELSE [rowsLlm EXCEPT ![p] = [exists |-> TRUE,
                             key |-> adminCalls[c].new, active |-> adminCalls[c].auto]]
    BY <1>14 DEF LlmProviders!InsertProvider
  <2>2. \A q \in Providers :
          \/ rowsLlm'[q].key = rowsLlm[q].key /\ rowsLlm'[q].exists = rowsLlm[q].exists
          \/ q \in adminCalls[c].provider /\ rowsLlm'[q].exists /\ rowsLlm'[q].key = adminCalls[c].new
    BY <1>0, <2>1
  <2>3. /\ adminCalls[c].step = "insert" /\ LlmProviders!Call(c, LlmProviders!Idle)
        /\ UNCHANGED <<vault, cutOff>>
    BY <1>14 DEF LlmProviders!InsertProvider, LlmProviders!Done
  <2>. QED
    BY <1>0, <1>1, <2>2, <2>3, KeysWritten DEF InHand, Working
<1>15. CASE LlmProviders!SetKey(c)
  <2>. DEFINE new == [adminCalls[c] EXCEPT !.step = "auto", !.auto = LlmProviders!Active = {}]
  <2>1. /\ new.step = "auto" /\ new.old = adminCalls[c].old /\ new.provider = adminCalls[c].provider
        /\ adminCalls[c].step = "set"
    BY <1>0, <1>15 DEF AdminCall, LlmProviders!SetKey
  <2>2. LlmProviders!Call(c, new) /\ UNCHANGED <<vault, cutOff>>
    BY <1>15 DEF LlmProviders!SetKey
  <2>. HIDE DEF new
  <2>3. \A q \in Providers :
          rowsLlm'[q] = IF q \in adminCalls[c].provider /\ rowsLlm[q].exists
                          THEN [rowsLlm[q] EXCEPT !.key = adminCalls[c].new] ELSE rowsLlm[q]
    BY <1>15 DEF LlmProviders!SetKey
  <2>4. \A q \in Providers :
          IF q \in adminCalls[c].provider /\ rowsLlm[q].exists
          THEN rowsLlm'[q].exists /\ rowsLlm'[q].key = adminCalls[c].new
          ELSE rowsLlm'[q].key = rowsLlm[q].key /\ rowsLlm'[q].exists = rowsLlm[q].exists
    BY <1>0, <2>3 DEF ProviderRow
  <2>5. \A q \in Providers : ~rowsLlm[q].exists => rowsLlm[q].key = NoKey
    BY DEF KeysInv, RowKeysInv
  <2>6. new \in AdminCall
    BY <1>2, <2>2
  <2>. QED
    BY <1>0, <2>1, <2>2, <2>4, <2>5, <2>6, KeysWritten DEF InHand, Working
<1>. QED
  BY <1>4, <1>5, <1>6, <1>7, <1>8, <1>9, <1>10, <1>11, <1>12, <1>13, <1>14, <1>15, KeysDropped

\* KeysInv holds in every reachable state.
LEMMA KeysHold == Spec => []KeysInv
<1>1. Init => KeysInv
  <2>. SUFFICES ASSUME Init PROVE KeysInv
    OBVIOUS
  <2>1. /\ rowsLlm = [p \in Providers |-> [LlmProviders!Absent EXCEPT !.exists = p \in SeededProviders]]
        /\ vault = [k \in VaultKeys |-> "unused"]
        /\ adminCalls = [c \in AdminCalls |-> LlmProviders!Idle]
    BY DEF Init, LlmProviders!Init
  <2>2. \A p \in Providers : rowsLlm[p].key = NoKey
    BY <2>1 DEF LlmProviders!Absent
  <2>3. \A c \in AdminCalls : adminCalls[c].old = NoKey /\ adminCalls[c].step = "none"
    BY <2>1 DEF LlmProviders!Idle
  <2>. QED
    BY <2>1, <2>2, <2>3 DEF KeysInv, VaultInv, RowKeysInv, OldKeysInv, NewKeysInv, InHand, OwnKeysInv,
       LlmProviders!KeysWork, LlmProviders!Rows
<1>2. ProvidersInv /\ ProvidersInv' /\ KeysInv /\ [Next]_vars => KeysInv'
  <2>. SUFFICES ASSUME ProvidersInv, ProvidersInv', KeysInv, [LlmProviders!Next]_llmVars
                PROVE  KeysInv'
    BY StepOfParts
  <2>1. CASE UNCHANGED <<rowsLlm, adminCalls, vault, cutOff>>
    BY <2>1 DEF KeysInv, VaultInv, RowKeysInv, OldKeysInv, NewKeysInv, InHand, OwnKeysInv,
       LlmProviders!KeysWork, LlmProviders!Rows
  <2>2. ASSUME NEW m, LlmProviders!UpdateSettings(m)
        PROVE  UNCHANGED <<rowsLlm, adminCalls, vault, cutOff>>
    BY <2>2 DEF LlmProviders!UpdateSettings
  <2>3. UNCHANGED llmVars => UNCHANGED <<rowsLlm, adminCalls, vault, cutOff>>
    BY DEF llmVars
  <2>. QED
    BY <2>1, <2>2, <2>3, KeysRevoked, KeysMove DEF LlmProviders!Next
<1>. QED
  BY <1>1, <1>2, ProvidersHold, PTL DEF Spec

(****************************************************************************)
(* Experiments on the prompt of an agent.                                   *)
(****************************************************************************)
Statuses == {"proposed", "active", "accepted", "reverted", "expired"}
ExperimentRow ==
  [swarm : Swarms, by : Experiments!Actors, original : SUBSET Experiments!Ids, status : Statuses]
Experimenter ==
  [step : Experiments!Steps, id : 0 .. MaxExperiments,
   swarm : Swarms \cup {Experiments!Idle.swarm}, text : SUBSET Experiments!Ids, keep : BOOLEAN]

ExperimentsTyped ==
  /\ prompt \subseteq 1 .. Len(rows)
  /\ rows \in Seq(ExperimentRow) /\ Len(rows) <= MaxExperiments
  /\ cooling \in BOOLEAN /\ overlapped \in BOOLEAN /\ dropped \in BOOLEAN
  /\ actor \in [Experiments!Actors -> Experimenter]

\* What is known of an experiment is older than it.
OlderInv ==
  /\ \A i \in DOMAIN rows : i \notin rows[i].original /\ rows[i].original \subseteq 1 .. Len(rows)
  /\ \A a \in Experiments!Actors :
       /\ actor[a].text \subseteq 1 .. Len(rows) /\ actor[a].id \in 0 .. Len(rows)
       /\ actor[a].step = "asking" => actor[a].swarm \in Swarms
       /\ actor[a].step \notin {"idle", "asking"} => actor[a].id \in 1 .. Len(rows)

\* While the loop asks for a change there is none of its own in the swarm.
LoopInv ==
  /\ Experiments!LoopStartsOne
  /\ actor["loop"].step = "asking" =>
       \A i \in Experiments!Active :
         rows[i].by = "loop" => rows[i].swarm # actor["loop"].swarm

\* The one that moves, when experiments do not overlap.
HoldsOf(x) ==
  /\ x.step = "asking" => Experiments!Active = {} /\ x.text = prompt
  /\ x.step \notin {"idle", "asking"} => x.id \in Experiments!Active
  /\ x.step \in {"saved", "judging", "restored"} => x.text = rows[x.id].original
  /\ x.step \in {"saved", "restored"} => x.text = prompt
  /\ x.step = "restored" => ~x.keep

OneByOne ==
  /\ \A a, b \in Experiments!Actors : actor[a].step = "idle" \/ actor[b].step = "idle" \/ a = b
  /\ \A i, j \in Experiments!Active : i = j
  /\ \A a \in Experiments!Actors : HoldsOf(actor[a])
  /\ \A i \in Experiments!Active :
       prompt = rows[i].original \/ prompt = rows[i].original \cup {i}
  /\ \A j \in DOMAIN rows : rows[j].status = "reverted" =>
       j \notin prompt /\ \A i \in Experiments!Active : j \notin rows[i].original

\* Nothing was lost between a prompt and its row.
NothingDropped ==
  /\ \A j \in DOMAIN rows : rows[j].status = "accepted" =>
       j \in prompt /\ \A i \in Experiments!Active : j \in rows[i].original
  /\ \A i \in Experiments!Active :
       i \in prompt \/ \E a \in Experiments!Actors : actor[a].step \in {"saved", "restored"}

ExperimentsInv ==
  /\ ExperimentsTyped /\ OlderInv /\ LoopInv
  /\ overlapped \/ OneByOne
  /\ overlapped \/ dropped \/ NothingDropped

\* What an actor may become while prompt and rows stay.
Fits(a, new) ==
  /\ new \in Experimenter
  /\ new.text \subseteq 1 .. Len(rows) /\ new.id \in 0 .. Len(rows)
  /\ new.step = "asking" => new.swarm \in Swarms
  /\ new.step = "asking" /\ a = "loop" =>
       \A i \in Experiments!Active : rows[i].by = "loop" => rows[i].swarm # new.swarm
  /\ new.step \notin {"idle", "asking"} => new.id \in 1 .. Len(rows)
  /\ ~overlapped' =>
       /\ new.step = "idle" \/ actor[a].step # "idle" \/ Experiments!OthersIdle(a)
       /\ HoldsOf(new)
  /\ ~overlapped' /\ ~dropped' /\ actor[a].step \in {"saved", "restored"} =>
       new.step \in {"saved", "restored"}

\* Actors: ExperimentsInv is kept.
LEMMA ActorGoes ==
  ASSUME ExperimentsInv, NEW a \in Experiments!Actors, NEW new, Fits(a, new),
         actor' = [actor EXCEPT ![a] = new], prompt' = prompt, rows' = rows,
         cooling' \in BOOLEAN, overlapped' \in BOOLEAN, dropped' \in BOOLEAN,
         overlapped => overlapped', dropped => dropped'
  PROVE  ExperimentsInv'
<1>0. /\ ExperimentsTyped /\ OlderInv /\ LoopInv
      /\ overlapped \/ OneByOne
      /\ overlapped \/ dropped \/ NothingDropped
      /\ new \in Experimenter
  BY DEF ExperimentsInv, Fits
<1>1. /\ actor' \in [Experiments!Actors -> Experimenter] /\ actor'[a] = new
      /\ \A b \in Experiments!Actors \ {a} : actor'[b] = actor[b]
  BY <1>0 DEF ExperimentsTyped
<1>2. Experiments!Active' = Experiments!Active
  BY DEF Experiments!Active
<1>3. ExperimentsTyped'
  BY <1>0, <1>1 DEF ExperimentsTyped
<1>4. OlderInv'
  BY <1>0, <1>1 DEF OlderInv, Fits
<1>5. LoopInv'
  BY <1>0, <1>1, <1>2 DEF LoopInv, Fits, Experiments!LoopStartsOne, Experiments!Actors
<1>6. ASSUME ~overlapped' PROVE OneByOne'
  <2>1. OneByOne
    BY <1>0, <1>6
  <2>2. HoldsOf(new) /\ (new.step = "idle" \/ actor[a].step # "idle" \/ Experiments!OthersIdle(a))
    BY <1>6 DEF Fits
  <2>3. \A b, c \in Experiments!Actors : actor'[b].step = "idle" \/ actor'[c].step = "idle" \/ b = c
    BY <1>1, <2>1, <2>2 DEF OneByOne, Experiments!OthersIdle
  <2>4. \A b \in Experiments!Actors : HoldsOf(actor[b])'
    BY <1>1, <1>2, <2>1, <2>2 DEF OneByOne, HoldsOf
  <2>. QED
    BY <1>2, <2>1, <2>3, <2>4 DEF OneByOne
<1>7. ASSUME ~overlapped', ~dropped' PROVE NothingDropped'
  BY <1>0, <1>1, <1>2, <1>7 DEF NothingDropped, Fits
<1>. QED
  BY <1>3, <1>4, <1>5, <1>6, <1>7 DEF ExperimentsInv

\* There are at most MaxExperiments rows, numbered from 1.
LEMMA RowsAreFew ==
  ASSUME ExperimentsTyped
  PROVE  /\ MaxExperiments \in Nat /\ Len(rows) \in Nat /\ DOMAIN rows = 1 .. Len(rows)
         /\ 1 .. Len(rows) \subseteq Experiments!Ids /\ 1 .. Len(rows) \subseteq 0 .. MaxExperiments
         /\ \A i \in DOMAIN rows : rows[i] \in ExperimentRow
<1>1. MaxExperiments \in Nat
  BY ConstantsOfPolicy
<1>2. rows \in Seq(ExperimentRow) /\ Len(rows) <= MaxExperiments
  BY DEF ExperimentsTyped
<1>. QED
  BY <1>1, <1>2 DEF Experiments!Ids

\* The idle loop is an experimenter.
LEMMA IdleFits ==
  /\ Experiments!Idle.step = "idle" /\ Experiments!Idle.id = 0 /\ Experiments!Idle.text = {}
  /\ Experiments!Idle \in Experimenter
<1>1. MaxExperiments \in Nat
  BY ConstantsOfPolicy
<1>. QED
  BY <1>1 DEF Experiments!Idle, Experimenter, Experiments!Steps

\* A flag that is raised stays, and says what it was raised for.
LEMMA FlagRises ==
  ASSUME NEW flag \in BOOLEAN, NEW cause \in BOOLEAN, NEW next, next = (flag \/ cause)
  PROVE  next \in BOOLEAN /\ (flag => next) /\ (~next => ~flag /\ ~cause)
OBVIOUS

\* Actors, ProposeMutation: ExperimentsInv is kept.
LEMMA ExperimentProposed ==
  ASSUME ExperimentsInv, NEW a \in Experiments!Actors, NEW w \in Swarms,
         Experiments!ProposeMutation(a, w)
  PROVE  ExperimentsInv'
<1>. DEFINE new == [Experiments!Idle EXCEPT !.step = "asking", !.swarm = w, !.text = prompt]
<1>0. ExperimentsTyped /\ OlderInv /\ LoopInv
  BY DEF ExperimentsInv
<1>1. /\ new \in Experimenter /\ new.step = "asking" /\ new.swarm = w /\ new.text = prompt
      /\ new.id = 0
  <2>1. prompt \subseteq Experiments!Ids
    BY <1>0, RowsAreFew DEF ExperimentsTyped
  <2>. QED
    BY <2>1, IdleFits DEF Experiments!Idle, Experimenter, Experiments!Steps
<1>2. actor' = [actor EXCEPT ![a] = new] /\ UNCHANGED <<prompt, rows, cooling, dropped>>
  BY DEF Experiments!ProposeMutation
<1>3. overlapped' \in BOOLEAN /\ (overlapped => overlapped')
      /\ (~overlapped' => Experiments!Active = {} /\ Experiments!OthersIdle(a))
  <2>1. overlapped' = (overlapped \/ (Experiments!Active # {} \/ ~Experiments!OthersIdle(a)))
    BY DEF Experiments!ProposeMutation
  <2>2. overlapped \in BOOLEAN
    BY <1>0 DEF ExperimentsTyped
  <2>. QED
    BY <2>1, <2>2, FlagRises
<1>4. a = "loop" => \A i \in Experiments!Active : rows[i].swarm # w
  BY DEF Experiments!ProposeMutation, Experiments!Target
<1>5. actor[a].step = "idle"
  BY DEF Experiments!ProposeMutation
<1>. HIDE DEF new
<1>6. Fits(a, new)
  BY <1>0, <1>1, <1>3, <1>4, <1>5, RowsAreFew DEF Fits, HoldsOf, ExperimentsTyped
<1>7. cooling' \in BOOLEAN /\ dropped' \in BOOLEAN /\ (dropped => dropped')
  BY <1>0, <1>2 DEF ExperimentsTyped
<1>. QED
  BY <1>2, <1>3, <1>6, <1>7, ActorGoes

\* Actors, Judge: ExperimentsInv is kept.
LEMMA ExperimentJudged ==
  ASSUME ExperimentsInv, NEW a \in Experiments!Actors, NEW i, NEW keep \in BOOLEAN,
         Experiments!Judge(a, i, keep)
  PROVE  ExperimentsInv'
<1>. DEFINE new == [Experiments!Idle EXCEPT !.step = "judging", !.id = i,
                                            !.text = rows[i].original, !.keep = keep]
<1>0. ExperimentsTyped /\ OlderInv /\ LoopInv
  BY DEF ExperimentsInv
<1>1. /\ i \in Experiments!Active /\ i \in 1 .. Len(rows) /\ i \in 0 .. MaxExperiments
      /\ rows[i].original \subseteq Experiments!Ids
  <2>1. i \in Experiments!Active
    BY DEF Experiments!Judge
  <2>2. i \in 1 .. Len(rows) /\ rows[i] \in ExperimentRow
    BY <1>0, <2>1, RowsAreFew DEF Experiments!Active
  <2>3. rows[i].original \subseteq Experiments!Ids
    BY <2>2 DEF ExperimentRow
  <2>. QED
    BY <1>0, <2>1, <2>2, <2>3, RowsAreFew
<1>2. /\ new \in Experimenter /\ new.step = "judging" /\ new.id = i /\ new.text = rows[i].original
  BY <1>1, IdleFits DEF Experiments!Idle, Experimenter, Experiments!Steps
<1>3. actor' = [actor EXCEPT ![a] = new] /\ UNCHANGED <<prompt, rows, cooling, dropped>>
  BY DEF Experiments!Judge
<1>4. overlapped' \in BOOLEAN /\ (overlapped => overlapped')
      /\ (~overlapped' => Experiments!OthersIdle(a))
  <2>1. overlapped' = (overlapped \/ ~Experiments!OthersIdle(a))
    BY DEF Experiments!Judge
  <2>2. overlapped \in BOOLEAN
    BY <1>0 DEF ExperimentsTyped
  <2>. QED
    BY <2>1, <2>2, FlagRises
<1>5. actor[a].step = "idle"
  BY DEF Experiments!Judge
<1>. HIDE DEF new
<1>6. rows[i].original \subseteq 1 .. Len(rows)
  BY <1>0, <1>1, RowsAreFew DEF OlderInv
<1>7. Fits(a, new)
  BY <1>1, <1>2, <1>4, <1>5, <1>6 DEF Fits, HoldsOf
<1>8. cooling' \in BOOLEAN /\ dropped' \in BOOLEAN /\ (dropped => dropped')
  BY <1>0, <1>3 DEF ExperimentsTyped
<1>. QED
  BY <1>3, <1>4, <1>7, <1>8, ActorGoes

\* The actor ends, with the prompt and the rows as they are.
LEMMA ExperimentEnds ==
  ASSUME ExperimentsInv, NEW a \in Experiments!Actors,
         Experiments!SetCooldown(a) \/ Experiments!Fails(a)
  PROVE  ExperimentsInv'
<1>0. ExperimentsTyped /\ OlderInv /\ LoopInv
  BY DEF ExperimentsInv
<1>1. actor' = [actor EXCEPT ![a] = Experiments!Idle] /\ UNCHANGED <<prompt, rows, overlapped>>
      /\ cooling' \in BOOLEAN
  BY <1>0 DEF Experiments!SetCooldown, Experiments!Fails, ExperimentsTyped
<1>2. dropped' \in BOOLEAN /\ (dropped => dropped')
      /\ (~dropped' => actor[a].step \notin {"saved", "restored"})
  <2>1. CASE Experiments!SetCooldown(a)
    BY <1>0, <2>1 DEF Experiments!SetCooldown, ExperimentsTyped
  <2>2. CASE Experiments!Fails(a)
    <3>1. dropped' = (dropped \/ actor[a].step \in {"saved", "restored"})
      BY <2>2 DEF Experiments!Fails
    <3>2. dropped \in BOOLEAN
      BY <1>0 DEF ExperimentsTyped
    <3>. QED
      BY <3>1, <3>2, FlagRises
  <2>. QED
    BY <2>1, <2>2
<1>3. Fits(a, Experiments!Idle)
  BY <1>2, IdleFits DEF Fits, HoldsOf
<1>4. overlapped' \in BOOLEAN /\ (overlapped => overlapped')
  BY <1>0, <1>1 DEF ExperimentsTyped
<1>. QED
  BY <1>1, <1>2, <1>3, <1>4, ActorGoes

\* A row that is added, for an experiment that is saved or only proposed.
LEMMA ExperimentAdded ==
  ASSUME ExperimentsInv, NEW a \in Experiments!Actors,
         Experiments!SaveExperiment(a) \/ Experiments!LlmUnavailable(a)
  PROVE  ExperimentsInv'
<1>. DEFINE n == Len(rows) + 1
<1>0. /\ ExperimentsTyped /\ OlderInv /\ LoopInv
      /\ overlapped \/ OneByOne
      /\ overlapped \/ dropped \/ NothingDropped
  BY DEF ExperimentsInv
<1>1. /\ MaxExperiments \in Nat /\ Len(rows) \in Nat /\ DOMAIN rows = 1 .. Len(rows)
      /\ \A i \in DOMAIN rows : rows[i] \in ExperimentRow
      /\ actor \in [Experiments!Actors -> Experimenter]
      /\ actor[a] \in Experimenter /\ actor[a].step = "asking"
      /\ Len(rows) < MaxExperiments
      /\ UNCHANGED <<prompt, cooling, overlapped, dropped>>
  BY <1>0, RowsAreFew DEF ExperimentsTyped, Experiments!SaveExperiment, Experiments!LlmUnavailable
<1>2. PICK status \in {"active", "proposed"}, new \in Experimenter :
        /\ rows' = Append(rows, Experiments!Row(a, status))
        /\ actor' = [actor EXCEPT ![a] = new]
        /\ status = "active" => new.step = "saved" /\ new.id = n /\ new.text = actor[a].text
        /\ status = "proposed" => new = Experiments!Idle
  <2>1. CASE Experiments!SaveExperiment(a)
    <3>. DEFINE new == [actor[a] EXCEPT !.step = "saved", !.id = n]
    <3>1. new \in Experimenter /\ new.step = "saved" /\ new.id = n /\ new.text = actor[a].text
      <4>1. n \in 0 .. MaxExperiments
        BY <1>1
      <4>. HIDE DEF n
      <4>. QED
        BY <1>1, <4>1 DEF Experimenter, Experiments!Steps
    <3>2. actor' = [actor EXCEPT ![a] = new] /\ rows' = Append(rows, Experiments!Row(a, "active"))
      BY <1>1, <2>1 DEF Experiments!SaveExperiment
    <3>. QED
      BY <3>1, <3>2
  <2>2. CASE Experiments!LlmUnavailable(a)
    <3>1. Experiments!Idle \in Experimenter
      BY IdleFits
    <3>. QED
      BY <2>2, <3>1 DEF Experiments!LlmUnavailable
  <2>. QED
    BY <2>1, <2>2
<1>3. /\ Experiments!Row(a, status) \in ExperimentRow
      /\ Experiments!Row(a, status).status = status /\ Experiments!Row(a, status).by = a
      /\ Experiments!Row(a, status).swarm = actor[a].swarm
      /\ Experiments!Row(a, status).original = actor[a].text
  <2>1. actor[a].swarm \in Swarms /\ actor[a].text \subseteq Experiments!Ids
    BY <1>0, <1>1 DEF OlderInv, Experimenter
  <2>. QED
    BY <2>1 DEF Experiments!Row, ExperimentRow, Statuses
<1>4. PICK row \in ExperimentRow :
        /\ row.status = status /\ row.by = a /\ row.swarm = actor[a].swarm
        /\ row.original = actor[a].text /\ rows' = Append(rows, row)
  BY <1>2, <1>3
<1>5. /\ rows' \in Seq(ExperimentRow) /\ Len(rows') = n /\ DOMAIN rows' = 1 .. n /\ rows'[n] = row
      /\ \A i \in DOMAIN rows : i \in DOMAIN rows' /\ i # n /\ rows'[i] = rows[i]
      /\ \A i \in DOMAIN rows' : i = n \/ i \in DOMAIN rows
  <2>1. rows \in Seq(ExperimentRow)
    BY <1>0 DEF ExperimentsTyped
  <2>. QED
    BY <1>1, <1>4, <2>1
<1>6. /\ \A b \in Experiments!Actors \ {a} : actor'[b] = actor[b]
      /\ actor'[a] = new /\ actor' \in [Experiments!Actors -> Experimenter]
  BY <1>1, <1>2
<1>7. actor[a].text \subseteq 1 .. Len(rows) /\ n \notin 1 .. Len(rows) /\ 1 .. Len(rows) \subseteq 1 .. n
  BY <1>0, <1>1 DEF OlderInv
<1>8. IF status = "active" THEN Experiments!Active' = Experiments!Active \cup {n}
                           ELSE Experiments!Active' = Experiments!Active
  BY <1>4, <1>5 DEF Experiments!Active
<1>9. n \notin Experiments!Active /\ Experiments!Active \subseteq DOMAIN rows
  BY <1>5 DEF Experiments!Active
<1>. HIDE DEF n
<1>10. ExperimentsTyped'
  BY <1>0, <1>1, <1>5, <1>6, <1>7 DEF ExperimentsTyped, n
<1>11. OlderInv'
  <2>1. \A i \in DOMAIN rows' : i \notin rows'[i].original /\ rows'[i].original \subseteq 1 .. n
    BY <1>0, <1>1, <1>4, <1>5, <1>7 DEF OlderInv
  <2>2. new.text \subseteq 1 .. n /\ new.id \in 0 .. n /\ new.step # "asking"
        /\ (new.step \notin {"idle", "asking"} => new.id \in 1 .. n)
    BY <1>1, <1>2, <1>7, IdleFits DEF n
  <2>. QED
    BY <1>0, <1>5, <1>6, <1>7, <2>1, <2>2 DEF OlderInv
<1>12. LoopInv'
  <2>1. a = "loop" => \A i \in Experiments!Active :
                        rows[i].by = "loop" => rows[i].swarm # actor[a].swarm
    BY <1>0, <1>1 DEF LoopInv
  <2>2. Experiments!LoopStartsOne'
    BY <1>0, <1>4, <1>5, <1>8, <1>9, <2>1 DEF LoopInv, Experiments!LoopStartsOne
  <2>3. actor'["loop"].step = "asking" => a # "loop" /\ actor'["loop"] = actor["loop"]
    BY <1>2, <1>6, IdleFits DEF Experiments!Actors
  <2>. QED
    BY <1>0, <1>4, <1>5, <1>8, <1>9, <2>2, <2>3 DEF LoopInv
<1>13. ASSUME ~overlapped PROVE OneByOne'
  <2>1. OneByOne /\ Experiments!Active = {} /\ actor[a].text = prompt
    BY <1>0, <1>1, <1>13 DEF OneByOne, HoldsOf
  <2>2. \A b \in Experiments!Actors \ {a} : actor[b].step = "idle"
    BY <1>1, <2>1 DEF OneByOne
  <2>3. HoldsOf(new)'
    BY <1>1, <1>2, <1>4, <1>5, <1>8, <2>1, IdleFits DEF HoldsOf
  <2>4. \A b \in Experiments!Actors : HoldsOf(actor[b])'
    BY <1>6, <2>2, <2>3 DEF HoldsOf
  <2>5. \A b, c \in Experiments!Actors : actor'[b].step = "idle" \/ actor'[c].step = "idle" \/ b = c
    BY <1>6, <2>2
  <2>6. \A i \in Experiments!Active' : i = n /\ rows'[i].original = prompt
    BY <1>4, <1>5, <1>8, <2>1
  <2>7. \A j \in DOMAIN rows' : rows'[j].status = "reverted" => j \notin prompt
    BY <1>4, <1>5, <2>1 DEF OneByOne
  <2>. QED
    BY <1>1, <2>4, <2>5, <2>6, <2>7 DEF OneByOne
<1>14. ASSUME ~overlapped, ~dropped PROVE NothingDropped'
  <2>1. NothingDropped /\ OneByOne /\ Experiments!Active = {} /\ actor[a].text = prompt
    BY <1>0, <1>1, <1>14 DEF OneByOne, HoldsOf
  <2>2. \A i \in Experiments!Active' : i = n /\ rows'[i].original = prompt /\ actor'[a].step = "saved"
    BY <1>2, <1>4, <1>5, <1>6, <1>8, <2>1
  <2>3. \A j \in DOMAIN rows' : rows'[j].status = "accepted" => j \in prompt
    BY <1>4, <1>5, <2>1 DEF NothingDropped
  <2>. QED
    BY <1>1, <2>2, <2>3 DEF NothingDropped
<1>. QED
  BY <1>1, <1>10, <1>11, <1>12, <1>13, <1>14 DEF ExperimentsInv

\* The prompt is rewritten, by the one that has its row.
LEMMA ExperimentPrompts ==
  ASSUME ExperimentsInv, NEW a \in Experiments!Actors,
         Experiments!UpdateAgentPrompt(a) \/ Experiments!RestorePrompt(a)
  PROVE  ExperimentsInv'
<1>0. /\ ExperimentsTyped /\ OlderInv /\ LoopInv
      /\ overlapped \/ OneByOne
      /\ overlapped \/ dropped \/ NothingDropped
  BY DEF ExperimentsInv
<1>1. /\ UNCHANGED <<rows, cooling, overlapped, dropped>>
      /\ actor \in [Experiments!Actors -> Experimenter] /\ actor[a] \in Experimenter
  BY <1>0 DEF ExperimentsTyped, Experiments!UpdateAgentPrompt, Experiments!RestorePrompt
<1>2. PICK step \in {"prompted", "restored"}, new \in Experimenter :
        /\ actor' = [actor EXCEPT ![a] = new]
        /\ new.step = step /\ new.id = actor[a].id /\ new.text = actor[a].text
        /\ new.keep = actor[a].keep
        /\ step = "prompted" => /\ actor[a].step = "saved"
                                /\ prompt' = actor[a].text \cup {actor[a].id}
        /\ step = "restored" => actor[a].step = "judging" /\ prompt' = actor[a].text /\ ~actor[a].keep
  <2>1. ASSUME NEW step \in {"prompted", "restored"}, Experiments!Goes(a, step)
        PROVE  \E new \in Experimenter :
                 /\ actor' = [actor EXCEPT ![a] = new]
                 /\ new.step = step /\ new.id = actor[a].id /\ new.text = actor[a].text
                 /\ new.keep = actor[a].keep
    <3>. DEFINE new == [actor[a] EXCEPT !.step = step]
    <3>1. /\ new \in Experimenter /\ new.step = step /\ new.id = actor[a].id
          /\ new.text = actor[a].text /\ new.keep = actor[a].keep
      BY <1>1 DEF Experimenter, Experiments!Steps
    <3>2. actor' = [actor EXCEPT ![a] = new]
      BY <1>1, <2>1 DEF Experiments!Goes
    <3>. QED
      BY <3>1, <3>2
  <2>2. CASE Experiments!UpdateAgentPrompt(a)
    BY <2>1, <2>2 DEF Experiments!UpdateAgentPrompt
  <2>3. CASE Experiments!RestorePrompt(a)
    BY <2>1, <2>3 DEF Experiments!RestorePrompt
  <2>. QED
    BY <2>2, <2>3
<1>3. /\ \A b \in Experiments!Actors \ {a} : actor'[b] = actor[b]
      /\ actor'[a] = new /\ actor' \in [Experiments!Actors -> Experimenter]
  BY <1>1, <1>2
<1>4. Experiments!Active' = Experiments!Active
  BY <1>1 DEF Experiments!Active
<1>5. actor[a].text \subseteq 1 .. Len(rows) /\ actor[a].id \in 1 .. Len(rows)
      /\ actor[a].step \notin {"idle", "asking"}
  BY <1>0, <1>2 DEF OlderInv
<1>6. ExperimentsTyped'
  BY <1>0, <1>1, <1>2, <1>3, <1>5 DEF ExperimentsTyped
<1>7. OlderInv'
  BY <1>0, <1>1, <1>2, <1>3, <1>5 DEF OlderInv
<1>8. LoopInv'
  BY <1>0, <1>1, <1>2, <1>3, <1>4 DEF LoopInv, Experiments!LoopStartsOne, Experiments!Actors
<1>9. ASSUME ~overlapped
      PROVE  /\ OneByOne /\ actor[a].id \in Experiments!Active
             /\ \A i \in Experiments!Active : i = actor[a].id
             /\ actor[a].text = rows[actor[a].id].original
             /\ \A b \in Experiments!Actors \ {a} : actor[b].step = "idle"
  BY <1>0, <1>2, <1>5, <1>9 DEF OneByOne, HoldsOf
<1>10. ASSUME ~overlapped PROVE OneByOne'
  <2>1. HoldsOf(new)'
    BY <1>1, <1>2, <1>4, <1>9, <1>10 DEF HoldsOf
  <2>2. \A b \in Experiments!Actors : HoldsOf(actor[b])'
    BY <1>3, <1>9, <1>10, <2>1 DEF HoldsOf
  <2>3. \A b, c \in Experiments!Actors : actor'[b].step = "idle" \/ actor'[c].step = "idle" \/ b = c
    BY <1>3, <1>9, <1>10
  <2>4. \A i \in Experiments!Active : prompt' = rows[i].original \/ prompt' = rows[i].original \cup {i}
    BY <1>2, <1>9, <1>10
  <2>5. \A j \in DOMAIN rows : rows[j].status = "reverted" =>
          j \notin prompt' /\ \A i \in Experiments!Active : j \notin rows[i].original
    BY <1>2, <1>9, <1>10 DEF OneByOne, Experiments!Active
  <2>. QED
    BY <1>1, <1>4, <1>9, <1>10, <2>2, <2>3, <2>4, <2>5 DEF OneByOne
<1>11. ASSUME ~overlapped, ~dropped PROVE NothingDropped'
  <2>1. NothingDropped
    BY <1>0, <1>11
  <2>2. \A j \in DOMAIN rows : rows[j].status = "accepted" => j \in prompt'
    BY <1>2, <1>9, <1>11, <2>1 DEF NothingDropped
  <2>3. \A i \in Experiments!Active : i \in prompt' \/ actor'[a].step = "restored"
    BY <1>2, <1>3, <1>9, <1>11
  <2>. QED
    BY <1>1, <1>4, <2>1, <2>2, <2>3 DEF NothingDropped
<1>. QED
  BY <1>1, <1>6, <1>7, <1>8, <1>10, <1>11 DEF ExperimentsInv

\* The row of an experiment that is judged says so.
LEMMA ExperimentSettles ==
  ASSUME ExperimentsInv, NEW a \in Experiments!Actors, Experiments!Settle(a)
  PROVE  ExperimentsInv'
<1>. DEFINE id == actor[a].id
<1>0. /\ ExperimentsTyped /\ OlderInv /\ LoopInv
      /\ overlapped \/ OneByOne
      /\ overlapped \/ dropped \/ NothingDropped
  BY DEF ExperimentsInv
<1>1. /\ UNCHANGED <<prompt, cooling, overlapped, dropped>>
      /\ actor' = [actor EXCEPT ![a] = Experiments!Idle]
      /\ actor \in [Experiments!Actors -> Experimenter] /\ actor[a] \in Experimenter
      /\ actor[a].step = "restored" \/ (actor[a].step = "judging" /\ actor[a].keep)
      /\ id \in 1 .. Len(rows) /\ DOMAIN rows = 1 .. Len(rows) /\ id \in DOMAIN rows
      /\ \A i \in DOMAIN rows : rows[i] \in ExperimentRow
  BY <1>0, RowsAreFew DEF ExperimentsTyped, OlderInv, Experiments!Settle
<1>2. PICK status \in {"accepted", "reverted"} :
        /\ rows' = [rows EXCEPT ![id].status = status]
        /\ status = IF actor[a].keep THEN "accepted" ELSE "reverted"
  BY DEF Experiments!Settle
<1>. HIDE DEF id
<1>3. /\ DOMAIN rows' = DOMAIN rows /\ Len(rows') = Len(rows) /\ rows' \in Seq(ExperimentRow)
      /\ \A i \in DOMAIN rows : i # id => rows'[i] = rows[i]
      /\ rows'[id].status = status
      /\ \A i \in DOMAIN rows : rows'[i].original = rows[i].original /\ rows'[i].by = rows[i].by
                                /\ rows'[i].swarm = rows[i].swarm
  <2>. DEFINE row == [rows[id] EXCEPT !.status = status]
  <2>1. /\ row \in ExperimentRow /\ row.status = status /\ row.original = rows[id].original
        /\ row.by = rows[id].by /\ row.swarm = rows[id].swarm
    BY <1>1 DEF ExperimentRow, Statuses
  <2>2. rows \in Seq(ExperimentRow)
    BY <1>0 DEF ExperimentsTyped
  <2>3. rows' = [rows EXCEPT ![id] = row]
    BY <1>1, <1>2, <2>2
  <2>. HIDE DEF row
  <2>. QED
    BY <1>1, <2>1, <2>2, <2>3
<1>4. /\ \A b \in Experiments!Actors \ {a} : actor'[b] = actor[b]
      /\ actor'[a] = Experiments!Idle /\ actor' \in [Experiments!Actors -> Experimenter]
  BY <1>1, IdleFits
<1>5. Experiments!Active' = Experiments!Active \ {id}
  BY <1>1, <1>2, <1>3 DEF Experiments!Active
<1>6. ExperimentsTyped'
  BY <1>0, <1>1, <1>3, <1>4 DEF ExperimentsTyped
<1>7. OlderInv'
  BY <1>0, <1>1, <1>3, <1>4, IdleFits DEF OlderInv
<1>8. LoopInv'
  BY <1>0, <1>3, <1>4, <1>5, IdleFits DEF LoopInv, Experiments!LoopStartsOne, Experiments!Actors,
     Experiments!Active
<1>9. ASSUME ~overlapped
      PROVE  /\ OneByOne /\ id \in Experiments!Active
             /\ Experiments!Active' = {}
             /\ \A b \in Experiments!Actors \ {a} : actor[b].step = "idle"
             /\ actor[a].step = "restored" => prompt = rows[id].original /\ status = "reverted"
             /\ actor[a].step = "judging" => status = "accepted"
  BY <1>0, <1>1, <1>2, <1>5, <1>9 DEF OneByOne, HoldsOf, id
<1>10. ASSUME ~overlapped PROVE OneByOne'
  <2>1. \A b \in Experiments!Actors : actor'[b].step = "idle"
    BY <1>4, <1>9, <1>10, IdleFits
  <2>2. \A j \in DOMAIN rows : rows'[j].status = "reverted" => j \notin prompt
    BY <1>0, <1>1, <1>3, <1>9, <1>10 DEF OneByOne, OlderInv
  <2>3. \A b \in Experiments!Actors : HoldsOf(actor[b])'
    BY <2>1 DEF HoldsOf
  <2>. QED
    BY <1>1, <1>3, <1>9, <1>10, <2>1, <2>2, <2>3 DEF OneByOne
<1>11. ASSUME ~overlapped, ~dropped PROVE NothingDropped'
  <2>1. NothingDropped
    BY <1>0, <1>11
  <2>2. actor[a].step = "judging" => id \in prompt
    BY <1>9, <1>11, <2>1 DEF NothingDropped
  <2>3. \A j \in DOMAIN rows : rows'[j].status = "accepted" => j \in prompt
    BY <1>1, <1>3, <1>9, <1>11, <2>1, <2>2 DEF NothingDropped
  <2>. QED
    BY <1>1, <1>3, <1>9, <1>11, <2>3 DEF NothingDropped
<1>. QED
  BY <1>1, <1>6, <1>7, <1>8, <1>10, <1>11 DEF ExperimentsInv

\* Proposals that nobody starts expire.
LEMMA ExperimentsExpire ==
  ASSUME ExperimentsInv, Experiments!ExpireStaleExperiments
  PROVE  ExperimentsInv'
<1>0. /\ ExperimentsTyped /\ OlderInv /\ LoopInv
      /\ overlapped \/ OneByOne
      /\ overlapped \/ dropped \/ NothingDropped
  BY DEF ExperimentsInv
<1>1. /\ UNCHANGED <<prompt, cooling, actor, overlapped, dropped>>
      /\ Len(rows) \in Nat /\ DOMAIN rows = 1 .. Len(rows)
      /\ \A i \in DOMAIN rows : rows[i] \in ExperimentRow
  BY <1>0, RowsAreFew DEF Experiments!ExpireStaleExperiments
<1>2. PICK stale \in SUBSET {i \in DOMAIN rows : rows[i].status = "proposed"} :
        rows' = [i \in DOMAIN rows |->
                  IF i \in stale THEN [rows[i] EXCEPT !.status = "expired"] ELSE rows[i]]
  BY DEF Experiments!ExpireStaleExperiments
<1>3. /\ DOMAIN rows' = DOMAIN rows
      /\ \A i \in DOMAIN rows :
           /\ rows'[i] \in ExperimentRow
           /\ rows'[i].original = rows[i].original /\ rows'[i].by = rows[i].by
           /\ rows'[i].swarm = rows[i].swarm
           /\ \/ rows'[i].status = rows[i].status
              \/ rows[i].status = "proposed" /\ rows'[i].status = "expired"
  <2>1. \A row \in ExperimentRow :
          /\ [row EXCEPT !.status = "expired"] \in ExperimentRow
          /\ [row EXCEPT !.status = "expired"].original = row.original
          /\ [row EXCEPT !.status = "expired"].by = row.by
          /\ [row EXCEPT !.status = "expired"].swarm = row.swarm
          /\ [row EXCEPT !.status = "expired"].status = "expired"
    BY DEF ExperimentRow, Statuses
  <2>. QED
    BY <1>1, <1>2, <2>1
<1>4. rows' \in Seq(ExperimentRow) /\ Len(rows') = Len(rows)
  BY <1>1, <1>2, <1>3
<1>5. Experiments!Active' = Experiments!Active
  BY <1>3 DEF Experiments!Active
<1>6. ExperimentsTyped'
  BY <1>0, <1>1, <1>4 DEF ExperimentsTyped
<1>7. OlderInv'
  BY <1>0, <1>1, <1>3, <1>4 DEF OlderInv
<1>8. LoopInv'
  BY <1>0, <1>1, <1>3, <1>5 DEF LoopInv, Experiments!LoopStartsOne, Experiments!Active
<1>9. ASSUME ~overlapped PROVE OneByOne'
  <2>1. OneByOne
    BY <1>0, <1>9
  <2>2. \A b \in Experiments!Actors : HoldsOf(actor[b])'
    BY <1>1, <1>3, <1>5, <2>1 DEF OneByOne, HoldsOf, Experiments!Active
  <2>. QED
    BY <1>1, <1>3, <1>5, <2>1, <2>2 DEF OneByOne, Experiments!Active
<1>10. ASSUME ~overlapped, ~dropped PROVE NothingDropped'
  BY <1>0, <1>1, <1>3, <1>5, <1>10 DEF NothingDropped, Experiments!Active
<1>. QED
  BY <1>1, <1>6, <1>7, <1>8, <1>9, <1>10 DEF ExperimentsInv

\* A step of this part, or of another, keeps ExperimentsInv.
LEMMA ExperimentsStep ==
  ASSUME ExperimentsInv, [Experiments!Next]_experimentsVars
  PROVE  ExperimentsInv'
<1>1. CASE UNCHANGED experimentsVars
  BY <1>1 DEF experimentsVars, ExperimentsInv, ExperimentsTyped, OlderInv, LoopInv, OneByOne, HoldsOf,
     NothingDropped, Experiments!Active, Experiments!LoopStartsOne
<1>2. CASE Experiments!CooldownEnds
  <2>1. cooling' \in BOOLEAN /\ UNCHANGED <<prompt, rows, actor, overlapped, dropped>>
    BY <1>2 DEF Experiments!CooldownEnds
  <2>. QED
    BY <2>1 DEF ExperimentsInv, ExperimentsTyped, OlderInv, LoopInv, OneByOne,
     HoldsOf, NothingDropped, Experiments!Active, Experiments!LoopStartsOne
<1>3. ASSUME NEW i \in Experiments!Ids, Experiments!EvaluateSingle(i) \/ Experiments!RevertExperiment(i)
      PROVE  ExperimentsInv'
  <2>1. \E a \in Experiments!Actors, keep \in BOOLEAN : Experiments!Judge(a, i, keep)
    BY <1>3 DEF Experiments!EvaluateSingle, Experiments!RevertExperiment, Experiments!Actors
  <2>. QED
    BY <2>1, ExperimentJudged
<1>. QED
  BY <1>1, <1>2, <1>3, ExperimentProposed, ExperimentAdded, ExperimentPrompts, ExperimentEnds,
     ExperimentSettles, ExperimentsExpire DEF Experiments!Next

\* ExperimentsInv holds at the start.
LEMMA ExperimentsStart == Init => ExperimentsInv
<1>1. ASSUME Init PROVE Experiments!Init
  BY <1>1 DEF Init
<1>2. ASSUME Experiments!Init PROVE ExperimentsInv
  <2>1. /\ rows = <<>> /\ prompt = {} /\ cooling = FALSE /\ overlapped = FALSE /\ dropped = FALSE
        /\ \A a \in Experiments!Actors : actor[a] = Experiments!Idle
        /\ actor \in [Experiments!Actors -> Experimenter]
    BY <1>2, IdleFits DEF Experiments!Init
  <2>2. rows \in Seq(ExperimentRow) /\ Len(rows) = 0 /\ DOMAIN rows = {} /\ 0 <= MaxExperiments
    <3>1. MaxExperiments \in Nat
      BY ConstantsOfPolicy
    <3>. QED
      BY <2>1, <3>1
  <2>3. Experiments!Active = {}
    BY <2>2 DEF Experiments!Active
  <2>4. ExperimentsTyped
    BY <2>1, <2>2 DEF ExperimentsTyped
  <2>5. OlderInv
    BY <2>1, <2>2, IdleFits DEF OlderInv
  <2>6. LoopInv
    BY <2>1, <2>3, IdleFits DEF LoopInv, Experiments!LoopStartsOne, Experiments!Actors
  <2>7. OneByOne
    BY <2>1, <2>2, <2>3, IdleFits DEF OneByOne, HoldsOf
  <2>8. NothingDropped
    BY <2>2, <2>3 DEF NothingDropped
  <2>. QED
    BY <2>4, <2>5, <2>6, <2>7, <2>8 DEF ExperimentsInv
<1>. QED
  BY <1>1, <1>2

\* ExperimentsInv holds in every reachable state.
LEMMA ExperimentsHold == Spec => []ExperimentsInv
<1>1. ExperimentsInv /\ [Next]_vars => ExperimentsInv'
  BY StepOfParts, ExperimentsStep
<1>. QED
  BY <1>1, ExperimentsStart, PTL DEF Spec

\* What ExperimentsInv says of rows and prompts is what the runs check.
LEMMA ExperimentsAreFair ==
  ASSUME ExperimentsInv
  PROVE  Experiments!RevertedIsGone /\ Experiments!AcceptedIsKept /\ Experiments!LoopStartsOne
BY DEF ExperimentsInv, LoopInv, OneByOne, NothingDropped, Experiments!RevertedIsGone,
   Experiments!AcceptedIsKept

\* ExperimentsInv has the types of the part.
LEMMA ExperimentsAreTyped == ASSUME ExperimentsInv PROVE Experiments!TypeOK
<1>1. ExperimentsTyped /\ OlderInv
  BY DEF ExperimentsInv
<1>2. /\ MaxExperiments \in Nat /\ Len(rows) \in Nat /\ 1 .. Len(rows) \subseteq Experiments!Ids
  BY <1>1, RowsAreFew
<1>3. \A a \in Experiments!Actors :
        /\ actor[a].step \in Experiments!Steps /\ actor[a].id \in 0 .. MaxExperiments
        /\ actor[a].text \subseteq 1 .. Len(rows) /\ actor[a].keep \in BOOLEAN
        /\ actor[a].id \in 0 .. Len(rows)
  BY <1>1 DEF ExperimentsTyped, OlderInv, Experimenter
<1>. QED
  BY <1>1, <1>2, <1>3 DEF Experiments!TypeOK, ExperimentsTyped, ExperimentRow, Statuses

==============================================================================
