-------------------------- MODULE EntrySizingProofs --------------------------
(***************************************************************************)
(* Theorems about EntrySizing for every set of profiles and entries, every *)
(* allocation, equity, rate and quantity step: the size of a preview, what *)
(* an order that is sent may lose, what the open positions of a profile    *)
(* may lose together, and what the enabled profiles share.                 *)
(***************************************************************************)
EXTENDS EntrySizing, FiniteSetTheorems, TLAPS

USE DEF profiles, vars
-----------------------------------------------------------------------------
(* Sums over finite sets.  A claim about every subset is proved from a      *)
(* smallest set that breaks it: strict inclusion of finite sets is well     *)
(* founded, and the claim is the set G of those that satisfy it.            *)

LEMMA SubsetInduction ==
  ASSUME NEW S, IsFiniteSet(S), NEW G,
         \A t \in SUBSET S : (\A r \in SUBSET t : r # t => r \in G) => t \in G
  PROVE  SUBSET S \subseteq G
<1> DEFINE Bad == (SUBSET S) \ G
           R == StrictSubsetOrdering(S)
<1>1. ASSUME Bad # {} PROVE FALSE
  <2>1. IsWellFoundedOn(R, SUBSET S)
    BY FS_StrictSubsetOrderingWellFounded, FS_FiniteSubsetsOfFinite
  <2>2. PICK t \in Bad : \A r \in Bad : ~(<<r, t>> \in R)
    <3>1. Bad \subseteq SUBSET S OBVIOUS
    <3> HIDE DEF Bad, R
    <3> QED BY <1>1, <2>1, <3>1, WFMin
  <2>3. \A r \in SUBSET t : r # t => r \notin Bad BY <2>2 DEF StrictSubsetOrdering
  <2>4. t \in SUBSET S /\ t \notin G BY <2>2
  <2>5. \A r \in SUBSET t : r # t => r \in G BY <2>3, <2>4
  <2> QED BY <2>4, <2>5
<1> QED BY <1>1

First(s) == CHOOSE x \in s : TRUE

\* g has, for every subset of S, the sum that takes its first member first.
IsSum(g, f, S) ==
  /\ DOMAIN g = SUBSET S
  /\ \A s \in SUBSET S : g[s] = IF s = {} THEN 0 ELSE f[First(s)] + g[s \ {First(s)}]

LEMMA SumsAgree ==
  ASSUME NEW f, NEW S, NEW T, NEW g, NEW h, IsSum(g, f, S), IsSum(h, f, T), IsFiniteSet(S)
  PROVE  \A s \in SUBSET (S \cap T) : g[s] = h[s]
<1>0. PICK U : U = S \cap T OBVIOUS
<1> DEFINE G == {s \in SUBSET U : g[s] = h[s]}
<1>1. ASSUME NEW s \in SUBSET U, \A r \in SUBSET s : r # s => r \in G
      PROVE  s \in G
  <2>0. s \in SUBSET S /\ s \in SUBSET T BY <1>0
  <2>1. CASE s = {} BY <2>0, <2>1 DEF IsSum
  <2>2. CASE s # {}
    <3>1. First(s) \in s BY <2>2 DEF First
    <3>2. g[s \ {First(s)}] = h[s \ {First(s)}] BY <1>1, <3>1
    <3> QED BY <2>0, <2>2, <3>2 DEF IsSum
  <2> QED BY <2>1, <2>2
<1>2. IsFiniteSet(U) BY <1>0, FS_Subset
<1>3. SUBSET U \subseteq G
  <2> HIDE DEF G
  <2> QED BY <1>1, <1>2, SubsetInduction
<1> QED BY <1>0, <1>3

\* The sums of the subsets exist: those of the proper subsets of a set agree,
\* and give the sum of the set itself.
LEMMA SumsExist ==
  ASSUME NEW f, NEW S, IsFiniteSet(S)
  PROVE  \E g : IsSum(g, f, S)
<1> DEFINE G == {s \in SUBSET S : \E g : IsSum(g, f, s)}
<1>1. ASSUME NEW s \in SUBSET S, \A r \in SUBSET s : r # s => r \in G
      PROVE  s \in G
  <2> DEFINE Of(r) == CHOOSE g : IsSum(g, f, r)
             k == [r \in SUBSET s |-> IF r = {} THEN 0
                                      ELSE f[First(r)] + Of(r \ {First(r)})[r \ {First(r)}]]
  <2>1. ASSUME NEW r \in SUBSET s, r # {}
        PROVE  First(r) \in r /\ r \ {First(r)} \in SUBSET s /\ r \ {First(r)} # s
    BY <2>1 DEF First
  <2>2. ASSUME NEW r \in SUBSET s, r # s
        PROVE  IsSum(Of(r), f, r) /\ IsFiniteSet(r)
    <3>1. \E g : IsSum(g, f, r) BY <1>1, <2>2
    <3> QED BY <3>1, FS_Subset
  <2>3. ASSUME NEW r \in SUBSET s, r # s PROVE k[r] = Of(r)[r]
    <3> DEFINE q == r \ {First(r)}
    <3>1. CASE r = {}
      <4>1. k[r] = 0 BY <3>1
      <4>2. Of(r)[r] = 0
        <5> HIDE DEF Of
        <5> QED BY <2>2, <2>3, <3>1 DEF IsSum
      <4> QED BY <4>1, <4>2
    <3>2. CASE r # {}
      <4>1. q \in SUBSET s /\ q # s /\ q \in SUBSET r BY <2>1, <3>2
      <4>2. IsSum(Of(q), f, q) /\ IsSum(Of(r), f, r) /\ IsFiniteSet(q)
        <5> HIDE DEF q, Of
        <5> QED BY <2>2, <2>3, <4>1
      <4>3. Of(q)[q] = Of(r)[q]
        <5>1. q \in SUBSET (q \cap r) BY <4>1
        <5> HIDE DEF q, Of
        <5> QED BY <4>2, <5>1, SumsAgree
      <4>4. Of(r)[r] = f[First(r)] + Of(r)[q]
        <5> HIDE DEF Of
        <5> QED BY <3>2, <4>2 DEF IsSum
      <4>5. k[r] = f[First(r)] + Of(q)[q]
        <5> HIDE DEF Of
        <5> QED BY <3>2
      <4> QED BY ONLY <4>3, <4>4, <4>5
    <3> QED BY <3>1, <3>2
  <2>4. ASSUME NEW r \in SUBSET s
        PROVE  k[r] = IF r = {} THEN 0 ELSE f[First(r)] + k[r \ {First(r)}]
    <3>1. r # {} => k[r \ {First(r)}] = Of(r \ {First(r)})[r \ {First(r)}]
      <4> HIDE DEF k, Of
      <4> QED BY <2>1, <2>3
    <3>2. k[r] = IF r = {} THEN 0 ELSE f[First(r)] + Of(r \ {First(r)})[r \ {First(r)}]
      <4> HIDE DEF Of
      <4> QED OBVIOUS
    <3> HIDE DEF k, Of
    <3> QED BY <3>1, <3>2
  <2>5. DOMAIN k = SUBSET s OBVIOUS
  <2>6. IsSum(k, f, s)
    <3> HIDE DEF k
    <3> QED BY <2>4, <2>5 DEF IsSum
  <2> QED BY <2>6
<1>2. SUBSET S \subseteq G
  <2> HIDE DEF G
  <2> QED BY <1>1, SubsetInduction
<1> QED BY <1>2

LEMMA SumIsSum ==
  ASSUME NEW f, NEW S, IsFiniteSet(S)
  PROVE  \E g : IsSum(g, f, S) /\ SumFunctionOnSet(f, S) = g[S]
<1> DEFINE Rest(h) == [s \in SUBSET S |-> IF s = {} THEN 0
                         ELSE f[CHOOSE x \in s : TRUE] + h[s \ {CHOOSE x \in s : TRUE}]]
           g == CHOOSE h : h = Rest(h)
<1>1. SumFunctionOnSet(f, S) = g[S]
  BY DEF SumFunctionOnSet, FoldFunctionOnSet, MapThenFoldSet
<1>2. PICK h : IsSum(h, f, S) BY SumsExist
<1> DEFINE k == [s \in SUBSET S |-> h[s]]
<1>3. k = Rest(k)
  <2>1. k = Rest(h) BY <1>2 DEF IsSum, First
  <2>2. \A s \in SUBSET S : s \ {CHOOSE x \in s : TRUE} \in SUBSET S OBVIOUS
  <2> QED BY <2>1, <2>2
<1>4. g = Rest(g)
  <2> HIDE DEF k, Rest
  <2> QED BY <1>3
<1>5. IsSum(g, f, S)
  <2> HIDE DEF g
  <2> QED BY <1>4 DEF IsSum, First
<1> QED BY <1>1, <1>5

LEMMA SumUnfolds ==
  ASSUME NEW f, NEW S, IsFiniteSet(S)
  PROVE  SumFunctionOnSet(f, S) =
           IF S = {} THEN 0 ELSE f[First(S)] + SumFunctionOnSet(f, S \ {First(S)})
<1> DEFINE T == S \ {First(S)}
<1>1. IsFiniteSet(T) BY FS_RemoveElement
<1>2. PICK g : IsSum(g, f, S) /\ SumFunctionOnSet(f, S) = g[S] BY SumIsSum
<1>3. PICK h : IsSum(h, f, T) /\ SumFunctionOnSet(f, T) = h[T] BY <1>1, SumIsSum
<1>4. g[T] = h[T] BY <1>1, <1>2, <1>3, SumsAgree
<1>5. g[S] = IF S = {} THEN 0 ELSE f[First(S)] + g[T] BY <1>2 DEF IsSum
<1> QED BY <1>2, <1>3, <1>4, <1>5

\* A sum of integers takes any member first.
LEMMA SumTakesOut ==
  ASSUME NEW f, NEW S, IsFiniteSet(S), \A x \in S : f[x] \in Int
  PROVE  /\ SumFunctionOnSet(f, S) \in Int
         /\ \A x \in S : SumFunctionOnSet(f, S) = f[x] + SumFunctionOnSet(f, S \ {x})
<1> DEFINE Total(s) == SumFunctionOnSet(f, s)
           Good(s) == Total(s) \in Int /\ \A x \in s : Total(s) = f[x] + Total(s \ {x})
           G == {s \in SUBSET S : Good(s)}
<1>1. ASSUME NEW s \in SUBSET S, \A r \in SUBSET s : r # s => r \in G
      PROVE  s \in G
  <2>1. ASSUME NEW r \in SUBSET s, r # s PROVE Good(r) BY <1>1, <2>1
  <2> HIDE DEF Good, Total
  <2>2. Total(s) = IF s = {} THEN 0 ELSE f[First(s)] + Total(s \ {First(s)})
    <3>1. IsFiniteSet(s) BY FS_Subset
    <3> QED BY <3>1, SumUnfolds DEF Total
  <2>3. CASE s = {}
    <3>1. Good(s) BY <2>2, <2>3 DEF Good
    <3> QED BY <3>1
  <2>4. CASE s # {}
    <3>1. PICK a \in s : a = First(s) BY <2>4 DEF First
    <3>2. PICK r : r = s \ {a} OBVIOUS
    <3>3. f[a] \in Int /\ Total(s) = f[a] + Total(r) BY <2>2, <2>4, <3>1, <3>2
    <3>4. Good(r) BY <2>1, <3>1, <3>2
    <3>5. Total(r) \in Int BY <3>4 DEF Good
    <3>6. ASSUME NEW x \in s, x # a PROVE Total(s) = f[x] + Total(s \ {x})
      <4>1. f[x] \in Int OBVIOUS
      <4>2. PICK k : k = Total(r \ {x}) OBVIOUS
      <4>3. k \in Int
        <5>1. Good(r \ {x}) BY <2>1, <3>1, <3>2
        <5> QED BY <4>2, <5>1 DEF Good
      <4>4. Total(r) = f[x] + k BY <3>2, <3>4, <3>6, <4>2 DEF Good
      <4>5. Total(s \ {x}) = f[a] + k
        <5>1. Good(s \ {x}) BY <2>1, <3>6
        <5>2. (s \ {x}) \ {a} = r \ {x} BY <3>2
        <5> QED BY <3>1, <3>6, <4>2, <5>1, <5>2 DEF Good
      <4> QED BY ONLY <3>3, <4>1, <4>3, <4>4, <4>5
    <3>7. \A x \in s : Total(s) = f[x] + Total(s \ {x}) BY <3>2, <3>3, <3>6
    <3>8. Total(s) \in Int BY ONLY <3>3, <3>5
    <3>9. Good(s) BY ONLY <3>7, <3>8 DEF Good
    <3> QED BY <3>9
  <2> QED BY <2>3, <2>4
<1>2. SUBSET S \subseteq G
  <2> HIDE DEF G
  <2> QED BY <1>1, SubsetInduction
<1>3. Good(S) BY <1>2
<1> QED BY <1>3

LEMMA SumEmpty == ASSUME NEW f PROVE SumFunctionOnSet(f, {}) = 0
BY SumUnfolds, FS_EmptySet

\* A member more.
LEMMA SumAdds ==
  ASSUME NEW f, NEW S, IsFiniteSet(S), NEW x, x \notin S, \A y \in S \cup {x} : f[y] \in Int
  PROVE  SumFunctionOnSet(f, S \cup {x}) = f[x] + SumFunctionOnSet(f, S)
<1>1. IsFiniteSet(S \cup {x}) /\ (S \cup {x}) \ {x} = S BY FS_AddElement
<1> HIDE DEF SumFunctionOnSet
<1> QED BY <1>1, SumTakesOut

\* Fewer members with smaller values have a smaller sum; k and q are rates.
LEMMA SumBound ==
  ASSUME NEW f, NEW g, NEW T, IsFiniteSet(T), NEW S \in SUBSET T, NEW k \in Nat, NEW q \in Nat,
         \A x \in T : g[x] \in Nat,
         \A x \in S : f[x] \in Nat /\ k * f[x] <= q * g[x]
  PROVE  /\ SumFunctionOnSet(f, S) \in Nat /\ SumFunctionOnSet(g, T) \in Nat
         /\ k * SumFunctionOnSet(f, S) <= q * SumFunctionOnSet(g, T)
<1> DEFINE F(s) == SumFunctionOnSet(f, s)
           H(s) == SumFunctionOnSet(g, s)
           Good(t) == F(S \cap t) \in Nat /\ H(t) \in Nat /\ k * F(S \cap t) <= q * H(t)
           G == {t \in SUBSET T : Good(t)}
<1>1. ASSUME NEW t \in SUBSET T, \A r \in SUBSET t : r # t => r \in G
      PROVE  t \in G
  <2>1. ASSUME NEW r \in SUBSET t, r # t PROVE Good(r) BY <1>1, <2>1
  <2>2. /\ \A x \in t : H(t) = g[x] + H(t \ {x})
        /\ \A x \in S \cap t : F(S \cap t) = f[x] + F((S \cap t) \ {x})
    <3>1. IsFiniteSet(t) /\ IsFiniteSet(S \cap t) BY FS_Subset
    <3>2. (\A x \in t : g[x] \in Int) /\ (\A x \in S \cap t : f[x] \in Int) OBVIOUS
    <3>3. \A x \in t : H(t) = g[x] + H(t \ {x}) BY ONLY <3>1, <3>2, SumTakesOut
    <3>4. PICK u : u = S \cap t OBVIOUS
    <3>5. \A x \in u : F(u) = f[x] + F(u \ {x}) BY ONLY <3>1, <3>2, <3>4, SumTakesOut
    <3> QED BY <3>3, <3>4, <3>5
  <2>3. F({}) = 0 /\ H({}) = 0 BY SumEmpty
  <2> HIDE DEF F, H
  <2>4. CASE t = {}
    <3>1. S \cap t = {} BY <2>4
    <3> QED BY <2>3, <2>4, <3>1
  <2>5. ASSUME NEW x \in t PROVE Good(t)
    <3>1. PICK a : a = F(S \cap (t \ {x})) OBVIOUS
    <3>2. PICK b : b = H(t \ {x}) OBVIOUS
    <3>3. a \in Nat /\ b \in Nat /\ k * a <= q * b /\ H(t) = g[x] + b /\ g[x] \in Nat
      BY <2>1, <2>2, <3>1, <3>2
    <3>4. q * (g[x] + b) = q * g[x] + q * b /\ q * g[x] \in Nat /\ q * b \in Nat BY <3>3
    <3>5. CASE x \in S
      <4>1. (S \cap t) \ {x} = S \cap (t \ {x}) OBVIOUS
      <4>2. F(S \cap t) = f[x] + a BY <2>2, <3>1, <3>5, <4>1
      <4>3. f[x] \in Nat /\ k * f[x] <= q * g[x] BY <3>5
      <4>4. k * (f[x] + a) = k * f[x] + k * a /\ k * f[x] \in Nat /\ k * a \in Nat BY <3>3, <4>3
      <4> HIDE DEF Good
      <4>5. k * F(S \cap t) <= q * H(t) BY ONLY <3>3, <3>4, <4>2, <4>3, <4>4
      <4>6. F(S \cap t) \in Nat /\ H(t) \in Nat BY <3>3, <4>2, <4>3
      <4> QED BY <4>5, <4>6 DEF Good
    <3>6. CASE x \notin S
      <4>1. S \cap t = S \cap (t \ {x}) BY <3>6
      <4>2. F(S \cap t) = a BY <3>1, <4>1
      <4>3. k * a \in Nat BY <3>3
      <4>4. k * F(S \cap t) <= q * H(t) BY ONLY <3>3, <3>4, <4>2, <4>3
      <4>5. F(S \cap t) \in Nat /\ H(t) \in Nat BY <3>3, <4>2
      <4> QED BY <4>4, <4>5
    <3> QED BY <3>5, <3>6
  <2> HIDE DEF Good
  <2>6. Good(t) BY <2>4, <2>5 DEF Good
  <2> QED BY <2>6
<1>2. SUBSET T \subseteq G
  <2> HIDE DEF G
  <2> QED BY <1>1, SubsetInduction
<1>3. Good(T) BY <1>2
<1>4. S \cap T = S OBVIOUS
<1> QED BY <1>3, <1>4
\* Equal values have equal sums.
LEMMA SumsOfEquals ==
  ASSUME NEW f, NEW g, NEW S, IsFiniteSet(S), \A x \in S : f[x] \in Nat /\ g[x] = f[x]
  PROVE  SumFunctionOnSet(f, S) \in Nat /\ SumFunctionOnSet(g, S) = SumFunctionOnSet(f, S)
<1>1. /\ 1 \in Nat /\ S \in SUBSET S
      /\ \A x \in S : f[x] \in Nat /\ g[x] \in Nat /\ 1 * g[x] <= 1 * f[x] /\ 1 * f[x] <= 1 * g[x]
  OBVIOUS
<1>2. /\ SumFunctionOnSet(g, S) \in Nat /\ SumFunctionOnSet(f, S) \in Nat
      /\ 1 * SumFunctionOnSet(g, S) <= 1 * SumFunctionOnSet(f, S)
  BY ONLY IsFiniteSet(S), <1>1, SumBound
<1>3. 1 * SumFunctionOnSet(f, S) <= 1 * SumFunctionOnSet(g, S)
  BY ONLY IsFiniteSet(S), <1>1, SumBound
<1> QED BY ONLY <1>2, <1>3

\* The members of a set within another and the rest of it.
SplitBy(S, H, A, B) == A = S \cap H /\ B = S \ H

LEMMA SumSplits ==
  ASSUME NEW f, NEW S, IsFiniteSet(S), \A x \in S : f[x] \in Nat,
         NEW H, NEW A, NEW B, SplitBy(S, H, A, B)
  PROVE  /\ SumFunctionOnSet(f, A) \in Nat /\ SumFunctionOnSet(f, B) \in Nat
         /\ SumFunctionOnSet(f, S) = SumFunctionOnSet(f, A) + SumFunctionOnSet(f, B)
<1> DEFINE F(s) == SumFunctionOnSet(f, s)
           Good(t) == F(t \cap H) \in Nat /\ F(t \ H) \in Nat /\ F(t) = F(t \cap H) + F(t \ H)
           G == {t \in SUBSET S : Good(t)}
<1>1. ASSUME NEW t \in SUBSET S, \A r \in SUBSET t : r # t => r \in G
      PROVE  t \in G
  <2>1. ASSUME NEW r \in SUBSET t, r # t PROVE Good(r) BY <1>1, <2>1
  <2>2. ASSUME NEW s \in SUBSET t PROVE \A x \in s : F(s) = f[x] + F(s \ {x})
    <3>1. IsFiniteSet(s) /\ \A x \in s : f[x] \in Int BY FS_Subset
    <3> QED BY ONLY <3>1, SumTakesOut
  <2>3. F({}) = 0 BY SumEmpty
  <2> HIDE DEF F
  <2>4. CASE t = {} BY <2>3, <2>4
  <2>5. ASSUME NEW x \in t PROVE Good(t)
    <3>1. PICK r : r = t \ {x} OBVIOUS
    <3>2. F(r \cap H) \in Nat /\ F(r \ H) \in Nat /\ F(r) = F(r \cap H) + F(r \ H) BY <2>1, <3>1
    <3>3. F(t) = f[x] + F(r) /\ f[x] \in Nat BY <2>2, <3>1
    <3>4. CASE x \in H
      <4>1. (t \cap H) \ {x} = r \cap H /\ t \ H = r \ H BY <3>1, <3>4
      <4>2. F(t \cap H) = f[x] + F(r \cap H)
        <5>1. t \cap H \in SUBSET t /\ x \in t \cap H BY <3>4
        <5> QED BY ONLY <2>2, <4>1, <5>1
      <4>3. F(t \ H) = F(r \ H) BY <4>1
      <4> QED BY <3>2, <3>3, <4>2, <4>3
    <3>5. CASE x \notin H
      <4>1. (t \ H) \ {x} = r \ H /\ t \cap H = r \cap H BY <3>1, <3>5
      <4>2. F(t \ H) = f[x] + F(r \ H)
        <5>1. t \ H \in SUBSET t /\ x \in t \ H BY <3>5
        <5> QED BY ONLY <2>2, <4>1, <5>1
      <4>3. F(t \cap H) = F(r \cap H) BY <4>1
      <4> QED BY <3>2, <3>3, <4>2, <4>3
    <3> QED BY <3>4, <3>5
  <2> HIDE DEF Good
  <2>6. Good(t) BY <2>4, <2>5 DEF Good
  <2> QED BY <2>6
<1>2. SUBSET S \subseteq G
  <2> HIDE DEF G
  <2> QED BY <1>1, SubsetInduction
<1>3. Good(S) BY <1>2
<1>4. A = S \cap H /\ B = S \ H BY DEF SplitBy
<1> QED BY <1>3, <1>4
-----------------------------------------------------------------------------
(* Facts about the arithmetic.                                              *)

LEMMA ProductGrows ==
  ASSUME NEW a \in Nat, NEW b \in Nat, NEW r \in Nat, a <= b
  PROVE  a * r <= b * r
<1>1. PICK d \in Nat : b = a + d
  <2>1. b - a \in Nat /\ b = a + (b - a) OBVIOUS
  <2> QED BY <2>1
<1>2. b * r = a * r + d * r BY <1>1
<1>3. d * r \in Nat /\ a * r \in Nat OBVIOUS
<1> QED BY <1>2, <1>3

\* Rounding down to whole steps of d leaves less than a step.
LEMMA WholeSteps ==
  ASSUME NEW x \in Nat, NEW d \in Nat \ {0}
  PROVE  /\ x \div d \in Nat
         /\ (x \div d) * d <= x
         /\ x < (x \div d) * d + d
<1>1. x \div d \in Nat OBVIOUS
<1>2. x = d * (x \div d) + (x % d) /\ x % d \in 0..(d - 1) OBVIOUS
<1> QED BY <1>1, <1>2

LEMMA StepsAreWhole ==
  ASSUME NEW k \in Nat, NEW s \in Nat \ {0}
  PROVE  (k * s) % s = 0
OBVIOUS

\* What a profile may use lies within the equity.
LEMMA WithinEquity ==
  ASSUME NEW q \in Nat, NEW a \in AllocationType, NEW pnl \in Int
  PROVE  /\ BaseOf(q, a, pnl) \in Nat /\ BaseOf(q, a, pnl) <= q
         /\ Authorized(q, a, pnl) \in Nat /\ Authorized(q, a, pnl) <= q
<1>1. /\ a.value \in Nat /\ a.compounds \in BOOLEAN
      /\ a.mode \in {"full_account", "fixed_amount", "equity_percentage"}
  BY DEF AllocationType
<1>2. (q * a.value) \div 100 \in Int BY <1>1
<1>3. Granted(q, a) \in Int BY <1>1, <1>2 DEF Granted
<1>4. Authorized(q, a, pnl) \in Nat /\ Authorized(q, a, pnl) <= q
  BY <1>1, <1>3 DEF Authorized, Capped
<1> QED BY <1>4 DEF BaseOf

LEMMA BudgetsAreNat ==
  ASSUME NEW q \in Nat, NEW a \in AllocationType, NEW pnl \in Int
  PROVE  RiskBudget(q, a) \in Nat /\ MarginBudget(q, a, pnl) \in Nat
<1>1. MarginRate \in Nat /\ TotalRate \in Nat
  <2>1. MarginRate \in 0..1000 /\ TotalRate \in 0..1000 BY RatesAreThousandths
  <2> QED BY ONLY <2>1
<1>2. PICK x \in Nat, y \in Nat : x = Authorized(q, a, pnl) /\ y = Authorized(q, a, 0)
  <2>1. 0 \in Int OBVIOUS
  <2> QED BY <2>1, WithinEquity
<1>3. x * MarginRate \in Nat /\ y * TotalRate \in Nat BY <1>1
<1>4. (x * MarginRate) \div 1000 \in Nat /\ (y * TotalRate) \div 1000 \in Nat
  BY ONLY <1>3, WholeSteps
<1> QED BY <1>2, <1>4 DEF RiskBudget, MarginBudget

\* calculate_broker_position_size rounds down to the largest number of steps.
LEMMA LotsAreLargest ==
  ASSUME NEW base \in Nat, NEW unit \in Nat \ {0}, NEW lots, lots = LotsFor(base, unit)
  PROVE  /\ lots \in Nat /\ lots % Step = 0
         /\ (lots * unit) * 1000 <= base * Rate
         /\ base * Rate < (lots + Step) * unit * 1000
<1> DEFINE d == 1000 * unit * Step
           k == (base * Rate) \div d
<1>1. Rate \in Nat /\ Step \in Nat \ {0} BY RatesAreThousandths, SizesArePositive
<1>2. base * Rate \in Nat /\ d \in Nat \ {0} BY <1>1
<1>3. k \in Nat /\ k * d <= base * Rate /\ base * Rate < k * d + d
  <2> HIDE DEF d
  <2> QED BY <1>2, WholeSteps
<1>4. lots = k * Step BY DEF LotsFor
<1> HIDE DEF k
<1>5. lots \in Nat /\ lots % Step = 0 BY <1>1, <1>3, <1>4, StepsAreWhole
<1>6. (lots * unit) * 1000 = k * d BY <1>1, <1>3, <1>4
<1>7. (lots + Step) * unit * 1000 = k * d + d BY <1>1, <1>3, <1>4
<1> QED BY <1>3, <1>5, <1>6, <1>7
-----------------------------------------------------------------------------
(* The invariant.  An entry that was reviewed has the largest size for the  *)
(* base it read, and from the last quote on it loses no more than the rate  *)
(* of the equity read before; the two hold for whatever the owner has made  *)
(* of the profile since, because the entry keeps what it read.              *)

Fields(f) == f = [at |-> f.at, ctx |-> f.ctx, base |-> f.base, room |-> f.room, lots |-> f.lots,
                  risk |-> f.risk, unit |-> f.unit, equity |-> f.equity, loss |-> f.loss,
                  budget |-> f.budget]

\* The stages of an entry with a size.
Priced == {"reviewed", "checking", "quoting", "reading", "sent"}

Sized(f) ==
  /\ f.at \in Stages
  /\ f.ctx \in AllocationType
  /\ {f.base, f.room, f.lots, f.risk, f.unit, f.equity, f.loss, f.budget} \subseteq Nat
  /\ f.at \in Priced => f.risk > 0
  /\ f.at = "reviewed" => /\ f.lots % Step = 0
                          /\ f.risk * 1000 <= f.base * Rate
                          /\ f.base * Rate < (f.lots + Step) * f.unit * 1000
  /\ f.at \in {"reading", "sent"} => f.loss * 1000 <= f.equity * Rate

SizingInv ==
  /\ alloc \in [Profiles -> AllocationType]
  /\ DOMAIN entry = Entries /\ entry = [e \in Entries |-> entry[e]]
  /\ \A e \in Entries : Fields(entry[e]) /\ Sized(entry[e])

LEMMA FieldsOfRecord ==
  ASSUME NEW at, NEW ctx, NEW base, NEW room, NEW lots, NEW risk, NEW unit, NEW equity, NEW loss,
         NEW budget, NEW f,
         f = [at |-> at, ctx |-> ctx, base |-> base, room |-> room, lots |-> lots, risk |-> risk,
              unit |-> unit, equity |-> equity, loss |-> loss, budget |-> budget]
  PROVE  /\ f.at = at /\ f.ctx = ctx /\ f.base = base /\ f.room = room /\ f.lots = lots
         /\ f.risk = risk /\ f.unit = unit /\ f.equity = equity /\ f.loss = loss
         /\ f.budget = budget /\ Fields(f)
<1>1. /\ f.at = at /\ f.ctx = ctx /\ f.base = base /\ f.room = room /\ f.lots = lots
      /\ f.risk = risk /\ f.unit = unit /\ f.equity = equity /\ f.loss = loss
      /\ f.budget = budget
  OBVIOUS
<1>2. Fields(f) BY <1>1 DEF Fields
<1> QED BY <1>1, <1>2

LEMMA MoveKeeps ==
  ASSUME SizingInv, NEW e \in Entries, NEW new, Fields(new) /\ Sized(new),
         entry' = [entry EXCEPT ![e] = new], UNCHANGED alloc
  PROVE  SizingInv'
<1>1. /\ DOMAIN entry' = Entries /\ entry' = [f \in Entries |-> entry'[f]]
      /\ entry'[e] = new /\ \A f \in Entries \ {e} : entry'[f] = entry[f]
  BY DEF SizingInv
<1> QED BY <1>1 DEF SizingInv, Fields, Sized

\* The allocations stay allocations whatever the owner saves.
LEMMA OwnerKeeps ==
  ASSUME SizingInv, ProfileStep, UNCHANGED entry
  PROVE  SizingInv'
<1>1. alloc' \in [Profiles -> AllocationType]
  <2>1. Allocations \subseteq AllocationType /\ Default \in AllocationType BY AllocationsAreValid
  <2>2. PICK p \in Profiles : CreateProfile(p) \/ UpdateProfileV2(p) \/ UpdateProfile(p) \/ DeleteProfile(p)
    BY DEF ProfileStep
  <2>3. \E a \in AllocationType : alloc' = alloc \/ alloc' = [alloc EXCEPT ![p] = a]
    BY <2>1, <2>2 DEF CreateProfile, UpdateProfileV2, UpdateProfile, DeleteProfile
  <2> QED BY <2>3 DEF SizingInv
<1> QED BY <1>1 DEF SizingInv, Fields, Sized

LEMMA ProfileOfEntry ==
  ASSUME SizingInv, NEW e \in Entries
  PROVE  alloc[OwnerOf[e]] \in AllocationType
BY EntriesHaveOwners DEF SizingInv

\* In every state only finitely many entries have passed their last check.
AllPassed == {e \in Entries : Passed(e)}
HeldInv ==
  /\ DOMAIN entry = Entries
  /\ record \in [Entries -> {"none", "held", "pending", "unknown"}]
  /\ IsFiniteSet(AllPassed)

\* A step of an entry leaves the others alone.
LEMMA StepsAlone ==
  ASSUME NEW e \in Entries, EntryStep(e)
  PROVE  /\ entry' = entry \/ \E new : entry' = [entry EXCEPT ![e] = new]
         /\ record' = record \/ \E as \in {"held", "pending", "unknown"} :
                                  record' = [record EXCEPT ![e] = as]
BY DEF EntryStep, BeginSnapshot, Snapshot, SnapshotFails, Review, ReviewRejects, Submit,
       CheckAccount, CheckRisk, CheckBudget, SubmitRejects, EndsAt, Moves, Record, Found,
       ExecutionResult, Broker

LEMMA HeldNext ==
  ASSUME HeldInv, [Next]_vars
  PROVE  HeldInv'
<1>1. CASE UNCHANGED <<entry, record>> BY <1>1 DEF HeldInv, AllPassed, Passed
<1>2. ASSUME NEW e \in Entries, EntryStep(e) PROVE HeldInv'
  <2>1. /\ DOMAIN entry' = Entries
        /\ \A f \in Entries \ {e} : entry'[f] = entry[f] /\ record'[f] = record[f]
        /\ record' \in [Entries -> {"none", "held", "pending", "unknown"}]
    <3>1. DOMAIN entry' = Entries /\ \A f \in Entries \ {e} : entry'[f] = entry[f]
      BY <1>2, StepsAlone DEF HeldInv
    <3>2. /\ \A f \in Entries \ {e} : record'[f] = record[f]
          /\ record' \in [Entries -> {"none", "held", "pending", "unknown"}]
      BY <1>2, StepsAlone DEF HeldInv
    <3> QED BY <3>1, <3>2
  <2>2. AllPassed' \subseteq AllPassed \cup {e} BY <2>1 DEF AllPassed, Passed
  <2>3. IsFiniteSet(AllPassed \cup {e}) BY FS_AddElement DEF HeldInv
  <2>4. IsFiniteSet(AllPassed') BY ONLY <2>2, <2>3, FS_Subset
  <2> QED BY <2>1, <2>4 DEF HeldInv
<1> QED BY <1>1, <1>2 DEF Next

THEOREM HeldHolds == Spec => []HeldInv
<1>1. Init => HeldInv
  <2> SUFFICES ASSUME Init PROVE HeldInv OBVIOUS
  <2>1. PICK new : new = NoEntry OBVIOUS
  <2>2. new.at = "none" BY ONLY <2>1 DEF NoEntry
  <2>3. /\ entry = [e \in Entries |-> new] /\ record = [e \in Entries |-> "none"]
        /\ AllPassed = {}
    BY <2>1, <2>2 DEF Init, AllPassed, Passed
  <2>4. IsFiniteSet(AllPassed) BY <2>3, FS_EmptySet
  <2> QED BY <2>3, <2>4 DEF HeldInv
<1> QED BY <1>1, HeldNext, PTL DEF Spec

\* What the held entries of a profile were sized for.
LEMMA HeldIsTyped ==
  ASSUME SizingInv, HeldInv, NEW p
  PROVE  /\ IsFiniteSet(HeldBy(p)) /\ OwnedRisk(p) \in Nat /\ OwnedMargin(p) \in Nat
         /\ \A S \in SUBSET HeldBy(p) : RiskOf(S) \in Nat /\ RiskOf(S) <= OwnedRisk(p)
<1> DEFINE f == [e \in Entries |-> entry[e].risk]
           g == [e \in Entries |-> entry[e].lots]
           H == HeldBy(p)
<1>1. IsFiniteSet(H) /\ H \subseteq Entries
  BY FS_Subset DEF HeldBy, HeldInv, AllPassed, Passed
<1>2. \A e \in H : f[e] \in Nat /\ g[e] \in Nat BY <1>1 DEF SizingInv, Sized
<1>3. OwnedRisk(p) = SumFunctionOnSet(f, H) /\ OwnedMargin(p) = MarginOfLot * SumFunctionOnSet(g, H)
  BY DEF OwnedRisk, OwnedMargin, RiskOf
<1>4. \A S : RiskOf(S) = SumFunctionOnSet(f, S) BY DEF RiskOf
<1> HIDE DEF f, g, H
<1>5. ASSUME NEW S \in SUBSET H
      PROVE  /\ SumFunctionOnSet(f, S) \in Nat /\ SumFunctionOnSet(f, H) \in Nat
             /\ 1 * SumFunctionOnSet(f, S) <= 1 * SumFunctionOnSet(f, H)
  <2>1. /\ 1 \in Nat /\ \A e \in H : f[e] \in Nat
        /\ \A e \in S : f[e] \in Nat /\ 1 * f[e] <= 1 * f[e]
    BY <1>2
  <2> QED BY ONLY <1>1, <1>5, <2>1, SumBound
<1>6. SumFunctionOnSet(g, H) \in Nat
  <2>1. /\ 1 \in Nat /\ H \in SUBSET H /\ \A e \in H : g[e] \in Nat
        /\ \A e \in H : g[e] \in Nat /\ 1 * g[e] <= 1 * g[e]
    BY <1>2
  <2> QED BY ONLY <1>1, <2>1, SumBound
<1>7. OwnedRisk(p) \in Nat
  <2>1. H \in SUBSET H OBVIOUS
  <2> QED BY ONLY <1>3, <1>5, <2>1
<1>8. OwnedMargin(p) \in Nat
  <2>1. MarginOfLot \in Nat BY SizesArePositive
  <2> QED BY ONLY <1>3, <1>6, <2>1
<1>9. ASSUME NEW S \in SUBSET H PROVE RiskOf(S) \in Nat /\ RiskOf(S) <= OwnedRisk(p)
  BY ONLY <1>3, <1>4, <1>5, <1>9
<1> QED BY <1>1, <1>7, <1>8, <1>9 DEF H

LEMMA SnapshotKeeps ==
  ASSUME SizingInv, HeldInv, NEW e \in Entries, BeginSnapshot(e) \/ Snapshot(e)
  PROVE  SizingInv'
<1>1. CASE BeginSnapshot(e)
  <2>1. PICK a \in AllocationType : a = alloc[OwnerOf[e]] BY ProfileOfEntry
  <2>2. PICK new : new = [NoEntry EXCEPT !.at = "snapping", !.ctx = a] OBVIOUS
  <2>3. new = [at |-> "snapping", ctx |-> a, base |-> 0, room |-> 0, lots |-> 0, risk |-> 0,
               unit |-> 0, equity |-> 0, loss |-> 0, budget |-> 0]
    BY ONLY <2>2 DEF NoEntry
  <2>4. Fields(new) /\ Sized(new)
    BY ONLY <2>1, <2>3, FieldsOfRecord DEF Sized, Stages, Priced
  <2>5. entry' = [entry EXCEPT ![e] = new] /\ UNCHANGED alloc
    BY <1>1, <2>1, <2>2 DEF BeginSnapshot, Moves
  <2> QED BY <2>4, <2>5, MoveKeeps
<1>2. CASE Snapshot(e)
  <2>1. PICK f : f = entry[e] OBVIOUS
  <2>2. Fields(f) /\ Sized(f) /\ f.at = "snapping" BY <1>2, <2>1 DEF SizingInv, Snapshot
  <2>3. PICK q \in Equities, pnl \in Profits :
          entry' = [entry EXCEPT ![e] = [f EXCEPT !.at = "snapped", !.base = BaseOf(q, f.ctx, pnl),
                      !.room = Left(MarginBudget(q, f.ctx, pnl), OwnedMargin(OwnerOf[e]))]]
    BY <1>2, <2>1 DEF Snapshot, Moves
  <2> DEFINE room == Left(MarginBudget(q, f.ctx, pnl), OwnedMargin(OwnerOf[e]))
  <2>9. room \in Nat
    <3>1. f.ctx \in AllocationType /\ q \in Nat /\ pnl \in Int
      BY <2>2, EquitiesAreAmounts, SizesArePositive DEF Sized
    <3>2. MarginBudget(q, f.ctx, pnl) \in Nat BY ONLY <3>1, BudgetsAreNat
    <3>3. OwnedMargin(OwnerOf[e]) \in Nat BY HeldIsTyped
    <3> QED BY <3>2, <3>3 DEF Left
  <2> HIDE DEF room
  <2>4. PICK base \in Nat : base = BaseOf(q, f.ctx, pnl)
    BY <2>2, WithinEquity, EquitiesAreAmounts, SizesArePositive DEF Sized
  <2>5. PICK new : new = [f EXCEPT !.at = "snapped", !.base = base, !.room = room] OBVIOUS
  <2>6. new = [at |-> "snapped", ctx |-> f.ctx, base |-> base, room |-> room, lots |-> f.lots,
               risk |-> f.risk, unit |-> f.unit, equity |-> f.equity, loss |-> f.loss,
               budget |-> f.budget]
    BY ONLY <2>2, <2>5 DEF Fields
  <2>7. Fields(new) /\ Sized(new)
    BY ONLY <2>2, <2>4, <2>6, <2>9, FieldsOfRecord DEF Sized, Stages, Priced
  <2>8. entry' = [entry EXCEPT ![e] = new] /\ UNCHANGED alloc
    BY <1>2, <2>3, <2>4, <2>5 DEF Snapshot, Moves, room
  <2> QED BY <2>7, <2>8, MoveKeeps
<1> QED BY <1>1, <1>2

LEMMA ReviewKeeps ==
  ASSUME SizingInv, NEW e \in Entries, Review(e)
  PROVE  SizingInv'
<1>1. PICK f : f = entry[e] OBVIOUS
<1>2. Fields(f) /\ Sized(f) /\ f.at = "snapped" /\ UNCHANGED alloc
  BY <1>1 DEF SizingInv, Review, Moves
<1>3. PICK unit \in Units :
        /\ MinLots <= LotsFor(f.base, unit)
        /\ entry' = [entry EXCEPT ![e] = [f EXCEPT !.at = "reviewed", !.lots = LotsFor(f.base, unit),
                                                !.unit = unit, !.risk = LotsFor(f.base, unit) * unit]]
  BY <1>1 DEF Review, Moves
<1>4. PICK lots : lots = LotsFor(f.base, unit) OBVIOUS
<1>5. /\ unit \in Nat \ {0} /\ f.base \in Nat
      /\ lots \in Nat /\ lots % Step = 0
      /\ (lots * unit) * 1000 <= f.base * Rate
      /\ f.base * Rate < (lots + Step) * unit * 1000
  <2>1. unit \in Nat \ {0} /\ f.base \in Nat BY <1>2, SizesArePositive DEF Sized
  <2> QED BY ONLY <1>4, <2>1, LotsAreLargest
<1>6. PICK risk \in Nat : risk = lots * unit /\ risk > 0
  <2>1. lots > 0 BY <1>3, <1>4, <1>5, SizesArePositive
  <2> QED BY ONLY <1>5, <2>1
<1>7. PICK new : new = [f EXCEPT !.at = "reviewed", !.lots = lots, !.unit = unit, !.risk = risk]
  OBVIOUS
<1>8. new = [at |-> "reviewed", ctx |-> f.ctx, base |-> f.base, room |-> f.room, lots |-> lots,
             risk |-> risk, unit |-> unit, equity |-> f.equity, loss |-> f.loss, budget |-> f.budget]
  BY ONLY <1>2, <1>7 DEF Fields
<1>9. /\ Fields(new) /\ new.at = "reviewed" /\ new.ctx = f.ctx /\ new.base = f.base
      /\ new.room = f.room
      /\ new.lots = lots /\ new.risk = risk /\ new.unit = unit /\ new.equity = f.equity
      /\ new.loss = f.loss /\ new.budget = f.budget
  BY ONLY <1>8, FieldsOfRecord
<1>10. Sized(new) BY <1>2, <1>5, <1>6, <1>9 DEF Sized, Stages, Priced
<1>11. entry' = [entry EXCEPT ![e] = new] BY <1>3, <1>4, <1>6, <1>7
<1> QED BY <1>2, <1>9, <1>10, <1>11, MoveKeeps

LEMMA SubmitKeeps ==
  ASSUME SizingInv, NEW e \in Entries, Submit(e) \/ CheckAccount(e)
  PROVE  SizingInv'
<1>1. PICK f : f = entry[e] OBVIOUS
<1>2. Fields(f) /\ Sized(f) BY <1>1 DEF SizingInv
<1>3. CASE Submit(e)
  <2>1. PICK a \in AllocationType : a = alloc[OwnerOf[e]] BY ProfileOfEntry
  <2>2. PICK new : new = [NoEntry EXCEPT !.at = "checking", !.ctx = a, !.lots = f.lots, !.risk = f.risk]
    OBVIOUS
  <2>3. new = [at |-> "checking", ctx |-> a, base |-> 0, room |-> 0, lots |-> f.lots, risk |-> f.risk,
               unit |-> 0, equity |-> 0, loss |-> 0, budget |-> 0]
    BY ONLY <2>2 DEF NoEntry
  <2>4. Fields(new) /\ Sized(new)
    <3>1. f.at = "reviewed" BY <1>1, <1>3 DEF Submit
    <3> QED BY ONLY <1>2, <2>1, <2>3, <3>1, FieldsOfRecord DEF Sized, Stages, Priced
  <2>5. entry' = [entry EXCEPT ![e] = new] /\ UNCHANGED alloc
    BY <1>1, <1>3, <2>1, <2>2 DEF Submit, Moves
  <2> QED BY <2>4, <2>5, MoveKeeps
<1>4. CASE CheckAccount(e)
  <2>1. PICK q \in Nat : entry' = [entry EXCEPT ![e] = [f EXCEPT !.at = "quoting", !.equity = q]]
    BY <1>1, <1>4, EquitiesAreAmounts DEF CheckAccount, Moves
  <2>2. PICK new : new = [f EXCEPT !.at = "quoting", !.equity = q] OBVIOUS
  <2>3. new = [at |-> "quoting", ctx |-> f.ctx, base |-> f.base, room |-> f.room, lots |-> f.lots,
               risk |-> f.risk, unit |-> f.unit, equity |-> q, loss |-> f.loss, budget |-> f.budget]
    BY ONLY <1>2, <2>2 DEF Fields
  <2>4. Fields(new) /\ Sized(new)
    <3>1. f.at = "checking" /\ q \in Nat BY <1>1, <1>4 DEF CheckAccount
    <3> QED BY ONLY <1>2, <2>3, <3>1, FieldsOfRecord DEF Sized, Stages, Priced
  <2>5. entry' = [entry EXCEPT ![e] = new] /\ UNCHANGED alloc
    BY <1>4, <2>1, <2>2 DEF CheckAccount, Moves
  <2> QED BY <2>4, <2>5, MoveKeeps
<1> QED BY <1>3, <1>4

\* The check of the loss against the base bounds it by the equity.
LEMMA RiskKeeps ==
  ASSUME SizingInv, NEW e \in Entries, CheckRisk(e)
  PROVE  SizingInv'
<1>1. PICK f : f = entry[e] OBVIOUS
<1>2. Fields(f) /\ Sized(f) /\ f.at = "quoting" /\ UNCHANGED alloc
  BY <1>1 DEF SizingInv, CheckRisk, Moves
<1>3. PICK unit \in Units :
        /\ (f.lots * unit) * 1000 <= BaseOf(f.equity, f.ctx, 0) * Rate
        /\ entry' = [entry EXCEPT ![e] = [f EXCEPT !.at = "reading", !.loss = f.lots * unit]]
  BY <1>1 DEF CheckRisk, Moves
<1>4. PICK loss \in Nat : loss = f.lots * unit BY <1>2, SizesArePositive DEF Sized
<1>5. PICK base \in Nat : base = BaseOf(f.equity, f.ctx, 0) /\ base <= f.equity
  BY <1>2, WithinEquity DEF Sized
<1>6. loss * 1000 <= f.equity * Rate
  <2>1. Rate \in Nat /\ f.equity \in Nat BY <1>2, RatesAreThousandths DEF Sized
  <2>2. base * Rate <= f.equity * Rate BY <1>5, <2>1, ProductGrows
  <2>3. base * Rate \in Nat /\ f.equity * Rate \in Nat /\ loss * 1000 \in Nat BY <2>1
  <2>4. loss * 1000 <= base * Rate BY <1>3, <1>4, <1>5
  <2> QED BY <2>2, <2>3, <2>4
<1>7. PICK new : new = [f EXCEPT !.at = "reading", !.loss = loss] OBVIOUS
<1>8. new = [at |-> "reading", ctx |-> f.ctx, base |-> f.base, room |-> f.room, lots |-> f.lots,
             risk |-> f.risk, unit |-> f.unit, equity |-> f.equity, loss |-> loss, budget |-> f.budget]
  BY ONLY <1>2, <1>7 DEF Fields
<1>9. /\ Fields(new) /\ new.at = "reading" /\ new.ctx = f.ctx /\ new.base = f.base
      /\ new.room = f.room
      /\ new.lots = f.lots /\ new.risk = f.risk /\ new.unit = f.unit /\ new.equity = f.equity
      /\ new.loss = loss /\ new.budget = f.budget
  BY ONLY <1>8, FieldsOfRecord
<1>10. Sized(new) BY <1>2, <1>6, <1>9 DEF Sized, Stages, Priced
<1>11. entry' = [entry EXCEPT ![e] = new] BY <1>3, <1>4, <1>7
<1> QED BY <1>2, <1>9, <1>10, <1>11, MoveKeeps

LEMMA BudgetKeeps ==
  ASSUME SizingInv, NEW e \in Entries, CheckBudget(e)
  PROVE  SizingInv'
<1>1. PICK f : f = entry[e] OBVIOUS
<1>2. Fields(f) /\ Sized(f) /\ f.at = "reading" /\ UNCHANGED alloc
  BY <1>1 DEF SizingInv, CheckBudget, Moves
<1>3. PICK budget \in Nat : entry' = [entry EXCEPT ![e] = [f EXCEPT !.at = "sent", !.budget = budget]]
  <2>1. f.equity \in Nat /\ f.ctx \in AllocationType /\ 0 \in Int BY <1>2 DEF Sized
  <2>2. RiskBudget(f.equity, f.ctx) \in Nat BY ONLY <2>1, BudgetsAreNat
  <2> QED BY <1>1, <2>2 DEF CheckBudget, Moves
<1>4. PICK new : new = [f EXCEPT !.at = "sent", !.budget = budget] OBVIOUS
<1>5. new = [at |-> "sent", ctx |-> f.ctx, base |-> f.base, room |-> f.room, lots |-> f.lots,
             risk |-> f.risk, unit |-> f.unit, equity |-> f.equity, loss |-> f.loss, budget |-> budget]
  BY ONLY <1>2, <1>4 DEF Fields
<1>6. /\ Fields(new) /\ new.at = "sent" /\ new.ctx = f.ctx /\ new.base = f.base
      /\ new.room = f.room
      /\ new.lots = f.lots /\ new.risk = f.risk /\ new.unit = f.unit /\ new.equity = f.equity
      /\ new.loss = f.loss /\ new.budget = budget
  BY ONLY <1>5, FieldsOfRecord
<1>7. Sized(new) BY <1>2, <1>6 DEF Sized, Stages, Priced
<1> QED BY <1>2, <1>3, <1>4, <1>6, <1>7, MoveKeeps

LEMMA EndKeeps ==
  ASSUME SizingInv, NEW e \in Entries,
         Record(e) \/ SnapshotFails(e) \/ ReviewRejects(e) \/ SubmitRejects(e)
  PROVE  SizingInv'
<1>1. PICK f : f = entry[e] OBVIOUS
<1>2. Fields(f) /\ Sized(f) BY <1>1 DEF SizingInv
<1>3. CASE Record(e)
  <2>1. PICK new : new = [NoEntry EXCEPT !.at = "done", !.lots = f.lots, !.risk = f.risk, !.budget = f.budget]
    OBVIOUS
  <2>2. new = [at |-> "done", ctx |-> Default, base |-> 0, room |-> 0, lots |-> f.lots, risk |-> f.risk,
               unit |-> 0, equity |-> 0, loss |-> 0, budget |-> f.budget]
    BY ONLY <2>1 DEF NoEntry
  <2>3. Default \in AllocationType BY AllocationsAreValid
  <2>4. Fields(new) /\ Sized(new)
    BY ONLY <1>2, <2>2, <2>3, FieldsOfRecord DEF Sized, Stages, Priced
  <2>5. entry' = [entry EXCEPT ![e] = new] /\ UNCHANGED alloc
    BY <1>1, <1>3, <2>1 DEF Record, Found
  <2> QED BY <2>4, <2>5, MoveKeeps
<1>4. CASE SnapshotFails(e) \/ ReviewRejects(e) \/ SubmitRejects(e)
  <2>1. PICK new : new = [NoEntry EXCEPT !.at = "done"] OBVIOUS
  <2>2. new = [at |-> "done", ctx |-> Default, base |-> 0, room |-> 0, lots |-> 0, risk |-> 0,
               unit |-> 0, equity |-> 0, loss |-> 0, budget |-> 0]
    BY ONLY <2>1 DEF NoEntry
  <2>3. Default \in AllocationType BY AllocationsAreValid
  <2>4. Fields(new) /\ Sized(new)
    BY ONLY <2>2, <2>3, FieldsOfRecord DEF Sized, Stages, Priced
  <2>5. entry' = [entry EXCEPT ![e] = new] /\ UNCHANGED alloc
    BY <1>4, <2>1 DEF SnapshotFails, ReviewRejects, SubmitRejects, EndsAt, Moves
  <2> QED BY <2>4, <2>5, MoveKeeps
<1> QED BY <1>3, <1>4

LEMMA SizingNext ==
  ASSUME SizingInv, HeldInv, [Next]_vars
  PROVE  SizingInv'
<1>1. ASSUME UNCHANGED <<entry, alloc>> PROVE SizingInv'
  BY <1>1 DEF SizingInv, Fields, Sized
<1>2. CASE ProfileStep /\ UNCHANGED <<entry, record, book, tally>>
  BY <1>2, OwnerKeeps
<1>3. ASSUME NEW e \in Entries, EntryStep(e) PROVE SizingInv'
  <2>1. CASE ExecutionResult(e) \/ Broker(e)
    BY <1>1, <2>1 DEF ExecutionResult, Broker, Found
  <2> QED
    BY <1>3, <2>1, SnapshotKeeps, ReviewKeeps, SubmitKeeps, RiskKeeps, BudgetKeeps, EndKeeps
    DEF EntryStep
<1> QED BY <1>1, <1>2, <1>3 DEF Next

\* In every reachable state an entry may lose what its own reads allow.
THEOREM SizingHolds == Spec => []SizingInv
<1>1. Init => SizingInv
  <2> SUFFICES ASSUME Init PROVE SizingInv OBVIOUS
  <2>1. PICK new : new = NoEntry OBVIOUS
  <2>2. new = [at |-> "none", ctx |-> Default, base |-> 0, room |-> 0, lots |-> 0, risk |-> 0,
               unit |-> 0, equity |-> 0, loss |-> 0, budget |-> 0]
    BY ONLY <2>1 DEF NoEntry
  <2>3. Default \in AllocationType BY AllocationsAreValid
  <2>4. Fields(new) /\ Sized(new)
    BY ONLY <2>2, <2>3, FieldsOfRecord DEF Sized, Stages, Priced
  <2>5. entry = [e \in Entries |-> new] /\ alloc = [p \in Profiles |-> Default]
    BY <2>1 DEF Init, ProfileInit
  <2> QED BY <2>3, <2>4, <2>5 DEF SizingInv
<1> QED BY <1>1, SizingNext, HeldHolds, PTL DEF Spec

\* A preview has the largest number of whole steps whose loss stays within the
\* rate of the capital it was sized on.
THEOREM SizesAreLargest == Spec => []SizeIsLargest
<1>1. SizingInv => SizeIsLargest BY DEF SizingInv, Sized, SizeIsLargest
<1> QED BY <1>1, SizingHolds, PTL

\* An order that is sent loses no more than the rate of the equity that submit
\* read, whatever the owner saved for the profile and whenever.
THEOREM LossesWithinRate == Spec => []LossWithinRate
<1>1. SizingInv => LossWithinRate BY DEF SizingInv, Sized, LossWithinRate
<1> QED BY <1>1, SizingHolds, PTL

\* What the owner, the records and the broker hold keeps its type.
LEMMA ProfileTypes ==
  ASSUME ProfileTypeOK, ProfileStep \/ UNCHANGED profiles
  PROVE  ProfileTypeOK'
<1> USE EquitiesAreAmounts, AllocationsAreValid DEF ProfileTypeOK, Edit
<1>1. CASE UNCHANGED profiles BY <1>1
<1>2. ASSUME NEW p \in Profiles, CreateProfile(p) PROVE ProfileTypeOK' BY <1>2 DEF CreateProfile
<1>3. ASSUME NEW p \in Profiles, UpdateProfileV2(p) PROVE ProfileTypeOK'
  BY <1>3 DEF UpdateProfileV2
<1>4. ASSUME NEW p \in Profiles, UpdateProfile(p) PROVE ProfileTypeOK' BY <1>4 DEF UpdateProfile
<1>5. ASSUME NEW p \in Profiles, DeleteProfile(p) PROVE ProfileTypeOK' BY <1>5 DEF DeleteProfile
<1> QED BY <1>1, <1>2, <1>3, <1>4, <1>5 DEF ProfileStep

\* No step of an entry touches the profiles.
LEMMA OwnerApart == ASSUME NEW e \in Entries, EntryStep(e) PROVE UNCHANGED profiles
BY DEF EntryStep, BeginSnapshot, Snapshot, SnapshotFails, Review, ReviewRejects, Submit,
       CheckAccount, CheckRisk, CheckBudget, SubmitRejects, EndsAt, Moves, Record, Found,
       ExecutionResult, Broker

LEMMA EntryIsTyped == ASSUME NEW f, Fields(f), Sized(f) PROVE f \in EntryType
BY DEF Fields, Sized, EntryType

LEMMA EntryTypes ==
  ASSUME TypeOK, SizingInv', HeldInv', NEW e \in Entries, EntryStep(e)
  PROVE  TypeOK'
<1>1. entry' \in [Entries -> EntryType] BY EntryIsTyped DEF SizingInv
<1>2. UNCHANGED profiles BY OwnerApart
<1>3. ProfileTypeOK' BY <1>2, ProfileTypes DEF TypeOK
<1>4. record' \in [Entries -> {"none", "held", "pending", "unknown"}] BY DEF HeldInv
<1>5. book' \in [Entries -> {"none", "pending", "open", "gone"}]
  <2>1. CASE Broker(e) BY <2>1 DEF TypeOK, Broker
  <2>2. CASE ~Broker(e)
    BY <2>2 DEF TypeOK, EntryStep, BeginSnapshot, Snapshot, SnapshotFails, Review, ReviewRejects,
         Submit, CheckAccount, CheckRisk, CheckBudget, SubmitRejects, EndsAt, Moves, Record, Found,
         ExecutionResult
  <2> QED BY <2>1, <2>2
<1>6. tally' \in [Entries -> [past : SUBSET Entries, missed : SUBSET Entries]]
  <2>1. CASE CheckBudget(e)
    <3>1. PICK S \in [past : SUBSET Entries, missed : SUBSET Entries] : tally' = [tally EXCEPT ![e] = S]
      BY <2>1 DEF CheckBudget, PassedBy
    <3> QED BY <3>1 DEF TypeOK
  <2>2. CASE ~CheckBudget(e)
    BY <2>2 DEF TypeOK, EntryStep, BeginSnapshot, Snapshot, SnapshotFails, Review, ReviewRejects,
         Submit, CheckAccount, CheckRisk, SubmitRejects, EndsAt, Moves, Record, Found,
         ExecutionResult, Broker
  <2> QED BY <2>1, <2>2
<1> QED BY <1>1, <1>3, <1>4, <1>5, <1>6 DEF TypeOK

\* Every variable keeps its type.
THEOREM TypeCorrect == Spec => []TypeOK
<1>1. Init => TypeOK
  <2> SUFFICES ASSUME Init PROVE TypeOK OBVIOUS
  <2>1. ProfileTypeOK
    <3>1. alloc \in [Profiles -> Allocations]
      BY AllocationsAreValid DEF Init, ProfileInit
    <3>2. edits \in 0..MaxEdits BY EquitiesAreAmounts DEF Init, ProfileInit
    <3> QED BY <3>1, <3>2 DEF Init, ProfileInit, ProfileTypeOK
  <2>2. NoEntry \in EntryType BY AllocationsAreValid DEF NoEntry, EntryType, Stages
  <2>3. entry \in [Entries -> EntryType] BY <2>2 DEF Init
  <2> QED BY <2>1, <2>3 DEF Init, TypeOK
<1>2. TypeOK /\ SizingInv' /\ HeldInv' /\ [Next]_vars => TypeOK'
  <2> SUFFICES ASSUME TypeOK, SizingInv', HeldInv', [Next]_vars PROVE TypeOK' OBVIOUS
  <2>1. CASE UNCHANGED vars BY <2>1 DEF TypeOK, ProfileTypeOK
  <2>2. CASE ProfileStep /\ UNCHANGED <<entry, record, book, tally>>
    BY <2>2, ProfileTypes DEF TypeOK
  <2>3. ASSUME NEW e \in Entries, EntryStep(e) PROVE TypeOK' BY <2>3, EntryTypes
  <2> QED BY <2>1, <2>2, <2>3 DEF Next
<1> QED BY <1>1, <1>2, SizingHolds, HeldHolds, PTL DEF Spec
-----------------------------------------------------------------------------
(* The capital of the profiles.  Unless a PUT enabled a profile again, the   *)
(* enabled native profiles with capital of their own have shares of at most *)
(* 100, and one with the full account is alone: each PATCH is checked       *)
(* against the others as they are, and any other step only takes one away.  *)

Sharing == {o \in rows : enabled[o] /\ native[o] /\ ~alloc[o].shared}
ShareInv ==
  ~revived => /\ SharesOf(Sharing) <= 100
              /\ \A o \in Sharing : alloc[o].mode = "full_account" => Sharing = {o}

LEMMA AllocationsAreTyped ==
  ASSUME NEW a \in Allocations
  PROVE  /\ a \in AllocationType /\ a.value \in Nat /\ a.shared \in BOOLEAN
         /\ a.mode \in {"full_account", "fixed_amount", "equity_percentage"}
         /\ ShareOf(a) \in Nat
BY AllocationsAreValid DEF AllocationType, ShareOf

\* Where profiles only leave and none is saved anew.
LEMMA SharesShrink ==
  ASSUME ProfileTypeOK, ProfileTypeOK', ShareInv, Sharing' \subseteq Sharing,
         \A o \in Sharing' : alloc'[o] = alloc[o], revived => revived'
  PROVE  ShareInv'
<1> DEFINE f == [o \in Profiles |-> ShareOf(alloc[o])]
           g == [o \in Profiles |-> ShareOf(alloc'[o])]
<1>1. IsFiniteSet(Sharing) /\ Sharing \subseteq Profiles
  BY ProfilesAreFinite, FS_Subset DEF Sharing, ProfileTypeOK
<1>2. \A o \in Sharing : f[o] \in Nat BY <1>1, AllocationsAreTyped DEF ProfileTypeOK
<1>3. \A o \in Sharing' : g[o] = f[o] BY <1>1
<1>4. SharesOf(Sharing) = SumFunctionOnSet(f, Sharing) BY DEF SharesOf
<1>5. SharesOf(Sharing)' = SumFunctionOnSet(g, Sharing') BY DEF SharesOf
<1> HIDE DEF f, g
<1>6. /\ SumFunctionOnSet(g, Sharing') \in Nat /\ SumFunctionOnSet(f, Sharing) \in Nat
      /\ 1 * SumFunctionOnSet(g, Sharing') <= 1 * SumFunctionOnSet(f, Sharing)
  <2>1. \A o \in Sharing' : g[o] \in Nat /\ 1 * g[o] <= 1 * f[o] BY <1>2, <1>3
  <2>2. Sharing' \in SUBSET Sharing /\ 1 \in Nat OBVIOUS
  <2> QED BY ONLY <1>1, <1>2, <2>1, <2>2, SumBound
<1> QED BY <1>4, <1>5, <1>6 DEF ShareInv

\* A PATCH that leaves the profile enabled, with capital of its own.
LEMMA PatchKeepsShares ==
  ASSUME ProfileTypeOK, ProfileTypeOK', ShareInv, NEW p \in rows, NEW a \in Allocations, Allowed(p, a),
         ~a.shared, alloc' = [alloc EXCEPT ![p] = a], Sharing' = Peers(p) \cup {p}
  PROVE  ShareInv'
<1> DEFINE f == [o \in Profiles |-> ShareOf(alloc[o])]
           g == [o \in Profiles |-> ShareOf(alloc'[o])]
           S == Peers(p)
<1>1. IsFiniteSet(S) /\ S \subseteq Profiles /\ p \notin S /\ p \in Profiles
  BY ProfilesAreFinite, FS_Subset DEF Peers, ProfileTypeOK
<1>2. \A o \in Profiles : f[o] \in Nat BY AllocationsAreTyped DEF ProfileTypeOK
<1>3. \A o \in S : g[o] = f[o] BY <1>1 DEF ProfileTypeOK
<1>4. g[p] = ShareOf(a) /\ g[p] \in Nat BY <1>1, AllocationsAreTyped DEF ProfileTypeOK
<1>5. ShareOf(a) + SumFunctionOnSet(f, S) <= 100 BY DEF Allowed, SharesOf
<1>6. SharesOf(Sharing)' = SumFunctionOnSet(g, S \cup {p}) BY DEF SharesOf
<1>7. \A o \in Sharing' : alloc'[o].mode = "full_account" => Sharing' = {o}
  BY <1>1 DEF Allowed, ProfileTypeOK
<1> HIDE DEF f, g, S
<1>8. SumFunctionOnSet(g, S \cup {p}) = g[p] + SumFunctionOnSet(g, S)
  <2>1. \A o \in S \cup {p} : g[o] \in Int BY <1>1, <1>2, <1>3, <1>4
  <2> QED BY ONLY <1>1, <2>1, SumAdds
<1>9. /\ SumFunctionOnSet(g, S) \in Nat /\ SumFunctionOnSet(f, S) \in Nat
      /\ 1 * SumFunctionOnSet(g, S) <= 1 * SumFunctionOnSet(f, S)
  <2>1. \A o \in S : f[o] \in Nat /\ g[o] \in Nat /\ 1 * g[o] <= 1 * f[o] BY <1>1, <1>2, <1>3
  <2>2. S \in SUBSET S /\ 1 \in Nat OBVIOUS
  <2> QED BY ONLY <1>1, <2>1, <2>2, SumBound
<1>10. g[p] + SumFunctionOnSet(g, S) <= 100 BY ONLY <1>4, <1>5, <1>9
<1> QED BY <1>6, <1>7, <1>8, <1>10 DEF ShareInv

LEMMA SharesNext ==
  ASSUME ProfileTypeOK, ShareInv, ProfileStep \/ UNCHANGED profiles
  PROVE  ShareInv'
<1>1. ProfileTypeOK' BY ProfileTypes
<1>2. CASE UNCHANGED profiles BY <1>2 DEF ShareInv, Sharing, SharesOf
<1>3. ASSUME NEW p \in Profiles, CreateProfile(p) PROVE ShareInv'
  <2>1. Sharing' \subseteq Sharing /\ p \notin Sharing'
    BY <1>3 DEF CreateProfile, Sharing, ProfileTypeOK
  <2>2. \A o \in Sharing' : alloc'[o] = alloc[o]
    BY <1>3, <2>1 DEF CreateProfile, Sharing, ProfileTypeOK
  <2> QED BY <1>1, <1>3, <2>1, <2>2, SharesShrink DEF CreateProfile
<1>4. ASSUME NEW p \in Profiles, UpdateProfileV2(p) PROVE ShareInv'
  <2>1. PICK a \in Allocations, e \in BOOLEAN :
          /\ p \in rows /\ Allowed(p, a) /\ alloc' = [alloc EXCEPT ![p] = a]
          /\ enabled' = [enabled EXCEPT ![p] = e] /\ native' = [native EXCEPT ![p] = TRUE]
          /\ UNCHANGED <<rows, revived>>
    BY <1>4 DEF UpdateProfileV2
  <2>2. CASE e /\ ~a.shared
    <3>1. Sharing' = Peers(p) \cup {p}
      BY <2>1, <2>2 DEF Sharing, Peers, ProfileTypeOK
    <3> QED BY <1>1, <2>1, <2>2, <3>1, PatchKeepsShares
  <2>3. CASE ~e \/ a.shared
    <3>1. Sharing' \subseteq Sharing \ {p}
      BY <2>1, <2>3 DEF Sharing, ProfileTypeOK
    <3>2. \A o \in Sharing' : alloc'[o] = alloc[o]
      BY <2>1, <3>1 DEF Sharing, ProfileTypeOK
    <3> QED BY <1>1, <2>1, <3>1, <3>2, SharesShrink
  <2> QED BY <2>2, <2>3
<1>5. ASSUME NEW p \in Profiles, UpdateProfile(p) PROVE ShareInv'
  <2>1. CASE revived' BY <2>1 DEF ShareInv
  <2>2. CASE ~revived'
    <3>1. Sharing' \subseteq Sharing /\ UNCHANGED alloc /\ ~revived
      BY <1>5, <2>2 DEF UpdateProfile, Sharing, ProfileTypeOK
    <3> QED BY <1>1, <3>1, SharesShrink
  <2> QED BY <2>1, <2>2
<1>6. ASSUME NEW p \in Profiles, DeleteProfile(p) PROVE ShareInv'
  <2>1. Sharing' \subseteq Sharing /\ UNCHANGED <<alloc, revived>>
    BY <1>6 DEF DeleteProfile, Sharing
  <2> QED BY <1>1, <2>1, SharesShrink
<1> QED BY <1>2, <1>3, <1>4, <1>5, <1>6 DEF ProfileStep

\* A share of an equity, rounded down, is no more than the share.
LEMMA ShareOfEquity ==
  ASSUME NEW q \in Nat, NEW a \in AllocationType
  PROVE  /\ Authorized(q, a, 0) \in Nat /\ Authorized(q, a, 0) <= q
         /\ a.mode = "equity_percentage" => 100 * Authorized(q, a, 0) <= q * ShareOf(a)
<1>1. a.value \in Nat /\ a.mode \in {"full_account", "fixed_amount", "equity_percentage"}
  BY DEF AllocationType
<1>2. Authorized(q, a, 0) = Capped(q, Granted(q, a))
  <2>1. Granted(q, a) \in Int BY <1>1 DEF Granted
  <2> QED BY <2>1 DEF Authorized
<1>3. PICK x \in Nat : x = q * a.value BY <1>1
<1>4. x \div 100 \in Nat /\ (x \div 100) * 100 <= x BY <1>3, WholeSteps
<1>5. Granted(q, a) \in Nat BY <1>1, <1>3, <1>4 DEF Granted
<1>6. /\ Capped(q, Granted(q, a)) \in Nat /\ Capped(q, Granted(q, a)) <= q
      /\ Capped(q, Granted(q, a)) <= Granted(q, a)
  BY <1>5 DEF Capped
<1>7. ASSUME a.mode = "equity_percentage" PROVE 100 * Authorized(q, a, 0) <= q * ShareOf(a)
  <2>1. Granted(q, a) = x \div 100 /\ q * ShareOf(a) = x BY <1>3, <1>7 DEF Granted, ShareOf
  <2> HIDE DEF Capped, Granted
  <2> QED BY <1>2, <1>3, <1>4, <1>5, <1>6, <2>1
<1> QED BY <1>2, <1>6, <1>7

LEMMA SharesClaim ==
  ASSUME ProfileTypeOK, ShareInv, ~revived, \A o \in rows : alloc[o].mode # "fixed_amount",
         NEW p \in rows, NEW q \in Equities, native[p], enabled[p]
  PROVE  Fits(p, q)
<1> DEFINE f == [o \in Profiles |-> ShareOf(alloc[o])]
           g == [o \in Profiles |-> Authorized(q, alloc[o], 0)]
<1>1. IsFiniteSet(Sharing) /\ Sharing \subseteq Profiles /\ Sharing \subseteq rows /\ q \in Nat
  BY ProfilesAreFinite, EquitiesAreAmounts, FS_Subset DEF Sharing, ProfileTypeOK
<1>2. Claimed(p, q) = SumFunctionOnSet(g, Sharing)
  <2>1. {o \in {p} \cap rows : enabled[o] /\ ~alloc[o].shared} \cup Peers(p) = Sharing
    BY DEF Peers, Sharing
  <2> QED BY <2>1 DEF Claimed
<1>3. ASSUME NEW o \in Sharing
      PROVE  /\ f[o] \in Nat /\ g[o] \in Nat /\ g[o] <= q
             /\ alloc[o].mode \in {"full_account", "equity_percentage"}
             /\ alloc[o].mode = "equity_percentage" => 100 * g[o] <= q * f[o]
  <2>1. PICK a \in Allocations : a = alloc[o] BY <1>1 DEF ProfileTypeOK
  <2>2. a \in AllocationType /\ ShareOf(a) \in Nat BY AllocationsAreTyped
  <2>3. f[o] = ShareOf(a) /\ g[o] = Authorized(q, a, 0) BY <1>1, <2>1
  <2>4. a.mode \in {"full_account", "equity_percentage"} BY <1>1, <2>1, AllocationsAreTyped
  <2> HIDE DEF f, g
  <2> QED BY <1>1, <2>1, <2>2, <2>3, <2>4, ShareOfEquity
<1>4. SharesOf(Sharing) = SumFunctionOnSet(f, Sharing) /\ SharesOf(Sharing) <= 100
  BY DEF SharesOf, ShareInv
<1> HIDE DEF f, g
<1>5. ASSUME NEW o \in Sharing, alloc[o].mode = "full_account" PROVE SumFunctionOnSet(g, Sharing) <= q
  <2>1. Sharing = {o} /\ Sharing \ {o} = {} BY <1>5 DEF ShareInv
  <2>2. SumFunctionOnSet(g, Sharing) = g[o] + SumFunctionOnSet(g, Sharing \ {o})
    <3>1. \A x \in Sharing : g[x] \in Int BY <1>3
    <3> QED BY ONLY <1>1, <3>1, SumTakesOut, <1>5
  <2>3. SumFunctionOnSet(g, {}) = 0 BY SumEmpty
  <2>4. SumFunctionOnSet(g, Sharing) = g[o] + 0 BY ONLY <2>1, <2>2, <2>3
  <2> QED BY <1>1, <1>3, <2>4
<1>6. ASSUME \A o \in Sharing : alloc[o].mode = "equity_percentage" PROVE SumFunctionOnSet(g, Sharing) <= q
  <2>1. PICK x : x = SumFunctionOnSet(g, Sharing) OBVIOUS
  <2>2. PICK y : y = SumFunctionOnSet(f, Sharing) OBVIOUS
  <2>3. x \in Nat /\ y \in Nat /\ 100 * x <= q * y
    <3>1. \A o \in Sharing : f[o] \in Nat /\ g[o] \in Nat /\ 100 * g[o] <= q * f[o] BY <1>3, <1>6
    <3>2. Sharing \in SUBSET Sharing /\ 100 \in Nat OBVIOUS
    <3> QED BY ONLY <1>1, <2>1, <2>2, <3>1, <3>2, SumBound
  <2>4. y * q <= 100 * q BY ONLY <1>1, <1>4, <2>2, <2>3, ProductGrows
  <2>5. x <= q BY ONLY <1>1, <2>3, <2>4
  <2> QED BY <2>1, <2>5
<1> QED BY <1>2, <1>3, <1>5, <1>6 DEF Fits

\* Until a PUT enables a profile again, the percentages of the enabled native
\* profiles with capital of their own are at most 100 together, and one with the
\* full account is alone.  (Fixed amounts and legacy profiles have no share.)
THEOREM SharesAreChecked == Spec => []ShareInv
<1>1. Init => ShareInv
  <2> SUFFICES ASSUME Init PROVE ShareInv OBVIOUS
  <2>1. Sharing = {} BY DEF Init, ProfileInit, Sharing
  <2>2. SharesOf(Sharing) = 0 BY <2>1, SumEmpty DEF SharesOf
  <2> QED BY <2>1, <2>2 DEF ShareInv
<1>2. TypeOK /\ ShareInv /\ [Next]_vars => ShareInv'
  <2> SUFFICES ASSUME TypeOK, ShareInv, [Next]_vars PROVE ShareInv' OBVIOUS
  <2>1. \A e \in Entries : EntryStep(e) => UNCHANGED profiles BY OwnerApart
  <2>2. ProfileStep \/ UNCHANGED profiles BY <2>1 DEF Next
  <2> QED BY <2>2, SharesNext DEF TypeOK
<1> QED BY <1>1, <1>2, TypeCorrect, PTL DEF Spec

\* Where besides no profile has a fixed amount, the check of an entry's account
\* refuses no enabled native profile, whatever the equity.
THEOREM SharesAlwaysFit == Spec => []SharesFit
<1>1. TypeOK /\ ShareInv => SharesFit BY SharesClaim DEF TypeOK, SharesFit
<1> QED BY <1>1, SharesAreChecked, TypeCorrect, PTL
-----------------------------------------------------------------------------
(* The open risk.  Of the orders of a profile that passed their last check,  *)
(* the one that passed it last leaves room for all it counted: the others    *)
(* are those it missed.  What an order was sized for and the budget it was   *)
(* checked against stay once it passed, so this remains true of every set of *)
(* such orders, and the open positions are one.                              *)

\* One of S was checked last: what exceeds its budget it could not count.
Overrun(risk, budget, seen, S) ==
  \E e \in S :
    /\ S \subseteq seen[e].past \cup {e}
    /\ SumFunctionOnSet(risk, S) <= budget[e] + SumFunctionOnSet(risk, S \cap seen[e].missed)

Risks == [e \in Entries |-> entry[e].risk]
Budgets == [e \in Entries |-> entry[e].budget]

RiskInv ==
  /\ \A e \in Entries : record[e] # "none" => entry[e].at = "done"
  /\ \A e \in Entries : book[e] # "none" => Passed(e)
  /\ \A p \in Profiles : \A S \in SUBSET PassedBy(p) : S # {} => Overrun(Risks, Budgets, tally, S)

LEMMA OverrunStays ==
  ASSUME NEW f, NEW g, NEW b, NEW c, NEW m, NEW n, NEW S, IsFiniteSet(S),
         \A x \in S : f[x] \in Nat /\ g[x] = f[x] /\ c[x] = b[x] /\ n[x] = m[x],
         Overrun(f, b, m, S)
  PROVE  Overrun(g, c, n, S)
<1>1. PICK e \in S : /\ S \subseteq m[e].past \cup {e}
                     /\ SumFunctionOnSet(f, S) <= b[e] + SumFunctionOnSet(f, S \cap m[e].missed)
  BY DEF Overrun
<1>2. SumFunctionOnSet(g, S) = SumFunctionOnSet(f, S) BY SumsOfEquals
<1>3. SumFunctionOnSet(g, S \cap m[e].missed) = SumFunctionOnSet(f, S \cap m[e].missed)
  <2>1. PICK T : T = S \cap m[e].missed OBVIOUS
  <2>2. IsFiniteSet(T) /\ \A x \in T : f[x] \in Nat /\ g[x] = f[x] BY <2>1, FS_Subset
  <2> QED BY <2>1, <2>2, SumsOfEquals
<1>4. c[e] = b[e] /\ n[e] = m[e] OBVIOUS
<1> HIDE DEF SumFunctionOnSet
<1>5. /\ S \subseteq n[e].past \cup {e}
      /\ SumFunctionOnSet(g, S) <= c[e] + SumFunctionOnSet(g, S \cap n[e].missed)
  BY <1>1, <1>2, <1>3, <1>4
<1> QED BY <1>5 DEF Overrun

\* An order that fits in its budget beside H, which it counted.
LEMMA CheckLeavesRoom ==
  ASSUME NEW f, NEW b, NEW m, NEW S, IsFiniteSet(S), NEW e \in S, NEW H, IsFiniteSet(H),
         \A x \in S \cup H : f[x] \in Nat, b[e] \in Nat,
         f[e] > 0, f[e] <= Left(b[e], SumFunctionOnSet(f, H)), e \notin H,
         S \subseteq m[e].past \cup {e}, S \cap m[e].missed = (S \ {e}) \ H
  PROVE  Overrun(f, b, m, S)
<1>1. PICK T : T = S \ {e} OBVIOUS
<1>2. IsFiniteSet(T) /\ e \notin T /\ S = T \cup {e} BY <1>1, FS_Subset
<1>3. SumFunctionOnSet(f, S) = f[e] + SumFunctionOnSet(f, T)
  <2>1. \A x \in S : f[x] \in Int OBVIOUS
  <2> QED BY ONLY <1>1, <2>1, SumTakesOut, IsFiniteSet(S), e \in S
<1>4. /\ SumFunctionOnSet(f, T \cap H) \in Nat /\ SumFunctionOnSet(f, T \ H) \in Nat
      /\ SumFunctionOnSet(f, T) = SumFunctionOnSet(f, T \cap H) + SumFunctionOnSet(f, T \ H)
  <2>1. IsFiniteSet(T) /\ \A x \in T : f[x] \in Nat BY <1>1, <1>2
  <2>2. PICK A, B : SplitBy(T, H, A, B) /\ A = T \cap H /\ B = T \ H BY DEF SplitBy
  <2>3. /\ SumFunctionOnSet(f, A) \in Nat /\ SumFunctionOnSet(f, B) \in Nat
        /\ SumFunctionOnSet(f, T) = SumFunctionOnSet(f, A) + SumFunctionOnSet(f, B)
    BY ONLY <2>1, <2>2, SumSplits
  <2> QED BY ONLY <2>2, <2>3
<1>5. SumFunctionOnSet(f, H) \in Nat /\ SumFunctionOnSet(f, T \cap H) <= SumFunctionOnSet(f, H)
  <2>1. /\ 1 \in Nat /\ T \cap H \in SUBSET H
        /\ \A x \in H : f[x] \in Nat
        /\ \A x \in T \cap H : f[x] \in Nat /\ 1 * f[x] <= 1 * f[x]
    OBVIOUS
  <2>2. PICK U : U = T \cap H OBVIOUS
  <2>3. /\ SumFunctionOnSet(f, U) \in Nat /\ SumFunctionOnSet(f, H) \in Nat
        /\ 1 * SumFunctionOnSet(f, U) <= 1 * SumFunctionOnSet(f, H)
    BY ONLY <2>1, <2>2, SumBound, IsFiniteSet(H)
  <2> QED BY ONLY <2>2, <2>3
<1>6. PICK held, part, rest, whole, all, budget, own :
        /\ held = SumFunctionOnSet(f, H) /\ part = SumFunctionOnSet(f, T \cap H)
        /\ rest = SumFunctionOnSet(f, T \ H) /\ whole = SumFunctionOnSet(f, T)
        /\ all = SumFunctionOnSet(f, S) /\ budget = b[e] /\ own = f[e]
  OBVIOUS
<1>7. /\ own \in Nat /\ budget \in Nat /\ own > 0 /\ own <= Left(budget, held)
      /\ all = own + whole /\ whole = part + rest /\ part \in Nat /\ rest \in Nat
      /\ held \in Nat /\ part <= held
  BY <1>3, <1>4, <1>5, <1>6
<1>8. all <= budget + rest BY ONLY <1>7 DEF Left
<1>9. SumFunctionOnSet(f, S \cap m[e].missed) = rest BY <1>1, <1>6
<1> HIDE DEF SumFunctionOnSet
<1>10. SumFunctionOnSet(f, S) <= b[e] + SumFunctionOnSet(f, S \cap m[e].missed) BY <1>6, <1>8, <1>9
<1> QED BY <1>10 DEF Overrun

\* A step after which no other order has passed, and those that have are as
\* they were.
LEMMA RiskStays ==
  ASSUME SizingInv, HeldInv', RiskInv,
         \A f \in Entries : Passed(f)' => /\ Passed(f) /\ entry'[f].risk = entry[f].risk
                                          /\ entry'[f].budget = entry[f].budget
                                          /\ tally'[f] = tally[f],
         \A f \in Entries : record'[f] # "none" => entry'[f].at = "done",
         \A f \in Entries : book'[f] # "none" => Passed(f)'
  PROVE  RiskInv'
<1>1. ASSUME NEW p \in Profiles, NEW S \in SUBSET (PassedBy(p)'), S # {}
      PROVE  Overrun(Risks', Budgets', tally', S)
  <2>1. S \subseteq PassedBy(p) BY <1>1 DEF PassedBy
  <2>2. Overrun(Risks, Budgets, tally, S) BY <1>1, <2>1 DEF RiskInv
  <2>3. IsFiniteSet(S)
    <3>1. S \subseteq AllPassed' BY <1>1 DEF PassedBy, AllPassed
    <3> QED BY <3>1, FS_Subset DEF HeldInv
  <2>4. ASSUME NEW x \in S
        PROVE  /\ Risks[x] \in Nat /\ Risks'[x] = Risks[x] /\ Budgets'[x] = Budgets[x]
               /\ tally'[x] = tally[x]
    <3>1. x \in Entries /\ Passed(x)' BY <1>1 DEF PassedBy
    <3> QED BY <3>1 DEF Risks, Budgets, SizingInv, Sized
  <2> HIDE DEF Overrun
  <2>5. PICK f, g, b, c, m, n : /\ f = Risks /\ g = Risks' /\ b = Budgets /\ c = Budgets'
                                /\ m = tally /\ n = tally'
    OBVIOUS
  <2>6. Overrun(f, b, m, S) BY <2>2, <2>5
  <2>7. \A x \in S : f[x] \in Nat /\ g[x] = f[x] /\ c[x] = b[x] /\ n[x] = m[x] BY <2>4, <2>5
  <2>8. Overrun(g, c, n, S) BY ONLY <2>3, <2>6, <2>7, OverrunStays
  <2> QED BY <2>5, <2>8
<1> QED BY <1>1 DEF RiskInv

\* A step of an entry that has not passed its last check, and does not yet.
LEMMA QuietStep ==
  ASSUME SizingInv, HeldInv', RiskInv, NEW e \in Entries, NEW new,
         entry' = [entry EXCEPT ![e] = new], UNCHANGED <<record, book, tally>>,
         entry[e].at \notin {"sent", "done"}, new.at # "sent"
  PROVE  RiskInv'
<1>1. entry'[e] = new /\ \A f \in Entries \ {e} : entry'[f] = entry[f] BY DEF SizingInv
<1>2. record[e] = "none" BY DEF RiskInv
<1>3. ~Passed(e) /\ ~Passed(e)' BY <1>1, <1>2 DEF Passed
<1>4. \A f \in Entries \ {e} : Passed(f)' <=> Passed(f) BY <1>1 DEF Passed
<1>5. \A f \in Entries : record'[f] # "none" => entry'[f].at = "done" BY <1>1, <1>2 DEF RiskInv
<1>6. \A f \in Entries : book'[f] # "none" => Passed(f)' BY <1>3, <1>4 DEF RiskInv
<1> QED BY <1>1, <1>3, <1>4, <1>5, <1>6, RiskStays

LEMMA QuietActions ==
  ASSUME SizingInv, HeldInv', RiskInv, NEW e \in Entries,
         \/ BeginSnapshot(e) \/ Snapshot(e) \/ SnapshotFails(e) \/ Review(e) \/ ReviewRejects(e)
         \/ Submit(e) \/ CheckAccount(e) \/ CheckRisk(e) \/ SubmitRejects(e)
  PROVE  RiskInv'
<1>1. PICK f : f = entry[e] OBVIOUS
<1>2. f = [at |-> f.at, ctx |-> f.ctx, base |-> f.base, room |-> f.room, lots |-> f.lots,
           risk |-> f.risk, unit |-> f.unit, equity |-> f.equity, loss |-> f.loss,
           budget |-> f.budget]
  BY <1>1 DEF SizingInv, Fields
<1>3. CASE BeginSnapshot(e)
  <2>1. PICK new : /\ new = [NoEntry EXCEPT !.at = "snapping", !.ctx = alloc[OwnerOf[e]]]
                   /\ entry' = [entry EXCEPT ![e] = new]
    BY <1>3 DEF BeginSnapshot, Moves
  <2>2. new.at = "snapping" BY ONLY <2>1 DEF NoEntry
  <2> QED BY <1>3, <2>1, <2>2, QuietStep DEF BeginSnapshot, Moves
<1>4. CASE Snapshot(e)
  <2>1. PICK base, room, new : /\ new = [f EXCEPT !.at = "snapped", !.base = base, !.room = room]
                               /\ entry' = [entry EXCEPT ![e] = new]
    BY <1>1, <1>4 DEF Snapshot, Moves
  <2>2. new.at = "snapped" BY ONLY <1>2, <2>1
  <2> QED BY <1>4, <2>1, <2>2, QuietStep DEF Snapshot, Moves
<1>5. CASE Review(e)
  <2>1. PICK unit \in Units :
          entry' = [entry EXCEPT ![e] = [f EXCEPT !.at = "reviewed", !.lots = LotsFor(f.base, unit),
                                                  !.unit = unit, !.risk = LotsFor(f.base, unit) * unit]]
    BY <1>1, <1>5 DEF Review, Moves
  <2>2. PICK lots, risk : lots = LotsFor(f.base, unit) /\ risk = LotsFor(f.base, unit) * unit OBVIOUS
  <2>3. PICK new : new = [f EXCEPT !.at = "reviewed", !.lots = lots, !.unit = unit, !.risk = risk]
    OBVIOUS
  <2>4. new.at = "reviewed" BY ONLY <1>2, <2>3
  <2>5. entry' = [entry EXCEPT ![e] = new] BY <2>1, <2>2, <2>3
  <2> QED BY <1>5, <2>4, <2>5, QuietStep DEF Review, Moves
<1>6. CASE CheckAccount(e)
  <2>1. PICK q, new : /\ new = [f EXCEPT !.at = "quoting", !.equity = q]
                      /\ entry' = [entry EXCEPT ![e] = new]
    BY <1>1, <1>6 DEF CheckAccount, Moves
  <2>2. new.at = "quoting" BY ONLY <1>2, <2>1
  <2> QED BY <1>6, <2>1, <2>2, QuietStep DEF CheckAccount, Moves
<1>7. CASE CheckRisk(e)
  <2>1. PICK loss, new : /\ new = [f EXCEPT !.at = "reading", !.loss = loss]
                         /\ entry' = [entry EXCEPT ![e] = new]
    BY <1>1, <1>7 DEF CheckRisk, Moves
  <2>2. new.at = "reading" BY ONLY <1>2, <2>1
  <2> QED BY <1>7, <2>1, <2>2, QuietStep DEF CheckRisk, Moves
<1>8. CASE SnapshotFails(e) \/ ReviewRejects(e) \/ SubmitRejects(e)
  <2>1. PICK new : new = [NoEntry EXCEPT !.at = "done"] OBVIOUS
  <2>2. new.at = "done" BY ONLY <2>1 DEF NoEntry
  <2>3. /\ entry[e].at \notin {"sent", "done"} /\ entry' = [entry EXCEPT ![e] = new]
        /\ UNCHANGED <<record, book, tally>>
    BY <1>8, <2>1 DEF SnapshotFails, ReviewRejects, SubmitRejects, EndsAt, Moves
  <2> QED BY <2>2, <2>3, QuietStep
<1>9. CASE Submit(e)
  <2>1. PICK new : /\ new = [NoEntry EXCEPT !.at = "checking", !.ctx = alloc[OwnerOf[e]],
                                            !.lots = f.lots, !.risk = f.risk]
                   /\ entry' = [entry EXCEPT ![e] = new]
    BY <1>1, <1>9 DEF Submit, Moves
  <2>2. new.at = "checking" BY ONLY <2>1 DEF NoEntry
  <2> QED BY <1>9, <2>1, <2>2, QuietStep DEF Submit, Moves
<1> QED BY <1>3, <1>4, <1>5, <1>6, <1>7, <1>8, <1>9

\* The budget check counts what is held, and has room for the entry beside it.
LEMMA BudgetStep ==
  ASSUME TypeOK, SizingInv, SizingInv', HeldInv, HeldInv', RiskInv, NEW e \in Entries, CheckBudget(e)
  PROVE  RiskInv'
<1>1. PICK f : f = entry[e] OBVIOUS
<1>2. f = [at |-> f.at, ctx |-> f.ctx, base |-> f.base, room |-> f.room, lots |-> f.lots,
           risk |-> f.risk, unit |-> f.unit, equity |-> f.equity, loss |-> f.loss,
           budget |-> f.budget]
  BY <1>1 DEF SizingInv, Fields
<1>3. PICK budget, new :
        /\ budget = RiskBudget(f.equity, f.ctx)
        /\ new = [f EXCEPT !.at = "sent", !.budget = budget]
        /\ entry' = [entry EXCEPT ![e] = new]
  BY <1>1 DEF CheckBudget, Moves
<1>4. new.at = "sent" /\ new.risk = f.risk /\ new.budget = budget BY ONLY <1>2, <1>3
<1>5. entry'[e] = new /\ \A x \in Entries \ {e} : entry'[x] = entry[x] BY <1>3 DEF SizingInv
<1>6. PICK o \in Profiles : o = OwnerOf[e] BY EntriesHaveOwners
<1>7. /\ f.at = "reading" /\ f.risk \in Nat /\ f.risk > 0
      /\ f.risk <= Left(budget, OwnedRisk(o)) /\ UNCHANGED <<record, book>>
      /\ tally' = [tally EXCEPT ![e] = [past |-> PassedBy(o), missed |-> PassedBy(o) \ HeldBy(o)]]
  BY <1>1, <1>3, <1>6 DEF CheckBudget, Moves, SizingInv, Sized, Priced
<1>8. record[e] = "none" BY <1>1, <1>7 DEF RiskInv
<1>9. ~Passed(e) /\ Passed(e)' /\ \A x \in Entries \ {e} : Passed(x)' <=> Passed(x)
  BY <1>1, <1>4, <1>5, <1>7, <1>8 DEF Passed
<1>10. /\ tally'[e].past = PassedBy(o) /\ tally'[e].missed = PassedBy(o) \ HeldBy(o)
       /\ \A x \in Entries \ {e} : tally'[x] = tally[x]
  BY <1>7 DEF TypeOK
<1>11. /\ \A x \in Entries : record'[x] # "none" => entry'[x].at = "done"
       /\ \A x \in Entries : book'[x] # "none" => Passed(x)'
  BY <1>5, <1>7, <1>8, <1>9 DEF RiskInv
<1>12. ASSUME NEW p \in Profiles, NEW S \in SUBSET (PassedBy(p)'), S # {}
       PROVE  Overrun(Risks', Budgets', tally', S)
  <2>1. IsFiniteSet(S) /\ S \subseteq Entries
    <3>1. S \subseteq AllPassed' BY DEF PassedBy, AllPassed
    <3> QED BY <3>1, FS_Subset DEF HeldInv, AllPassed
  <2>2. PICK g, c, n : g = Risks' /\ c = Budgets' /\ n = tally' OBVIOUS
  <2>3. /\ \A x \in Entries : g[x] \in Nat /\ c[x] \in Nat
        /\ g[e] = f.risk /\ c[e] = budget
        /\ \A x \in Entries \ {e} : g[x] = Risks[x] /\ c[x] = Budgets[x] /\ n[x] = tally[x]
    BY <1>4, <1>5, <1>10, <2>2 DEF Risks, Budgets, SizingInv, Sized
  <2> HIDE DEF Overrun
  <2>4. CASE e \notin S
    <3>1. S \in SUBSET PassedBy(p) BY <1>9, <1>12, <2>4 DEF PassedBy
    <3>2. PICK r, b, m : r = Risks /\ b = Budgets /\ m = tally OBVIOUS
    <3>3. Overrun(r, b, m, S) BY <1>12, <3>1, <3>2 DEF RiskInv
    <3>4. \A x \in S : r[x] \in Nat /\ g[x] = r[x] /\ c[x] = b[x] /\ n[x] = m[x]
      BY <2>1, <2>3, <2>4, <3>2
    <3>5. Overrun(g, c, n, S) BY ONLY <2>1, <3>3, <3>4, OverrunStays
    <3> QED BY <2>2, <3>5
  <2>5. CASE e \in S
    <3>1. PICK H : H = HeldBy(o) OBVIOUS
    <3>2. IsFiniteSet(H) /\ H \subseteq Entries /\ e \notin H
      BY <1>8, <3>1, HeldIsTyped DEF HeldBy
    <3>3. p = o BY <1>6, <1>12, <2>5 DEF PassedBy
    <3>4. S \subseteq n[e].past \cup {e} /\ S \cap n[e].missed = (S \ {e}) \ H
      <4>1. S \ {e} \subseteq PassedBy(o) BY <1>9, <1>12, <2>1, <3>3 DEF PassedBy
      <4>2. e \notin PassedBy(o) BY <1>9 DEF PassedBy
      <4> QED BY <1>10, <2>2, <3>1, <4>1, <4>2
    <3>5. OwnedRisk(o) = SumFunctionOnSet(g, H)
      <4>1. PICK r : r = Risks OBVIOUS
      <4>2. \A x \in H : r[x] \in Nat /\ g[x] = r[x] BY <2>3, <3>2, <4>1
      <4>3. SumFunctionOnSet(g, H) = SumFunctionOnSet(r, H) BY ONLY <3>2, <4>2, SumsOfEquals
      <4>4. OwnedRisk(o) = SumFunctionOnSet(r, H) BY <3>1, <4>1 DEF OwnedRisk, RiskOf, Risks
      <4> QED BY <4>3, <4>4
    <3>6. \A x \in S \cup H : g[x] \in Nat BY <2>1, <2>3, <3>2
    <3>7. c[e] \in Nat /\ g[e] > 0 /\ g[e] <= Left(c[e], SumFunctionOnSet(g, H))
      BY <1>7, <2>3, <3>5
    <3>8. Overrun(g, c, n, S) BY ONLY <2>1, <2>5, <3>2, <3>4, <3>6, <3>7, CheckLeavesRoom
    <3> QED BY <2>2, <3>8
  <2> QED BY <2>4, <2>5
<1> QED BY <1>11, <1>12 DEF RiskInv

\* What the reconciliation finds leaves the size and the budget as they were.
LEMMA RecordStep ==
  ASSUME SizingInv, HeldInv, HeldInv', RiskInv, NEW e \in Entries, Record(e) \/ ExecutionResult(e)
  PROVE  RiskInv'
<1>1. CASE Record(e)
  <2>1. PICK new :
          /\ new = [NoEntry EXCEPT !.at = "done", !.lots = entry[e].lots,
                                    !.risk = entry[e].risk, !.budget = entry[e].budget]
          /\ entry' = [entry EXCEPT ![e] = new]
    BY <1>1 DEF Record
  <2>2. new.at = "done" /\ new.risk = entry[e].risk /\ new.budget = entry[e].budget
    BY ONLY <2>1 DEF NoEntry
  <2>3. entry'[e] = new /\ \A f \in Entries \ {e} : entry'[f] = entry[f] BY <2>1 DEF SizingInv
  <2>4. PICK as \in {"held", "pending", "unknown"} : record' = [record EXCEPT ![e] = as]
    BY <1>1 DEF Record, Found
  <2>5. record'[e] = as /\ \A f \in Entries \ {e} : record'[f] = record[f]
    BY <2>4 DEF HeldInv
  <2>6. UNCHANGED <<book, tally>> BY <1>1 DEF Record, Found
  <2>7. Passed(e) /\ Passed(e)' /\ \A f \in Entries \ {e} : Passed(f)' <=> Passed(f)
    BY <1>1, <2>3, <2>5 DEF Passed, Record
  <2>8. \A f \in Entries : record'[f] # "none" => entry'[f].at = "done"
    BY <2>2, <2>3, <2>5 DEF RiskInv
  <2>9. \A f \in Entries : book'[f] # "none" => Passed(f)' BY <2>6, <2>7 DEF RiskInv
  <2> QED BY <2>2, <2>3, <2>6, <2>7, <2>8, <2>9, RiskStays
<1>2. CASE ExecutionResult(e)
  <2>1. record[e] = "unknown" /\ UNCHANGED <<entry, book, tally>> BY <1>2 DEF ExecutionResult, Found
  <2>2. PICK as \in {"held", "pending"} : record' = [record EXCEPT ![e] = as]
    BY <1>2 DEF ExecutionResult, Found
  <2>3. record'[e] = as /\ \A f \in Entries \ {e} : record'[f] = record[f] BY <2>2 DEF HeldInv
  <2>4. \A f \in Entries : Passed(f)' <=> Passed(f) BY <2>1, <2>3 DEF Passed
  <2>5. /\ \A f \in Entries : record'[f] # "none" => entry'[f].at = "done"
        /\ \A f \in Entries : book'[f] # "none" => Passed(f)'
    BY <2>1, <2>3, <2>4 DEF RiskInv
  <2> QED BY <2>1, <2>4, <2>5, RiskStays
<1> QED BY <1>1, <1>2

\* The broker moves only an order that was sent.
LEMMA BrokerStep ==
  ASSUME TypeOK, SizingInv, HeldInv', RiskInv, NEW e \in Entries, Broker(e)
  PROVE  RiskInv'
<1>1. Passed(e) /\ UNCHANGED <<entry, record, tally>> BY DEF Broker, Passed
<1>2. \A f \in Entries \ {e} : book'[f] = book[f] BY DEF Broker, TypeOK
<1>3. \A f \in Entries : Passed(f)' <=> Passed(f) BY <1>1 DEF Passed
<1>4. /\ \A f \in Entries : record'[f] # "none" => entry'[f].at = "done"
      /\ \A f \in Entries : book'[f] # "none" => Passed(f)'
  BY <1>1, <1>2, <1>3 DEF RiskInv
<1> QED BY <1>1, <1>3, <1>4, RiskStays

LEMMA RiskNext ==
  ASSUME TypeOK, SizingInv, SizingInv', HeldInv, HeldInv', RiskInv, [Next]_vars
  PROVE  RiskInv'
<1>1. ASSUME UNCHANGED <<entry, record, book, tally>> PROVE RiskInv'
  <2>1. \A f \in Entries : Passed(f)' <=> Passed(f) BY <1>1 DEF Passed
  <2>2. /\ \A f \in Entries : record'[f] # "none" => entry'[f].at = "done"
        /\ \A f \in Entries : book'[f] # "none" => Passed(f)'
    BY <1>1, <2>1 DEF RiskInv
  <2> QED BY <1>1, <2>1, <2>2, RiskStays
<1>2. ASSUME NEW e \in Entries, EntryStep(e) PROVE RiskInv'
  <2>1. CASE Broker(e) BY <2>1, BrokerStep
  <2>2. CASE CheckBudget(e) BY <2>2, BudgetStep
  <2>3. CASE Record(e) \/ ExecutionResult(e) BY <2>3, RecordStep
  <2>4. CASE ~(Broker(e) \/ CheckBudget(e) \/ Record(e) \/ ExecutionResult(e))
    BY <1>2, <2>4, QuietActions DEF EntryStep
  <2> QED BY <2>1, <2>2, <2>3, <2>4
<1> QED BY <1>1, <1>2 DEF Next

\* The inductive invariant of the open risk, in every reachable state: of any
\* orders of a profile that passed their last check, one had room for all it
\* counted, and it counted all of them but those it missed.
THEOREM RiskHolds == Spec => []RiskInv
<1>1. Init => RiskInv
  <2> SUFFICES ASSUME Init PROVE RiskInv OBVIOUS
  <2>1. PICK new : new = NoEntry OBVIOUS
  <2>2. new.at = "none" BY ONLY <2>1 DEF NoEntry
  <2>3. \A e \in Entries : entry[e].at = "none" /\ record[e] = "none" /\ book[e] = "none"
    BY <2>1, <2>2 DEF Init
  <2>4. \A p : PassedBy(p) = {} BY <2>3 DEF PassedBy, Passed
  <2> QED BY <2>3, <2>4 DEF RiskInv
<1> QED BY <1>1, RiskNext, SizingHolds, HeldHolds, TypeCorrect, PTL DEF Spec

\* However the submissions of a profile overlap and whatever the broker does,
\* its open positions exceed the budget of the one that was checked last by no
\* more than those of them that this check could not count.
THEOREM OverrunIsBounded == Spec => []OverrunIsUncounted
<1>1. RiskInv => OverrunIsUncounted
  <2> SUFFICES ASSUME RiskInv, NEW p \in Profiles,
                      NEW open, open = {e \in OpenPositions : OwnerOf[e] = p}, open # {}
               PROVE  \E e \in open :
                        /\ open \subseteq tally[e].past \cup {e}
                        /\ RiskOf(open) <= entry[e].budget + RiskOf(open \cap tally[e].missed)
    BY DEF OverrunIsUncounted
  <2>1. open \in SUBSET PassedBy(p) BY DEF RiskInv, OpenPositions, PassedBy
  <2>2. Overrun(Risks, Budgets, tally, open) BY <2>1 DEF RiskInv
  <2>3. PICK e \in open :
          /\ open \subseteq tally[e].past \cup {e}
          /\ SumFunctionOnSet(Risks, open) <= Budgets[e] + SumFunctionOnSet(Risks, open \cap tally[e].missed)
    BY <2>2 DEF Overrun
  <2>4. \A S : RiskOf(S) = SumFunctionOnSet(Risks, S) BY DEF RiskOf, Risks
  <2>5. Budgets[e] = entry[e].budget BY <2>1 DEF Budgets, PassedBy
  <2> QED BY <2>3, <2>4, <2>5
<1> QED BY <1>1, RiskHolds, PTL
=============================================================================
