----------------------------- MODULE FiniteSums -----------------------------
(***************************************************************************)
(* Sums and folds over finite sets, as the community modules define them   *)
(* (MapThenSumSet, FoldLeft), and the induction that their properties      *)
(* need.  Induction is stated over a set of good cases, not over an        *)
(* operator: so it can be cited for any predicate.                         *)
(***************************************************************************)
EXTENDS Integers, Sequences, FiniteSets, Functions, FiniteSetTheorems, TLAPS

(* A set that contains 0 and successors contains all numbers. *)
LEMMA NumberInduction ==
  ASSUME NEW Good, 0 \in Good, \A n \in Nat : n \in Good => n + 1 \in Good
  PROVE  Nat \subseteq Good
<1>1. SUFFICES ASSUME Nat \ Good # {} PROVE FALSE
  OBVIOUS
<1>2. IsWellFoundedOn(OpToRel(<, Nat), Nat)
  BY NatLessThanWellFounded
<1>3. PICK n \in Nat \ Good : \A m \in Nat \ Good : <<m, n>> \notin OpToRel(<, Nat)
  BY <1>1, <1>2, WFMin
<1>4. \A m \in Nat \ Good : ~(m < n)
  BY <1>3 DEF OpToRel
<1>5. n # 0 /\ n - 1 \in Nat /\ n - 1 < n /\ (n - 1) + 1 = n
  OBVIOUS
<1>6. QED
  BY <1>4, <1>5

(* A set that contains {} and every set of which it contains what one        *)
(* element less leaves, contains all subsets of a finite set.                *)
LEMMA SubsetInduction ==
  ASSUME NEW S, IsFiniteSet(S), NEW Good, {} \in Good,
         \A T \in SUBSET S : T # {} /\ (\A x \in T : T \ {x} \in Good) => T \in Good
  PROVE  SUBSET S \subseteq Good
<1>1. SUFFICES ASSUME (SUBSET S) \ Good # {} PROVE FALSE
  OBVIOUS
<1>2. IsWellFoundedOn(StrictSubsetOrdering(S), SUBSET S)
  BY FS_StrictSubsetOrderingWellFounded, FS_FiniteSubsetsOfFinite
<1>3. PICK T \in (SUBSET S) \ Good :
        \A U \in (SUBSET S) \ Good : <<U, T>> \notin StrictSubsetOrdering(S)
  BY <1>1, <1>2, WFMin
<1>4. ASSUME NEW x \in T PROVE T \ {x} \in Good
  <2>1. T \ {x} \in SUBSET S /\ T \in SUBSET S /\ T \ {x} \subseteq T /\ T \ {x} # T
    OBVIOUS
  <2>2. <<T \ {x}, T>> \in StrictSubsetOrdering(S)
    BY <2>1 DEF StrictSubsetOrdering
  <2>3. QED
    BY <1>3, <2>1, <2>2
<1>5. QED
  BY <1>3, <1>4

-----------------------------------------------------------------------------
(* Folds: the recursive function that a fold of the library evaluates.       *)

IsFold(g, S, ch, base, step) ==
  g = [s \in SUBSET S |-> IF s = {} THEN base ELSE step[ch[s], g[s \ {ch[s]}]]]

(* There is such a function, and its values are those of the step.           *)
LEMMA FoldExists ==
  ASSUME NEW S, IsFiniteSet(S), NEW V, NEW base \in V, NEW step \in [S \X V -> V],
         NEW ch, \A s \in SUBSET S : s # {} => ch[s] \in s
  PROVE  \E g \in [SUBSET S -> V] : IsFold(g, S, ch, base, step)
<1> DEFINE Level(n) == {s \in SUBSET S : Cardinality(s) <= n}
           Folded(g, s) == g[s] = IF s = {} THEN base ELSE step[ch[s], g[s \ {ch[s]}]]
           Has(n) == \E g \in [Level(n) -> V] : \A s \in Level(n) : Folded(g, s)
           Good == {n \in Nat : Has(n)}
<1>1. \A s \in SUBSET S : IsFiniteSet(s) /\ Cardinality(s) \in Nat
  BY FS_Subset, FS_CardinalityType
<1>2. \A s \in SUBSET S : (Cardinality(s) = 0 <=> s = {})
  BY <1>1, FS_EmptySet
<1>3. \A s \in SUBSET S : s # {} =>
        /\ s \ {ch[s]} \in SUBSET S /\ Cardinality(s \ {ch[s]}) = Cardinality(s) - 1
        /\ ch[s] \in S
  BY <1>1, FS_RemoveElement
<1>4. 0 \in Good
  <2>1. \A s \in Level(0) : s = {}
    BY <1>1, <1>2
  <2>2. [s \in Level(0) |-> base] \in [Level(0) -> V]
    OBVIOUS
  <2>3. \A s \in Level(0) : Folded([r \in Level(0) |-> base], s)
    BY <2>1
  <2>4. QED
    BY <2>2, <2>3
<1>5. ASSUME NEW n \in Nat, n \in Good PROVE n + 1 \in Good
  <2>1. PICK g \in [Level(n) -> V] : \A s \in Level(n) : Folded(g, s)
    BY <1>5
  <2> DEFINE h == [s \in Level(n + 1) |->
                     IF s \in Level(n) THEN g[s] ELSE step[ch[s], g[s \ {ch[s]}]]]
  <2>2. \A s \in Level(n + 1) : s # {} => s \ {ch[s]} \in Level(n)
    BY <1>1, <1>3
  <2>3. {} \in Level(n)
    BY <1>1, <1>2
  <2>4. h \in [Level(n + 1) -> V]
    <3>1. ASSUME NEW s \in Level(n + 1), s \notin Level(n)
          PROVE  step[ch[s], g[s \ {ch[s]}]] \in V
      BY <1>3, <2>2, <2>3, <3>1
    <3>2. QED
      BY <3>1
  <2>5. ASSUME NEW s \in Level(n + 1) PROVE Folded(h, s)
    <3>1. CASE s \in Level(n)
      <4>1. \A r \in Level(n) : r \in Level(n + 1)
        BY <1>1
      <4>2. h[s] = g[s]
        BY <3>1
      <4>3. s # {} => s \ {ch[s]} \in Level(n) /\ h[s \ {ch[s]}] = g[s \ {ch[s]}]
        BY <2>2, <4>1
      <4>4. QED
        BY <2>1, <3>1, <4>2, <4>3
    <3>2. CASE s \notin Level(n)
      <4>1. s # {} /\ s \ {ch[s]} \in Level(n)
        BY <2>2, <2>3, <3>2
      <4>2. \A r \in Level(n) : r \in Level(n + 1)
        BY <1>1
      <4>3. h[s \ {ch[s]}] = g[s \ {ch[s]}]
        BY <4>1, <4>2
      <4>4. QED
        BY <3>2, <4>1, <4>3
    <3>3. QED
      BY <3>1, <3>2
  <2>6. Has(n + 1)
    <3> HIDE DEF h, Level, Folded
    <3> QED
      BY <2>4, <2>5
  <2>7. QED
    <3> HIDE DEF Has
    <3> QED
      BY <2>6
<1>6. Cardinality(S) \in Good
  <2>1. Nat \subseteq Good
    <3> HIDE DEF Good
    <3> QED
      BY <1>4, <1>5, NumberInduction
  <2>2. QED
    BY <2>1, FS_CardinalityType
<1>7. Level(Cardinality(S)) = SUBSET S
  BY FS_Subset
<1>8. PICK g \in [SUBSET S -> V] : \A s \in SUBSET S : Folded(g, s)
  BY <1>6, <1>7
<1>9. g = [s \in SUBSET S |-> g[s]]
  OBVIOUS
<1>10. g = [s \in SUBSET S |-> IF s = {} THEN base ELSE step[ch[s], g[s \ {ch[s]}]]]
  BY <1>8, <1>9, Zenon
<1>11. QED
  BY <1>10 DEF IsFold

-----------------------------------------------------------------------------
(* Sums: the function that MapThenSumSet evaluates, with f for its operator. *)

Some(s) == CHOOSE x \in s : TRUE

IsSum(g, S, f) ==
  g = [s \in SUBSET S |-> IF s = {} THEN 0 ELSE f[Some(s)] + g[s \ {Some(s)}]]

Total(f, S) == (CHOOSE g : IsSum(g, S, f))[S]

LEMMA SumExists ==
  ASSUME NEW S, IsFiniteSet(S), NEW f, \A x \in S : f[x] \in Int
  PROVE  \E g \in [SUBSET S -> Int] : IsSum(g, S, f)
<1> DEFINE step == [p \in S \X Int |-> f[p[1]] + p[2]]
           ch == [s \in SUBSET S |-> Some(s)]
<1>1. \A s \in SUBSET S : s # {} => ch[s] \in s
  BY DEF Some
<1>2. \A p \in S \X Int : f[p[1]] + p[2] \in Int
  OBVIOUS
<1>3. step \in [S \X Int -> Int] /\ 0 \in Int
  BY <1>2
<1>4. PICK g \in [SUBSET S -> Int] : IsFold(g, S, ch, 0, step)
  <2> HIDE DEF step, ch
  <2> QED
    BY <1>1, <1>3, FoldExists
<1>5. ASSUME NEW s \in SUBSET S
      PROVE  g[s] = IF s = {} THEN 0 ELSE f[Some(s)] + g[s \ {Some(s)}]
  <2>1. g[s] = IF s = {} THEN 0 ELSE step[ch[s], g[s \ {ch[s]}]]
    BY <1>4, Zenon DEF IsFold
  <2>2. CASE s = {}
    BY <2>1, <2>2
  <2>3. CASE s # {}
    <3>1. ch[s] = Some(s) /\ Some(s) \in S
      BY <1>1, <2>3
    <3>2. g[s \ {Some(s)}] \in Int
      OBVIOUS
    <3>3. <<Some(s), g[s \ {Some(s)}]>> \in S \X Int
      BY <3>1, <3>2
    <3>4. step[Some(s), g[s \ {Some(s)}]] = f[Some(s)] + g[s \ {Some(s)}]
      BY <3>3
    <3>5. QED
      BY <2>1, <2>3, <3>1, <3>4
  <2>4. QED
    BY <2>2, <2>3
<1>6. g = [s \in SUBSET S |-> g[s]]
  OBVIOUS
<1>7. QED
  BY <1>5, <1>6, Zenon DEF IsSum

(* Two sums agree on the sets on which their terms agree.                    *)
LEMMA SumUnique ==
  ASSUME NEW S, NEW R, NEW f, NEW k, NEW g, NEW h, IsSum(g, S, f), IsSum(h, R, k),
         NEW T, IsFiniteSet(T), T \subseteq S, T \subseteq R, \A x \in T : f[x] = k[x]
  PROVE  g[T] = h[T]
<1> DEFINE Good == {s \in SUBSET T : g[s] = h[s]}
<1>1. \A s \in SUBSET T :
        /\ g[s] = IF s = {} THEN 0 ELSE f[Some(s)] + g[s \ {Some(s)}]
        /\ h[s] = IF s = {} THEN 0 ELSE k[Some(s)] + h[s \ {Some(s)}]
  <2>1. \A s \in SUBSET T : s \in SUBSET S /\ s \in SUBSET R
    OBVIOUS
  <2>2. \A s \in SUBSET S : g[s] = IF s = {} THEN 0 ELSE f[Some(s)] + g[s \ {Some(s)}]
    BY Zenon DEF IsSum
  <2>3. \A s \in SUBSET R : h[s] = IF s = {} THEN 0 ELSE k[Some(s)] + h[s \ {Some(s)}]
    BY Zenon DEF IsSum
  <2>4. QED
    BY <2>1, <2>2, <2>3
<1>2. \A s \in SUBSET T : s # {} => Some(s) \in s
  BY DEF Some
<1>3. {} \in Good
  BY <1>1
<1>4. ASSUME NEW s \in SUBSET T, s # {}, \A x \in s : s \ {x} \in Good
      PROVE  s \in Good
  BY <1>1, <1>2, <1>4, ZenonT(40)
<1>5. SUBSET T \subseteq Good
  <2> HIDE DEF Good
  <2> QED
    BY <1>3, <1>4, SubsetInduction
<1>6. QED
  BY <1>5

LEMMA TotalIs ==
  ASSUME NEW S, NEW f, NEW g, IsSum(g, S, f), NEW T, IsFiniteSet(T), T \subseteq S,
         \A x \in T : f[x] \in Int
  PROVE  Total(f, T) = g[T]
<1>1. PICK h : IsSum(h, T, f)
  BY SumExists
<1>2. IsSum(CHOOSE r : IsSum(r, T, f), T, f)
  BY <1>1, Zenon
<1>3. (CHOOSE r : IsSum(r, T, f))[T] = g[T]
  BY <1>2, SumUnique
<1>4. QED
  BY <1>3 DEF Total

LEMMA TotalFacts ==
  ASSUME NEW S, IsFiniteSet(S), NEW f, \A x \in S : f[x] \in Int
  PROVE  /\ Total(f, S) \in Int
         /\ S = {} => Total(f, S) = 0
         /\ S # {} => Some(S) \in S /\ Total(f, S) = f[Some(S)] + Total(f, S \ {Some(S)})
<1>1. PICK g \in [SUBSET S -> Int] : IsSum(g, S, f)
  BY SumExists
<1>2. \A T \in SUBSET S : IsFiniteSet(T) /\ T \subseteq S
  BY FS_Subset
<1>3. \A T \in SUBSET S : Total(f, T) = g[T]
  BY <1>1, <1>2, TotalIs
<1>4. g[S] = IF S = {} THEN 0 ELSE f[Some(S)] + g[S \ {Some(S)}]
  BY <1>1, Zenon DEF IsSum
<1>5. S # {} => Some(S) \in S
  BY DEF Some
<1>6. QED
  BY <1>3, <1>4, <1>5

(* Any element of a set may be added last.                                   *)
LEMMA TotalRemove ==
  ASSUME NEW S, IsFiniteSet(S), NEW f, \A x \in S : f[x] \in Int, NEW y \in S
  PROVE  Total(f, S) = f[y] + Total(f, S \ {y})
<1> DEFINE Good == {T \in SUBSET S : \A x \in T : Total(f, T) = f[x] + Total(f, T \ {x})}
<1>1. {} \in Good
  OBVIOUS
<1>2. ASSUME NEW T \in SUBSET S, T # {}, \A x \in T : T \ {x} \in Good
      PROVE  T \in Good
  <2>1. \A U \in SUBSET S : IsFiniteSet(U) /\ \A x \in U : f[x] \in Int
    BY FS_Subset
  <2>2. Some(T) \in T /\ Total(f, T) = f[Some(T)] + Total(f, T \ {Some(T)})
    BY <1>2, <2>1, TotalFacts
  <2>3. \A U \in SUBSET S : Total(f, U) \in Int
    BY <2>1, TotalFacts
  <2>4. ASSUME NEW x \in T PROVE Total(f, T) = f[x] + Total(f, T \ {x})
    <3>1. CASE x = Some(T)
      BY <2>2, <3>1
    <3>2. CASE x # Some(T)
      <4> DEFINE z == Some(T)
                 U == (T \ {x}) \ {z}
      <4>1. /\ z \in T \ {x} /\ x \in T \ {z} /\ (T \ {z}) \ {x} = U
            /\ T \ {x} \in Good /\ T \ {z} \in Good
        BY <1>2, <2>2, <3>2
      <4>2. Total(f, T \ {z}) = f[x] + Total(f, U)
        BY <4>1
      <4>3. Total(f, T \ {x}) = f[z] + Total(f, U)
        BY <4>1
      <4>4. /\ Total(f, U) \in Int /\ f[x] \in Int /\ f[z] \in Int
            /\ Total(f, T) = f[z] + Total(f, T \ {z})
        BY <2>2, <2>3
      <4>5. QED
        BY <4>2, <4>3, <4>4
    <3>3. QED
      BY <3>1, <3>2
  <2>5. QED
    BY <2>4
<1>3. SUBSET S \subseteq Good
  <2> HIDE DEF Good
  <2> QED
    BY <1>1, <1>2, SubsetInduction
<1>4. QED
  BY <1>3

LEMMA TotalInsert ==
  ASSUME NEW S, IsFiniteSet(S), NEW y, y \notin S, NEW f, \A x \in S \cup {y} : f[x] \in Int
  PROVE  IsFiniteSet(S \cup {y}) /\ Total(f, S \cup {y}) = f[y] + Total(f, S)
<1>1. IsFiniteSet(S \cup {y}) /\ y \in S \cup {y} /\ (S \cup {y}) \ {y} = S
  BY FS_AddElement
<1>2. Total(f, S \cup {y}) = f[y] + Total(f, (S \cup {y}) \ {y})
  BY <1>1, TotalRemove
<1>3. QED
  BY <1>1, <1>2

LEMMA TotalEmpty == ASSUME NEW f PROVE Total(f, {}) = 0
BY FS_EmptySet, TotalFacts

LEMMA TotalInt ==
  ASSUME NEW S, IsFiniteSet(S), NEW f, \A x \in S : f[x] \in Int
  PROVE  Total(f, S) \in Int
BY TotalFacts

(* The total depends on the terms alone. *)
LEMMA TotalSame ==
  ASSUME NEW S, IsFiniteSet(S), NEW f, NEW k, \A x \in S : f[x] \in Int /\ f[x] = k[x]
  PROVE  Total(f, S) = Total(k, S)
<1>1. PICK g : IsSum(g, S, f)
  BY SumExists
<1>2. PICK h : IsSum(h, S, k)
  BY SumExists
<1>3. Total(f, S) = g[S]
  BY <1>1, TotalIs
<1>4. Total(k, S) = h[S]
  BY <1>2, TotalIs
<1>5. g[S] = h[S]
  BY <1>1, <1>2, SumUnique
<1>6. QED
  BY <1>3, <1>4, <1>5

LEMMA TotalNat ==
  ASSUME NEW S, IsFiniteSet(S), NEW f, \A x \in S : f[x] \in Nat
  PROVE  Total(f, S) \in Nat
<1> DEFINE Good == {T \in SUBSET S : Total(f, T) \in Nat}
<1>1. \A T \in SUBSET S : IsFiniteSet(T) /\ \A x \in T : f[x] \in Int
  BY FS_Subset
<1>2. {} \in Good
  BY TotalEmpty
<1>3. ASSUME NEW T \in SUBSET S, T # {}, \A x \in T : T \ {x} \in Good
      PROVE  T \in Good
  <2>1. PICK x : x \in T
    BY <1>3
  <2>2. Total(f, T) = f[x] + Total(f, T \ {x})
    BY <1>1, <2>1, TotalRemove
  <2>3. QED
    BY <1>3, <2>1, <2>2
<1>4. SUBSET S \subseteq Good
  <2> HIDE DEF Good
  <2> QED
    BY <1>2, <1>3, SubsetInduction
<1>5. QED
  BY <1>4

(* The total of the sums of two terms. *)
LEMMA TotalPlus ==
  ASSUME NEW S, IsFiniteSet(S), NEW a, NEW b, NEW c,
         \A x \in S : a[x] \in Int /\ b[x] \in Int /\ c[x] = a[x] + b[x]
  PROVE  Total(c, S) = Total(a, S) + Total(b, S)
<1> DEFINE Good == {T \in SUBSET S : Total(c, T) = Total(a, T) + Total(b, T)}
<1>1. \A T \in SUBSET S : IsFiniteSet(T) /\ \A x \in T : a[x] \in Int /\ b[x] \in Int /\ c[x] \in Int
  BY FS_Subset
<1>2. {} \in Good
  BY TotalEmpty
<1>3. ASSUME NEW T \in SUBSET S, T # {}, \A x \in T : T \ {x} \in Good
      PROVE  T \in Good
  <2>1. PICK x : x \in T
    BY <1>3
  <2>2. /\ Total(a, T) = a[x] + Total(a, T \ {x})
        /\ Total(b, T) = b[x] + Total(b, T \ {x})
        /\ Total(c, T) = c[x] + Total(c, T \ {x})
    BY <1>1, <2>1, TotalRemove
  <2>3. T \ {x} \in SUBSET S /\ T \ {x} \in Good
    BY <1>3, <2>1
  <2>4. Total(a, T \ {x}) \in Int /\ Total(b, T \ {x}) \in Int
    BY <1>1, <2>3, TotalInt
  <2>5. Total(c, T \ {x}) = Total(a, T \ {x}) + Total(b, T \ {x})
    BY <2>3
  <2>6. a[x] \in Int /\ b[x] \in Int /\ c[x] = a[x] + b[x]
    BY <2>1
  <2>7. Total(c, T) = Total(a, T) + Total(b, T)
    BY <2>2, <2>4, <2>5, <2>6
  <2>8. QED
    BY <2>7
<1>4. SUBSET S \subseteq Good
  <2> HIDE DEF Good
  <2> QED
    BY <1>2, <1>3, SubsetInduction
<1>5. QED
  BY <1>4

(* What adds nothing may be left out. *)
LEMMA TotalNonzero ==
  ASSUME NEW S, IsFiniteSet(S), NEW f, \A x \in S : f[x] \in Int,
         NEW U \in SUBSET S, \A x \in S \ U : f[x] = 0
  PROVE  Total(f, S) = Total(f, U)
<1> DEFINE Good == {T \in SUBSET S : Total(f, T) = Total(f, T \cap U)}
<1>1. \A T \in SUBSET S : IsFiniteSet(T) /\ \A x \in T : f[x] \in Int
  BY FS_Subset
<1>2. {} \in Good
  OBVIOUS
<1>3. ASSUME NEW T \in SUBSET S, T # {}, \A x \in T : T \ {x} \in Good
      PROVE  T \in Good
  <2>1. PICK x : x \in T
    BY <1>3
  <2>2. Total(f, T) = f[x] + Total(f, T \ {x})
    BY <1>1, <2>1, TotalRemove
  <2>3. Total(f, T \ {x}) = Total(f, (T \ {x}) \cap U)
    BY <1>3, <2>1
  <2>4. CASE x \in U
    <3>1. T \cap U \in SUBSET S /\ x \in T \cap U /\ (T \cap U) \ {x} = (T \ {x}) \cap U
      BY <2>1, <2>4
    <3>2. Total(f, T \cap U) = f[x] + Total(f, (T \cap U) \ {x})
      BY <1>1, <3>1, TotalRemove
    <3>3. QED
      BY <2>2, <2>3, <3>1, <3>2
  <2>5. CASE x \notin U
    <3>1. f[x] = 0 /\ (T \ {x}) \cap U = T \cap U /\ T \cap U \in SUBSET S
      BY <2>1, <2>5
    <3>2. Total(f, T \cap U) \in Int
      BY <1>1, <3>1, TotalInt
    <3>3. Total(f, T \ {x}) = Total(f, T \cap U)
      BY <2>3, <3>1
    <3>4. Total(f, T) = Total(f, T \cap U)
      BY <2>2, <3>1, <3>2, <3>3
    <3>5. QED
      BY <3>4
  <2>6. QED
    BY <2>4, <2>5
<1>4. SUBSET S \subseteq Good
  <2> HIDE DEF Good
  <2> QED
    BY <1>2, <1>3, SubsetInduction
<1>5. S \cap U = U
  OBVIOUS
<1>6. QED
  BY <1>4, <1>5

(* The total over a set whose elements another set indexes one to one. *)
LEMMA TotalReindex ==
  ASSUME NEW S, IsFiniteSet(S), NEW h, \A x, y \in S : h[x] = h[y] => x = y,
         NEW f, NEW k, \A x \in S : k[x] \in Int /\ f[h[x]] = k[x]
  PROVE  /\ IsFiniteSet({h[x] : x \in S})
         /\ Total(f, {h[x] : x \in S}) = Total(k, S)
<1> DEFINE Image(T) == {h[x] : x \in T}
           Fits(T) == IsFiniteSet(Image(T)) /\ Total(f, Image(T)) = Total(k, T)
           Good == {T \in SUBSET S : Fits(T)}
<1>1. \A T \in SUBSET S : IsFiniteSet(T) /\ \A x \in T : k[x] \in Int
  BY FS_Subset
<1>2. {} \in Good
  BY TotalEmpty, FS_EmptySet
<1>3. ASSUME NEW T \in SUBSET S, T # {}, \A x \in T : T \ {x} \in Good
      PROVE  T \in Good
  <2>1. PICK x : x \in T
    BY <1>3
  <2>2. Total(k, T) = k[x] + Total(k, T \ {x})
    BY <1>1, <2>1, TotalRemove
  <2>3. IsFiniteSet(Image(T \ {x})) /\ Total(f, Image(T \ {x})) = Total(k, T \ {x})
    BY <1>3, <2>1
  <2>4. Image(T) = Image(T \ {x}) \cup {h[x]} /\ h[x] \notin Image(T \ {x})
    BY <2>1
  <2>5. \A y \in Image(T \ {x}) \cup {h[x]} : f[y] \in Int
    BY <2>1
  <2>6. /\ IsFiniteSet(Image(T \ {x}) \cup {h[x]})
        /\ Total(f, Image(T \ {x}) \cup {h[x]}) = f[h[x]] + Total(f, Image(T \ {x}))
    <3> HIDE DEF Image
    <3> QED
      BY <2>3, <2>4, <2>5, TotalInsert
  <2>7. Fits(T)
    BY <2>1, <2>2, <2>3, <2>4, <2>6
  <2>8. QED
    <3> HIDE DEF Fits
    <3> QED
      BY <2>7
<1>4. SUBSET S \subseteq Good
  <2> HIDE DEF Good
  <2> QED
    BY <1>2, <1>3, SubsetInduction
<1>5. QED
  BY <1>4

(* Leaving terms out does not increase a total of numbers. *)
LEMMA TotalSubset ==
  ASSUME NEW S, IsFiniteSet(S), NEW f, \A x \in S : f[x] \in Nat, NEW U \in SUBSET S
  PROVE  Total(f, U) <= Total(f, S)
<1> DEFINE Good == {T \in SUBSET S : Total(f, T \cap U) <= Total(f, T)}
<1>1. \A T \in SUBSET S : IsFiniteSet(T) /\ \A x \in T : f[x] \in Int
  BY FS_Subset
<1>2. {} \in Good
  BY TotalEmpty
<1>3. ASSUME NEW T \in SUBSET S, T # {}, \A x \in T : T \ {x} \in Good
      PROVE  T \in Good
  <2>1. PICK x : x \in T
    BY <1>3
  <2>2. Total(f, T) = f[x] + Total(f, T \ {x}) /\ f[x] \in Nat
    BY <1>1, <2>1, TotalRemove
  <2>3. Total(f, (T \ {x}) \cap U) <= Total(f, T \ {x})
    BY <1>3, <2>1
  <2>4. /\ Total(f, T \ {x}) \in Int /\ Total(f, (T \ {x}) \cap U) \in Int
        /\ T \ {x} \in SUBSET S /\ T \cap U \in SUBSET S
    <3>1. T \ {x} \in SUBSET S /\ (T \ {x}) \cap U \in SUBSET S /\ T \cap U \in SUBSET S
      OBVIOUS
    <3>2. QED
      BY <1>1, <3>1, TotalInt
  <2>5. CASE x \in U
    <3>1. x \in T \cap U /\ (T \cap U) \ {x} = (T \ {x}) \cap U
      BY <2>1, <2>5
    <3>2. Total(f, T \cap U) = f[x] + Total(f, (T \cap U) \ {x})
      BY <1>1, <2>4, <3>1, TotalRemove
    <3>3. Total(f, T \cap U) = f[x] + Total(f, (T \ {x}) \cap U)
      BY <3>1, <3>2
    <3>4. Total(f, T \cap U) <= Total(f, T)
      BY <2>2, <2>3, <2>4, <3>3
    <3>5. QED
      BY <3>4
  <2>6. CASE x \notin U
    <3>1. (T \ {x}) \cap U = T \cap U
      BY <2>6
    <3>2. Total(f, T \cap U) <= Total(f, T \ {x})
      BY <2>3, <3>1
    <3>3. Total(f, T \cap U) \in Int
      BY <2>4, <3>1
    <3>4. Total(f, T \cap U) <= Total(f, T)
      BY <2>2, <2>4, <3>2, <3>3
    <3>5. QED
      BY <3>4
  <2>7. QED
    BY <2>5, <2>6
<1>4. SUBSET S \subseteq Good
  <2> HIDE DEF Good
  <2> QED
    BY <1>2, <1>3, SubsetInduction
<1>5. S \cap U = U
  OBVIOUS
<1>6. QED
  BY <1>4, <1>5

(* A non-empty finite set has an element whose stamp no other exceeds. *)
LEMMA LatestExists ==
  ASSUME NEW S, IsFiniteSet(S), NEW stamp, \A x \in S : stamp[x] \in Int, S # {}
  PROVE  \E x \in S : \A y \in S : stamp[y] <= stamp[x]
<1> DEFINE Has(T) == \E x \in T : \A y \in T : stamp[y] <= stamp[x]
           Good == {T \in SUBSET S : T = {} \/ Has(T)}
<1>1. {} \in Good
  OBVIOUS
<1>2. ASSUME NEW T \in SUBSET S, T # {}, \A x \in T : T \ {x} \in Good
      PROVE  T \in Good
  <2>1. PICK x : x \in T
    BY <1>2
  <2>2. T \ {x} = {} \/ Has(T \ {x})
    BY <1>2, <2>1
  <2>3. Has(T)
    <3>1. CASE T \ {x} = {}
      <4>1. \A y \in T : y = x
        BY <3>1
      <4>2. QED
        BY <2>1, <4>1
    <3>2. CASE Has(T \ {x})
      <4>1. PICK z \in T \ {x} : \A y \in T \ {x} : stamp[y] <= stamp[z]
        BY <3>2
      <4>2. CASE stamp[x] <= stamp[z]
        BY <2>1, <4>1, <4>2
      <4>3. CASE ~(stamp[x] <= stamp[z])
        BY <2>1, <4>1, <4>3
      <4>4. QED
        BY <4>2, <4>3
    <3>3. QED
      BY <2>2, <3>1, <3>2
  <2>4. QED
    <3> HIDE DEF Has
    <3> QED
      BY <2>3
<1>3. SUBSET S \subseteq Good
  <2> HIDE DEF Good
  <2> QED
    BY <1>1, <1>2, SubsetInduction
<1>4. QED
  BY <1>3


-----------------------------------------------------------------------------
(* Folds over a sequence: the function that FoldLeft evaluates, which takes  *)
(* the last element of a set of indices off first.                           *)

Largest(s) == CHOOSE x \in s : \A y \in s : x >= y

IsLeftFold(g, seq, base, step) ==
  g = [s \in SUBSET DOMAIN seq |->
         IF s = {} THEN base ELSE step[g[s \ {Largest(s)}], seq[Largest(s)]]]

LeftFold(seq, base, step) == (CHOOSE g : IsLeftFold(g, seq, base, step))[DOMAIN seq]

LEMMA LargestIsIn ==
  ASSUME NEW S, IsFiniteSet(S), S \subseteq Int, S # {}
  PROVE  Largest(S) \in S
<1> DEFINE stamp == [x \in S |-> x]
<1>1. \A x \in S : stamp[x] = x /\ stamp[x] \in Int
  OBVIOUS
<1> HIDE DEF stamp
<1>2. \E x \in S : \A y \in S : stamp[y] <= stamp[x]
  BY <1>1, LatestExists
<1>3. \E x \in S : \A y \in S : x >= y
  BY <1>1, <1>2
<1> QED BY <1>3, Zenon DEF Largest

LEMMA LargestOfInterval ==
  ASSUME NEW n \in Nat
  PROVE  /\ Largest(1 .. n + 1) = n + 1
         /\ (1 .. n + 1) \ {Largest(1 .. n + 1)} = 1 .. n
<1>1. n + 1 \in 1 .. n + 1 /\ \A y \in 1 .. n + 1 : n + 1 >= y
  OBVIOUS
<1>2. \A x \in 1 .. n + 1 : (\A y \in 1 .. n + 1 : x >= y) => x = n + 1
  BY <1>1
<1>3. Largest(1 .. n + 1) = n + 1
  BY <1>1, <1>2 DEF Largest
<1> QED BY <1>3

LEMMA LeftFoldExists ==
  ASSUME NEW E, NEW seq \in Seq(E), NEW V, NEW base \in V, NEW step \in [V \X E -> V]
  PROVE  \E g \in [SUBSET DOMAIN seq -> V] : IsLeftFold(g, seq, base, step)
<1> DEFINE S == DOMAIN seq
           ch == [s \in SUBSET S |-> Largest(s)]
           put == [q \in S \X V |-> step[q[2], seq[q[1]]]]
<1>1. S = 1 .. Len(seq) /\ Len(seq) \in Nat /\ \A i \in S : seq[i] \in E
  OBVIOUS
<1>2. IsFiniteSet(S) /\ S \subseteq Int
  <2>1. IsFiniteSet(1 .. Len(seq))
    BY <1>1, FS_Interval
  <2> QED BY <1>1, <2>1
<1> HIDE DEF S
<1>3. \A s \in SUBSET S : s # {} => Largest(s) \in s
  <2> TAKE s \in SUBSET S
  <2>1. IsFiniteSet(s) /\ s \subseteq Int
    BY <1>2, FS_Subset
  <2> QED BY <2>1, LargestIsIn
<1>4. \A s \in SUBSET S : ch[s] = Largest(s)
  OBVIOUS
<1>5. put \in [S \X V -> V] /\ \A i \in S, v \in V : put[i, v] = step[v, seq[i]]
  BY <1>1
<1> HIDE DEF ch, put
<1>6. PICK g \in [SUBSET S -> V] : IsFold(g, S, ch, base, put)
  <2>1. \A s \in SUBSET S : s # {} => ch[s] \in s
    BY <1>3, <1>4
  <2>2. put \in [S \X V -> V]
    BY <1>5
  <2> QED BY <1>2, <2>1, <2>2, FoldExists
<1>7. ASSUME NEW s \in SUBSET S
      PROVE  (IF s = {} THEN base ELSE put[ch[s], g[s \ {ch[s]}]])
               = IF s = {} THEN base ELSE step[g[s \ {Largest(s)}], seq[Largest(s)]]
  <2>1. CASE s = {}
    BY <2>1
  <2>2. CASE s # {}
    <3>1. Largest(s) \in S /\ s \ {Largest(s)} \in SUBSET S
      BY <1>3, <2>2
    <3>2. g[s \ {Largest(s)}] \in V
      BY <3>1
    <3> QED BY <1>4, <1>5, <2>2, <3>1, <3>2
  <2> QED BY <2>1, <2>2
<1>8. g = [s \in SUBSET S |-> IF s = {} THEN base ELSE put[ch[s], g[s \ {ch[s]}]]]
  BY <1>6 DEF IsFold
<1>9. g = [s \in SUBSET S |-> IF s = {} THEN base
                              ELSE step[g[s \ {Largest(s)}], seq[Largest(s)]]]
  BY <1>7, <1>8, Zenon
<1> QED BY <1>9 DEF IsLeftFold, S

LEMMA LeftFoldEmpty ==
  ASSUME NEW V, NEW base \in V, NEW E, NEW step \in [V \X E -> V]
  PROVE  LeftFold(<<>>, base, step) = base
<1> DEFINE seq == <<>>
<1>1. seq \in Seq(E) /\ DOMAIN seq = {}
  OBVIOUS
<1> HIDE DEF seq
<1>2. \E g : IsLeftFold(g, seq, base, step)
  BY <1>1, LeftFoldExists
<1> DEFINE g == CHOOSE g : IsLeftFold(g, seq, base, step)
<1>3. IsLeftFold(g, seq, base, step)
  BY <1>2
<1>4. LeftFold(seq, base, step) = g[DOMAIN seq]
  BY DEF LeftFold
<1> HIDE DEF g
<1>5. g[{}] = base
  BY <1>1, <1>3 DEF IsLeftFold
<1>6. LeftFold(seq, base, step) = base
  BY <1>1, <1>4, <1>5
<1> QED BY <1>6 DEF seq

(* The last element is folded in last. *)
FoldsOn(V, E, base, step, seq, e) ==
  /\ LeftFold(seq, base, step) \in V /\ e \in E
  /\ LeftFold(Append(seq, e), base, step) = step[LeftFold(seq, base, step), e]

LEMMA LeftFoldAppend ==
  ASSUME NEW V, NEW base \in V, NEW E, NEW step \in [V \X E -> V],
         NEW seq \in Seq(E), NEW e \in E
  PROVE  FoldsOn(V, E, base, step, seq, e)
<1> DEFINE more == Append(seq, e)
           n == Len(seq)
           g == CHOOSE g : IsLeftFold(g, seq, base, step)
           h == CHOOSE h : IsLeftFold(h, more, base, step)
           Good == {k \in Nat : k <= n => g[1 .. k] = h[1 .. k] /\ g[1 .. k] \in V}
<1>1. /\ n \in Nat /\ DOMAIN seq = 1 .. n /\ DOMAIN more = 1 .. n + 1
      /\ more \in Seq(E) /\ more[n + 1] = e /\ \A i \in 1 .. n : more[i] = seq[i] /\ seq[i] \in E
  OBVIOUS
<1>2. LeftFold(seq, base, step) = g[1 .. n] /\ LeftFold(more, base, step) = h[1 .. n + 1]
  BY <1>1 DEF LeftFold
<1> HIDE DEF more, n
<1>3. IsLeftFold(g, seq, base, step)
  <2>1. \E q : IsLeftFold(q, seq, base, step)
    BY LeftFoldExists
  <2> QED BY <2>1
<1>4. IsLeftFold(h, more, base, step)
  <2>1. \E q : IsLeftFold(q, more, base, step)
    BY <1>1, LeftFoldExists
  <2> QED BY <2>1
<1> HIDE DEF g, h
<1>5. \A s \in SUBSET (1 .. n) :
        g[s] = IF s = {} THEN base ELSE step[g[s \ {Largest(s)}], seq[Largest(s)]]
  BY <1>1, <1>3 DEF IsLeftFold
<1>6. \A s \in SUBSET (1 .. n + 1) :
        h[s] = IF s = {} THEN base ELSE step[h[s \ {Largest(s)}], more[Largest(s)]]
  BY <1>1, <1>4 DEF IsLeftFold
<1>7. 0 \in Good
  <2>1. 1 .. 0 = {} /\ {} \in SUBSET (1 .. n) /\ {} \in SUBSET (1 .. n + 1)
    OBVIOUS
  <2>2. g[{}] = base /\ h[{}] = base
    BY <1>5, <1>6, <2>1
  <2> QED BY <2>1, <2>2
<1>8. ASSUME NEW k \in Nat, k \in Good
      PROVE  k + 1 \in Good
  <2> SUFFICES ASSUME k + 1 <= n
               PROVE  g[1 .. k + 1] = h[1 .. k + 1] /\ g[1 .. k + 1] \in V
    OBVIOUS
  <2>1. g[1 .. k] = h[1 .. k] /\ g[1 .. k] \in V
    BY <1>1, <1>8
  <2>2. /\ 1 .. k + 1 \in SUBSET (1 .. n) /\ 1 .. k + 1 \in SUBSET (1 .. n + 1)
        /\ 1 .. k + 1 # {} /\ k + 1 \in 1 .. n
    <3>1. k + 1 \in 1 .. k + 1 /\ k + 1 \in 1 .. n
      BY <1>1
    <3>2. \A i \in 1 .. k + 1 : i \in 1 .. n /\ i \in 1 .. n + 1
      BY <1>1
    <3> QED BY <3>1, <3>2
  <2>3. Largest(1 .. k + 1) = k + 1 /\ (1 .. k + 1) \ {Largest(1 .. k + 1)} = 1 .. k
    BY LargestOfInterval
  <2>4. g[1 .. k + 1] = step[g[1 .. k], seq[k + 1]]
    BY <1>5, <2>2, <2>3
  <2>5. h[1 .. k + 1] = step[h[1 .. k], more[k + 1]]
    BY <1>6, <2>2, <2>3
  <2>6. more[k + 1] = seq[k + 1] /\ seq[k + 1] \in E
    BY <1>1, <2>2
  <2> QED BY <2>1, <2>4, <2>5, <2>6
<1>9. n \in Good
  <2> HIDE DEF Good
  <2>1. Nat \subseteq Good
    BY <1>7, <1>8, NumberInduction
  <2> QED BY <1>1, <2>1
<1>10. g[1 .. n] = h[1 .. n] /\ g[1 .. n] \in V
  BY <1>1, <1>9
<1>11. h[1 .. n + 1] = step[h[1 .. n], more[n + 1]]
  <2>1. 1 .. n + 1 \in SUBSET (1 .. n + 1) /\ 1 .. n + 1 # {}
    BY <1>1
  <2>2. Largest(1 .. n + 1) = n + 1 /\ (1 .. n + 1) \ {Largest(1 .. n + 1)} = 1 .. n
    BY <1>1, LargestOfInterval
  <2> QED BY <1>6, <2>1, <2>2
<1>12. LeftFold(more, base, step) = step[LeftFold(seq, base, step), e]
  BY <1>1, <1>2, <1>10, <1>11
<1> QED BY <1>2, <1>10, <1>12 DEF more, FoldsOn

(* What a fold computes stays among the values that a step leads to.         *)
LEMMA FoldValues ==
  ASSUME NEW E, NEW seq \in Seq(E), NEW V, NEW h, h[{}] \in V,
         \A s \in SUBSET DOMAIN seq : s # {} /\ h[s \ {Largest(s)}] \in V => h[s] \in V
  PROVE  /\ \A s \in SUBSET DOMAIN seq : h[s] \in V
         /\ \A s \in SUBSET DOMAIN seq : s # {} =>
              Largest(s) \in DOMAIN seq /\ h[s \ {Largest(s)}] \in V
<1> DEFINE S == DOMAIN seq
           Good == {s \in SUBSET S : h[s] \in V}
<1>1. IsFiniteSet(S) /\ S \subseteq Int
  <2>1. S = 1 .. Len(seq) /\ Len(seq) \in Nat
    OBVIOUS
  <2>2. IsFiniteSet(1 .. Len(seq))
    BY <2>1, FS_Interval
  <2> QED BY <2>1, <2>2
<1>2. \A s \in SUBSET S : s # {} /\ h[s \ {Largest(s)}] \in V => h[s] \in V
  OBVIOUS
<1> HIDE DEF S
<1>3. \A s \in SUBSET S : s # {} => Largest(s) \in s
  <2> TAKE s \in SUBSET S
  <2>1. IsFiniteSet(s) /\ s \subseteq Int
    BY <1>1, FS_Subset
  <2> QED BY <2>1, LargestIsIn
<1>4. {} \in Good
  OBVIOUS
<1>5. ASSUME NEW T \in SUBSET S, T # {}, \A x \in T : T \ {x} \in Good
      PROVE  T \in Good
  BY <1>2, <1>3, <1>5
<1>6. SUBSET S \subseteq Good
  <2> HIDE DEF Good
  <2> QED BY <1>1, <1>4, <1>5, SubsetInduction
<1>7. \A s \in SUBSET S : h[s] \in V
  BY <1>6
<1>8. \A s \in SUBSET S : s # {} => Largest(s) \in S /\ h[s \ {Largest(s)}] \in V
  BY <1>3, <1>7
<1> QED BY <1>7, <1>8 DEF S

LEMMA LeftFoldIs ==
  ASSUME NEW E, NEW seq \in Seq(E), NEW base, NEW step, NEW g, IsLeftFold(g, seq, base, step)
  PROVE  LeftFold(seq, base, step) = g[DOMAIN seq]
<1> DEFINE S == DOMAIN seq
           h == CHOOSE h : IsLeftFold(h, seq, base, step)
           Good == {s \in SUBSET S : h[s] = g[s]}
<1>1. IsFiniteSet(S) /\ S \subseteq Int
  <2>1. S = 1 .. Len(seq) /\ Len(seq) \in Nat
    OBVIOUS
  <2>2. IsFiniteSet(1 .. Len(seq))
    BY <2>1, FS_Interval
  <2> QED BY <2>1, <2>2
<1>2. IsLeftFold(h, seq, base, step)
  OBVIOUS
<1>3. LeftFold(seq, base, step) = h[S]
  BY DEF LeftFold
<1> HIDE DEF h
<1>4. \A s \in SUBSET S :
        /\ g[s] = IF s = {} THEN base ELSE step[g[s \ {Largest(s)}], seq[Largest(s)]]
        /\ h[s] = IF s = {} THEN base ELSE step[h[s \ {Largest(s)}], seq[Largest(s)]]
  BY <1>2 DEF IsLeftFold
<1> HIDE DEF S
<1>5. {} \in Good
  BY <1>4
<1>6. ASSUME NEW T \in SUBSET S, T # {}, \A x \in T : T \ {x} \in Good
      PROVE  T \in Good
  <2>1. IsFiniteSet(T) /\ T \subseteq Int
    BY <1>1, FS_Subset
  <2>2. Largest(T) \in T
    BY <1>6, <2>1, LargestIsIn
  <2> QED BY <1>4, <1>6, <2>2
<1>7. SUBSET S \subseteq Good
  <2> HIDE DEF Good
  <2> QED BY <1>1, <1>5, <1>6, SubsetInduction
<1>8. h[S] = g[S]
  BY <1>7
<1> QED BY <1>3, <1>8 DEF S

(* The sum of a sequence of numbers. *)
LEMMA SeqSum ==
  ASSUME NEW q \in Seq(Nat)
  PROVE  FoldFunction(+, 0, q) \in Nat
<1> DEFINE S == DOMAIN q
           Sums(g) == g = [s \in SUBSET S |-> IF s = {} THEN 0
                             ELSE q[CHOOSE x \in s : TRUE] + g[s \ {CHOOSE x \in s : TRUE}]]
           sum == CHOOSE g : Sums(g)
<1>1. IsFiniteSet(S) /\ \A i \in S : q[i] \in Nat /\ q[i] \in Int
  <2>1. S = 1 .. Len(q) /\ Len(q) \in Nat
    OBVIOUS
  <2>2. IsFiniteSet(1 .. Len(q))
    BY <2>1, FS_Interval
  <2> QED BY <2>1, <2>2
<1> HIDE DEF S
<1>2. ASSUME NEW g PROVE Sums(g) <=> IsSum(g, S, q)
  BY DEF IsSum, Some
<1>3. \E g : IsSum(g, S, q)
  BY <1>1, SumExists
<1>4. IsSum(sum, S, q)
  <2> HIDE DEF Sums
  <2>1. Sums(sum)
    BY <1>2, <1>3, Zenon
  <2> QED BY <1>2, <2>1
<1>5. FoldFunction(+, 0, q) = sum[S]
  BY DEF FoldFunction, FoldFunctionOnSet, MapThenFoldSet, S
<1> HIDE DEF sum, Sums
<1>6. Total(q, S) = sum[S]
  BY <1>1, <1>4, TotalIs
<1>7. Total(q, S) \in Nat
  BY <1>1, TotalNat
<1> QED BY <1>5, <1>6, <1>7, Zenon
=============================================================================
