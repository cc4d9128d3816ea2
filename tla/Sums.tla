-------------------------------- MODULE Sums --------------------------------
(***************************************************************************)
(* Sums over finite sets, for the proofs about money.  The specifications  *)
(* add up with the folds of the community modules, which take the elements *)
(* in an order of their own; here it is shown that the order makes no      *)
(* difference, and what a sum is when a set grows, shrinks or is split.    *)
(*                                                                         *)
(* The induction is over the subsets of a finite set, with a set of good   *)
(* ones in the place of a predicate.                                       *)
(***************************************************************************)
EXTENDS Integers, Sequences, FiniteSetTheorems, WellFoundedInduction, TLAPS

OneOf(S) == CHOOSE x \in S : TRUE

(* g adds up f over each subset of S.                                      *)
IsSum(g, f, S) ==
    g = [T \in SUBSET S |-> IF T = {} THEN 0 ELSE f[OneOf(T)] + g[T \ {OneOf(T)}]]

SumOfSubsets(f, S) == CHOOSE g : IsSum(g, f, S)

Total(f, S) == SumOfSubsets(f, S)[S]

-----------------------------------------------------------------------------
(* Induction.                                                              *)

(* A set of subsets that has every subset whose proper subsets it has, has *)
(* them all.                                                               *)
LEMMA SubsetInduction ==
    ASSUME NEW S, IsFiniteSet(S), NEW Good,
           \A T \in SUBSET S : (\A U \in SUBSET T : U # T => U \in Good) => T \in Good
    PROVE  \A T \in SUBSET S : T \in Good
<1> DEFINE Bad == {T \in SUBSET S : T \notin Good}
<1>1. SUFFICES ASSUME Bad # {} PROVE FALSE
    OBVIOUS
<1>2. IsWellFoundedOn(StrictSubsetOrdering(S), SUBSET S)
    BY FS_StrictSubsetOrderingWellFounded, FS_FiniteSubsetsOfFinite
<1>3. PICK T \in Bad : \A U \in Bad : ~ (<<U, T>> \in StrictSubsetOrdering(S))
    <2>1. Bad \subseteq SUBSET S
        OBVIOUS
    <2> HIDE DEF Bad
    <2>2. QED
        BY <1>1, <1>2, <2>1, WFMin
<1>4. ASSUME NEW U \in SUBSET T, U # T PROVE U \in Good
    BY <1>3, <1>4 DEF StrictSubsetOrdering
<1>5. QED
    BY <1>3, <1>4

(* Induction over the numbers, with a set in the place of a predicate too. *)
LEMMA NatSetInduction ==
    ASSUME NEW Good, 0 \in Good, \A n \in Nat : n \in Good => n + 1 \in Good
    PROVE  \A n \in Nat : n \in Good
<1> SUFFICES ASSUME NEW n \in Nat PROVE n \in Good
    OBVIOUS
<1> DEFINE S == 0..n
           Segments == {T \in SUBSET S : \A m \in S : T = 0..m => m \in Good}
<1>1. IsFiniteSet(S)
    BY FS_Interval
<1>2. ASSUME NEW T \in SUBSET S, \A U \in SUBSET T : U # T => U \in Segments
      PROVE  T \in Segments
    <2> SUFFICES ASSUME NEW m \in S, T = 0..m PROVE m \in Good
        OBVIOUS
    <2>1. CASE m = 0
        BY <2>1
    <2>2. CASE m # 0
        <3>1. m - 1 \in S /\ m - 1 \in Nat /\ (m - 1) + 1 = m
            BY <2>2
        <3>2. 0..m - 1 \in SUBSET T /\ m \in T /\ m \notin 0..m - 1
            OBVIOUS
        <3>3. 0..m - 1 \in Segments
            BY <1>2, <3>2
        <3>4. QED
            BY <3>1, <3>3
    <2>3. QED
        BY <2>1, <2>2
<1> HIDE DEF Segments, S
<1>3. S \in Segments
    BY <1>1, <1>2, SubsetInduction
<1>4. QED
    BY <1>3 DEF Segments, S

(* f puts the first n of the lists one behind the other.                   *)
Joins(n, f, lists) ==
    f = [i \in 1..n |-> IF i = 1 THEN lists[i] ELSE f[i - 1] \o lists[i]]

(* FlattenSeq is defined by such a function; there is one.                 *)
LEMMA JoinsExists ==
    ASSUME NEW lists, NEW n \in Nat
    PROVE  Joins(n, CHOOSE f : Joins(n, f, lists), lists)
<1> DEFINE Good == {m \in Nat : \E f : Joins(m, f, lists)}
<1>1. 0 \in Good
    <2>1. Joins(0, [i \in 1..0 |-> 0], lists)
        BY DEF Joins
    <2> QED BY <2>1
<1>2. ASSUME NEW m \in Nat, m \in Good PROVE m + 1 \in Good
    <2>1. PICK f : Joins(m, f, lists)
        BY <1>2
    <2> DEFINE g == [i \in 1..m + 1 |-> IF i = 1 THEN lists[i] ELSE f[i - 1] \o lists[i]]
    <2>2. ASSUME NEW i \in 1..m PROVE g[i] = f[i]
        <3>1. f[i] = IF i = 1 THEN lists[i] ELSE f[i - 1] \o lists[i]
            BY <2>1 DEF Joins
        <3>2. i \in 1..m + 1
            OBVIOUS
        <3> QED BY <3>1, <3>2
    <2>3. ASSUME NEW i \in 1..m + 1
          PROVE  g[i] = IF i = 1 THEN lists[i] ELSE g[i - 1] \o lists[i]
        <3>1. CASE i = 1
            BY <3>1
        <3>2. CASE i # 1
            <4>1. i - 1 \in 1..m
                BY <3>2
            <4>2. g[i - 1] = f[i - 1]
                BY <2>2, <4>1
            <4> QED BY <3>2, <4>2
        <3> QED BY <3>1, <3>2
    <2>4. g = [i \in 1..m + 1 |-> IF i = 1 THEN lists[i] ELSE g[i - 1] \o lists[i]]
        BY <2>3
    <2>5. Joins(m + 1, g, lists)
        <3> HIDE DEF g
        <3> QED BY <2>4 DEF Joins
    <2> HIDE DEF g
    <2> QED BY <2>5
<1>3. n \in Good
    <2> HIDE DEF Good
    <2> QED BY <1>1, <1>2, NatSetInduction
<1> QED BY <1>3

-----------------------------------------------------------------------------
(* The recursion has a solution, and only one.                             *)

(* A set that has elements has the one that is taken first.                *)
LEMMA OneOfIsElement == ASSUME NEW S, S # {} PROVE OneOf(S) \in S
BY DEF OneOf

(* One step of the recursion.                                              *)
LEMMA SumAt ==
    ASSUME NEW f, NEW S, NEW g, IsSum(g, f, S), NEW T \in SUBSET S
    PROVE  g[T] = IF T = {} THEN 0 ELSE f[OneOf(T)] + g[T \ {OneOf(T)}]
BY DEF IsSum

(* Sums over different sets agree on the subsets they share.               *)
LEMMA SumUnique ==
    ASSUME NEW f, NEW S, IsFiniteSet(S), NEW g, IsSum(g, f, S),
           NEW R \in SUBSET S, NEW h, IsSum(h, f, R)
    PROVE  \A T \in SUBSET R : g[T] = h[T]
<1> DEFINE Good == {T \in SUBSET R : g[T] = h[T]}
<1>1. IsFiniteSet(R)
    BY FS_Subset
<1>2. ASSUME NEW T \in SUBSET R, \A U \in SUBSET T : U # T => U \in Good
      PROVE  T \in Good
    <2>1. CASE T = {}
        BY <2>1, SumAt
    <2>2. CASE T # {}
        <3>1. OneOf(T) \in T
            BY <2>2, OneOfIsElement
        <3>2. T \ {OneOf(T)} \in Good
            BY <1>2, <3>1
        <3>3. T \in SUBSET S
            OBVIOUS
        <3>4. g[T] = f[OneOf(T)] + g[T \ {OneOf(T)}]
            BY <2>2, <3>3, SumAt
        <3>5. h[T] = f[OneOf(T)] + h[T \ {OneOf(T)}]
            BY <2>2, SumAt
        <3>6. QED
            BY <3>2, <3>4, <3>5
    <2>3. QED
        BY <2>1, <2>2
<1> HIDE DEF Good
<1>3. \A T \in SUBSET R : T \in Good
    BY <1>1, <1>2, SubsetInduction
<1>4. QED
    BY <1>3 DEF Good

(* Every function has sums over every finite set.                          *)
LEMMA SumExists ==
    ASSUME NEW f, NEW S, IsFiniteSet(S)
    PROVE  IsSum(SumOfSubsets(f, S), f, S)
<1> DEFINE Good == {T \in SUBSET S : \E g : IsSum(g, f, T)}
<1>1. ASSUME NEW T \in SUBSET S, \A U \in SUBSET T : U # T => U \in Good
      PROVE  T \in Good
    <2> DEFINE rest(U) == U \ {OneOf(U)}
               g == [U \in SUBSET T |-> IF U = {} THEN 0 ELSE f[OneOf(U)] + Total(f, rest(U))]
    <2>1. ASSUME NEW U \in SUBSET T, U # T
          PROVE  IsSum(SumOfSubsets(f, U), f, U)
        BY <1>1, <2>1 DEF SumOfSubsets
    <2>2. ASSUME NEW U \in SUBSET T, U # T
          PROVE  Total(f, U) = IF U = {} THEN 0 ELSE f[OneOf(U)] + Total(f, rest(U))
        <3>1. CASE U = {}
            BY <2>1, <2>2, <3>1, SumAt DEF Total
        <3>2. CASE U # {}
            <4>1. rest(U) \in SUBSET U /\ rest(U) \in SUBSET T /\ rest(U) # T
                BY <2>2, <3>2, OneOfIsElement
            <4>2. IsSum(SumOfSubsets(f, U), f, U) /\ IsSum(SumOfSubsets(f, rest(U)), f, rest(U))
                BY <2>1, <2>2, <4>1
            <4>3. IsFiniteSet(U)
                BY FS_Subset
            <4>4. SumOfSubsets(f, U)[rest(U)] = Total(f, rest(U))
                <5>1. PICK R : R = rest(U)
                    OBVIOUS
                <5>2. PICK h, k : h = SumOfSubsets(f, U) /\ k = SumOfSubsets(f, R)
                    OBVIOUS
                <5>3. R \in SUBSET U /\ R \in SUBSET R /\ IsSum(h, f, U) /\ IsSum(k, f, R)
                    BY <4>1, <4>2, <5>1, <5>2
                <5>4. h[R] = k[R]
                    BY <4>3, <5>3, SumUnique
                <5>5. QED
                    BY <5>1, <5>2, <5>4 DEF Total
            <4>5. Total(f, U) = f[OneOf(U)] + SumOfSubsets(f, U)[rest(U)]
                BY <3>2, <4>2, SumAt DEF Total
            <4>6. QED
                BY <3>2, <4>4, <4>5
        <3>3. QED
            BY <3>1, <3>2
    <2>3. ASSUME NEW U \in SUBSET T, U # {}
          PROVE  g[rest(U)] = Total(f, rest(U))
        <3>1. rest(U) \in SUBSET T /\ rest(U) # T
            BY <2>3, OneOfIsElement
        <3>2. QED
            BY <2>2, <3>1
    <2>4. g = [U \in SUBSET T |-> IF U = {} THEN 0 ELSE f[OneOf(U)] + g[U \ {OneOf(U)}]]
        BY <2>3
    <2>5. IsSum(g, f, T)
        <3> HIDE DEF g
        <3>1. QED
            BY <2>4 DEF IsSum
    <2>6. QED
        BY <2>5
<1> HIDE DEF Good
<1>2. S \in Good
    BY <1>1, SubsetInduction
<1>3. QED
    BY <1>2 DEF Good, SumOfSubsets

-----------------------------------------------------------------------------
(* What a sum is.                                                          *)

(* The sum of nothing.                                                     *)
LEMMA TotalEmpty == ASSUME NEW f PROVE Total(f, {}) = 0
BY SumExists, SumAt, FS_EmptySet DEF Total

(* The first element, and then the rest.                                   *)
LEMMA TotalStep ==
    ASSUME NEW f, NEW S, IsFiniteSet(S), S # {}
    PROVE  Total(f, S) = f[OneOf(S)] + Total(f, S \ {OneOf(S)})
<1> DEFINE R == S \ {OneOf(S)}
<1>1. IsFiniteSet(R) /\ R \in SUBSET S
    BY FS_Subset
<1>2. IsSum(SumOfSubsets(f, S), f, S) /\ IsSum(SumOfSubsets(f, R), f, R)
    BY <1>1, SumExists
<1>3. SumOfSubsets(f, S)[R] = Total(f, R)
    <2> HIDE DEF R
    <2>1. SumOfSubsets(f, S)[R] = SumOfSubsets(f, R)[R]
        BY <1>1, <1>2, SumUnique
    <2>2. QED
        BY <2>1 DEF Total
<1>4. Total(f, S) = f[OneOf(S)] + SumOfSubsets(f, S)[R]
    BY <1>2, SumAt DEF Total
<1>5. QED
    BY <1>3, <1>4

(* Sums of integers are integers.                                          *)
LEMMA TotalInt ==
    ASSUME NEW f, NEW S, IsFiniteSet(S), \A x \in S : f[x] \in Int
    PROVE  Total(f, S) \in Int
<1> DEFINE Good == {T \in SUBSET S : Total(f, T) \in Int}
<1>1. ASSUME NEW T \in SUBSET S, \A U \in SUBSET T : U # T => U \in Good
      PROVE  T \in Good
    <2>1. CASE T = {}
        BY <2>1, TotalEmpty
    <2>2. CASE T # {}
        <3>1. OneOf(T) \in T /\ IsFiniteSet(T)
            BY <2>2, OneOfIsElement, FS_Subset
        <3>2. T \ {OneOf(T)} \in Good
            BY <1>1, <3>1
        <3>3. Total(f, T) = f[OneOf(T)] + Total(f, T \ {OneOf(T)})
            BY <2>2, <3>1, TotalStep
        <3>4. QED
            BY <3>1, <3>2, <3>3
    <2>3. QED
        BY <2>1, <2>2
<1> HIDE DEF Good
<1>2. S \in Good
    BY <1>1, SubsetInduction
<1>3. QED
    BY <1>2 DEF Good

(* Any element may be taken first.                                         *)
THEOREM TotalRemove ==
    ASSUME NEW f, NEW S, IsFiniteSet(S), \A x \in S : f[x] \in Int, NEW y \in S
    PROVE  Total(f, S) = f[y] + Total(f, S \ {y})
<1> DEFINE Good == {T \in SUBSET S : \A x \in T : Total(f, T) = f[x] + Total(f, T \ {x})}
<1>1. ASSUME NEW T \in SUBSET S, \A U \in SUBSET T : U # T => U \in Good
      PROVE  T \in Good
    <2> SUFFICES ASSUME NEW x \in T
                 PROVE  Total(f, T) = f[x] + Total(f, T \ {x})
        OBVIOUS
    <2> DEFINE a == OneOf(T)
    <2>1. a \in T /\ IsFiniteSet(T)
        BY OneOfIsElement, FS_Subset
    <2>2. Total(f, T) = f[a] + Total(f, T \ {a})
        BY <2>1, TotalStep
    <2>3. CASE x = a
        BY <2>2, <2>3
    <2>4. CASE x # a
        <3> DEFINE rest == T \ {a, x}
        <3>1. (T \ {a}) \ {x} = rest /\ (T \ {x}) \ {a} = rest
            OBVIOUS
        <3>2. T \ {a} \in Good /\ T \ {x} \in Good
            BY <1>1, <2>1
        <3>3. x \in T \ {a} /\ a \in T \ {x}
            BY <2>1, <2>4
        <3>4. Total(f, T \ {a}) = f[x] + Total(f, rest) /\ Total(f, T \ {x}) = f[a] + Total(f, rest)
            BY <3>1, <3>2, <3>3
        <3>5. f[a] \in Int /\ f[x] \in Int /\ Total(f, rest) \in Int
            <4>1. IsFiniteSet(rest) /\ \A z \in rest : f[z] \in Int
                BY FS_Subset
            <4>2. QED
                BY <2>1, <4>1, TotalInt
        <3>6. QED
            BY <2>2, <3>4, <3>5
    <2>5. QED
        BY <2>3, <2>4
<1> HIDE DEF Good
<1>2. S \in Good
    BY <1>1, SubsetInduction
<1>3. QED
    BY <1>2 DEF Good

(* What is not in the set makes no difference.                             *)
LEMMA TotalSame ==
    ASSUME NEW f, NEW g, NEW S, IsFiniteSet(S), \A x \in S : f[x] = g[x]
    PROVE  Total(f, S) = Total(g, S)
<1> DEFINE Good == {T \in SUBSET S : Total(f, T) = Total(g, T)}
<1>1. ASSUME NEW T \in SUBSET S, \A U \in SUBSET T : U # T => U \in Good
      PROVE  T \in Good
    <2>1. CASE T = {}
        BY <2>1, TotalEmpty
    <2>2. CASE T # {}
        <3>1. OneOf(T) \in T /\ IsFiniteSet(T)
            BY <2>2, OneOfIsElement, FS_Subset
        <3>2. T \ {OneOf(T)} \in Good /\ f[OneOf(T)] = g[OneOf(T)]
            BY <1>1, <3>1
        <3>3. Total(f, T) = f[OneOf(T)] + Total(f, T \ {OneOf(T)})
            BY <2>2, <3>1, TotalStep
        <3>4. Total(g, T) = g[OneOf(T)] + Total(g, T \ {OneOf(T)})
            BY <2>2, <3>1, TotalStep
        <3>5. QED
            BY <3>2, <3>3, <3>4
    <2>3. QED
        BY <2>1, <2>2
<1> HIDE DEF Good
<1>2. S \in Good
    BY <1>1, SubsetInduction
<1>3. QED
    BY <1>2 DEF Good

(* A new element adds its value.                                           *)
LEMMA TotalAdd ==
    ASSUME NEW f, NEW S, IsFiniteSet(S), \A x \in S : f[x] \in Int,
           NEW y, y \notin S, f[y] \in Int
    PROVE  Total(f, S \cup {y}) = Total(f, S) + f[y]
<1> DEFINE T == S \cup {y}
<1>1. IsFiniteSet(T) /\ (\A x \in T : f[x] \in Int) /\ y \in T
    BY FS_AddElement
<1>2. T \ {y} = S
    OBVIOUS
<1>3. Total(f, S) \in Int
    BY TotalInt
<1> HIDE DEF T
<1>4. Total(f, T) = f[y] + Total(f, T \ {y})
    BY <1>1, TotalRemove
<1>5. Total(f, T) = Total(f, S) + f[y]
    <2>1. Total(f, T) = f[y] + Total(f, S)
        BY <1>2, <1>4, Zenon
    <2>2. QED
        BY <1>3, <2>1
<1>6. QED
    BY <1>5 DEF T

(* Sums of naturals are naturals.                                          *)
LEMMA TotalNat ==
    ASSUME NEW f, NEW S, IsFiniteSet(S), \A x \in S : f[x] \in Nat
    PROVE  Total(f, S) \in Nat
<1> DEFINE Good == {T \in SUBSET S : Total(f, T) \in Nat}
<1>1. ASSUME NEW T \in SUBSET S, \A U \in SUBSET T : U # T => U \in Good
      PROVE  T \in Good
    <2>1. CASE T = {}
        BY <2>1, TotalEmpty
    <2>2. CASE T # {}
        <3>1. OneOf(T) \in T /\ IsFiniteSet(T)
            BY <2>2, OneOfIsElement, FS_Subset
        <3>2. T \ {OneOf(T)} \in Good
            BY <1>1, <3>1
        <3>3. Total(f, T) = f[OneOf(T)] + Total(f, T \ {OneOf(T)})
            BY <2>2, <3>1, TotalStep
        <3>4. QED
            BY <3>1, <3>2, <3>3
    <2>3. QED
        BY <2>1, <2>2
<1> HIDE DEF Good
<1>2. S \in Good
    BY <1>1, SubsetInduction
<1>3. QED
    BY <1>2 DEF Good

(* A sum of zeros.                                                         *)
LEMMA TotalZero ==
    ASSUME NEW f, NEW S, IsFiniteSet(S), \A x \in S : f[x] = 0
    PROVE  Total(f, S) = 0
<1> DEFINE Good == {T \in SUBSET S : Total(f, T) = 0}
<1>1. ASSUME NEW T \in SUBSET S, \A U \in SUBSET T : U # T => U \in Good
      PROVE  T \in Good
    <2>1. CASE T = {}
        BY <2>1, TotalEmpty
    <2>2. CASE T # {}
        <3>1. OneOf(T) \in T /\ IsFiniteSet(T)
            BY <2>2, OneOfIsElement, FS_Subset
        <3>2. T \ {OneOf(T)} \in Good
            BY <1>1, <3>1
        <3>3. Total(f, T) = f[OneOf(T)] + Total(f, T \ {OneOf(T)})
            BY <2>2, <3>1, TotalStep
        <3> QED BY <3>1, <3>2, <3>3
    <2> QED BY <2>1, <2>2
<1> HIDE DEF Good
<1>2. S \in Good
    BY <1>1, SubsetInduction
<1> QED BY <1>2 DEF Good

(* A set may be split.                                                     *)
THEOREM TotalUnion ==
    ASSUME NEW f, NEW S, IsFiniteSet(S), NEW R, IsFiniteSet(R), S \cap R = {},
           \A x \in S \cup R : f[x] \in Int
    PROVE  Total(f, S \cup R) = Total(f, S) + Total(f, R)
<1> DEFINE Good == {T \in SUBSET R : Total(f, S \cup T) = Total(f, S) + Total(f, T)}
<1>1. ASSUME NEW T \in SUBSET R, \A U \in SUBSET T : U # T => U \in Good
      PROVE  T \in Good
    <2>0. IsFiniteSet(T) /\ IsFiniteSet(S \cup T)
        BY FS_Subset, FS_Union
    <2>1. Total(f, S) \in Int
        BY TotalInt
    <2>2. CASE T = {}
        <3>1. S \cup T = S
            BY <2>2
        <3>2. QED
            BY <2>1, <2>2, <3>1, TotalEmpty
    <2>3. CASE T # {}
        <3> DEFINE a == OneOf(T)
                   U == T \ {a}
        <3>1. a \in T
            BY <2>3, OneOfIsElement
        <3>2. U \in Good
            BY <1>1, <3>1
        <3>3. Total(f, T) = f[a] + Total(f, U)
            BY <2>0, <2>3, TotalStep
        <3>4. (S \cup T) \ {a} = S \cup U
            BY <3>1
        <3>5. Total(f, S \cup T) = f[a] + Total(f, (S \cup T) \ {a})
            BY <2>0, <3>1, TotalRemove
        <3>6. f[a] \in Int /\ Total(f, U) \in Int
            <4>1. IsFiniteSet(U) /\ \A x \in U : f[x] \in Int
                BY <2>0, FS_Subset
            <4>2. QED
                BY <3>1, <4>1, TotalInt
        <3>7. Total(f, S \cup U) = Total(f, S) + Total(f, U)
            BY <3>2
        <3>8. Total(f, S \cup T) = f[a] + Total(f, S \cup U)
            BY <3>4, <3>5, Zenon
        <3>9. Total(f, S \cup T) = Total(f, S) + Total(f, T)
            BY <2>1, <3>3, <3>6, <3>7, <3>8
        <3>10. QED
            BY <3>9
    <2>4. QED
        BY <2>2, <2>3
<1> HIDE DEF Good
<1>2. R \in Good
    BY <1>1, SubsetInduction
<1>3. QED
    BY <1>2 DEF Good

(* What is taken away.                                                     *)
LEMMA TotalWithout ==
    ASSUME NEW f, NEW S, IsFiniteSet(S), \A x \in S : f[x] \in Int, NEW R \in SUBSET S
    PROVE  /\ IsFiniteSet(R) /\ Total(f, R) \in Int
           /\ IsFiniteSet(S \ R) /\ Total(f, S \ R) \in Int
           /\ Total(f, S \ R) = Total(f, S) - Total(f, R)
<1>1. IsFiniteSet(R) /\ IsFiniteSet(S \ R)
    BY FS_Subset
<1>2. Total(f, R) \in Int /\ Total(f, S \ R) \in Int
    BY <1>1, TotalInt
<1>3. (S \ R) \cup R = S /\ (S \ R) \cap R = {} /\ \A x \in (S \ R) \cup R : f[x] \in Int
    OBVIOUS
<1>4. Total(f, (S \ R) \cup R) = Total(f, S \ R) + Total(f, R)
    BY <1>1, <1>3, TotalUnion
<1>5. Total(f, S) = Total(f, S \ R) + Total(f, R)
    BY <1>3, <1>4, Zenon
<1>6. QED
    BY <1>1, <1>2, <1>5

(* A finite set under other names.                                         *)
LEMMA FiniteImage ==
    ASSUME NEW S, IsFiniteSet(S), NEW h
    PROVE  IsFiniteSet({h[x] : x \in S})
<1> DEFINE g == [x \in S |-> h[x]]
           T == {h[x] : x \in S}
<1>1. g \in Surjection(S, T)
    BY DEF Surjection
<1> HIDE DEF g, T
<1>2. IsFiniteSet(T)
    BY <1>1, FS_Surjection
<1> QED BY <1>2 DEF T

(* A sum of a part is one of the whole that is zero elsewhere.             *)
LEMMA TotalFiltered ==
    ASSUME NEW f, NEW S, IsFiniteSet(S), NEW R \in SUBSET S, NEW g,
           \A x \in R : f[x] \in Int,
           \A x \in S : g[x] = IF x \in R THEN f[x] ELSE 0
    PROVE  Total(f, R) = Total(g, S)
<1>1. IsFiniteSet(R) /\ IsFiniteSet(S \ R)
    BY FS_Subset
<1>2. Total(f, R) = Total(g, R)
    BY <1>1, TotalSame
<1>3. Total(g, S \ R) = 0
    <2>1. \A x \in S \ R : g[x] = 0
        OBVIOUS
    <2> QED BY <1>1, <2>1, TotalZero
<1>4. Total(g, R \cup (S \ R)) = Total(g, R) + Total(g, S \ R)
    <2>1. \A x \in R \cup (S \ R) : g[x] \in Int
        OBVIOUS
    <2> QED BY <1>1, <2>1, TotalUnion
<1>5. R \cup (S \ R) = S /\ Total(g, R) \in Int
    <2>1. \A x \in R : g[x] \in Int
        OBVIOUS
    <2> QED BY <1>1, <2>1, TotalInt
<1> QED BY <1>2, <1>3, <1>4, <1>5

(* A sum may be taken over other names of the same things.                 *)
THEOREM TotalRenamed ==
    ASSUME NEW S, IsFiniteSet(S), NEW h, NEW f, NEW g,
           \A x \in S : f[h[x]] = g[x] /\ g[x] \in Int,
           \A x, y \in S : h[x] = h[y] => x = y
    PROVE  /\ IsFiniteSet({h[x] : x \in S})
           /\ Total(f, {h[x] : x \in S}) = Total(g, S)
<1> DEFINE Image(T) == {h[x] : x \in T}
           Good == {T \in SUBSET S : IsFiniteSet(Image(T)) /\ Total(f, Image(T)) = Total(g, T)}
<1>1. ASSUME NEW T \in SUBSET S, \A U \in SUBSET T : U # T => U \in Good
      PROVE  T \in Good
    <2>1. CASE T = {}
        <3>1. Image(T) = {}
            BY <2>1
        <3>2. QED
            BY <2>1, <3>1, TotalEmpty, FS_EmptySet
    <2>2. CASE T # {}
        <3> DEFINE a == OneOf(T)
                   U == T \ {a}
        <3>1. a \in T /\ IsFiniteSet(T)
            BY <2>2, OneOfIsElement, FS_Subset
        <3>2. U \in Good
            BY <1>1, <3>1
        <3>3. Total(g, T) = g[a] + Total(g, U)
            BY <2>2, <3>1, TotalStep
        <3>4. Image(T) = Image(U) \cup {h[a]} /\ h[a] \notin Image(U)
            BY <3>1
        <3>5. IsFiniteSet(Image(U)) /\ Total(f, Image(U)) = Total(g, U)
            BY <3>2
        <3>6. f[h[a]] = g[a] /\ g[a] \in Int /\ Total(g, U) \in Int
            <4>1. IsFiniteSet(U) /\ \A x \in U : g[x] \in Int
                BY <3>1, FS_Subset
            <4>2. QED
                BY <3>1, <4>1, TotalInt
        <3>7. \A x \in Image(U) : f[x] \in Int
            OBVIOUS
        <3>8. Total(f, Image(U) \cup {h[a]}) = Total(f, Image(U)) + f[h[a]]
            <4> HIDE DEF Image, a, U
            <4>1. QED
                BY <3>4, <3>5, <3>6, <3>7, TotalAdd
        <3>9. IsFiniteSet(Image(U) \cup {h[a]})
            BY <3>5, FS_AddElement
        <3>10. Total(f, Image(T)) = Total(f, Image(U)) + f[h[a]] /\ IsFiniteSet(Image(T))
            BY <3>4, <3>8, <3>9, Zenon
        <3>11. Total(f, Image(T)) = Total(g, T)
            <4> HIDE DEF Image, a, U
            <4>1. QED
                BY <3>3, <3>5, <3>6, <3>10
        <3>12. QED
            BY <3>10, <3>11
    <2>3. QED
        BY <2>1, <2>2
<1> HIDE DEF Good
<1>2. S \in Good
    BY <1>1, SubsetInduction
<1>3. QED
    BY <1>2 DEF Good

(* Two sums make one.                                                      *)
LEMMA TotalPlus ==
    ASSUME NEW S, IsFiniteSet(S), NEW f, NEW g, NEW h,
           \A x \in S : f[x] \in Int /\ g[x] \in Int /\ h[x] = f[x] + g[x]
    PROVE  Total(h, S) = Total(f, S) + Total(g, S)
<1> DEFINE Good == {T \in SUBSET S : Total(h, T) = Total(f, T) + Total(g, T)}
<1>1. ASSUME NEW T \in SUBSET S, \A U \in SUBSET T : U # T => U \in Good
      PROVE  T \in Good
    <2>1. CASE T = {}
        BY <2>1, TotalEmpty
    <2>2. CASE T # {}
        <3> DEFINE a == OneOf(T)
                   U == T \ {a}
        <3>1. a \in T /\ IsFiniteSet(T) /\ IsFiniteSet(U)
            BY <2>2, OneOfIsElement, FS_Subset
        <3>2. U \in Good
            BY <1>1, <3>1
        <3>3. /\ Total(f, T) = f[a] + Total(f, U)
              /\ Total(g, T) = g[a] + Total(g, U)
              /\ Total(h, T) = h[a] + Total(h, U)
            BY <2>2, <3>1, TotalStep
        <3>4. Total(f, U) \in Int /\ Total(g, U) \in Int
            BY <3>1, TotalInt
        <3>5. Total(h, T) = Total(f, T) + Total(g, T)
            BY <3>1, <3>2, <3>3, <3>4
        <3>6. QED
            BY <3>5
    <2>3. QED
        BY <2>1, <2>2
<1> HIDE DEF Good
<1>2. S \in Good
    BY <1>1, SubsetInduction
<1>3. QED
    BY <1>2 DEF Good

(* One value changes.                                                      *)
LEMMA TotalChange ==
    ASSUME NEW S, IsFiniteSet(S), NEW f, NEW g, NEW y \in S,
           \A x \in S : f[x] \in Int /\ g[x] \in Int,
           \A x \in S : x # y => g[x] = f[x]
    PROVE  Total(g, S) = Total(f, S) - f[y] + g[y]
<1> DEFINE R == S \ {y}
<1>1. IsFiniteSet(R) /\ \A x \in R : g[x] = f[x] /\ f[x] \in Int
    BY FS_Subset
<1>2. Total(g, R) = Total(f, R) /\ Total(f, R) \in Int
    BY <1>1, TotalSame, TotalInt
<1>3. Total(f, S) = f[y] + Total(f, R) /\ Total(g, S) = g[y] + Total(g, R)
    BY TotalRemove
<1>4. QED
    BY <1>2, <1>3

(* What is added up kind by kind is added up.                              *)
THEOREM TotalByKind ==
    ASSUME NEW R, IsFiniteSet(R), NEW K, IsFiniteSet(K), NEW kind, NEW part, NEW f, NEW g,
           \A r \in R : kind[r] \in K /\ f[r] \in Int,
           \A k \in K : part[k] \subseteq R /\ g[k] = Total(f, part[k]),
           \A k \in K, r \in R : r \in part[k] <=> kind[r] = k
    PROVE  Total(g, K) = Total(f, R)
<1> DEFINE Of(T) == {r \in R : kind[r] \in T}
           Good == {T \in SUBSET K : Total(g, T) = Total(f, Of(T))}
<1>1. ASSUME NEW T \in SUBSET K, \A U \in SUBSET T : U # T => U \in Good
      PROVE  T \in Good
    <2>1. CASE T = {}
        <3>1. Of(T) = {}
            BY <2>1
        <3>2. QED
            BY <2>1, <3>1, TotalEmpty, Zenon
    <2>2. CASE T # {}
        <3> DEFINE a == OneOf(T)
                   U == T \ {a}
                   Own == part[a]
        <3>1. a \in T /\ IsFiniteSet(T)
            BY <2>2, OneOfIsElement, FS_Subset
        <3>2. U \in Good
            BY <1>1, <3>1
        <3>3. Total(g, T) = g[a] + Total(g, U)
            BY <2>2, <3>1, TotalStep
        <3>4. Of(T) = Of(U) \cup Own /\ Of(U) \cap Own = {} /\ Own \subseteq R
            BY <3>1
        <3>5. IsFiniteSet(Of(U)) /\ IsFiniteSet(Own)
            BY <3>4, FS_Subset
        <3>6. \A r \in Of(U) \cup Own : f[r] \in Int
            BY <3>4
        <3>7. Total(f, Of(U)) \in Int /\ Total(f, Own) \in Int
            BY <3>5, <3>6, TotalInt
        <3>8. g[a] = Total(f, Own) /\ Total(g, U) = Total(f, Of(U))
            BY <3>1, <3>2
        <3> HIDE DEF a, U, Own, Of
        <3>9. Total(f, Of(U) \cup Own) = Total(f, Of(U)) + Total(f, Own)
            BY <3>4, <3>5, <3>6, TotalUnion
        <3>10. Total(f, Of(T)) = Total(f, Of(U)) + Total(f, Own)
            BY <3>4, <3>9, Zenon
        <3>11. Total(g, T) = Total(f, Of(T))
            BY <3>3, <3>7, <3>8, <3>10
        <3>12. QED
            BY <3>11
    <2>3. QED
        BY <2>1, <2>2
<1> HIDE DEF Good
<1>2. K \in Good
    BY <1>1, SubsetInduction
<1>3. Of(K) = R
    OBVIOUS
<1>4. Total(g, K) = Total(f, Of(K))
    BY <1>2 DEF Good
<1>5. QED
    BY <1>3, <1>4, Zenon
=============================================================================
