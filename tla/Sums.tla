---------------------------------- MODULE Sums ---------------------------------
(***************************************************************************)
(* Facts about the sum of a function over a finite set and about ranks in  *)
(* a finite order, for the proofs that need one (MemberProofs, SiteProofs).*)
(* The sums are by induction, over the smallest counterexample.            *)
(***************************************************************************)
EXTENDS Integers, FiniteSetsExt, FiniteSetTheorems, TLAPS

(***************************************************************************)
(* Induction on natural numbers and on finite sets.                        *)
(***************************************************************************)
\* A set of natural numbers has a least element.
LEMMA LeastNumber ==
    ASSUME NEW T \in SUBSET Nat, T # {}
    PROVE  \E n \in T : \A m \in T : n <= m
<1> DEFINE R == OpToRel(<, Nat)
<1>1. IsWellFoundedOn(R, Nat)
    BY NatLessThanWellFounded
<1> HIDE DEF R
<1>2. PICK n \in T : \A m \in T : ~ (<<m, n>> \in R)
    BY <1>1, WFMin
<1>3. \A m \in T : n <= m
    <2> TAKE m \in T
    <2>1. ~ (<<m, n>> \in R)
        BY <1>2
    <2>2. m \in Nat /\ n \in Nat
        OBVIOUS
    <2> QED BY <2>1, <2>2 DEF R, OpToRel
<1> QED BY <1>3

\* Among the subsets of a finite set that have a property there is one with no
\* proper subset that has it.
LEMMA SmallestSubset ==
    ASSUME NEW S, IsFiniteSet(S), NEW T \in SUBSET SUBSET S, T # {}
    PROVE  \E s \in T : \A t \in SUBSET s : t # s => t \notin T
<1> DEFINE Sizes == {Cardinality(s) : s \in T}
<1>1. \A s \in SUBSET S : IsFiniteSet(s) /\ Cardinality(s) \in Nat
    BY FS_Subset, FS_CardinalityType
<1>2. Sizes \in SUBSET Nat /\ Sizes # {}
    BY <1>1
<1>3. PICK n \in Sizes : \A m \in Sizes : n <= m
    <2> HIDE DEF Sizes
    <2> QED BY <1>2, LeastNumber
<1>4. PICK s \in T : Cardinality(s) = n
    BY <1>3
<1>5. ASSUME NEW t \in SUBSET s, t # s, t \in T PROVE FALSE
    <2>1. IsFiniteSet(s) /\ Cardinality(s) \in Nat /\ Cardinality(t) \in Nat
        BY <1>1, <1>5
    <2>2. Cardinality(t) <= Cardinality(s) /\ Cardinality(s) # Cardinality(t)
        BY <2>1, <1>5, FS_Subset
    <2>3. Cardinality(s) <= Cardinality(t)
        BY <1>3, <1>4, <1>5
    <2> QED BY <2>1, <2>2, <2>3
<1> QED BY <1>4, <1>5

(***************************************************************************)
(* The sum of f over the subsets of S, as MapThenSumSet defines it.        *)
(***************************************************************************)
Some(s) == CHOOSE x \in s : TRUE
Adds(g, f, s) == IF s = {} THEN 0 ELSE f[Some(s)] + g[s \ {Some(s)}]
IsSum(g, f, S) == g = [s \in SUBSET S |-> Adds(g, f, s)]
SumOf(f, S) == CHOOSE g : IsSum(g, f, S)
Total(f, S) == MapThenSumSet(LAMBDA x : f[x], S)

LEMMA TotalIsSum ==
    ASSUME NEW f, NEW S
    PROVE  Total(f, S) = SumOf(f, S)[S]
BY DEF Total, SumOf, IsSum, Adds, Some, MapThenSumSet, MapThenFoldSet

\* The subsets of S of at most n elements, and the sum over those.
UpTo(S, n) == {s \in SUBSET S : Cardinality(s) <= n}
IsSumUpTo(g, f, S, n) == g = [s \in UpTo(S, n) |-> Adds(g, f, s)]

LEMMA SomeIsIn == ASSUME NEW s, s # {} PROVE Some(s) \in s
BY DEF Some

\* There is such a function: one that reaches sets of n elements extends one that
\* reaches sets of n - 1.
LEMMA SumExists ==
    ASSUME NEW S, IsFiniteSet(S), NEW f
    PROVE  IsSum(SumOf(f, S), f, S)
<1> DEFINE Missing == {n \in Nat : \A g : ~ IsSumUpTo(g, f, S, n)}
<1>1. \A s \in SUBSET S : IsFiniteSet(s) /\ Cardinality(s) \in Nat
    BY FS_Subset, FS_CardinalityType
<1>2. ASSUME Missing # {} PROVE FALSE
    <2>1. PICK n \in Missing : \A m \in Missing : n <= m
        BY <1>2, LeastNumber
    <2>2. n # 0
        <3>1. UpTo(S, 0) = {{}}
            BY <1>1, FS_EmptySet DEF UpTo
        <3>2. IsSumUpTo([s \in UpTo(S, 0) |-> 0], f, S, 0)
            BY <3>1 DEF IsSumUpTo, Adds
        <3> QED BY <3>2, <2>1
    <2>3. n - 1 \in Nat /\ n - 1 \notin Missing
        BY <2>1, <2>2
    <2>4. PICK h : IsSumUpTo(h, f, S, n - 1)
        BY <2>3
    <2> DEFINE g == [s \in UpTo(S, n) |-> Adds(h, f, s)]
    <2>5. ASSUME NEW s \in UpTo(S, n) PROVE Adds(g, f, s) = Adds(h, f, s)
        <3>1. CASE s = {}
            BY <3>1 DEF Adds
        <3>2. CASE s # {}
            <4> DEFINE t == s \ {Some(s)}
            <4>1. Some(s) \in s
                BY <3>2, SomeIsIn
            <4>2. s \in SUBSET S /\ Cardinality(s) <= n
                BY <2>5 DEF UpTo
            <4>3. t \in SUBSET S /\ Cardinality(t) = Cardinality(s) - 1
                BY <4>1, <4>2, <1>1, FS_RemoveElement
            <4>4. t \in UpTo(S, n) /\ t \in UpTo(S, n - 1)
                BY <4>2, <4>3, <1>1, <2>1 DEF UpTo
            <4>5. g[t] = Adds(h, f, t) /\ h[t] = Adds(h, f, t)
                <5> HIDE DEF t
                <5> QED BY <4>4, <2>4 DEF IsSumUpTo
            <4> QED BY <4>5, <3>2 DEF Adds
        <3> QED BY <3>1, <3>2
    <2>6. IsSumUpTo(g, f, S, n)
        BY <2>5 DEF IsSumUpTo
    <2> QED BY <2>6, <2>1
<1>3. PICK g : IsSumUpTo(g, f, S, Cardinality(S))
    BY <1>1, <1>2
<1>4. UpTo(S, Cardinality(S)) = SUBSET S
    BY FS_Subset DEF UpTo
<1>5. IsSum(g, f, S)
    BY <1>3, <1>4 DEF IsSumUpTo, IsSum
<1> QED BY <1>5 DEF SumOf

\* What a sum over a finite set is built from.
LEMMA SumSteps ==
    ASSUME NEW S, IsFiniteSet(S), NEW f
    PROVE  /\ SumOf(f, S)[{}] = 0
           /\ \A s \in SUBSET S : s # {} =>
                 SumOf(f, S)[s] = f[Some(s)] + SumOf(f, S)[s \ {Some(s)}]
<1> DEFINE g == SumOf(f, S)
<1>1. g = [s \in SUBSET S |-> Adds(g, f, s)]
    BY SumExists DEF IsSum
<1> HIDE DEF g
<1>2. \A s \in SUBSET S : g[s] = Adds(g, f, s)
    BY <1>1
<1>3. g[{}] = 0 /\ \A s \in SUBSET S : s # {} => g[s] = f[Some(s)] + g[s \ {Some(s)}]
    BY <1>2 DEF Adds
<1> QED BY <1>3 DEF g

LEMMA SumIsInteger ==
    ASSUME NEW S, IsFiniteSet(S), NEW f \in [S -> Int], NEW u \in SUBSET S
    PROVE  SumOf(f, S)[u] \in Int
<1> DEFINE g == SumOf(f, S)
           T == {s \in SUBSET S : g[s] \notin Int}
<1>1. ASSUME T # {} PROVE FALSE
    <2>1. T \in SUBSET SUBSET S
        OBVIOUS
    <2>2. PICK s \in T : \A t \in SUBSET s : t # s => t \notin T
        <3> HIDE DEF T
        <3> QED BY <1>1, <2>1, SmallestSubset
    <2>3. g[{}] = 0 /\ (s # {} => g[s] = f[Some(s)] + g[s \ {Some(s)}])
        BY SumSteps
    <2>4. s # {}
        <3>1. g[s] \notin Int
            BY <2>2
        <3> HIDE DEF g
        <3>2. g[{}] \in Int
            BY <2>3
        <3> QED BY <3>1, <3>2
    <2>5. Some(s) \in s
        BY <2>4, SomeIsIn
    <2>6. s \ {Some(s)} \notin T /\ s \ {Some(s)} \in SUBSET S
        BY <2>2, <2>5
    <2>7. g[s \ {Some(s)}] \in Int /\ f[Some(s)] \in Int
        BY <2>6, <2>5
    <2> QED BY <2>3, <2>4, <2>7, <2>2
<1> QED BY <1>1

\* In which order the elements are taken makes no difference.
LEMMA SumTakesAny ==
    ASSUME NEW S, IsFiniteSet(S), NEW f \in [S -> Int], NEW u \in SUBSET S, NEW x \in u
    PROVE  SumOf(f, S)[u] = f[x] + SumOf(f, S)[u \ {x}]
<1> DEFINE g == SumOf(f, S)
           T == {s \in SUBSET S : \E y \in s : g[s] # f[y] + g[s \ {y}]}
<1>0. \A s \in SUBSET S : g[s] \in Int
    BY SumIsInteger
<1>1. ASSUME T # {} PROVE FALSE
    <2>1. T \in SUBSET SUBSET S
        OBVIOUS
    <2>2. PICK s \in T : \A t \in SUBSET s : t # s => t \notin T
        <3> HIDE DEF T
        <3> QED BY <1>1, <2>1, SmallestSubset
    <2>3. PICK y \in s : g[s] # f[y] + g[s \ {y}]
        BY <2>2
    <2> DEFINE c == Some(s)
    <2>4. c \in s /\ g[s] = f[c] + g[s \ {c}]
        BY SumSteps, SomeIsIn
    <2> HIDE DEF c
    <2> DEFINE w == (s \ {c}) \ {y}
    <2>5. c # y
        BY <2>3, <2>4
    <2>6. s \ {c} \notin T /\ s \ {y} \notin T /\ s \ {c} \in SUBSET S /\ s \ {y} \in SUBSET S
        BY <2>2, <2>4
    <2>7. g[s \ {c}] = f[y] + g[w]
        BY <2>5, <2>6
    <2>8. g[s \ {y}] = f[c] + g[(s \ {y}) \ {c}]
        BY <2>4, <2>5, <2>6
    <2>9. (s \ {y}) \ {c} = w /\ w \in SUBSET S
        BY <2>6
    <2>10. g[s \ {y}] = f[c] + g[w]
        BY <2>8, <2>9
    <2> HIDE DEF w, g
    <2>11. f[c] \in Int /\ f[y] \in Int /\ g[w] \in Int
        BY <1>0, <2>4, <2>9
    <2>12. f[c] + (f[y] + g[w]) = f[y] + (f[c] + g[w])
        BY <2>11
    <2> QED BY <2>3, <2>4, <2>7, <2>10, <2>12
<1> QED BY <1>1

\* A sum does not see what is changed outside of the set.
LEMMA SumIgnores ==
    ASSUME NEW S, IsFiniteSet(S), NEW f, NEW h, NEW x,
           \A y \in S : y # x => h[y] = f[y],
           NEW u \in SUBSET S, x \notin u
    PROVE  SumOf(h, S)[u] = SumOf(f, S)[u]
<1> DEFINE T == {s \in SUBSET S : x \notin s /\ SumOf(h, S)[s] # SumOf(f, S)[s]}
<1>1. ASSUME T # {} PROVE FALSE
    <2>1. T \in SUBSET SUBSET S
        OBVIOUS
    <2>2. PICK s \in T : \A t \in SUBSET s : t # s => t \notin T
        <3> HIDE DEF T
        <3> QED BY <1>1, <2>1, SmallestSubset
    <2>3. s # {}
        BY <2>2, SumSteps
    <2>4. Some(s) \in s
        BY <2>3, SomeIsIn
    <2>5. s \ {Some(s)} \notin T /\ s \ {Some(s)} \in SUBSET S
        BY <2>2, <2>4
    <2>6. SumOf(h, S)[s \ {Some(s)}] = SumOf(f, S)[s \ {Some(s)}]
        BY <2>5, <2>2
    <2>7. h[Some(s)] = f[Some(s)]
        BY <2>4, <2>2
    <2> QED BY <2>2, <2>3, <2>6, <2>7, SumSteps
<1> QED BY <1>1

\* One summand moves by d, and the sum with it.
LEMMA TotalMoves ==
    ASSUME NEW S, IsFiniteSet(S), NEW f \in [S -> Int], NEW x \in S, NEW d \in Int
    PROVE  /\ Total(f, S) \in Int
           /\ Total([f EXCEPT ![x] = @ + d], S) = Total(f, S) + d
<1> DEFINE h == [f EXCEPT ![x] = @ + d]
<1>1. h \in [S -> Int] /\ h[x] = f[x] + d /\ \A y \in S : y # x => h[y] = f[y]
    OBVIOUS
<1> HIDE DEF h
<1>2. SumOf(f, S)[S] = f[x] + SumOf(f, S)[S \ {x}]
    BY SumTakesAny
<1>3. SumOf(h, S)[S] = h[x] + SumOf(h, S)[S \ {x}]
    BY <1>1, SumTakesAny
<1>4. SumOf(h, S)[S \ {x}] = SumOf(f, S)[S \ {x}]
    BY <1>1, SumIgnores
<1>5. SumOf(f, S)[S \ {x}] \in Int /\ SumOf(f, S)[S] \in Int /\ f[x] \in Int
    BY SumIsInteger
<1>6. Total(f, S) = SumOf(f, S)[S] /\ Total(h, S) = SumOf(h, S)[S]
    BY TotalIsSum
<1> QED BY <1>1, <1>2, <1>3, <1>4, <1>5, <1>6 DEF h

\* What one gives and another gets leaves the sum.
LEMMA TotalOfTransfer ==
    ASSUME NEW S, IsFiniteSet(S), NEW f \in [S -> Int], NEW t \in [S -> Int],
           NEW x \in S, NEW y \in S, x # y, NEW n \in Int,
           t[x] = f[x] - n, t[y] = f[y] + n, \A z \in S : (z # x /\ z # y) => t[z] = f[z]
    PROVE  Total(t, S) = Total(f, S)
<1> DEFINE d == -n
           h == [f EXCEPT ![x] = @ + d]
<1>1. d \in Int /\ f[x] \in Int /\ f[x] - n = f[x] + d
    OBVIOUS
<1> HIDE DEF d
<1>2. t = [h EXCEPT ![y] = @ + n]
    BY <1>1
<1>3. Total(f, S) \in Int /\ Total(h, S) = Total(f, S) + d
    BY <1>1, TotalMoves
<1>4. h \in [S -> Int]
    BY <1>1
<1> HIDE DEF h
<1>5. Total([h EXCEPT ![y] = @ + n], S) = Total(h, S) + n
    BY <1>4, TotalMoves
<1>6. \A k \in Int : (k + d) + n = k
    BY DEF d
<1> QED BY <1>2, <1>3, <1>5, <1>6

\* The sum of the same number for everybody.
LEMMA TotalOfConstant ==
    ASSUME NEW S, IsFiniteSet(S), NEW n \in Nat
    PROVE  Total([x \in S |-> n], S) = n * Cardinality(S)
<1> DEFINE f == [x \in S |-> n]
           T == {s \in SUBSET S : SumOf(f, S)[s] # n * Cardinality(s)}
<1>1. ASSUME T # {} PROVE FALSE
    <2>1. T \in SUBSET SUBSET S
        OBVIOUS
    <2>2. PICK s \in T : \A t \in SUBSET s : t # s => t \notin T
        <3> HIDE DEF T
        <3> QED BY <1>1, <2>1, SmallestSubset
    <2>3. s # {}
        <3>1. SumOf(f, S)[{}] = 0 /\ Cardinality({}) = 0 /\ n * 0 = 0
            BY SumSteps, FS_EmptySet
        <3> QED BY <3>1, <2>2
    <2>4. Some(s) \in s
        BY <2>3, SomeIsIn
    <2> DEFINE t == s \ {Some(s)}
    <2>5. t \notin T /\ t \in SUBSET S
        BY <2>2, <2>4
    <2>6. SumOf(f, S)[t] = n * Cardinality(t)
        BY <2>5
    <2>7. SumOf(f, S)[s] = n + SumOf(f, S)[t]
        BY <2>3, <2>4, SumSteps
    <2>8. IsFiniteSet(s) /\ Cardinality(s) \in Nat /\ Cardinality(t) = Cardinality(s) - 1
        BY <2>4, FS_Subset, FS_CardinalityType, FS_RemoveElement
    <2>9. \A k \in Nat : n + n * (k - 1) = n * k
        OBVIOUS
    <2>10. SumOf(f, S)[s] = n * Cardinality(s)
        BY <2>6, <2>7, <2>8, <2>9
    <2> QED BY <2>2, <2>10
<1>2. SumOf(f, S)[S] = n * Cardinality(S)
    BY <1>1
<1> QED BY <1>2, TotalIsSum

\* A summand that changes, and the sum with it.
LEMMA TotalChanges ==
    ASSUME NEW S, IsFiniteSet(S), NEW f \in [S -> Int], NEW h \in [S -> Int], NEW x \in S,
           \A y \in S : y # x => h[y] = f[y]
    PROVE  Total(h, S) = Total(f, S) + (h[x] - f[x])
<1> DEFINE d == h[x] - f[x]
<1>1. d \in Int /\ f[x] + d = h[x]
    OBVIOUS
<1> HIDE DEF d
<1>2. h = [f EXCEPT ![x] = @ + d]
    BY <1>1
<1>3. Total([f EXCEPT ![x] = @ + d], S) = Total(f, S) + d
    BY <1>1, TotalMoves
<1> QED BY <1>2, <1>3 DEF d

\* Larger summands, larger sum.
LEMMA TotalGrows ==
    ASSUME NEW S, IsFiniteSet(S), NEW f \in [S -> Int], NEW h \in [S -> Int],
           \A y \in S : f[y] <= h[y]
    PROVE  Total(f, S) <= Total(h, S)
<1> DEFINE T == {s \in SUBSET S : ~ (SumOf(f, S)[s] <= SumOf(h, S)[s])}
<1>0. \A s \in SUBSET S : SumOf(f, S)[s] \in Int /\ SumOf(h, S)[s] \in Int
    BY SumIsInteger
<1>1. ASSUME T # {} PROVE FALSE
    <2>1. T \in SUBSET SUBSET S
        OBVIOUS
    <2>2. PICK s \in T : \A t \in SUBSET s : t # s => t \notin T
        <3> HIDE DEF T
        <3> QED BY <1>1, <2>1, SmallestSubset
    <2>3. s # {}
        <3>1. SumOf(f, S)[{}] = 0 /\ SumOf(h, S)[{}] = 0
            BY SumSteps
        <3>2. s = {} => SumOf(f, S)[s] <= SumOf(h, S)[s]
            BY <3>1
        <3> QED BY <3>2, <2>2
    <2>4. Some(s) \in s
        BY <2>3, SomeIsIn
    <2>5. s \ {Some(s)} \notin T /\ s \ {Some(s)} \in SUBSET S
        BY <2>2, <2>4
    <2>6. SumOf(f, S)[s \ {Some(s)}] <= SumOf(h, S)[s \ {Some(s)}]
        BY <2>5
    <2>7. /\ SumOf(f, S)[s] = f[Some(s)] + SumOf(f, S)[s \ {Some(s)}]
          /\ SumOf(h, S)[s] = h[Some(s)] + SumOf(h, S)[s \ {Some(s)}]
        BY <2>2, <2>3, SumSteps
    <2>8. f[Some(s)] \in Int /\ h[Some(s)] \in Int /\ f[Some(s)] <= h[Some(s)]
        BY <2>4
    <2>9. SumOf(f, S)[s] <= SumOf(h, S)[s]
        BY <1>0, <2>5, <2>6, <2>7, <2>8
    <2> QED BY <2>2, <2>9
<1>2. SumOf(f, S)[S] <= SumOf(h, S)[S]
    BY <1>1
<1> QED BY <1>2, TotalIsSum

\* A sum of natural numbers is one, and no summand is larger.
LEMMA TotalOfNaturals ==
    ASSUME NEW S, IsFiniteSet(S), NEW f \in [S -> Nat]
    PROVE  Total(f, S) \in Nat /\ \A x \in S : f[x] <= Total(f, S)
<1>1. \A h \in [S -> Nat] : h \in [S -> Int] /\ \A y \in S : 0 <= h[y]
    OBVIOUS
<1>2. \A h \in [S -> Nat] : Total(h, S) \in Nat
    <2> TAKE h \in [S -> Nat]
    <2> DEFINE z == [y \in S |-> 0]
    <2>1. Total(z, S) = 0 * Cardinality(S) /\ Cardinality(S) \in Nat
        BY TotalOfConstant, FS_CardinalityType
    <2>2. z \in [S -> Int] /\ \A y \in S : z[y] = 0
        OBVIOUS
    <2> HIDE DEF z
    <2>3. Total(z, S) <= Total(h, S)
        BY <1>1, <2>2, TotalGrows
    <2>4. Total(h, S) = SumOf(h, S)[S] /\ SumOf(h, S)[S] \in Int
        BY <1>1, TotalIsSum, SumIsInteger
    <2> QED BY <2>1, <2>3, <2>4
<1>3. ASSUME NEW x \in S PROVE f[x] <= Total(f, S)
    <2> DEFINE h == [f EXCEPT ![x] = 0]
    <2>1. h \in [S -> Nat] /\ h[x] = 0 /\ \A y \in S : y # x => f[y] = h[y]
        OBVIOUS
    <2> HIDE DEF h
    <2>2. Total(f, S) = Total(h, S) + (f[x] - h[x])
        BY <1>1, <2>1, TotalChanges
    <2>3. Total(h, S) \in Nat /\ f[x] \in Nat
        BY <1>2, <2>1
    <2> QED BY <2>1, <2>2, <2>3
<1> QED BY <1>2, <1>3

(***************************************************************************)
(* Ranks: how many elements of a finite set come before one of them, in a  *)
(* strict total order given by what comes before what.                     *)
(***************************************************************************)
LEMMA RanksCount ==
    ASSUME NEW S, IsFiniteSet(S), NEW before,
           \A x \in S : before[x] \subseteq S /\ x \notin before[x],
           \A x \in S : \A y \in before[x] : before[y] \subseteq before[x],
           \A x, y \in S : x = y \/ x \in before[y] \/ y \in before[x]
    PROVE  /\ Cardinality(S) \in Nat
           /\ \A x \in S : Cardinality(before[x]) \in 0..(Cardinality(S) - 1)
           /\ \A x \in S : \A y \in before[x] : Cardinality(before[y]) < Cardinality(before[x])
           /\ \A x, y \in S : Cardinality(before[x]) = Cardinality(before[y]) => x = y
           /\ \A n \in 0..(Cardinality(S) - 1) : \E x \in S : Cardinality(before[x]) = n
<1> DEFINE size == Cardinality(S)
           places == 0..(size - 1)
           rank == [x \in S |-> Cardinality(before[x])]
<1>1. size \in Nat
    BY FS_CardinalityType
<1>2. ASSUME NEW A \in SUBSET S, NEW B \in SUBSET S, A \subseteq B, A # B
      PROVE  Cardinality(A) \in Nat /\ Cardinality(A) < Cardinality(B)
    <2>1. IsFiniteSet(B) /\ IsFiniteSet(A)
        BY FS_Subset
    <2>2. Cardinality(A) <= Cardinality(B) /\ Cardinality(A) # Cardinality(B)
        BY <2>1, <1>2, FS_Subset
    <2> QED BY <2>1, <2>2, FS_CardinalityType
<1>3. \A x \in S : Cardinality(before[x]) \in places
    <2> TAKE x \in S
    <2>1. Cardinality(before[x]) \in Nat /\ Cardinality(before[x]) < Cardinality(S)
        BY <1>2
    <2> QED BY <1>1, <2>1
<1>4. ASSUME NEW x \in S, NEW y \in before[x]
      PROVE  Cardinality(before[y]) < Cardinality(before[x])
    <2>1. before[y] \in SUBSET S /\ before[x] \in SUBSET S
        BY <1>4
    <2>2. before[y] \subseteq before[x] /\ before[y] # before[x]
        BY <1>4
    <2> QED BY <1>2, <2>1, <2>2
<1>5. \A x, y \in S : Cardinality(before[x]) = Cardinality(before[y]) => x = y
    <2> SUFFICES ASSUME NEW x \in S, NEW y \in S, Cardinality(before[x]) = Cardinality(before[y]), x # y
                 PROVE  FALSE
        OBVIOUS
    <2>1. Cardinality(before[x]) \in Nat /\ Cardinality(before[y]) \in Nat
        BY <1>1, <1>3
    <2>2. Cardinality(before[x]) < Cardinality(before[y]) \/ Cardinality(before[y]) < Cardinality(before[x])
        BY <1>4
    <2> QED BY <2>1, <2>2
<1>6. rank \in Injection(S, places)
    BY <1>3, <1>5 DEF Injection, IsInjective
<1>7. IsFiniteSet(places) /\ Cardinality(places) = size
    BY <1>1, FS_Interval
<1>8. rank \in Surjection(S, places)
    <2> HIDE DEF rank, places
    <2> QED BY <1>6, <1>7, FS_Injection
<1>9. \A n \in places : \E x \in S : rank[x] = n
    BY <1>8 DEF Surjection
<1> QED BY <1>1, <1>3, <1>4, <1>5, <1>9

\* A finite set of natural numbers that is not empty has a greatest one.
LEMMA GreatestNumber ==
    ASSUME NEW T \in SUBSET Nat, T # {}, IsFiniteSet(T)
    PROVE  \E n \in T : \A m \in T : m <= n
<1> DEFINE size == Cardinality(T)
           before == [x \in T |-> {y \in T : y < x}]
<1>1. \A x \in T : before[x] \subseteq T /\ \A y \in T : y \in before[x] <=> y < x
    OBVIOUS
<1> HIDE DEF before
<1>2. /\ \A x \in T : before[x] \subseteq T /\ x \notin before[x]
      /\ \A x \in T : \A y \in before[x] : before[y] \subseteq before[x]
      /\ \A x, y \in T : x = y \/ x \in before[y] \/ y \in before[x]
    <2>1. \A x, y \in T : x = y \/ x < y \/ y < x
        OBVIOUS
    <2>2. ASSUME NEW x \in T, NEW y \in before[x], NEW z \in before[y] PROVE z \in before[x]
        <3>1. y \in T /\ z \in T /\ y < x /\ z < y
            BY <1>1, <2>2
        <3>2. x \in Nat /\ y \in Nat /\ z \in Nat
            BY <3>1
        <3>3. z < x
            BY <3>1, <3>2
        <3> QED BY <1>1, <3>1, <3>3
    <2> QED BY <1>1, <2>1, <2>2
<1>3. /\ size \in Nat
      /\ \A x \in T : Cardinality(before[x]) \in 0..(size - 1)
      /\ \A x \in T : \A y \in before[x] : Cardinality(before[y]) < Cardinality(before[x])
      /\ \A n \in 0..(size - 1) : \E x \in T : Cardinality(before[x]) = n
    BY <1>2, RanksCount
<1>4. size # 0
    BY FS_EmptySet
<1>5. PICK n \in T : Cardinality(before[n]) = size - 1
    BY <1>3, <1>4
<1>6. ASSUME NEW m \in T PROVE m <= n
    <2> SUFFICES ASSUME n < m PROVE FALSE
        OBVIOUS
    <2>1. Cardinality(before[n]) < Cardinality(before[m])
        BY <1>1, <1>3
    <2> QED BY <1>3, <1>5, <2>1
<1> QED BY <1>6

===============================================================================
