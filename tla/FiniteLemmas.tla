---------------------------- MODULE FiniteLemmas ----------------------------
(***************************************************************************)
(* Facts about numbers, finite sets and sequences the other proofs need:   *)
(* least elements, induction on finite sets, sums over a finite domain,    *)
(* and what sequences hold.                                                *)
(***************************************************************************)
EXTENDS Integers, FiniteSets, SequencesExt, TLAPS, FiniteSetTheorems, WellFoundedInduction,
        SequenceTheorems

-----------------------------------------------------------------------------
(* Sums over a finite domain.  What holds of every set of numbers is shown *)
(* by looking at the least number for which it would not.                  *)

\* A set of numbers that is not empty has a least one.
LEMMA Least ==
    ASSUME NEW T, T \subseteq Nat, T # {}
    PROVE  \E n \in T : \A m \in T : n <= m
<1> DEFINE R == OpToRel(<, Nat)
<1>1. IsWellFoundedOn(R, Nat)
    BY NatLessThanWellFounded
<1>2. \A m, n \in Nat : <<m, n>> \in R <=> m < n
    BY DEF OpToRel
<1> HIDE DEF R
<1>3. PICK n \in T : \A m \in T : ~ (<<m, n>> \in R)
    BY <1>1, WFMin
<1>4. ASSUME NEW m \in T PROVE n <= m
    <2>1. ~ (<<m, n>> \in R) /\ m \in Nat /\ n \in Nat
        BY <1>3
    <2>2. ~(m < n)
        BY <1>2, <2>1
    <2> QED BY <2>1, <2>2
<1> QED BY <1>4

Pick(s) == CHOOSE x \in s : TRUE

\* g adds up f over s, one picked element after the other.
AddsAt(g, f, s) == g[s] = IF s = {} THEN 0 ELSE f[Pick(s)] + g[s \ {Pick(s)}]
Adds(g, f) == g = [s \in SUBSET DOMAIN f |-> IF s = {} THEN 0 ELSE f[Pick(s)] + g[s \ {Pick(s)}]]

\* The two equations of AddsAt, on the subsets of S.
AddsUp(g, f, S) == /\ g[{}] = 0
                   /\ \A s \in SUBSET S : s # {} => g[s] = f[Pick(s)] + g[s \ {Pick(s)}]

\* SumFunction, unfolded.
LEMMA SumUnfolds == ASSUME NEW f PROVE SumFunction(f) = (CHOOSE g : Adds(g, f))[DOMAIN f]
BY DEF SumFunction, SumFunctionOnSet, FoldFunctionOnSet, MapThenFoldSet, Pick, Adds

\* A picked element is one of the set, and the rest is smaller by one.
LEMMA PickOne ==
    ASSUME NEW s, IsFiniteSet(s), s # {}
    PROVE  /\ Pick(s) \in s /\ IsFiniteSet(s \ {Pick(s)}) /\ Cardinality(s) \in Nat
           /\ Cardinality(s \ {Pick(s)}) \in Nat
           /\ Cardinality(s \ {Pick(s)}) = Cardinality(s) - 1
<1>1. Pick(s) \in s
    BY DEF Pick
<1> QED BY <1>1, FS_RemoveElement, FS_CardinalityType

\* Induction on finite sets, for a set of sets: if a set is good when what is left
\* of it without the picked element is, then all are.
LEMMA PickInduction ==
    ASSUME NEW S, IsFiniteSet(S), NEW Good,
           \A s \in SUBSET S : (s # {} => s \ {Pick(s)} \in Good) => s \in Good
    PROVE  \A s \in SUBSET S : s \in Good
<1> DEFINE Bad == {n \in Nat : \E s \in SUBSET S : Cardinality(s) = n /\ s \notin Good}
<1>1. \A s \in SUBSET S : IsFiniteSet(s) /\ Cardinality(s) \in Nat
    BY FS_Subset, FS_CardinalityType
<1>2. Bad = {}
    <2> SUFFICES ASSUME Bad # {} PROVE FALSE
        OBVIOUS
    <2>1. PICK n \in Bad : \A m \in Bad : n <= m
        BY Least
    <2>2. PICK s \in SUBSET S : Cardinality(s) = n /\ s \notin Good
        OBVIOUS
    <2>3. s # {} /\ s \ {Pick(s)} \notin Good
        BY <2>2
    <2>4. /\ s \ {Pick(s)} \in SUBSET S
          /\ Cardinality(s \ {Pick(s)}) \in Nat
          /\ Cardinality(s \ {Pick(s)}) = n - 1
        BY <1>1, <2>2, <2>3, PickOne
    <2>5. n - 1 \in Bad
        BY <2>3, <2>4
    <2>6. n <= n - 1 /\ n \in Nat
        BY <2>1, <2>5
    <2> QED BY <2>6
<1> QED BY <1>1, <1>2

\* There is a function that adds up f.
LEMMA SumExists ==
    ASSUME NEW S, IsFiniteSet(S), NEW f \in [S -> Int]
    PROVE  \E g \in [SUBSET S -> Int] : Adds(g, f)
<1> DEFINE UpTo(n) == \E g \in [SUBSET S -> Int] :
                          \A s \in SUBSET S : Cardinality(s) <= n => AddsAt(g, f, s)
           Bad == {n \in Nat : ~UpTo(n)}
<1>0. \A s \in SUBSET S : IsFiniteSet(s) /\ Cardinality(s) \in Nat /\ (Cardinality(s) = 0 <=> s = {})
    BY FS_Subset, FS_CardinalityType, FS_EmptySet
<1>1. UpTo(0)
    <2> DEFINE g == [s \in SUBSET S |-> 0]
    <2>1. g \in [SUBSET S -> Int]
        OBVIOUS
    <2>2. \A s \in SUBSET S : Cardinality(s) <= 0 => AddsAt(g, f, s)
        BY <1>0 DEF AddsAt
    <2> QED BY <2>1, <2>2
<1>2. ASSUME NEW n \in Nat, UpTo(n) PROVE UpTo(n + 1)
    <2>1. PICK g \in [SUBSET S -> Int] :
              \A s \in SUBSET S : Cardinality(s) <= n => AddsAt(g, f, s)
        BY <1>2
    <2> DEFINE h == [s \in SUBSET S |-> IF Cardinality(s) <= n THEN g[s]
                                        ELSE f[Pick(s)] + g[s \ {Pick(s)}]]
    <2>2. ASSUME NEW s \in SUBSET S, s # {}
          PROVE  /\ Pick(s) \in S /\ s \ {Pick(s)} \in SUBSET S
                 /\ Cardinality(s \ {Pick(s)}) = Cardinality(s) - 1
        BY <1>0, <2>2, PickOne
    <2>3. ASSUME NEW s \in SUBSET S PROVE h[s] \in Int
        <3>1. CASE Cardinality(s) <= n
            BY <3>1
        <3>2. CASE ~(Cardinality(s) <= n)
            <4>1. s # {}
                BY <1>0, <3>2
            <4>2. f[Pick(s)] \in Int /\ g[s \ {Pick(s)}] \in Int
                BY <2>2, <4>1
            <4> QED BY <3>2, <4>2
        <3> QED BY <3>1, <3>2
    <2>4. h \in [SUBSET S -> Int]
        BY <2>3
    <2>5. ASSUME NEW s \in SUBSET S, Cardinality(s) <= n + 1 PROVE AddsAt(h, f, s)
        <3>1. CASE s = {}
            <4>1. Cardinality(s) <= n
                BY <1>0, <3>1
            <4> QED BY <2>1, <3>1, <4>1 DEF AddsAt
        <3>2. CASE s # {}
            <4>1. /\ s \ {Pick(s)} \in SUBSET S
                  /\ Cardinality(s \ {Pick(s)}) <= n
                BY <1>0, <2>2, <2>5, <3>2
            <4>2. h[s \ {Pick(s)}] = g[s \ {Pick(s)}]
                BY <4>1
            <4>3. Cardinality(s) <= n => g[s] = f[Pick(s)] + g[s \ {Pick(s)}]
                BY <2>1, <3>2 DEF AddsAt
            <4>4. h[s] = f[Pick(s)] + g[s \ {Pick(s)}]
                BY <4>3
            <4> HIDE DEF h
            <4> QED BY <3>2, <4>2, <4>4 DEF AddsAt
        <3> QED BY <3>1, <3>2
    <2> HIDE DEF h
    <2> QED BY <2>4, <2>5
<1> HIDE DEF UpTo
<1>3. Bad = {}
    <2> SUFFICES ASSUME Bad # {} PROVE FALSE
        OBVIOUS
    <2>1. PICK n \in Bad : \A m \in Bad : n <= m
        BY Least
    <2>2. n \in Nat /\ ~UpTo(n) /\ n # 0
        BY <1>1
    <2>3. n - 1 \in Nat /\ (n - 1) + 1 = n /\ ~(n <= n - 1)
        BY <2>2
    <2>4. UpTo(n - 1)
        BY <2>1, <2>3
    <2> QED BY <1>2, <2>2, <2>3, <2>4
<1>4. Cardinality(S) \in Nat /\ UpTo(Cardinality(S))
    BY <1>3, FS_CardinalityType
<1>5. PICK g \in [SUBSET S -> Int] :
          \A s \in SUBSET S : Cardinality(s) <= Cardinality(S) => AddsAt(g, f, s)
    BY <1>4 DEF UpTo
<1>6. \A s \in SUBSET S : AddsAt(g, f, s)
    BY <1>5, FS_Subset
<1>7. g = [s \in SUBSET S |-> g[s]] /\ DOMAIN f = S
    OBVIOUS
<1>8. Adds(g, f)
    BY <1>6, <1>7 DEF Adds, AddsAt
<1> QED BY <1>8

\* The sum, as the value of a function of sets that adds up f.
LEMMA SumIs ==
    ASSUME NEW S, IsFiniteSet(S), NEW f \in [S -> Int]
    PROVE  \E g \in [SUBSET S -> Int] :
               SumFunction(f) = g[S] /\ AddsUp(g, f, S)
<1> DEFINE c == CHOOSE g : Adds(g, f)
<1>1. PICK g \in [SUBSET S -> Int] : Adds(g, f)
    BY SumExists
<1>2. Adds(c, f)
    BY <1>1
<1>3. SumFunction(f) = c[S]
    BY SumUnfolds
<1> HIDE DEF c
<1>4. DOMAIN f = S
    OBVIOUS
<1>5. AddsUp(c, f, S)
    <2>1. \A s \in SUBSET S : AddsAt(c, f, s)
        BY <1>2, <1>4 DEF Adds, AddsAt
    <2>2. AddsAt(c, f, {})
        BY <2>1
    <2>3. c[{}] = 0
        BY <2>2 DEF AddsAt
    <2>4. ASSUME NEW s \in SUBSET S, s # {} PROVE c[s] = f[Pick(s)] + c[s \ {Pick(s)}]
        <3>1. AddsAt(c, f, s)
            BY <2>1
        <3> QED BY <2>4, <3>1 DEF AddsAt
    <2> QED BY <2>3, <2>4 DEF AddsUp
<1>6. c \in [SUBSET S -> Int]
    <2> DEFINE Good == {s \in SUBSET S : c[s] \in Int}
    <2>1. ASSUME NEW s \in SUBSET S, s # {} => s \ {Pick(s)} \in Good
          PROVE  s \in Good
        <3>1. CASE s = {}
            BY <1>5, <3>1 DEF AddsUp
        <3>2. CASE s # {}
            <4>1. Pick(s) \in S
                BY <3>2 DEF Pick
            <4>2. c[s \ {Pick(s)}] \in Int /\ c[s] = f[Pick(s)] + c[s \ {Pick(s)}]
                BY <1>5, <2>1, <3>2 DEF AddsUp
            <4> QED BY <4>1, <4>2
        <3> QED BY <3>1, <3>2
    <2> HIDE DEF Good
    <2>2. \A s \in SUBSET S : s \in Good
        BY <2>1, PickInduction
    <2>4. \A s \in SUBSET S : c[s] \in Int
        BY <2>2 DEF Good
    <2>3. c = [s \in SUBSET S |-> c[s]]
        BY <1>2, <1>4 DEF Adds
    <2> QED BY <2>3, <2>4
<1> QED BY <1>3, <1>5, <1>6

\* A sum of integers is one.
LEMMA SumType ==
    ASSUME NEW S, IsFiniteSet(S), NEW f \in [S -> Int]
    PROVE  SumFunction(f) \in Int
<1>1. PICK g \in [SUBSET S -> Int] : SumFunction(f) = g[S]
    BY SumIs
<1> QED BY <1>1

\* Adding d at one place adds d to the sum.
LEMMA SumAdds ==
    ASSUME NEW S, IsFiniteSet(S), NEW f \in [S -> Int], NEW e \in [S -> Int], NEW x \in S,
           NEW d \in Int, e[x] = f[x] + d, \A y \in S : y # x => e[y] = f[y]
    PROVE  SumFunction(e) = SumFunction(f) + d
<1>1. e \in [S -> Int] /\ \A y \in S : e[y] = f[y] + IF y = x THEN d ELSE 0
    OBVIOUS
<1>2. PICK g \in [SUBSET S -> Int] : SumFunction(f) = g[S] /\ AddsUp(g, f, S)
    BY SumIs
<1>3. PICK h \in [SUBSET S -> Int] : SumFunction(e) = h[S] /\ AddsUp(h, e, S)
    BY <1>1, SumIs
<1> DEFINE Good == {s \in SUBSET S : h[s] = g[s] + IF x \in s THEN d ELSE 0}
<1>4. ASSUME NEW s \in SUBSET S, s # {} => s \ {Pick(s)} \in Good
      PROVE  s \in Good
    <2>1. CASE s = {}
        BY <1>2, <1>3, <2>1 DEF AddsUp
    <2>2. CASE s # {}
        <3> DEFINE p == Pick(s)
                   r == s \ {p}
        <3>1. p \in s /\ p \in S /\ r \in SUBSET S
            BY <2>2 DEF Pick
        <3>2. h[r] = g[r] + IF x \in r THEN d ELSE 0
            BY <1>4, <2>2
        <3>3. g[s] = f[p] + g[r] /\ h[s] = e[p] + h[r]
            BY <1>2, <1>3, <2>2 DEF AddsUp
        <3>4. e[p] = f[p] + IF p = x THEN d ELSE 0
            BY <1>1, <3>1
        <3>5. f[p] \in Int /\ g[r] \in Int /\ (x \in s <=> x = p \/ x \in r) /\ p \notin r
            BY <3>1
        <3> HIDE DEF p, r
        <3>6. h[s] = g[s] + IF x \in s THEN d ELSE 0
            BY <3>2, <3>3, <3>4, <3>5
        <3> QED BY <3>6
    <2> QED BY <2>1, <2>2
<1> HIDE DEF Good
<1>5. S \in Good
    <2>1. \A s \in SUBSET S : s \in Good
        BY <1>4, PickInduction
    <2> QED BY <2>1
<1> QED BY <1>2, <1>3, <1>5 DEF Good

\* The sum of a constant.
LEMMA SumOfConstant ==
    ASSUME NEW S, IsFiniteSet(S), NEW k \in Int, NEW f \in [S -> Int], \A x \in S : f[x] = k
    PROVE  SumFunction(f) = k * Cardinality(S)
<1>1. f \in [S -> Int] /\ \A x \in S : f[x] = k
    OBVIOUS
<1>2. PICK g \in [SUBSET S -> Int] : SumFunction(f) = g[S] /\ AddsUp(g, f, S)
    BY <1>1, SumIs
<1> DEFINE Good == {s \in SUBSET S : g[s] = k * Cardinality(s)}
<1>3. ASSUME NEW s \in SUBSET S, s # {} => s \ {Pick(s)} \in Good
      PROVE  s \in Good
    <2>1. CASE s = {}
        BY <1>2, <2>1, FS_EmptySet DEF AddsUp
    <2>2. CASE s # {}
        <3>1. /\ Pick(s) \in S /\ Cardinality(s) \in Nat
              /\ Cardinality(s \ {Pick(s)}) = Cardinality(s) - 1
            BY <2>2, PickOne, FS_Subset
        <3>2. g[s] = k + g[s \ {Pick(s)}]
            BY <1>1, <1>2, <2>2, <3>1 DEF AddsUp
        <3>3. g[s \ {Pick(s)}] = k * (Cardinality(s) - 1)
            BY <1>3, <2>2, <3>1
        <3>4. \A n \in Nat : k + k * (n - 1) = k * n
            OBVIOUS
        <3> QED BY <3>1, <3>2, <3>3, <3>4
    <2> QED BY <2>1, <2>2
<1> HIDE DEF Good
<1>4. S \in Good
    <2>1. \A s \in SUBSET S : s \in Good
        BY <1>3, PickInduction
    <2> QED BY <2>1
<1> QED BY <1>2, <1>4 DEF Good

-----------------------------------------------------------------------------
(* Sequences *)

\* Replacing one element by another.
LEMMA ReplaceType ==
    ASSUME NEW X, NEW s \in Seq(X), NEW i, NEW x, i \in DOMAIN s => x \in X
    PROVE  [s EXCEPT ![i] = x] \in Seq(X)
<1>1. Len(s) \in Nat /\ DOMAIN s = 1 .. Len(s) /\ \A k \in 1 .. Len(s) : s[k] \in X
    OBVIOUS
<1>2. [s EXCEPT ![i] = x] \in [1 .. Len(s) -> X]
    BY <1>1
<1> QED BY <1>1, <1>2

\* What is left, and where.
LEMMA RemoveAtIs ==
    ASSUME NEW X, NEW s \in Seq(X), NEW k \in DOMAIN s
    PROVE  /\ RemoveAt(s, k) \in Seq(X)
           /\ Len(s) \in Nat /\ DOMAIN s = 1 .. Len(s) /\ Len(s) - 1 \in Nat
           /\ DOMAIN RemoveAt(s, k) = 1 .. Len(s) - 1
           /\ \A i \in 1 .. Len(s) - 1 : RemoveAt(s, k)[i] = IF i < k THEN s[i] ELSE s[i + 1]
<1>1. Len(s) \in Nat /\ DOMAIN s = 1 .. Len(s) /\ k \in 1 .. Len(s)
    OBVIOUS
<1>2. PICK a : a = SubSeq(s, 1, k - 1)
    OBVIOUS
<1>3. PICK b : b = SubSeq(s, k + 1, Len(s))
    OBVIOUS
<1>4. a \in Seq(X) /\ Len(a) = k - 1 /\ \A i \in 1 .. k - 1 : a[i] = s[i]
    <2>1. k - 1 \in Int /\ \A i \in 1 .. k - 1 : s[i] \in X
        BY <1>1
    <2> QED BY <1>1, <1>2, <2>1, SubSeqProperties
<1>5. b \in Seq(X) /\ Len(b) = Len(s) - k /\ \A i \in 1 .. Len(s) - k : b[i] = s[k + i]
    <2>1. PICK n : n = Len(s)
        OBVIOUS
    <2>2. k + 1 \in Int /\ n \in Int /\ k \in Int /\ k \in 1 .. n
        BY <1>1, <2>1
    <2>3. \A i \in k + 1 .. n : s[i] \in X
        <3>1. \A i \in 1 .. n : s[i] \in X
            BY <2>1
        <3> QED BY <2>2, <3>1
    <2>4. /\ b \in Seq(X) /\ Len(b) = IF k + 1 <= n THEN n - (k + 1) + 1 ELSE 0
          /\ \A i \in 1 .. n - (k + 1) + 1 : b[i] = s[(k + 1) + i - 1]
        BY <1>3, <2>1, <2>2, <2>3, SubSeqProperties
    <2>5. Len(b) = n - k
        BY <2>2, <2>4
    <2>6. ASSUME NEW i \in 1 .. n - k PROVE b[i] = s[k + i]
        <3>1. n - (k + 1) + 1 = n - k
            BY <2>2
        <3>2. (k + 1) + i - 1 = k + i
            BY <2>2
        <3> QED BY <2>4, <3>1, <3>2
    <2> QED BY <2>1, <2>4, <2>5, <2>6
<1>6. RemoveAt(s, k) = a \o b
    BY <1>2, <1>3 DEF RemoveAt
<1>7. /\ a \o b \in Seq(X) /\ Len(a \o b) = Len(s) - 1
      /\ \A i \in 1 .. Len(s) - 1 : (a \o b)[i] = IF i <= k - 1 THEN a[i] ELSE b[i - (k - 1)]
    <2>1. /\ a \o b \in Seq(X) /\ Len(a \o b) = Len(a) + Len(b)
          /\ \A i \in 1 .. Len(a) + Len(b) :
                (a \o b)[i] = IF i <= Len(a) THEN a[i] ELSE b[i - Len(a)]
        BY <1>4, <1>5, ConcatProperties
    <2>2. Len(a) = k - 1 /\ Len(a) + Len(b) = Len(s) - 1
        BY <1>1, <1>4, <1>5
    <2> QED BY <2>1, <2>2
<1>8. \A i \in 1 .. Len(s) - 1 : (a \o b)[i] = IF i < k THEN s[i] ELSE s[i + 1]
    <2> TAKE i \in 1 .. Len(s) - 1
    <2>1. CASE i < k
        BY <1>1, <1>4, <1>7, <2>1
    <2>2. CASE ~(i < k)
        <3>1. (a \o b)[i] = b[i - (k - 1)] /\ i - (k - 1) \in 1 .. Len(s) - k
            BY <1>1, <1>7, <2>2
        <3>2. b[i - (k - 1)] = s[k + (i - (k - 1))]
            BY <1>5, <3>1
        <3>3. k + (i - (k - 1)) = i + 1
            BY <1>1
        <3> QED BY <2>2, <3>1, <3>2, <3>3
    <2> QED BY <2>1, <2>2
<1>9. DOMAIN (a \o b) = 1 .. Len(s) - 1
    BY <1>7
<1>10. Len(s) - 1 \in Nat
    BY <1>1
<1> QED BY <1>1, <1>6, <1>7, <1>8, <1>9, <1>10
=============================================================================
