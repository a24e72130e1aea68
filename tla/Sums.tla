-------------------------------- MODULE Sums --------------------------------
(***************************************************************************)
(* What the sum of a function over a finite set is: facts about            *)
(* SumFunctionOnSet of the community modules.                              *)
(***************************************************************************)
EXTENDS Functions, Integers, FiniteSetTheorems, WellFoundedInduction, TLAPS

\* Induction, for a set instead of a predicate.
LEMMA NatSetInduction ==
    ASSUME NEW T \in SUBSET Nat, 0 \in T, \A n \in T : n + 1 \in T
    PROVE  T = Nat
<1> SUFFICES ASSUME Nat \ T # {} PROVE FALSE
  OBVIOUS
<1>1. PICK n \in Nat \ T : \A m \in Nat \ T : ~ (<<m, n>> \in OpToRel(<, Nat))
  <2>1. Nat \ T \subseteq Nat
    OBVIOUS
  <2> QED
    BY <2>1, NatLessThanWellFounded, WFMin
<1>2. \A m \in Nat \ T : ~ (m < n)
  <2> SUFFICES ASSUME NEW m \in Nat \ T, m < n PROVE <<m, n>> \in OpToRel(<, Nat)
    BY <1>1
  <2> QED
    BY DEF OpToRel
<1>3. n # 0 /\ n - 1 \in Nat /\ n - 1 < n
  OBVIOUS
<1>4. n - 1 \in T
  BY <1>2, <1>3
<1>5. n - 1 + 1 = n
  OBVIOUS
<1> QED
  BY <1>4, <1>5

Pick(s) == CHOOSE x \in s : TRUE
SumOf(f, S, iter) ==
    iter = [s \in SUBSET S |-> IF s = {} THEN 0 ELSE f[Pick(s)] + iter[s \ {Pick(s)}]]

LEMMA SumUnfolds ==
    ASSUME NEW f, NEW S
    PROVE  SumFunctionOnSet(f, S) = (CHOOSE iter : SumOf(f, S, iter))[S]
  BY DEF SumFunctionOnSet, FoldFunctionOnSet, MapThenFoldSet, SumOf, Pick

-----------------------------------------------------------------------------
\* The subsets of S of at most n elements.
Small(S, n) == {s \in SUBSET S : Cardinality(s) <= n}
SumUpTo(f, S, n, iter) ==
    iter = [s \in Small(S, n) |-> IF s = {} THEN 0 ELSE f[Pick(s)] + iter[s \ {Pick(s)}]]

LEMMA PickFacts ==
    ASSUME NEW S, IsFiniteSet(S), NEW s \in SUBSET S, s # {}
    PROVE  /\ Pick(s) \in s /\ s \ {Pick(s)} \in SUBSET S
           /\ IsFiniteSet(s) /\ Cardinality(s) \in Nat
           /\ Cardinality(s \ {Pick(s)}) = Cardinality(s) - 1
<1>1. Pick(s) \in s
  BY DEF Pick
<1>2. IsFiniteSet(s)
  BY FS_Subset
<1> QED
  BY <1>1, <1>2, FS_RemoveElement, FS_CardinalityType

LEMMA SmallSums ==
    ASSUME NEW f, NEW S, IsFiniteSet(S)
    PROVE  \A n \in Nat : \E iter : SumUpTo(f, S, n, iter)
<1> DEFINE T == {n \in Nat : \E iter : SumUpTo(f, S, n, iter)}
<1>1. 0 \in T
  <2> DEFINE g == [s \in Small(S, 0) |-> 0]
  <2>1. \A s \in Small(S, 0) : s = {}
    <3> SUFFICES ASSUME NEW s \in SUBSET S, Cardinality(s) <= 0, s # {} PROVE FALSE
      BY DEF Small
    <3>1. IsFiniteSet(s) /\ Cardinality(s) \in Nat
      BY PickFacts
    <3>2. Cardinality(s) = 0
      BY <3>1
    <3> QED
      BY <3>1, <3>2, FS_EmptySet
  <2>2. g = [s \in Small(S, 0) |-> IF s = {} THEN 0 ELSE f[Pick(s)] + g[s \ {Pick(s)}]]
    BY <2>1
  <2> QED
    BY <2>2 DEF SumUpTo
<1>2. ASSUME NEW n \in T PROVE n + 1 \in T
  <2>1. PICK g : SumUpTo(f, S, n, g)
    OBVIOUS
  <2> DEFINE value(k, s) == IF s = {} THEN 0 ELSE f[Pick(s)] + k[s \ {Pick(s)}]
  <2>2. /\ DOMAIN g = Small(S, n)
        /\ \A s \in Small(S, n) : g[s] = value(g, s)
    BY <2>1 DEF SumUpTo
  <2>0. PICK k : k = [s \in Small(S, n + 1) |-> value(g, s)]
    OBVIOUS
  <2>3. ASSUME NEW s \in Small(S, n + 1), s # {}
        PROVE  s \ {Pick(s)} \in Small(S, n) /\ s \ {Pick(s)} \in Small(S, n + 1)
    <3>1. s \in SUBSET S /\ Cardinality(s) <= n + 1
      BY DEF Small
    <3>2. /\ s \ {Pick(s)} \in SUBSET S
          /\ Cardinality(s) \in Nat /\ Cardinality(s \ {Pick(s)}) = Cardinality(s) - 1
      BY <2>3, <3>1, PickFacts
    <3>3. Cardinality(s) - 1 <= n /\ Cardinality(s) - 1 <= n + 1
      BY <3>1, <3>2
    <3> QED
      BY <3>2, <3>3 DEF Small
  <2>4. \A s \in Small(S, n + 1) : k[s] = value(g, s)
    BY <2>0
  <2>5. ASSUME NEW s \in Small(S, n + 1) PROVE k[s] = value(k, s)
    <3>1. CASE s = {}
      BY <2>4, <3>1
    <3>2. CASE s # {}
      <4> DEFINE t == s \ {Pick(s)}
      <4>1. g[t] = value(g, t) /\ t \in Small(S, n + 1)
        BY <2>2, <2>3, <3>2
      <4>2. k[t] = g[t]
        BY <2>4, <4>1
      <4> QED
        BY <2>4, <3>2, <4>2
    <3> QED
      BY <3>1, <3>2
  <2>6. k = [s \in Small(S, n + 1) |-> value(k, s)]
    BY <2>0, <2>5
  <2> QED
    BY <2>6 DEF SumUpTo
<1> HIDE DEF T
<1>3. T \in SUBSET Nat
  BY DEF T
<1>4. T = Nat
  BY <1>1, <1>2, <1>3, NatSetInduction
<1> QED
  BY <1>4 DEF T

LEMMA SumExists ==
    ASSUME NEW f, NEW S, IsFiniteSet(S)
    PROVE  SumOf(f, S, CHOOSE iter : SumOf(f, S, iter))
<1>1. Cardinality(S) \in Nat
  BY FS_CardinalityType
<1>2. Small(S, Cardinality(S)) = SUBSET S
  BY FS_Subset DEF Small
<1>3. PICK iter : SumUpTo(f, S, Cardinality(S), iter)
  BY <1>1, SmallSums
<1>4. SumOf(f, S, iter)
  BY <1>2, <1>3 DEF SumUpTo, SumOf
<1> QED
  BY <1>4

\* The sum over S of f, taken apart at the element that is picked first; the sum
\* over a subset is what it is on its own, and functions that agree have one sum.
Iter(f, S) == CHOOSE iter : SumOf(f, S, iter)

LEMMA IterFacts ==
    ASSUME NEW f, NEW S, IsFiniteSet(S), NEW s \in SUBSET S
    PROVE  Iter(f, S)[s] = IF s = {} THEN 0 ELSE f[Pick(s)] + Iter(f, S)[s \ {Pick(s)}]
<1>1. PICK iter : iter = Iter(f, S) /\ SumOf(f, S, iter)
  BY SumExists DEF Iter
<1>2. iter[s] = IF s = {} THEN 0 ELSE f[Pick(s)] + iter[s \ {Pick(s)}]
  BY <1>1 DEF SumOf
<1> QED
  BY <1>1, <1>2

LEMMA SumsAgree ==
    ASSUME NEW f, NEW g, NEW S, NEW R, IsFiniteSet(S), IsFiniteSet(R),
           NEW s \in SUBSET S, s \in SUBSET R, \A x \in s : f[x] = g[x]
    PROVE  Iter(f, S)[s] = Iter(g, R)[s]
<1> DEFINE same(t) == Iter(f, S)[t] = Iter(g, R)[t]
           T == {n \in Nat : \A t \in SUBSET s : Cardinality(t) = n => same(t)}
<1>1. IsFiniteSet(s) /\ Cardinality(s) \in Nat
  BY FS_Subset, FS_CardinalityType
<1>2. ASSUME NEW t \in SUBSET s
      PROVE  IsFiniteSet(t) /\ t \in SUBSET S /\ t \in SUBSET R
  BY <1>1, FS_Subset
<1>3. same({})
  BY IterFacts
<1>4. 0 \in T
  BY <1>2, <1>3, FS_EmptySet
<1>5. ASSUME NEW n \in T PROVE n + 1 \in T
  <2> SUFFICES ASSUME NEW t \in SUBSET s, Cardinality(t) = n + 1 PROVE same(t)
    OBVIOUS
  <2>1. t # {}
    <3>1. n \in Nat /\ n + 1 # 0
      OBVIOUS
    <3>2. Cardinality({}) = 0
      BY FS_EmptySet
    <3> QED
      BY <3>1, <3>2
  <2> DEFINE r == t \ {Pick(t)}
  <2>2. r \in SUBSET s /\ Cardinality(r) = n /\ Pick(t) \in s
    BY <1>1, <2>1, PickFacts
  <2>3. same(r) /\ f[Pick(t)] = g[Pick(t)]
    BY <2>2
  <2>4. /\ Iter(f, S)[t] = f[Pick(t)] + Iter(f, S)[r]
        /\ Iter(g, R)[t] = g[Pick(t)] + Iter(g, R)[r]
    BY <1>2, <2>1, IterFacts
  <2> QED
    BY <2>3, <2>4
<1> HIDE DEF T
<1>6. T = Nat
  <2>1. T \in SUBSET Nat
    BY DEF T
  <2> QED
    BY <1>4, <1>5, <2>1, NatSetInduction
<1> QED
  BY <1>1, <1>6 DEF T

\* The sum depends on the values on the set only.
THEOREM SumSame ==
    ASSUME NEW S, IsFiniteSet(S), NEW f, NEW g, \A x \in S : f[x] = g[x]
    PROVE  SumFunctionOnSet(f, S) = SumFunctionOnSet(g, S)
<1>1. S \in SUBSET S
  OBVIOUS
<1>2. SumFunctionOnSet(f, S) = Iter(f, S)[S] /\ SumFunctionOnSet(g, S) = Iter(g, S)[S]
  BY SumUnfolds DEF Iter
<1>3. Iter(f, S)[S] = Iter(g, S)[S]
  BY <1>1, SumsAgree
<1> QED
  BY <1>2, <1>3

\* The sum over nothing.
THEOREM SumEmpty ==
    ASSUME NEW f
    PROVE  SumFunctionOnSet(f, {}) = 0
<1>1. IsFiniteSet({}) /\ {} \in SUBSET {}
  BY FS_EmptySet
<1> QED
  BY <1>1, SumUnfolds, IterFacts DEF Iter

LEMMA SumPicks ==
    ASSUME NEW f, NEW S, IsFiniteSet(S), S # {}
    PROVE  SumFunctionOnSet(f, S) = f[Pick(S)] + SumFunctionOnSet(f, S \ {Pick(S)})
<1> DEFINE R == S \ {Pick(S)}
<1>1. R \in SUBSET S /\ R \in SUBSET R /\ IsFiniteSet(R) /\ S \in SUBSET S
  BY FS_RemoveElement
<1>2. SumFunctionOnSet(f, S) = Iter(f, S)[S] /\ SumFunctionOnSet(f, R) = Iter(f, R)[R]
  BY SumUnfolds DEF Iter
<1>3. Iter(f, S)[S] = f[Pick(S)] + Iter(f, S)[R]
  BY <1>1, IterFacts
<1>4. Iter(f, S)[R] = Iter(f, R)[R]
  BY <1>1, SumsAgree
<1> QED
  BY <1>2, <1>3, <1>4

\* A sum of integers is one, and of naturals another.
THEOREM SumType ==
    ASSUME NEW S, IsFiniteSet(S), NEW f, \A x \in S : f[x] \in Int
    PROVE  /\ SumFunctionOnSet(f, S) \in Int
           /\ (\A x \in S : f[x] >= 0) => SumFunctionOnSet(f, S) >= 0
<1> DEFINE fine(t) == /\ SumFunctionOnSet(f, t) \in Int
                      /\ (\A x \in S : f[x] >= 0) => SumFunctionOnSet(f, t) >= 0
           T == {n \in Nat : \A t \in SUBSET S : Cardinality(t) = n => fine(t)}
<1>1. ASSUME NEW t \in SUBSET S PROVE IsFiniteSet(t) /\ Cardinality(t) \in Nat
  BY FS_Subset, FS_CardinalityType
<1>2. fine({})
  BY SumEmpty
<1>3. 0 \in T
  BY <1>1, <1>2, FS_EmptySet
<1>4. ASSUME NEW n \in T PROVE n + 1 \in T
  <2> SUFFICES ASSUME NEW t \in SUBSET S, Cardinality(t) = n + 1 PROVE fine(t)
    OBVIOUS
  <2>1. t # {}
    <3>1. n \in Nat /\ n + 1 # 0
      OBVIOUS
    <3>2. Cardinality({}) = 0
      BY FS_EmptySet
    <3> QED
      BY <3>1, <3>2
  <2> DEFINE r == t \ {Pick(t)}
  <2>2. r \in SUBSET S /\ Cardinality(r) = n /\ Pick(t) \in S
    BY <2>1, PickFacts
  <2>3. fine(r) /\ f[Pick(t)] \in Int
    BY <2>2
  <2>4. SumFunctionOnSet(f, t) = f[Pick(t)] + SumFunctionOnSet(f, r)
    BY <1>1, <2>1, SumPicks
  <2> QED
    BY <2>2, <2>3, <2>4
<1> HIDE DEF T
<1>5. T = Nat
  <2>1. T \in SUBSET Nat
    BY DEF T
  <2> QED
    BY <1>3, <1>4, <2>1, NatSetInduction
<1>6. S \in SUBSET S /\ Cardinality(S) \in Nat
  BY FS_CardinalityType
<1> QED
  BY <1>5, <1>6 DEF T

\* Any element may be taken out of the sum.
THEOREM SumRemove ==
    ASSUME NEW S, IsFiniteSet(S), NEW f, \A x \in S : f[x] \in Int, NEW a \in S
    PROVE  SumFunctionOnSet(f, S) = f[a] + SumFunctionOnSet(f, S \ {a})
<1> DEFINE splits(t) == \A x \in t :
                SumFunctionOnSet(f, t) = f[x] + SumFunctionOnSet(f, t \ {x})
           T == {n \in Nat : \A t \in SUBSET S : Cardinality(t) = n => splits(t)}
<1>1. ASSUME NEW t \in SUBSET S PROVE IsFiniteSet(t) /\ Cardinality(t) \in Nat
  BY FS_Subset, FS_CardinalityType
<1>2. ASSUME NEW t \in SUBSET S PROVE SumFunctionOnSet(f, t) \in Int
  BY <1>1, SumType
<1>3. 0 \in T
  <2> SUFFICES ASSUME NEW t \in SUBSET S, Cardinality(t) = 0 PROVE splits(t)
    OBVIOUS
  <2>1. t = {}
    BY <1>1, FS_EmptySet
  <2> QED
    BY <2>1
<1>4. ASSUME NEW n \in T PROVE n + 1 \in T
  <2> SUFFICES ASSUME NEW t \in SUBSET S, Cardinality(t) = n + 1, NEW x \in t
               PROVE  SumFunctionOnSet(f, t) = f[x] + SumFunctionOnSet(f, t \ {x})
    OBVIOUS
  <2>1. PICK p : p = Pick(t)
    OBVIOUS
  <2>2. /\ SumFunctionOnSet(f, t) = f[p] + SumFunctionOnSet(f, t \ {p})
        /\ t \ {p} \in SUBSET S /\ Cardinality(t \ {p}) = n /\ p \in t
    <3>1. t # {}
      OBVIOUS
    <3>2. Cardinality(t) - 1 = n
      OBVIOUS
    <3> QED
      BY <1>1, <2>1, <3>1, <3>2, PickFacts, SumPicks
  <2>3. CASE x = p
    BY <2>2, <2>3
  <2>4. CASE x # p
    <3>1. PICK r : r = (t \ {p}) \ {x}
      OBVIOUS
    <3>2. SumFunctionOnSet(f, t \ {p}) = f[x] + SumFunctionOnSet(f, r)
      <4>1. splits(t \ {p}) /\ x \in t \ {p}
        BY <2>2, <2>4
      <4> QED
        BY <3>1, <4>1
    <3>3. PICK u : u = t \ {x}
      OBVIOUS
    <3>4. u \in SUBSET S /\ Cardinality(u) = n /\ p \in u /\ r = u \ {p}
      <4>1. Cardinality(u) = Cardinality(t) - 1
        BY <1>1, <3>3, FS_RemoveElement
      <4>2. Cardinality(t) - 1 = n
        OBVIOUS
      <4> QED
        BY <2>2, <2>4, <3>1, <3>3, <4>1, <4>2
    <3>5. SumFunctionOnSet(f, u) = f[p] + SumFunctionOnSet(f, r)
      <4>1. splits(u)
        BY <3>4
      <4> QED
        BY <3>4, <4>1
    <3>6. /\ f[p] \in Int /\ f[x] \in Int /\ r \in SUBSET S
          /\ SumFunctionOnSet(f, r) \in Int
      BY <1>2, <2>2, <3>1
    <3> QED
      BY <2>2, <3>2, <3>3, <3>5, <3>6
  <2> QED
    BY <2>3, <2>4
<1> HIDE DEF T
<1>5. T = Nat
  <2>1. T \in SUBSET Nat
    BY DEF T
  <2> QED
    BY <1>3, <1>4, <2>1, NatSetInduction
<1>6. S \in SUBSET S /\ Cardinality(S) \in Nat
  BY FS_CardinalityType
<1> QED
  BY <1>5, <1>6 DEF T

\* One value changes: the sum changes by as much.
THEOREM SumChange ==
    ASSUME NEW S, IsFiniteSet(S), NEW f, NEW g, NEW a \in S,
           \A x \in S : f[x] \in Int, g[a] \in Int, \A x \in S \ {a} : g[x] = f[x]
    PROVE  SumFunctionOnSet(g, S) = SumFunctionOnSet(f, S) - f[a] + g[a]
<1> DEFINE R == S \ {a}
<1>1. IsFiniteSet(R)
  BY FS_RemoveElement
<1>2. SumFunctionOnSet(f, R) = SumFunctionOnSet(g, R) /\ SumFunctionOnSet(f, R) \in Int
  BY <1>1, SumSame, SumType
<1>3. SumFunctionOnSet(f, S) = f[a] + SumFunctionOnSet(f, R)
  BY SumRemove
<1>4. \A x \in S : g[x] \in Int
  OBVIOUS
<1>5. SumFunctionOnSet(g, S) = g[a] + SumFunctionOnSet(g, R)
  BY <1>4, SumRemove
<1> QED
  BY <1>2, <1>3, <1>5

\* An element joins the set.
THEOREM SumAdd ==
    ASSUME NEW S, IsFiniteSet(S), NEW f, NEW a, a \notin S, f[a] \in Int,
           \A x \in S : f[x] \in Int
    PROVE  SumFunctionOnSet(f, S \cup {a}) = f[a] + SumFunctionOnSet(f, S)
<1> DEFINE R == S \cup {a}
<1>1. IsFiniteSet(R) /\ a \in R /\ R \ {a} = S /\ \A x \in R : f[x] \in Int
  BY FS_AddElement
<1>2. SumFunctionOnSet(f, R) = f[a] + SumFunctionOnSet(f, R \ {a})
  BY <1>1, SumRemove
<1> QED
  BY <1>1, <1>2

-----------------------------------------------------------------------------
\* Induction over the subsets of a finite set.
THEOREM SubsetInduction ==
    ASSUME NEW S, IsFiniteSet(S), NEW T \in SUBSET (SUBSET S), {} \in T,
           \A t \in T : \A x \in S \ t : t \cup {x} \in T
    PROVE  S \in T
<1> DEFINE N == {n \in Nat : \A t \in SUBSET S : Cardinality(t) = n => t \in T}
<1>1. ASSUME NEW t \in SUBSET S PROVE IsFiniteSet(t) /\ Cardinality(t) \in Nat
  BY FS_Subset, FS_CardinalityType
<1>2. 0 \in N
  <2> SUFFICES ASSUME NEW t \in SUBSET S, Cardinality(t) = 0 PROVE t \in T
    OBVIOUS
  <2>1. t = {}
    BY <1>1, FS_EmptySet
  <2> QED
    BY <2>1
<1>3. ASSUME NEW n \in N PROVE n + 1 \in N
  <2> SUFFICES ASSUME NEW t \in SUBSET S, Cardinality(t) = n + 1 PROVE t \in T
    OBVIOUS
  <2>1. t # {}
    <3>1. n \in Nat /\ n + 1 # 0
      OBVIOUS
    <3>2. Cardinality({}) = 0
      BY FS_EmptySet
    <3> QED
      BY <3>1, <3>2
  <2>2. PICK x : x \in t
    BY <2>1
  <2>3. Cardinality(t \ {x}) = n /\ t \ {x} \in SUBSET S
    <3>1. Cardinality(t \ {x}) = Cardinality(t) - 1
      BY <1>1, <2>2, FS_RemoveElement
    <3>2. Cardinality(t) - 1 = n
      OBVIOUS
    <3> QED
      BY <3>1, <3>2
  <2>4. t \ {x} \in T /\ x \in S \ (t \ {x}) /\ (t \ {x}) \cup {x} = t
    BY <2>2, <2>3
  <2> QED
    BY <2>4
<1> HIDE DEF N
<1>4. N = Nat
  <2>1. N \in SUBSET Nat
    BY DEF N
  <2> QED
    BY <1>2, <1>3, <2>1, NatSetInduction
<1>5. S \in SUBSET S /\ Cardinality(S) \in Nat
  BY FS_CardinalityType
<1> QED
  BY <1>4, <1>5 DEF N

\* A factor times a sum of terms is no more than the sum of what each of them
\* times the factor is no more than.
THEOREM SumScaled ==
    ASSUME NEW S, IsFiniteSet(S), NEW f, NEW g, NEW k \in Nat, NEW l \in Nat,
           \A x \in S : f[x] \in Nat /\ g[x] \in Nat /\ k * f[x] <= l * g[x]
    PROVE  k * SumFunctionOnSet(f, S) <= l * SumFunctionOnSet(g, S)
<1> DEFINE T == {t \in SUBSET S : k * SumFunctionOnSet(f, t) <= l * SumFunctionOnSet(g, t)}
<1>1. {} \in T
  BY SumEmpty
<1>2. ASSUME NEW t \in T, NEW x \in S \ t PROVE t \cup {x} \in T
  <2>1. IsFiniteSet(t) /\ t \in SUBSET S /\ x \notin t /\ x \in S
    BY FS_Subset
  <2>2. PICK m, n : m = SumFunctionOnSet(f, t) /\ n = SumFunctionOnSet(g, t)
    OBVIOUS
  <2>3. m \in Nat /\ n \in Nat
    <3>1. \A y \in t : f[y] \in Int /\ g[y] \in Int /\ f[y] >= 0 /\ g[y] >= 0
      BY <2>1
    <3> QED
      BY <2>1, <2>2, <3>1, SumType
  <2>4. /\ SumFunctionOnSet(f, t \cup {x}) = f[x] + m
        /\ SumFunctionOnSet(g, t \cup {x}) = g[x] + n
    <3>1. \A y \in t : f[y] \in Int /\ g[y] \in Int
      BY <2>1
    <3>2. f[x] \in Int /\ g[x] \in Int
      OBVIOUS
    <3> QED
      BY <2>1, <2>2, <3>1, <3>2, SumAdd
  <2>5. k * m <= l * n
    BY <2>2
  <2>6. PICK b, c : b = f[x] /\ c = g[x]
    OBVIOUS
  <2>7. b \in Nat /\ c \in Nat /\ k * b <= l * c
    BY <2>6
  <2>8. k * (b + m) <= l * (c + n)
    <3>1. k * (b + m) = k * b + k * m /\ l * (c + n) = l * c + l * n
      BY <2>3, <2>7
    <3>2. k * b \in Int /\ k * m \in Int /\ l * c \in Int /\ l * n \in Int
      BY <2>3, <2>7
    <3> QED
      BY <2>5, <2>7, <3>1, <3>2
  <2> QED
    BY <2>1, <2>4, <2>6, <2>8
<1> HIDE DEF T
<1>3. T \in SUBSET (SUBSET S)
  BY DEF T
<1>4. S \in T
  BY <1>1, <1>2, <1>3, SubsetInduction
<1> QED
  BY <1>4 DEF T

\* A sum of naturals is 0 only when every term is.
THEOREM SumZero ==
    ASSUME NEW S, IsFiniteSet(S), NEW f, \A x \in S : f[x] \in Nat
    PROVE  SumFunctionOnSet(f, S) = 0 <=> \A x \in S : f[x] = 0
<1>1. ASSUME NEW a \in S, SumFunctionOnSet(f, S) = 0 PROVE f[a] = 0
  <2>1. SumFunctionOnSet(f, S) = f[a] + SumFunctionOnSet(f, S \ {a})
    BY SumRemove
  <2>2. SumFunctionOnSet(f, S \ {a}) \in Int /\ SumFunctionOnSet(f, S \ {a}) >= 0
    <3>1. IsFiniteSet(S \ {a}) /\ \A x \in S \ {a} : f[x] \in Int /\ f[x] >= 0
      BY FS_RemoveElement
    <3> QED
      BY <3>1, SumType
  <2> QED
    BY <1>1, <2>1, <2>2
<1>2. ASSUME \A x \in S : f[x] = 0 PROVE SumFunctionOnSet(f, S) = 0
  <2> DEFINE T == {t \in SUBSET S : SumFunctionOnSet(f, t) = 0}
  <2>1. {} \in T
    BY SumEmpty
  <2>2. ASSUME NEW t \in T, NEW x \in S \ t PROVE t \cup {x} \in T
    <3>1. IsFiniteSet(t) /\ t \in SUBSET S /\ x \notin t /\ \A y \in t : f[y] \in Int
      BY FS_Subset
    <3>2. f[x] = 0 /\ f[x] \in Int
      BY <1>2
    <3>3. SumFunctionOnSet(f, t \cup {x}) = f[x] + SumFunctionOnSet(f, t)
      BY <3>1, <3>2, SumAdd
    <3> QED
      BY <3>1, <3>2, <3>3
  <2> HIDE DEF T
  <2>3. S \in T
    <3>1. T \in SUBSET (SUBSET S)
      BY DEF T
    <3> QED
      BY <2>1, <2>2, <3>1, SubsetInduction
  <2> QED
    BY <2>3 DEF T
<1> QED
  BY <1>1, <1>2

\* The sum of two functions' values is the sum of their sums.
THEOREM SumSplit ==
    ASSUME NEW S, IsFiniteSet(S), NEW f, NEW g, NEW h,
           \A x \in S : f[x] \in Int /\ g[x] \in Int /\ h[x] = f[x] + g[x]
    PROVE  SumFunctionOnSet(h, S) = SumFunctionOnSet(f, S) + SumFunctionOnSet(g, S)
<1> DEFINE T == {t \in SUBSET S :
                  SumFunctionOnSet(h, t) = SumFunctionOnSet(f, t) + SumFunctionOnSet(g, t)}
<1>1. {} \in T
  BY SumEmpty
<1>2. ASSUME NEW t \in T, NEW x \in S \ t PROVE t \cup {x} \in T
  <2>1. /\ IsFiniteSet(t) /\ t \in SUBSET S /\ x \notin t
        /\ \A y \in t : f[y] \in Int /\ g[y] \in Int /\ h[y] \in Int
    BY FS_Subset
  <2>2. f[x] \in Int /\ g[x] \in Int /\ h[x] \in Int /\ h[x] = f[x] + g[x]
    OBVIOUS
  <2>3. /\ SumFunctionOnSet(f, t \cup {x}) = f[x] + SumFunctionOnSet(f, t)
        /\ SumFunctionOnSet(g, t \cup {x}) = g[x] + SumFunctionOnSet(g, t)
        /\ SumFunctionOnSet(h, t \cup {x}) = h[x] + SumFunctionOnSet(h, t)
    BY <2>1, <2>2, SumAdd
  <2>4. SumFunctionOnSet(f, t) \in Int /\ SumFunctionOnSet(g, t) \in Int
    BY <2>1, SumType
  <2>5. SumFunctionOnSet(h, t) = SumFunctionOnSet(f, t) + SumFunctionOnSet(g, t)
    OBVIOUS
  <2> QED
    BY <2>1, <2>2, <2>3, <2>4, <2>5
<1> HIDE DEF T
<1>3. T \in SUBSET (SUBSET S)
  BY DEF T
<1>4. S \in T
  BY <1>1, <1>2, <1>3, SubsetInduction
<1> QED
  BY <1>4 DEF T

\* A finite set has an element of the largest value.
THEOREM LargestExists ==
    ASSUME NEW S, IsFiniteSet(S), S # {}, NEW f, \A x \in S : f[x] \in Nat
    PROVE  \E x \in S : \A y \in S : f[x] >= f[y]
<1> DEFINE T == {t \in SUBSET S : t # {} => \E x \in t : \A y \in t : f[x] >= f[y]}
<1>1. {} \in T
  OBVIOUS
<1>2. ASSUME NEW t \in T, NEW z \in S \ t PROVE t \cup {z} \in T
  <2>1. CASE t = {}
    BY <2>1
  <2>2. CASE t # {}
    <3>1. PICK x \in t : \A y \in t : f[x] >= f[y]
      BY <2>2
    <3>2. f[z] \in Nat /\ f[x] \in Nat /\ \A y \in t : f[y] \in Nat
      OBVIOUS
    <3>3. CASE f[x] >= f[z]
      <4>1. \A y \in t \cup {z} : f[x] >= f[y]
        BY <3>1, <3>3
      <4> QED
        BY <4>1
    <3>4. CASE ~(f[x] >= f[z])
      <4>1. \A y \in t \cup {z} : f[z] >= f[y]
        BY <3>1, <3>2, <3>4
      <4> QED
        BY <4>1
    <3> QED
      BY <3>3, <3>4
  <2> QED
    BY <2>1, <2>2
<1> HIDE DEF T
<1>3. T \in SUBSET (SUBSET S)
  BY DEF T
<1>4. S \in T
  BY <1>1, <1>2, <1>3, SubsetInduction
<1> QED
  BY <1>4 DEF T
=============================================================================
