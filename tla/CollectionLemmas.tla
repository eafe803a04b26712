--------------------------- MODULE CollectionLemmas ---------------------------
(****************************************************************************)
(* Facts about the operators on sequences and functions that the models     *)
(* take from the community modules: what RemoveFirst returns, and how a sum *)
(* over a finite set splits, changes and is renumbered.                     *)
(*                                                                          *)
(* Induction is over sets: LeastNatural gives the least number with a       *)
(* property, and SubsetInduction the smallest subset.                       *)
(****************************************************************************)
EXTENDS SequencesExt, Functions, SequenceTheorems, FiniteSetTheorems, WellFoundedInduction, TLAPS

\* A set of natural numbers has a least element.
LEMMA LeastNatural ==
  ASSUME NEW T \in SUBSET Nat, T # {}
  PROVE  \E n \in T : \A m \in T : n <= m
<1>1. PICK n \in T : \A m \in T : ~(<<m, n>> \in OpToRel(<, Nat))
  BY NatLessThanWellFounded, WFMin, Zenon
<1>2. \A m \in T : ~(m < n)
  BY <1>1, Zenon DEF OpToRel
<1> QED BY <1>2

\* A nonempty set of naturals has a least element, and Min returns it.
LEMMA MinOfNaturals ==
  ASSUME NEW T, T \subseteq Nat, T # {}
  PROVE  Min(T) \in T /\ \A j \in T : Min(T) <= j
BY LeastNatural DEF Min

\* RemoveFirst takes out the first occurrence and leaves the rest in order.
LEMMA RemoveFirstPresent ==
  ASSUME NEW S, NEW s \in Seq(S), NEW e, \E i \in 1..Len(s) : s[i] = e
  PROVE  \E k \in 1..Len(s) :
           /\ s[k] = e
           /\ \A i \in 1..(k - 1) : s[i] # e
           /\ RemoveFirst(s, e) \in Seq(S)
           /\ Len(RemoveFirst(s, e)) = Len(s) - 1
           /\ \A i \in 1..(Len(s) - 1) :
                RemoveFirst(s, e)[i] = IF i < k THEN s[i] ELSE s[i + 1]
<1> DEFINE I == {i \in 1..Len(s) : s[i] = e}
           k == SelectInSeq(s, LAMBDA v : v = e)
<1>1. I # {} /\ I \subseteq Nat
  BY LenProperties
<1>2. k = Min(I)
  BY <1>1 DEF SelectInSeq
<1>3. k \in I /\ \A i \in I : k <= i
  BY <1>1, <1>2, MinOfNaturals
<1>4. RemoveFirst(s, e) = SubSeq(s, 1, k - 1) \o SubSeq(s, k + 1, Len(s))
  BY DEF RemoveFirst, RemoveAt
<1> HIDE DEF k
<1>5. Len(s) \in Nat /\ k \in 1..Len(s) /\ s[k] = e /\ \A i \in 1..(k - 1) : s[i] # e
  BY <1>3, LenProperties
<1> DEFINE u == SubSeq(s, 1, k - 1)
           v == SubSeq(s, k + 1, Len(s))
<1>6. /\ u \in Seq(S) /\ Len(u) = k - 1
      /\ \A i \in 1..(k - 1) : u[i] = s[i]
  <2>1. \A i \in 1..(k - 1) : s[i] \in S
    BY <1>5, ElementOfSeq
  <2> QED BY <1>5, <2>1, SubSeqProperties
<1>7. /\ v \in Seq(S) /\ Len(v) = Len(s) - k
      /\ \A i \in 1..(Len(s) - k) : v[i] = s[k + i]
  <2>1. \A i \in (k + 1)..Len(s) : s[i] \in S
    BY <1>5, ElementOfSeq
  <2> QED BY <1>5, <2>1, SubSeqProperties
<1> HIDE DEF u, v
<1>8. /\ u \o v \in Seq(S) /\ Len(u \o v) = Len(s) - 1
      /\ \A i \in 1..(Len(s) - 1) : (u \o v)[i] = IF i < k THEN s[i] ELSE s[i + 1]
  <2>1. /\ u \o v \in Seq(S) /\ Len(u \o v) = Len(u) + Len(v)
        /\ \A i \in 1..(Len(u) + Len(v)) :
             (u \o v)[i] = IF i <= Len(u) THEN u[i] ELSE v[i - Len(u)]
    BY <1>6, <1>7, ConcatProperties
  <2>2. ASSUME NEW i \in 1..(Len(s) - 1)
        PROVE  (u \o v)[i] = IF i < k THEN s[i] ELSE s[i + 1]
    <3>1. CASE i < k
      BY <1>5, <1>6, <1>7, <2>1, <3>1
    <3>2. CASE ~ (i < k)
      <4>1. i - Len(u) \in 1..(Len(s) - k) /\ k + (i - Len(u)) = i + 1
        BY <1>5, <1>6, <3>2
      <4>2. i \in 1..(Len(u) + Len(v)) /\ ~ (i <= Len(u))
        BY <1>5, <1>6, <1>7, <3>2
      <4>3. (u \o v)[i] = v[i - Len(u)]
        BY <2>1, <4>2, Zenon
      <4> QED BY <1>7, <3>2, <4>1, <4>3, Zenon
    <3> QED BY <3>1, <3>2
  <2> QED BY <1>5, <1>6, <1>7, <2>1, <2>2
<1> QED BY <1>4, <1>5, <1>8 DEF u, v

\* Without the element, RemoveFirst changes nothing.
LEMMA RemoveFirstAbsent ==
  ASSUME NEW S, NEW s \in Seq(S), NEW e, \A i \in 1..Len(s) : s[i] # e
  PROVE  RemoveFirst(s, e) = s
BY DEF RemoveFirst

\* In either case a sequence over the same set is left.
LEMMA RemoveFirstType ==
  ASSUME NEW S, NEW s \in Seq(S), NEW e
  PROVE  RemoveFirst(s, e) \in Seq(S)
BY RemoveFirstPresent, RemoveFirstAbsent

\* The sequence u has distinct elements, and v has d where u has e.
Matching(u, v, e, d) ==
  /\ Len(u) = Len(v)
  /\ \A i \in 1..Len(u) : u[i] = e <=> v[i] = d
  /\ \A i, j \in 1..Len(u) : u[i] = u[j] => i = j

\* x and y are u and v without the place of e; m[i] is where their i-th elements were.
LeftFrom(x, y, u, v, e, m) ==
  /\ Len(y) = Len(x)
  /\ \A i \in 1..Len(x) : /\ m[i] \in 1..Len(u) /\ u[m[i]] # e
                          /\ x[i] = u[m[i]] /\ y[i] = v[m[i]]
  /\ \A i, j \in 1..Len(x) : m[i] = m[j] => i = j
  /\ \A j \in 1..Len(u) : u[j] # e => \E i \in 1..Len(x) : m[i] = j

\* Of distinct elements RemoveFirst keeps all others; a matching sequence loses the
\* same place.
LEMMA RemoveFirstAlike ==
  ASSUME NEW S, NEW T, NEW u \in Seq(S), NEW v \in Seq(T), NEW e, NEW d, Matching(u, v, e, d)
  PROVE  /\ RemoveFirst(u, e) \in Seq(S) /\ RemoveFirst(v, d) \in Seq(T)
         /\ \E m : LeftFrom(RemoveFirst(u, e), RemoveFirst(v, d), u, v, e, m)
<1> DEFINE n == Len(u)
           ru == RemoveFirst(u, e)
           rv == RemoveFirst(v, d)
<1>0. /\ n \in Nat /\ Len(v) = n
      /\ \A i \in 1..n : u[i] = e <=> v[i] = d
      /\ \A i, j \in 1..n : u[i] = u[j] => i = j
  BY LenProperties DEF Matching
<1>1. CASE \E i \in 1..n : u[i] = e
  <2>1. PICK k \in 1..n : /\ u[k] = e
                          /\ \A i \in 1..(k - 1) : u[i] # e
                          /\ ru \in Seq(S) /\ Len(ru) = n - 1
                          /\ \A i \in 1..(n - 1) : ru[i] = IF i < k THEN u[i] ELSE u[i + 1]
    BY <1>0, <1>1, RemoveFirstPresent
  <2>2. PICK l \in 1..n : /\ v[l] = d
                          /\ \A i \in 1..(l - 1) : v[i] # d
                          /\ rv \in Seq(T) /\ Len(rv) = n - 1
                          /\ \A i \in 1..(n - 1) : rv[i] = IF i < l THEN v[i] ELSE v[i + 1]
    BY <1>0, <1>1, RemoveFirstPresent
  <2>3. l = k
    BY <1>0, <2>1, <2>2
  <2> DEFINE m == [i \in 1..Len(ru) |-> IF i < k THEN i ELSE i + 1]
  <2> HIDE DEF n, ru, rv
  <2>4. /\ m \in [1..Len(ru) -> 1..n]
        /\ \A i \in 1..Len(ru) : /\ m[i] # k /\ ru[i] = u[m[i]] /\ rv[i] = v[m[i]]
        /\ \A i, j \in 1..Len(ru) : m[i] = m[j] => i = j
    BY <1>0, <2>1, <2>2, <2>3
  <2>5. ASSUME NEW j \in 1..n, j # k PROVE \E i \in 1..Len(ru) : m[i] = j
    <3>1. CASE j < k
      <4>1. j \in 1..Len(ru) /\ m[j] = j
        BY <1>0, <2>1, <3>1
      <4> QED BY <4>1
    <3>2. CASE ~ (j < k)
      <4>1. j - 1 \in 1..Len(ru) /\ m[j - 1] = j
        BY <1>0, <2>1, <2>5, <3>2
      <4> QED BY <4>1
    <3> QED BY <3>1, <3>2
  <2>6. \A i \in 1..n : u[i] = e => i = k
    BY <1>0, <2>1
  <2>7. \A i \in 1..Len(ru) : m[i] \in 1..n /\ u[m[i]] # e
    BY <2>4, <2>6
  <2>8. \A j \in 1..n : u[j] # e => \E i \in 1..Len(ru) : m[i] = j
    BY <2>1, <2>5
  <2>9. Len(rv) = Len(ru) /\ ru \in Seq(S) /\ rv \in Seq(T)
    BY <2>1, <2>2
  <2> HIDE DEF m
  <2>10. LeftFrom(ru, rv, u, v, e, m)
    BY <2>4, <2>7, <2>8, <2>9 DEF LeftFrom, n
  <2> QED BY <2>9, <2>10 DEF ru, rv
<1>2. CASE \A i \in 1..n : u[i] # e
  <2>1. ru = u /\ rv = v
    BY <1>0, <1>2, RemoveFirstAbsent
  <2> DEFINE m == [i \in 1..n |-> i]
  <2>2. \A i \in 1..n : m[i] = i
    OBVIOUS
  <2> HIDE DEF m
  <2>3. LeftFrom(u, v, u, v, e, m)
    BY <1>0, <1>2, <2>2 DEF LeftFrom
  <2> QED BY <2>1, <2>3
<1> QED BY <1>1, <1>2

-----------------------------------------------------------------------------
\* Induction over a finite set, with the set C of those of its subsets that have a property.
LEMMA SubsetInduction ==
  ASSUME NEW S, IsFiniteSet(S), NEW C,
         {} \in C, \A T \in SUBSET S : (T # {} /\ \A x \in T : T \ {x} \in C) => T \in C
  PROVE  S \in C
<1> DEFINE Bad == {n \in Nat : \E T \in SUBSET S : Cardinality(T) = n /\ T \notin C}
<1>1. \A T \in SUBSET S : IsFiniteSet(T) /\ Cardinality(T) \in Nat
  BY FS_Subset, FS_CardinalityType
<1>2. Bad = {}
  <2> SUFFICES ASSUME Bad # {} PROVE FALSE
    OBVIOUS
  <2>1. PICK n \in Bad : \A m \in Bad : n <= m
    BY LeastNatural
  <2>2. PICK T \in SUBSET S : Cardinality(T) = n /\ T \notin C
    BY <2>1
  <2>3. PICK x \in T : T \ {x} \notin C
    BY <2>2
  <2>4. Cardinality(T \ {x}) = n - 1 /\ T \ {x} \in SUBSET S
    BY <1>1, <2>2, FS_RemoveElement
  <2>5. n - 1 \in Bad
    BY <1>1, <2>3, <2>4
  <2> QED BY <2>1, <2>5
<1> QED BY <1>1, <1>2

-----------------------------------------------------------------------------
(****************************************************************************)
(* Sums of the values of a function over a finite set.                      *)
(****************************************************************************)

\* The element a fold takes first.
First(T) == CHOOSE x \in T : TRUE

\* g has the sums of f over the subsets of S.
PartialSums(f, S, g) ==
  g = [T \in SUBSET S |-> IF T = {} THEN 0 ELSE f[First(T)] + g[T \ {First(T)}]]

\* The same for the subsets of at most n elements.
SumsUpTo(f, S, n, g) ==
  \A T \in SUBSET S : Cardinality(T) <= n =>
    g[T] = IF T = {} THEN 0 ELSE f[First(T)] + g[T \ {First(T)}]

\* There are such sums: for the subsets of up to n elements, for every n.
LEMMA SumsExist ==
  ASSUME NEW f, NEW S, IsFiniteSet(S)
  PROVE  \E g : PartialSums(f, S, g)
<1> DEFINE Good(n) == \E g : SumsUpTo(f, S, n, g)
           next(g) == [T \in SUBSET S |-> IF T = {} THEN 0 ELSE f[First(T)] + g[T \ {First(T)}]]
           Bad == {n \in Nat : ~Good(n)}
<1>1. \A T \in SUBSET S : IsFiniteSet(T) /\ Cardinality(T) \in Nat
  BY FS_Subset, FS_CardinalityType
<1>2. \A T \in SUBSET S : T # {} => First(T) \in T /\ T \ {First(T)} \in SUBSET S
                                    /\ Cardinality(T \ {First(T)}) = Cardinality(T) - 1
  BY <1>1, FS_RemoveElement DEF First
<1>3. ASSUME NEW n \in Nat, NEW g, SumsUpTo(f, S, n, g) PROVE SumsUpTo(f, S, n + 1, next(g))
  <2> SUFFICES ASSUME NEW T \in SUBSET S, Cardinality(T) <= n + 1, T # {}
               PROVE next(g)[T] = f[First(T)] + next(g)[T \ {First(T)}]
    BY DEF SumsUpTo
  <2>1. Cardinality(T \ {First(T)}) <= n /\ T \ {First(T)} \in SUBSET S
    BY <1>1, <1>2
  <2>2. next(g)[T \ {First(T)}] = g[T \ {First(T)}]
    <3> DEFINE U == T \ {First(T)}
    <3>1. g[U] = IF U = {} THEN 0 ELSE f[First(U)] + g[U \ {First(U)}]
      BY <1>3, <2>1 DEF SumsUpTo
    <3>2. next(g)[U] = IF U = {} THEN 0 ELSE f[First(U)] + g[U \ {First(U)}]
      BY <2>1
    <3> QED BY <3>1, <3>2
  <2> QED BY <2>2
<1>4. Good(0)
  <2> DEFINE g == [T \in SUBSET S |-> 0]
  <2>1. \A T \in SUBSET S : Cardinality(T) <= 0 => T = {}
    BY <1>1, FS_EmptySet
  <2>2. SumsUpTo(f, S, 0, g)
    BY <2>1 DEF SumsUpTo
  <2> QED BY <2>2
<1>5. \A n \in Nat : Good(n) => Good(n + 1)
  BY <1>3, Zenon
<1> HIDE DEF Good
<1>6. Bad = {}
  <2> SUFFICES ASSUME Bad # {} PROVE FALSE
    OBVIOUS
  <2>1. PICK n \in Bad : \A m \in Bad : n <= m
    BY LeastNatural
  <2>2. n # 0 /\ n - 1 \in Nat /\ n - 1 \notin Bad /\ (n - 1) + 1 = n
    BY <1>4, <2>1
  <2> QED BY <1>5, <2>1, <2>2
<1>7. PICK g : SumsUpTo(f, S, Cardinality(S), g)
  BY <1>1, <1>6 DEF Good
<1>8. PICK h : h = next(g)
  OBVIOUS
<1>9. PartialSums(f, S, h)
  <2>1. \A T \in SUBSET S : Cardinality(T) <= Cardinality(S)
    BY FS_Subset
  <2>2. ASSUME NEW T \in SUBSET S PROVE h[T] = g[T]
    BY <1>7, <1>8, <2>1 DEF SumsUpTo
  <2>3. ASSUME NEW T \in SUBSET S PROVE
          (IF T = {} THEN 0 ELSE f[First(T)] + g[T \ {First(T)}]) = (IF T = {} THEN 0 ELSE f[First(T)] + h[T \ {First(T)}])
    BY <1>2, <2>2
  <2> QED BY <1>8, <2>3, Zenon DEF PartialSums
<1> QED BY <1>9

\* The sums over the subsets of a set R are also those of a larger set.
LEMMA SumsUnique ==
  ASSUME NEW f, NEW S, IsFiniteSet(S), NEW R \in SUBSET S, NEW g, PartialSums(f, S, g), NEW h, PartialSums(f, R, h)
  PROVE  g[R] = h[R]
<1> DEFINE C == {T \in SUBSET R : g[T] = h[T]}
<1>1. IsFiniteSet(R)
  BY FS_Subset
<1>2. {} \in C
  BY DEF PartialSums
<1>3. ASSUME NEW T \in SUBSET R, T # {}, \A x \in T : T \ {x} \in C PROVE T \in C
  <2>1. First(T) \in T
    BY <1>3 DEF First
  <2>2. g[T \ {First(T)}] = h[T \ {First(T)}]
    BY <1>3, <2>1
  <2>3. g[T] = f[First(T)] + g[T \ {First(T)}]
    BY <1>3 DEF PartialSums
  <2>4. h[T] = f[First(T)] + h[T \ {First(T)}]
    BY <1>3 DEF PartialSums
  <2> QED BY <2>2, <2>3, <2>4
<1> HIDE DEF C
<1>4. R \in C
  BY <1>1, <1>2, <1>3, SubsetInduction
<1> QED BY <1>4 DEF C

\* SumFunctionOnSet computes them.
LEMMA SumIsSums ==
  ASSUME NEW f, NEW S, IsFiniteSet(S)
  PROVE  \E g : PartialSums(f, S, g) /\ SumFunctionOnSet(f, S) = g[S]
<1> DEFINE iter[s \in SUBSET S] == IF s = {} THEN 0 ELSE f[First(s)] + iter[s \ {First(s)}]
<1>1. PartialSums(f, S, iter)
  <2>0. PICK g : PartialSums(f, S, g)
    BY SumsExist
  <2>1. g = [s \in SUBSET S |-> IF s = {} THEN 0 ELSE f[First(s)] + g[s \ {First(s)}]]
    BY <2>0 DEF PartialSums
  <2>2. iter = [s \in SUBSET S |-> IF s = {} THEN 0 ELSE f[First(s)] + iter[s \ {First(s)}]]
    BY <2>1, Zenon
  <2> HIDE DEF iter
  <2> QED BY <2>2 DEF PartialSums
<1>2. SumFunctionOnSet(f, S) = iter[S]
  BY Zenon DEF SumFunctionOnSet, FoldFunctionOnSet, MapThenFoldSet, First
<1> HIDE DEF iter
<1> QED BY <1>1, <1>2

\* The empty sum.
LEMMA SumEmpty == ASSUME NEW f PROVE SumFunctionOnSet(f, {}) = 0
<1>1. IsFiniteSet({})
  BY FS_EmptySet
<1>2. PICK g : PartialSums(f, {}, g) /\ SumFunctionOnSet(f, {}) = g[{}]
  BY <1>1, SumIsSums
<1> QED BY <1>2 DEF PartialSums

\* The summand that is taken first.
LEMMA SumFirst ==
  ASSUME NEW f, NEW S, IsFiniteSet(S), S # {}
  PROVE  /\ First(S) \in S
         /\ SumFunctionOnSet(f, S) = f[First(S)] + SumFunctionOnSet(f, S \ {First(S)})
<1> DEFINE R == S \ {First(S)}
<1>0. R \in SUBSET S /\ IsFiniteSet(R)
  BY FS_Subset
<1>1. PICK g : PartialSums(f, S, g) /\ SumFunctionOnSet(f, S) = g[S]
  BY SumIsSums
<1>2. PICK h : PartialSums(f, R, h) /\ SumFunctionOnSet(f, R) = h[R]
  BY <1>0, SumIsSums
<1>3. g[R] = h[R]
  BY <1>0, <1>1, <1>2, SumsUnique
<1>4. g[S] = f[First(S)] + g[R]
  BY <1>1 DEF PartialSums
<1> QED BY <1>1, <1>2, <1>3, <1>4 DEF First

\* A sum of integers is an integer, one of naturals a natural.
LEMMA SumType ==
  ASSUME NEW f, NEW S, IsFiniteSet(S), \A x \in S : f[x] \in Int
  PROVE  SumFunctionOnSet(f, S) \in Int
<1> DEFINE C == {T \in SUBSET S : SumFunctionOnSet(f, T) \in Int}
<1>1. {} \in C
  BY SumEmpty
<1>2. ASSUME NEW T \in SUBSET S, T # {}, \A x \in T : T \ {x} \in C PROVE T \in C
  <2>1. IsFiniteSet(T)
    BY FS_Subset
  <2>2. First(T) \in T /\ SumFunctionOnSet(f, T) = f[First(T)] + SumFunctionOnSet(f, T \ {First(T)})
    BY <1>2, <2>1, SumFirst
  <2> QED BY <1>2, <2>2
<1> HIDE DEF C
<1>3. S \in C
  BY <1>1, <1>2, SubsetInduction
<1> QED BY <1>3 DEF C

\* See SumType.
LEMMA SumNat ==
  ASSUME NEW f, NEW S, IsFiniteSet(S), \A x \in S : f[x] \in Nat
  PROVE  SumFunctionOnSet(f, S) \in Nat
<1> DEFINE C == {T \in SUBSET S : SumFunctionOnSet(f, T) \in Nat}
<1>1. {} \in C
  BY SumEmpty
<1>2. ASSUME NEW T \in SUBSET S, T # {}, \A x \in T : T \ {x} \in C PROVE T \in C
  <2>1. IsFiniteSet(T)
    BY FS_Subset
  <2>2. First(T) \in T /\ SumFunctionOnSet(f, T) = f[First(T)] + SumFunctionOnSet(f, T \ {First(T)})
    BY <1>2, <2>1, SumFirst
  <2> QED BY <1>2, <2>2
<1> HIDE DEF C
<1>3. S \in C
  BY <1>1, <1>2, SubsetInduction
<1> QED BY <1>3 DEF C

\* Any summand can be taken out.
LEMMA SumElement ==
  ASSUME NEW f, NEW S, IsFiniteSet(S), \A x \in S : f[x] \in Int, NEW e \in S
  PROVE  SumFunctionOnSet(f, S) = f[e] + SumFunctionOnSet(f, S \ {e})
<1> DEFINE Split(T, x) == SumFunctionOnSet(f, T) = f[x] + SumFunctionOnSet(f, T \ {x})
           C == {T \in SUBSET S : \A x \in T : Split(T, x)}
<1>1. {} \in C
  OBVIOUS
<1>2. ASSUME NEW T \in SUBSET S, T # {}, \A x \in T : T \ {x} \in C PROVE T \in C
  <2>1. IsFiniteSet(T) /\ \A R \in SUBSET S : SumFunctionOnSet(f, R) \in Int
    BY FS_Subset, SumType
  <2> SUFFICES ASSUME NEW x \in T PROVE Split(T, x)
    OBVIOUS
  <2>2. PICK y \in T : y = First(T)
    BY <1>2, <2>1, SumFirst
  <2>3. Split(T, y)
    BY <1>2, <2>1, <2>2, SumFirst
  <2>4. CASE x = y
    BY <2>3, <2>4
  <2>5. CASE x # y
    <3>1. PICK R : R = (T \ {x}) \ {y}
      OBVIOUS
    <3>2. R = (T \ {y}) \ {x} /\ R \in SUBSET S /\ T \ {x} \in SUBSET S /\ T \ {y} \in SUBSET S
      BY <3>1
    <3>3. SumFunctionOnSet(f, T \ {y}) = f[x] + SumFunctionOnSet(f, R)
      BY <1>2, <2>5, <3>2
    <3>4. SumFunctionOnSet(f, T \ {x}) = f[y] + SumFunctionOnSet(f, R)
      BY <1>2, <2>5, <3>1
    <3>5. f[x] \in Int /\ f[y] \in Int /\ SumFunctionOnSet(f, R) \in Int
      BY <2>1, <3>2
    <3> QED BY <2>3, <3>3, <3>4, <3>5
  <2> QED BY <2>4, <2>5
<1> HIDE DEF C
<1>3. S \in C
  BY <1>1, <1>2, SubsetInduction
<1> QED BY <1>3 DEF C

\* A further summand.
LEMMA SumInsert ==
  ASSUME NEW f, NEW S, IsFiniteSet(S), NEW e, e \notin S, \A x \in S \cup {e} : f[x] \in Int
  PROVE  SumFunctionOnSet(f, S \cup {e}) = SumFunctionOnSet(f, S) + f[e]
<1>1. IsFiniteSet(S \cup {e}) /\ (S \cup {e}) \ {e} = S /\ e \in S \cup {e}
  BY FS_AddElement
<1>2. SumFunctionOnSet(f, S) \in Int /\ f[e] \in Int
  BY SumType
<1>3. PICK R : R = S \cup {e}
  OBVIOUS
<1>4. SumFunctionOnSet(f, R) = f[e] + SumFunctionOnSet(f, R \ {e})
  BY <1>1, <1>3, SumElement
<1>5. SumFunctionOnSet(f, R \ {e}) = SumFunctionOnSet(f, S)
  BY <1>1, <1>3
<1>6. SumFunctionOnSet(f, R) = SumFunctionOnSet(f, S) + f[e]
  BY <1>2, <1>4, <1>5
<1> QED BY <1>3, <1>6

\* The sum of the sums of two functions.
LEMMA SumPlus ==
  ASSUME NEW f, NEW g, NEW h, NEW S, IsFiniteSet(S),
         \A x \in S : f[x] \in Int /\ g[x] \in Int /\ h[x] = f[x] + g[x]
  PROVE  SumFunctionOnSet(h, S) = SumFunctionOnSet(f, S) + SumFunctionOnSet(g, S)
<1> DEFINE C == {T \in SUBSET S : SumFunctionOnSet(h, T) = SumFunctionOnSet(f, T) + SumFunctionOnSet(g, T)}
<1>1. {} \in C
  BY SumEmpty
<1>2. ASSUME NEW T \in SUBSET S, T # {}, \A x \in T : T \ {x} \in C PROVE T \in C
  <2>1. IsFiniteSet(T) /\ \A R \in SUBSET S : SumFunctionOnSet(f, R) \in Int /\ SumFunctionOnSet(g, R) \in Int
    BY FS_Subset, SumType
  <2>2. PICK y \in T : y = First(T)
    BY <1>2, <2>1, SumFirst
  <2>3. /\ SumFunctionOnSet(f, T) = f[y] + SumFunctionOnSet(f, T \ {y})
        /\ SumFunctionOnSet(g, T) = g[y] + SumFunctionOnSet(g, T \ {y})
        /\ SumFunctionOnSet(h, T) = h[y] + SumFunctionOnSet(h, T \ {y})
    BY <1>2, <2>1, <2>2, SumFirst
  <2>4. SumFunctionOnSet(h, T \ {y}) = SumFunctionOnSet(f, T \ {y}) + SumFunctionOnSet(g, T \ {y})
    BY <1>2
  <2>5. SumFunctionOnSet(f, T \ {y}) \in Int /\ SumFunctionOnSet(g, T \ {y}) \in Int
        /\ f[y] \in Int /\ g[y] \in Int /\ h[y] = f[y] + g[y]
    BY <2>1
  <2> QED BY <2>3, <2>4, <2>5
<1> HIDE DEF C
<1>3. S \in C
  BY <1>1, <1>2, SubsetInduction
<1> QED BY <1>3 DEF C

\* Only the values on the set count.
LEMMA SumSame ==
  ASSUME NEW f, NEW g, NEW S, IsFiniteSet(S), \A x \in S : f[x] = g[x]
  PROVE  SumFunctionOnSet(f, S) = SumFunctionOnSet(g, S)
<1> DEFINE C == {T \in SUBSET S : SumFunctionOnSet(f, T) = SumFunctionOnSet(g, T)}
<1>1. {} \in C
  BY SumEmpty
<1>2. ASSUME NEW T \in SUBSET S, T # {}, \A x \in T : T \ {x} \in C PROVE T \in C
  <2>1. IsFiniteSet(T)
    BY FS_Subset
  <2>2. PICK y \in T : y = First(T)
    BY <1>2, <2>1, SumFirst
  <2>3. /\ SumFunctionOnSet(f, T) = f[y] + SumFunctionOnSet(f, T \ {y})
        /\ SumFunctionOnSet(g, T) = g[y] + SumFunctionOnSet(g, T \ {y})
    BY <1>2, <2>1, <2>2, SumFirst
  <2> QED BY <1>2, <2>3
<1> HIDE DEF C
<1>3. S \in C
  BY <1>1, <1>2, SubsetInduction
<1> QED BY <1>3 DEF C

\* A sum of zeros.
LEMMA SumZero ==
  ASSUME NEW f, NEW S, IsFiniteSet(S), \A x \in S : f[x] = 0
  PROVE  SumFunctionOnSet(f, S) = 0
<1> DEFINE C == {T \in SUBSET S : SumFunctionOnSet(f, T) = 0}
<1>1. {} \in C
  BY SumEmpty
<1>2. ASSUME NEW T \in SUBSET S, T # {}, \A x \in T : T \ {x} \in C PROVE T \in C
  <2>1. IsFiniteSet(T)
    BY FS_Subset
  <2>2. First(T) \in T /\ SumFunctionOnSet(f, T) = f[First(T)] + SumFunctionOnSet(f, T \ {First(T)})
    BY <1>2, <2>1, SumFirst
  <2> QED BY <1>2, <2>2
<1> HIDE DEF C
<1>3. S \in C
  BY <1>1, <1>2, SubsetInduction
<1> QED BY <1>3 DEF C

\* The sum over two disjoint sets.
LEMMA SumUnion ==
  ASSUME NEW f, NEW R, IsFiniteSet(R), NEW S, IsFiniteSet(S), R \cap S = {},
         \A x \in R \cup S : f[x] \in Int
  PROVE  SumFunctionOnSet(f, R \cup S) = SumFunctionOnSet(f, R) + SumFunctionOnSet(f, S)
<1> DEFINE C == {T \in SUBSET S : SumFunctionOnSet(f, R \cup T) = SumFunctionOnSet(f, R) + SumFunctionOnSet(f, T)}
<1>0. IsFiniteSet(R \cup S) /\ \A U \in SUBSET (R \cup S) : IsFiniteSet(U) /\ SumFunctionOnSet(f, U) \in Int
  <2>1. IsFiniteSet(R \cup S)
    BY FS_Union
  <2>2. \A U \in SUBSET (R \cup S) : IsFiniteSet(U)
    BY <2>1, FS_Subset
  <2> QED BY <2>1, <2>2, SumType
<1>1. {} \in C
  <2>1. SumFunctionOnSet(f, R) \in Int
    BY <1>0
  <2>2. R \cup {} = R
    OBVIOUS
  <2> QED BY <2>1, <2>2, SumEmpty
<1>2. ASSUME NEW T \in SUBSET S, T # {}, \A x \in T : T \ {x} \in C PROVE T \in C
  <2>1. PICK y \in T : TRUE
    BY <1>2
  <2>2. PICK U : U = R \cup T
    OBVIOUS
  <2>3. IsFiniteSet(U) /\ IsFiniteSet(T) /\ y \in U /\ U \ {y} = R \cup (T \ {y}) /\ (\A x \in U : f[x] \in Int)
    BY <1>0, <2>2
  <2>4. SumFunctionOnSet(f, U) = f[y] + SumFunctionOnSet(f, U \ {y})
    BY <2>3, SumElement
  <2>5. SumFunctionOnSet(f, T) = f[y] + SumFunctionOnSet(f, T \ {y})
    BY <2>3, SumElement
  <2>6. SumFunctionOnSet(f, R \cup (T \ {y})) = SumFunctionOnSet(f, R) + SumFunctionOnSet(f, T \ {y})
    BY <1>2
  <2>7. SumFunctionOnSet(f, R) \in Int /\ SumFunctionOnSet(f, T \ {y}) \in Int /\ f[y] \in Int
    BY <1>0
  <2>8. SumFunctionOnSet(f, U \ {y}) = SumFunctionOnSet(f, R \cup (T \ {y}))
    BY <2>3
  <2>9. SumFunctionOnSet(f, U) = SumFunctionOnSet(f, R) + SumFunctionOnSet(f, T)
    BY <2>4, <2>5, <2>6, <2>7, <2>8
  <2> QED BY <2>2, <2>9
<1> HIDE DEF C
<1>3. S \in C
  BY <1>1, <1>2, SubsetInduction
<1> QED BY <1>3 DEF C

\* What is zero outside a subset.
LEMMA SumOnSubset ==
  ASSUME NEW f, NEW S, IsFiniteSet(S), NEW R \in SUBSET S, \A x \in R : f[x] \in Int,
         \A x \in S \ R : f[x] = 0
  PROVE  SumFunctionOnSet(f, S) = SumFunctionOnSet(f, R)
<1>1. IsFiniteSet(R) /\ IsFiniteSet(S \ R)
  BY FS_Subset
<1>2. PICK Q : Q = S \ R
  OBVIOUS
<1>3. R \cup Q = S /\ R \cap Q = {} /\ IsFiniteSet(Q) /\ \A x \in R \cup Q : f[x] \in Int
  BY <1>1, <1>2
<1>4. SumFunctionOnSet(f, R \cup Q) = SumFunctionOnSet(f, R) + SumFunctionOnSet(f, Q)
  BY <1>1, <1>3, SumUnion
<1>5. SumFunctionOnSet(f, Q) = 0
  BY <1>2, <1>3, SumZero
<1>6. SumFunctionOnSet(f, R) \in Int
  BY <1>1, SumType
<1> QED BY <1>3, <1>4, <1>5, <1>6

\* Another numbering of the summands.
LEMMA SumReindex ==
  ASSUME NEW f, NEW S, IsFiniteSet(S), NEW g, NEW R, IsFiniteSet(R), NEW b \in [S -> R],
         \A x \in S, y \in S : b[x] = b[y] => x = y, \A z \in R : \E x \in S : b[x] = z,
         \A x \in S : f[x] = g[b[x]] /\ f[x] \in Int
  PROVE  SumFunctionOnSet(f, S) = SumFunctionOnSet(g, R)
<1> DEFINE Im(T) == {b[x] : x \in T}
           C == {T \in SUBSET S : SumFunctionOnSet(f, T) = SumFunctionOnSet(g, Im(T))}
<1>1. {} \in C
  <2>1. Im({}) = {}
    OBVIOUS
  <2> QED BY <2>1, SumEmpty
<1>2. ASSUME NEW T \in SUBSET S, T # {}, \A x \in T : T \ {x} \in C PROVE T \in C
  <2>1. PICK y \in T : TRUE
    BY <1>2
  <2>2. PICK U : U = Im(T)
    OBVIOUS
  <2>3. U \in SUBSET R /\ b[y] \in U /\ U \ {b[y]} = Im(T \ {y})
    BY <2>2
  <2>4. IsFiniteSet(T) /\ IsFiniteSet(U) /\ \A z \in U : g[z] \in Int
    BY <2>2, <2>3, FS_Subset
  <2>5. SumFunctionOnSet(f, T) = f[y] + SumFunctionOnSet(f, T \ {y})
    BY <2>4, SumElement
  <2>6. SumFunctionOnSet(g, U) = g[b[y]] + SumFunctionOnSet(g, U \ {b[y]})
    BY <2>3, <2>4, SumElement
  <2>7. SumFunctionOnSet(f, T \ {y}) = SumFunctionOnSet(g, Im(T \ {y}))
    BY <1>2
  <2> QED BY <2>2, <2>3, <2>5, <2>6, <2>7
<1>3. Im(S) = R
  OBVIOUS
<1>4. S \in C
  <2> HIDE DEF C
  <2> QED BY <1>1, <1>2, SubsetInduction
<1> QED BY <1>3, <1>4

\* One summand, or two, have changed.
LEMMA SumOneChanged ==
  ASSUME NEW f, NEW g, NEW S, IsFiniteSet(S), NEW e \in S,
         \A x \in S : f[x] \in Int /\ g[x] \in Int, \A x \in S \ {e} : g[x] = f[x]
  PROVE  SumFunctionOnSet(g, S) = SumFunctionOnSet(f, S) - f[e] + g[e]
<1>1. IsFiniteSet(S \ {e})
  BY FS_Subset
<1>2. SumFunctionOnSet(f, S \ {e}) = SumFunctionOnSet(g, S \ {e}) /\ SumFunctionOnSet(f, S \ {e}) \in Int
  BY <1>1, SumSame, SumType
<1>3. SumFunctionOnSet(f, S) = f[e] + SumFunctionOnSet(f, S \ {e})
  BY SumElement
<1>4. SumFunctionOnSet(g, S) = g[e] + SumFunctionOnSet(g, S \ {e})
  BY SumElement
<1>5. f[e] \in Int /\ g[e] \in Int
  OBVIOUS
<1> QED BY <1>2, <1>3, <1>4, <1>5

\* See SumOneChanged.
LEMMA SumTwoChanged ==
  ASSUME NEW f, NEW g, NEW S, IsFiniteSet(S), NEW d \in S, NEW e \in S, d # e,
         \A x \in S : f[x] \in Int /\ g[x] \in Int, \A x \in S \ {d, e} : g[x] = f[x]
  PROVE  SumFunctionOnSet(g, S) = SumFunctionOnSet(f, S) - f[d] - f[e] + g[d] + g[e]
<1>1. PICK R : R = S \ {d}
  OBVIOUS
<1>2. IsFiniteSet(R) /\ e \in R /\ (\A x \in R : f[x] \in Int /\ g[x] \in Int)
      /\ \A x \in R \ {e} : g[x] = f[x]
  BY <1>1, FS_Subset
<1>3. SumFunctionOnSet(g, R) = SumFunctionOnSet(f, R) - f[e] + g[e]
  BY <1>2, SumOneChanged
<1>4. SumFunctionOnSet(f, R) \in Int
  BY <1>2, SumType
<1>5. SumFunctionOnSet(f, S) = f[d] + SumFunctionOnSet(f, R)
  BY <1>1, SumElement
<1>6. SumFunctionOnSet(g, S) = g[d] + SumFunctionOnSet(g, R)
  BY <1>1, SumElement
<1>7. f[d] \in Int /\ g[d] \in Int /\ f[e] \in Int /\ g[e] \in Int
  OBVIOUS
<1> QED BY <1>3, <1>4, <1>5, <1>6, <1>7

\* Numbers for as many things as there is room for.
LEMMA NumbersExist ==
  ASSUME NEW K, IsFiniteSet(K), NEW U, IsFiniteSet(U), Cardinality(K) <= Cardinality(U)
  PROVE  \E f : f \in Injection(K, U)
<1>1. PICK m, n : m = Cardinality(K) /\ n = Cardinality(U)
  OBVIOUS
<1>2. m \in Nat /\ n \in Nat /\ m <= n
  BY <1>1, FS_CardinalityType
<1>3. PICK g : g \in Bijection(1..m, K)
  BY <1>1, FS_CardinalityType DEF ExistsBijection
<1>4. PICK h : h \in Bijection(1..n, U)
  BY <1>1, FS_CardinalityType DEF ExistsBijection
<1>5. /\ g \in [1..m -> K] /\ \A k \in K : \E j \in 1..m : g[j] = k
      /\ h \in [1..n -> U] /\ \A a, b \in 1..n : h[a] = h[b] => a = b
  BY <1>3, <1>4 DEF Bijection, Injection, Surjection, IsInjective
<1> DEFINE place == [k \in K |-> CHOOSE j \in 1..m : g[j] = k]
<1>6. \A k \in K : place[k] \in 1..m /\ g[place[k]] = k
  BY <1>5
<1>7. PICK f : f = [k \in K |-> h[place[k]]]
  OBVIOUS
<1>8. \A k \in K : place[k] \in 1..n /\ f[k] = h[place[k]]
  BY <1>2, <1>6, <1>7
<1> HIDE DEF place
<1>9. f \in [K -> U]
  BY <1>5, <1>7, <1>8
<1>10. \A a, b \in K : f[a] = f[b] => a = b
  BY <1>5, <1>6, <1>8
<1> QED BY <1>9, <1>10 DEF Injection, IsInjective

\* The domains and the concatenations of short sequences.
LEMMA ShortDomains ==
  /\ IsFiniteSet(DOMAIN << >>)
  /\ \A d : IsFiniteSet(DOMAIN <<d>>)
  /\ \A d, e : IsFiniteSet(DOMAIN <<d, e>>)
  /\ \A d, e, f : IsFiniteSet(DOMAIN <<d, e, f>>)
<1>1. IsFiniteSet({}) /\ IsFiniteSet({1})
  BY FS_EmptySet, FS_Singleton
<1>2. IsFiniteSet({1} \cup {2})
  BY <1>1, FS_AddElement
<1>3. IsFiniteSet(({1} \cup {2}) \cup {3})
  BY <1>2, FS_AddElement
<1>4. \A d, e, f : /\ DOMAIN << >> = {} /\ DOMAIN <<d>> = {1} /\ DOMAIN <<d, e>> = {1} \cup {2}
                   /\ DOMAIN <<d, e, f>> = ({1} \cup {2}) \cup {3}
  OBVIOUS
<1> QED BY <1>1, <1>2, <1>3, <1>4

LEMMA ShortSequences ==
  ASSUME NEW d, NEW e, NEW f
  PROVE  /\ << >> \o <<d>> = <<d>>
         /\ << >> \o <<d, e>> = <<d, e>>
         /\ <<d>> \o <<e>> = <<d, e>>
         /\ <<d>> \o <<e, f>> = <<d, e, f>>
<1>0. <<d>> \in Seq({d, e}) /\ <<d, e>> \in Seq({d, e})
  OBVIOUS
<1>1. << >> \o <<d>> = <<d>>
  BY <1>0, ConcatEmptySeq
<1>2. << >> \o <<d, e>> = <<d, e>>
  BY <1>0, ConcatEmptySeq
<1>3. <<d>> \o <<e>> = <<d, e>>
  <2>1. PICK s, t, u, v : s = <<d>> /\ t = <<e>> /\ u = <<d, e>> /\ v = s \o t
    OBVIOUS
  <2>2. s \in Seq({d, e}) /\ t \in Seq({d, e}) /\ Len(s) = 1 /\ Len(t) = 1 /\ s[1] = d /\ t[1] = e
    BY <2>1
  <2>3. v \in Seq({d, e}) /\ Len(v) = 2 /\ v[1] = s[1] /\ v[2] = t[1]
    BY <2>1, <2>2, ConcatProperties
  <2>4. u \in Seq({d, e}) /\ Len(u) = 2 /\ u[1] = d /\ u[2] = e
    BY <2>1
  <2>5. \A i \in 1..2 : v[i] = u[i]
    BY <2>2, <2>3, <2>4
  <2>6. v = u
    BY <2>3, <2>4, <2>5, SeqEqual
  <2> QED BY <2>1, <2>6
<1>4. <<d>> \o <<e, f>> = <<d, e, f>>
  <2>1. PICK s, t, u, v : s = <<d>> /\ t = <<e, f>> /\ u = <<d, e, f>> /\ v = s \o t
    OBVIOUS
  <2>2. /\ s \in Seq({d, e, f}) /\ t \in Seq({d, e, f}) /\ Len(s) = 1 /\ Len(t) = 2
        /\ s[1] = d /\ t[1] = e /\ t[2] = f
    BY <2>1
  <2>3. v \in Seq({d, e, f}) /\ Len(v) = 3 /\ v[1] = s[1] /\ v[2] = t[1] /\ v[3] = t[2]
    BY <2>1, <2>2, ConcatProperties
  <2>4. u \in Seq({d, e, f}) /\ Len(u) = 3 /\ u[1] = d /\ u[2] = e /\ u[3] = f
    BY <2>1
  <2>5. \A i \in 1..3 : v[i] = u[i]
    BY <2>2, <2>3, <2>4
  <2>6. v = u
    BY <2>3, <2>4, <2>5, SeqEqual
  <2> QED BY <2>1, <2>6
<1> QED BY <1>1, <1>2, <1>3, <1>4

\* The sum over one element.
LEMMA SumOfOne ==
  ASSUME NEW f, NEW d, f[d] \in Int
  PROVE  SumFunctionOnSet(f, {d}) = f[d]
<1>1. IsFiniteSet({}) /\ {} \cup {d} = {d} /\ SumFunctionOnSet(f, {}) = 0
  BY FS_EmptySet, SumEmpty
<1>2. SumFunctionOnSet(f, {} \cup {d}) = SumFunctionOnSet(f, {}) + f[d]
  BY <1>1, SumInsert
<1> QED BY <1>1, <1>2

\* Some values of a function are set to zero.
LEMMA SumCleared ==
  ASSUME NEW f, NEW g, NEW S, IsFiniteSet(S), NEW D \in SUBSET S, \A x \in S : f[x] \in Int,
         \A x \in D : g[x] = 0, \A x \in S \ D : g[x] = f[x]
  PROVE  /\ SumFunctionOnSet(g, S) = SumFunctionOnSet(f, S) - SumFunctionOnSet(f, D)
         /\ SumFunctionOnSet(f, S) \in Int /\ SumFunctionOnSet(f, D) \in Int
<1>1. PICK R : R = S \ D
  OBVIOUS
<1>2. R \in SUBSET S /\ IsFiniteSet(R) /\ IsFiniteSet(D) /\ R \cap D = {} /\ R \cup D = S
  BY <1>1, FS_Subset
<1>3. (\A x \in R : g[x] = f[x] /\ g[x] \in Int) /\ \A x \in S \ R : g[x] = 0
  BY <1>1
<1>4. SumFunctionOnSet(g, S) = SumFunctionOnSet(g, R)
  BY <1>2, <1>3, SumOnSubset
<1>5. SumFunctionOnSet(g, R) = SumFunctionOnSet(f, R)
  BY <1>2, <1>3, SumSame
<1>6. SumFunctionOnSet(f, R \cup D) = SumFunctionOnSet(f, R) + SumFunctionOnSet(f, D)
  BY <1>2, SumUnion
<1>7. SumFunctionOnSet(f, R) \in Int /\ SumFunctionOnSet(f, D) \in Int
  BY <1>2, SumType
<1>8. SumFunctionOnSet(f, R \cup D) = SumFunctionOnSet(f, S)
  BY <1>2
<1> QED BY <1>4, <1>5, <1>6, <1>7, <1>8

\* No value falls.
LEMMA SumNotLess ==
  ASSUME NEW f, NEW g, NEW S, IsFiniteSet(S), \A x \in S : f[x] \in Int /\ g[x] \in Int /\ f[x] <= g[x]
  PROVE  SumFunctionOnSet(f, S) <= SumFunctionOnSet(g, S)
<1>1. PICK d : d = [x \in S |-> g[x] - f[x]]
  OBVIOUS
<1>2. \A x \in S : d[x] \in Nat /\ d[x] \in Int /\ g[x] = f[x] + d[x]
  BY <1>1
<1>3. SumFunctionOnSet(g, S) = SumFunctionOnSet(f, S) + SumFunctionOnSet(d, S)
  BY <1>2, SumPlus
<1>4. SumFunctionOnSet(d, S) \in Nat
  BY <1>2, SumNat
<1>5. SumFunctionOnSet(f, S) \in Int
  BY SumType
<1> QED BY <1>3, <1>4, <1>5

\* No value falls, and one rises by at least v.
LEMMA SumRises ==
  ASSUME NEW f, NEW g, NEW S, IsFiniteSet(S), \A x \in S : f[x] \in Int /\ g[x] \in Int /\ f[x] <= g[x],
         NEW e \in S, NEW v \in Int, f[e] + v <= g[e]
  PROVE  SumFunctionOnSet(f, S) + v <= SumFunctionOnSet(g, S)
<1>1. PICK R : R = S \ {e}
  OBVIOUS
<1>2. IsFiniteSet(R) /\ \A x \in R : f[x] \in Int /\ g[x] \in Int /\ f[x] <= g[x]
  BY <1>1, FS_Subset
<1>3. SumFunctionOnSet(f, S) = f[e] + SumFunctionOnSet(f, R)
  BY <1>1, SumElement
<1>4. SumFunctionOnSet(g, S) = g[e] + SumFunctionOnSet(g, R)
  BY <1>1, SumElement
<1>5. SumFunctionOnSet(f, R) <= SumFunctionOnSet(g, R)
  BY <1>2, SumNotLess
<1>6. SumFunctionOnSet(f, R) \in Int /\ SumFunctionOnSet(g, R) \in Int
  BY <1>2, SumType
<1>7. f[e] \in Int /\ g[e] \in Int
  OBVIOUS
<1> QED BY <1>3, <1>4, <1>5, <1>6, <1>7

\* More terms that are not negative.
LEMMA SumOfMore ==
  ASSUME NEW f, NEW S, IsFiniteSet(S), NEW R \in SUBSET S, \A x \in S : f[x] \in Nat
  PROVE  SumFunctionOnSet(f, R) <= SumFunctionOnSet(f, S)
<1>1. PICK T : T = S \ R
  OBVIOUS
<1>2. IsFiniteSet(T) /\ IsFiniteSet(R) /\ R \cap T = {} /\ R \cup T = S
  BY <1>1, FS_Subset
<1>3. SumFunctionOnSet(f, R \cup T) = SumFunctionOnSet(f, R) + SumFunctionOnSet(f, T)
  BY <1>2, SumUnion
<1>4. SumFunctionOnSet(f, T) \in Nat /\ SumFunctionOnSet(f, R) \in Nat
  BY <1>2, SumNat
<1>5. SumFunctionOnSet(f, R \cup T) = SumFunctionOnSet(f, S)
  BY <1>2
<1> QED BY <1>3, <1>4, <1>5

\* A sum of two words that is not less than one of them has not wrapped.
LEMMA WrapFree ==
  ASSUME NEW c \in Nat, NEW s \in Nat, NEW w \in Nat, c < w, s < w, (c + s) % w >= s
  PROVE  (c + s) % w = c + s
<1>1. PICK x, q, r : x = c + s /\ q = x \div w /\ r = x % w
  OBVIOUS
<1>2. q \in Int /\ r \in Int /\ 0 <= r /\ r < w /\ x = w * q + r
  BY <1>1
<1>3. CASE q <= 0
  <2>1. w * q <= 0
    BY <1>2, <1>3
  <2>2. q # 0 => w * q <= -w
    BY <1>2, <1>3
  <2> QED BY <1>1, <1>2, <1>3, <2>1, <2>2
<1>4. CASE q = 1
  BY <1>1, <1>2, <1>4
<1>5. CASE q >= 2
  <2>1. w * q >= w * 2
    BY <1>2, <1>5
  <2> QED BY <1>1, <1>2, <2>1
<1> QED BY <1>2, <1>3, <1>4, <1>5
===============================================================================
