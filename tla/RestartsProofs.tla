---------------------------- MODULE RestartsProofs ----------------------------
(***************************************************************************)
(* Theorems about what outlives the process, stated of the run that has    *)
(* all of it side by side (MCRestarts): its constants are any.             *)
(***************************************************************************)
EXTENDS MCRestarts, SequencesExt, FiniteSetTheorems, SequenceTheorems, WellFoundedInduction, TLAPS

-----------------------------------------------------------------------------
(* Facts about the data: numbers, sequences without repetitions, and sums   *)
(* over finite sets.  The sums are recursive: what is said of them for sets *)
(* of every size follows by a least counterexample.                         *)

(* A non-empty set of natural numbers has a least element.                  *)
LEMMA LeastNat ==
  ASSUME NEW T \in SUBSET Nat, T # {}
  PROVE  \E n \in T : \A m \in T : n <= m
<1> DEFINE R == {ss \in Nat \X Nat : ss[1] < ss[2]}
<1>1. IsWellFoundedOn(R, Nat)
  BY NatLessThanWellFounded DEF OpToRel
<1>2. PICK x \in T : \A y \in T : ~ (<<y, x>> \in R)
  <2> HIDE DEF R
  <2> QED BY <1>1, WFMin
<1>3. ASSUME NEW y \in T PROVE x <= y
  <2>1. ~ (<<y, x>> \in R) /\ x \in Nat /\ y \in Nat
    BY <1>2
  <2>2. ~(y < x)
    BY <2>1
  <2> QED BY <2>1, <2>2
<1> QED BY <1>3

-----------------------------------------------------------------------------
(* Sequences, as lists without repetitions.                                 *)

LEMMA SetOf ==
  ASSUME NEW S, NEW q \in Seq(S)
  PROVE  /\ Len(q) \in Nat /\ DOMAIN q = 1 .. Len(q)
         /\ \A x : x \in ToSet(q) <=> \E i \in 1 .. Len(q) : q[i] = x
         /\ \A i \in 1 .. Len(q) : q[i] \in ToSet(q) /\ q[i] \in S
         /\ ToSet(q) \subseteq S
BY DEF ToSet

LEMMA AppendFacts ==
  ASSUME NEW S, NEW q \in Seq(S), NEW d \in S
  PROVE  /\ Append(q, d) \in Seq(S) /\ Len(Append(q, d)) = Len(q) + 1
         /\ Append(q, d)[Len(q) + 1] = d
         /\ \A i \in 1 .. Len(q) : Append(q, d)[i] = q[i]
         /\ ToSet(Append(q, d)) = ToSet(q) \cup {d}
         /\ IsInjective(q) /\ d \notin ToSet(q) => IsInjective(Append(q, d))
<1> DEFINE r == Append(q, d)
<1>1. /\ r \in Seq(S) /\ Len(r) = Len(q) + 1 /\ Len(q) \in Nat
      /\ r[Len(q) + 1] = d /\ \A i \in 1 .. Len(q) : r[i] = q[i]
      /\ DOMAIN r = 1 .. Len(r) /\ DOMAIN q = 1 .. Len(q)
  OBVIOUS
<1> HIDE DEF r
<1>2. 1 .. Len(r) = (1 .. Len(q)) \cup {Len(q) + 1}
  BY <1>1
<1>3. ToSet(r) = ToSet(q) \cup {d}
  BY <1>1, <1>2 DEF ToSet
<1>4. ASSUME IsInjective(q), d \notin ToSet(q) PROVE IsInjective(r)
  <2> SUFFICES ASSUME NEW i \in 1 .. Len(r), NEW j \in 1 .. Len(r), r[i] = r[j] PROVE i = j
    BY <1>1 DEF IsInjective
  <2>1. \A k \in 1 .. Len(q) : r[k] \in ToSet(q)
    BY <1>1 DEF ToSet
  <2> QED BY <1>1, <1>2, <1>4, <2>1 DEF IsInjective
<1> QED BY <1>1, <1>3, <1>4 DEF r

(* RemoveFirst takes away one entry for d. *)
LEMMA RemovedAt ==
  ASSUME NEW S, NEW q \in Seq(S), NEW d \in ToSet(q)
  PROVE  \E n \in 1 .. Len(q) : q[n] = d /\ RemoveFirst(q, d) = RemoveAt(q, n)
<1> DEFINE at == { i \in 1 .. Len(q) : q[i] = d }
           n == Min(at)
<1>1. at # {} /\ at \in SUBSET Nat
  BY SetOf
<1>2. \E x \in at : \A y \in at : x <= y
  BY <1>1, LeastNat
<1>3. n \in at
  BY <1>2 DEF Min
<1>4. SelectInSeq(q, LAMBDA v : v = d) = n
  BY <1>1 DEF SelectInSeq
<1>5. RemoveFirst(q, d) = RemoveAt(q, n)
  BY <1>1, <1>4 DEF RemoveFirst
<1> QED BY <1>3, <1>5

LEMMA RemoveAtFacts ==
  ASSUME NEW S, NEW q \in Seq(S), NEW n \in 1 .. Len(q)
  PROVE  /\ RemoveAt(q, n) \in Seq(S) /\ Len(RemoveAt(q, n)) = Len(q) - 1
         /\ \A i \in 1 .. Len(q) - 1 : RemoveAt(q, n)[i] = IF i < n THEN q[i] ELSE q[i + 1]
<1> DEFINE a == SubSeq(q, 1, n - 1)
           b == SubSeq(q, n + 1, Len(q))
<1>1. /\ a \in Seq(S) /\ Len(a) = n - 1
      /\ \A i \in 1 .. n - 1 : a[i] = q[i]
  OBVIOUS
<1>2. /\ b \in Seq(S) /\ Len(b) = Len(q) - n
      /\ \A i \in 1 .. Len(q) - n : b[i] = q[i + n]
  OBVIOUS
<1>3. RemoveAt(q, n) = a \o b
  BY DEF RemoveAt
<1> HIDE DEF a, b
<1>4. a \o b \in Seq(S) /\ Len(a \o b) = Len(a) + Len(b)
  BY <1>1, <1>2, ConcatProperties
<1>5. \A i \in 1 .. Len(a) + Len(b) : (a \o b)[i] = IF i <= Len(a) THEN a[i] ELSE b[i - Len(a)]
  BY <1>1, <1>2, ConcatProperties
<1> QED BY <1>1, <1>2, <1>3, <1>4, <1>5

LEMMA RemoveFacts ==
  ASSUME NEW S, NEW q \in Seq(S), IsInjective(q), NEW d \in ToSet(q)
  PROVE  /\ RemoveFirst(q, d) \in Seq(S) /\ IsInjective(RemoveFirst(q, d))
         /\ ToSet(RemoveFirst(q, d)) = ToSet(q) \ {d}
<1> DEFINE r == RemoveFirst(q, d)
<1>1. PICK n \in 1 .. Len(q) : q[n] = d /\ r = RemoveAt(q, n)
  BY RemovedAt
<1>2. /\ r \in Seq(S) /\ Len(r) = Len(q) - 1 /\ Len(q) \in Nat
      /\ \A i \in 1 .. Len(q) - 1 : r[i] = IF i < n THEN q[i] ELSE q[i + 1]
  <2>1. Len(q) \in Nat
    BY SetOf
  <2> HIDE DEF r
  <2> QED BY <1>1, <2>1, RemoveAtFacts
<1> HIDE DEF r
<1>3. \A i, j \in 1 .. Len(q) : q[i] = q[j] => i = j
  BY DEF IsInjective
<1>4. IsInjective(r)
  <2> SUFFICES ASSUME NEW i \in 1 .. Len(r), NEW j \in 1 .. Len(r), r[i] = r[j] PROVE i = j
    BY <1>2 DEF IsInjective
  <2> QED BY <1>2, <1>3
<1>5. ASSUME NEW c \in ToSet(q), c # d PROVE c \in ToSet(r)
  <2>1. PICK i \in 1 .. Len(q) : q[i] = c
    BY SetOf
  <2>2. CASE i < n
    <3>1. i \in 1 .. Len(r) /\ r[i] = c
      BY <1>2, <2>1, <2>2
    <3> QED BY <1>2, <3>1, SetOf
  <2>3. CASE i > n
    <3>1. i - 1 \in 1 .. Len(r) /\ r[i - 1] = c
      BY <1>2, <2>1, <2>3
    <3> QED BY <1>2, <3>1, SetOf
  <2> QED BY <1>1, <1>5, <2>1, <2>2, <2>3
<1>6. ASSUME NEW c \in ToSet(r) PROVE c \in ToSet(q) /\ c # d
  <2>1. PICK i \in 1 .. Len(r) : r[i] = c
    BY <1>2, SetOf
  <2>2. CASE i < n
    <3>1. i \in 1 .. Len(q) /\ q[i] = c /\ i # n
      BY <1>2, <2>1, <2>2
    <3> QED BY <1>1, <1>3, <3>1, SetOf
  <2>3. CASE i >= n
    <3>1. i + 1 \in 1 .. Len(q) /\ q[i + 1] = c /\ i + 1 # n
      BY <1>2, <2>1, <2>3
    <3> QED BY <1>1, <1>3, <3>1, SetOf
  <2> QED BY <1>2, <2>1, <2>2, <2>3
<1> QED BY <1>2, <1>4, <1>5, <1>6 DEF r

-----------------------------------------------------------------------------
(* Sums.                                                                    *)

(* Terms of the sum over S, one element after another.                      *)
FirstOf(s) == CHOOSE x \in s : TRUE

IsSum(g, f, S) == g = [s \in SUBSET S |-> IF s = {} THEN 0 ELSE f[FirstOf(s)] + g[s \ {FirstOf(s)}]]

Smaller(S, n) == { s \in SUBSET S : Cardinality(s) <= n }

IsPartSum(g, f, S, n) ==
  g = [s \in Smaller(S, n) |-> IF s = {} THEN 0 ELSE f[FirstOf(s)] + g[s \ {FirstOf(s)}]]

LEMMA FirstFacts ==
  ASSUME NEW S, IsFiniteSet(S), NEW s \in SUBSET S, s # {}
  PROVE  /\ FirstOf(s) \in s /\ IsFiniteSet(s) /\ s \ {FirstOf(s)} \in SUBSET S
         /\ Cardinality(s) \in Nat /\ Cardinality(s) > 0
         /\ Cardinality(s \ {FirstOf(s)}) = Cardinality(s) - 1
<1>1. FirstOf(s) \in s
  BY DEF FirstOf
<1>2. IsFiniteSet(s)
  BY FS_Subset
<1>3. Cardinality(s \ {FirstOf(s)}) = Cardinality(s) - 1
  BY <1>1, <1>2, FS_RemoveElement
<1>4. IsFiniteSet(s \ {FirstOf(s)})
  BY <1>2, FS_RemoveElement
<1>5. Cardinality(s) \in Nat /\ Cardinality(s \ {FirstOf(s)}) \in Nat
  BY <1>2, <1>4, FS_CardinalityType
<1> QED BY <1>1, <1>2, <1>3, <1>5

LEMMA PartSums ==
  ASSUME NEW f, NEW S, IsFiniteSet(S), NEW n \in Nat
  PROVE  \E g : IsPartSum(g, f, S, n)
<1> DEFINE Bad == { k \in Nat : ~ \E g : IsPartSum(g, f, S, k) }
<1> SUFFICES Bad = {}
  OBVIOUS
<1> SUFFICES ASSUME Bad # {} PROVE FALSE
  OBVIOUS
<1>1. PICK k \in Bad : \A m \in Bad : k <= m
  <2>1. Bad \in SUBSET Nat
    OBVIOUS
  <2> HIDE DEF Bad
  <2> QED BY <2>1, LeastNat
<1>2. k \in Nat /\ ~ \E g : IsPartSum(g, f, S, k)
  OBVIOUS
<1>3. CASE k = 0
  <2> DEFINE g == [s \in Smaller(S, 0) |-> 0]
  <2>1. ASSUME NEW s \in Smaller(S, 0) PROVE s = {}
    <3>1. s \in SUBSET S /\ Cardinality(s) <= 0
      BY DEF Smaller
    <3>2. s # {} => Cardinality(s) \in Nat /\ Cardinality(s) > 0
      BY <3>1, FirstFacts
    <3> QED BY <3>1, <3>2
  <2>2. g = [s \in Smaller(S, 0) |-> IF s = {} THEN 0 ELSE f[FirstOf(s)] + g[s \ {FirstOf(s)}]]
    BY <2>1
  <2>3. IsPartSum(g, f, S, 0)
    BY <2>2 DEF IsPartSum
  <2> QED BY <2>3, <1>2, <1>3
<1>4. CASE k # 0
  <2>1. k - 1 \in Nat /\ k - 1 \notin Bad
    BY <1>1, <1>2, <1>4
  <2>2. PICK g : IsPartSum(g, f, S, k - 1)
    BY <2>1
  <2> DEFINE Val(s) == IF s = {} THEN 0 ELSE f[FirstOf(s)] + g[s \ {FirstOf(s)}]
             h == [s \in Smaller(S, k) |-> Val(s)]
  <2>3. ASSUME NEW s \in Smaller(S, k - 1) PROVE h[s] = g[s]
    <3>1. s \in Smaller(S, k)
      <4>1. s \in SUBSET S /\ Cardinality(s) <= k - 1
        BY DEF Smaller
      <4>2. Cardinality(s) \in Nat
        BY <4>1, FS_Subset, FS_CardinalityType
      <4> QED BY <4>1, <4>2, <1>2 DEF Smaller
    <3>2. g[s] = Val(s)
      BY <2>2 DEF IsPartSum
    <3>3. h[s] = Val(s)
      BY <3>1
    <3> QED BY <3>2, <3>3
  <2>4. ASSUME NEW s \in Smaller(S, k), s # {} PROVE s \ {FirstOf(s)} \in Smaller(S, k - 1)
    BY <2>4, FirstFacts, <1>2 DEF Smaller
  <2>5. ASSUME NEW s \in Smaller(S, k)
        PROVE  Val(s) = IF s = {} THEN 0 ELSE f[FirstOf(s)] + h[s \ {FirstOf(s)}]
    <3> HIDE DEF h
    <3> QED BY <2>3, <2>4
  <2>6. h = [s \in Smaller(S, k) |-> IF s = {} THEN 0 ELSE f[FirstOf(s)] + h[s \ {FirstOf(s)}]]
    <3>1. h = [s \in Smaller(S, k) |-> Val(s)]
      OBVIOUS
    <3> HIDE DEF h, Val
    <3> QED BY <3>1, <2>5
  <2> HIDE DEF h
  <2>7. IsPartSum(h, f, S, k)
    BY <2>6 DEF IsPartSum
  <2> QED BY <2>7, <1>2
<1> QED BY <1>3, <1>4

LEMMA SumExists ==
  ASSUME NEW f, NEW S, IsFiniteSet(S)
  PROVE  \E g : IsSum(g, f, S)
<1>1. Cardinality(S) \in Nat
  BY FS_CardinalityType
<1>2. Smaller(S, Cardinality(S)) = SUBSET S
  BY FS_Subset DEF Smaller
<1>3. PICK g : IsPartSum(g, f, S, Cardinality(S))
  BY <1>1, PartSums
<1>4. IsSum(g, f, S)
  BY <1>2, <1>3 DEF IsPartSum, IsSum
<1> QED BY <1>4

LEMMA SumIs ==
  ASSUME NEW f, NEW S, IsFiniteSet(S)
  PROVE  \E g : IsSum(g, f, S) /\ SumFunctionOnSet(f, S) = g[S]
<1>1. PICK g : IsSum(g, f, S)
  BY SumExists
<1>2. g = [s \in SUBSET S |-> IF s = {} THEN 0 ELSE f[CHOOSE x \in s : TRUE] + g[s \ {CHOOSE x \in s : TRUE}]]
  BY <1>1 DEF IsSum, FirstOf
<1>3. PICK h : /\ h = [s \in SUBSET S |-> IF s = {} THEN 0 ELSE f[CHOOSE x \in s : TRUE] + h[s \ {CHOOSE x \in s : TRUE}]]
               /\ SumFunctionOnSet(f, S) = h[S]
  BY <1>2 DEF SumFunctionOnSet, FoldFunctionOnSet, MapThenFoldSet
<1>4. IsSum(h, f, S)
  BY <1>3 DEF IsSum, FirstOf
<1> QED BY <1>3, <1>4

(* Two such functions agree where their terms do.                           *)
LEMMA SumsAgree ==
  ASSUME NEW S, IsFiniteSet(S), NEW T, IsFiniteSet(T), NEW f, NEW e, NEW g, NEW h,
         IsSum(g, f, S), IsSum(h, e, T),
         NEW U \in SUBSET (S \cap T), \A x \in U : f[x] = e[x]
  PROVE  g[U] = h[U]
<1> DEFINE Bad == { s \in SUBSET U : g[s] # h[s] }
           Sizes == { Cardinality(s) : s \in Bad }
<1> SUFFICES ASSUME g[U] # h[U] PROVE FALSE
  OBVIOUS
<1>1. \A s \in SUBSET U : IsFiniteSet(s) /\ Cardinality(s) \in Nat
  BY FS_Subset, FS_CardinalityType
<1>2. Sizes \in SUBSET Nat /\ Sizes # {}
  BY <1>1
<1>3. PICK n \in Sizes : \A m \in Sizes : n <= m
  <2> HIDE DEF Sizes
  <2> QED BY <1>2, LeastNat
<1>4. PICK s \in Bad : \A t \in Bad : Cardinality(s) <= Cardinality(t)
  BY <1>3
<1>5. s \in SUBSET U /\ s \in SUBSET S /\ s \in SUBSET T /\ g[s] # h[s]
  OBVIOUS
<1>6. CASE s = {}
  BY <1>5, <1>6 DEF IsSum
<1>7. CASE s # {}
  <2>1. /\ g[s] = f[FirstOf(s)] + g[s \ {FirstOf(s)}]
        /\ h[s] = e[FirstOf(s)] + h[s \ {FirstOf(s)}]
    BY <1>5, <1>7 DEF IsSum
  <2>2. /\ FirstOf(s) \in s /\ Cardinality(s) \in Nat
        /\ Cardinality(s \ {FirstOf(s)}) = Cardinality(s) - 1
    BY <1>5, <1>7, FirstFacts
  <2>3. s \ {FirstOf(s)} \notin Bad
    BY <1>4, <2>2
  <2>4. g[s \ {FirstOf(s)}] = h[s \ {FirstOf(s)}]
    BY <2>3
  <2>5. f[FirstOf(s)] = e[FirstOf(s)]
    BY <1>5, <2>2
  <2> QED BY <1>5, <2>1, <2>4, <2>5
<1> QED BY <1>6, <1>7

LEMMA SumEmpty == \A f : SumFunctionOnSet(f, {}) = 0
<1> TAKE f
<1>1. PICK g : IsSum(g, f, {}) /\ SumFunctionOnSet(f, {}) = g[{}]
  BY SumIs, FS_EmptySet
<1> QED BY <1>1 DEF IsSum

LEMMA SumEqual ==
  ASSUME NEW S, IsFiniteSet(S), NEW f, NEW e, \A x \in S : f[x] = e[x]
  PROVE  SumFunctionOnSet(f, S) = SumFunctionOnSet(e, S)
<1>1. PICK g : IsSum(g, f, S) /\ SumFunctionOnSet(f, S) = g[S]
  BY SumIs
<1>2. PICK h : IsSum(h, e, S) /\ SumFunctionOnSet(e, S) = h[S]
  BY SumIs
<1>3. S \in SUBSET (S \cap S)
  OBVIOUS
<1>4. g[S] = h[S]
  BY <1>1, <1>2, <1>3, SumsAgree
<1> QED BY <1>1, <1>2, <1>4

LEMMA SumFirst ==
  ASSUME NEW S, IsFiniteSet(S), S # {}, NEW f
  PROVE  SumFunctionOnSet(f, S) = f[FirstOf(S)] + SumFunctionOnSet(f, S \ {FirstOf(S)})
<1> DEFINE T == S \ {FirstOf(S)}
<1>1. IsFiniteSet(T)
  BY FS_Subset
<1>2. PICK g : IsSum(g, f, S) /\ SumFunctionOnSet(f, S) = g[S]
  BY SumIs
<1>3. PICK h : IsSum(h, f, T) /\ SumFunctionOnSet(f, T) = h[T]
  <2> HIDE DEF T
  <2> QED BY <1>1, SumIs
<1>4. g[S] = f[FirstOf(S)] + g[T]
  BY <1>2 DEF IsSum
<1>5. g[T] = h[T]
  <2>1. T \in SUBSET (S \cap T)
    OBVIOUS
  <2> HIDE DEF T
  <2> QED BY <1>1, <1>2, <1>3, <2>1, SumsAgree
<1> QED BY <1>2, <1>3, <1>4, <1>5

LEMMA SumInt ==
  ASSUME NEW S, IsFiniteSet(S), NEW f, \A x \in S : f[x] \in Int
  PROVE  SumFunctionOnSet(f, S) \in Int
<1> DEFINE Bad == { s \in SUBSET S : SumFunctionOnSet(f, s) \notin Int }
           Sizes == { Cardinality(s) : s \in Bad }
<1> SUFFICES ASSUME Bad # {} PROVE FALSE
  OBVIOUS
<1>1. \A s \in SUBSET S : IsFiniteSet(s) /\ Cardinality(s) \in Nat
  BY FS_Subset, FS_CardinalityType
<1>2. Sizes \in SUBSET Nat /\ Sizes # {}
  BY <1>1
<1>3. PICK n \in Sizes : \A m \in Sizes : n <= m
  <2> HIDE DEF Sizes
  <2> QED BY <1>2, LeastNat
<1>4. PICK s \in Bad : \A t \in Bad : Cardinality(s) <= Cardinality(t)
  BY <1>3
<1>5. s \in SUBSET S /\ SumFunctionOnSet(f, s) \notin Int /\ IsFiniteSet(s)
  BY <1>1
<1>6. s # {}
  BY <1>5, SumEmpty
<1>7. /\ FirstOf(s) \in s /\ Cardinality(s) \in Nat
      /\ Cardinality(s \ {FirstOf(s)}) = Cardinality(s) - 1
  BY <1>5, <1>6, FirstFacts
<1>8. s \ {FirstOf(s)} \notin Bad
  BY <1>4, <1>7
<1>9. SumFunctionOnSet(f, s) = f[FirstOf(s)] + SumFunctionOnSet(f, s \ {FirstOf(s)})
  BY <1>5, <1>6, SumFirst
<1> QED BY <1>5, <1>7, <1>8, <1>9

(* Any element may be taken out first.                                      *)
LEMMA SumRemove ==
  ASSUME NEW S, IsFiniteSet(S), NEW f, \A x \in S : f[x] \in Int, NEW y \in S
  PROVE  SumFunctionOnSet(f, S) = f[y] + SumFunctionOnSet(f, S \ {y})
<1> DEFINE Right(s) == \A x \in s : SumFunctionOnSet(f, s) = f[x] + SumFunctionOnSet(f, s \ {x})
           Bad == { s \in SUBSET S : ~Right(s) }
           Sizes == { Cardinality(s) : s \in Bad }
<1> SUFFICES ASSUME Bad # {} PROVE FALSE
  OBVIOUS
<1>1. \A s \in SUBSET S : IsFiniteSet(s) /\ Cardinality(s) \in Nat
  BY FS_Subset, FS_CardinalityType
<1>2. Sizes \in SUBSET Nat /\ Sizes # {}
  BY <1>1
<1>3. PICK n \in Sizes : \A m \in Sizes : n <= m
  <2> HIDE DEF Sizes
  <2> QED BY <1>2, LeastNat
<1>4. PICK s \in Bad : \A t \in Bad : Cardinality(s) <= Cardinality(t)
  BY <1>3
<1>5. s \in SUBSET S /\ ~Right(s) /\ IsFiniteSet(s)
  BY <1>1
<1>6. PICK x \in s : SumFunctionOnSet(f, s) # f[x] + SumFunctionOnSet(f, s \ {x})
  BY <1>5
<1> DEFINE c == FirstOf(s)
<1>7. c \in s /\ SumFunctionOnSet(f, s) = f[c] + SumFunctionOnSet(f, s \ {c})
  BY <1>5, <1>6, SumFirst, FirstFacts
<1>8. c # x /\ x \in s \ {c} /\ c \in s \ {x}
  BY <1>6, <1>7
<1>9. ASSUME NEW z \in s PROVE Right(s \ {z})
  <2>1. Cardinality(s \ {z}) = Cardinality(s) - 1 /\ Cardinality(s) \in Nat
    BY <1>1, <1>5, FS_RemoveElement
  <2>2. s \ {z} \notin Bad
    BY <1>4, <2>1
  <2>3. s \ {z} \in SUBSET S
    BY <1>5
  <2> QED BY <2>2, <2>3
<1>10. /\ SumFunctionOnSet(f, s \ {c}) = f[x] + SumFunctionOnSet(f, (s \ {c}) \ {x})
       /\ SumFunctionOnSet(f, s \ {x}) = f[c] + SumFunctionOnSet(f, (s \ {x}) \ {c})
  BY <1>7, <1>8, <1>9
<1>11. (s \ {c}) \ {x} = (s \ {x}) \ {c}
  OBVIOUS
<1>12. f[x] \in Int /\ f[c] \in Int /\ SumFunctionOnSet(f, (s \ {c}) \ {x}) \in Int
  <2>1. f[x] \in Int /\ f[c] \in Int
    BY <1>5, <1>7
  <2>2. (s \ {c}) \ {x} \in SUBSET S
    BY <1>5
  <2>3. IsFiniteSet((s \ {c}) \ {x}) /\ \A z \in (s \ {c}) \ {x} : f[z] \in Int
    BY <1>1, <2>2
  <2> QED BY <2>1, <2>3, SumInt
<1> DEFINE both == SumFunctionOnSet(f, (s \ {c}) \ {x})
<1>13. /\ SumFunctionOnSet(f, s) = f[c] + (f[x] + both)
       /\ SumFunctionOnSet(f, s \ {x}) = f[c] + both
  BY <1>7, <1>10, <1>11
<1>14. f[x] \in Int /\ f[c] \in Int /\ both \in Int
  BY <1>12
<1> HIDE DEF both, c
<1>15. SumFunctionOnSet(f, s) = f[x] + SumFunctionOnSet(f, s \ {x})
  BY <1>13, <1>14
<1> QED BY <1>6, <1>15

(* A sum of numbers no term of which exceeds the other's.                   *)
LEMMA SumAtMost ==
  ASSUME NEW S, IsFiniteSet(S), NEW f, NEW e,
         \A x \in S : f[x] \in Int /\ e[x] \in Int /\ f[x] <= e[x]
  PROVE  SumFunctionOnSet(f, S) <= SumFunctionOnSet(e, S)
<1> DEFINE Bad == { s \in SUBSET S : ~(SumFunctionOnSet(f, s) <= SumFunctionOnSet(e, s)) }
           Sizes == { Cardinality(s) : s \in Bad }
<1> SUFFICES ASSUME Bad # {} PROVE FALSE
  OBVIOUS
<1>1. \A s \in SUBSET S : IsFiniteSet(s) /\ Cardinality(s) \in Nat
  BY FS_Subset, FS_CardinalityType
<1>2. Sizes \in SUBSET Nat /\ Sizes # {}
  BY <1>1
<1>3. PICK n \in Sizes : \A m \in Sizes : n <= m
  <2> HIDE DEF Sizes
  <2> QED BY <1>2, LeastNat
<1>4. PICK s \in Bad : \A t \in Bad : Cardinality(s) <= Cardinality(t)
  BY <1>3
<1>5. s \in SUBSET S /\ ~(SumFunctionOnSet(f, s) <= SumFunctionOnSet(e, s)) /\ IsFiniteSet(s)
  BY <1>1
<1>6. s # {}
  <2>1. s = {} => SumFunctionOnSet(f, s) = 0 /\ SumFunctionOnSet(e, s) = 0
    BY SumEmpty
  <2> QED BY <1>5, <2>1
<1>7. /\ FirstOf(s) \in s /\ Cardinality(s) \in Nat
      /\ Cardinality(s \ {FirstOf(s)}) = Cardinality(s) - 1
  BY <1>5, <1>6, FirstFacts
<1>8. s \ {FirstOf(s)} \notin Bad /\ s \ {FirstOf(s)} \in SUBSET S
  BY <1>4, <1>5, <1>7
<1>9. /\ SumFunctionOnSet(f, s) = f[FirstOf(s)] + SumFunctionOnSet(f, s \ {FirstOf(s)})
      /\ SumFunctionOnSet(e, s) = e[FirstOf(s)] + SumFunctionOnSet(e, s \ {FirstOf(s)})
  BY <1>5, <1>6, SumFirst
<1>10. /\ SumFunctionOnSet(f, s \ {FirstOf(s)}) \in Int /\ SumFunctionOnSet(e, s \ {FirstOf(s)}) \in Int
       /\ f[FirstOf(s)] \in Int /\ e[FirstOf(s)] \in Int /\ f[FirstOf(s)] <= e[FirstOf(s)]
  <2>1. IsFiniteSet(s \ {FirstOf(s)})
    BY <1>1, <1>8
  <2>2. \A x \in s \ {FirstOf(s)} : f[x] \in Int /\ e[x] \in Int
    BY <1>5
  <2>3. FirstOf(s) \in S
    BY <1>5, <1>7
  <2> QED BY <2>1, <2>2, <2>3, SumInt
<1>11. SumFunctionOnSet(f, s \ {FirstOf(s)}) <= SumFunctionOnSet(e, s \ {FirstOf(s)})
  BY <1>8
<1> QED BY <1>5, <1>9, <1>10, <1>11

(* One term changes.                                                        *)
LEMMA SumChanged ==
  ASSUME NEW S, IsFiniteSet(S), NEW f, NEW e, NEW y \in S,
         \A x \in S : f[x] \in Int /\ e[x] \in Int,
         \A x \in S \ {y} : f[x] = e[x]
  PROVE  SumFunctionOnSet(e, S) = SumFunctionOnSet(f, S) - f[y] + e[y]
<1>1. IsFiniteSet(S \ {y})
  BY FS_Subset
<1>2. SumFunctionOnSet(f, S \ {y}) = SumFunctionOnSet(e, S \ {y})
  BY <1>1, SumEqual
<1>3. /\ SumFunctionOnSet(f, S) = f[y] + SumFunctionOnSet(f, S \ {y})
      /\ SumFunctionOnSet(e, S) = e[y] + SumFunctionOnSet(e, S \ {y})
  BY SumRemove
<1>4. SumFunctionOnSet(f, S \ {y}) \in Int
  BY <1>1, SumInt
<1> QED BY <1>2, <1>3, <1>4

LEMMA SumZero ==
  ASSUME NEW S, IsFiniteSet(S), NEW f, \A x \in S : f[x] = 0
  PROVE  SumFunctionOnSet(f, S) = 0
<1> DEFINE h == [s \in SUBSET S |-> 0]
<1>1. PICK g : IsSum(g, f, S) /\ SumFunctionOnSet(f, S) = g[S]
  BY SumIs
<1>2. IsSum(h, f, S)
  <2>1. ASSUME NEW s \in SUBSET S
        PROVE  0 = IF s = {} THEN 0 ELSE f[FirstOf(s)] + h[s \ {FirstOf(s)}]
    <3>1. CASE s # {}
      <4>1. FirstOf(s) \in S /\ s \ {FirstOf(s)} \in SUBSET S
        BY <3>1, FirstFacts
      <4>2. f[FirstOf(s)] = 0 /\ h[s \ {FirstOf(s)}] = 0
        BY <4>1
      <4> HIDE DEF h
      <4> QED BY <3>1, <4>2
    <3> QED BY <3>1
  <2> HIDE DEF h
  <2>2. h = [s \in SUBSET S |-> 0]
    BY DEF h
  <2> QED BY <2>1, <2>2 DEF IsSum
<1>3. S \in SUBSET (S \cap S)
  OBVIOUS
<1>4. g[S] = h[S]
  <2> HIDE DEF h
  <2> QED BY <1>1, <1>2, <1>3, SumsAgree
<1> QED BY <1>1, <1>4

LEMMA SumNat ==
  ASSUME NEW S, IsFiniteSet(S), NEW f, \A x \in S : f[x] \in Nat
  PROVE  SumFunctionOnSet(f, S) \in Nat
<1> DEFINE z == [x \in S |-> 0]
<1>1. SumFunctionOnSet(z, S) = 0
  BY SumZero
<1>2. \A x \in S : f[x] \in Int /\ z[x] \in Int /\ z[x] <= f[x]
  OBVIOUS
<1> HIDE DEF z
<1>3. SumFunctionOnSet(z, S) <= SumFunctionOnSet(f, S)
  BY <1>2, SumAtMost
<1>4. SumFunctionOnSet(f, S) \in Int
  BY SumInt
<1> QED BY <1>1, <1>3, <1>4

-----------------------------------------------------------------------------
(* The list and the session file.                                           *)

(* Session file and list name the same downloads, in one order.             *)
Names(rs, l) == Len(rs) = Len(l) /\ \A i \in 1 .. Len(l) : rs[i].id = l[i]

(* A verification under way is forgotten by a restart.                      *)
Restartable(s) == IF s = "VERIFYING" THEN "PENDING" ELSE s

SameRecord(a, b) == /\ a.id = b.id /\ Restartable(a.status) = Restartable(b.status)
                    /\ a.scheduled = b.scheduled /\ a.restart_required = b.restart_required

Agree(rs, ls) == Len(rs) = Len(ls) /\ \A i \in 1 .. Len(ls) : SameRecord(rs[i], ls[i])

(* The records the list amounts to.                                         *)
Now == Session!Records(list, status_of, scheduled, restart_required)

IdsOf(rs) == { rs[i].id : i \in 1 .. Len(rs) }

IdsApart(rs) == \A i, j \in 1 .. Len(rs) : rs[i].id = rs[j].id => i = j

Settled(rs) == \A i \in 1 .. Len(rs) : rs[i].status \notin { "STARTING", "DOWNLOADING" }

WhileRunning ==
  phase \in { "running", "closing" } =>
    ToSet(list) = want /\ Names(disk_list, list) /\ (settled => Agree(disk_list, Now))

WhileDown ==
  phase = "down" =>
    /\ list = <<>> /\ scheduled = {}
    /\ IdsApart(disk_list) /\ IdsOf(disk_list) = want
    /\ settled => Agree(disk_list, last)

WhileLoading ==
  phase = "loading" =>
    /\ Names(disk_list, list) \/ (list = <<>> /\ disk_list = unread)
    /\ IdsApart(unread) /\ IdsOf(unread) \cap ToSet(list) = {}
    /\ want = ToSet(list) \cup IdsOf(unread)
    /\ scheduled \subseteq ToSet(list) /\ restart_required \subseteq ToSet(list)
    /\ \A d \in ToSet(list) : status_of[d] \in Session!RestoredAsIs \cup { "PENDING" }
    /\ settled =>
         /\ Len(last) = Len(list) + Len(unread)
         /\ \A i \in 1 .. Len(list) : SameRecord(Now[i], last[i])
         /\ \A i \in 1 .. Len(unread) : SameRecord(unread[i], last[Len(list) + i])

PathsApart == \A d, e \in Ids : save_path[d] = save_path[e] => d = e

ListInv ==
  /\ Session!TypeOK /\ PathsApart /\ want \subseteq used
  /\ Settled(disk_list) /\ Settled(unread)
  /\ WhileRunning /\ WhileDown /\ WhileLoading

(* The module of the list has the operators on sequences under its name.    *)
LEMMA SameOperators ==
  /\ \A q : Session!ToSet(q) = ToSet(q)
  /\ \A q : Session!IsInjective(q) = IsInjective(q)
  /\ \A q, d : Session!RemoveFirst(q, d) = RemoveFirst(q, d)
<1>1. \A q : Session!ToSet(q) = ToSet(q)
  BY DEF Session!ToSet, ToSet
<1>2. \A q : Session!IsInjective(q) = IsInjective(q)
  BY DEF Session!IsInjective, IsInjective
<1>3. ASSUME NEW q, NEW d PROVE Session!RemoveFirst(q, d) = RemoveFirst(q, d)
  BY DEF Session!RemoveFirst, RemoveFirst, Session!RemoveAt, RemoveAt, Session!SelectInSeq,
         SelectInSeq, Session!Min, Min
<1> QED BY <1>1, <1>2, <1>3

(* What record r says of download d.                                        *)
Says(r, d, st, sch, req) ==
  /\ r.id = d /\ r.status = Session!Stored(st[d])
  /\ r.scheduled = IF d \in sch THEN TRUE ELSE FALSE
  /\ r.restart_required = IF d \in req THEN TRUE ELSE FALSE

LEMMA RecordsFacts ==
  ASSUME NEW l \in Seq(Ids), NEW st \in [Ids -> Session!Status],
         NEW sch \in SUBSET Ids, NEW req \in SUBSET Ids
  PROVE  /\ Session!Records(l, st, sch, req) \in Seq(Session!Record)
         /\ Len(Session!Records(l, st, sch, req)) = Len(l) /\ Len(l) \in Nat
         /\ Names(Session!Records(l, st, sch, req), l) /\ Settled(Session!Records(l, st, sch, req))
<1> DEFINE r(i) == [id |-> l[i], status |-> Session!Stored(st[l[i]]),
                    scheduled |-> l[i] \in sch, restart_required |-> l[i] \in req]
           rs == [i \in 1 .. Len(l) |-> r(i)]
<1>1. Len(l) \in Nat /\ DOMAIN l = 1 .. Len(l) /\ \A i \in 1 .. Len(l) : l[i] \in Ids
  BY SetOf
<1>2. ASSUME NEW i \in 1 .. Len(l)
      PROVE  r(i) \in Session!Record /\ r(i).status \notin { "STARTING", "DOWNLOADING" }
  BY <1>1 DEF Session!Record, Session!Status, Session!Stored, Session!Active, Session!Terminal
<1>3. rs \in Seq(Session!Record) /\ Len(rs) = Len(l)
  <2> HIDE DEF r
  <2> QED BY <1>1, <1>2
<1>4. Session!Records(l, st, sch, req) = rs
  BY <1>1 DEF Session!Records
<1>5. Names(rs, l) /\ Settled(rs)
  BY <1>2, <1>3 DEF Names, Settled
<1> QED BY <1>1, <1>3, <1>4, <1>5

(* What a record with a membership in it says.                              *)
LEMMA InOrNot ==
  ASSUME NEW r, NEW d, NEW s, NEW t, r.scheduled = (d \in s), r.restart_required = (d \in t),
         r.scheduled \in BOOLEAN, r.restart_required \in BOOLEAN
  PROVE  /\ r.scheduled = IF d \in s THEN TRUE ELSE FALSE
         /\ r.restart_required = IF d \in t THEN TRUE ELSE FALSE
OBVIOUS

LEMMA RecordsAt ==
  ASSUME NEW l \in Seq(Ids), NEW st \in [Ids -> Session!Status],
         NEW sch \in SUBSET Ids, NEW req \in SUBSET Ids, NEW i \in 1 .. Len(l)
  PROVE  Says(Session!Records(l, st, sch, req)[i], l[i], st, sch, req)
<1> DEFINE r == Session!Records(l, st, sch, req)[i]
<1>1. i \in DOMAIN l
  OBVIOUS
<1>2. r.id = l[i] /\ r.status = Session!Stored(st[l[i]])
  BY <1>1 DEF Session!Records
<1>3. r.scheduled = (l[i] \in sch)
  BY <1>1 DEF Session!Records
<1>4. r.restart_required = (l[i] \in req)
  BY <1>1 DEF Session!Records
<1>5. r.scheduled \in BOOLEAN /\ r.restart_required \in BOOLEAN
  <2>1. r \in Session!Record
    BY RecordsFacts
  <2> QED BY <2>1 DEF Session!Record
<1> HIDE DEF r
<1>6. /\ r.scheduled = IF l[i] \in sch THEN TRUE ELSE FALSE
      /\ r.restart_required = IF l[i] \in req THEN TRUE ELSE FALSE
  BY <1>3, <1>4, <1>5, InOrNot
<1>7. Says(r, l[i], st, sch, req)
  BY <1>2, <1>6 DEF Says
<1> QED BY <1>7 DEF r

(* A handler that ends in a save leaves file and list in agreement.         *)
LEMMA SavedStep ==
  ASSUME ListInv, Session!TypeOK', Session!Save,
         phase' \in { "running", "closing" },
         want' \subseteq used', ToSet(list') = want',
         save_path' = save_path, unread' = unread
  PROVE  ListInv'
<1>1. /\ list' \in Seq(Ids) /\ status_of' \in [Ids -> Session!Status]
      /\ scheduled' \in SUBSET Ids /\ restart_required' \in SUBSET Ids
  BY DEF Session!TypeOK
<1>2. disk_list' = Now'
  BY DEF Session!Save, Now
<1>3. Names(Now', list') /\ Settled(Now') /\ Len(Now') \in Nat
  BY <1>1, RecordsFacts DEF Now
<1>4. Agree(Now', Now')
  BY <1>3 DEF Agree, SameRecord
<1>5. PathsApart' /\ Settled(unread')
  BY DEF ListInv, PathsApart
<1> QED BY <1>2, <1>3, <1>4, <1>5 DEF ListInv, WhileRunning, WhileDown, WhileLoading

LEMMA NoPathConflict ==
  ASSUME ListInv, NEW d \in Ids
  PROVE  ~Session!PathConflict(d)
BY SetOf, SameOperators DEF ListInv, PathsApart, Session!PathConflict, Session!TypeOK

LEMMA CommandsKeep ==
  ASSUME ListInv, NEW d \in Ids, Session!Command(d)
  PROVE  ListInv'
<1> USE DEF Session!Responsive, Session!Listed
<1>0. /\ Session!TypeOK /\ list \in Seq(Ids) /\ IsInjective(list)
      /\ want \subseteq used /\ want \in SUBSET Ids /\ ToSet(list) \subseteq Ids
      /\ phase \in { "running", "closing" } => ToSet(list) = want
  BY SetOf, SameOperators DEF ListInv, Session!TypeOK, WhileRunning
<1>1. CASE Session!AddDownload(d)
  <2>1. /\ phase' = phase /\ phase \in { "running", "closing" } /\ d \notin used
        /\ list' = Append(list, d)
        /\ status_of' = [status_of EXCEPT ![d] = "PENDING"]
        /\ scheduled' \in { scheduled, scheduled \cup {d} }
        /\ used' = used \cup {d} /\ want' = want \cup {d}
        /\ UNCHANGED <<save_path, restart_required, unread, ended, last>>
        /\ Session!Save
    BY <1>1 DEF Session!AddDownload
  <2>2. list' \in Seq(Ids) /\ IsInjective(list') /\ ToSet(list') = want'
    BY <1>0, <2>1, AppendFacts
  <2>3. Session!TypeOK'
    <3>1. /\ status_of' \in [Ids -> Session!Status]
          /\ scheduled' \in SUBSET Ids /\ restart_required' \in SUBSET Ids
      BY <2>1, <1>0 DEF Session!TypeOK, Session!Status
    <3>2. disk_list' \in Seq(Session!Record) /\ settled' = TRUE
      BY <2>1, <2>2, <3>1, RecordsFacts DEF Session!Save
    <3> QED BY <2>1, <2>2, <1>0, <3>1, <3>2, SameOperators DEF Session!TypeOK
  <2> QED BY <1>0, <2>1, <2>2, <2>3, SavedStep
<1>2. CASE Session!OnScheduleDue(d)
  <2>1. /\ phase' = phase /\ phase \in { "running", "closing" } /\ d \in scheduled
        /\ scheduled' = scheduled \ {d}
        /\ UNCHANGED <<list, status_of, save_path, restart_required, unread, used, want, ended, last>>
    BY <1>2 DEF Session!OnScheduleDue
  <2>2. CASE d \in ToSet(list)
    <3>1. Session!Save
      BY <1>2, <2>2, SameOperators DEF Session!OnScheduleDue
    <3>2. disk_list' \in Seq(Session!Record) /\ settled' = TRUE
      BY <2>1, <3>1, <1>0, RecordsFacts DEF Session!Save, Session!TypeOK
    <3>3. Session!TypeOK'
      BY <2>1, <1>0, <3>2 DEF Session!TypeOK
    <3> QED BY <1>0, <2>1, <3>1, <3>3, SavedStep
  <2>3. CASE d \notin ToSet(list)
    <3>1. UNCHANGED <<disk_list, settled>>
      BY <1>2, <2>3, SameOperators DEF Session!OnScheduleDue
    <3>2. Session!TypeOK'
      BY <2>1, <1>0, <3>1 DEF Session!TypeOK
    <3>3. Now' = Now
      <4>1. \A i \in DOMAIN list : (list[i] \in scheduled') <=> (list[i] \in scheduled)
        BY <2>1, <2>3 DEF ToSet
      <4> QED BY <2>1, <4>1 DEF Now, Session!Records
    <3> QED BY <2>1, <3>1, <3>2, <3>3 DEF ListInv, PathsApart, WhileRunning, WhileDown, WhileLoading
  <2> QED BY <2>2, <2>3
<1>3. CASE \/ Session!PauseDownload(d) \/ Session!ResumeDownload(d)
           \/ Session!StopDownload(d) \/ Session!RetryDownload(d)
  <2>1. /\ phase' = phase /\ phase \in { "running", "closing" }
        /\ UNCHANGED <<list, save_path, scheduled, unread, used, want, last>>
        /\ restart_required' \in SUBSET Ids /\ ended' \in SUBSET Ids
        /\ Session!Save
    BY <1>0, <1>3 DEF Session!PauseDownload, Session!ResumeDownload, Session!StopDownload,
                      Session!RetryDownload, Session!TypeOK
  <2>2. status_of' \in [Ids -> Session!Status]
    <3>1. status_of \in [Ids -> Session!Status]
      BY <1>0 DEF Session!TypeOK
    <3>2. \E s \in Session!Status : status_of' = [status_of EXCEPT ![d] = s]
      BY <1>3, <3>1 DEF Session!PauseDownload, Session!ResumeDownload, Session!StopDownload,
                        Session!RetryDownload, Session!Becomes, Session!Status, Session!Active,
                        Session!Terminal
    <3> QED BY <3>1, <3>2
  <2>3. disk_list' \in Seq(Session!Record) /\ settled' = TRUE
    BY <2>1, <2>2, <1>0, RecordsFacts DEF Session!Save, Session!TypeOK
  <2>4. Session!TypeOK'
    BY <2>1, <2>2, <2>3, <1>0 DEF Session!TypeOK
  <2> QED BY <1>0, <2>1, <2>4, SavedStep
<1>4. CASE Session!RemoveDownload(d)
  <2>1. /\ phase' = phase /\ phase \in { "running", "closing" } /\ d \in ToSet(list)
        /\ list' = RemoveFirst(list, d) /\ scheduled' = scheduled \ {d}
        /\ want' = want \ {d} /\ ended' = ended \ {d}
        /\ UNCHANGED <<status_of, save_path, restart_required, unread, used, last>>
        /\ Session!Save
    BY <1>4, SameOperators DEF Session!RemoveDownload
  <2>2. list' \in Seq(Ids) /\ IsInjective(list') /\ ToSet(list') = want'
    BY <1>0, <2>1, RemoveFacts
  <2>3. disk_list' \in Seq(Session!Record) /\ settled' = TRUE
    BY <2>1, <2>2, <1>0, RecordsFacts DEF Session!Save, Session!TypeOK
  <2>4. Session!TypeOK'
    BY <2>1, <2>2, <2>3, <1>0, SameOperators DEF Session!TypeOK
  <2> QED BY <1>0, <2>1, <2>2, <2>4, SavedStep
<1> QED BY <1>1, <1>2, <1>3, <1>4 DEF Session!Command

LEMMA EnginesKeep ==
  ASSUME ListInv, NEW d \in Ids, Session!Engine(d)
  PROVE  ListInv'
<1> USE DEF Session!Responsive
<1>0. /\ Session!TypeOK /\ list \in Seq(Ids) /\ ToSet(list) \subseteq Ids
      /\ want \subseteq used
      /\ phase \in { "running", "closing" } => ToSet(list) = want
  BY SetOf, SameOperators DEF ListInv, Session!TypeOK, WhileRunning
<1>1. CASE Session!Proceeds(d)
  <2>1. /\ phase' = phase /\ phase \in { "running", "closing" }
        /\ UNCHANGED <<list, save_path, scheduled, restart_required, disk_list, unread,
                       used, want, ended, settled, last>>
        /\ \/ status_of[d] = "PENDING" /\ status_of' = [status_of EXCEPT ![d] = "STARTING"]
           \/ status_of[d] = "STARTING" /\ status_of' = [status_of EXCEPT ![d] = "DOWNLOADING"]
           \/ status_of[d] = "DOWNLOADING" /\ status_of' = [status_of EXCEPT ![d] = "VERIFYING"]
    BY <1>1 DEF Session!Proceeds, Session!Becomes, Session!history
  <2>2. status_of' \in [Ids -> Session!Status] /\ status_of \in [Ids -> Session!Status]
    BY <2>1, <1>0 DEF Session!TypeOK, Session!Status, Session!Active
  <2>3. Session!TypeOK'
    BY <2>1, <2>2, <1>0 DEF Session!TypeOK
  <2>4. scheduled \in SUBSET Ids /\ restart_required \in SUBSET Ids
    BY <1>0 DEF Session!TypeOK
  <2>5. \A c \in Ids : Restartable(Session!Stored(status_of'[c])) = Restartable(Session!Stored(status_of[c]))
    BY <2>1, <2>2 DEF Restartable, Session!Stored
  <2>6. settled => Agree(disk_list, Now')
    <3>0. Now' = Session!Records(list, status_of', scheduled, restart_required)
      BY <2>1 DEF Now
    <3>1. Len(Now') = Len(list) /\ Len(Now) = Len(list)
      <4>1. Len(Session!Records(list, status_of', scheduled, restart_required)) = Len(list)
        BY <1>0, <2>2, <2>4, RecordsFacts
      <4>2. Len(Session!Records(list, status_of, scheduled, restart_required)) = Len(list)
        BY <1>0, <2>2, <2>4, RecordsFacts
      <4> QED BY <3>0, <4>1, <4>2 DEF Now
    <3>2. ASSUME NEW i \in 1 .. Len(list) PROVE SameRecord(Now[i], Now'[i])
      <4>1. /\ Says(Now[i], list[i], status_of, scheduled, restart_required)
            /\ Says(Now'[i], list[i], status_of', scheduled, restart_required)
        BY <1>0, <2>2, <2>4, <3>0, RecordsAt DEF Now
      <4>2. list[i] \in Ids
        BY <1>0
      <4> QED BY <4>1, <4>2, <2>5 DEF SameRecord, Says
    <3>3. settled => Agree(disk_list, Now)
      BY <2>1 DEF ListInv, WhileRunning
    <3> QED BY <3>1, <3>2, <3>3 DEF Agree, SameRecord
  <2> QED BY <2>1, <2>3, <2>6 DEF ListInv, PathsApart, WhileRunning, WhileDown, WhileLoading
<1>2. CASE Session!OnDownloadFinished(d) \/ Session!OnDownloadError(d)
  <2>1. /\ phase' = phase /\ phase \in { "running", "closing" }
        /\ UNCHANGED <<list, save_path, scheduled, unread, used, want, last>>
        /\ restart_required' \in SUBSET Ids /\ ended' \in SUBSET Ids
        /\ \E s \in { "COMPLETED", "ERROR" } : status_of' = [status_of EXCEPT ![d] = s]
        /\ Session!Save
    BY <1>0, <1>2 DEF Session!OnDownloadFinished, Session!OnDownloadError, Session!TypeOK,
                      Session!Becomes
  <2>2. status_of' \in [Ids -> Session!Status]
    BY <2>1, <1>0 DEF Session!TypeOK, Session!Status, Session!Terminal
  <2>3. disk_list' \in Seq(Session!Record) /\ settled' = TRUE
    BY <2>1, <2>2, <1>0, RecordsFacts DEF Session!Save, Session!TypeOK
  <2>4. Session!TypeOK'
    BY <2>1, <2>2, <2>3, <1>0 DEF Session!TypeOK
  <2> QED BY <1>0, <2>1, <2>4, SavedStep
<1> QED BY <1>1, <1>2 DEF Session!Engine

(* The end of the process, by the window or by a kill.                      *)
LEMMA DownKeeps ==
  ASSUME ListInv, Session!Down
  PROVE  ListInv'
<1>1. /\ phase \in { "running", "closing" } /\ phase' = "down"
      /\ last' = Now /\ list' = <<>> /\ scheduled' = {}
      /\ UNCHANGED <<status_of, save_path, restart_required, disk_list, unread, used, want,
                     ended, settled>>
  BY DEF Session!Down, Session!Responsive, Now
<1>2. /\ Session!TypeOK /\ list \in Seq(Ids) /\ IsInjective(list) /\ ToSet(list) = want
      /\ Names(disk_list, list) /\ (settled => Agree(disk_list, Now)) /\ Len(list) \in Nat
      /\ disk_list \in Seq(Session!Record)
  BY <1>1, SetOf, SameOperators DEF ListInv, Session!TypeOK, WhileRunning
<1>3. Now \in Seq(Session!Record)
  BY <1>2, RecordsFacts DEF Now, Session!TypeOK
<1>4. Session!TypeOK'
  <2>1. list' \in Seq(Ids) /\ Session!IsInjective(list')
    BY <1>1 DEF Session!IsInjective
  <2> QED BY <1>1, <1>2, <1>3, <2>1 DEF Session!TypeOK
<1>5. IdsApart(disk_list)
  BY <1>2 DEF IdsApart, Names, IsInjective
<1>6. IdsOf(disk_list) = want
  BY <1>2, SetOf DEF IdsOf, Names
<1> QED BY <1>1, <1>2, <1>4, <1>5, <1>6 DEF ListInv, PathsApart, WhileRunning, WhileDown, WhileLoading

LEMMA StartUpKeeps ==
  ASSUME ListInv, Session!StartUp
  PROVE  ListInv'
<1>1. /\ phase = "down" /\ phase' = "loading" /\ unread' = disk_list /\ restart_required' = {}
      /\ UNCHANGED <<list, status_of, save_path, scheduled, disk_list, used, want, ended,
                     settled, last>>
  BY DEF Session!StartUp, Session!history
<1>2. /\ Session!TypeOK /\ list = <<>> /\ scheduled = {}
      /\ IdsApart(disk_list) /\ IdsOf(disk_list) = want
      /\ settled => Agree(disk_list, last)
  BY <1>1 DEF ListInv, WhileDown
<1>3. Session!TypeOK'
  BY <1>1, <1>2 DEF Session!TypeOK
<1>4. Len(list) = 0 /\ ToSet(list) = {} /\ Len(disk_list) \in Nat
  BY <1>2 DEF ToSet, Session!TypeOK
<1>5. WhileLoading'
  <2>1. ASSUME settled, NEW i \in 1 .. Len(disk_list) PROVE SameRecord(disk_list[i], last[0 + i])
    BY <1>2, <1>4, <2>1 DEF Agree
  <2>2. settled => Len(last) = 0 + Len(disk_list)
    BY <1>2, <1>4 DEF Agree
  <2> QED BY <1>1, <1>2, <1>4, <2>1, <2>2 DEF WhileLoading
<1> QED BY <1>1, <1>3, <1>5 DEF ListInv, PathsApart, WhileRunning, WhileDown

LEMMA LoadRecordKeeps ==
  ASSUME ListInv, Session!LoadRecord
  PROVE  ListInv'
<1> DEFINE r == Head(unread)
           sch == IF r.scheduled THEN scheduled \cup {r.id} ELSE scheduled
           st == IF r.status \in Session!RestoredAsIs THEN r.status ELSE "PENDING"
           req == IF r.restart_required THEN restart_required \cup {r.id} ELSE restart_required
<1>1. /\ phase = "loading" /\ phase' = "loading" /\ unread # <<>> /\ Session!TypeOK
      /\ unread \in Seq(Session!Record) /\ Settled(unread) /\ PathsApart /\ want \subseteq used
      /\ IdsApart(unread) /\ IdsOf(unread) \cap ToSet(list) = {}
      /\ want = ToSet(list) \cup IdsOf(unread)
      /\ scheduled \subseteq ToSet(list) /\ restart_required \subseteq ToSet(list)
      /\ \A d \in ToSet(list) : status_of[d] \in Session!RestoredAsIs \cup { "PENDING" }
      /\ list \in Seq(Ids) /\ IsInjective(list) /\ status_of \in [Ids -> Session!Status]
  BY SameOperators DEF ListInv, Session!LoadRecord, WhileLoading, Session!TypeOK
<1>2. /\ r = unread[1] /\ r \in Session!Record /\ 1 \in 1 .. Len(unread) /\ r.id \in Ids
      /\ r.status \notin { "STARTING", "DOWNLOADING" } /\ r.id \in IdsOf(unread)
      /\ Len(unread) \in Nat
  <2>1. r = unread[1] /\ r \in Session!Record /\ 1 \in 1 .. Len(unread) /\ Len(unread) \in Nat
    BY <1>1
  <2> QED BY <1>1, <2>1 DEF Settled, IdsOf, Session!Record
<1>3. /\ list' = Append(list, r.id) /\ scheduled' = sch /\ restart_required' = req
      /\ status_of' = [status_of EXCEPT ![r.id] = st]
      /\ disk_list' = Session!Records(list', [status_of EXCEPT ![r.id] = "PENDING"], sch,
                                       restart_required)
      /\ unread' = Tail(unread)
      /\ UNCHANGED <<save_path, used, want, ended, settled, last>>
  BY <1>2, NoPathConflict DEF Session!LoadRecord, Session!Restored, Session!Becomes,
                              Session!history
<1>4. /\ unread' \in Seq(Session!Record) /\ Len(unread') = Len(unread) - 1
      /\ \A i \in 1 .. Len(unread) - 1 : unread'[i] = unread[i + 1]
  BY <1>1, <1>3, HeadTailProperties
<1>5. r.id \notin ToSet(list)
  BY <1>1, <1>2
<1> HIDE DEF r
<1>6. /\ list' \in Seq(Ids) /\ IsInjective(list') /\ ToSet(list') = ToSet(list) \cup {r.id}
      /\ Len(list') = Len(list) + 1 /\ list'[Len(list) + 1] = r.id /\ Len(list) \in Nat
      /\ \A i \in 1 .. Len(list) : list'[i] = list[i]
  BY <1>1, <1>2, <1>3, <1>5, AppendFacts
<1>7. st \in Session!RestoredAsIs \cup { "PENDING" } /\ st \in Session!Status
  BY DEF Session!RestoredAsIs, Session!Status, Session!Terminal
<1>8. sch \in SUBSET Ids /\ req \in SUBSET Ids /\ restart_required \in SUBSET Ids
  BY <1>1, <1>2 DEF Session!TypeOK
<1>9. /\ status_of' \in [Ids -> Session!Status]
      /\ [status_of EXCEPT ![r.id] = "PENDING"] \in [Ids -> Session!Status]
  BY <1>1, <1>3, <1>7 DEF Session!Status
<1>10. disk_list' \in Seq(Session!Record) /\ Names(disk_list', list') /\ Settled(disk_list')
  BY <1>3, <1>6, <1>8, <1>9, RecordsFacts
<1>11. Session!TypeOK'
  BY <1>1, <1>3, <1>4, <1>6, <1>8, <1>9, <1>10, SameOperators DEF Session!TypeOK
<1>12. Settled(unread') /\ IdsApart(unread')
  <2>1. \A i \in 1 .. Len(unread') : i + 1 \in 1 .. Len(unread) /\ unread'[i] = unread[i + 1]
    BY <1>2, <1>4
  <2>2. Settled(unread')
    BY <1>1, <2>1 DEF Settled
  <2>3. \A i, j \in 1 .. Len(unread') : i + 1 = j + 1 => i = j
    BY <1>2, <1>4
  <2>4. IdsApart(unread')
    BY <1>1, <2>1, <2>3 DEF IdsApart
  <2> QED BY <2>2, <2>4
<1>13. IdsOf(unread') = IdsOf(unread) \ {r.id}
  <2>1. ASSUME NEW i \in 1 .. Len(unread') PROVE unread'[i].id \in IdsOf(unread) \ {r.id}
    BY <1>1, <1>2, <1>4 DEF IdsOf, IdsApart
  <2>2. ASSUME NEW i \in 1 .. Len(unread), unread[i].id # r.id PROVE unread[i].id \in IdsOf(unread')
    <3>1. i # 1 /\ i - 1 \in 1 .. Len(unread') /\ unread'[i - 1] = unread[i]
      BY <1>2, <1>4, <2>2
    <3> QED BY <3>1 DEF IdsOf
  <2> QED BY <2>1, <2>2 DEF IdsOf
<1>14. /\ scheduled' \subseteq ToSet(list') /\ restart_required' \subseteq ToSet(list')
       /\ \A d \in ToSet(list') : status_of'[d] \in Session!RestoredAsIs \cup { "PENDING" }
  BY <1>1, <1>3, <1>6, <1>7, SetOf
<1>15. ASSUME settled
       PROVE  /\ Len(last) = Len(list') + Len(unread')
              /\ \A i \in 1 .. Len(list') : SameRecord(Now'[i], last[i])
              /\ \A i \in 1 .. Len(unread') : SameRecord(unread'[i], last[Len(list') + i])
  <2>1. /\ Len(last) = Len(list) + Len(unread)
        /\ \A i \in 1 .. Len(list) : SameRecord(Now[i], last[i])
        /\ \A i \in 1 .. Len(unread) : SameRecord(unread[i], last[Len(list) + i])
    BY <1>1, <1>15 DEF ListInv, WhileLoading
  <2>2. scheduled \in SUBSET Ids
    BY <1>1 DEF Session!TypeOK
  <2>3. \A i \in 1 .. Len(list') :
          Says(Now'[i], list'[i], status_of', scheduled', restart_required')
    BY <1>3, <1>6, <1>8, <1>9, RecordsAt DEF Now
  <2>4. \A i \in 1 .. Len(list) :
          Says(Now[i], list[i], status_of, scheduled, restart_required)
    BY <1>1, <1>8, <2>2, RecordsAt DEF Now
  <2>5. ASSUME NEW i \in 1 .. Len(list) PROVE SameRecord(Now'[i], Now[i])
    <3>1. list[i] # r.id /\ list'[i] = list[i] /\ i \in 1 .. Len(list') /\ list[i] \in Ids
      BY <1>1, <1>5, <1>6, SetOf
    <3>2. status_of'[list[i]] = status_of[list[i]]
      BY <3>1, <1>3, <1>1
    <3>3. /\ (list[i] \in scheduled') <=> (list[i] \in scheduled)
          /\ (list[i] \in restart_required') <=> (list[i] \in restart_required)
      BY <3>1, <1>3
    <3>4. /\ Says(Now'[i], list[i], status_of', scheduled', restart_required')
          /\ Says(Now[i], list[i], status_of, scheduled, restart_required)
      BY <2>3, <2>4, <3>1
    <3> QED BY <3>2, <3>3, <3>4, Zenon DEF Says, SameRecord
  <2>6. SameRecord(Now'[Len(list) + 1], last[Len(list) + 1])
    <3>1. SameRecord(unread[1], last[Len(list) + 1])
      BY <1>2, <2>1
    <3>2. Len(list) + 1 \in 1 .. Len(list')
      BY <1>6
    <3>3. /\ Says(Now'[Len(list) + 1], r.id, status_of', sch, req)
          /\ status_of'[r.id] = st
      BY <2>3, <3>2, <1>3, <1>6, <1>1, <1>2
    <3>4. /\ r.scheduled = IF r.id \in sch THEN TRUE ELSE FALSE
          /\ r.restart_required = IF r.id \in req THEN TRUE ELSE FALSE
      BY <1>1, <1>2, <1>5 DEF Session!Record
    <3>7. Now'[Len(list) + 1].status = Session!Stored(st)
      BY <3>3 DEF Says
    <3>5. Restartable(Session!Stored(st)) = Restartable(r.status)
      BY <1>2 DEF Session!Record, Session!Status, Session!RestoredAsIs, Session!Active,
                  Session!Terminal, Restartable, Session!Stored
    <3>6. SameRecord(Now'[Len(list) + 1], r)
      <4>1. /\ Now'[Len(list) + 1].id = r.id
            /\ Now'[Len(list) + 1].scheduled = r.scheduled
            /\ Now'[Len(list) + 1].restart_required = r.restart_required
        <5> HIDE DEF sch, req, st
        <5> QED BY <3>3, <3>4, Zenon DEF Says
      <4> QED BY <4>1, <3>5, <3>7 DEF SameRecord
    <3> QED BY <3>1, <3>6, <1>2 DEF SameRecord
  <2>7. \A i \in 1 .. Len(list') : SameRecord(Now'[i], last[i])
    <3>1. 1 .. Len(list') = (1 .. Len(list)) \cup {Len(list) + 1}
      BY <1>6
    <3> QED BY <2>1, <2>5, <2>6, <3>1 DEF SameRecord
  <2>8. ASSUME NEW i \in 1 .. Len(unread') PROVE SameRecord(unread'[i], last[Len(list') + i])
    <3>1. i + 1 \in 1 .. Len(unread) /\ unread'[i] = unread[i + 1]
          /\ Len(list') + i = Len(list) + (i + 1)
      BY <1>2, <1>4, <1>6
    <3> QED BY <2>1, <3>1
  <2> QED BY <2>1, <2>7, <2>8, <1>4, <1>6, <1>2
<1>16. WhileLoading'
  <2>1. /\ IdsOf(unread') \cap ToSet(list') = {}
        /\ want' = ToSet(list') \cup IdsOf(unread')
    BY <1>1, <1>2, <1>3, <1>6, <1>13
  <2> QED BY <1>3, <1>10, <1>12, <1>14, <1>15, <2>1 DEF WhileLoading
<1> QED BY <1>1, <1>3, <1>10, <1>11, <1>12, <1>16 DEF ListInv, PathsApart, WhileRunning, WhileDown

LEMMA LoadDoneKeeps ==
  ASSUME ListInv, Session!LoadDone
  PROVE  ListInv'
<1>1. /\ phase = "loading" /\ phase' = "running" /\ unread = <<>> /\ settled' = FALSE
      /\ UNCHANGED <<list, status_of, save_path, scheduled, restart_required, disk_list, unread,
                     used, want, ended, last>>
  BY DEF Session!LoadDone
<1>2. /\ Session!TypeOK /\ list \in Seq(Ids)
      /\ Names(disk_list, list) \/ (list = <<>> /\ disk_list = unread)
      /\ want = ToSet(list) \cup IdsOf(unread)
  BY <1>1 DEF ListInv, WhileLoading, Session!TypeOK
<1>3. Session!TypeOK'
  BY <1>1, <1>2 DEF Session!TypeOK
<1>4. ToSet(list) = want
  BY <1>1, <1>2 DEF IdsOf
<1>5. Names(disk_list, list)
  BY <1>1, <1>2 DEF Names
<1> QED BY <1>1, <1>3, <1>4, <1>5 DEF ListInv, PathsApart, WhileRunning, WhileDown, WhileLoading

LEMMA CloseKeeps ==
  ASSUME ListInv, Session!CloseEvent
  PROVE  ListInv'
<1>1. /\ phase = "running" /\ phase' = "closing"
      /\ UNCHANGED <<list, status_of, save_path, scheduled, restart_required, unread, used, want,
                     ended, last>>
      /\ Session!Save
  BY DEF Session!CloseEvent
<1>2. /\ Session!TypeOK /\ list \in Seq(Ids) /\ want \subseteq used /\ ToSet(list) = want
  BY <1>1, SetOf DEF ListInv, WhileRunning, Session!TypeOK
<1>3. disk_list' \in Seq(Session!Record) /\ settled' = TRUE
  BY <1>1, <1>2, RecordsFacts DEF Session!Save, Session!TypeOK
<1>4. Session!TypeOK'
  BY <1>1, <1>2, <1>3 DEF Session!TypeOK
<1> QED BY <1>1, <1>2, <1>4, SavedStep

LEMMA ListKept ==
  ASSUME ListInv, [Session!Next]_listVars
  PROVE  ListInv'
<1>1. CASE UNCHANGED listVars
  <2>1. Now' = Now
    BY <1>1 DEF Now, listVars
  <2> QED BY <1>1, <2>1 DEF ListInv, PathsApart, WhileRunning, WhileDown, WhileLoading, listVars,
                            Session!TypeOK
<1>2. CASE Session!KilledLoading
  BY <1>2 DEF Session!KilledLoading
<1> QED BY <1>1, <1>2, CommandsKeep, EnginesKeep, DownKeeps, StartUpKeeps, LoadRecordKeeps,
           LoadDoneKeeps, CloseKeeps DEF Session!Next

LEMMA ListStarts ==
  ASSUME Session!Init
  PROVE  ListInv
<1>1. /\ phase = "running" /\ list = <<>> /\ disk_list = <<>> /\ unread = <<>> /\ last = <<>>
      /\ status_of = [d \in Ids |-> "PENDING"] /\ save_path \in [Ids -> Paths] /\ PathsApart
      /\ scheduled = {} /\ restart_required = {}
      /\ used = {} /\ want = {} /\ ended = {} /\ settled = TRUE
  BY DEF Session!Init, PathsApart
<1>2. Session!IsInjective(list)
  BY <1>1 DEF Session!IsInjective
<1>3. Session!TypeOK
  BY <1>1, <1>2 DEF Session!TypeOK, Session!Status
<1>4. Now = <<>> /\ ToSet(list) = {}
  BY <1>1 DEF Now, Session!Records, ToSet
<1> QED BY <1>1, <1>3, <1>4 DEF ListInv, Settled, Names, Agree, WhileRunning, WhileDown, WhileLoading

LEMMA ListSays ==
  ASSUME ListInv
  PROVE  Session!TypeOK /\ Session!RemovedStaysRemoved /\ Session!AllListed
<1>1. phase \in { "running", "closing", "down", "loading" }
  BY DEF ListInv, Session!TypeOK
<1>2. ToSet(list) \subseteq want
  BY <1>1 DEF ListInv, WhileRunning, WhileDown, WhileLoading, ToSet
<1> QED BY <1>2, SameOperators DEF ListInv, WhileRunning, Session!RemovedStaysRemoved, Session!AllListed

(* A load that is done has brought back the list the last run had.          *)
LEMMA LoadedAsLeft ==
  ASSUME ListInv, Session!LoadDone, settled
  PROVE  Session!Records(list, status_of, scheduled, restart_required)
           = [i \in DOMAIN last |->
                [last[i] EXCEPT !.status = IF @ = "VERIFYING" THEN "PENDING" ELSE @]]
<1>1. /\ phase = "loading" /\ unread = <<>>
  BY DEF Session!LoadDone
<1>2. /\ list \in Seq(Ids) /\ status_of \in [Ids -> Session!Status] /\ last \in Seq(Session!Record)
      /\ scheduled \in SUBSET Ids /\ restart_required \in SUBSET Ids
  BY DEF ListInv, Session!TypeOK
<1>3. /\ Len(last) = Len(list) + Len(unread)
      /\ \A i \in 1 .. Len(list) : SameRecord(Now[i], last[i])
      /\ \A d \in ToSet(list) : status_of[d] \in Session!RestoredAsIs \cup { "PENDING" }
  BY <1>1 DEF ListInv, WhileLoading
<1>4. /\ Now \in Seq(Session!Record) /\ Len(Now) = Len(list) /\ Len(list) \in Nat
      /\ Len(last) = Len(list)
  BY <1>1, <1>2, <1>3, RecordsFacts DEF Now
<1>5. ASSUME NEW i \in 1 .. Len(list)
      PROVE  Now[i] = [last[i] EXCEPT !.status = IF @ = "VERIFYING" THEN "PENDING" ELSE @]
  <2>1. Now[i] \in Session!Record /\ last[i] \in Session!Record
    BY <1>2, <1>4
  <2>2. SameRecord(Now[i], last[i])
    BY <1>3
  <2>3. Now[i].status = Session!Stored(status_of[list[i]])
    <3>1. Says(Now[i], list[i], status_of, scheduled, restart_required)
      BY <1>2, RecordsAt DEF Now
    <3> QED BY <3>1 DEF Says
  <2>4. status_of[list[i]] \in Session!RestoredAsIs \cup { "PENDING" }
    BY <1>2, <1>3, SetOf
  <2>5. Now[i].status # "VERIFYING"
    BY <2>3, <2>4 DEF Session!Stored, Session!RestoredAsIs, Session!Terminal
  <2>6. Now[i].status = IF last[i].status = "VERIFYING" THEN "PENDING" ELSE last[i].status
    BY <2>2, <2>5 DEF SameRecord, Restartable
  <2> QED BY <2>1, <2>2, <2>6 DEF SameRecord, Session!Record
<1> DEFINE was(i) == [last[i] EXCEPT !.status = IF @ = "VERIFYING" THEN "PENDING" ELSE @]
<1>6. \A i \in DOMAIN last : Now[i] = was(i)
  BY <1>2, <1>4, <1>5
<1> HIDE DEF was
<1>7. Now = [i \in DOMAIN last |-> was(i)]
  <2>1. Now = [i \in DOMAIN last |-> Now[i]]
    BY <1>2, <1>4
  <2> QED BY <1>6, <2>1
<1> QED BY <1>7 DEF Now, was

-----------------------------------------------------------------------------
(* The list, in the run that has the other subjects beside it.              *)

ListSteady == subject = "list" => ListInv

LEMMA RestartsListInvariant == RestartsSpec => []ListSteady
<1>1. RestartsInit => ListSteady
  BY ListStarts DEF RestartsInit, ListSteady
<1>2. ListSteady /\ [RestartsNext]_allVars => ListSteady'
  <2> SUFFICES ASSUME ListSteady, [RestartsNext]_allVars, subject' = "list" PROVE ListInv'
    BY DEF ListSteady
  <2>1. subject = "list" /\ [Session!Next]_listVars
    BY DEF RestartsNext, allVars, Transfer, List, Counting, About
  <2> QED BY <2>1, ListKept DEF ListSteady
<1> QED BY <1>1, <1>2, PTL DEF RestartsSpec

(* For any downloads: whatever commands, ends, closes and kills there are,  *)
(* the list never holds what was removed and holds everything else that was *)
(* added whenever ADP is running.                                           *)
THEOREM ListAlwaysRight == RestartsSpec => []ListRight
<1>1. ListSteady => ListRight
  BY ListSays DEF ListSteady, ListRight
<1> QED BY <1>1, RestartsListInvariant, PTL

(* For any downloads: what a start brings back is record by record what the *)
(* list amounted to when the process went down.                             *)
THEOREM RestartAlwaysKeepsList == RestartsSpec => RestartKeepsList
<1>1. ListSteady /\ [RestartsNext]_allVars =>
        [phase = "loading" /\ phase' = "running" /\ settled
           => Session!Records(list, status_of, scheduled, restart_required)
                = [i \in DOMAIN last |->
                     [last[i] EXCEPT !.status = IF @ = "VERIFYING" THEN "PENDING" ELSE @]]]_(Session!vars)
  <2> SUFFICES ASSUME ListSteady, [RestartsNext]_allVars,
                      phase = "loading", phase' = "running", settled
               PROVE  Session!Records(list, status_of, scheduled, restart_required)
                        = [i \in DOMAIN last |->
                             [last[i] EXCEPT !.status = IF @ = "VERIFYING" THEN "PENDING" ELSE @]]
    OBVIOUS
  <2>1. subject = "list" /\ Session!Next
    BY DEF RestartsNext, allVars, Transfer, List, Counting, About, listVars
  <2>2. Session!LoadDone
    BY <2>1 DEF Session!Next, Session!Command, Session!Engine, Session!AddDownload,
        Session!OnScheduleDue, Session!PauseDownload, Session!ResumeDownload, Session!StopDownload,
        Session!RetryDownload, Session!RemoveDownload, Session!Proceeds, Session!OnDownloadFinished,
        Session!OnDownloadError, Session!CloseEvent, Session!Down, Session!StartUp,
        Session!LoadRecord, Session!LoadDone, Session!KilledLoading, Session!Responsive
  <2> QED BY <2>1, <2>2, LoadedAsLeft DEF ListSteady
<1> QED BY <1>1, RestartsListInvariant, PTL DEF RestartsSpec, RestartKeepsList, Session!RestartKeepsList

-----------------------------------------------------------------------------
(* The statistics: what has arrived since the last samples is received and  *)
(* not counted yet.                                                         *)

Exact ==
  /\ running => /\ lifetime = seen /\ completed = finished
                /\ \A i \in listed \cap DOMAIN seen_last : size[i] = seen_last[i] + pending[i]
  /\ ~running => stats.bytes = seen /\ stats.completed = finished

CountInv(s) ==
  /\ Count(s)!TypeOK
  /\ received <= MaxReceived /\ \A i \in Count(s)!Items : pending[i] <= received
  /\ stats.bytes <= lifetime
  /\ running \/ Downs(s) = {}
  /\ \A i \in Downs(s) : kept[i] <= size[i]
  /\ lifetime + Count(s)!Counted <= received
  /\ ~Again(s) => Exact

(* The terms of the sum.                                                    *)
Ahead(i) == IF i \in DOMAIN seen_last /\ size[i] > seen_last[i] THEN size[i] - seen_last[i] ELSE 0

Aheads(s) == [i \in Count(s)!Items |-> Ahead(i)]

LEMMA SameSum ==
  ASSUME NEW s, NEW f, NEW S
  PROVE  Count(s)!SumFunctionOnSet(f, S) = SumFunctionOnSet(f, S)
BY DEF Count!SumFunctionOnSet, Count!FoldFunctionOnSet, Count!MapThenFoldSet,
       SumFunctionOnSet, FoldFunctionOnSet, MapThenFoldSet

LEMMA ItemsFinite ==
  ASSUME NEW s \in Counts
  PROVE  /\ IsFiniteSet(Count(s)!Items) /\ Count(s)!Items = Downs(s) \cup Torrs(s)
         /\ \A S \in SUBSET Count(s)!Items : IsFiniteSet(S)
         /\ Downs(s) \subseteq Count(s)!Items
<1>1. IsFiniteSet(Downs(s)) /\ IsFiniteSet(Torrs(s))
  <2>1. Downs(s) = Downloads \/ Downs(s) = {}
    BY DEF Downs
  <2>2. Torrs(s) = ClosedTorrents \/ Torrs(s) = Torrents
    BY DEF Torrs
  <2>3. IsFiniteSet({})
    BY FS_EmptySet
  <2> QED BY <2>1, <2>2, <2>3, CountingAssumption DEF CountingAssumption
<1>2. Count(s)!Items = Downs(s) \cup Torrs(s)
  BY DEF Count!Items
<1>3. IsFiniteSet(Count(s)!Items)
  BY <1>1, <1>2, FS_Union
<1> QED BY <1>2, <1>3, FS_Subset

(* What one tick adds to the totals.                                        *)
LEMMA CountedIs ==
  ASSUME NEW s \in Counts, Count(s)!TypeOK
  PROVE  /\ Count(s)!Counted = SumFunctionOnSet(Aheads(s), listed)
         /\ Count(s)!Counted \in Nat
         /\ \A i \in listed : Ahead(i) \in Nat /\ Aheads(s)[i] = Ahead(i)
         /\ IsFiniteSet(listed) /\ listed \subseteq Count(s)!Items
<1>1. /\ listed \subseteq Count(s)!Items /\ IsFiniteSet(listed)
      /\ size \in [Count(s)!Items -> 0 .. Size]
      /\ \A i \in DOMAIN seen_last : seen_last[i] \in 0 .. Size
  BY ItemsFinite DEF Count!TypeOK
<1>2. \A i \in Count(s)!Items : Count(s)!Delta(i) = Ahead(i)
  BY <1>1, CountingAssumption DEF CountingAssumption, Count!Delta, Count!Prev, Ahead
<1>3. \A i \in listed : Ahead(i) \in Nat
  BY <1>1, CountingAssumption DEF CountingAssumption, Ahead
<1>4. [i \in Count(s)!Items |-> Count(s)!Delta(i)] = Aheads(s)
  BY <1>2 DEF Aheads
<1>5. Count(s)!Counted = SumFunctionOnSet(Aheads(s), listed)
  BY <1>4, SameSum DEF Count!Counted
<1>6. \A i \in listed : Aheads(s)[i] = Ahead(i)
  BY <1>1 DEF Aheads
<1>7. SumFunctionOnSet(Aheads(s), listed) \in Nat
  BY <1>1, <1>3, <1>6, SumNat
<1> QED BY <1>1, <1>3, <1>5, <1>6, <1>7

(* The same after a step.                                                   *)
LEMMA CountedThen ==
  ASSUME NEW s \in Counts
  PROVE  Count(s)!TypeOK' =>
         /\ Count(s)!Counted' = SumFunctionOnSet(Aheads(s)', listed')
         /\ Count(s)!Counted' \in Nat
         /\ \A i \in listed' : Ahead(i)' \in Nat /\ Aheads(s)'[i] = Ahead(i)'
         /\ IsFiniteSet(listed') /\ listed' \subseteq Count(s)!Items
<1>1. Count(s)!TypeOK =>
         /\ Count(s)!Counted = SumFunctionOnSet(Aheads(s), listed)
         /\ Count(s)!Counted \in Nat
         /\ \A i \in listed : Ahead(i) \in Nat /\ Aheads(s)[i] = Ahead(i)
         /\ IsFiniteSet(listed) /\ listed \subseteq Count(s)!Items
  BY CountedIs
<1>2. (Count(s)!TypeOK =>
         /\ Count(s)!Counted = SumFunctionOnSet(Aheads(s), listed)
         /\ Count(s)!Counted \in Nat
         /\ \A i \in listed : Ahead(i) \in Nat /\ Aheads(s)[i] = Ahead(i)
         /\ IsFiniteSet(listed) /\ listed \subseteq Count(s)!Items)'
  BY <1>1, PTL
<1> QED BY <1>2

(* A step that adds nothing to the totals.                                  *)
LEMMA UncountedStep ==
  ASSUME NEW s \in Counts, Count(s)!TypeOK, Count(s)!TypeOK',
         listed' = listed, \A i \in listed : Ahead(i)' <= Ahead(i)
  PROVE  Count(s)!Counted' <= Count(s)!Counted
<1>1. /\ Count(s)!Counted = SumFunctionOnSet(Aheads(s), listed)
      /\ \A i \in listed : Ahead(i) \in Nat /\ Aheads(s)[i] = Ahead(i)
      /\ IsFiniteSet(listed)
  BY CountedIs
<1>2. /\ Count(s)!Counted' = SumFunctionOnSet(Aheads(s)', listed)
      /\ \A i \in listed : Ahead(i)' \in Nat /\ Aheads(s)'[i] = Ahead(i)'
  BY CountedThen
<1>3. \A i \in listed : Aheads(s)'[i] \in Int /\ Aheads(s)[i] \in Int /\ Aheads(s)'[i] <= Aheads(s)[i]
  BY <1>1, <1>2
<1>4. SumFunctionOnSet(Aheads(s)', listed) <= SumFunctionOnSet(Aheads(s), listed)
  BY <1>1, <1>3, SumAtMost
<1> QED BY <1>1, <1>2, <1>4

(* The types of what the steps are about.                                   *)
Typed(s) ==
  /\ Count(s)!TypeOK /\ running \in BOOLEAN /\ listed \subseteq Count(s)!Items
  /\ size \in [Count(s)!Items -> 0 .. Size] /\ kept \in [Count(s)!Items -> 0 .. Size]
  /\ DOMAIN seen_last \subseteq Count(s)!Items
  /\ \A j \in DOMAIN seen_last : seen_last[j] \in 0 .. Size
  /\ lifetime \in Nat /\ received \in Nat /\ received <= MaxReceived /\ stats.bytes \in Nat
  /\ pending \in [Count(s)!Items -> 0 .. MaxReceived]
  /\ Size \in Nat /\ MaxReceived \in Nat
  /\ Count(s)!Counted \in Nat /\ lifetime + Count(s)!Counted <= received

LEMMA CountTypes == ASSUME NEW s \in Counts, CountInv(s) PROVE Typed(s)
BY CountingAssumption, CountedIs DEF Typed, CountInv, Count!TypeOK, CountingAssumption

(* What may happen to what is counted.                                      *)
LEMMA Kinds ==
  ASSUME NEW s \in Counts
  PROVE  /\ Ends(s) = {} \/ Downs(s) = {}
         /\ ~Again(s) => Downs(s) = {} /\ "kill" \notin Ends(s)
<1>1. Ends("torrents") = { "close", "kill" } /\ Downs("torrents") = {} /\ Again("torrents")
  BY DEF Ends, Downs, Again
<1>2. /\ Ends("closed torrents") = { "close" } /\ Downs("closed torrents") = {}
  BY DEF Ends, Downs
<1>3. Ends("one run") = {} /\ Again("one run")
  BY DEF Ends, Again
<1>4. s = "torrents" \/ s = "closed torrents" \/ s = "one run"
  BY DEF Counts
<1> QED BY <1>1, <1>2, <1>3, <1>4

LEMMA AddItemKeeps ==
  ASSUME NEW s \in Counts, CountInv(s), NEW i \in Count(s)!Items, Count(s)!AddItem(i)
  PROVE  CountInv(s)'
<1> USE DEF Typed
<1>0. Typed(s)
  BY CountTypes
<1>1. /\ running /\ i \notin listed /\ (i \in DOMAIN seen_last => Again(s))
      /\ listed' = listed \cup {i}
      /\ size' = [size EXCEPT ![i] = 0] /\ kept' = [kept EXCEPT ![i] = 0]
      /\ UNCHANGED <<running, seen_last, session, lifetime, ticks, completed, stats, received,
                     finished, pending, seen>>
  BY DEF Count!AddItem, Count!aggregator
<1>2. Count(s)!TypeOK'
  <2>1. /\ size' \in [Count(s)!Items -> 0 .. Size] /\ kept' \in [Count(s)!Items -> 0 .. Size]
        /\ listed' \subseteq Count(s)!Items
    BY <1>0, <1>1
  <2> QED BY <1>0, <1>1, <2>1 DEF Count!TypeOK
<1>3. Count(s)!Counted' = Count(s)!Counted
  <2>1. /\ Count(s)!Counted = SumFunctionOnSet(Aheads(s), listed) /\ IsFiniteSet(listed)
        /\ \A j \in listed : Ahead(j) \in Nat /\ Aheads(s)[j] = Ahead(j)
    BY <1>0, CountedIs
  <2>2. /\ Count(s)!Counted' = SumFunctionOnSet(Aheads(s)', listed') /\ IsFiniteSet(listed')
        /\ \A j \in listed' : Ahead(j)' \in Nat /\ Aheads(s)'[j] = Ahead(j)'
    BY <1>2, CountedThen
  <2>3. Aheads(s)'[i] = 0 /\ i \in listed' /\ listed' \ {i} = listed
    <3>1. size'[i] = 0 /\ seen_last' = seen_last
      BY <1>0, <1>1
    <3>2. Ahead(i)' = 0
      BY <1>0, <3>1 DEF Ahead
    <3> QED BY <1>1, <2>2, <3>2
  <2>4. \A j \in listed : Aheads(s)'[j] = Aheads(s)[j]
    <3>1. \A j \in listed : Ahead(j)' = Ahead(j)
      BY <1>0, <1>1 DEF Ahead
    <3> QED BY <1>1, <2>1, <2>2, <3>1
  <2>5. SumFunctionOnSet(Aheads(s)', listed) = SumFunctionOnSet(Aheads(s), listed)
    BY <2>1, <2>4, SumEqual
  <2>6. SumFunctionOnSet(Aheads(s)', listed') = Aheads(s)'[i] + SumFunctionOnSet(Aheads(s)', listed' \ {i})
    <3>1. \A j \in listed' : Aheads(s)'[j] \in Int
      BY <2>2
    <3> QED BY <2>2, <2>3, <3>1, SumRemove
  <2>7. SumFunctionOnSet(Aheads(s), listed) \in Nat
    BY <1>0, <2>1
  <2>8. Count(s)!Counted' = Aheads(s)'[i] + SumFunctionOnSet(Aheads(s), listed)
    BY <2>2, <2>3, <2>5, <2>6
  <2> HIDE DEF Aheads
  <2> QED BY <2>1, <2>3, <2>7, <2>8
<1>4. ~Again(s) => Exact'
  BY <1>0, <1>1 DEF CountInv, Exact
<1>6. ASSUME NEW j \in Count(s)!Items, kept[j] <= size[j] PROVE kept'[j] <= size'[j]
  BY <1>0, <1>1, <1>6
<1>5. \A j \in Downs(s) : kept'[j] <= size'[j]
  BY <1>6, ItemsFinite DEF CountInv
<1> QED BY <1>1, <1>2, <1>3, <1>4, <1>5 DEF CountInv, Count!Items

LEMMA RemoveItemKeeps ==
  ASSUME NEW s \in Counts, CountInv(s), NEW i \in Count(s)!Items, Count(s)!RemoveItem(i)
  PROVE  CountInv(s)'
<1> USE DEF Typed
<1>0. Typed(s)
  BY CountTypes
<1>1. /\ running /\ i \in listed /\ listed' = listed \ {i}
      /\ pending' = [pending EXCEPT ![i] = 0]
      /\ UNCHANGED <<running, size, kept, seen_last, session, lifetime, ticks, completed, stats,
                     received, finished, seen>>
  BY DEF Count!RemoveItem, Count!aggregator
<1>2. Count(s)!TypeOK'
  BY <1>0, <1>1 DEF Count!TypeOK
<1>3. Count(s)!Counted' <= Count(s)!Counted
  <2>1. /\ Count(s)!Counted = SumFunctionOnSet(Aheads(s), listed) /\ IsFiniteSet(listed)
        /\ \A j \in listed : Ahead(j) \in Nat /\ Aheads(s)[j] = Ahead(j)
        /\ Count(s)!Counted \in Nat
    BY <1>0, CountedIs
  <2>2. Count(s)!Counted' = SumFunctionOnSet(Aheads(s)', listed') /\ Count(s)!Counted' \in Nat
    BY <1>2, CountedThen
  <2>3. Aheads(s)' = Aheads(s)
    BY <1>1 DEF Aheads, Ahead, Count!Items
  <2>4. SumFunctionOnSet(Aheads(s), listed) = Aheads(s)[i] + SumFunctionOnSet(Aheads(s), listed \ {i})
    <3>1. \A j \in listed : Aheads(s)[j] \in Int
      BY <2>1
    <3> QED BY <1>1, <2>1, <3>1, SumRemove
  <2>5. Aheads(s)[i] \in Nat
    BY <1>1, <2>1
  <2> QED BY <1>1, <2>1, <2>2, <2>3, <2>4, <2>5
<1>4. ~Again(s) => Exact'
  BY <1>0, <1>1 DEF CountInv, Exact
<1>5. Count(s)!Counted' \in Nat
  BY <1>2, CountedThen
<1>6. \A j \in Count(s)!Items : pending'[j] <= received
  <2>1. \A j \in Count(s)!Items : pending'[j] = IF j = i THEN 0 ELSE pending[j]
    BY <1>0, <1>1
  <2>2. \A j \in Count(s)!Items : pending[j] <= received
    BY DEF CountInv
  <2> QED BY <1>0, <2>1, <2>2
<1> QED BY <1>1, <1>2, <1>3, <1>4, <1>5, <1>0, <1>6 DEF CountInv

LEMMA ReceiveKeeps ==
  ASSUME NEW s \in Counts, CountInv(s), NEW i \in Count(s)!Items, Count(s)!Receive(i)
  PROVE  CountInv(s)'
<1> USE DEF Typed
<1>0. Typed(s)
  BY CountTypes
<1>1. /\ running /\ i \in listed /\ size[i] < Size /\ received < MaxReceived
      /\ size' = [size EXCEPT ![i] = @ + 1] /\ received' = received + 1
      /\ pending' = [pending EXCEPT ![i] = @ + 1]
      /\ UNCHANGED <<running, listed, kept, seen_last, session, lifetime, ticks, completed, stats,
                     finished, seen>>
  BY DEF Count!Receive, Count!aggregator
<1>2. \A j \in Count(s)!Items : pending[j] <= received
  BY DEF CountInv
<1>3. Count(s)!TypeOK'
  <2>1. pending[i] <= received
    BY <1>2
  <2>2. pending[i] + 1 \in 0 .. MaxReceived /\ size[i] + 1 \in 0 .. Size
    BY <1>0, <1>1, <2>1
  <2>3. size' \in [Count(s)!Items -> 0 .. Size] /\ pending' \in [Count(s)!Items -> 0 .. MaxReceived]
    BY <1>0, <1>1, <2>2
  <2> QED BY <1>0, <1>1, <2>3 DEF Count!TypeOK
<1>4. Count(s)!Counted' <= Count(s)!Counted + 1 /\ Count(s)!Counted' \in Nat
  <2>1. /\ Count(s)!Counted = SumFunctionOnSet(Aheads(s), listed) /\ IsFiniteSet(listed)
        /\ \A j \in listed : Ahead(j) \in Nat /\ Aheads(s)[j] = Ahead(j)
    BY <1>0, CountedIs
  <2>2. /\ Count(s)!Counted' = SumFunctionOnSet(Aheads(s)', listed) /\ Count(s)!Counted' \in Nat
        /\ \A j \in listed : Ahead(j)' \in Nat /\ Aheads(s)'[j] = Ahead(j)'
    BY <1>1, <1>3, CountedThen
  <2>3. Ahead(i)' <= Ahead(i) + 1
    <3>1. size'[i] = size[i] + 1 /\ seen_last' = seen_last /\ size[i] \in Nat
      BY <1>0, <1>1
    <3>2. i \in DOMAIN seen_last => seen_last[i] \in Nat
      BY <1>0
    <3> QED BY <3>1, <3>2 DEF Ahead
  <2>4. \A j \in listed \ {i} : Aheads(s)[j] = Aheads(s)'[j]
    <3>1. \A j \in listed \ {i} : Ahead(j)' = Ahead(j)
      BY <1>0, <1>1 DEF Ahead
    <3> QED BY <2>1, <2>2, <3>1
  <2>5. \A j \in listed : Aheads(s)[j] \in Int /\ Aheads(s)'[j] \in Int
    BY <2>1, <2>2
  <2>6. SumFunctionOnSet(Aheads(s)', listed) = SumFunctionOnSet(Aheads(s), listed) - Aheads(s)[i] + Aheads(s)'[i]
    BY <1>1, <2>1, <2>4, <2>5, SumChanged
  <2>7. Aheads(s)[i] \in Nat /\ Aheads(s)'[i] \in Nat /\ Aheads(s)'[i] <= Aheads(s)[i] + 1
    BY <1>1, <2>1, <2>2, <2>3
  <2> HIDE DEF Aheads
  <2> QED BY <1>0, <2>1, <2>2, <2>6, <2>7
<1>5. ~Again(s) => Exact'
  BY <1>0, <1>1 DEF CountInv, Exact
<1>6. \A j \in Count(s)!Items : pending'[j] <= received'
  <2>1. \A j \in Count(s)!Items : pending'[j] = IF j = i THEN pending[j] + 1 ELSE pending[j]
    BY <1>0, <1>1
  <2> QED BY <1>0, <1>1, <1>2, <2>1
<1>7. \A j \in Downs(s) : kept'[j] <= size'[j]
  <2>1. ASSUME NEW j \in Count(s)!Items, kept[j] <= size[j] PROVE kept'[j] <= size'[j]
    BY <1>0, <1>1, <2>1
  <2> QED BY <2>1, ItemsFinite DEF CountInv
<1> QED BY <1>0, <1>1, <1>3, <1>4, <1>5, <1>6, <1>7 DEF CountInv

LEMMA KeepKeeps ==
  ASSUME NEW s \in Counts, CountInv(s), NEW i \in Count(s)!Items,
         \/ Count(s)!Keep(i) \/ Count(s)!StartOver(i) \/ Count(s)!Continue(i) \/ Count(s)!Complete(i)
  PROVE  CountInv(s)'
<1> USE DEF Typed
<1>0. Typed(s)
  BY CountTypes
<1>1. /\ running /\ i \in listed
      /\ UNCHANGED <<running, listed, seen_last, session, lifetime, ticks, stats, received,
                     pending, seen>>
  BY DEF Count!Keep, Count!StartOver, Count!Continue, Count!Complete, Count!aggregator
<1>2. \/ Count(s)!Keep(i) /\ size' = size /\ kept' = [kept EXCEPT ![i] = size[i]]
      \/ Again(s) /\ size' = [size EXCEPT ![i] = 0] /\ kept' = [kept EXCEPT ![i] = 0]
      \/ i \in Downs(s) /\ size' = [size EXCEPT ![i] = kept[i]] /\ kept' = kept
      \/ size' = size /\ kept' = kept
  BY DEF Count!Keep, Count!StartOver, Count!Continue, Count!Complete
<1>3. \/ completed' = completed /\ finished' = finished
      \/ completed' = completed + 1 /\ finished' = finished + 1
  BY DEF Count!Keep, Count!StartOver, Count!Continue, Count!Complete, Count!aggregator
<1>4. /\ size' \in [Count(s)!Items -> 0 .. Size] /\ kept' \in [Count(s)!Items -> 0 .. Size]
  BY <1>0, <1>2
<1>5. Count(s)!TypeOK'
  BY <1>0, <1>1, <1>3, <1>4 DEF Count!TypeOK
<1>6. \A j \in Count(s)!Items : size'[j] <= size[j]
  <2>1. i \in Downs(s) => kept[i] <= size[i]
    BY DEF CountInv
  <2> QED BY <1>0, <1>2, <2>1
<1>7. Count(s)!Counted' <= Count(s)!Counted /\ Count(s)!Counted' \in Nat
  <2>1. \A j \in listed : Ahead(j)' <= Ahead(j)
    BY <1>0, <1>1, <1>4, <1>6 DEF Ahead
  <2> QED BY <1>0, <1>1, <1>5, <2>1, UncountedStep, CountedThen
<1>8. ~Again(s) => Exact'
  <2>1. ~Again(s) => size' = size
    BY <1>2, Kinds
  <2> QED BY <1>0, <1>1, <1>3, <2>1 DEF CountInv, Exact
<1>9. \A j \in Downs(s) : kept'[j] <= size'[j]
  <2>1. ASSUME NEW j \in Count(s)!Items, kept[j] <= size[j] PROVE kept'[j] <= size'[j]
    BY <1>0, <1>2, <2>1
  <2> QED BY <2>1, ItemsFinite DEF CountInv
<1> QED BY <1>0, <1>1, <1>5, <1>7, <1>8, <1>9 DEF CountInv

LEMMA TickKeeps ==
  ASSUME NEW s \in Counts, CountInv(s), Count(s)!Tick
  PROVE  CountInv(s)'
<1> USE DEF Typed
<1>0. Typed(s)
  BY CountTypes
<1>1. /\ running /\ session' = session + Count(s)!Counted /\ lifetime' = lifetime + Count(s)!Counted
      /\ seen_last' = Count(s)!Samples /\ ticks' = Count(s)!NextTick
      /\ \/ stats' = [bytes |-> lifetime', completed |-> completed]
         \/ stats' = stats
      /\ pending' = [i \in Count(s)!Items |-> 0]
      /\ seen' = seen + SumFunctionOnSet([i \in Count(s)!Items |-> Count(s)!Watched(i)], listed)
      /\ UNCHANGED <<running, listed, size, kept, completed, received, finished>>
  BY SameSum DEF Count!Tick
<1>2. /\ DOMAIN seen_last' = DOMAIN seen_last \cup listed
      /\ \A i \in DOMAIN seen_last \cup listed :
           seen_last'[i] = IF i \in listed THEN size[i] ELSE seen_last[i]
  BY <1>1 DEF Count!Samples
<1>3. /\ Count(s)!Counted = SumFunctionOnSet(Aheads(s), listed) /\ IsFiniteSet(listed)
      /\ \A j \in listed : Ahead(j) \in Nat /\ Aheads(s)[j] = Ahead(j)
  BY <1>0, CountedIs
<1>4. ~Again(s) => seen' = seen + Count(s)!Counted
  <2> SUFFICES ASSUME ~Again(s)
               PROVE  SumFunctionOnSet([i \in Count(s)!Items |-> Count(s)!Watched(i)], listed)
                        = SumFunctionOnSet(Aheads(s), listed)
    BY <1>1, <1>3
  <2>1. \A i \in listed \cap DOMAIN seen_last : size[i] = seen_last[i] + pending[i]
    BY <1>1 DEF CountInv, Exact
  <2>2. \A i \in listed : Count(s)!Watched(i) = Ahead(i)
    BY <1>0, <2>1 DEF Count!Watched, Ahead
  <2>3. \A i \in listed : [j \in Count(s)!Items |-> Count(s)!Watched(j)][i] = Aheads(s)[i]
    BY <1>0, <1>3, <2>2
  <2> QED BY <1>3, <2>3, SumEqual
<1>5. Count(s)!TypeOK'
  <2>1. ticks' \in 0 .. SaveEvery - 1
    BY <1>0, <1>1, CountingAssumption DEF Count!NextTick, Count!TypeOK, CountingAssumption
  <2>2. stats' \in [bytes : Nat, completed : Nat]
    BY <1>0, <1>1 DEF Count!TypeOK
  <2>3. seen' \in Nat
    <3>1. \A i \in listed : [j \in Count(s)!Items |-> Count(s)!Watched(j)][i] \in Nat
      BY <1>0 DEF Count!Watched
    <3>2. SumFunctionOnSet([i \in Count(s)!Items |-> Count(s)!Watched(i)], listed) \in Nat
      BY <1>3, <3>1, SumNat
    <3> QED BY <1>0, <1>1, <3>2 DEF Count!TypeOK
  <2>4. /\ DOMAIN seen_last' \subseteq Count(s)!Items
        /\ \A j \in DOMAIN seen_last' : seen_last'[j] \in 0 .. Size
    BY <1>0, <1>2
  <2>5. pending' \in [Count(s)!Items -> 0 .. MaxReceived]
    BY <1>0, <1>1
  <2>6. session' \in Nat /\ lifetime' \in Nat
    BY <1>0, <1>1 DEF Count!TypeOK
  <2> QED BY <1>0, <1>1, <2>1, <2>2, <2>3, <2>4, <2>5, <2>6 DEF Count!TypeOK
<1>6. Count(s)!Counted' = 0
  <2>1. /\ Count(s)!Counted' = SumFunctionOnSet(Aheads(s)', listed)
        /\ \A j \in listed : Aheads(s)'[j] = Ahead(j)'
    BY <1>1, <1>5, CountedThen
  <2>2. \A j \in listed : Ahead(j)' = 0
    BY <1>0, <1>1, <1>2 DEF Ahead
  <2> QED BY <1>3, <2>1, <2>2, SumZero
<1>7. ~Again(s) => Exact'
  BY <1>0, <1>1, <1>2, <1>4 DEF CountInv, Exact
<1>8. stats'.bytes <= lifetime'
  BY <1>0, <1>1 DEF CountInv
<1>9. \A j \in Count(s)!Items : pending'[j] <= received'
  BY <1>0, <1>1
<1> QED BY <1>0, <1>1, <1>5, <1>6, <1>7, <1>8, <1>9 DEF CountInv

LEMMA EndKeeps ==
  ASSUME NEW s \in Counts, CountInv(s), Count(s)!Close \/ Count(s)!Kill
  PROVE  CountInv(s)'
<1> USE DEF Typed
<1>0. Typed(s)
  BY CountTypes
<1>1. /\ running /\ running' = FALSE /\ Downs(s) = {}
      /\ pending' = [i \in Count(s)!Items |-> 0]
      /\ UNCHANGED <<listed, size, seen_last, session, lifetime, ticks, completed, received,
                     finished, seen>>
  BY Kinds DEF Count!Close, Count!Kill, Count!aggregator
<1>2. \/ stats' = [bytes |-> lifetime, completed |-> completed]
      \/ stats' = stats /\ Again(s)
  BY Kinds DEF Count!Close, Count!Kill
<1>3. kept' \in [Count(s)!Items -> 0 .. Size]
  BY <1>0 DEF Count!Close, Count!Kill
<1>4. Count(s)!TypeOK'
  <2>1. stats' \in [bytes : Nat, completed : Nat]
    BY <1>0, <1>2 DEF Count!TypeOK
  <2>2. pending' \in [Count(s)!Items -> 0 .. MaxReceived]
    BY <1>0, <1>1
  <2> QED BY <1>0, <1>1, <1>3, <2>1, <2>2 DEF Count!TypeOK
<1>5. Count(s)!Counted' <= Count(s)!Counted /\ Count(s)!Counted' \in Nat
  <2>1. \A j \in listed : Ahead(j)' <= Ahead(j)
    BY <1>0, <1>1 DEF Ahead
  <2> QED BY <1>0, <1>1, <1>4, <2>1, UncountedStep, CountedThen
<1>6. ~Again(s) => Exact'
  BY <1>1, <1>2 DEF CountInv, Exact
<1>7. stats'.bytes <= lifetime'
  BY <1>0, <1>1, <1>2 DEF CountInv
<1>8. \A j \in Count(s)!Items : pending'[j] <= received'
  BY <1>0, <1>1
<1> QED BY <1>0, <1>1, <1>4, <1>5, <1>6, <1>7, <1>8 DEF CountInv

LEMMA LoadKeeps ==
  ASSUME NEW s \in Counts, CountInv(s), Count(s)!Load
  PROVE  CountInv(s)'
<1> USE DEF Typed
<1>0. Typed(s)
  BY CountTypes
<1>1. /\ ~running /\ running' = TRUE /\ Downs(s) = {}
      /\ seen_last' = Count(s)!NoSamples /\ session' = 0 /\ ticks' = 0
      /\ lifetime' = stats.bytes /\ completed' = stats.completed
      /\ size' = [i \in Count(s)!Items |-> IF i \in Torrs(s) THEN kept[i] ELSE 0]
      /\ UNCHANGED <<listed, kept, stats, received, finished, pending, seen>>
  BY DEF Count!Load, CountInv
<1>2. DOMAIN seen_last' = {}
  BY <1>1 DEF Count!NoSamples
<1>3. Count(s)!TypeOK'
  <2>1. size' \in [Count(s)!Items -> 0 .. Size]
    BY <1>0, <1>1
  <2>2. 0 \in 0 .. SaveEvery - 1
    BY CountingAssumption DEF CountingAssumption
  <2>3. stats.completed \in Nat
    BY <1>0 DEF Count!TypeOK
  <2> QED BY <1>0, <1>1, <1>2, <2>1, <2>2, <2>3 DEF Count!TypeOK
<1>4. Count(s)!Counted' = 0
  <2>1. /\ Count(s)!Counted' = SumFunctionOnSet(Aheads(s)', listed) /\ IsFiniteSet(listed)
        /\ \A j \in listed : Aheads(s)'[j] = Ahead(j)'
    BY <1>1, <1>3, CountedThen
  <2>2. \A j \in listed : Ahead(j)' = 0
    BY <1>2 DEF Ahead
  <2> QED BY <2>1, <2>2, SumZero
<1>5. ~Again(s) => Exact'
  BY <1>1, <1>2 DEF CountInv, Exact
<1>6. stats.bytes <= received
  BY <1>0 DEF CountInv
<1> QED BY <1>0, <1>1, <1>3, <1>4, <1>5, <1>6 DEF CountInv

LEMMA CountKept ==
  ASSUME NEW s \in Counts, CountInv(s), [Count(s)!Next]_statsVars
  PROVE  CountInv(s)'
<1>1. CASE UNCHANGED statsVars
  <2>1. UNCHANGED <<running, listed, size, kept, seen_last, session, lifetime, stats, ticks,
                    completed, received, finished, pending, seen>>
    BY <1>1 DEF statsVars
  <2>2. Count(s)!TypeOK'
    BY <2>1 DEF CountInv, Count!TypeOK
  <2>3. Aheads(s)' = Aheads(s)
    BY <2>1 DEF Aheads, Ahead
  <2>4. Count(s)!Counted' = Count(s)!Counted
    <3>1. /\ Count(s)!Counted = SumFunctionOnSet(Aheads(s), listed)
          /\ Count(s)!Counted' = SumFunctionOnSet(Aheads(s)', listed')
      BY <2>2, CountedIs, CountedThen DEF CountInv
    <3> QED BY <2>1, <2>3, <3>1
  <2> QED BY <2>1, <2>2, <2>4 DEF CountInv, Exact
<1>2. CASE Count(s)!Next
  BY <1>2, AddItemKeeps, RemoveItemKeeps, ReceiveKeeps, KeepKeeps, TickKeeps, EndKeeps, LoadKeeps
  DEF Count!Next
<1> QED BY <1>1, <1>2

LEMMA CountStarts ==
  ASSUME NEW s \in Counts, Count(s)!Init
  PROVE  CountInv(s)
<1>1. /\ running = TRUE /\ listed = {}
      /\ size = [i \in Count(s)!Items |-> 0] /\ kept = [i \in Count(s)!Items |-> 0]
      /\ seen_last = Count(s)!NoSamples /\ session = 0 /\ lifetime = 0 /\ completed = 0 /\ ticks = 0
      /\ stats = [bytes |-> 0, completed |-> 0]
      /\ received = 0 /\ finished = 0
      /\ pending = [i \in Count(s)!Items |-> 0] /\ seen = 0
  BY DEF Count!Init
<1>2. DOMAIN seen_last = {}
  BY <1>1 DEF Count!NoSamples
<1>3. Size \in Nat /\ MaxReceived \in Nat /\ SaveEvery \in Nat /\ SaveEvery # 0
  BY CountingAssumption DEF CountingAssumption
<1>4. Count(s)!TypeOK
  <2>1. stats \in [bytes : Nat, completed : Nat] /\ 0 \in 0 .. SaveEvery - 1
    BY <1>1, <1>3
  <2>2. /\ size \in [Count(s)!Items -> 0 .. Size] /\ kept \in [Count(s)!Items -> 0 .. Size]
        /\ pending \in [Count(s)!Items -> 0 .. MaxReceived]
    BY <1>1, <1>3
  <2> QED BY <1>1, <1>2, <2>1, <2>2 DEF Count!TypeOK
<1>5. Count(s)!Counted = 0
  <2>1. Count(s)!Counted = SumFunctionOnSet(Aheads(s), {})
    BY <1>1, <1>4, CountedIs
  <2> QED BY <2>1, SumEmpty
<1>6. stats.bytes <= lifetime /\ stats.bytes = 0
  BY <1>1
<1>7. \A j \in Count(s)!Items : pending[j] <= received
  BY <1>1
<1>8. \A j \in Downs(s) : kept[j] <= size[j]
  BY <1>1, ItemsFinite
<1> QED BY <1>1, <1>2, <1>3, <1>4, <1>5, <1>6, <1>7, <1>8 DEF CountInv, Exact

CountSteady == \A s \in Counts : subject = s => CountInv(s)

LEMMA RestartsCountInvariant == RestartsSpec => []CountSteady
<1>1. RestartsInit => CountSteady
  <2> SUFFICES ASSUME RestartsInit, NEW s \in Counts, subject = s PROVE CountInv(s)
    BY DEF CountSteady
  <2>1. Count(s)!Init
    BY DEF RestartsInit
  <2> QED BY <2>1, CountStarts
<1>2. CountSteady /\ [RestartsNext]_allVars => CountSteady'
  <2> SUFFICES ASSUME CountSteady, [RestartsNext]_allVars, NEW s \in Counts, subject' = s
               PROVE  CountInv(s)'
    BY DEF CountSteady
  <2>1. subject = s /\ [Count(s)!Next]_statsVars
    BY DEF RestartsNext, allVars, Transfer, List, Counting, About
  <2> QED BY <2>1, CountKept DEF CountSteady
<1> QED BY <1>1, <1>2, PTL DEF RestartsSpec

(* For any finite sets of downloads and torrents: the totals never count a  *)
(* byte twice, and where the application is closed properly and nothing     *)
(* starts over, they are exactly what arrived between the samples.          *)
THEOREM TotalsAlwaysRight == RestartsSpec => []TotalsRight
<1>1. CountSteady => TotalsRight
  <2> SUFFICES ASSUME CountSteady, NEW s \in Counts, subject = s
               PROVE  /\ Count(s)!TypeOK /\ Count(s)!NeverOvercounts
                      /\ ~Again(s) => Count(s)!CountsWhatItSaw
    BY DEF TotalsRight
  <2>1. CountInv(s)
    BY DEF CountSteady
  <2>2. Count(s)!NeverOvercounts
    BY <2>1, CountTypes DEF Typed, Count!NeverOvercounts
  <2> QED BY <2>1, <2>2 DEF CountInv, Exact, Count!CountsWhatItSaw
<1> QED BY <1>1, RestartsCountInvariant, PTL
-----------------------------------------------------------------------------
(* The file, the sidecar and the record of one download.                    *)

Ended == { "COMPLETED", "ERROR", "STOPPED" }

(* TypeOK, with at most one content put as it is used.                      *)
FileTyped(s) ==
  /\ up \in BOOLEAN /\ creating \in BOOLEAN
  /\ status \in File(s)!Status /\ progress \in File(s)!Progress
  /\ owned \in BOOLEAN /\ allow \in BOOLEAN /\ restart \in BOOLEAN
  /\ initialized \in BOOLEAN
  /\ etag \in 1 .. VersionsOf(s) /\ version \in 1 .. VersionsOf(s)
  /\ held \in SUBSET File(s)!Held
  /\ cleanups \in 0 .. 2
  /\ file = {} \/ \E f \in File(s)!Content : file = {f}
  /\ sidecar = {} \/ \E r \in File(s)!Sidecar : sidecar = {r}
  /\ record \in File(s)!Record
  /\ refused \in BOOLEAN /\ promised \in File(s)!Progress

(* A run that has begun has its file.                                       *)
FileThere ==
  /\ creating => up /\ status = "STARTING" /\ file # {}
  /\ status \in { "DOWNLOADING", "VERIFYING" } \/ (status = "PAUSED" /\ initialized) => file # {}

(* What was promised is what the sidecar says, and no cleanup takes it.     *)
PromiseKept(s) ==
  /\ promised # File(s)!Zero =>
       file # {} /\ sidecar = {[etag |-> version, chunk_progress |-> promised]}
  /\ cleanups > 0 => up /\ promised = File(s)!Zero /\ status \in Ended

(* The record does not say COMPLETED of anything but the right file.        *)
CheckedRight(s) ==
  /\ up /\ record.status = "COMPLETED" => status = "COMPLETED"
  /\ (up /\ status = "COMPLETED") \/ (~up /\ record.status = "COMPLETED") => File(s)!Right

(* Where there is a file it is known to be ADP's, and unless the download   *)
(* has ended there is a sidecar or it may be overwritten.                   *)
OwnFile ==
  /\ ~refused
  /\ file # {} /\ up => owned
  /\ file # {} /\ ~up => record.owned
  /\ file # {} /\ ~creating /\ sidecar = {} /\ up => allow \/ status \in Ended
  /\ file # {} /\ sidecar = {} /\ ~up => record.allow \/ record.status \in Ended

FileInv(s) ==
  /\ FileTyped(s) /\ FileThere
  /\ Checked(s) => CheckedRight(s)
  /\ ~Checked(s) => PromiseKept(s)
  /\ ~Killable(s) => OwnFile

LEMMA FileKinds ==
  ASSUME NEW s \in Files
  PROVE  /\ VersionsOf(s) \in Nat \ {0} /\ ChunksOf(s) \in Nat \ {0} /\ ChunkSize \in Nat \ {0}
         /\ Checked(s) \/ ~Killable(s) => VersionsOf(s) = 1
         /\ ~Killable(s) => ~Checked(s)
<1>1. VersionsOf("checksum") = 1 /\ ChunksOf("checksum") = NumChunks /\ Killable("checksum")
  BY DEF VersionsOf, ChunksOf, Killable
<1>2. VersionsOf("killed") = Versions /\ ChunksOf("killed") = KilledChunks /\ Killable("killed") /\ ~Checked("killed")
  BY DEF VersionsOf, ChunksOf, Killable, Checked
<1>3. VersionsOf("quiet") = 1 /\ ChunksOf("quiet") = NumChunks /\ ~Checked("quiet")
  BY DEF VersionsOf, ChunksOf, Checked
<1>4. s = "checksum" \/ s = "killed" \/ s = "quiet"
  BY DEF Files
<1>5. NumChunks \in Nat \ {0} /\ KilledChunks \in Nat \ {0} /\ ChunkSize \in Nat \ {0} /\ Versions \in Nat \ {0}
  BY FileAssumption DEF FileAssumption
<1>6. 1 \in Nat \ {0}
  OBVIOUS
<1> QED BY <1>1, <1>2, <1>3, <1>4, <1>5, <1>6

LEMMA FileTypeOK ==
  ASSUME NEW s \in Files, FileTyped(s)
  PROVE  File(s)!TypeOK
<1>1. file \in SUBSET File(s)!Content /\ \A f, g \in file : f = g
  BY DEF FileTyped
<1>2. sidecar \in SUBSET File(s)!Sidecar /\ \A r, q \in sidecar : r = q
  BY DEF FileTyped
<1> QED BY <1>1, <1>2 DEF FileTyped, File!TypeOK

(* What the buffers add to the file.                                        *)
LEMMA FlushedIs ==
  ASSUME NEW s \in Files, FileTyped(s), NEW hs \in SUBSET held
  PROVE  /\ File(s)!Flushed(hs) = {} \/ \E f \in File(s)!Content : File(s)!Flushed(hs) = {f}
         /\ File(s)!Flushed(hs) = {} <=> file = {}
         /\ VersionsOf(s) = 1 /\ File(s)!Right => File(s)!Flushed(hs) = file
<1> DEFINE over(f) == [b \in File(s)!Blocks |-> IF \E h \in hs : h.block = b
                        THEN (CHOOSE h \in hs : h.block = b).version ELSE f[b]]
<1>1. File(s)!Flushed(hs) = { over(f) : f \in file }
  BY DEF File!Flushed
<1>2. ASSUME NEW b \in File(s)!Blocks, \E h \in hs : h.block = b
      PROVE  (CHOOSE h \in hs : h.block = b).version \in 1 .. VersionsOf(s)
  <2>1. (CHOOSE h \in hs : h.block = b) \in File(s)!Held
    BY <1>2 DEF FileTyped
  <2> QED BY <2>1 DEF File!Held
<1>3. ASSUME NEW f \in File(s)!Content PROVE over(f) \in File(s)!Content
  <2>1. VersionsOf(s) \in Nat
    BY FileKinds
  <2> QED BY <1>2, <2>1 DEF File!Content
<1>4. ASSUME VersionsOf(s) = 1
      PROVE  over([b \in File(s)!Blocks |-> VersionsOf(s)]) = [b \in File(s)!Blocks |-> VersionsOf(s)]
  BY <1>2, <1>4
<1> HIDE DEF over
<1>5. file = {} \/ \E f \in File(s)!Content : file = {f}
  BY DEF FileTyped
<1>6. VersionsOf(s) = 1 /\ File(s)!Right => File(s)!Flushed(hs) = file
  BY <1>1, <1>4 DEF File!Right
<1> QED BY <1>1, <1>3, <1>5, <1>6

LEMMA RecordSaved ==
  ASSUME NEW s \in Files, File(s)!SaveRecord, status' \in File(s)!Status,
         owned' \in BOOLEAN, allow' \in BOOLEAN, restart' \in BOOLEAN
  PROVE  /\ record' \in File(s)!Record
         /\ record'.status = File(s)!Stored(status')
         /\ record'.owned = owned' /\ record'.allow = allow'
BY DEF File!SaveRecord, File!Record, File!Stored, File!Status, File!Terminal

LEMMA ProgressSaved ==
  ASSUME NEW s \in Files, FileTyped(s), File(s)!SaveProgress
  PROVE  /\ sidecar' # {} /\ \E r \in File(s)!Sidecar : sidecar' = {r}
         /\ promised' \in File(s)!Progress
         /\ promised' # File(s)!Zero => sidecar' = {[etag |-> version, chunk_progress |-> promised']}
<1>1. File(s)!Zero \in File(s)!Progress
  BY FileKinds DEF File!Zero, File!Progress
<1>2. [etag |-> etag, chunk_progress |-> progress] \in File(s)!Sidecar
  BY DEF FileTyped, File!Sidecar
<1> QED BY <1>1, <1>2 DEF File!SaveProgress, FileTyped

LEMMA HeldRetired ==
  ASSUME NEW s \in Files, FileTyped(s), File(s)!Retire
  PROVE  held' \in SUBSET File(s)!Held
<1>1. ASSUME NEW h \in File(s)!Held PROVE [h EXCEPT !.retired = TRUE] \in File(s)!Held
  BY DEF File!Held
<1> QED BY <1>1 DEF File!Retire, FileTyped

LEMMA FileTypesKept ==
  ASSUME NEW s \in Files, FileTyped(s), File(s)!Next
  PROVE  FileTyped(s)'
<1> USE DEF File!manager, File!policy, File!disk
<1>0. /\ VersionsOf(s) \in Nat \ {0} /\ ChunksOf(s) \in Nat \ {0} /\ ChunkSize \in Nat \ {0}
      /\ File(s)!Zero \in File(s)!Progress
      /\ \A v \in { "PENDING", "STARTING", "DOWNLOADING", "VERIFYING", "PAUSED", "COMPLETED", "ERROR",
                    "STOPPED" } : v \in File(s)!Status
      /\ \A r \in File(s)!Record : /\ r.status \in File(s)!Status /\ r.owned \in BOOLEAN
                                   /\ r.allow \in BOOLEAN /\ r.restart \in BOOLEAN
      /\ \A r \in File(s)!Sidecar : r.chunk_progress \in File(s)!Progress
      /\ File(s)!New \in File(s)!Record
      /\ 0 \in 0 .. 2 /\ {} \in SUBSET File(s)!Held
  BY FileKinds DEF File!Zero, File!Progress, File!Status, File!Terminal, File!Record, File!Sidecar, File!New
<1>1. CASE File(s)!Start
  BY <1>0, <1>1 DEF File!Start, FileTyped
<1>2. CASE File(s)!AdoptProgress
  BY <1>0, <1>2 DEF File!AdoptProgress, FileTyped
<1>3. CASE File(s)!CreateFile
  <2>1. File(s)!Empty \in File(s)!Content
    BY <1>0 DEF File!Empty, File!Content
  <2>2. file' = {File(s)!Empty}
    BY <1>3 DEF File!CreateFile
  <2> QED BY <1>0, <1>3, <2>1, <2>2 DEF File!CreateFile, FileTyped
<1>4. CASE File(s)!RemoteChange
  BY <1>0, <1>4 DEF File!RemoteChange, FileTyped
<1>5. CASE File(s)!CleanupRuns
  BY <1>0, <1>5 DEF File!CleanupRuns, FileTyped
<1>6. CASE File(s)!Kill
  <2>1. /\ up' = FALSE /\ creating' = FALSE /\ held' = {} /\ cleanups' = 0
        /\ UNCHANGED <<status, progress, owned, allow, restart, initialized, etag, version, file,
                       sidecar, record, refused, promised>>
    BY <1>6 DEF File!Kill
  <2>2. up' \in BOOLEAN /\ creating' \in BOOLEAN
    BY <2>1
  <2>3. held' \in SUBSET File(s)!Held /\ cleanups' \in 0 .. 2
    BY <1>0, <2>1
  <2> QED BY <2>1, <2>2, <2>3 DEF FileTyped
<1>7. CASE File(s)!RefuseFile
  <2>1. status' \in File(s)!Status /\ owned' \in BOOLEAN /\ allow' \in BOOLEAN /\ restart' \in BOOLEAN
    BY <1>0, <1>7 DEF File!RefuseFile, FileTyped
  <2>2. record' \in File(s)!Record
    BY <1>7, <2>1, RecordSaved DEF File!RefuseFile
  <2> QED BY <1>0, <1>7, <2>1, <2>2 DEF File!RefuseFile, File!Retire, FileTyped
<1>8. CASE File(s)!NetworkError
  <2>1. status' \in File(s)!Status /\ owned' \in BOOLEAN /\ allow' \in BOOLEAN /\ restart' \in BOOLEAN
    BY <1>0, <1>8 DEF File!NetworkError, FileTyped
  <2>2. record' \in File(s)!Record
    BY <1>8, <2>1, RecordSaved DEF File!NetworkError
  <2>9. held' \in SUBSET File(s)!Held
    BY <1>8, HeldRetired DEF File!NetworkError
  <2> QED BY <1>0, <1>8, <2>1, <2>2, <2>9 DEF File!NetworkError, FileTyped
<1>9. CASE File(s)!VerdictBad
  <2>1. status' \in File(s)!Status /\ owned' \in BOOLEAN /\ allow' \in BOOLEAN /\ restart' \in BOOLEAN
    BY <1>0, <1>9 DEF File!VerdictBad, FileTyped
  <2>2. record' \in File(s)!Record
    BY <1>9, <2>1, RecordSaved DEF File!VerdictBad
  <2> QED BY <1>0, <1>9, <2>1, <2>2 DEF File!VerdictBad, File!Retire, FileTyped
<1>10. CASE File(s)!Resume
  <2>1. status' \in File(s)!Status /\ owned' \in BOOLEAN /\ allow' \in BOOLEAN /\ restart' \in BOOLEAN
    BY <1>0, <1>10 DEF File!Resume, FileTyped
  <2>2. record' \in File(s)!Record
    BY <1>10, <2>1, RecordSaved DEF File!Resume
  <2> QED BY <1>0, <1>10, <2>1, <2>2 DEF File!Resume, File!Retire, FileTyped
<1>11. CASE File(s)!Stop
  <2>1. status' \in File(s)!Status /\ owned' \in BOOLEAN /\ allow' \in BOOLEAN /\ restart' \in BOOLEAN
    BY <1>0, <1>11 DEF File!Stop, FileTyped
  <2>2. record' \in File(s)!Record
    BY <1>11, <2>1, RecordSaved DEF File!Stop
  <2>9. held' \in SUBSET File(s)!Held
    BY <1>11, HeldRetired DEF File!Stop
  <2> QED BY <1>0, <1>11, <2>1, <2>2, <2>9 DEF File!Stop, FileTyped
<1>12. CASE File(s)!Retry
  <2>1. status' \in File(s)!Status /\ owned' \in BOOLEAN /\ allow' \in BOOLEAN /\ restart' \in BOOLEAN
    BY <1>0, <1>12 DEF File!Retry, FileTyped
  <2>2. record' \in File(s)!Record
    BY <1>12, <2>1, RecordSaved DEF File!Retry
  <2> QED BY <1>0, <1>12, <2>1, <2>2 DEF File!Retry, File!Retire, FileTyped
<1>13. CASE File(s)!WriteInitialProgress
  <2>1. promised' \in File(s)!Progress /\ \E r \in File(s)!Sidecar : sidecar' = {r}
    BY <1>13, ProgressSaved DEF File!WriteInitialProgress
  <2> QED BY <1>0, <1>13, <2>1 DEF File!WriteInitialProgress, FileTyped
<1>14. CASE File(s)!SaveTick
  <2>1. promised' \in File(s)!Progress /\ \E r \in File(s)!Sidecar : sidecar' = {r}
    BY <1>14, ProgressSaved DEF File!SaveTick
  <2> QED BY <1>0, <1>14, <2>1 DEF File!SaveTick, FileTyped
<1>15. CASE File(s)!Verify
  <2>1. promised' \in File(s)!Progress /\ \E r \in File(s)!Sidecar : sidecar' = {r}
    BY <1>15, ProgressSaved DEF File!Verify
  <2> QED BY <1>0, <1>15, <2>1 DEF File!Verify, FileTyped
<1>16. CASE File(s)!Pause
  <2>1. status' \in File(s)!Status /\ owned' \in BOOLEAN /\ allow' \in BOOLEAN /\ restart' \in BOOLEAN
    BY <1>0, <1>16 DEF File!Pause, FileTyped
  <2>2. record' \in File(s)!Record
    BY <1>16, <2>1, RecordSaved DEF File!Pause
  <2>3. promised' \in File(s)!Progress /\ \E r \in File(s)!Sidecar : sidecar' = {r}
    BY <1>16, ProgressSaved DEF File!Pause
  <2>9. held' \in SUBSET File(s)!Held
    BY <1>16, HeldRetired DEF File!Pause
  <2> QED BY <1>0, <1>16, <2>1, <2>2, <2>3, <2>9 DEF File!Pause, FileTyped
<1>17. CASE File(s)!VerdictGood \/ File(s)!FinishUnverified
  <2>1. status' \in File(s)!Status /\ owned' \in BOOLEAN /\ allow' \in BOOLEAN /\ restart' \in BOOLEAN
    BY <1>0, <1>17 DEF File!VerdictGood, File!FinishUnverified, File!Completed, FileTyped
  <2>2. record' \in File(s)!Record
    BY <1>17, <2>1, RecordSaved DEF File!VerdictGood, File!FinishUnverified, File!Completed
  <2>3. [etag |-> etag, chunk_progress |-> progress] \in File(s)!Sidecar
    BY DEF FileTyped, File!Sidecar
  <2>4. sidecar' = sidecar \/ sidecar' = {[etag |-> etag, chunk_progress |-> progress]}
    BY <1>17 DEF File!VerdictGood, File!FinishUnverified, File!Completed
  <2> QED BY <1>0, <1>17, <2>1, <2>2, <2>3, <2>4
          DEF File!VerdictGood, File!FinishUnverified, File!Completed, FileTyped
<1>18. ASSUME NEW c \in File(s)!Chunks, File(s)!WriteBlock(c) PROVE FileTyped(s)'
  <2>1. /\ progress[c] < ChunkSize /\ progress' = [progress EXCEPT ![c] = @ + 1]
        /\ file' = File(s)!Flushed(File(s)!LiveOf(c))
        /\ held' = (held \ File(s)!LiveOf(c))
               \cup {[block |-> <<c, progress[c] + 1>>, version |-> version, retired |-> FALSE]}
        /\ UNCHANGED <<up, creating, status, owned, allow, restart, initialized, etag, cleanups,
                       version, sidecar, record, refused, promised>>
    BY <1>18 DEF File!WriteBlock
  <2>2. progress \in [File(s)!Chunks -> 0 .. ChunkSize] /\ progress[c] + 1 \in 1 .. ChunkSize
    BY <1>0, <2>1 DEF FileTyped, File!Progress
  <2>3. progress' \in File(s)!Progress
    BY <1>0, <2>1, <2>2 DEF File!Progress
  <2>4. [block |-> <<c, progress[c] + 1>>, version |-> version, retired |-> FALSE] \in File(s)!Held
    BY <2>2 DEF File!Held, File!Blocks, FileTyped
  <2>5. File(s)!LiveOf(c) \in SUBSET held
    BY DEF File!LiveOf
  <2>6. file' = {} \/ \E f \in File(s)!Content : file' = {f}
    BY <2>1, <2>5, FlushedIs
  <2>7. held' \in SUBSET File(s)!Held
    BY <2>1, <2>4 DEF FileTyped
  <2> QED BY <2>1, <2>3, <2>6, <2>7 DEF FileTyped
<1>19. ASSUME NEW hs \in SUBSET held, file' = File(s)!Flushed(hs), held' \in SUBSET held,
              cleanups' = cleanups,
              UNCHANGED <<up, creating, status, progress, owned, allow, restart, initialized, etag,
                          version, sidecar, record, refused, promised>>
       PROVE  FileTyped(s)'
  <2>1. file' = {} \/ \E f \in File(s)!Content : file' = {f}
    BY <1>19, FlushedIs
  <2> QED BY <1>19, <2>1 DEF FileTyped
<1>20. ASSUME NEW c \in File(s)!Chunks, File(s)!WorkerDone(c) PROVE FileTyped(s)'
  <2>1. File(s)!LiveOf(c) \in SUBSET held
    BY DEF File!LiveOf
  <2> QED BY <1>19, <1>20, <2>1 DEF File!WorkerDone
<1>21. ASSUME NEW h \in held, File(s)!RetiredWorkerExits(h) PROVE FileTyped(s)'
  <2>1. {h} \in SUBSET held
    OBVIOUS
  <2> QED BY <1>19, <1>21, <2>1 DEF File!RetiredWorkerExits
<1>22. CASE File(s)!Close
  <2>1. PICK hs \in SUBSET held : file' = File(s)!Flushed(hs)
    BY <1>22 DEF File!Close
  <2>2. file' = {} \/ \E f \in File(s)!Content : file' = {f}
    BY <2>1, FlushedIs
  <2>3. status' \in File(s)!Status /\ owned' \in BOOLEAN /\ allow' \in BOOLEAN /\ restart' \in BOOLEAN
    BY <1>22 DEF File!Close, FileTyped
  <2>4. record' \in File(s)!Record
    BY <1>22, <2>3, RecordSaved DEF File!Close
  <2>5. /\ up' = FALSE /\ held' = {} /\ cleanups' = 0
        /\ UNCHANGED <<creating, progress, initialized, etag, version, sidecar, refused, promised>>
    BY <1>22 DEF File!Close
  <2>6. up' \in BOOLEAN
    BY <2>5
  <2>7. held' \in SUBSET File(s)!Held /\ cleanups' \in 0 .. 2
    BY <1>0, <2>5
  <2> QED BY <2>2, <2>3, <2>4, <2>5, <2>6, <2>7 DEF FileTyped
<1>23. CASE File(s)!Load
  <2>1. /\ up' = TRUE /\ owned' = record.owned /\ allow' = record.allow /\ restart' = record.restart
        /\ progress' = File(s)!Zero /\ initialized' = FALSE
        /\ record' \in { File(s)!New, record }
        /\ UNCHANGED <<creating, etag, held, cleanups, version, file, sidecar, refused, promised>>
    BY <1>23 DEF File!Load
  <2>2. status' \in { record.status, "PENDING" }
    BY <1>23 DEF File!Load
  <2>3. record \in File(s)!Record
    BY DEF FileTyped
  <2> QED BY <1>0, <2>1, <2>2, <2>3 DEF FileTyped
<1> QED BY <1>1, <1>2, <1>3, <1>4, <1>5, <1>6, <1>7, <1>8, <1>9, <1>10, <1>11, <1>12, <1>13, <1>14, <1>15,
          <1>16, <1>17, <1>18, <1>20, <1>21, <1>22, <1>23 DEF File!Next, File!Run

(* What every step that adds to the file by the buffers is.                 *)
Flushing(s) ==
  \/ \E c \in File(s)!Chunks : File(s)!WriteBlock(c) \/ File(s)!WorkerDone(c)
  \/ \E h \in held : File(s)!RetiredWorkerExits(h)

LEMMA FlushingIs ==
  ASSUME NEW s \in Files, FileTyped(s), Flushing(s)
  PROVE  /\ up /\ UNCHANGED <<up, creating, status, owned, allow, restart, initialized, etag,
                              cleanups, version, sidecar, record, refused, promised>>
         /\ file' = {} <=> file = {}
         /\ VersionsOf(s) = 1 /\ File(s)!Right => file' = file
<1>1. ASSUME NEW c \in File(s)!Chunks, File(s)!WriteBlock(c) \/ File(s)!WorkerDone(c)
      PROVE  /\ up /\ UNCHANGED <<up, creating, status, owned, allow, restart, initialized, etag,
                                  cleanups, version, sidecar, record, refused, promised>>
             /\ \E hs \in SUBSET held : file' = File(s)!Flushed(hs)
  <2>1. File(s)!LiveOf(c) \in SUBSET held
    BY DEF File!LiveOf
  <2> QED BY <1>1, <2>1 DEF File!WriteBlock, File!WorkerDone, File!manager, File!policy
<1>2. ASSUME NEW h \in held, File(s)!RetiredWorkerExits(h)
      PROVE  /\ up /\ UNCHANGED <<up, creating, status, owned, allow, restart, initialized, etag,
                                  cleanups, version, sidecar, record, refused, promised>>
             /\ \E hs \in SUBSET held : file' = File(s)!Flushed(hs)
  <2>1. {h} \in SUBSET held
    OBVIOUS
  <2> QED BY <1>2, <2>1 DEF File!RetiredWorkerExits, File!manager, File!policy
<1> QED BY <1>1, <1>2, FlushedIs DEF Flushing

LEMMA FileThereKept ==
  ASSUME NEW s \in Files, FileTyped(s), FileThere, File(s)!Next
  PROVE  FileThere'
<1> USE DEF File!manager, File!policy, File!disk, File!Handling
<1>1. CASE File(s)!Start
  BY <1>1 DEF File!Start, FileThere, File!Usable
<1>2. CASE File(s)!AdoptProgress
  BY <1>2 DEF File!AdoptProgress, FileThere, File!Usable
<1>3. CASE File(s)!RefuseFile
  BY <1>3 DEF File!RefuseFile, FileThere, File!Usable
<1>4. CASE File(s)!CreateFile
  BY <1>4 DEF File!CreateFile, FileThere
<1>5. CASE File(s)!WriteInitialProgress
  BY <1>5 DEF File!WriteInitialProgress, FileThere, File!Usable
<1>6. CASE File(s)!SaveTick
  BY <1>6 DEF File!SaveTick, FileThere, File!Usable
<1>7. CASE File(s)!NetworkError
  BY <1>7 DEF File!NetworkError, FileThere, File!Usable
<1>8. CASE File(s)!Verify
  BY <1>8 DEF File!Verify, FileThere, File!Usable
<1>9. CASE File(s)!VerdictGood
  BY <1>9 DEF File!VerdictGood, File!Completed, FileThere, File!Usable
<1>10. CASE File(s)!VerdictBad
  BY <1>10 DEF File!VerdictBad, FileThere, File!Usable
<1>11. CASE File(s)!FinishUnverified
  BY <1>11 DEF File!FinishUnverified, File!Completed, FileThere, File!Usable
<1>12. CASE File(s)!CleanupRuns
  BY <1>12 DEF File!CleanupRuns, FileThere, File!Usable
<1>13. CASE File(s)!Pause
  BY <1>13 DEF File!Pause, FileThere, File!Usable
<1>14. CASE File(s)!Resume
  BY <1>14 DEF File!Resume, FileThere, File!Usable
<1>15. CASE File(s)!Stop
  BY <1>15 DEF File!Stop, FileThere, File!Usable
<1>16. CASE File(s)!Retry
  BY <1>16 DEF File!Retry, FileThere, File!Usable
<1>17. CASE File(s)!Kill
  BY <1>17 DEF File!Kill, FileThere, File!Usable
<1>18. CASE File(s)!Load
  BY <1>18 DEF File!Load, File!Terminal, FileThere
<1>19. CASE File(s)!RemoteChange
  BY <1>19 DEF File!RemoteChange, FileThere, File!Usable
<1>20. CASE Flushing(s)
  BY <1>20, FlushingIs DEF FileThere
<1>21. CASE File(s)!Close
  <2>1. PICK hs \in SUBSET held : file' = File(s)!Flushed(hs)
    BY <1>21 DEF File!Close
  <2>2. file' = {} <=> file = {}
    BY <2>1, FlushedIs
  <2> QED BY <1>21, <2>2 DEF File!Close, FileThere
<1> QED BY <1>1, <1>2, <1>3, <1>4, <1>5, <1>6, <1>7, <1>8, <1>9, <1>10, <1>11, <1>12, <1>13,
           <1>14, <1>15, <1>16, <1>17, <1>18, <1>19, <1>20, <1>21
    DEF File!Next, File!Run, Flushing

LEMMA PromiseStays ==
  ASSUME NEW s \in Files, FileTyped(s), FileThere, PromiseKept(s), ~Checked(s), File(s)!Next
  PROVE  PromiseKept(s)'
<1> USE DEF File!manager, File!policy, File!disk, File!Handling
<1>0. cleanups \in 0 .. 2 /\ (cleanups' \in 0 .. 2)
  <2>1. FileTyped(s)'
    BY FileTypesKept
  <2> QED BY <2>1 DEF FileTyped
<1>1. CASE File(s)!Start
  BY <1>0, <1>1 DEF File!Start, PromiseKept, Ended
<1>2. CASE File(s)!AdoptProgress
  BY <1>2 DEF File!AdoptProgress, PromiseKept, Ended
<1>3. CASE File(s)!RefuseFile
  BY <1>3 DEF File!RefuseFile, PromiseKept, Ended
<1>4. CASE File(s)!CreateFile
  BY <1>0, <1>4 DEF File!CreateFile, File!Usable, PromiseKept, Ended
<1>5. CASE File(s)!WriteInitialProgress
  <2>1. promised' # File(s)!Zero => sidecar' = {[etag |-> version, chunk_progress |-> promised']}
    BY <1>5, ProgressSaved DEF File!WriteInitialProgress
  <2>2. cleanups = 0
    BY <1>0, <1>5 DEF File!WriteInitialProgress, PromiseKept, FileThere, Ended
  <2> QED BY <1>5, <2>1, <2>2 DEF File!WriteInitialProgress, PromiseKept, FileThere
<1>6. CASE File(s)!SaveTick
  <2>1. promised' # File(s)!Zero => sidecar' = {[etag |-> version, chunk_progress |-> promised']}
    BY <1>6, ProgressSaved DEF File!SaveTick
  <2>2. cleanups = 0
    BY <1>0, <1>6 DEF File!SaveTick, PromiseKept, FileThere, Ended
  <2> QED BY <1>6, <2>1, <2>2 DEF File!SaveTick, PromiseKept, FileThere
<1>7. CASE File(s)!NetworkError
  BY <1>7 DEF File!NetworkError, PromiseKept, Ended
<1>8. CASE File(s)!Verify
  <2>1. promised' # File(s)!Zero => sidecar' = {[etag |-> version, chunk_progress |-> promised']}
    BY <1>8, ProgressSaved DEF File!Verify
  <2>2. cleanups = 0
    BY <1>0, <1>8 DEF File!Verify, PromiseKept, FileThere, Ended
  <2> QED BY <1>8, <2>1, <2>2 DEF File!Verify, PromiseKept, FileThere
<1>9. CASE File(s)!VerdictGood
  BY <1>9 DEF File!VerdictGood, File!Completed, PromiseKept, Ended
<1>10. CASE File(s)!VerdictBad
  BY <1>10 DEF File!VerdictBad, PromiseKept, Ended
<1>11. CASE File(s)!FinishUnverified
  BY <1>11 DEF File!FinishUnverified, File!Completed, PromiseKept, Ended
<1>12. CASE File(s)!CleanupRuns
  BY <1>12 DEF File!CleanupRuns, PromiseKept, Ended
<1>13. CASE File(s)!Pause
  <2>1. promised' # File(s)!Zero => sidecar' = {[etag |-> version, chunk_progress |-> promised']}
    BY <1>13, ProgressSaved DEF File!Pause
  <2>2. cleanups = 0
    BY <1>0, <1>13 DEF File!Pause, PromiseKept, FileThere, Ended
  <2> QED BY <1>13, <2>1, <2>2 DEF File!Pause, PromiseKept, FileThere
<1>14. CASE File(s)!Resume
  BY <1>14 DEF File!Resume, PromiseKept, Ended
<1>15. CASE File(s)!Stop
  BY <1>15 DEF File!Stop, PromiseKept, Ended
<1>16. CASE File(s)!Retry
  <2>1. cleanups = 0
    BY <1>16 DEF File!Retry
  <2> QED BY <1>16, <2>1 DEF File!Retry, PromiseKept, Ended
<1>17. CASE File(s)!Kill
  BY <1>17 DEF File!Kill, PromiseKept, Ended
<1>18. CASE File(s)!Load
  BY <1>18 DEF File!Load, PromiseKept
<1>19. CASE File(s)!RemoteChange
  BY <1>19 DEF File!RemoteChange, PromiseKept, Ended
<1>20. CASE Flushing(s)
  BY <1>20, FlushingIs DEF PromiseKept, Ended
<1>21. CASE File(s)!Close
  <2>1. PICK hs \in SUBSET held : file' = File(s)!Flushed(hs)
    BY <1>21 DEF File!Close
  <2>2. file' = {} <=> file = {}
    BY <2>1, FlushedIs
  <2> QED BY <1>21, <2>2 DEF File!Close, PromiseKept, Ended
<1> QED BY <1>1, <1>2, <1>3, <1>4, <1>5, <1>6, <1>7, <1>8, <1>9, <1>10, <1>11, <1>12, <1>13,
           <1>14, <1>15, <1>16, <1>17, <1>18, <1>19, <1>20, <1>21
    DEF File!Next, File!Run, Flushing

LEMMA CheckedStays ==
  ASSUME NEW s \in Files, FileTyped(s), FileThere, CheckedRight(s), Checked(s), File(s)!Next
  PROVE  CheckedRight(s)'
<1> USE DEF File!manager, File!policy, File!disk, File!Handling
<1>0. VersionsOf(s) = 1
  BY FileKinds
<1>1. CASE File(s)!Start
  BY <1>1 DEF File!Start, CheckedRight, File!Right
<1>2. CASE File(s)!AdoptProgress
  BY <1>2 DEF File!AdoptProgress, CheckedRight, File!Right
<1>3. CASE File(s)!RefuseFile
  <2>1. record'.status = File(s)!Stored(status')
    BY <1>3 DEF File!RefuseFile, File!SaveRecord
  <2> QED BY <1>3, <2>1 DEF File!RefuseFile, File!Stored, File!Right, CheckedRight
<1>4. CASE File(s)!CreateFile
  BY <1>4 DEF File!CreateFile, CheckedRight, File!Right
<1>5. CASE File(s)!WriteInitialProgress
  BY <1>5 DEF File!WriteInitialProgress, File!Right, CheckedRight, FileThere
<1>6. CASE File(s)!SaveTick
  BY <1>6 DEF File!SaveTick, File!Right, CheckedRight
<1>7. CASE File(s)!NetworkError
  <2>1. record'.status = File(s)!Stored(status')
    BY <1>7 DEF File!NetworkError, File!SaveRecord
  <2> QED BY <1>7, <2>1 DEF File!NetworkError, File!Stored, File!Right, CheckedRight
<1>8. CASE File(s)!Verify
  BY <1>8 DEF File!Verify, CheckedRight, File!Right
<1>9. CASE File(s)!VerdictGood
  <2>1. record'.status = File(s)!Stored(status')
    BY <1>9 DEF File!VerdictGood, File!Completed, File!SaveRecord
  <2> QED BY <1>9, <2>1 DEF File!VerdictGood, File!Completed, File!Right, CheckedRight
<1>10. CASE File(s)!VerdictBad
  <2>1. record'.status = File(s)!Stored(status')
    BY <1>10 DEF File!VerdictBad, File!SaveRecord
  <2> QED BY <1>10, <2>1 DEF File!VerdictBad, File!Stored, File!Right, CheckedRight
<1>11. CASE File(s)!FinishUnverified
  BY <1>11 DEF File!FinishUnverified
<1>12. CASE File(s)!CleanupRuns
  BY <1>12 DEF File!CleanupRuns, CheckedRight, File!Right
<1>13. CASE File(s)!Pause
  <2>1. record'.status = File(s)!Stored(status')
    BY <1>13 DEF File!Pause, File!SaveRecord
  <2> QED BY <1>13, <2>1 DEF File!Pause, File!Stored, File!Right, CheckedRight
<1>14. CASE File(s)!Resume
  <2>1. record'.status = File(s)!Stored(status')
    BY <1>14 DEF File!Resume, File!SaveRecord
  <2> QED BY <1>14, <2>1 DEF File!Resume, File!Stored, File!Right, CheckedRight
<1>15. CASE File(s)!Stop
  <2>1. record'.status = File(s)!Stored(status')
    BY <1>15 DEF File!Stop, File!SaveRecord
  <2> QED BY <1>15, <2>1 DEF File!Stop, File!Stored, File!Right, CheckedRight
<1>16. CASE File(s)!Retry
  <2>1. record'.status = File(s)!Stored(status')
    BY <1>16 DEF File!Retry, File!SaveRecord
  <2> QED BY <1>16, <2>1 DEF File!Retry, File!Stored, File!Right, CheckedRight
<1>17. CASE File(s)!Kill
  BY <1>17 DEF File!Kill, CheckedRight, File!Right
<1>18. CASE File(s)!Load
  <2>1. record'.status = "PENDING" /\ up' /\ ~up /\ file' = file
    BY <1>18 DEF File!Load, File!New
  <2>2. status' = "COMPLETED" => record.status = "COMPLETED"
    BY <1>18 DEF File!Load
  <2> QED BY <2>1, <2>2 DEF File!Right, CheckedRight
<1>19. CASE File(s)!RemoteChange
  BY <1>19 DEF File!RemoteChange, CheckedRight, File!Right
<1>20. CASE Flushing(s)
  <2>1. File(s)!Right => file' = file
    BY <1>0, <1>20, FlushingIs
  <2> QED BY <1>20, <2>1, FlushingIs DEF CheckedRight, File!Right
<1>21. CASE File(s)!Close
  <2>1. PICK hs \in SUBSET held : file' = File(s)!Flushed(hs)
    BY <1>21 DEF File!Close
  <2>2. File(s)!Right => file' = file
    BY <1>0, <2>1, FlushedIs
  <2>3. record'.status = File(s)!Stored(status')
    BY <1>21 DEF File!Close, File!SaveRecord
  <2> QED BY <1>21, <2>2, <2>3 DEF File!Close, File!Stored, File!Right, CheckedRight
<1> QED BY <1>1, <1>2, <1>3, <1>4, <1>5, <1>6, <1>7, <1>8, <1>9, <1>10, <1>11, <1>12, <1>13,
           <1>14, <1>15, <1>16, <1>17, <1>18, <1>19, <1>20, <1>21
    DEF File!Next, File!Run, Flushing

LEMMA OwnStays ==
  ASSUME NEW s \in Files, FileTyped(s), FileThere, PromiseKept(s), OwnFile, ~Killable(s), File(s)!Next
  PROVE  OwnFile'
<1> USE DEF File!manager, File!policy, File!disk, File!Handling
<1>0. /\ VersionsOf(s) = 1 /\ ~Checked(s) /\ refused \in BOOLEAN
      /\ version = 1 /\ \A r \in sidecar : r.etag = 1
  BY FileKinds DEF FileTyped, File!Sidecar
<1>1. CASE File(s)!Start
  BY <1>1 DEF File!Start, OwnFile, Ended
<1>2. CASE File(s)!AdoptProgress
  <2>1. sidecar' # {} /\ owned' /\ up' /\ refused' = refused
    BY <1>2 DEF File!AdoptProgress, File!Usable
  <2> QED BY <2>1 DEF OwnFile
<1>3. CASE File(s)!RefuseFile
  <2>1. sidecar = {}
    BY <1>0, <1>3 DEF File!RefuseFile, File!Usable, File!MayNotOverwrite
  <2> QED BY <1>3, <2>1 DEF File!RefuseFile, File!MayNotOverwrite, OwnFile, Ended
<1>4. CASE File(s)!CreateFile
  BY <1>4 DEF File!CreateFile, OwnFile
<1>5. CASE File(s)!WriteInitialProgress
  <2>1. sidecar' # {}
    BY <1>5 DEF File!WriteInitialProgress, File!SaveProgress
  <2> QED BY <1>5, <2>1 DEF File!WriteInitialProgress, OwnFile, FileThere
<1>6. CASE File(s)!SaveTick
  <2>1. sidecar' # {}
    BY <1>6 DEF File!SaveTick, File!SaveProgress
  <2> QED BY <1>6, <2>1 DEF File!SaveTick, OwnFile, FileThere
<1>7. CASE File(s)!NetworkError
  BY <1>7 DEF File!NetworkError, OwnFile, Ended
<1>8. CASE File(s)!Verify
  <2>1. sidecar' # {}
    BY <1>8 DEF File!Verify, File!SaveProgress
  <2> QED BY <1>8, <2>1 DEF File!Verify, OwnFile, FileThere
<1>9. CASE File(s)!VerdictGood
  BY <1>9 DEF File!VerdictGood, File!Completed, OwnFile, Ended
<1>10. CASE File(s)!VerdictBad
  BY <1>10 DEF File!VerdictBad, OwnFile, Ended
<1>11. CASE File(s)!FinishUnverified
  BY <1>11 DEF File!FinishUnverified, File!Completed, OwnFile, Ended
<1>12. CASE File(s)!CleanupRuns
  BY <1>12 DEF File!CleanupRuns, OwnFile, PromiseKept, FileThere, Ended
<1>13. CASE File(s)!Pause
  <2>1. sidecar' # {}
    BY <1>13 DEF File!Pause, File!SaveProgress
  <2> QED BY <1>13, <2>1 DEF File!Pause, OwnFile, FileThere
<1>14. CASE File(s)!Resume
  BY <1>14 DEF File!Resume, OwnFile, Ended
<1>15. CASE File(s)!Stop
  BY <1>15 DEF File!Stop, OwnFile, Ended
<1>16. CASE File(s)!Retry
  BY <1>16 DEF File!Retry, OwnFile, Ended, File!Terminal
<1>17. CASE File(s)!Kill
  BY <1>17 DEF File!Kill
<1>18. CASE File(s)!Load
  <2>1. /\ ~up /\ up' /\ owned' = record.owned /\ allow' = record.allow
        /\ UNCHANGED <<file, sidecar, refused>>
        /\ status' = IF record.status \in Ended \cup {"PAUSED"} THEN record.status ELSE "PENDING"
    BY <1>18 DEF File!Load, File!Terminal, Ended
  <2> QED BY <2>1 DEF OwnFile
<1>19. CASE File(s)!RemoteChange
  BY <1>19 DEF File!RemoteChange, OwnFile, Ended
<1>20. CASE Flushing(s)
  BY <1>20, FlushingIs DEF OwnFile
<1>21. CASE File(s)!Close
  <2>1. PICK hs \in SUBSET held : file' = File(s)!Flushed(hs)
    BY <1>21 DEF File!Close
  <2>2. file' = {} <=> file = {}
    BY <2>1, FlushedIs
  <2>3. record'.owned = owned' /\ record'.allow = allow' /\ record'.status = File(s)!Stored(status')
    BY <1>21 DEF File!Close, File!SaveRecord
  <2>4. status \in Ended => File(s)!Stored(status) \in Ended
    BY DEF File!Stored, Ended
  <2> QED BY <1>21, <2>2, <2>3, <2>4 DEF File!Close, OwnFile
<1> QED BY <1>1, <1>2, <1>3, <1>4, <1>5, <1>6, <1>7, <1>8, <1>9, <1>10, <1>11, <1>12, <1>13,
           <1>14, <1>15, <1>16, <1>17, <1>18, <1>19, <1>20, <1>21
    DEF File!Next, File!Run, Flushing

LEMMA FileStarts ==
  ASSUME NEW s \in Files, File(s)!Init
  PROVE  FileInv(s)
<1>1. /\ up = TRUE /\ creating = FALSE
      /\ status = "PENDING" /\ progress = File(s)!Zero
      /\ owned = FALSE /\ allow = FALSE /\ restart = FALSE
      /\ initialized = FALSE /\ etag = 1 /\ version = 1
      /\ held = {} /\ cleanups = 0
      /\ file = {} /\ sidecar = {} /\ record = File(s)!New
      /\ refused = FALSE /\ promised = File(s)!Zero
  BY DEF File!Init
<1>2. /\ File(s)!Zero \in File(s)!Progress /\ "PENDING" \in File(s)!Status
      /\ File(s)!New \in File(s)!Record /\ File(s)!New.status = "PENDING"
  BY FileKinds DEF File!Zero, File!Progress, File!Status, File!Record, File!New
<1>3. 1 \in 1 .. VersionsOf(s) /\ 0 \in 0 .. 2 /\ ~(0 > 0)
  BY FileKinds
<1>4. FileTyped(s)
  BY <1>1, <1>2, <1>3 DEF FileTyped
<1>5. FileThere /\ CheckedRight(s) /\ PromiseKept(s) /\ OwnFile
  BY <1>1, <1>2, <1>3 DEF FileThere, CheckedRight, PromiseKept, OwnFile
<1> QED BY <1>4, <1>5 DEF FileInv

LEMMA FileKept ==
  ASSUME NEW s \in Files, FileInv(s), [File(s)!Next]_fileVars
  PROVE  FileInv(s)'
<1>1. CASE UNCHANGED fileVars
  BY <1>1 DEF fileVars, FileInv, FileTyped, FileThere, CheckedRight, PromiseKept, OwnFile, File!Right
<1>2. CASE File(s)!Next
  BY <1>2, FileKinds, FileTypesKept, FileThereKept, PromiseStays, CheckedStays, OwnStays DEF FileInv
<1> QED BY <1>1, <1>2

FileSteady == \A s \in Files : subject = s => FileInv(s)

LEMMA RestartsFileInvariant == RestartsSpec => []FileSteady
<1>1. RestartsInit => FileSteady
  <2> SUFFICES ASSUME RestartsInit, NEW s \in Files, subject = s PROVE FileInv(s)
    BY DEF FileSteady
  <2>1. File(s)!Init
    BY DEF RestartsInit
  <2> QED BY <2>1, FileStarts
<1>2. FileSteady /\ [RestartsNext]_allVars => FileSteady'
  <2> SUFFICES ASSUME FileSteady, [RestartsNext]_allVars, NEW s \in Files, subject' = s
               PROVE  FileInv(s)'
    BY DEF FileSteady
  <2>1. subject = s /\ [File(s)!Next]_fileVars
    BY DEF RestartsNext, allVars, Transfer, List, Counting, About
  <2> QED BY <2>1, FileKept DEF FileSteady
<1> QED BY <1>1, <1>2, PTL DEF RestartsSpec

(* For a file of any size: where the checksum is known and the server has   *)
(* one content, COMPLETED means that every block of the file is the right   *)
(* one, whatever kills lose buffered blocks; and a download that is not     *)
(* killed takes up its own file, however often ADP is closed.               *)
THEOREM FilesAlwaysRight == RestartsSpec => []FilesRight
<1>1. FileSteady => FilesRight
  <2> SUFFICES ASSUME FileSteady, NEW s \in Files, subject = s
               PROVE  /\ File(s)!TypeOK /\ File(s)!VerifiedIsRight
                      /\ ~Killable(s) => File(s)!NeverRefusesOwn
    BY DEF FilesRight
  <2>1. FileInv(s)
    BY DEF FileSteady
  <2>2. File(s)!TypeOK
    BY <2>1, FileTypeOK DEF FileInv
  <2>3. File(s)!VerifiedIsRight
    BY <2>1 DEF FileInv, CheckedRight, File!VerifiedIsRight
  <2> QED BY <2>1, <2>2, <2>3 DEF FileInv, OwnFile, File!NeverRefusesOwn
<1> QED BY <1>1, RestartsFileInvariant, PTL

(* For a file of any size, any number of contents the server may come to    *)
(* have and kills at any moment: a new file is begun only where nothing is  *)
(* promised, and a run that continues has all that was.                     *)
THEOREM ProgressAlwaysKept == RestartsSpec => ProgressKept
<1>1. FileSteady => [\A s \in Files : subject = s /\ ~Checked(s) =>
                       File(s)!ProgressNotLostStep /\ File(s)!ContinuesStep]_<<fileVars, subject>>
  <2> SUFFICES ASSUME FileSteady, NEW s \in Files, subject = s, ~Checked(s)
               PROVE  File(s)!ProgressNotLostStep /\ File(s)!ContinuesStep
    OBVIOUS
  <2>1. FileTyped(s) /\ PromiseKept(s)
    BY DEF FileSteady, FileInv
  <2>2. File(s)!CreateFile => promised = File(s)!Zero
    <3>1. promised # File(s)!Zero => File(s)!Usable
      <4>1. [etag |-> version, chunk_progress |-> promised].etag = version
        OBVIOUS
      <4> QED BY <2>1, <4>1 DEF PromiseKept, File!Usable
    <3> QED BY <3>1 DEF File!CreateFile
  <2>3. ASSUME File(s)!AdoptProgress, NEW c \in File(s)!Chunks PROVE progress'[c] >= promised[c]
    <3>1. PICK r \in sidecar : progress' = r.chunk_progress
      BY <2>3 DEF File!AdoptProgress
    <3>2. ChunkSize \in Nat
      BY FileKinds
    <3>3. r.chunk_progress \in [File(s)!Chunks -> 0 .. ChunkSize]
      BY <2>1, <3>1 DEF FileTyped, File!Sidecar, File!Progress
    <3>4. CASE promised = File(s)!Zero
      BY <3>1, <3>2, <3>3, <3>4 DEF File!Zero
    <3>5. CASE promised # File(s)!Zero
      BY <2>1, <3>1, <3>2, <3>3, <3>5 DEF PromiseKept
    <3> QED BY <3>4, <3>5
  <2> QED BY <2>2, <2>3 DEF File!ProgressNotLostStep, File!ContinuesStep
<1> QED BY <1>1, RestartsFileInvariant, PTL DEF ProgressKept
=============================================================================
