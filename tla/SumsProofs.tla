---------------------------- MODULE SumsProofs ------------------------------
(***************************************************************************)
(* Facts about sums: what one more value, one changed value and values     *)
(* that are not negative make of a sum.                                    *)
(***************************************************************************)
EXTENDS Sums, FiniteSetTheorems, WellFoundedInduction, NaturalsInduction, TLAPS

\* s holds the sums of the first 0, 1, ... n values of f.
Prefixes(f, n, s) ==
  /\ s \in [0..n -> Int]
  /\ s[0] = 0
  /\ \A k \in 1..n : s[k] = s[k - 1] + f[k]

\* A set of naturals has a least member.
LEMMA LeastNat ==
  ASSUME NEW T, T \subseteq Nat, T # {}
  PROVE  \E x \in T : \A y \in T : x <= y
<1>1. \E x \in T : \A y \in T : ~ (<<y, x>> \in OpToRel(<, Nat))
  BY NatLessThanWellFounded, WFMin
<1>2. PICK x \in T : \A y \in T : ~ (<<y, x>> \in OpToRel(<, Nat))
  BY <1>1
<1>3. ASSUME NEW y \in T PROVE x <= y
  <2>1. ~ (<<y, x>> \in OpToRel(<, Nat))
    BY <1>2
  <2>2. <<y, x>> \in Nat \X Nat
    OBVIOUS
  <2>3. ~(y < x)
    BY <2>1, <2>2 DEF OpToRel
  <2> QED BY <2>3
<1> QED BY <1>3

\* Partial sums exist: the least length without them would have them.
LEMMA PrefixesExist ==
  ASSUME NEW n \in Nat, NEW f \in [1..n -> Int]
  PROVE  \E s : Prefixes(f, n, s)
<1> DEFINE Bad == {m \in Nat : m <= n /\ ~ \E s : Prefixes(f, m, s)}
<1>1. SUFFICES ASSUME ~ \E s : Prefixes(f, n, s) PROVE FALSE
  OBVIOUS
<1>a. n \in Bad
  BY <1>1
<1>2. PICK m \in Bad : \A y \in Bad : m <= y
  <2>1. Bad \subseteq Nat
    OBVIOUS
  <2> QED BY <1>a, <2>1, LeastNat
<1>3. m # 0
  <2>1. Prefixes(f, 0, [k \in 0..0 |-> 0])
    BY DEF Prefixes
  <2> QED BY <2>1
<1>4. m - 1 \in Nat /\ m - 1 <= n /\ m - 1 \notin Bad
  BY <1>2, <1>3
<1>5. PICK s : Prefixes(f, m - 1, s)
  BY <1>4
<1> DEFINE longer == [k \in 0..m |-> IF k = m THEN s[m - 1] + f[m] ELSE s[k]]
<1>6. Prefixes(f, m, longer)
  <2>1. m \in 1..n /\ f[m] \in Int
    BY <1>2, <1>3
  <2>2. s \in [0..m - 1 -> Int] /\ s[0] = 0 /\ \A k \in 1..m - 1 : s[k] = s[k - 1] + f[k]
    BY <1>5 DEF Prefixes
  <2>3. longer \in [0..m -> Int] /\ longer[0] = 0
    BY <2>1, <2>2
  <2>4. ASSUME NEW k \in 1..m PROVE longer[k] = longer[k - 1] + f[k]
    <3>1. CASE k = m
      BY <2>1, <3>1
    <3>2. CASE k # m
      BY <2>1, <2>2, <3>2
    <3> QED BY <3>1, <3>2
  <2> QED BY <2>3, <2>4 DEF Prefixes
<1> QED BY <1>2, <1>6

\* The sum is the last partial sum: no least place where they differ.
LEMMA SumIsPrefix ==
  ASSUME NEW n \in Nat, NEW f \in [1..n -> Int], NEW s, Prefixes(f, n, s)
  PROVE  SumUpTo(f, n) = s[n]
<1> DEFINE P(t) == t = [k \in 0..n |-> IF k = 0 THEN 0 ELSE t[k - 1] + f[k]]
           partial == CHOOSE t : P(t)
<1>1. P(s)
  BY DEF Prefixes
<1>2. P(partial)
  BY <1>1
<1>3. \A k \in 0..n : partial[k] = s[k]
  <2> DEFINE Bad == {k \in 0..n : partial[k] # s[k]}
  <2>1. SUFFICES ASSUME Bad # {} PROVE FALSE
    OBVIOUS
  <2>2. PICK k \in Bad : \A y \in Bad : k <= y
    <3>1. Bad \subseteq Nat
      OBVIOUS
    <3> QED BY <2>1, <3>1, LeastNat
  <2>a. \A j \in 0..n : partial[j] = IF j = 0 THEN 0 ELSE partial[j - 1] + f[j]
    BY <1>2
  <2>b. \A j \in 0..n : s[j] = IF j = 0 THEN 0 ELSE s[j - 1] + f[j]
    BY <1>1
  <2> HIDE DEF partial, P
  <2>3. k # 0
    BY <2>a, <2>b, <2>2
  <2>4. k - 1 \in 0..n /\ k - 1 \notin Bad
    BY <2>2, <2>3
  <2>5. partial[k - 1] = s[k - 1]
    BY <2>4
  <2> QED BY <2>a, <2>b, <2>2, <2>3, <2>5
<1>4. SumUpTo(f, n) = partial[n]
  BY DEF SumUpTo
<1> QED BY <1>3, <1>4

\* The sum of integers is an integer.
LEMMA SumIsInt ==
  ASSUME NEW n \in Nat, NEW f \in [1..n -> Int]
  PROVE  SumUpTo(f, n) \in Int
<1>1. PICK s : Prefixes(f, n, s)
  BY PrefixesExist
<1>2. SumUpTo(f, n) = s[n]
  BY <1>1, SumIsPrefix
<1> QED BY <1>1, <1>2 DEF Prefixes

\* One more value adds it to the sum.
LEMMA SumExtends ==
  ASSUME NEW n \in Nat, NEW f \in [1..n -> Int], NEW g \in [1..n + 1 -> Int],
         \A k \in 1..n : g[k] = f[k]
  PROVE  SumUpTo(g, n + 1) = SumUpTo(f, n) + g[n + 1]
<1>1. PICK s : Prefixes(g, n + 1, s)
  BY PrefixesExist
<1> DEFINE shorter == [k \in 0..n |-> s[k]]
<1>2. /\ s \in [0..n + 1 -> Int] /\ s[0] = 0
      /\ \A k \in 1..n + 1 : s[k] = s[k - 1] + g[k]
  BY <1>1 DEF Prefixes
<1>3. Prefixes(f, n, shorter)
  BY <1>2 DEF Prefixes
<1>4. SumUpTo(f, n) = s[n]
  BY <1>3, SumIsPrefix
<1>5. SumUpTo(g, n + 1) = s[n + 1]
  BY <1>1, SumIsPrefix
<1> QED BY <1>2, <1>4, <1>5

\* Changing one value changes the sum by as much.
LEMMA SumChanges ==
  ASSUME NEW n \in Nat, NEW f \in [1..n -> Int], NEW g \in [1..n -> Int],
         NEW i \in 1..n, \A k \in 1..n \ {i} : g[k] = f[k]
  PROVE  SumUpTo(g, n) = SumUpTo(f, n) + g[i] - f[i]
<1>1. PICK s : Prefixes(f, n, s)
  BY PrefixesExist
<1>2. s \in [0..n -> Int] /\ s[0] = 0 /\ \A k \in 1..n : s[k] = s[k - 1] + f[k]
  BY <1>1 DEF Prefixes
<1> DEFINE t == [k \in 0..n |-> IF k < i THEN s[k] ELSE s[k] + g[i] - f[i]]
<1>3. Prefixes(g, n, t)
  <2>1. t \in [0..n -> Int] /\ t[0] = 0
    <3>1. g[i] \in Int /\ f[i] \in Int /\ 0 \in 0..n /\ 0 < i
      OBVIOUS
    <3>2. ASSUME NEW k \in 0..n PROVE t[k] \in Int
      BY <1>2, <3>1
    <3> QED BY <1>2, <3>1, <3>2
  <2>2. ASSUME NEW k \in 1..n PROVE t[k] = t[k - 1] + g[k]
    <3>1. /\ s[k] = s[k - 1] + f[k] /\ s[k - 1] \in Int
          /\ f[k] \in Int /\ g[k] \in Int /\ f[i] \in Int /\ g[i] \in Int
          /\ k - 1 \in 0..n
      BY <1>2
    <3>2. CASE k < i
      BY <1>2, <3>1, <3>2
    <3>3. CASE k = i
      BY <1>2, <3>1, <3>3
    <3>4. CASE k > i
      BY <1>2, <3>1, <3>4
    <3> QED BY <3>2, <3>3, <3>4
  <2> QED BY <2>1, <2>2 DEF Prefixes
<1>4. SumUpTo(f, n) = s[n] /\ SumUpTo(g, n) = t[n]
  BY <1>1, <1>3, SumIsPrefix
<1>5. f[i] \in Int /\ g[i] \in Int /\ s[n] \in Int
  BY <1>2
<1> QED BY <1>4, <1>5

\* The sum of an empty function is nothing.
LEMMA SumOfNone == ASSUME NEW f \in [1..0 -> Int] PROVE SumUpTo(f, 0) = 0
<1>1. Prefixes(f, 0, [k \in 0..0 |-> 0])
  BY DEF Prefixes
<1> QED BY <1>1, SumIsPrefix

\* No value is larger than the sum when none is negative.
LEMMA SumBounds ==
  ASSUME NEW n \in Nat, NEW f \in [1..n -> Nat]
  PROVE  /\ SumUpTo(f, n) \in Nat
         /\ \A i \in 1..n : f[i] <= SumUpTo(f, n)
<1>1. PICK s : Prefixes(f, n, s)
  BY PrefixesExist
<1>2. s \in [0..n -> Int] /\ s[0] = 0 /\ \A k \in 1..n : s[k] = s[k - 1] + f[k]
  BY <1>1 DEF Prefixes
<1> DEFINE Bad == {k \in 0..n : ~(s[k] >= 0 /\ \A i \in 1..k : f[i] <= s[k])}
<1>3. Bad = {}
  <2> SUFFICES ASSUME Bad # {} PROVE FALSE
    OBVIOUS
  <2>1. PICK k \in Bad : \A y \in Bad : k <= y
    <3>1. Bad \subseteq Nat
      OBVIOUS
    <3> QED BY <3>1, LeastNat
  <2>2. k # 0
    BY <1>2
  <2>3. k \in 1..n /\ k - 1 \in 0..n /\ k - 1 \notin Bad
    BY <2>1, <2>2
  <2>4. s[k - 1] >= 0 /\ \A i \in 1..k - 1 : f[i] <= s[k - 1]
    BY <2>3
  <2>5. s[k] = s[k - 1] + f[k] /\ s[k - 1] \in Int /\ f[k] \in Nat
    BY <1>2, <2>3
  <2>6. ASSUME NEW i \in 1..k PROVE f[i] <= s[k]
    <3>1. CASE i = k
      BY <2>4, <2>5, <3>1
    <3>2. CASE i # k
      <4>1. i \in 1..k - 1 /\ f[i] \in Nat
        BY <2>3, <3>2
      <4> QED BY <2>4, <2>5, <4>1
    <3> QED BY <3>1, <3>2
  <2>7. s[k] >= 0
    BY <2>4, <2>5
  <2>8. k \notin Bad
    BY <2>6, <2>7
  <2> QED BY <2>1, <2>8
<1>4. SumUpTo(f, n) = s[n]
  BY <1>1, SumIsPrefix
<1>5. s[n] >= 0 /\ \A i \in 1..n : f[i] <= s[n]
  BY <1>3
<1> QED BY <1>2, <1>4, <1>5

\* Values that are 0 at the end add nothing.
LEMMA SumIgnoresZeros ==
  ASSUME NEW n \in Nat, NEW m \in Nat, n <= m,
         NEW f \in [1..n -> Int], NEW g \in [1..m -> Int],
         \A k \in 1..m : g[k] = IF k <= n THEN f[k] ELSE 0
  PROVE  SumUpTo(g, m) = SumUpTo(f, n)
<1>1. PICK s : Prefixes(g, m, s)
  BY PrefixesExist
<1>2. s \in [0..m -> Int] /\ s[0] = 0 /\ \A k \in 1..m : s[k] = s[k - 1] + g[k]
  BY <1>1 DEF Prefixes
<1> DEFINE shorter == [k \in 0..n |-> s[k]]
           Bad     == {k \in n..m : s[k] # s[n]}
<1>3. Prefixes(f, n, shorter)
  <2>1. shorter \in [0..n -> Int] /\ shorter[0] = 0
    BY <1>2
  <2>2. ASSUME NEW k \in 1..n PROVE shorter[k] = shorter[k - 1] + f[k]
    BY <1>2
  <2> QED BY <2>1, <2>2 DEF Prefixes
<1>4. Bad = {}
  <2> SUFFICES ASSUME Bad # {} PROVE FALSE
    OBVIOUS
  <2>1. PICK k \in Bad : \A y \in Bad : k <= y
    <3>1. Bad \subseteq Nat
      OBVIOUS
    <3> QED BY <3>1, LeastNat
  <2>2. k # n
    BY <2>1
  <2>3. k \in 1..m /\ k > n /\ k - 1 \in n..m /\ k - 1 \notin Bad
    BY <2>1, <2>2
  <2>4. s[k] = s[k - 1] + 0 /\ s[k - 1] = s[n]
    BY <1>2, <2>3
  <2>5. s[k - 1] \in Int
    BY <1>2, <2>3
  <2> QED BY <2>1, <2>4, <2>5
<1>5. SumUpTo(f, n) = s[n] /\ SumUpTo(g, m) = s[m]
  BY <1>1, <1>3, SumIsPrefix
<1> QED BY <1>4, <1>5

-----------------------------------------------------------------------------
(* Sums over finite sets, the way MapThenSumSet takes them: one member,    *)
(* then the rest.                                                          *)

SomeOf(s) == CHOOSE x \in s : TRUE

SumWith(f, v, s) == IF s = {} THEN 0 ELSE v[SomeOf(s)] + f[s \ {SomeOf(s)}]

SumsOver(f, v, S) == f = [s \in SUBSET S |-> SumWith(f, v, s)]

\* What is left without the member taken first is smaller.
LEMMA RestIsSmaller ==
  ASSUME NEW s, IsFiniteSet(s), s # {}
  PROVE  /\ SomeOf(s) \in s /\ IsFiniteSet(s \ {SomeOf(s)})
         /\ Cardinality(s) \in Nat /\ Cardinality(s) > 0
         /\ Cardinality(s \ {SomeOf(s)}) = Cardinality(s) - 1
<1>1. SomeOf(s) \in s
  BY DEF SomeOf
<1>2. Cardinality(s) \in Nat /\ Cardinality(s) # 0
  BY FS_CardinalityType, FS_EmptySet
<1> QED BY <1>1, <1>2, FS_RemoveElement

\* Such sums exist: the least size of a set without them would have them.
LEMMA SetSumsExist ==
  ASSUME NEW S, IsFiniteSet(S), NEW v
  PROVE  \E f : SumsOver(f, v, S)
<1> DEFINE Small(n) == {s \in SUBSET S : Cardinality(s) <= n}
           Upto(f, n) == f = [s \in Small(n) |-> SumWith(f, v, s)]
           Has(n) == \E f : Upto(f, n)
           Bad == {n \in Nat : ~Has(n)}
<1>1. \A s \in SUBSET S :
        IsFiniteSet(s) /\ Cardinality(s) \in Nat /\ Cardinality(s) <= Cardinality(S)
  BY FS_Subset, FS_CardinalityType
<1>2. Small(Cardinality(S)) = SUBSET S /\ Cardinality(S) \in Nat
  BY <1>1, FS_CardinalityType
<1>3. ASSUME Bad = {} PROVE \E f : SumsOver(f, v, S)
  <2>1. Has(Cardinality(S))
    <3> HIDE DEF Has
    <3> QED BY <1>2, <1>3
  <2> HIDE DEF Small, Upto
  <2>2. PICK f : Upto(f, Cardinality(S))
    BY <2>1
  <2>3. SumsOver(f, v, S)
    BY <1>2, <2>2 DEF Upto, SumsOver
  <2> QED BY <2>3
<1>4. SUFFICES ASSUME Bad # {} PROVE FALSE
  BY <1>3
<1>5. PICK m \in Bad : \A n \in Bad : m <= n
  BY <1>4, LeastNat
<1>6. m # 0
  <2>1. \A s \in Small(0) : s = {}
    BY <1>1, FS_EmptySet
  <2>2. Upto([s \in Small(0) |-> 0], 0)
    BY <2>1 DEF SumWith
  <2> QED BY <2>2
<1>7. m \in Nat /\ m - 1 \in Nat /\ Has(m - 1)
  <2> HIDE DEF Has
  <2> QED BY <1>5, <1>6
<1>8. PICK f : Upto(f, m - 1)
  BY <1>7
<1> DEFINE g == [s \in Small(m) |-> SumWith(f, v, s)]
<1>9. ASSUME NEW s \in Small(m) PROVE SumWith(f, v, s) = SumWith(g, v, s)
  <2>1. CASE s = {}
    BY <2>1 DEF SumWith
  <2>2. CASE s # {}
    <3> DEFINE rest == s \ {SomeOf(s)}
    <3>1. rest \in Small(m - 1) /\ rest \in Small(m)
      BY <1>1, <1>7, <2>2, RestIsSmaller
    <3>2. f[rest] = SumWith(f, v, rest)
      BY <1>8, <3>1
    <3>3. g[rest] = SumWith(f, v, rest)
      BY <3>1
    <3> HIDE DEF g
    <3> QED BY <2>2, <3>2, <3>3 DEF SumWith
  <2> QED BY <2>1, <2>2
<1>10. Upto(g, m)
  <2> DEFINE h == [s \in Small(m) |-> SumWith(g, v, s)]
  <2>1. g = h
    BY <1>9
  <2> QED BY <2>1
<1> QED BY <1>5, <1>10

\* They are integers when the values are: no smallest set has another sum.
LEMMA SetSumsAreInts ==
  ASSUME NEW S, IsFiniteSet(S), NEW v \in [S -> Int], NEW f, SumsOver(f, v, S)
  PROVE  f[S] \in Int
<1> DEFINE Bad == {s \in SUBSET S : f[s] \notin Int}
           Sizes == {Cardinality(s) : s \in Bad}
<1>1. \A s \in SUBSET S : IsFiniteSet(s) /\ Cardinality(s) \in Nat
  BY FS_Subset, FS_CardinalityType
<1>2. \A s \in SUBSET S : f[s] = SumWith(f, v, s)
  BY DEF SumsOver
<1>3. SUFFICES ASSUME Bad # {} PROVE FALSE
  OBVIOUS
<1>4. PICK n \in Sizes : \A k \in Sizes : n <= k
  <2>1. Sizes \subseteq Nat /\ Sizes # {}
    BY <1>1, <1>3
  <2> HIDE DEF Sizes
  <2> QED BY <2>1, LeastNat
<1>5. PICK s \in Bad : n = Cardinality(s)
  BY <1>4
<1>6. s # {}
  BY <1>2, <1>5 DEF SumWith
<1> DEFINE rest == s \ {SomeOf(s)}
<1>7. /\ rest \in SUBSET S /\ Cardinality(rest) < Cardinality(s) /\ SomeOf(s) \in S
      /\ Cardinality(rest) \in Nat
  BY <1>1, <1>5, <1>6, RestIsSmaller
<1>8. rest \notin Bad
  BY <1>1, <1>4, <1>5, <1>7
<1>9. f[rest] \in Int /\ v[SomeOf(s)] \in Int
  BY <1>7, <1>8
<1>10. f[s] = v[SomeOf(s)] + f[rest]
  BY <1>2, <1>5, <1>6 DEF SumWith
<1>11. f[s] \in Int
  BY <1>9, <1>10
<1> QED BY <1>5, <1>11
=============================================================================
