----------------------------- MODULE Window_proofs -----------------------------
(***************************************************************************)
(* Proofs about the hours parameter, for any default, clamp and width of a *)
(* time.Duration, and about the list and the summary, of any number of     *)
(* reviews.                                                                *)
(***************************************************************************)
EXTENDS Window, FiniteSetTheorems, FunctionTheorems, SequenceTheorems, TLAPS

-----------------------------------------------------------------------------
(* The window *)

\* A product that fits is the number itself: it does not wrap around.
LEMMA FittingHours ==
  ASSUME NEW n \in Int, 0 < n, n <= MaxDuration
  PROVE  Hours(n) = n
<1>1. MaxDuration \in Nat \ {0}
  BY WindowAssumption
<1>2. DEFINE period == 2 * MaxDuration + 1
<1>3. /\ n + MaxDuration \in Nat /\ period \in Nat \ {0}
      /\ n + MaxDuration < period
  BY <1>1
<1>4. (n + MaxDuration) % period = n + MaxDuration
  <2>1. \A k \in Nat, p \in Nat \ {0} : k < p => k % p = k
    BY SMT
  <2>2. QED
    BY <1>3, <2>1
<1>5. QED
  BY <1>1, <1>4 DEF Hours

\* "clamping to maxWindowHours so a crafted value can't widen the window without
\* bound" (handler.go:143-145): whatever a request asks for, its window is the
\* default or what was asked for, and at most the clamp.
THEOREM WindowIsClamped ==
  ASSUME NEW q \in Int \cup {NoHours}
  PROVE  /\ WindowOf(q) \in {DefaultWindow} \cup 1..MaxWindow
         /\ q \in 1..MaxWindow => WindowOf(q) = q
<1>1. /\ DefaultWindow \in Nat \ {0} /\ MaxWindow \in Nat \ {0} /\ MaxDuration \in Nat \ {0}
      /\ MaxWindow <= MaxDuration
  BY WindowAssumption
<1>2. Hours(MaxWindow) = MaxWindow
  BY <1>1, FittingHours
<1>3. ASSUME q \in Int, 0 < q, q <= MaxWindow
      PROVE  WindowOf(q) = q
  <2>1. Hours(q) = q
    BY <1>1, <1>3, FittingHours
  <2>2. QED
    BY <1>1, <1>3, <2>1, NoHoursAssumption DEF WindowOf
<1>4. ASSUME q \in Int, q > MaxWindow
      PROVE  WindowOf(q) = MaxWindow
  BY <1>1, <1>2, <1>4, NoHoursAssumption DEF WindowOf
<1>5. ASSUME q = NoHours \/ (q \in Int /\ q <= 0)
      PROVE  WindowOf(q) = DefaultWindow
  BY <1>5 DEF WindowOf
<1>6. QED
  BY <1>1, <1>3, <1>4, <1>5, NoHoursAssumption

\* A review that is listed for some hours is listed for more: the clamp keeps the
\* product with an hour from wrapping around (handler.go:143-145, 155-158).
THEOREM WiderWindowKeeps ==
  ASSUME NEW q \in Int, NEW r \in Int, 0 < q, q <= r,
         NEW review, NEW now \in Int, review.at \in Int,
         WithinLast(review, WindowOf(q), now)
  PROVE  WithinLast(review, WindowOf(r), now)
<1>1. /\ MaxWindow \in Nat \ {0} /\ MaxDuration \in Nat \ {0}
      /\ MaxWindow <= MaxDuration
  BY WindowAssumption
<1>2. ASSUME NEW n \in Int, 0 < n
      PROVE  WindowOf(n) = IF n > MaxWindow THEN MaxWindow ELSE n
  BY <1>1, <1>2, FittingHours, NoHoursAssumption DEF WindowOf
<1>3. WindowOf(q) <= WindowOf(r) /\ WindowOf(q) \in Int /\ WindowOf(r) \in Int
  BY <1>1, <1>2
<1>4. QED
  BY <1>3 DEF WithinLast

-----------------------------------------------------------------------------
(* Numbers *)

\* The lesser of two numbers.
LEMMA MinOfTwo ==
  ASSUME NEW a \in Int, NEW b \in Int
  PROVE  Min({a, b}) = IF a <= b THEN a ELSE b
<1>1. \E x \in {a, b} : \A y \in {a, b} : x <= y
  OBVIOUS
<1>2. /\ Min({a, b}) \in {a, b}
      /\ \A y \in {a, b} : Min({a, b}) <= y
  BY <1>1 DEF Min
<1>3. QED
  BY <1>2

\* The largest of the numbers of a set, once it is known.
LEMMA MaxIs ==
  ASSUME NEW S \in SUBSET Int, NEW m \in S, \A x \in S : x <= m
  PROVE  Max(S) = m
<1>1. \E x \in S : \A y \in S : x >= y
  <2>1. \A y \in S : m >= y
    OBVIOUS
  <2>2. QED
    BY <2>1
<1>2. Max(S) \in S /\ \A y \in S : Max(S) >= y
  BY <1>1 DEF Max
<1>3. Max(S) \in Int /\ m \in Int /\ Max(S) >= m /\ Max(S) <= m
  BY <1>2
<1>4. QED
  BY <1>3

\* Products with a common factor are in the order of the other one.
LEMMA Multiples ==
  ASSUME NEW c \in Nat, NEW d \in Nat, NEW u \in Nat \ {0}
  PROVE  /\ c * u \in Nat /\ d * u \in Nat
         /\ c <= d => c * u <= d * u
         /\ c > d => c * u >= d * u + u
<1>1. ASSUME NEW x \in Nat, NEW y \in Nat, x <= y
      PROVE  x * u <= y * u /\ x * u \in Nat /\ y * u \in Nat
  <2>1. PICK k \in Nat : y = x + k
    <3>1. y - x \in Nat /\ y = x + (y - x)
      BY <1>1
    <3>2. QED
      BY <3>1
  <2>2. y * u = x * u + k * u /\ k * u \in Nat /\ x * u \in Nat
    BY <2>1
  <2>3. QED
    BY <2>2
<1>2. c * u \in Nat /\ d * u \in Nat
  OBVIOUS
<1>3. ASSUME c > d PROVE c * u >= d * u + u
  <2>1. d + 1 \in Nat /\ d + 1 <= c
    BY <1>3
  <2>2. (d + 1) * u <= c * u
    BY <1>1, <2>1
  <2>3. (d + 1) * u = d * u + u
    OBVIOUS
  <2>4. QED
    BY <2>2, <2>3
<1>4. QED
  BY <1>1, <1>2, <1>3

\* The number of pages, without the division.
LEMMA Divided ==
  ASSUME NEW n \in Nat, NEW d \in Nat \ {0}
  PROVE  /\ n \div d \in Nat
         /\ (n \div d) * d <= n
         /\ n < (n \div d + 1) * d
BY SMT

\* Induction on the naturals, for a set of them.
LEMMA Counting ==
  ASSUME NEW S, 0 \in S, \A n \in Nat : n \in S => n + 1 \in S
  PROVE  Nat \subseteq S
<1> SUFFICES ASSUME Nat \ S # {} PROVE FALSE
  OBVIOUS
<1>1. PICK x \in Nat \ S : \A y \in Nat \ S : ~(<<y, x>> \in OpToRel(<, Nat))
  BY NatLessThanWellFounded, WFMin, Zenon
<1> x \in Nat /\ x \notin S
  OBVIOUS
<1>2. x # 0 /\ x - 1 \in Nat /\ x - 1 < x
  <2>1. x # 0
    OBVIOUS
  <2>2. QED
    BY <2>1
<1>3. <<x - 1, x>> \in OpToRel(<, Nat)
  BY <1>1, <1>2 DEF OpToRel
<1>4. x - 1 \in S
  BY <1>1, <1>2, <1>3
<1>5. x - 1 + 1 = x
  OBVIOUS
<1>6. QED
  BY <1>2, <1>4, <1>5

-----------------------------------------------------------------------------
(* Sorting: the rank of a place *)

\* In a finite set that is ordered by R, as many elements as its number come
\* before an element, and each number from zero is that of one element.
LEMMA Ranks ==
  ASSUME NEW I, IsFiniteSet(I), NEW R,
         \A i, j \in I : <<i, j>> \in R => <<j, i>> \notin R,
         \A i, j, k \in I : <<i, j>> \in R /\ <<j, k>> \in R => <<i, k>> \in R,
         \A i, j \in I : i # j => <<i, j>> \in R \/ <<j, i>> \in R,
         NEW rank, rank = [i \in I |-> Cardinality({j \in I : <<j, i>> \in R})]
  PROVE  /\ rank \in Bijection(I, 0..(Cardinality(I) - 1))
         /\ \A i, j \in I : rank[i] < rank[j] => <<i, j>> \in R
<1> DEFINE before(i) == {j \in I : <<j, i>> \in R}
<1> DEFINE n == Cardinality(I)
<1>1. n \in Nat
  BY FS_CardinalityType
<1>2. ASSUME NEW i \in I
      PROVE  IsFiniteSet(before(i)) /\ rank[i] = Cardinality(before(i)) /\ rank[i] \in Nat
  <2>1. before(i) \subseteq I
    OBVIOUS
  <2>2. IsFiniteSet(before(i))
    BY <2>1, FS_Subset
  <2>3. QED
    BY <2>2, FS_CardinalityType
<1>3. ASSUME NEW i \in I, NEW j \in I, <<i, j>> \in R
      PROVE  rank[i] < rank[j]
  <2>1. before(i) \subseteq before(j) /\ i \in before(j) /\ i \notin before(i)
    BY <1>3
  <2>2. before(i) \in SUBSET before(j) /\ before(i) # before(j)
    BY <2>1
  <2> HIDE DEF before
  <2>3. Cardinality(before(i)) <= Cardinality(before(j)) /\ Cardinality(before(i)) # Cardinality(before(j))
    BY <1>2, <2>2, FS_Subset
  <2>4. QED
    BY <1>2, <2>3
<1>4. ASSUME NEW i \in I
      PROVE  rank[i] < n
  <2>1. before(i) \in SUBSET I /\ before(i) # I
    OBVIOUS
  <2> HIDE DEF before
  <2>2. Cardinality(before(i)) <= n /\ Cardinality(before(i)) # n
    BY <2>1, FS_Subset
  <2>3. QED
    BY <1>1, <1>2, <2>2
<1>5. rank \in Injection(I, 0..(n - 1))
  <2>1. ASSUME NEW i \in I PROVE rank[i] \in 0..(n - 1)
    <3> HIDE DEF n
    <3>1. rank[i] \in Nat /\ rank[i] < n /\ n \in Nat
      BY <1>1, <1>2, <1>4
    <3>2. QED
      BY <3>1
  <2> HIDE DEF n
  <2>2. rank \in [I -> 0..(n - 1)]
    BY <2>1
  <2>3. ASSUME NEW i \in I, NEW j \in I, i # j
        PROVE  rank[i] # rank[j]
    <3>1. rank[i] \in Nat /\ rank[j] \in Nat
      BY <1>2
    <3>2. rank[i] < rank[j] \/ rank[j] < rank[i]
      BY <1>3, <2>3
    <3>3. QED
      BY <3>1, <3>2
  <2>4. DOMAIN rank = I /\ \A i, j \in I : rank[i] = rank[j] => i = j
    BY <2>3
  <2>5. IsInjective(rank)
    BY <2>4, Zenon DEF IsInjective
  <2>6. QED
    BY <2>2, <2>5 DEF Injection
<1>6. IsFiniteSet(0..(n - 1)) /\ Cardinality(0..(n - 1)) = n
  BY <1>1, FS_Interval
<1>7. rank \in Surjection(I, 0..(n - 1))
  BY <1>5, <1>6, FS_Injection
<1>8. ASSUME NEW i \in I, NEW j \in I, rank[i] < rank[j]
      PROVE  <<i, j>> \in R
  <2>1. rank[i] \in Nat /\ rank[j] \in Nat
    BY <1>2
  <2>2. i # j /\ ~(rank[j] < rank[i])
    BY <1>8, <2>1
  <2>3. QED
    BY <1>3, <2>2
<1>9. QED
  BY <1>5, <1>7, <1>8 DEF Bijection

\* What a list is sorted from: records of an id and a time.
LEMMA BeforeIsAnOrder ==
  ASSUME NEW rs, NEW I \in SUBSET Int,
         \A i \in I : rs[i] \in [id : Int, at : Int]
  PROVE  /\ \A i, j \in I : Before(rs, i, j) => ~Before(rs, j, i)
         /\ \A i, j, k \in I : Before(rs, i, j) /\ Before(rs, j, k) => Before(rs, i, k)
         /\ \A i, j \in I : i # j => Before(rs, i, j) \/ Before(rs, j, i)
<1>1. \A i \in I : rs[i].id \in Int /\ rs[i].at \in Int
  OBVIOUS
<1>2. \A i, j \in I : rs[i] = rs[j] <=> rs[i].id = rs[j].id /\ rs[i].at = rs[j].at
  OBVIOUS
<1>3. \A i, j \in I : Before(rs, i, j) <=>
         \/ rs[i].at > rs[j].at
         \/ rs[i].at = rs[j].at /\ rs[i].id > rs[j].id
         \/ rs[i].at = rs[j].at /\ rs[i].id = rs[j].id /\ i < j
  BY <1>2 DEF Before, Newer
<1>4. \A i, j \in I : Before(rs, i, j) => ~Before(rs, j, i)
  BY <1>1, <1>3
<1>5. \A i, j, k \in I : Before(rs, i, j) /\ Before(rs, j, k) => Before(rs, i, k)
  <2> TAKE i, j, k \in I
  <2>1. /\ rs[i].id \in Int /\ rs[j].id \in Int /\ rs[k].id \in Int
        /\ rs[i].at \in Int /\ rs[j].at \in Int /\ rs[k].at \in Int
        /\ i \in Int /\ j \in Int /\ k \in Int
    BY <1>1
  <2>2. QED
    BY <1>3, <2>1
<1>6. \A i, j \in I : i # j => Before(rs, i, j) \/ Before(rs, j, i)
  BY <1>1, <1>3
<1>7. QED
  BY <1>4, <1>5, <1>6

\* A sorted list has what it is sorted from, each once, in order.
LEMMA SortedFacts ==
  ASSUME NEW rs, NEW I \in SUBSET Int, IsFiniteSet(I),
         \A i \in I : rs[i] \in [id : Int, at : Int]
  PROVE  \E place \in Bijection(1..Cardinality(I), I) :
           /\ Sorted(rs, I) = [k \in 1..Cardinality(I) |-> rs[place[k]]]
           /\ \A k, l \in 1..Cardinality(I) : k < l => Before(rs, place[k], place[l])
<1> DEFINE n == Cardinality(I)
           R == {p \in I \X I : Before(rs, p[1], p[2])}
           rank == [i \in I |-> Cardinality({j \in I : <<j, i>> \in R})]
           place == [k \in 1..n |-> CHOOSE i \in I : Rank(rs, I, i) = k - 1]
<1>1. n \in Nat
  BY FS_CardinalityType
<1>2. \A i, j \in I : <<i, j>> \in R <=> Before(rs, i, j)
  OBVIOUS
<1>3. \A i \in I : rank[i] = Rank(rs, I, i)
  BY <1>2 DEF Rank
<1>4. /\ rank \in Bijection(I, 0..(n - 1))
      /\ \A i, j \in I : rank[i] < rank[j] => <<i, j>> \in R
  <2> HIDE DEF R
  <2>1. /\ \A i, j \in I : <<i, j>> \in R => <<j, i>> \notin R
        /\ \A i, j, k \in I : <<i, j>> \in R /\ <<j, k>> \in R => <<i, k>> \in R
        /\ \A i, j \in I : i # j => <<i, j>> \in R \/ <<j, i>> \in R
    BY <1>2, BeforeIsAnOrder
  <2>2. QED
    BY <2>1, Ranks
<1> HIDE DEF R, rank, n
<1>5. /\ \A k \in 1..n : k - 1 \in 0..(n - 1)
      /\ \A k \in 0..(n - 1) : k + 1 \in 1..n /\ k + 1 - 1 = k
  BY <1>1
<1>6. \A i \in I : rank[i] \in 0..(n - 1)
  BY <1>4 DEF Bijection, Injection
<1>7. \A i, j \in I : rank[i] = rank[j] => i = j
  BY <1>4, Fun_BijectionProperties
<1>8. \A k \in 1..n : place[k] \in I /\ rank[place[k]] = k - 1
  <2> TAKE k \in 1..n
  <2>1. \E i \in I : rank[i] = k - 1
    <3>1. \A t \in 0..(n - 1) : \E i \in I : rank[i] = t
      BY <1>4 DEF Bijection, Surjection
    <3>2. k - 1 \in 0..(n - 1)
      BY <1>5
    <3>3. QED
      BY <3>1, <3>2, Zenon
  <2>2. \E i \in I : Rank(rs, I, i) = k - 1
    BY <1>3, <2>1
  <2>3. place[k] \in I /\ Rank(rs, I, place[k]) = k - 1
    BY <2>2
  <2>4. QED
    BY <1>3, <2>3
<1>9. Sorted(rs, I) = [k \in 1..n |-> rs[place[k]]]
  BY DEF Sorted, n
<1>10. place \in Bijection(1..n, I)
  <2>1. place \in [1..n -> I]
    BY <1>8
  <2> HIDE DEF place
  <2>2. \A k, l \in 1..n : place[k] = place[l] => k = l
    BY <1>8
  <2>3. \A i \in I : \E k \in 1..n : place[k] = i
    <3> TAKE i \in I
    <3> DEFINE k == rank[i] + 1
    <3>1. k \in 1..n /\ k - 1 = rank[i]
      BY <1>5, <1>6
    <3> HIDE DEF k
    <3>2. rank[place[k]] = rank[i] /\ place[k] \in I
      BY <1>8, <3>1
    <3>3. place[k] = i
      BY <1>7, <3>2
    <3>4. QED
      BY <3>1, <3>3
  <2>4. QED
    BY <2>1, <2>2, <2>3, Fun_IsBij
<1>11. ASSUME NEW k \in 1..n, NEW l \in 1..n, k < l
       PROVE  Before(rs, place[k], place[l])
  <2> HIDE DEF place
  <2>1. rank[place[k]] < rank[place[l]]
    BY <1>8, <1>11
  <2>2. QED
    BY <1>2, <1>4, <1>8, <2>1
<1>12. QED
  BY <1>9, <1>10, <1>11 DEF n

-----------------------------------------------------------------------------
(* Sums and counts over finite sets *)

\* The equation that SumFunctionOnSet solves, at one set.
SumStep(f, g, s) ==
  IF s = {} THEN 0
  ELSE LET x == CHOOSE x \in s : TRUE IN f[x] + g[s \ {x}]

\* Subsets of a finite set, and one element less.
LEMMA SubsetCounts ==
  ASSUME NEW D, IsFiniteSet(D), NEW s \in SUBSET D
  PROVE  /\ IsFiniteSet(s) /\ Cardinality(s) \in Nat /\ Cardinality(s) <= Cardinality(D)
         /\ Cardinality(s) = 0 <=> s = {}
         /\ s # {} => (CHOOSE x \in s : TRUE) \in s
         /\ \A x \in s : s \ {x} \in SUBSET D /\ Cardinality(s \ {x}) = Cardinality(s) - 1
<1>1. IsFiniteSet(s) /\ Cardinality(s) <= Cardinality(D)
  BY FS_Subset
<1>2. Cardinality(s) \in Nat /\ (Cardinality(s) = 0 <=> s = {})
  BY <1>1, FS_CardinalityType, FS_EmptySet
<1>3. \A x \in s : Cardinality(s \ {x}) = Cardinality(s) - 1
  BY <1>1, FS_RemoveElement
<1>4. QED
  BY <1>1, <1>2, <1>3

\* There is a function that does what the fold of SumFunction is to do.
LEMMA SumExists ==
  ASSUME NEW D, IsFiniteSet(D), NEW f
  PROVE  \E g : g = [s \in SUBSET D |-> SumStep(f, g, s)]
<1> DEFINE Upto(g, m) == \A s \in SUBSET D : Cardinality(s) <= m => g[s] = SumStep(f, g, s)
           M == {m \in Nat : \E g : g = [s \in SUBSET D |-> g[s]] /\ Upto(g, m)}
<1>1. 0 \in M
  <2> DEFINE g == [s \in SUBSET D |-> 0]
  <2>1. Upto(g, 0)
    BY SubsetCounts DEF SumStep
  <2>2. g = [s \in SUBSET D |-> g[s]]
    OBVIOUS
  <2> HIDE DEF g
  <2>3. QED
    BY <2>1, <2>2
<1>2. ASSUME NEW m \in Nat, m \in M
      PROVE  m + 1 \in M
  <2>1. PICK g : g = [s \in SUBSET D |-> g[s]] /\ Upto(g, m)
    BY <1>2
  <2> DEFINE h == [s \in SUBSET D |-> IF Cardinality(s) <= m THEN g[s] ELSE SumStep(f, g, s)]
  <2>2. ASSUME NEW s \in SUBSET D, Cardinality(s) <= m + 1
        PROVE  h[s] = SumStep(f, h, s)
    <3>1. h[s] = SumStep(f, g, s)
      BY <2>1
    <3>2. CASE s = {}
      BY <3>1, <3>2 DEF SumStep
    <3>3. CASE s # {}
      <4> DEFINE x == CHOOSE x \in s : TRUE
                 r == s \ {x}
      <4>1. r \in SUBSET D /\ Cardinality(r) <= m
        BY <2>2, <3>3, SubsetCounts
      <4>2. h[r] = g[r]
        BY <4>1
      <4>3. SumStep(f, g, s) = f[x] + g[r] /\ SumStep(f, h, s) = f[x] + h[r]
        BY <3>3 DEF SumStep
      <4>4. QED
        BY <3>1, <4>2, <4>3
    <3>4. QED
      BY <3>2, <3>3
  <2>3. h = [s \in SUBSET D |-> h[s]]
    OBVIOUS
  <2> HIDE DEF h
  <2>4. Upto(h, m + 1)
    BY <2>2
  <2> HIDE DEF Upto
  <2>5. \E k : k = [s \in SUBSET D |-> k[s]] /\ Upto(k, m + 1)
    BY <2>3, <2>4
  <2>6. QED
    BY <2>5
<1> HIDE DEF M
<1>3. Cardinality(D) \in M
  <2>1. Cardinality(D) \in Nat
    BY FS_CardinalityType
  <2>2. Nat \subseteq M
    BY <1>1, <1>2, Counting
  <2>3. QED
    BY <2>1, <2>2
<1>4. PICK g : g = [s \in SUBSET D |-> g[s]] /\ Upto(g, Cardinality(D))
  BY <1>3 DEF M
<1>5. \A s \in SUBSET D : g[s] = SumStep(f, g, s)
  BY <1>4, SubsetCounts
<1>6. g = [s \in SUBSET D |-> SumStep(f, g, s)]
  BY <1>4, <1>5
<1>7. QED
  BY <1>6

\* g has the sums of f over the subsets of D.
SumsUp(g, f, D) ==
  /\ g[{}] = 0
  /\ \A s \in SUBSET D : g[s] \in Int /\ \A x \in s : g[s] = f[x] + g[s \ {x}]

\* A sum over a finite set, whatever the order in which it is taken.
LEMMA SumFacts ==
  ASSUME NEW D, IsFiniteSet(D), NEW f, DOMAIN f = D, \A x \in D : f[x] \in Int
  PROVE  \E g : SumFunction(f) = g[D] /\ SumsUp(g, f, D)
<1> DEFINE g == CHOOSE g : g = [s \in SUBSET D |-> SumStep(f, g, s)]
<1>1. SumFunction(f) = g[D]
  BY DEF SumFunction, SumFunctionOnSet, FoldFunctionOnSet, MapThenFoldSet, SumStep
<1>2. g = [s \in SUBSET D |-> SumStep(f, g, s)]
  BY SumExists
<1> HIDE DEF g
<1>3. \A s \in SUBSET D : g[s] = SumStep(f, g, s)
  BY <1>2
<1>4. g[{}] = 0
  BY <1>3 DEF SumStep
<1> DEFINE Good(s) == g[s] \in Int /\ \A x \in s : g[s] = f[x] + g[s \ {x}]
           M == {m \in Nat : \A s \in SUBSET D : Cardinality(s) <= m => Good(s)}
<1>5. 0 \in M
  <2>1. \A s \in SUBSET D : Cardinality(s) <= 0 => s = {}
    BY SubsetCounts
  <2>2. Good({})
    BY <1>4
  <2>3. QED
    BY <2>1, <2>2
<1>6. ASSUME NEW m \in Nat, m \in M
      PROVE  m + 1 \in M
  <2> SUFFICES ASSUME NEW s \in SUBSET D, Cardinality(s) <= m + 1
               PROVE  Good(s)
    OBVIOUS
  <2>1. CASE s = {}
    BY <1>4, <2>1
  <2>2. CASE s # {}
    <3> DEFINE c == CHOOSE x \in s : TRUE
    <3>1. c \in s
      BY <2>2
    <3>2. g[s] = f[c] + g[s \ {c}]
      BY <1>3, <2>2 DEF SumStep
    <3> HIDE DEF c
    <3>3. \A x \in s : s \ {x} \in SUBSET D /\ Good(s \ {x})
      <4> TAKE x \in s
      <4>1. s \ {x} \in SUBSET D /\ Cardinality(s \ {x}) <= m
        BY SubsetCounts
      <4>2. QED
        BY <1>6, <4>1
    <3>4. g[s] \in Int
      BY <3>1, <3>2, <3>3
    <3>5. ASSUME NEW x \in s, x # c
          PROVE  g[s] = f[x] + g[s \ {x}]
      <4>1. x \in s \ {c} /\ c \in s \ {x}
        BY <3>1, <3>5
      <4>2. g[s \ {c}] = f[x] + g[(s \ {c}) \ {x}]
        BY <3>1, <3>3, <4>1
      <4>3. g[s \ {x}] = f[c] + g[(s \ {x}) \ {c}]
        BY <3>3, <4>1
      <4>4. (s \ {c}) \ {x} = (s \ {x}) \ {c}
        OBVIOUS
      <4> DEFINE r == g[(s \ {x}) \ {c}]
      <4>5. (s \ {x}) \ {c} \in SUBSET D /\ Cardinality((s \ {x}) \ {c}) <= m
        <5>1. s \ {x} \in SUBSET D /\ Cardinality(s \ {x}) <= m /\ Cardinality(s \ {x}) \in Nat
          BY SubsetCounts
        <5>2. QED
          BY <4>1, <5>1, SubsetCounts
      <4>6. r \in Int /\ f[x] \in Int /\ f[c] \in Int
        BY <1>6, <3>1, <4>5
      <4> HIDE DEF r
      <4>7. g[s] = f[c] + (f[x] + r) /\ g[s \ {x}] = f[c] + r
        BY <3>2, <4>2, <4>3, <4>4 DEF r
      <4>8. QED
        BY <4>6, <4>7
    <3>6. QED
      BY <3>2, <3>4, <3>5
  <2>3. QED
    BY <2>1, <2>2
<1> HIDE DEF M
<1>7. Nat \subseteq M
  BY <1>5, <1>6, Counting
<1>8. \A s \in SUBSET D : Good(s)
  <2>1. Cardinality(D) \in M
    BY <1>7, FS_CardinalityType
  <2>2. QED
    BY <2>1, SubsetCounts DEF M
<1>9. SumsUp(g, f, D)
  BY <1>4, <1>8 DEF SumsUp
<1>10. QED
  BY <1>1, <1>9

\* The five stars, one by one.
LEMMA StarSum ==
  ASSUME NEW f, DOMAIN f = Star, \A n \in Star : f[n] \in Int
  PROVE  SumFunction(f) = f[1] + f[2] + f[3] + f[4] + f[5]
<1>1. IsFiniteSet(Star)
  <2>1. 1 \in Int /\ 5 \in Int
    OBVIOUS
  <2>2. QED
    BY <2>1, FS_Interval, Zenon DEF Star
<1>2. PICK g : SumFunction(f) = g[Star] /\ SumsUp(g, f, Star)
  BY <1>1, SumFacts
<1>3. /\ Star = {1, 2, 3, 4, 5}
      /\ Star \ {5} = {1, 2, 3, 4} /\ {1, 2, 3, 4} \ {4} = {1, 2, 3}
      /\ {1, 2, 3} \ {3} = {1, 2} /\ {1, 2} \ {2} = {1} /\ {1} \ {1} = {}
  <2>1. \A n : n \in Star <=> n \in {1, 2, 3, 4, 5}
    BY DEF Star
  <2>2. Star = {1, 2, 3, 4, 5}
    BY <2>1
  <2>3. QED
    BY <2>2
<1>4. g[Star] = f[5] + g[{1, 2, 3, 4}]
  BY <1>2, <1>3 DEF SumsUp
<1>5. g[{1, 2, 3, 4}] = f[4] + g[{1, 2, 3}]
  BY <1>2, <1>3 DEF SumsUp
<1>6. g[{1, 2, 3}] = f[3] + g[{1, 2}]
  BY <1>2, <1>3 DEF SumsUp
<1>7. g[{1, 2}] = f[2] + g[{1}]
  BY <1>2, <1>3 DEF SumsUp
<1>8. g[{1}] = f[1] + g[{}]
  BY <1>2, <1>3 DEF SumsUp
<1>9. f[1] \in Int /\ f[2] \in Int /\ f[3] \in Int /\ f[4] \in Int /\ f[5] \in Int
  BY <1>3
<1>10. QED
  BY <1>2, <1>4, <1>5, <1>6, <1>7, <1>8, <1>9 DEF SumsUp

CountOf(f, s, n) == Cardinality({i \in s : f[i] = n})

\* Ratings by star: their number and their sum.
LEMMA StarCounts ==
  ASSUME NEW I, IsFiniteSet(I), NEW f, DOMAIN f = I, \A i \in I : f[i] \in Star
  PROVE  /\ \A n \in Star : CountOf(f, I, n) \in Nat
         /\ Cardinality(I) = CountOf(f, I, 1) + CountOf(f, I, 2) + CountOf(f, I, 3)
                               + CountOf(f, I, 4) + CountOf(f, I, 5)
         /\ SumFunction(f) = CountOf(f, I, 1) + 2 * CountOf(f, I, 2) + 3 * CountOf(f, I, 3)
                               + 4 * CountOf(f, I, 4) + 5 * CountOf(f, I, 5)
<1>1. \A i \in I : f[i] \in Int /\ f[i] \in {1, 2, 3, 4, 5}
  BY DEF Star
<1>2. PICK g : SumFunction(f) = g[I] /\ SumsUp(g, f, I)
  BY <1>1, SumFacts
<1>3. ASSUME NEW s \in SUBSET I, NEW n \in Int
      PROVE  CountOf(f, s, n) \in Nat
  <2>1. {i \in s : f[i] = n} \in SUBSET I
    OBVIOUS
  <2>2. QED
    BY <2>1, SubsetCounts DEF CountOf
<1>4. ASSUME NEW s \in SUBSET I, NEW x \in s, NEW n \in Int
      PROVE  CountOf(f, s, n) = CountOf(f, s \ {x}, n) + (IF f[x] = n THEN 1 ELSE 0)
  <2> DEFINE t == {i \in s : f[i] = n}
  <2>1. t \in SUBSET I /\ {i \in s \ {x} : f[i] = n} = t \ {x}
    OBVIOUS
  <2>2. CASE f[x] = n
    <3>1. x \in t
      BY <2>2
    <3> HIDE DEF t
    <3>2. Cardinality(t \ {x}) = Cardinality(t) - 1 /\ Cardinality(t) \in Nat
      BY <2>1, <3>1, SubsetCounts
    <3>3. CountOf(f, s, n) = Cardinality(t) /\ CountOf(f, s \ {x}, n) = Cardinality(t \ {x})
      BY <2>1 DEF CountOf, t
    <3>4. QED
      BY <2>2, <3>2, <3>3
  <2>3. CASE f[x] # n
    <3>1. t \ {x} = t
      BY <2>3
    <3>2. CountOf(f, s \ {x}, n) = CountOf(f, s, n)
      BY <2>1, <3>1 DEF CountOf
    <3>3. CountOf(f, s, n) \in Nat
      BY <1>3
    <3>4. QED
      BY <2>3, <3>2, <3>3
  <2>4. QED
    BY <2>2, <2>3
<1> DEFINE c(s, n) == CountOf(f, s, n)
           Good(s) == /\ Cardinality(s) = c(s, 1) + c(s, 2) + c(s, 3) + c(s, 4) + c(s, 5)
                      /\ g[s] = c(s, 1) + 2 * c(s, 2) + 3 * c(s, 3) + 4 * c(s, 4) + 5 * c(s, 5)
           M == {m \in Nat : \A s \in SUBSET I : Cardinality(s) <= m => Good(s)}
<1>5. 0 \in M
  <2>1. \A s \in SUBSET I : Cardinality(s) <= 0 => s = {}
    BY SubsetCounts
  <2>2. \A n : {i \in {} : f[i] = n} = {}
    OBVIOUS
  <2>3. \A n : c({}, n) = 0
    BY <2>2, FS_EmptySet DEF CountOf
  <2>4. Good({})
    BY <1>2, <2>3, FS_EmptySet DEF SumsUp
  <2>5. QED
    BY <2>1, <2>4
<1>6. ASSUME NEW m \in Nat, m \in M
      PROVE  m + 1 \in M
  <2> SUFFICES ASSUME NEW s \in SUBSET I, Cardinality(s) <= m + 1
               PROVE  Good(s)
    OBVIOUS
  <2>1. CASE s = {}
    BY <1>5, <2>1, SubsetCounts
  <2>2. CASE s # {}
    <3>1. PICK x \in s : TRUE
      BY <2>2
    <3> DEFINE r == s \ {x}
    <3>2. r \in SUBSET I /\ Cardinality(r) = Cardinality(s) - 1 /\ Cardinality(s) \in Nat
      BY SubsetCounts
    <3>3. Good(r)
      BY <1>6, <3>2
    <3>4. g[s] = f[x] + g[r] /\ g[r] \in Int
      BY <1>2, <3>2 DEF SumsUp
    <3>5. \A n \in Int : c(s, n) = c(r, n) + (IF f[x] = n THEN 1 ELSE 0)
      BY <1>4
    <3>6. /\ c(r, 1) \in Nat /\ c(r, 2) \in Nat /\ c(r, 3) \in Nat
          /\ c(r, 4) \in Nat /\ c(r, 5) \in Nat
      BY <1>3, <3>2
    <3>7. f[x] \in {1, 2, 3, 4, 5}
      BY <1>1
    <3> HIDE DEF r, c
    <3>8. Cardinality(s) = Cardinality(r) + 1
      BY <3>2
    <3>9. QED
      BY <3>3, <3>4, <3>5, <3>6, <3>7, <3>8
  <2>3. QED
    BY <2>1, <2>2
<1> HIDE DEF M, Good
<1>7. Nat \subseteq M
  BY <1>5, <1>6, Counting
<1>8. Good(I)
  <2>1. Cardinality(I) \in M /\ Cardinality(I) \in Nat
    BY <1>7, FS_CardinalityType
  <2>2. QED
    BY <2>1 DEF M
<1>9. \A n \in Star : CountOf(f, I, n) \in Nat
  BY <1>3 DEF Star
<1>10. QED
  BY <1>2, <1>8, <1>9 DEF Good

\* As many places of a list are of some kind as there are of it in what the list is
\* made from.
LEMMA PlacesOf ==
  ASSUME NEW I, IsFiniteSet(I), NEW N, NEW place \in Bijection(N, I), NEW A \in SUBSET I
  PROVE  Cardinality({k \in N : place[k] \in A}) = Cardinality(A)
<1> DEFINE B == {k \in N : place[k] \in A}
           h == [k \in B |-> place[k]]
<1>1. /\ \A k \in N : place[k] \in I
      /\ \A k, l \in N : place[k] = place[l] => k = l
      /\ \A i \in I : \E k \in N : place[k] = i
  BY DEF Bijection, Injection, Surjection, IsInjective
<1>2. h \in [B -> A]
  OBVIOUS
<1>3. \A k, l \in B : h[k] = h[l] => k = l
  BY <1>1
<1>4. \A i \in A : \E k \in B : h[k] = i
  BY <1>1
<1> HIDE DEF B, h
<1>5. h \in Bijection(B, A)
  BY <1>2, <1>3, <1>4, Fun_IsBij
<1>6. ExistsBijection(A, B)
  BY <1>5, Fun_ExistsBijSymmetric DEF ExistsBijection
<1>7. IsFiniteSet(A)
  BY FS_Subset
<1>8. QED
  BY <1>6, <1>7, FS_Bijection DEF B

-----------------------------------------------------------------------------
(* The list and the summary *)

\* The stored reviews of an app: each id once.
Reviews(rs) ==
  /\ rs \in Seq([id : Int, at : Int])
  /\ \A i, j \in DOMAIN rs : rs[i].id = rs[j].id => i = j

\* The places of the reviews of the window.
LEMMA WithinFacts ==
  ASSUME NEW rs, Reviews(rs), NEW d \in Int, NEW t \in Int
  PROVE  /\ Within(rs, d, t) \in SUBSET DOMAIN rs /\ Within(rs, d, t) \in SUBSET Int
         /\ IsFiniteSet(Within(rs, d, t)) /\ Cardinality(Within(rs, d, t)) \in Nat
         /\ \A i \in DOMAIN rs : i \in Within(rs, d, t) <=> t - rs[i].at \in 0..d
         /\ \A i \in DOMAIN rs : rs[i] \in [id : Int, at : Int]
<1>1. DOMAIN rs = 1..Len(rs) /\ Len(rs) \in Nat
  BY LenProperties DEF Reviews
<1>2. IsFiniteSet(DOMAIN rs)
  BY <1>1, FS_Interval
<1>3. Within(rs, d, t) \in SUBSET DOMAIN rs
  BY DEF Within
<1>4. \A i \in DOMAIN rs : rs[i] \in [id : Int, at : Int]
  BY ElementOfSeq, <1>1 DEF Reviews
<1>5. \A i \in DOMAIN rs : i \in Within(rs, d, t) <=> t - rs[i].at \in 0..d
  BY <1>4 DEF Within, WithinLast
<1>6. QED
  BY <1>1, <1>2, <1>3, <1>4, <1>5, FS_Subset, FS_CardinalityType

\* GetRecentReviews (service.go:41-55): the list has the reviews of the window, each
\* once, in strict order, however they were stored.
THEOREM ListIsTheWindow ==
  ASSUME NEW T \in SUBSET [id : Int, at : Int], NEW rs \in Seq(T), Reviews(rs),
         NEW d \in Int, NEW t \in Int
  PROVE  /\ RecentReviews(rs, d, t) \in Seq(T)
         /\ Range(RecentReviews(rs, d, t)) = {r \in Range(rs) : t - r.at \in 0..d}
         /\ \A i, j \in DOMAIN RecentReviews(rs, d, t) :
              i < j => /\ Newer(RecentReviews(rs, d, t)[i], RecentReviews(rs, d, t)[j])
                       /\ RecentReviews(rs, d, t)[i].id # RecentReviews(rs, d, t)[j].id
<1> DEFINE I == Within(rs, d, t)
           n == Cardinality(I)
           list == RecentReviews(rs, d, t)
<1>1. /\ I \in SUBSET DOMAIN rs /\ I \in SUBSET Int /\ IsFiniteSet(I) /\ n \in Nat
      /\ \A i \in DOMAIN rs : i \in I <=> t - rs[i].at \in 0..d
      /\ \A i \in DOMAIN rs : rs[i] \in [id : Int, at : Int]
  BY WithinFacts
<1> HIDE DEF I
<1>2. PICK place \in Bijection(1..n, I) :
        /\ Sorted(rs, I) = [k \in 1..n |-> rs[place[k]]]
        /\ \A k, l \in 1..n : k < l => Before(rs, place[k], place[l])
  BY <1>1, SortedFacts
<1>3. list = [k \in 1..n |-> rs[place[k]]]
  BY <1>2 DEF RecentReviews, I
<1>4. /\ \A k \in 1..n : place[k] \in I
      /\ \A k, l \in 1..n : place[k] = place[l] => k = l
      /\ \A i \in I : \E k \in 1..n : place[k] = i
  BY DEF Bijection, Injection, Surjection, IsInjective
<1> HIDE DEF n, list
<1>5. \A i \in DOMAIN rs : rs[i] \in T
  BY ElementOfSeq, LenProperties
<1>6. list \in Seq(T)
  <2>1. \A k \in 1..n : rs[place[k]] \in T
    BY <1>1, <1>4, <1>5
  <2>2. QED
    BY <1>1, <1>3, <2>1, IsASeq
<1>7. DOMAIN list = 1..n /\ \A k \in 1..n : list[k] = rs[place[k]]
  BY <1>3
<1>8. Range(list) = {r \in Range(rs) : t - r.at \in 0..d}
  <2>1. ASSUME NEW r, r \in Range(list)
        PROVE  r \in Range(rs) /\ t - r.at \in 0..d
    <3>1. PICK k \in 1..n : r = rs[place[k]]
      BY <1>7, <2>1 DEF Range
    <3>2. place[k] \in DOMAIN rs /\ place[k] \in I
      BY <1>1, <1>4
    <3>3. QED
      BY <1>1, <3>1, <3>2 DEF Range
  <2>2. ASSUME NEW r \in Range(rs), t - r.at \in 0..d
        PROVE  r \in Range(list)
    <3>1. PICK i \in DOMAIN rs : r = rs[i]
      BY DEF Range
    <3>2. i \in I
      BY <1>1, <2>2, <3>1
    <3>3. PICK k \in 1..n : place[k] = i
      BY <1>4, <3>2
    <3>4. QED
      BY <1>7, <3>1, <3>3 DEF Range
  <2>3. QED
    BY <2>1, <2>2
<1>9. ASSUME NEW k \in 1..n, NEW l \in 1..n, k < l
      PROVE  Newer(list[k], list[l]) /\ list[k].id # list[l].id
  <2>1. Before(rs, place[k], place[l])
    BY <1>2, <1>9
  <2>2. place[k] \in DOMAIN rs /\ place[l] \in DOMAIN rs /\ place[k] # place[l]
    BY <1>1, <1>4, <1>9
  <2>3. rs[place[k]].id # rs[place[l]].id
    BY <2>2 DEF Reviews
  <2>4. QED
    BY <1>7, <2>1, <2>3 DEF Before
<1>10. QED
  BY <1>6, <1>7, <1>8, <1>9 DEF list

\* The reviews of n stars that a list has.
StarsIn(list, n) == Cardinality({i \in DOMAIN list : ScoreOf[list[i].id] = n})

\* GetSummary (service.go:108-132): the summary is of the list of the same window, its
\* total, its counts by star, its sum of stars and its last update.
THEOREM SummaryIsOfTheList ==
  ASSUME NEW rs, Reviews(rs), NEW d \in Int, NEW t \in Int,
         NEW list, list = RecentReviews(rs, d, t),
         NEW s, s = Summary(rs, d, t)
  PROVE  /\ s.total = Len(list) /\ Len(list) \in Nat
         /\ DOMAIN s.countByStar = Star
         /\ \A n \in Star : s.countByStar[n] = StarsIn(list, n) /\ StarsIn(list, n) \in Nat
         /\ (\A i \in DOMAIN rs : ScoreOf[rs[i].id] \in Star) =>
              /\ s.sum = StarsIn(list, 1) + 2 * StarsIn(list, 2) + 3 * StarsIn(list, 3) + 4 * StarsIn(list, 4) + 5 * StarsIn(list, 5)
              /\ s.total = StarsIn(list, 1) + StarsIn(list, 2) + StarsIn(list, 3) + StarsIn(list, 4) + StarsIn(list, 5)
         /\ (\A i \in DOMAIN rs : rs[i].at >= -1) /\ list # <<>> => s.lastUpdated = list[1].at
<1> DEFINE I == Within(rs, d, t)
           N == Cardinality(I)
           score == [i \in I |-> ScoreOf[rs[i].id]]
<1>1. /\ I \in SUBSET DOMAIN rs /\ I \in SUBSET Int /\ IsFiniteSet(I) /\ N \in Nat
      /\ \A i \in DOMAIN rs : rs[i] \in [id : Int, at : Int]
  BY WithinFacts
<1>2. s = [total |-> N,
           countByStar |-> [n \in Star |-> Cardinality({i \in I : ScoreOf[rs[i].id] = n})],
           sum |-> SumFunction(score),
           lastUpdated |-> Max({-1} \cup {rs[i].at : i \in I})]
  BY DEF Summary, Counted
<1> HIDE DEF I
<1>3. PICK place \in Bijection(1..N, I) :
        /\ Sorted(rs, I) = [k \in 1..N |-> rs[place[k]]]
        /\ \A k, l \in 1..N : k < l => Before(rs, place[k], place[l])
  BY <1>1, SortedFacts
<1>4. list = [k \in 1..N |-> rs[place[k]]]
  BY <1>3 DEF RecentReviews, I
<1>5. /\ \A k \in 1..N : place[k] \in I
      /\ \A i \in I : \E k \in 1..N : place[k] = i
  BY DEF Bijection, Injection, Surjection, IsInjective
<1> HIDE DEF N
<1>6. /\ DOMAIN list = 1..N /\ Len(list) = N
      /\ \A k \in 1..N : list[k] = rs[place[k]]
  <2>1. list \in Seq([id : Int, at : Int])
    BY <1>1, <1>4, <1>5, IsASeq
  <2>2. QED
    BY <1>1, <1>4, <2>1, LenProperties
<1>7. ASSUME NEW n
      PROVE  StarsIn(list, n) = CountOf(score, I, n)
  <2> DEFINE A == {i \in I : score[i] = n}
  <2>1. {k \in 1..N : ScoreOf[list[k].id] = n} = {k \in 1..N : place[k] \in A}
    BY <1>5, <1>6
  <2>2. A \in SUBSET I
    OBVIOUS
  <2> HIDE DEF A
  <2>3. Cardinality({k \in 1..N : place[k] \in A}) = Cardinality(A)
    BY <1>1, <2>2, PlacesOf
  <2>4. QED
    BY <1>6, <2>1, <2>3 DEF CountOf, A, StarsIn
<1>8. \A n \in Star : s.countByStar[n] = StarsIn(list, n) /\ StarsIn(list, n) \in Nat
  <2> TAKE n \in Star
  <2>1. {i \in I : score[i] = n} = {i \in I : ScoreOf[rs[i].id] = n}
    OBVIOUS
  <2>2. s.countByStar[n] = Cardinality({i \in I : ScoreOf[rs[i].id] = n})
    BY <1>2
  <2>3. s.countByStar[n] = CountOf(score, I, n)
    BY <2>1, <2>2 DEF CountOf
  <2> DEFINE A == {i \in I : score[i] = n}
  <2>4. A \in SUBSET I
    OBVIOUS
  <2> HIDE DEF A
  <2>5. Cardinality(A) \in Nat
    BY <1>1, <2>4, SubsetCounts
  <2>6. QED
    BY <1>7, <2>3, <2>5 DEF A, CountOf
<1>9. s.total = Len(list) /\ Len(list) \in Nat /\ DOMAIN s.countByStar = Star
  BY <1>1, <1>2, <1>6
<1>10. ASSUME \A i \in DOMAIN rs : ScoreOf[rs[i].id] \in Star
       PROVE  /\ s.sum = StarsIn(list, 1) + 2 * StarsIn(list, 2) + 3 * StarsIn(list, 3) + 4 * StarsIn(list, 4) + 5 * StarsIn(list, 5)
              /\ s.total = StarsIn(list, 1) + StarsIn(list, 2) + StarsIn(list, 3) + StarsIn(list, 4) + StarsIn(list, 5)
  <2>1. DOMAIN score = I /\ \A i \in I : score[i] \in Star
    BY <1>1, <1>10
  <2>2. s.sum = SumFunction(score) /\ s.total = Cardinality(I)
    BY <1>2 DEF N
  <2> HIDE DEF score
  <2>3. /\ Cardinality(I) = CountOf(score, I, 1) + CountOf(score, I, 2) + CountOf(score, I, 3)
                               + CountOf(score, I, 4) + CountOf(score, I, 5)
         /\ SumFunction(score) = CountOf(score, I, 1) + 2 * CountOf(score, I, 2) + 3 * CountOf(score, I, 3)
                               + 4 * CountOf(score, I, 4) + 5 * CountOf(score, I, 5)
    BY <1>1, <2>1, StarCounts
  <2>4. QED
    BY <1>7, <2>2, <2>3
<1>11. ASSUME \A i \in DOMAIN rs : rs[i].at >= -1, list # <<>>
       PROVE  s.lastUpdated = list[1].at
  <2> DEFINE S == {-1} \cup {rs[i].at : i \in I}
             top == list[1].at
  <2>1. 1 \in 1..N
    BY <1>1, <1>4, <1>11
  <2>2. place[1] \in I /\ list[1] = rs[place[1]]
    BY <1>5, <1>6, <2>1
  <2>3. top \in Int /\ top \in S
    BY <1>1, <2>2
  <2>4. ASSUME NEW i \in I
        PROVE  rs[i].at \in Int /\ rs[i].at <= top
    <3>1. PICK k \in 1..N : place[k] = i
      BY <1>5
    <3>2. rs[i].at \in Int /\ i \in DOMAIN rs /\ rs[place[1]].at \in Int
      BY <1>1, <2>2
    <3>3. k = 1 \/ Before(rs, place[1], i)
      BY <1>3, <2>1, <3>1
    <3>4. QED
      BY <2>2, <3>1, <3>2, <3>3 DEF Before, Newer
  <2>5. S \in SUBSET Int /\ \A x \in S : top >= x
    BY <1>1, <1>11, <2>2, <2>3, <2>4
  <2>6. s.lastUpdated = Max(S)
    BY <1>2
  <2> HIDE DEF S, top
  <2>7. Max(S) \in S /\ \A x \in S : Max(S) >= x
    BY <2>3, <2>5 DEF Max
  <2>8. Max(S) = top
    <3>1. Max(S) \in Int /\ top \in Int /\ Max(S) >= top /\ top >= Max(S)
      BY <2>3, <2>5, <2>7
    <3> HIDE DEF Max
    <3>2. QED
      BY <3>1
  <2>9. QED
    BY <2>6, <2>8 DEF top
<1>12. QED
  BY <1>8, <1>9, <1>10, <1>11
===============================================================================
