---------------------------- MODULE Polling_proofs -----------------------------
(***************************************************************************)
(* Proofs about the polls of an app, for any feed, pages of any size, any  *)
(* cap and window, and any parameters of requests: what a poll has to find *)
(* is stored, and what a request reads of it is exact.                     *)
(***************************************************************************)
EXTENDS Polling, Window_proofs

\* No id is twice in the feed, and none in the store.
Unique(rs) == \A i, j \in DOMAIN rs : rs[i].id = rs[j].id => i = j

IdsAreUnique == Unique(feed) /\ Unique(stored)

\* What has been parsed has stars.
StarsAreRead == Parses(got) /\ Parses(stored)

\* No review is from before the first one that can be.
Dated(rs) == \A r \in Range(rs) : r.at >= -1

AllDated == Dated(feed) /\ Dated(got) /\ Dated(stored)

\* The review is on a page of the feed that is yet to be asked for.
Ahead(r) == \E k \in DOMAIN feed : feed[k] = r /\ k > (page - 1) * PageSize

\* What a poll under way has to find is in its window, and read or ahead.
DueIsAhead ==
  phase = "fetch" => \A r \in due : r.at >= cutoff /\ (r.id \in Ids(got) \/ Ahead(r))

\* What is left of it when the poll has read its last page has been read.
DueIsRead ==
  phase = "save" => \A r \in due : r.id \in Ids(got)

IInv ==
  TypeOK /\ IdsAreUnique /\ StarsAreRead /\ AllDated /\ DueIsAhead /\ DueIsRead

-----------------------------------------------------------------------------
(* Inserting and removing *)

\* What InsertAt does to a sequence, place by place.
LEMMA InsertFacts ==
  ASSUME NEW S, NEW f \in Seq(S), NEW k \in 1..(Len(f) + 1), NEW r \in S,
         NEW g, g = InsertAt(f, k, r)
  PROVE  /\ g \in Seq(S) /\ Len(g) = Len(f) + 1
         /\ \A i \in 1..(Len(f) + 1) :
              g[i] = IF i < k THEN f[i] ELSE IF i = k THEN r ELSE f[i - 1]
<1> DEFINE a == SubSeq(f, 1, k - 1)
           b == SubSeq(f, k, Len(f))
           n == Len(f)
<1>1. n \in Nat /\ k \in Int /\ 1 <= k /\ k <= n + 1 /\ \A i \in 1..n : f[i] \in S
  BY LenProperties, ElementOfSeq
<1>2. a \in Seq(S) /\ Len(a) = k - 1 /\ \A i \in 1..(k - 1) : a[i] = f[i]
  <2>1. \A i \in 1..(k - 1) : f[i] \in S
    BY <1>1
  <2>2. /\ SubSeq(f, 1, k - 1) \in Seq(S)
        /\ Len(SubSeq(f, 1, k - 1)) = IF 1 <= k - 1 THEN k - 1 - 1 + 1 ELSE 0
        /\ \A i \in 1..(k - 1 - 1 + 1) : SubSeq(f, 1, k - 1)[i] = f[1 + i - 1]
    BY <1>1, <2>1, SubSeqProperties
  <2>3. QED
    BY <1>1, <2>2
<1>3. b \in Seq(S) /\ Len(b) = n - k + 1 /\ \A i \in 1..(n - k + 1) : b[i] = f[k + i - 1]
  <2>1. \A i \in k..n : f[i] \in S
    BY <1>1
  <2>2. QED
    BY <1>1, <2>1, SubSeqProperties
<1>4. g = a \o <<r>> \o b
  BY DEF InsertAt
<1> HIDE DEF a, b, n
<1> DEFINE c == a \o <<r>>
<1>5. <<r>> \in Seq(S) /\ Len(<<r>>) = 1 /\ <<r>>[1] = r
  OBVIOUS
<1>6. /\ c \in Seq(S) /\ Len(c) = k
      /\ \A i \in 1..k : c[i] = IF i < k THEN f[i] ELSE r
  <2>1. /\ a \o <<r>> \in Seq(S)
        /\ Len(a \o <<r>>) = Len(a) + Len(<<r>>)
        /\ \A i \in 1..(Len(a) + Len(<<r>>)) :
             (a \o <<r>>)[i] = IF i <= Len(a) THEN a[i] ELSE <<r>>[i - Len(a)]
    BY <1>2, <1>5, ConcatProperties
  <2>2. Len(a) + Len(<<r>>) = k /\ Len(a) = k - 1
    BY <1>1, <1>2, <1>5
  <2> HIDE DEF c
  <2>3. \A i \in 1..k : i <= k - 1 <=> i < k
    BY <1>1
  <2>4. \A i \in 1..k : i < k => i \in 1..(k - 1)
    BY <1>1
  <2>5. \A i \in 1..k : ~(i < k) => i - (k - 1) = 1
    BY <1>1
  <2>6. \A i \in 1..k : c[i] = IF i < k THEN f[i] ELSE r
    BY <1>2, <1>5, <2>1, <2>2, <2>3, <2>4, <2>5 DEF c
  <2>7. QED
    BY <2>1, <2>2, <2>6 DEF c
<1> HIDE DEF c
<1>7. /\ g \in Seq(S) /\ Len(g) = Len(c) + Len(b)
      /\ \A i \in 1..(Len(c) + Len(b)) : g[i] = IF i <= Len(c) THEN c[i] ELSE b[i - Len(c)]
  <2>1. b \in Seq(S) /\ c \in Seq(S) /\ g = c \o b
    BY <1>3, <1>4, <1>6 DEF c
  <2>2. QED
    BY <2>1, ConcatProperties
<1>8. Len(c) + Len(b) = n + 1
  BY <1>1, <1>3, <1>6
<1>9. ASSUME NEW i \in 1..(n + 1)
      PROVE  g[i] = IF i < k THEN f[i] ELSE IF i = k THEN r ELSE f[i - 1]
  <2>1. CASE i <= k
    BY <1>1, <1>6, <1>7, <1>8, <2>1
  <2>2. CASE i > k
    <3>1. i - k \in 1..(n - k + 1) /\ k + (i - k) - 1 = i - 1
      BY <1>1, <2>2
    <3>2. b[i - k] = f[i - 1]
      BY <1>3, <3>1
    <3>3. QED
      BY <1>1, <1>6, <1>7, <1>8, <2>2, <3>2
  <2>3. QED
    BY <1>1, <2>1, <2>2
<1>10. QED
  BY <1>7, <1>8, <1>9 DEF n

\* What RemoveAt does to a sequence, place by place.
LEMMA RemoveFacts ==
  ASSUME NEW S, NEW f \in Seq(S), NEW k \in 1..Len(f),
         NEW g, g = RemoveAt(f, k)
  PROVE  /\ g \in Seq(S) /\ Len(g) = Len(f) - 1
         /\ \A i \in 1..(Len(f) - 1) : g[i] = IF i < k THEN f[i] ELSE f[i + 1]
<1> DEFINE a == SubSeq(f, 1, k - 1)
           b == SubSeq(f, k + 1, Len(f))
           n == Len(f)
<1>1. n \in Nat /\ k \in Int /\ 1 <= k /\ k <= n /\ \A i \in 1..n : f[i] \in S
  BY LenProperties, ElementOfSeq
<1>2. a \in Seq(S) /\ Len(a) = k - 1 /\ \A i \in 1..(k - 1) : a[i] = f[i]
  <2>1. \A i \in 1..(k - 1) : f[i] \in S
    BY <1>1
  <2>2. /\ SubSeq(f, 1, k - 1) \in Seq(S)
        /\ Len(SubSeq(f, 1, k - 1)) = IF 1 <= k - 1 THEN k - 1 - 1 + 1 ELSE 0
        /\ \A i \in 1..(k - 1 - 1 + 1) : SubSeq(f, 1, k - 1)[i] = f[1 + i - 1]
    BY <1>1, <2>1, SubSeqProperties
  <2>3. QED
    BY <1>1, <2>2
<1>3. b \in Seq(S) /\ Len(b) = n - k /\ \A i \in 1..(n - k) : b[i] = f[k + i]
  <2>1. \A i \in (k + 1)..n : f[i] \in S
    BY <1>1
  <2>2. /\ SubSeq(f, k + 1, n) \in Seq(S)
        /\ Len(SubSeq(f, k + 1, n)) = IF k + 1 <= n THEN n - (k + 1) + 1 ELSE 0
        /\ \A i \in 1..(n - (k + 1) + 1) : SubSeq(f, k + 1, n)[i] = f[k + 1 + i - 1]
    BY <1>1, <2>1, SubSeqProperties
  <2>3. QED
    BY <1>1, <2>2
<1>4. g = a \o b
  BY DEF RemoveAt
<1> HIDE DEF a, b, n
<1>5. /\ g \in Seq(S) /\ Len(g) = Len(a) + Len(b)
      /\ \A i \in 1..(Len(a) + Len(b)) : g[i] = IF i <= Len(a) THEN a[i] ELSE b[i - Len(a)]
  <2>1. a \in Seq(S) /\ b \in Seq(S) /\ g = a \o b
    BY <1>2, <1>3, <1>4
  <2>2. QED
    BY <2>1, ConcatProperties
<1>6. Len(a) + Len(b) = n - 1
  BY <1>1, <1>2, <1>3
<1>7. ASSUME NEW i \in 1..(n - 1)
      PROVE  g[i] = IF i < k THEN f[i] ELSE f[i + 1]
  <2>1. CASE i < k
    BY <1>1, <1>2, <1>5, <1>6, <2>1
  <2>2. CASE i >= k
    <3>1. i - (k - 1) \in 1..(n - k) /\ k + (i - (k - 1)) = i + 1
      BY <1>1, <2>2
    <3>2. b[i - (k - 1)] = f[i + 1]
      BY <1>3, <3>1
    <3>3. QED
      BY <1>1, <1>2, <1>5, <1>6, <2>2, <3>2
  <2>3. QED
    BY <1>1, <2>1, <2>2
<1>8. QED
  BY <1>5, <1>6, <1>7 DEF n

-----------------------------------------------------------------------------
(* Merging a batch *)

\* A set of places that is not empty has a last one.
LEMMA LargestOf ==
  ASSUME NEW n \in Nat, NEW s \in SUBSET (1..n), s # {}
  PROVE  Max(s) \in s /\ \A y \in s : Max(s) >= y
<1> DEFINE below == {n - x : x \in s}
<1>1. below \in SUBSET Nat /\ below # {}
  <2>1. \A x \in s : n - x \in Nat
    OBVIOUS
  <2>2. QED
    BY <2>1
<1>2. PICK m \in below : \A y \in below : ~(<<y, m>> \in OpToRel(<, Nat))
  BY <1>1, NatLessThanWellFounded, WFMin, Zenon
<1>3. PICK x \in s : m = n - x
  BY <1>2
<1>4. ASSUME NEW y \in s
      PROVE  x >= y
  <2>1. n - y \in below /\ n - y \in Nat /\ m \in Nat
    BY <1>1, <1>2
  <2>2. ~(n - y < m)
    BY <1>2, <2>1 DEF OpToRel
  <2>3. QED
    BY <1>3, <2>1, <2>2
<1>5. \E z \in s : \A y \in s : z >= y
  BY <1>4
<1>6. QED
  BY <1>5 DEF Max

\* One step of Save's loop: a review of a new id is appended.
Merge(s, r) == IF r.id \in Ids(s) THEN s ELSE Append(s, r)

\* The equation that Merged's fold solves, at one set of places of the batch.
MergeStep(rs, batch, g, s) ==
  IF s = {} THEN rs
  ELSE LET i == Max(s) IN Merge(g[s \ {i}], batch[i])

\* There is a function that does what the fold of Merged is to do.
LEMMA MergeExists ==
  ASSUME NEW rs, NEW batch, NEW n \in Nat
  PROVE  \E g : g = [s \in SUBSET (1..n) |-> MergeStep(rs, batch, g, s)]
<1> DEFINE D == 1..n
           Upto(g, m) ==
             \A s \in SUBSET D : Cardinality(s) <= m => g[s] = MergeStep(rs, batch, g, s)
           M == {m \in Nat : \E g : g = [s \in SUBSET D |-> g[s]] /\ Upto(g, m)}
<1>0. IsFiniteSet(D)
  BY FS_Interval
<1>1. 0 \in M
  <2> DEFINE g == [s \in SUBSET D |-> rs]
  <2> HIDE DEF D
  <2>1. \A s \in SUBSET D : Cardinality(s) <= 0 => s = {}
    <3> TAKE s \in SUBSET D
    <3>1. Cardinality(s) \in Nat /\ (Cardinality(s) = 0 <=> s = {})
      BY <1>0, SubsetCounts
    <3>2. QED
      BY <3>1
  <2>2. Upto(g, 0)
    BY <2>1 DEF MergeStep
  <2>3. g = [s \in SUBSET D |-> g[s]]
    OBVIOUS
  <2> HIDE DEF g
  <2>4. QED
    BY <2>2, <2>3
<1>2. ASSUME NEW m \in Nat, m \in M
      PROVE  m + 1 \in M
  <2>1. PICK g : g = [s \in SUBSET D |-> g[s]] /\ Upto(g, m)
    BY <1>2
  <2> DEFINE h == [s \in SUBSET D |->
                     IF Cardinality(s) <= m THEN g[s] ELSE MergeStep(rs, batch, g, s)]
  <2>2. ASSUME NEW s \in SUBSET D, Cardinality(s) <= m + 1
        PROVE  h[s] = MergeStep(rs, batch, h, s)
    <3>1. h[s] = MergeStep(rs, batch, g, s)
      BY <2>1
    <3>2. CASE s = {}
      BY <3>1, <3>2 DEF MergeStep
    <3>3. CASE s # {}
      <4> DEFINE x == Max(s)
                 r == s \ {x}
      <4>1. x \in s
        BY <3>3, LargestOf
      <4> HIDE DEF x, D
      <4>2. r \in SUBSET D /\ Cardinality(r) <= m
        BY <1>0, <2>2, <4>1, SubsetCounts
      <4>3. h[r] = g[r]
        BY <4>2
      <4>4. /\ MergeStep(rs, batch, g, s) = Merge(g[r], batch[x])
            /\ MergeStep(rs, batch, h, s) = Merge(h[r], batch[x])
        BY <3>3 DEF MergeStep, x
      <4>5. QED
        BY <3>1, <4>3, <4>4
    <3>4. QED
      BY <3>2, <3>3
  <2>3. h = [s \in SUBSET D |-> h[s]]
    OBVIOUS
  <2> HIDE DEF h
  <2>4. Upto(h, m + 1)
    BY <2>2
  <2> HIDE DEF Upto
  <2>5. \E k : k = [s \in SUBSET D |-> k[s]] /\ Upto(k, m + 1)
    BY <2>3, <2>4
  <2>6. QED
    BY <2>5
<1> HIDE DEF M
<1>3. Cardinality(D) \in M /\ Cardinality(D) \in Nat
  <2>1. Cardinality(D) \in Nat
    BY <1>0, FS_CardinalityType
  <2>2. Nat \subseteq M
    BY <1>1, <1>2, Counting
  <2>3. QED
    BY <2>1, <2>2
<1>4. PICK g : g = [s \in SUBSET D |-> g[s]] /\ Upto(g, Cardinality(D))
  BY <1>3 DEF M
<1>5. \A s \in SUBSET D : g[s] = MergeStep(rs, batch, g, s)
  BY <1>0, <1>4, SubsetCounts
<1>6. g = [s \in SUBSET D |-> MergeStep(rs, batch, g, s)]
  BY <1>4, <1>5
<1>7. QED
  BY <1>6

\* What one step of the loop keeps of what is stored, and adds.
LEMMA MergeFacts ==
  ASSUME NEW s \in Seq(Review), Unique(s), NEW r \in Review
  PROVE  /\ Merge(s, r) \in Seq(Review) /\ Unique(Merge(s, r))
         /\ Range(s) \subseteq Range(Merge(s, r))
         /\ Range(Merge(s, r)) \subseteq Range(s) \cup {r}
         /\ Ids(Merge(s, r)) = Ids(s) \cup {r.id}
<1>1. CASE r.id \in Ids(s)
  BY <1>1 DEF Merge
<1>2. CASE r.id \notin Ids(s)
  <2> DEFINE m == Append(s, r)
             n == Len(s)
  <2>1. n \in Nat /\ DOMAIN s = 1..n
    BY LenProperties
  <2>2. m \in Seq(Review) /\ DOMAIN m = 1..(n + 1)
    BY <2>1, AppendProperties, LenProperties
  <2>3. (\A i \in 1..n : m[i] = s[i]) /\ m[n + 1] = r
    BY <2>1, AppendProperties
  <2>4. Merge(s, r) = m
    BY <1>2 DEF Merge
  <2> HIDE DEF m, n
  <2>5. \A i \in 1..(n + 1) : i \in 1..n \/ i = n + 1
    BY <2>1
  <2>6. 1..n \subseteq 1..(n + 1) /\ n + 1 \in 1..(n + 1)
    BY <2>1
  <2>7. \A i \in 1..n : s[i].id # r.id
    BY <1>2, <2>1 DEF Ids
  <2>8. Unique(m)
    BY <2>1, <2>2, <2>3, <2>5, <2>7 DEF Unique
  <2>9. Range(s) \subseteq Range(m) /\ Range(m) \subseteq Range(s) \cup {r}
    BY <2>1, <2>2, <2>3, <2>5, <2>6 DEF Range
  <2>10. Ids(m) = Ids(s) \cup {r.id}
    BY <2>1, <2>2, <2>3, <2>5, <2>6 DEF Ids
  <2>11. QED
    BY <2>2, <2>4, <2>8, <2>9, <2>10
<1>3. QED
  BY <1>1, <1>2

\* FileStore.Save keeps what is stored, and adds a review of every new id of the
\* batch.
LEMMA MergedFacts ==
  ASSUME NEW rs \in Seq(Review), Unique(rs), NEW batch \in Seq(Review)
  PROVE  /\ Merged(rs, batch) \in Seq(Review) /\ Unique(Merged(rs, batch))
         /\ Range(rs) \subseteq Range(Merged(rs, batch))
         /\ Range(Merged(rs, batch)) \subseteq Range(rs) \cup Range(batch)
         /\ Ids(Merged(rs, batch)) = Ids(rs) \cup Ids(batch)
<1> DEFINE n == Len(batch)
           g == CHOOSE g : g = [s \in SUBSET (1..n) |-> MergeStep(rs, batch, g, s)]
<1>1. n \in Nat /\ DOMAIN batch = 1..n /\ \A i \in 1..n : batch[i] \in Review
  BY LenProperties, ElementOfSeq
<1>2. Merged(rs, batch) = g[1..n]
  BY <1>1 DEF Merged, FoldLeft, MapThenFoldSet, MergeStep, Merge
<1> HIDE DEF n
<1>3. g = [s \in SUBSET (1..n) |-> MergeStep(rs, batch, g, s)]
  BY <1>1, MergeExists
<1> HIDE DEF g
<1>4. \A s \in SUBSET (1..n) : g[s] = MergeStep(rs, batch, g, s)
  BY <1>3
<1> DEFINE Good(m) ==
             /\ g[1..m] \in Seq(Review) /\ Unique(g[1..m])
             /\ Range(rs) \subseteq Range(g[1..m])
             /\ Range(g[1..m]) \subseteq Range(rs) \cup {batch[i] : i \in 1..m}
             /\ Ids(g[1..m]) = Ids(rs) \cup {batch[i].id : i \in 1..m}
           M == {m \in Nat : m <= n => Good(m)}
<1>5. 0 \in M
  <2>1. 1..0 = {}
    OBVIOUS
  <2>2. g[1..0] = rs
    BY <1>4, <2>1 DEF MergeStep
  <2>3. QED
    BY <2>1, <2>2
<1>6. ASSUME NEW m \in Nat, m \in M
      PROVE  m + 1 \in M
  <2> SUFFICES ASSUME m + 1 <= n
               PROVE  Good(m + 1)
    OBVIOUS
  <2>1. Good(m) /\ batch[m + 1] \in Review
    BY <1>1, <1>6
  <2>2. /\ 1..(m + 1) = 1..m \cup {m + 1} /\ 1..(m + 1) \in SUBSET (1..n)
        /\ (1..(m + 1)) \ {m + 1} = 1..m /\ 1..(m + 1) # {}
    BY <1>1
  <2>3. Max(1..(m + 1)) = m + 1
    <3>1. Max(1..(m + 1)) \in 1..(m + 1) /\ \A y \in 1..(m + 1) : Max(1..(m + 1)) >= y
      BY <1>1, <2>2, LargestOf
    <3> DEFINE x == Max(1..(m + 1))
    <3>2. x \in 1..(m + 1) /\ x >= m + 1
      BY <3>1
    <3> HIDE DEF x
    <3>3. x = m + 1
      BY <3>2
    <3>4. QED
      BY <3>3 DEF x
  <2>4. g[1..(m + 1)] = Merge(g[1..m], batch[m + 1])
    BY <1>4, <2>2, <2>3 DEF MergeStep
  <2> DEFINE s == g[1..m]
             t == g[1..(m + 1)]
  <2>5. /\ s \in Seq(Review) /\ Unique(s)
        /\ Range(rs) \subseteq Range(s)
        /\ Range(s) \subseteq Range(rs) \cup {batch[i] : i \in 1..m}
        /\ Ids(s) = Ids(rs) \cup {batch[i].id : i \in 1..m}
    BY <2>1
  <2>6. t = Merge(s, batch[m + 1])
    BY <2>4
  <2> HIDE DEF s, t
  <2>7. /\ t \in Seq(Review) /\ Unique(t)
        /\ Range(s) \subseteq Range(t)
        /\ Range(t) \subseteq Range(s) \cup {batch[m + 1]}
        /\ Ids(t) = Ids(s) \cup {batch[m + 1].id}
    BY <2>1, <2>5, <2>6, MergeFacts
  <2>8. /\ {batch[i] : i \in 1..(m + 1)} = {batch[i] : i \in 1..m} \cup {batch[m + 1]}
        /\ {batch[i].id : i \in 1..(m + 1)} = {batch[i].id : i \in 1..m} \cup {batch[m + 1].id}
    BY <2>2
  <2>9. QED
    BY <2>5, <2>7, <2>8 DEF t
<1> HIDE DEF M, Good
<1>7. Nat \subseteq M
  BY <1>5, <1>6, Counting
<1>8. Good(n)
  BY <1>1, <1>7 DEF M
<1>9. {batch[i] : i \in 1..n} = Range(batch) /\ {batch[i].id : i \in 1..n} = Ids(batch)
  BY <1>1 DEF Range, Ids
<1>10. QED
  BY <1>2, <1>8, <1>9 DEF Good

-----------------------------------------------------------------------------
(* The feed *)

\* Where a review takes its place in the feed, the others keep their order, and
\* move back if they move.
LEMMA InsertedFacts ==
  ASSUME NEW f \in Seq(Review), Unique(f), NEW r \in Review, r.id \notin Ids(f),
         NEW g \in Inserted(f, r)
  PROVE  /\ g \in Seq(Review) /\ Unique(g) /\ NewestFirst(g)
         /\ Range(g) = Range(f) \cup {r}
         /\ \E p \in 1..(Len(f) + 1) :
              /\ p \in DOMAIN g /\ g[p] = r
              /\ \A i \in DOMAIN f :
                   /\ i < p => i \in DOMAIN g /\ g[i] = f[i]
                   /\ i >= p => i + 1 \in DOMAIN g /\ g[i + 1] = f[i]
<1> DEFINE n == Len(f)
<1>1. n \in Nat /\ DOMAIN f = 1..n
  BY LenProperties
<1>2. PICK p \in 1..(n + 1) : g = InsertAt(f, p, r) /\ NewestFirst(g)
  BY DEF Inserted
<1>3. /\ g \in Seq(Review) /\ Len(g) = n + 1
      /\ \A i \in 1..(n + 1) : g[i] = IF i < p THEN f[i] ELSE IF i = p THEN r ELSE f[i - 1]
  <2>1. p \in 1..(Len(f) + 1) /\ g = InsertAt(f, p, r)
    BY <1>2
  <2> HIDE DEF n
  <2>2. /\ g \in Seq(Review) /\ Len(g) = Len(f) + 1
        /\ \A i \in 1..(Len(f) + 1) :
             g[i] = IF i < p THEN f[i] ELSE IF i = p THEN r ELSE f[i - 1]
    BY <2>1, InsertFacts
  <2>3. QED
    BY <2>2 DEF n
<1>4. DOMAIN g = 1..(n + 1)
  BY <1>3, LenProperties
<1> HIDE DEF n
<1>5. \A i \in 1..(n + 1) : /\ i < p => i \in 1..n
                            /\ i > p => i - 1 \in 1..n
  BY <1>1
<1>6. \A i \in 1..n : f[i].id # r.id
  BY <1>1 DEF Ids
<1>7. ASSUME NEW i \in 1..(n + 1), NEW j \in 1..(n + 1), g[i].id = g[j].id
      PROVE  i = j
  <2>1. \A k, l \in 1..n : f[k].id = f[l].id => k = l
    BY <1>1 DEF Unique
  <2>2. i \in Int /\ j \in Int /\ p \in Int
    BY <1>1
  <2>3. CASE i = p
    BY <1>3, <1>5, <1>6, <1>7, <2>2, <2>3
  <2>4. CASE j = p
    BY <1>3, <1>5, <1>6, <1>7, <2>2, <2>4
  <2>5. CASE i # p /\ j # p
    <3> DEFINE a == IF i < p THEN i ELSE i - 1
               b == IF j < p THEN j ELSE j - 1
    <3>1. a \in 1..n /\ b \in 1..n /\ g[i] = f[a] /\ g[j] = f[b]
      BY <1>3, <1>5, <2>2, <2>5
    <3>2. a = b
      BY <1>7, <2>1, <3>1
    <3>3. QED
      BY <2>2, <2>5, <3>2
  <2>6. QED
    BY <2>3, <2>4, <2>5
<1>8. \A i \in 1..n : /\ i < p => i \in 1..(n + 1) /\ g[i] = f[i]
                      /\ i >= p => i + 1 \in 1..(n + 1) /\ g[i + 1] = f[i]
  <2> TAKE i \in 1..n
  <2>1. i \in 1..(n + 1) /\ i + 1 \in 1..(n + 1) /\ i + 1 - 1 = i
    BY <1>1
  <2>2. i >= p => ~(i + 1 < p) /\ i + 1 # p
    BY <1>1
  <2>3. QED
    BY <1>3, <2>1, <2>2
<1>9. p \in 1..(n + 1) /\ g[p] = r
  BY <1>1, <1>3
<1>10. Range(g) = Range(f) \cup {r}
  <2>1. ASSUME NEW x \in Range(g) PROVE x \in Range(f) \cup {r}
    <3>1. PICK i \in 1..(n + 1) : x = g[i]
      BY <1>4 DEF Range
    <3>2. i < p \/ i = p \/ i > p
      BY <1>1
    <3>3. QED
      BY <1>1, <1>3, <1>5, <3>1, <3>2 DEF Range
  <2>2. ASSUME NEW x \in Range(f) PROVE x \in Range(g)
    <3>1. PICK i \in 1..n : x = f[i]
      BY <1>1 DEF Range
    <3>2. i < p \/ i >= p
      BY <1>1
    <3>3. QED
      BY <1>4, <1>8, <3>1, <3>2 DEF Range
  <2>3. r \in Range(g)
    BY <1>4, <1>9 DEF Range
  <2>4. QED
    BY <2>1, <2>2, <2>3
<1>11. Unique(g)
  BY <1>4, <1>7 DEF Unique
<1>12. QED
  BY <1>1, <1>2, <1>3, <1>4, <1>8, <1>9, <1>10, <1>11 DEF n

\* Where a review goes, those behind it move up by one place.
LEMMA RemovedFacts ==
  ASSUME NEW f \in Seq(Review), Unique(f), NewestFirst(f), NEW k \in DOMAIN f,
         NEW g, g = RemoveAt(f, k)
  PROVE  /\ g \in Seq(Review) /\ Unique(g) /\ NewestFirst(g)
         /\ Range(g) \subseteq Range(f) /\ f[k].id \notin Ids(g)
         /\ \A i \in DOMAIN f :
              /\ i < k => i \in DOMAIN g /\ g[i] = f[i]
              /\ i > k => i - 1 \in DOMAIN g /\ g[i - 1] = f[i]
<1> DEFINE n == Len(f)
           from(i) == IF i < k THEN i ELSE i + 1
<1>1. n \in Nat /\ DOMAIN f = 1..n /\ k \in 1..n
  BY LenProperties
<1>2. /\ g \in Seq(Review) /\ Len(g) = n - 1
      /\ \A i \in 1..(n - 1) : g[i] = IF i < k THEN f[i] ELSE f[i + 1]
  BY <1>1, RemoveFacts
<1>3. DOMAIN g = 1..(n - 1)
  BY <1>2, LenProperties
<1> HIDE DEF n
<1>4. \A i \in 1..(n - 1) : from(i) \in 1..n /\ from(i) # k /\ g[i] = f[from(i)]
  <2> TAKE i \in 1..(n - 1)
  <2>1. i \in 1..n /\ i + 1 \in 1..n /\ i # i + 1 /\ (i < k \/ i + 1 > k)
    BY <1>1
  <2>2. QED
    BY <1>1, <1>2, <2>1
<1>5. \A i, j \in 1..(n - 1) : i < j => from(i) < from(j)
  BY <1>1
<1> HIDE DEF from
<1>6. Unique(g)
  <2>1. ASSUME NEW i \in 1..(n - 1), NEW j \in 1..(n - 1), g[i].id = g[j].id
        PROVE  i = j
    <3>1. from(i) = from(j)
      BY <1>1, <1>4, <2>1 DEF Unique
    <3>2. from(i) \in Int /\ from(j) \in Int
      BY <1>4
    <3>3. QED
      BY <1>5, <3>1, <3>2
  <2>2. QED
    BY <1>3, <2>1 DEF Unique
<1>7. NewestFirst(g)
  <2>1. \A i, j \in 1..n : i < j => f[i].at >= f[j].at
    BY DEF NewestFirst, IsSorted, n
  <2>2. \A i, j \in 1..(n - 1) : i < j => g[i].at >= g[j].at
    BY <1>4, <1>5, <2>1
  <2>3. QED
    BY <1>2, <2>2 DEF NewestFirst, IsSorted
<1>8. Range(g) \subseteq Range(f)
  BY <1>1, <1>3, <1>4 DEF Range
<1>9. f[k].id \notin Ids(g)
  <2>1. \A i \in 1..(n - 1) : f[from(i)].id # f[k].id
    BY <1>1, <1>4 DEF Unique
  <2>2. QED
    BY <1>3, <1>4, <2>1 DEF Ids
<1>10. \A i \in 1..n : /\ i < k => i \in 1..(n - 1) /\ g[i] = f[i]
                       /\ i > k => i - 1 \in 1..(n - 1) /\ g[i - 1] = f[i]
  <2> TAKE i \in 1..n
  <2>1. i < k => i \in 1..(n - 1)
    BY <1>1
  <2>2. i > k => i - 1 \in 1..(n - 1) /\ ~(i - 1 < k) /\ i - 1 + 1 = i
    BY <1>1
  <2>3. QED
    BY <1>2, <2>1, <2>2
<1>11. QED
  BY <1>1, <1>2, <1>3, <1>6, <1>7, <1>8, <1>9, <1>10

\* What a page of the feed holds.
LEMMA PageFacts ==
  ASSUME feed \in Seq(Review), NEW p \in 1..MaxPages
  PROVE  /\ PageOf(p) \in Seq(Review)
         /\ (p - 1) * PageSize \in Nat /\ p * PageSize = (p - 1) * PageSize + PageSize
         /\ \A r \in Range(PageOf(p)) : \E k \in DOMAIN feed : feed[k] = r /\ k <= p * PageSize
         /\ \A k \in DOMAIN feed :
              (p - 1) * PageSize < k /\ k <= p * PageSize => feed[k] \in Range(PageOf(p))
<1> DEFINE from == (p - 1) * PageSize
           to == p * PageSize
           n == Len(feed)
           last == IF to <= n THEN to ELSE n
<1>1. n \in Nat /\ DOMAIN feed = 1..n /\ \A i \in 1..n : feed[i] \in Review
  BY LenProperties, ElementOfSeq
<1>2. from \in Nat /\ to = from + PageSize /\ PageSize \in Nat \ {0}
  <2>1. PageSize \in Nat \ {0} /\ p - 1 \in Nat /\ p \in Nat
    BY PagingAssumption
  <2>2. \A a, b \in Nat : a * b \in Nat /\ (a + 1) * b = a * b + b
    OBVIOUS
  <2>3. (p - 1) * PageSize \in Nat /\ (p - 1 + 1) * PageSize = (p - 1) * PageSize + PageSize
    BY <2>1, <2>2
  <2>4. QED
    BY <2>1, <2>3
<1> HIDE DEF from, to, n
<1>3. Min({to, n}) = last
  BY <1>1, <1>2, MinOfTwo
<1>4. PageOf(p) = SubSeq(feed, from + 1, last)
  BY <1>3 DEF PageOf, from, to, n
<1>5. last \in Int /\ last <= n /\ last <= to
  BY <1>1, <1>2
<1>6. \A k \in 1..n : k <= to => k <= last
  BY <1>1
<1> HIDE DEF last
<1>7. /\ PageOf(p) \in Seq(Review)
      /\ Len(PageOf(p)) = IF from + 1 <= last THEN last - from ELSE 0
      /\ \A i \in 1..(last - from) : PageOf(p)[i] = feed[from + i]
  <2>1. \A i \in (from + 1)..last : feed[i] \in Review
    BY <1>1, <1>2, <1>5
  <2>2. /\ SubSeq(feed, from + 1, last) \in Seq(Review)
        /\ Len(SubSeq(feed, from + 1, last)) =
             IF from + 1 <= last THEN last - (from + 1) + 1 ELSE 0
        /\ \A i \in 1..(last - (from + 1) + 1) :
             SubSeq(feed, from + 1, last)[i] = feed[from + 1 + i - 1]
    BY <1>2, <1>5, <2>1, SubSeqProperties
  <2>3. /\ last - (from + 1) + 1 = last - from
        /\ \A i \in 1..(last - from) : from + 1 + i - 1 = from + i
    BY <1>2, <1>5
  <2>4. QED
    BY <1>4, <2>2, <2>3
<1>8. DOMAIN PageOf(p) = 1..(last - from)
  <2>1. DOMAIN PageOf(p) = 1..Len(PageOf(p))
    BY <1>7, LenProperties
  <2>2. QED
    BY <1>2, <1>5, <1>7, <2>1
<1>9. ASSUME NEW r \in Range(PageOf(p))
      PROVE  \E k \in DOMAIN feed : feed[k] = r /\ k <= to
  <2>1. PICK i \in 1..(last - from) : r = PageOf(p)[i]
    BY <1>8 DEF Range
  <2>2. from + i \in 1..n /\ from + i <= to
    BY <1>1, <1>2, <1>5
  <2>3. feed[from + i] = r
    BY <1>7, <2>1
  <2>4. QED
    BY <1>1, <2>2, <2>3
<1>10. ASSUME NEW k \in DOMAIN feed, from < k, k <= to
       PROVE  feed[k] \in Range(PageOf(p))
  <2>1. k \in 1..n /\ k <= last
    BY <1>1, <1>6, <1>10
  <2>2. k - from \in 1..(last - from) /\ from + (k - from) = k
    BY <1>2, <1>5, <1>10, <2>1
  <2>3. PageOf(p)[k - from] = feed[k]
    BY <1>7, <2>2
  <2>4. QED
    BY <1>8, <2>2, <2>3 DEF Range
<1>11. QED
  BY <1>2, <1>7, <1>9, <1>10 DEF from, to

\* Two sequences have, one after the other, what each of them has.
LEMMA ConcatFacts ==
  ASSUME NEW f \in Seq(Review), NEW g \in Seq(Review)
  PROVE  /\ f \o g \in Seq(Review)
         /\ Range(f \o g) = Range(f) \cup Range(g)
         /\ Ids(f \o g) = Ids(f) \cup Ids(g)
<1> DEFINE m == Len(f)
           n == Len(g)
           h == f \o g
<1>1. m \in Nat /\ n \in Nat /\ DOMAIN f = 1..m /\ DOMAIN g = 1..n
  BY LenProperties
<1>2. /\ h \in Seq(Review) /\ Len(h) = m + n
      /\ \A i \in 1..(m + n) : h[i] = IF i <= m THEN f[i] ELSE g[i - m]
  BY ConcatProperties
<1>3. DOMAIN h = 1..(m + n)
  BY <1>2, LenProperties
<1> HIDE DEF m, n, h
<1>4. /\ \A i \in 1..m : i \in 1..(m + n) /\ h[i] = f[i]
      /\ \A i \in 1..n : m + i \in 1..(m + n) /\ h[m + i] = g[i]
  <2>1. ASSUME NEW i \in 1..m PROVE i \in 1..(m + n) /\ h[i] = f[i]
    BY <1>1, <1>2
  <2>2. ASSUME NEW i \in 1..n PROVE m + i \in 1..(m + n) /\ h[m + i] = g[i]
    <3> DEFINE j == m + i
    <3>1. j \in 1..(m + n) /\ ~(j <= m) /\ j - m = i
      BY <1>1
    <3> HIDE DEF j
    <3>2. h[j] = g[i]
      BY <1>2, <3>1
    <3>3. QED
      BY <3>1, <3>2 DEF j
  <2>3. QED
    BY <2>1, <2>2
<1>5. \A i \in 1..(m + n) : \/ i \in 1..m /\ h[i] = f[i]
                            \/ i - m \in 1..n /\ h[i] = g[i - m]
  <2> TAKE i \in 1..(m + n)
  <2>1. (i \in 1..m /\ i <= m) \/ (i - m \in 1..n /\ ~(i <= m))
    BY <1>1
  <2>2. QED
    BY <1>2, <2>1
<1>6. Range(h) = Range(f) \cup Range(g)
  <2>1. Range(h) \subseteq Range(f) \cup Range(g)
    BY <1>1, <1>3, <1>5 DEF Range
  <2>2. Range(f) \subseteq Range(h)
    BY <1>1, <1>3, <1>4 DEF Range
  <2>3. Range(g) \subseteq Range(h)
    BY <1>1, <1>3, <1>4 DEF Range
  <2>4. QED
    BY <2>1, <2>2, <2>3
<1>7. \A s : Ids(s) = {r.id : r \in Range(s)}
  BY DEF Ids, Range
<1>8. QED
  BY <1>2, <1>6, <1>7 DEF h

\* The constants are numbers.
LEMMA Constants ==
  /\ PageSize \in Nat \ {0} /\ MaxPages \in Nat \ {0} /\ PollWindow \in Nat \ {0}
  /\ MaxTime \in Nat /\ MaxChanges \in Nat /\ Id \subseteq Int
BY PagingAssumption, BoundAssumption, IdAssumption

-----------------------------------------------------------------------------
(* The inductive invariant *)

\* The initial states satisfy the inductive invariant.
LEMMA InitIInv == Init => IInv
<1> SUFFICES ASSUME Init PROVE IInv
  OBVIOUS
<1>1. Range(<<>>) = {} /\ DOMAIN <<>> = {} /\ Len(<<>>) = 0
  BY DEF Range
<1>2. TypeOK
  BY <1>1, Constants DEF Init, TypeOK, NewestFirst, IsSorted
<1>3. QED
  BY <1>1, <1>2 DEF Init, IInv, IdsAreUnique, StarsAreRead, AllDated, Unique, Parses, Ids, Dated,
                    DueIsAhead, DueIsRead

\* A new review moves others back, and so never out of the way of a poll.
LEMMA PublishInv ==
  ASSUME IInv, NEW i \in Id, NEW t \in (now - 1)..(now + 1), Publish(i, t)
  PROVE  IInv'
<1> DEFINE r == [id |-> i, at |-> t]
<1>1. /\ feed \in Seq(Review) /\ Unique(feed) /\ now \in 0..MaxTime /\ page \in 1..MaxPages
      /\ changes \in 0..MaxChanges /\ changes < MaxChanges /\ changes' = changes + 1
      /\ feed' \in Inserted(feed, r)
      /\ UNCHANGED <<now, phase, page, cutoff, got, stored, due>>
  BY DEF IInv, TypeOK, IdsAreUnique, Publish, Change
<1>2. r \in Review /\ r.at >= -1 /\ r.id \notin Ids(feed)
  BY <1>1, Constants DEF Review, Publish
<1> HIDE DEF r
<1>3. /\ feed' \in Seq(Review) /\ Unique(feed') /\ NewestFirst(feed')
      /\ Range(feed') = Range(feed) \cup {r}
  BY <1>1, <1>2, InsertedFacts
<1>4. PICK p \in 1..(Len(feed) + 1) :
        /\ p \in DOMAIN feed' /\ feed'[p] = r
        /\ \A k \in DOMAIN feed :
             /\ k < p => k \in DOMAIN feed' /\ feed'[k] = feed[k]
             /\ k >= p => k + 1 \in DOMAIN feed' /\ feed'[k + 1] = feed[k]
  BY <1>1, <1>2, InsertedFacts
<1>5. TypeOK'
  BY <1>1, <1>3, Constants DEF IInv, TypeOK
<1>6. AllDated'
  BY <1>1, <1>2, <1>3 DEF IInv, AllDated, Dated
<1>7. ASSUME NEW d, Ahead(d)
      PROVE  Ahead(d)'
  <2>1. PICK k \in DOMAIN feed : feed[k] = d /\ k > (page - 1) * PageSize
    BY <1>7 DEF Ahead
  <2>2. k \in Nat /\ p \in Nat /\ (page - 1) * PageSize \in Nat
    BY <1>1, PageFacts, LenProperties
  <2>3. CASE k < p
    BY <1>1, <1>4, <2>1, <2>3 DEF Ahead
  <2>4. CASE k >= p
    <3>1. k + 1 \in DOMAIN feed' /\ feed'[k + 1] = d /\ k + 1 > (page - 1) * PageSize
      BY <1>4, <2>1, <2>2, <2>4
    <3>2. QED
      BY <1>1, <3>1 DEF Ahead
  <2>5. QED
    BY <2>2, <2>3, <2>4
<1>8. DueIsAhead'
  BY <1>1, <1>7 DEF IInv, DueIsAhead
<1>9. QED
  BY <1>1, <1>3, <1>5, <1>6, <1>8 DEF IInv, IdsAreUnique, StarsAreRead, DueIsRead

\* So does one that is edited, for those before it; those behind it stay.
LEMMA EditInv ==
  ASSUME IInv, NEW i \in Id, Edit(i)
  PROVE  IInv'
<1> DEFINE r == [id |-> i, at |-> now]
<1>1. PICK k \in DOMAIN feed :
        /\ feed[k].id = i /\ feed[k].at < now
        /\ feed' \in Inserted(RemoveAt(feed, k), r)
        /\ due' = due \ {feed[k]}
        /\ UNCHANGED <<now, phase, page, cutoff, got, stored>>
  BY DEF Edit
<1> DEFINE g == RemoveAt(feed, k)
<1>2. /\ feed \in Seq(Review) /\ Unique(feed) /\ NewestFirst(feed)
      /\ now \in 0..MaxTime /\ page \in 1..MaxPages
      /\ changes \in 0..MaxChanges /\ changes < MaxChanges /\ changes' = changes + 1
  BY DEF IInv, TypeOK, IdsAreUnique, Edit, Change
<1>3. r \in Review /\ r.at >= -1 /\ r.id = i /\ r.at = now
  BY <1>2, Constants DEF Review
<1> HIDE DEF r
<1>4. /\ g \in Seq(Review) /\ Unique(g)
      /\ Range(g) \subseteq Range(feed) /\ feed[k].id \notin Ids(g)
      /\ \A l \in DOMAIN feed :
           /\ l < k => l \in DOMAIN g /\ g[l] = feed[l]
           /\ l > k => l - 1 \in DOMAIN g /\ g[l - 1] = feed[l]
  BY <1>2, RemovedFacts
<1>5. feed' \in Inserted(g, r) /\ r.id \notin Ids(g)
  BY <1>1, <1>3, <1>4
<1> HIDE DEF g
<1>6. /\ feed' \in Seq(Review) /\ Unique(feed') /\ NewestFirst(feed')
      /\ Range(feed') = Range(g) \cup {r}
  BY <1>3, <1>4, <1>5, InsertedFacts
<1>7. PICK p \in 1..(Len(g) + 1) :
        /\ p \in DOMAIN feed' /\ feed'[p] = r
        /\ \A l \in DOMAIN g :
             /\ l < p => l \in DOMAIN feed' /\ feed'[l] = g[l]
             /\ l >= p => l + 1 \in DOMAIN feed' /\ feed'[l + 1] = g[l]
  BY <1>3, <1>4, <1>5, InsertedFacts
<1>8. TypeOK'
  BY <1>1, <1>2, <1>6, Constants DEF IInv, TypeOK
<1>9. AllDated'
  BY <1>1, <1>3, <1>4, <1>6 DEF IInv, AllDated, Dated
<1>10. ASSUME NEW d, d # feed[k], Ahead(d)
       PROVE  Ahead(d)'
  <2> DEFINE from == (page - 1) * PageSize
  <2>1. PICK l \in DOMAIN feed : feed[l] = d /\ l > from
    BY <1>10 DEF Ahead
  <2>2. l \in Nat /\ p \in Nat /\ k \in Nat /\ from \in Nat /\ Len(g) \in Nat
    BY <1>2, <1>4, PageFacts, LenProperties
  <2> HIDE DEF from
  <2>3. l # k
    BY <1>10, <2>1
  <2>4. \E m \in DOMAIN feed' : feed'[m] = d /\ m > from
    <3>1. CASE l < k
      <4>1. l \in DOMAIN g /\ g[l] = d
        BY <1>4, <2>1, <3>1
      <4>2. l < p \/ l >= p
        BY <2>2
      <4>3. l + 1 > from
        BY <2>1, <2>2
      <4>4. QED
        BY <1>7, <2>1, <4>1, <4>2, <4>3
    <3>2. CASE l > k
      <4>1. l - 1 \in DOMAIN g /\ g[l - 1] = d /\ l - 1 + 1 = l
        BY <1>4, <2>1, <2>2, <3>2
      <4>2. feed[l].at < now
        <5>1. k \in 1..Len(feed) /\ l \in 1..Len(feed)
          BY <1>2, LenProperties
        <5>2. feed[k].at >= feed[l].at
          BY <1>2, <3>2, <5>1 DEF NewestFirst, IsSorted
        <5>3. feed[k] \in Review /\ feed[l] \in Review
          BY <1>2, <5>1, ElementOfSeq
        <5>4. QED
          BY <1>1, <1>2, <5>2, <5>3 DEF Review
      <4>3. ~(l - 1 < p)
        <5> SUFFICES ASSUME l - 1 < p PROVE FALSE
          OBVIOUS
        <5>1. l - 1 \in DOMAIN feed' /\ feed'[l - 1] = d
          BY <1>7, <4>1
        <5>2. l - 1 \in 1..Len(feed') /\ p \in 1..Len(feed')
          BY <1>6, <1>7, <5>1, LenProperties
        <5>3. d.at >= now
          BY <1>3, <1>6, <1>7, <5>1, <5>2 DEF NewestFirst, IsSorted
        <5>4. d \in Review
          BY <1>2, <2>1, ElementOfSeq, LenProperties
        <5>5. QED
          BY <1>2, <2>1, <4>2, <5>3, <5>4 DEF Review
      <4>4. l \in DOMAIN feed' /\ feed'[l] = d
        BY <1>7, <2>2, <4>1, <4>3
      <4>5. QED
        BY <2>1, <4>4
    <3>3. QED
      BY <2>2, <2>3, <3>1, <3>2
  <2>5. QED
    BY <1>1, <2>4 DEF Ahead, from
<1>11. DueIsAhead'
  BY <1>1, <1>10 DEF IInv, DueIsAhead
<1>12. QED
  BY <1>1, <1>6, <1>8, <1>9, <1>11 DEF IInv, IdsAreUnique, StarsAreRead, DueIsRead

\* One that goes moves those behind it up, and only those.
LEMMA WithdrawInv ==
  ASSUME IInv, NEW i \in Id, Withdraw(i)
  PROVE  IInv'
<1>1. PICK k \in DOMAIN feed :
        /\ feed' = RemoveAt(feed, k)
        /\ due' = IF phase = "fetch" THEN due \ {feed[j] : j \in k..Len(feed)} ELSE due
        /\ UNCHANGED <<now, phase, page, cutoff, got, stored>>
  BY DEF Withdraw
<1>2. /\ feed \in Seq(Review) /\ Unique(feed) /\ NewestFirst(feed)
      /\ changes \in 0..MaxChanges /\ changes < MaxChanges /\ changes' = changes + 1
  BY DEF IInv, TypeOK, IdsAreUnique, Withdraw, Change
<1>3. /\ feed' \in Seq(Review) /\ Unique(feed') /\ NewestFirst(feed')
      /\ Range(feed') \subseteq Range(feed)
      /\ \A l \in DOMAIN feed : l < k => l \in DOMAIN feed' /\ feed'[l] = feed[l]
  BY <1>1, <1>2, RemovedFacts
<1>4. TypeOK'
  BY <1>1, <1>2, <1>3, Constants DEF IInv, TypeOK
<1>5. AllDated'
  BY <1>1, <1>3 DEF IInv, AllDated, Dated
<1>6. ASSUME NEW d \in due', phase = "fetch", Ahead(d)
      PROVE  Ahead(d)'
  <2>1. PICK l \in DOMAIN feed : feed[l] = d /\ l > (page - 1) * PageSize
    BY <1>6 DEF Ahead
  <2>2. l \in 1..Len(feed) /\ k \in 1..Len(feed) /\ Len(feed) \in Nat
    BY <1>2, LenProperties
  <2>3. ~(l \in k..Len(feed))
    BY <1>1, <1>6, <2>1
  <2>4. l < k
    BY <2>2, <2>3
  <2>5. QED
    BY <1>1, <1>3, <2>1, <2>4 DEF Ahead
<1>7. due' \subseteq due
  BY <1>1
<1>8. DueIsAhead'
  BY <1>1, <1>6, <1>7 DEF IInv, DueIsAhead
<1>9. QED
  BY <1>1, <1>3, <1>4, <1>5, <1>7, <1>8 DEF IInv, IdsAreUnique, StarsAreRead, DueIsRead

\* What a poll has to find is on the first page, or ahead of it.
LEMMA StartPollInv ==
  ASSUME IInv, StartPoll
  PROVE  IInv'
<1>1. /\ feed \in Seq(Review) /\ now \in 0..MaxTime
      /\ phase' = "fetch" /\ page' = 1 /\ got' = <<>> /\ cutoff' = now - PollWindow
      /\ due' = {r \in Range(feed) : r.at >= now - PollWindow}
      /\ UNCHANGED <<now, feed, changes, stored>>
  BY DEF IInv, TypeOK, StartPoll
<1>2. DOMAIN feed = 1..Len(feed) /\ Len(feed) \in Nat /\ \A k \in DOMAIN feed : feed[k] \in Review
  BY <1>1, LenProperties, ElementOfSeq
<1>3. got' \in Seq(Review) /\ Parses(got') /\ Dated(got')
  BY <1>1 DEF Parses, Ids, Dated, Range
<1>4. due' \subseteq Review
  BY <1>1, <1>2 DEF Range
<1>5. cutoff' \in Int
  BY <1>1, Constants
<1>6. TypeOK'
  BY <1>1, <1>3, <1>4, <1>5, Constants DEF IInv, TypeOK
<1>7. DueIsAhead'
  <2> SUFFICES ASSUME NEW r \in due'
               PROVE  r.at >= cutoff' /\ Ahead(r)'
    BY DEF DueIsAhead
  <2>1. PICK k \in DOMAIN feed : feed[k] = r
    BY <1>1 DEF Range
  <2>2. (page' - 1) * PageSize = 0 /\ k > 0
    BY <1>1, <1>2, Constants
  <2>3. QED
    BY <1>1, <2>1, <2>2 DEF Ahead
<1>8. QED
  BY <1>1, <1>3, <1>6, <1>7 DEF IInv, IdsAreUnique, StarsAreRead, AllDated, DueIsRead

\* The page that is read has what it has to find there, and when it is the last
\* one nothing that has to be found is ahead of it.
LEMMA FetchPageInv ==
  ASSUME IInv, FetchPage
  PROVE  IInv'
<1> DEFINE rs == PageOf(page)
<1>1. /\ feed \in Seq(Review) /\ got \in Seq(Review) /\ Unique(feed) /\ NewestFirst(feed)
      /\ page \in 1..MaxPages /\ cutoff \in Int /\ due \subseteq Review
      /\ phase = "fetch" /\ Parses(rs) /\ got' = got \o rs
      /\ UNCHANGED <<now, feed, changes, cutoff, stored>>
      /\ \A r \in due : r.at >= cutoff /\ (r.id \in Ids(got) \/ Ahead(r))
  BY DEF IInv, TypeOK, IdsAreUnique, DueIsAhead, FetchPage
<1>2. \/ Ends(rs) /\ phase' = "save" /\ page' = 1 /\ due' = due \cap InReach
      \/ ~Ends(rs) /\ phase' = "fetch" /\ page' = page + 1 /\ due' = due
  BY <1>1 DEF FetchPage
<1>3. /\ rs \in Seq(Review)
      /\ (page - 1) * PageSize \in Nat /\ page * PageSize = (page - 1) * PageSize + PageSize
      /\ \A r \in Range(rs) : \E k \in DOMAIN feed : feed[k] = r /\ k <= page * PageSize
      /\ \A k \in DOMAIN feed :
           (page - 1) * PageSize < k /\ k <= page * PageSize => feed[k] \in Range(rs)
  BY <1>1, PageFacts
<1> HIDE DEF rs
<1>4. got' \in Seq(Review) /\ Range(got') = Range(got) \cup Range(rs) /\ Ids(got') = Ids(got) \cup Ids(rs)
  BY <1>1, <1>3, ConcatFacts
<1>5. Range(rs) \subseteq Range(feed)
  BY <1>3 DEF Range
<1>6. Parses(got')
  BY <1>1, <1>4 DEF Parses, IInv, StarsAreRead
<1>7. Dated(got')
  BY <1>4, <1>5 DEF Dated, IInv, AllDated
<1>8. \A k \in DOMAIN feed : k \in Nat
  BY <1>1, LenProperties
<1>9. \A r \in Range(rs) : r.id \in Ids(rs)
  BY DEF Range, Ids
<1>10. ASSUME NEW r \in due
       PROVE  \/ r.id \in Ids(got')
              \/ \E k \in DOMAIN feed : feed[k] = r /\ k > page * PageSize
  <2>1. CASE r.id \in Ids(got)
    BY <1>4, <2>1
  <2>2. CASE Ahead(r)
    <3>1. PICK k \in DOMAIN feed : feed[k] = r /\ k > (page - 1) * PageSize
      BY <2>2 DEF Ahead
    <3>2. k <= page * PageSize \/ k > page * PageSize
      BY <1>3, <1>8, Constants
    <3>3. QED
      BY <1>3, <1>4, <1>9, <3>1, <3>2
  <2>3. QED
    BY <1>1, <2>1, <2>2
<1>11. ASSUME ~Ends(rs)
       PROVE  page + 1 \in 1..MaxPages /\ DueIsAhead'
  <2>1. page + 1 \in 1..MaxPages
    BY <1>1, <1>11, Constants DEF Ends
  <2>2. page' = page + 1 /\ page + 1 - 1 = page /\ due' = due
    BY <1>1, <1>2, <1>11
  <2>3. QED
    BY <1>1, <1>10, <2>1, <2>2 DEF DueIsAhead, Ahead
<1>12. ASSUME Ends(rs), NEW r \in due \cap InReach
       PROVE  r.id \in Ids(got')
  <2> SUFFICES ASSUME NEW k \in DOMAIN feed, feed[k] = r, k > page * PageSize
               PROVE  FALSE
    BY <1>10
  <2>1. CASE rs = <<>>
    <3>1. Range(rs) = {}
      BY <2>1 DEF Range
    <3> DEFINE first == (page - 1) * PageSize + 1
    <3>2. first \in 1..Len(feed) /\ DOMAIN feed = 1..Len(feed)
      BY <1>1, <1>3, <1>8, Constants, LenProperties
    <3>3. (page - 1) * PageSize < first /\ first <= page * PageSize
      BY <1>3, Constants
    <3> HIDE DEF first
    <3>4. QED
      BY <1>3, <3>1, <3>2, <3>3
  <2>2. CASE page = MaxPages
    <3>1. PICK l \in DOMAIN feed \cap 1..Reach : r = feed[l]
      BY <1>12 DEF InReach
    <3>2. l <= page * PageSize /\ l \in Nat
      BY <1>3, <1>8, <2>2, <3>1 DEF Reach
    <3>3. k = l
      BY <1>1, <3>1 DEF Unique
    <3>4. QED
      BY <1>3, <1>8, <3>2, <3>3, Constants
  <2>3. CASE PastWindow(rs)
    <3>1. PICK l \in DOMAIN feed : l <= page * PageSize /\ feed[l].at < cutoff
      BY <1>3, <2>3 DEF PastWindow
    <3>2. l < k
      BY <1>3, <1>8, <3>1, Constants
    <3>3. l \in 1..Len(feed) /\ k \in 1..Len(feed)
      BY <1>1, LenProperties
    <3>4. feed[l].at >= feed[k].at
      BY <1>1, <3>2, <3>3 DEF NewestFirst, IsSorted
    <3>5. feed[l] \in Review /\ r \in Review /\ r.at >= cutoff
      BY <1>1, <3>3, ElementOfSeq
    <3>6. QED
      BY <1>1, <3>1, <3>4, <3>5 DEF Review
  <2>4. QED
    BY <1>12, <2>1, <2>2, <2>3 DEF Ends
<1>13. DueIsAhead' /\ DueIsRead'
  <2>1. CASE Ends(rs)
    BY <1>2, <1>12, <2>1 DEF DueIsAhead, DueIsRead
  <2>2. CASE ~Ends(rs)
    BY <1>2, <1>11, <2>2 DEF DueIsRead
  <2>3. QED
    BY <2>1, <2>2
<1>14. TypeOK'
  <2>1. page' \in 1..MaxPages /\ (phase' # "fetch" => page' = 1)
        /\ phase' \in {"fetch", "save"} /\ due' \subseteq Review
    BY <1>1, <1>2, <1>11, Constants
  <2>2. QED
    BY <1>1, <1>4, <2>1 DEF IInv, TypeOK
<1>15. QED
  BY <1>1, <1>6, <1>7, <1>13, <1>14 DEF IInv, IdsAreUnique, StarsAreRead, AllDated

\* What is saved has all that the poll had to find, and keeps what was stored.
LEMMA SaveInv ==
  ASSUME IInv, Save
  PROVE  /\ IInv'
         /\ Range(stored) \subseteq Range(stored')
         /\ \A r \in due : r.id \in Ids(stored')
<1>1. /\ got \in Seq(Review) /\ stored \in Seq(Review) /\ Unique(stored)
      /\ phase = "save" /\ stored' = Merged(stored, got)
      /\ phase' = "idle" /\ cutoff' = 0 /\ got' = <<>> /\ due' = {}
      /\ UNCHANGED <<now, feed, changes, page>>
  BY DEF IInv, TypeOK, IdsAreUnique, Save
<1>2. /\ stored' \in Seq(Review) /\ Unique(stored')
      /\ Range(stored) \subseteq Range(stored')
      /\ Range(stored') \subseteq Range(stored) \cup Range(got)
      /\ Ids(stored') = Ids(stored) \cup Ids(got)
  BY <1>1, MergedFacts
<1>3. got' \in Seq(Review) /\ Parses(got') /\ Dated(got')
  BY <1>1 DEF Parses, Ids, Dated, Range
<1>4. TypeOK'
  BY <1>1, <1>2, <1>3 DEF IInv, TypeOK
<1>5. Parses(stored') /\ Dated(stored')
  BY <1>2 DEF IInv, StarsAreRead, AllDated, Parses, Dated
<1>6. IInv'
  BY <1>1, <1>2, <1>3, <1>4, <1>5
     DEF IInv, IdsAreUnique, StarsAreRead, AllDated, DueIsAhead, DueIsRead
<1>7. QED
  BY <1>1, <1>2, <1>6 DEF IInv, DueIsRead

\* A poll that fails forgets what it has read.
LEMMA PollFailsInv ==
  ASSUME IInv, PollFails
  PROVE  IInv'
<1>1. /\ phase' = "idle" /\ page' = 1 /\ cutoff' = 0 /\ got' = <<>> /\ due' = {}
      /\ UNCHANGED <<now, feed, changes, stored>>
  BY DEF PollFails
<1>2. got' \in Seq(Review) /\ Parses(got') /\ Dated(got')
  BY <1>1 DEF Parses, Ids, Dated, Range
<1>3. TypeOK'
  BY <1>1, <1>2, Constants DEF IInv, TypeOK
<1>4. QED
  BY <1>1, <1>2, <1>3 DEF IInv, IdsAreUnique, StarsAreRead, AllDated, DueIsAhead, DueIsRead

\* Every step preserves the inductive invariant.
LEMMA StepIInv == IInv /\ [Next]_vars => IInv'
<1> SUFFICES ASSUME IInv, [Next]_vars PROVE IInv'
  OBVIOUS
<1>1. ASSUME NEW i \in Id, NEW t \in (now - 1)..(now + 1), Publish(i, t) PROVE IInv'
  BY <1>1, PublishInv
<1>2. ASSUME NEW i \in Id, Edit(i) PROVE IInv'
  BY <1>2, EditInv
<1>3. ASSUME NEW i \in Id, Withdraw(i) PROVE IInv'
  BY <1>3, WithdrawInv
<1>4. CASE Tick
  BY <1>4, Constants
     DEF Tick, IInv, TypeOK, IdsAreUnique, StarsAreRead, AllDated, DueIsAhead, DueIsRead, Ahead
<1>5. CASE StartPoll
  BY <1>5, StartPollInv
<1>6. CASE FetchPage
  BY <1>6, FetchPageInv
<1>7. CASE Save
  BY <1>7, SaveInv
<1>8. CASE PollFails
  BY <1>8, PollFailsInv
<1>9. CASE UNCHANGED vars
  BY <1>9
     DEF vars, IInv, TypeOK, IdsAreUnique, StarsAreRead, AllDated, DueIsAhead, DueIsRead, Ahead
<1>10. QED
  BY <1>1, <1>2, <1>3, <1>4, <1>5, <1>6, <1>7, <1>8, <1>9 DEF Next

\* The inductive invariant holds in every reachable state.
THEOREM Invariance == Spec => []IInv
BY InitIInv, StepIInv, PTL DEF Spec

\* The variables have their types, the feed is sorted, and a poll stays within its
\* pages (rss_fetcher.go:50-84).
THEOREM Typing == Spec => []TypeOK
<1>1. IInv => TypeOK
  BY DEF IInv
<1>2. QED
  BY <1>1, Invariance, PTL

\* "once a page reaches past the window every later page is older - safe to
\* stop paging here" (rss_fetcher.go:70-71): however the feed shifts under the
\* poll, what it had to find is stored with it.
THEOREM PollsAreComplete == Spec => PollIsComplete
<1>1. IInv /\ [Next]_vars => [Save => \A r \in due : r.id \in Ids(stored')]_vars
  BY SaveInv
<1>2. QED
  BY <1>1, Invariance, PTL DEF Spec, PollIsComplete

-----------------------------------------------------------------------------
(* What a request reads *)

\* The window of every request is a number.
LEMMA WindowsAreInt ==
  ASSUME NEW q \in Query
  PROVE  WindowOf(q) \in Int /\ WindowOf(q) >= 0
<1>1. q \in Int \cup {NoHours}
  BY QueryAssumption
<1>2. WindowOf(q) \in {DefaultWindow} \cup 1..MaxWindow
  BY <1>1, WindowIsClamped
<1>3. QED
  BY <1>2, WindowAssumption

\* What a request reads.
Readable == stored \in Seq(Review) /\ Reviews(stored) /\ now \in Int

\* What is stored can be listed and summed up.
LEMMA StoredIsReviews ==
  ASSUME IInv
  PROVE  /\ stored \in Seq(Review) /\ Reviews(stored) /\ now \in Int
         /\ Readable
         /\ \A i \in DOMAIN stored : /\ stored[i].at >= -1
                                     /\ ScoreOf[stored[i].id] \in Star
<1>1. stored \in Seq(Review) /\ Unique(stored) /\ Parses(stored) /\ Dated(stored) /\ now \in Int
  BY DEF IInv, TypeOK, IdsAreUnique, StarsAreRead, AllDated
<1>2. stored \in Seq([id : Int, at : Int])
  <2>1. Review \subseteq [id : Int, at : Int]
    BY Constants DEF Review
  <2>2. DOMAIN stored = 1..Len(stored) /\ Len(stored) \in Nat
    BY <1>1, LenProperties
  <2>3. \A i \in 1..Len(stored) : stored[i] \in [id : Int, at : Int]
    BY <1>1, <2>1, ElementOfSeq
  <2>4. [i \in 1..Len(stored) |-> stored[i]] \in Seq([id : Int, at : Int])
    BY <2>2, <2>3, IsASeq
  <2>5. stored = [i \in 1..Len(stored) |-> stored[i]]
    BY <1>1, LenProperties
  <2>6. QED
    BY <2>4, <2>5
<1>3. QED
  BY <1>1, <1>2 DEF Reviews, Readable, Unique, Parses, Ids, Dated, Range

\* A list has the stored reviews of its window, each once, in strict order.
LEMMA ListOfFacts ==
  ASSUME IInv, NEW d \in Int
  PROVE  LET list == RecentReviews(stored, d, now)
         IN  /\ list \in Seq(Review)
             /\ Range(list) = {r \in Range(stored) : now - r.at \in 0..d}
             /\ \A i, j \in DOMAIN list :
                  i < j => Newer(list[i], list[j]) /\ list[i].id # list[j].id
<1>1. stored \in Seq(Review) /\ Reviews(stored) /\ now \in Int
  BY StoredIsReviews
<1>2. Review \in SUBSET [id : Int, at : Int]
  BY Constants DEF Review
<1>3. QED
  BY <1>1, <1>2, ListIsTheWindow

\* GetRecentReviews answers exactly the stored reviews of the window, each once,
\* strictly newest first (service.go:41, 48-53).
THEOREM ListsAreExact == Spec => []ListIsExact
<1>1. IInv => ListIsExact
  <2> SUFFICES ASSUME IInv, NEW q \in Query
               PROVE  LET list == ListOf(q)
                      IN  /\ Range(list) = {r \in Range(stored) : now - r.at \in 0..WindowOf(q)}
                          /\ \A i, j \in DOMAIN list :
                               i < j => Newer(list[i], list[j]) /\ list[i].id # list[j].id
    BY DEF ListIsExact
  <2>1. QED
    BY WindowsAreInt, ListOfFacts DEF ListOf
<1>2. QED
  BY <1>1, Invariance, PTL

\* A summary is of the list that is served with it.
LEMMA SummaryOfFacts ==
  ASSUME IInv, NEW q \in Query
  PROVE  LET list == ListOf(q)
             s == SummaryOf(q)
         IN  /\ s.total = Len(list)
             /\ DOMAIN s.countByStar = Star
             /\ \A n \in Star : s.countByStar[n] = StarsIn(list, n) /\ StarsIn(list, n) \in Nat
             /\ s.sum = StarsIn(list, 1) + 2 * StarsIn(list, 2) + 3 * StarsIn(list, 3)
                          + 4 * StarsIn(list, 4) + 5 * StarsIn(list, 5)
             /\ s.total = StarsIn(list, 1) + StarsIn(list, 2) + StarsIn(list, 3)
                            + StarsIn(list, 4) + StarsIn(list, 5)
             /\ list # <<>> => s.lastUpdated = list[1].at
<1>1. /\ Reviews(stored) /\ now \in Int /\ WindowOf(q) \in Int
      /\ \A i \in DOMAIN stored : /\ stored[i].at >= -1
                                  /\ ScoreOf[stored[i].id] \in Star
  BY StoredIsReviews, WindowsAreInt
<1>2. QED
  BY <1>1, SummaryIsOfTheList DEF ListOf, SummaryOf

\* "the summary matches the reviews list" (service.go:106-107): its total, its
\* counts, the sum behind its average and its last update are those of the list.
THEOREM SummariesMatch == Spec => []SummaryMatchesList
<1>1. IInv => SummaryMatchesList
  <2> SUFFICES ASSUME IInv, NEW q \in Query
               PROVE  LET list == ListOf(q)
                          s == SummaryOf(q)
                          count(n) == Cardinality({i \in DOMAIN list : ScoreOf[list[i].id] = n})
                      IN  /\ s.total = Len(list)
                          /\ \A n \in Star : s.countByStar[n] = count(n)
                          /\ s.sum = SumFunction([n \in Star |-> n * count(n)])
                          /\ list # <<>> => s.lastUpdated = list[1].at
    BY DEF SummaryMatchesList
  <2> DEFINE list == ListOf(q)
             s == SummaryOf(q)
             f == [n \in Star |-> n * StarsIn(list, n)]
  <2>1. /\ s.total = Len(list)
        /\ \A n \in Star : s.countByStar[n] = StarsIn(list, n) /\ StarsIn(list, n) \in Nat
        /\ s.sum = StarsIn(list, 1) + 2 * StarsIn(list, 2) + 3 * StarsIn(list, 3)
                     + 4 * StarsIn(list, 4) + 5 * StarsIn(list, 5)
        /\ list # <<>> => s.lastUpdated = list[1].at
    BY SummaryOfFacts
  <2> HIDE DEF list, s
  <2>2. /\ 1 \in Star /\ 2 \in Star /\ 3 \in Star /\ 4 \in Star /\ 5 \in Star
        /\ \A n \in Star : n \in Int
    BY DEF Star
  <2>3. DOMAIN f = Star /\ \A n \in Star : f[n] \in Int
    BY <2>1, <2>2
  <2>4. /\ f[1] = StarsIn(list, 1) /\ f[2] = 2 * StarsIn(list, 2) /\ f[3] = 3 * StarsIn(list, 3)
        /\ f[4] = 4 * StarsIn(list, 4) /\ f[5] = 5 * StarsIn(list, 5)
    BY <2>1, <2>2
  <2> HIDE DEF f
  <2>5. s.sum = SumFunction(f)
    <3>1. SumFunction(f) = f[1] + f[2] + f[3] + f[4] + f[5]
      BY <2>3, StarSum
    <3>2. QED
      BY <2>1, <2>4, <3>1
  <2>6. f = [n \in Star |-> n * Cardinality({i \in DOMAIN list : ScoreOf[list[i].id] = n})]
    BY DEF f, StarsIn
  <2>7. \A n \in Star :
          s.countByStar[n] = Cardinality({i \in DOMAIN list : ScoreOf[list[i].id] = n})
    BY <2>1 DEF StarsIn
  <2>8. QED
    BY <2>1, <2>5, <2>6, <2>7 DEF list, s
<1>2. QED
  BY <1>1, Invariance, PTL

\* "the contract for both ends" (web/src/schemas/index.ts:3): the page can parse what
\* it gets, and the stars of a summary add up to its total.
THEOREM AnswersParsed == Spec => []AnswersParse
<1>1. IInv => AnswersParse
  <2> SUFFICES ASSUME IInv, NEW q \in Query
               PROVE  /\ \A r \in Range(ListOf(q)) : ReviewSchema(r)
                      /\ SumFunction(SummaryOf(q).countByStar) = SummaryOf(q).total
    BY DEF AnswersParse
  <2>1. \A r \in Range(ListOf(q)) : ReviewSchema(r)
    <3>1. Range(ListOf(q)) \subseteq Range(stored)
      BY WindowsAreInt, ListOfFacts DEF ListOf
    <3>2. QED
      BY <3>1, StoredIsReviews DEF Range, ReviewSchema, Star
  <2> DEFINE c == SummaryOf(q).countByStar
             list == ListOf(q)
  <2>2. /\ DOMAIN c = Star
        /\ \A n \in Star : c[n] = StarsIn(list, n) /\ StarsIn(list, n) \in Nat
        /\ SummaryOf(q).total = StarsIn(list, 1) + StarsIn(list, 2) + StarsIn(list, 3)
                                  + StarsIn(list, 4) + StarsIn(list, 5)
    BY SummaryOfFacts
  <2> HIDE DEF c, list
  <2>3. 1 \in Star /\ 2 \in Star /\ 3 \in Star /\ 4 \in Star /\ 5 \in Star
    BY DEF Star
  <2>4. SumFunction(c) = c[1] + c[2] + c[3] + c[4] + c[5]
    BY <2>2, StarSum
  <2>5. QED
    BY <2>1, <2>2, <2>3, <2>4 DEF c
<1>2. QED
  BY <1>1, Invariance, PTL

\* Asking for more hours never shows less (handler.go:143-145, 155-158).
THEOREM WiderShows == Spec => []WiderShowsMore
<1>1. IInv => WiderShowsMore
  <2> SUFFICES ASSUME IInv, NEW q \in Query \ {NoHours}, NEW r \in Query \ {NoHours},
                      0 < q, q <= r, NEW review \in Range(ListOf(q))
               PROVE  review \in Range(ListOf(r))
    BY DEF WiderShowsMore
  <2>1. q \in Int /\ r \in Int
    BY QueryAssumption
  <2>2. /\ Range(ListOf(q)) = {x \in Range(stored) : now - x.at \in 0..WindowOf(q)}
        /\ Range(ListOf(r)) = {x \in Range(stored) : now - x.at \in 0..WindowOf(r)}
    BY WindowsAreInt, ListOfFacts DEF ListOf
  <2>3. review \in Range(stored) /\ now - review.at \in 0..WindowOf(q)
    BY <2>2
  <2>4. review \in Review /\ review.at \in Int /\ now \in Int
    <3>1. stored \in Seq(Review) /\ now \in Int
      BY StoredIsReviews
    <3>2. PICK i \in DOMAIN stored : review = stored[i]
      BY <2>3 DEF Range
    <3>3. stored[i] \in Review
      BY <3>1, <3>2, LenProperties, ElementOfSeq
    <3>4. QED
      BY <3>1, <3>2, <3>3 DEF Review
  <2>5. /\ WindowOf(q) \in Int /\ WindowOf(r) \in Int
    BY WindowsAreInt
  <2>6. WithinLast(review, WindowOf(q), now)
    BY <2>3, <2>4, <2>5 DEF WithinLast
  <2>7. WithinLast(review, WindowOf(r), now)
    BY <2>1, <2>4, <2>6, WiderWindowKeeps
  <2>8. now - review.at \in 0..WindowOf(r)
    BY <2>4, <2>5, <2>7 DEF WithinLast
  <2>9. QED
    BY <2>2, <2>3, <2>8
<1>2. QED
  BY <1>1, Invariance, PTL

\* No step drops or changes a review of the store, and the clock does not go back.
LEMMA StoreGrows ==
  ASSUME IInv, [Next]_vars
  PROVE  Range(stored) \subseteq Range(stored') /\ now' >= now /\ now \in Int /\ now' \in Int
<1>1. CASE Save
  BY <1>1, SaveInv, Constants DEF Save, IInv, TypeOK
<1>2. CASE Tick
  BY <1>2, Constants DEF Tick, IInv, TypeOK
<1>3. CASE ~Save /\ ~Tick
  <2>1. UNCHANGED <<now, stored>>
    BY <1>3 DEF Next, vars, Publish, Edit, Withdraw, StartPoll, FetchPage, PollFails
  <2>2. QED
    BY <2>1, Constants DEF IInv, TypeOK
<1>4. QED
  BY <1>1, <1>2, <1>3

\* Whatever the feed does, a review that is listed stays listed, as it is, until
\* the window has passed it.
THEOREM ListedStays == Spec => ListedUntilOld
<1>1. ASSUME IInv, Readable', [Next]_vars, NEW d \in {WindowOf(q) : q \in Query},
             NEW r \in Range(RecentReviews(stored, d, now))
      PROVE  r \in Range(RecentReviews(stored', d, now')) \/ now' - r.at > d
  <2>1. d \in Int /\ d >= 0
    BY WindowsAreInt
  <2>2. Range(RecentReviews(stored, d, now)) = {x \in Range(stored) : now - x.at \in 0..d}
    BY <1>1, <2>1, ListOfFacts
  <2>3. r \in Range(stored) /\ now - r.at \in 0..d
    BY <2>2
  <2>4. /\ stored' \in Seq(Review) /\ Reviews(stored') /\ now' \in Int
        /\ Review \in SUBSET [id : Int, at : Int]
    BY <1>1, Constants DEF Readable, Review, Reviews
  <2>5. Range(RecentReviews(stored', d, now')) = {x \in Range(stored') : now' - x.at \in 0..d}
    BY <2>1, <2>4, ListIsTheWindow
  <2>6. r \in Range(stored') /\ now' >= now /\ now \in Int /\ now' \in Int
    BY <1>1, <2>3, StoreGrows
  <2>7. r.at \in Int
    <3>1. PICK i \in DOMAIN stored' : r = stored'[i]
      BY <2>6 DEF Range
    <3>2. stored'[i] \in Review
      BY <2>4, <3>1, LenProperties, ElementOfSeq
    <3>3. QED
      BY <3>1, <3>2 DEF Review
  <2>8. now' - r.at \in 0..d \/ now' - r.at > d
    BY <2>1, <2>3, <2>6, <2>7
  <2>9. QED
    BY <2>5, <2>6, <2>8
<1>2. IInv /\ Readable' /\ [Next]_vars =>
        [\A d \in {WindowOf(q) : q \in Query} :
           LET list == RecentReviews(stored, d, now)
           IN  \A r \in Range(list) : r \in Range(list') \/ now' - r.at > d]_vars
  BY <1>1
<1>3. IInv => Readable
  BY StoredIsReviews
<1>4. QED
  BY <1>2, <1>3, Invariance, PTL DEF Spec, ListedUntilOld
================================================================================
