--------------------------- MODULE ReviewList_proofs ---------------------------
(***************************************************************************)
(* Proofs about what a reader sees of the list and of the summary, of any  *)
(* number of reviews, on pages of any size and at any times.               *)
(***************************************************************************)
EXTENDS ReviewList, Window_proofs

-----------------------------------------------------------------------------
(* Pages *)

\* Products with the size of a page keep the order of pages.
LEMMA Pages ==
  ASSUME NEW p \in Nat, NEW q \in Nat, p < q
  PROVE  /\ p * PageSize \in Nat /\ q * PageSize \in Nat
         /\ (p + 1) * PageSize = p * PageSize + PageSize
         /\ (p + 1) * PageSize <= q * PageSize
<1>1. PageSize \in Nat \ {0}
  BY ReadingAssumption
<1>2. QED
  BY <1>1, SMT

\* What page p holds of a list that reaches that far.
LEMMA PageFacts ==
  ASSUME list \in Seq(Review), NEW p \in Nat, p * PageSize < Len(list)
  PROVE  /\ PageOf(p) \in Seq(Review)
         /\ Len(PageOf(p)) \in 1..PageSize
         /\ Len(PageOf(p)) = PageSize \/ p * PageSize + Len(PageOf(p)) = Len(list)
         /\ p * PageSize + Len(PageOf(p)) <= Len(list)
         /\ \A k \in 1..Len(PageOf(p)) : PageOf(p)[k] = list[p * PageSize + k]
<1> DEFINE from == p * PageSize
<1> DEFINE to == Min({(p + 1) * PageSize, Len(list)})
<1>1. /\ PageSize \in Nat \ {0} /\ Len(list) \in Nat
      /\ from \in Nat /\ (p + 1) * PageSize = from + PageSize
  BY ReadingAssumption, Pages, p < p + 1
<1>2. to = IF from + PageSize <= Len(list) THEN from + PageSize ELSE Len(list)
  BY <1>1, MinOfTwo
<1>3. PageOf(p) = SubSeq(list, from + 1, to)
  BY DEF PageOf
<1> HIDE DEF from, to
<1>4. /\ PageOf(p) \in Seq(Review)
      /\ Len(PageOf(p)) = to - from /\ \A k \in 1..(to - from) : PageOf(p)[k] = list[from + k]
  <2>1. from + 1 \in 1..(Len(list) + 1) /\ to \in from..Len(list) /\ from + 1 <= to
    BY <1>1, <1>2 DEF from
  <2>2. \A k \in 1..(to - from) : from + 1 + k - 1 = from + k
    BY <1>1, <2>1
  <2>3. \A k \in (from + 1)..to : list[k] \in Review
    <3>1. \A k \in (from + 1)..to : k \in 1..Len(list)
      BY <1>1, <2>1
    <3>2. QED
      BY <3>1, ElementOfSeq
  <2>4. QED
    BY <1>1, <1>3, <2>1, <2>2, <2>3, SubSeqProperties
<1>5. QED
  BY <1>1, <1>2, <1>4 DEF from

\* Where the list has reviews, the last page begins in it, and ends with it.
LEMMA LastPage ==
  ASSUME list \in Seq(Review)
  PROVE  /\ TotalPages \in Nat \ {0} /\ TotalPages * PageSize \in Nat
         /\ list # <<>> => (TotalPages - 1) * PageSize < Len(list)
         /\ Len(list) <= TotalPages * PageSize
<1>1. PageSize \in Nat \ {0} /\ Len(list) \in Nat
  BY ReadingAssumption
<1>2. CASE list = <<>>
  BY <1>1, <1>2 DEF TotalPages
<1>3. CASE list # <<>>
  <2> DEFINE n == Len(list) + PageSize - 1
             t == n \div PageSize
  <2>1. /\ n \in Nat /\ t \in Nat
        /\ t * PageSize <= n /\ n < (t + 1) * PageSize
    BY <1>1, Divided
  <2>2. Len(list) > 0
    BY <1>1, <1>3
  <2>3. TotalPages = t
    BY <1>3 DEF TotalPages
  <2> HIDE DEF t
  <2>4. (t + 1) * PageSize = t * PageSize + PageSize /\ t * PageSize \in Nat
    BY <1>1, <2>1, Pages
  <2>5. t # 0
    BY <1>1, <2>1, <2>2, <2>4
  <2>6. t * PageSize = (t - 1) * PageSize + PageSize
    BY <1>1, <2>1, <2>5, Pages
  <2>7. QED
    BY <1>1, <2>1, <2>2, <2>3, <2>4, <2>5, <2>6
<1>4. QED
  BY <1>2, <1>3

\* The review at place i of the list is the k-th on page p.
OnPage(i, p) == \E k \in 1..Len(PageOf(p)) : i = p * PageSize + k

\* "Display-only pagination over the full in-memory list" (ReviewsPage.tsx:64):
\* every review of the list is on exactly one of its pages.
THEOREM EveryReviewOnOnePage ==
  ASSUME list \in Seq(Review), NEW i \in DOMAIN list
  PROVE  \E p \in 0..(TotalPages - 1) :
           /\ OnPage(i, p)
           /\ \A q \in 0..(TotalPages - 1) : OnPage(i, q) => q = p
<1> DEFINE p == (i - 1) \div PageSize
<1>1. /\ PageSize \in Nat \ {0} /\ Len(list) \in Nat
      /\ i \in 1..Len(list) /\ list # <<>>
  BY ReadingAssumption
<1>2. p \in Nat /\ p * PageSize <= i - 1 /\ i - 1 < (p + 1) * PageSize
  BY <1>1, Divided
<1> HIDE DEF p
<1>3. p * PageSize \in Nat /\ (p + 1) * PageSize = p * PageSize + PageSize
  BY <1>2, Pages, p < p + 1
<1>4. p < TotalPages
  <2>1. SUFFICES ASSUME TotalPages <= p
                 PROVE  FALSE
    BY <1>2, LastPage
  <2>2. TotalPages * PageSize <= p * PageSize
    BY <1>1, <1>2, <2>1, Pages, LastPage
  <2>3. Len(list) <= TotalPages * PageSize
    BY LastPage
  <2>4. QED
    BY <1>1, <1>2, <1>3, <2>2, <2>3, LastPage
<1>5. OnPage(i, p)
  <2> DEFINE from == p * PageSize
             n == Len(PageOf(p))
  <2>1. from \in Nat /\ from < i /\ i - 1 < from + PageSize /\ from < Len(list)
    BY <1>1, <1>2, <1>3
  <2>2. n \in 1..PageSize /\ (n = PageSize \/ from + n = Len(list))
    BY <1>2, <2>1, PageFacts
  <2> HIDE DEF from, n
  <2>3. n \in Nat /\ i - from \in 1..n
    BY <1>1, <2>1, <2>2
  <2>4. Len(PageOf(p)) \in Nat /\ i - p * PageSize \in 1..Len(PageOf(p))
    BY <2>3 DEF from, n
  <2>5. i = p * PageSize + (i - p * PageSize)
    BY <1>1, <1>3
  <2>6. QED
    BY <2>4, <2>5 DEF OnPage
<1>6. ASSUME NEW q \in 0..(TotalPages - 1), OnPage(i, q)
      PROVE  q = p
  <2>1. q \in Nat /\ q * PageSize < Len(list)
    <3>1. q \in Nat /\ q <= TotalPages - 1
      BY LastPage
    <3>2. q * PageSize <= (TotalPages - 1) * PageSize
      BY <1>1, <3>1, Pages, LastPage
    <3>3. QED
      BY <1>1, <3>1, <3>2, Pages, LastPage
  <2>2. q * PageSize < i /\ i <= q * PageSize + PageSize
    BY <1>1, <1>6, <2>1, PageFacts DEF OnPage
  <2>3. /\ p < q => (p + 1) * PageSize <= q * PageSize
        /\ q < p => (q + 1) * PageSize <= p * PageSize
        /\ (q + 1) * PageSize = q * PageSize + PageSize
    <3>1. ASSUME p < q PROVE (p + 1) * PageSize <= q * PageSize
      BY <1>2, <2>1, <3>1, Pages
    <3>2. ASSUME q < p PROVE (q + 1) * PageSize <= p * PageSize
      BY <1>2, <2>1, <3>2, Pages
    <3>3. (q + 1) * PageSize = q * PageSize + PageSize
      BY <2>1, Pages, q < q + 1
    <3>4. QED
      BY <3>1, <3>2, <3>3
  <2> DEFINE a == p * PageSize
             b == q * PageSize
             s == PageSize
  <2>4. /\ s \in Nat /\ a \in Nat /\ b \in Nat /\ i \in Nat
        /\ a <= i - 1 /\ i - 1 < a + s /\ b < i /\ i <= b + s
        /\ p < q => a + s <= b
        /\ q < p => b + s <= a
    BY <1>1, <1>2, <1>3, <2>1, <2>2, <2>3, Pages
  <2> HIDE DEF a, b, s
  <2>5. QED
    BY <1>2, <2>1, <2>4
<1>7. QED
  BY <1>2, <1>4, <1>5, <1>6, LastPage

\* "Clamp for display so a refresh that shrinks the list lands on the last page"
\* (ReviewsPage.tsx:76): however far the page's number is past the end, the page
\* that is shown is one of the list's and has a review.
THEOREM ClampedPageHasReviews ==
  ASSUME list \in Seq(Review), list # <<>>, page \in Nat
  PROVE  CurrentPage \in 0..(TotalPages - 1) /\ VisibleReviews # <<>>
<1>1. /\ PageSize \in Nat \ {0} /\ Len(list) \in Nat
      /\ TotalPages \in Nat \ {0}
  BY ReadingAssumption, LastPage
<1>2. CurrentPage \in 0..(TotalPages - 1)
  BY <1>1, MinOfTwo DEF CurrentPage
<1>3. CurrentPage * PageSize < Len(list)
  <2>1. CurrentPage * PageSize <= (TotalPages - 1) * PageSize
    BY <1>1, <1>2, Pages
  <2>2. QED
    BY <1>1, <1>2, <2>1, Pages, LastPage
<1>4. Len(PageOf(CurrentPage)) > 0
  BY <1>1, <1>2, <1>3, PageFacts
<1>5. QED
  BY <1>2, <1>4 DEF VisibleReviews

-----------------------------------------------------------------------------
(* The inductive invariant *)

\* What the server has: no id twice.
SavedOnce ==
  /\ IsFiniteSet(saved)
  /\ \A r, s \in saved : r.id = s.id => r = s

\* What the hook holds was saved, and is not from ahead of the clock, as what the
\* server has may be.
HeldIsSaved ==
  /\ Range(list) \subseteq saved
  /\ \A r \in Range(list) : r.at <= now

\* A window is loaded from its first page on.
LoadsFromTheFirst == loading => page = 0

\* The reader has met the reviews up to the end of the page that is shown.
MetSoFar ==
  ~loading => \A i \in DOMAIN list : i <= (CurrentPage + 1) * PageSize => list[i] \in met

IInv == TypeOK /\ SavedOnce /\ HeldIsSaved /\ LoadsFromTheFirst /\ MetSoFar

\* The constants and the fields of reviews are numbers.
LEMMA Numbers ==
  /\ Review \in SUBSET [id : Int, at : Int] /\ Instant \subseteq Nat
  /\ PageSize \in Nat \ {0} /\ ScoreOf \in [Id -> Star]
  /\ \A h \in Choice : WindowOf(h) \in Nat /\ WindowOf(h) * Hour \in Nat
<1>1. /\ Review \in SUBSET [id : Int, at : Int] /\ Instant \subseteq Nat
      /\ PageSize \in Nat \ {0} /\ ScoreOf \in [Id -> Star]
  <2>1. Id \subseteq Int /\ Submitted \subseteq Int
    BY ReadingAssumption
  <2>2. \A r \in Review : r \in [id : Int, at : Int]
    BY <2>1 DEF Review
  <2>3. QED
    BY <2>2, ReadingAssumption
<1>2. ASSUME NEW h \in Choice
      PROVE  WindowOf(h) \in Nat /\ WindowOf(h) * Hour \in Nat
  <2>1. h \in Int
    BY ReadingAssumption
  <2>2. WindowOf(h) \in {DefaultWindow} \cup 1..MaxWindow
    BY <2>1, WindowIsClamped
  <2>3. WindowOf(h) \in Nat
    BY <2>2, WindowAssumption
  <2>4. QED
    BY <2>3 DEF Hour
<1>3. QED
  BY <1>1, <1>2

\* The reviews that are saved, in whatever order the store has them.
LEMMA SavedFacts ==
  ASSUME NEW S \in SUBSET Review, IsFiniteSet(S), \A r, s \in S : r.id = s.id => r = s,
         NEW rs, rs = SetToSeq(S)
  PROVE  rs \in Seq(Review) /\ Range(rs) = S /\ Reviews(rs)
<1> DEFINE n == Cardinality(S)
<1>1. n \in Nat
  BY FS_CardinalityType
<1>2. \E f : f \in Bijection(1..n, S)
  <2>1. ExistsBijection(1..n, S)
    BY FS_CardinalityType
  <2>2. QED
    BY <2>1 DEF ExistsBijection
<1>3. PICK f : f \in Bijection(1..n, S)
  BY <1>2
<1>4. f \in [1..n -> S] /\ IsInjective(f)
  BY <1>3 DEF Bijection, Injection
<1>5. rs = CHOOSE g \in [1..n -> S] : IsInjective(g)
  BY DEF SetToSeq
<1>6. rs \in [1..n -> S] /\ IsInjective(rs)
  BY <1>4, <1>5
<1> HIDE DEF n
<1>7. rs \in Injection(1..n, S)
  BY <1>6 DEF Injection
<1>8. IsFiniteSet(1..n) /\ Cardinality(1..n) = n
  BY <1>1, FS_Interval
<1>9. rs \in Surjection(1..n, S)
  <2>1. Cardinality(1..n) = Cardinality(S)
    BY <1>8 DEF n
  <2>2. QED
    BY <1>7, <1>8, <2>1, FS_Injection
<1>10. Range(rs) = S
  BY <1>6, <1>9 DEF Surjection, Range
<1>11. rs \in Seq(Review)
  <2>1. \A i \in 1..n : rs[i] \in Review
    BY <1>6
  <2>2. [i \in 1..n |-> rs[i]] \in Seq(Review)
    BY <1>1, <2>1, IsASeq
  <2>3. rs = [i \in 1..n |-> rs[i]]
    BY <1>6
  <2>4. QED
    BY <2>2, <2>3
<1>12. \A i, j \in DOMAIN rs : rs[i].id = rs[j].id => i = j
  <2>1. \A i \in DOMAIN rs : rs[i] \in S
    BY <1>6
  <2>2. \A i, j \in DOMAIN rs : rs[i] = rs[j] => i = j
    BY <1>6 DEF IsInjective
  <2>3. QED
    BY <2>1, <2>2
<1>13. rs \in Seq([id : Int, at : Int])
  <2> DEFINE T == [id : Int, at : Int]
  <2>1. \A i \in 1..n : rs[i] \in T
    BY <1>6, Numbers
  <2> HIDE DEF T
  <2>2. [i \in 1..n |-> rs[i]] \in Seq(T)
    BY <1>1, <2>1, IsASeq
  <2>3. rs = [i \in 1..n |-> rs[i]]
    BY <1>6
  <2>4. QED
    BY <2>2, <2>3 DEF T
<1>14. QED
  BY <1>10, <1>11, <1>12, <1>13 DEF Reviews

\* What the server answers: what is saved of the window, in strict order.
LEMMA AnswerFacts ==
  ASSUME TypeOK, SavedOnce, NEW a, a = Answer(hours)
  PROVE  /\ a \in Seq(Review)
         /\ Range(a) = {r \in saved : now - r.at \in 0..(WindowOf(hours) * Hour)}
         /\ \A i, j \in DOMAIN a : i < j => Newer(a[i], a[j]) /\ a[i].id # a[j].id
<1> DEFINE rs == SetToSeq(saved)
           d == WindowOf(hours) * Hour
<1>1. rs \in Seq(Review) /\ Range(rs) = saved /\ Reviews(rs)
  BY SavedFacts DEF TypeOK, SavedOnce
<1>2. now \in Int /\ d \in Int
  BY Numbers DEF TypeOK
<1>3. a = RecentReviews(rs, d, now)
  BY DEF Answer
<1> HIDE DEF rs, d
<1>4. /\ RecentReviews(rs, d, now) \in Seq(Review)
      /\ Range(RecentReviews(rs, d, now)) = {r \in Range(rs) : now - r.at \in 0..d}
      /\ \A i, j \in DOMAIN RecentReviews(rs, d, now) :
           i < j => /\ Newer(RecentReviews(rs, d, now)[i], RecentReviews(rs, d, now)[j])
                    /\ RecentReviews(rs, d, now)[i].id # RecentReviews(rs, d, now)[j].id
  BY <1>1, <1>2, ListIsTheWindow, Numbers
<1>5. QED
  BY <1>1, <1>3, <1>4 DEF d

\* A refresh drops the oldest, if any: what stays never moves forward.
LEMMA NothingMovesForward ==
  ASSUME NEW old \in Seq(Review), NEW new \in Seq(Review),
         \A i, j \in DOMAIN old : i < j => Newer(old[i], old[j]),
         \A i, j \in DOMAIN new : i < j => Newer(new[i], new[j]),
         \A i, j \in DOMAIN old : i < j /\ old[j] \in Range(new) => old[i] \in Range(new),
         NEW i \in DOMAIN new, NEW j \in DOMAIN old, new[i] = old[j]
  PROVE  j <= i
<1> DEFINE Good(m) == \A k \in DOMAIN new : m \in DOMAIN old /\ new[k] = old[m] => m <= k
           M == {m \in Nat : Good(m)}
<1>1. /\ DOMAIN old = 1..Len(old) /\ Len(old) \in Nat
      /\ DOMAIN new = 1..Len(new) /\ Len(new) \in Nat
  BY LenProperties
<1>2. 0 \in M
  BY <1>1
<1>3. ASSUME NEW m \in Nat, m \in M
      PROVE  m + 1 \in M
  <2> SUFFICES ASSUME NEW k \in DOMAIN new, m + 1 \in DOMAIN old, new[k] = old[m + 1]
               PROVE  m + 1 <= k
    BY DEF M
  <2>1. CASE m = 0
    BY <1>1, <2>1
  <2>2. CASE m # 0
    <3>1. m \in DOMAIN old /\ m < m + 1
      BY <1>1, <2>2
    <3>2. new[k] \in Range(new)
      BY DEF Range
    <3>3. old[m] \in Range(new) /\ Newer(old[m], old[m + 1])
      BY <3>1, <3>2
    <3>4. PICK l \in DOMAIN new : new[l] = old[m]
      BY <3>3 DEF Range
    <3>5. m <= l
      BY <1>3, <3>1, <3>4
    <3>6. old[m] \in Review /\ old[m + 1] \in Review
      BY <1>1, <3>1, ElementOfSeq
    <3>7. ~Newer(old[m + 1], old[m])
      <4>1. /\ old[m].at \in Int /\ old[m].id \in Int
            /\ old[m + 1].at \in Int /\ old[m + 1].id \in Int
        BY <3>6, Numbers
      <4>2. QED
        BY <3>3, <4>1 DEF Newer
    <3>8. l # k
      <4>1. ~Newer(old[m], old[m])
        <5>1. old[m].at \in Int /\ old[m].id \in Int
          BY <3>6, Numbers
        <5>2. QED
          BY <5>1 DEF Newer
      <4>2. QED
        BY <3>3, <3>4, <4>1
    <3>9. ~(k < l)
      BY <3>4, <3>7
    <3>10. QED
      BY <1>1, <3>5, <3>8, <3>9
  <2>3. QED
    BY <2>1, <2>2
<1> HIDE DEF M, Good
<1>4. Nat \subseteq M
  BY <1>2, <1>3, Counting
<1>5. Good(j)
  BY <1>1, <1>4 DEF M
<1>6. QED
  BY <1>5 DEF Good

\* What page is shown, and what is on it.
Shown ==
  /\ CurrentPage \in Nat /\ CurrentPage <= page
  /\ CurrentPage * PageSize \in Nat
  /\ (CurrentPage + 1) * PageSize = CurrentPage * PageSize + PageSize
  /\ CurrentPage = page \/ Len(list) <= (CurrentPage + 1) * PageSize
  /\ list # <<>> =>
       /\ CurrentPage \in 0..(TotalPages - 1)
       /\ CurrentPage * PageSize < Len(list)
       /\ Range(VisibleReviews) \subseteq Range(list)
       /\ \A i \in DOMAIN list :
            CurrentPage * PageSize < i /\ i <= (CurrentPage + 1) * PageSize =>
              list[i] \in Range(VisibleReviews)

\* What page is shown follows from the list and the page that was chosen.
LEMMA ShownFacts == list \in Seq(Review) /\ page \in Nat => Shown
<1> SUFFICES ASSUME list \in Seq(Review), page \in Nat
             PROVE  Shown
  OBVIOUS
<1>1. /\ PageSize \in Nat \ {0} /\ Len(list) \in Nat /\ DOMAIN list = 1..Len(list)
      /\ TotalPages \in Nat \ {0}
  BY ReadingAssumption, LastPage, LenProperties
<1>2. CurrentPage = IF page <= TotalPages - 1 THEN page ELSE TotalPages - 1
  BY <1>1, MinOfTwo DEF CurrentPage
<1> DEFINE p == CurrentPage
<1>3. p \in Nat /\ p <= page /\ p \in 0..(TotalPages - 1)
  BY <1>1, <1>2
<1> HIDE DEF p
<1>4. p * PageSize \in Nat /\ (p + 1) * PageSize = p * PageSize + PageSize
  BY <1>3, Pages, p < p + 1
<1>5. p = page \/ Len(list) <= (p + 1) * PageSize
  <2>1. CASE p = TotalPages - 1
    <3>1. p + 1 = TotalPages
      BY <1>1, <2>1
    <3>2. Len(list) <= TotalPages * PageSize
      BY LastPage
    <3>3. QED
      BY <3>1, <3>2
  <2>2. QED
    BY <1>2, <2>1 DEF p
<1>6. ASSUME list # <<>>
      PROVE  /\ p * PageSize < Len(list)
             /\ Range(VisibleReviews) \subseteq Range(list)
             /\ \A i \in DOMAIN list :
                  p * PageSize < i /\ i <= (p + 1) * PageSize => list[i] \in Range(VisibleReviews)
  <2> DEFINE from == p * PageSize
             v == PageOf(p)
  <2>1. from < Len(list)
    <3>1. p <= TotalPages - 1 /\ TotalPages - 1 \in Nat
      BY <1>1, <1>3
    <3>2. p * PageSize <= (TotalPages - 1) * PageSize
      <4>1. CASE p < TotalPages - 1
        <5>1. (p + 1) * PageSize <= (TotalPages - 1) * PageSize
          BY <1>3, <3>1, <4>1, Pages
        <5>2. (TotalPages - 1) * PageSize \in Nat
          BY <1>3, <3>1, <4>1, Pages
        <5>3. QED
          BY <1>1, <1>4, <5>1, <5>2
      <4>2. CASE p = TotalPages - 1
        BY <1>4, <4>2
      <4>3. QED
        BY <1>3, <3>1, <4>1, <4>2
    <3>3. (TotalPages - 1) * PageSize < Len(list)
      BY <1>6, LastPage
    <3>4. (TotalPages - 1) * PageSize \in Nat
      <4>1. TotalPages - 1 < TotalPages
        BY <1>1
      <4>2. QED
        BY <1>1, <3>1, <4>1, Pages
    <3>5. QED
      BY <1>1, <1>4, <3>2, <3>3, <3>4
  <2>2. /\ Len(v) \in 1..PageSize
        /\ Len(v) = PageSize \/ from + Len(v) = Len(list)
        /\ from + Len(v) <= Len(list)
        /\ \A k \in 1..Len(v) : v[k] = list[from + k]
        /\ v \in Seq(Review)
    BY <1>3, <2>1, PageFacts
  <2>3. DOMAIN v = 1..Len(v)
    BY <2>2, LenProperties
  <2> HIDE DEF from, v
  <2>4. ASSUME NEW r \in Range(v)
        PROVE  r \in Range(list)
    <3>1. PICK k \in 1..Len(v) : r = v[k]
      BY <2>3 DEF Range
    <3>2. from + k \in DOMAIN list /\ list[from + k] = r
      BY <1>1, <1>4, <2>2, <3>1 DEF from
    <3>3. QED
      BY <3>2 DEF Range
  <2>5. ASSUME NEW i \in DOMAIN list, from < i, i <= from + PageSize
        PROVE  list[i] \in Range(v)
    <3> DEFINE k == i - from
    <3>1. k \in 1..Len(v) /\ from + k = i
      BY <1>1, <1>4, <2>2, <2>5 DEF from
    <3> HIDE DEF k
    <3>2. v[k] = list[i]
      BY <2>2, <3>1
    <3>3. QED
      BY <2>3, <3>1, <3>2 DEF Range
  <2>6. QED
    BY <1>4, <2>1, <2>4, <2>5 DEF from, v, p, VisibleReviews
<1>7. QED
  BY <1>3, <1>4, <1>5, <1>6 DEF Shown, p

\* It does so after a step.
LEMMA ShownNext == (list \in Seq(Review) /\ page \in Nat => Shown)'
BY ShownFacts, PTL

\* The initial states satisfy the inductive invariant.
LEMMA InitIInv == Init => IInv
<1> SUFFICES ASSUME Init PROVE IInv
  OBVIOUS
<1>1. Range(<<>>) = {} /\ DOMAIN <<>> = {} /\ <<>> \in Seq(Review)
  BY DEF Range
<1>2. IsFiniteSet({})
  BY FS_EmptySet
<1>3. QED
  BY <1>1, <1>2
     DEF Init, IInv, TypeOK, SavedOnce, HeldIsSaved, LoadsFromTheFirst, MetSoFar

\* The list that is held, whatever it was, and what the server answers.
LEMMA AnswerHeld ==
  ASSUME IInv, list' = Answer(hours)
  PROVE  /\ list' \in Seq(Review) /\ Range(list') \subseteq saved
         /\ \A r \in Range(list') : r.at <= now
         /\ \A i, j \in DOMAIN list' : i < j => Newer(list'[i], list'[j])
         /\ \A i \in DOMAIN list', j \in DOMAIN list : list'[i] = list[j] => j <= i
<1> DEFINE new == list'
           d == WindowOf(hours) * Hour
<1>1. /\ new \in Seq(Review)
      /\ Range(new) = {r \in saved : now - r.at \in 0..d}
      /\ \A i, j \in DOMAIN new : i < j => Newer(new[i], new[j])
  BY AnswerFacts DEF IInv
<1>2. /\ list \in Seq(Review) /\ saved \in SUBSET Review /\ now \in Int /\ d \in Int
      /\ \A i, j \in DOMAIN list : i < j => Newer(list[i], list[j])
      /\ Range(list) \subseteq saved
      /\ \A r \in Range(list) : r.at <= now
  BY Numbers DEF IInv, TypeOK, SavedOnce, HeldIsSaved
<1> HIDE DEF new, d
<1>3. ASSUME NEW i \in DOMAIN list, NEW j \in DOMAIN list, i < j, list[j] \in Range(new)
      PROVE  list[i] \in Range(new)
  <2>1. list[i] \in saved /\ list[j] \in saved /\ list[i] \in Range(list)
    BY <1>2 DEF Range
  <2>2. /\ list[i].at \in Int /\ list[j].at \in Int
        /\ list[i].at <= now /\ now - list[j].at \in 0..d
    BY <1>1, <1>2, <1>3, <2>1, Numbers
  <2>3. list[i].at >= list[j].at
    <3>1. Newer(list[i], list[j])
      BY <1>2, <1>3
    <3>2. QED
      BY <2>2, <3>1 DEF Newer
  <2>4. now - list[i].at \in 0..d
    BY <1>2, <2>2, <2>3
  <2>5. QED
    BY <1>1, <2>1, <2>4
<1>4. \A i \in DOMAIN new, j \in DOMAIN list : new[i] = list[j] => j <= i
  BY <1>1, <1>2, <1>3, NothingMovesForward
<1>5. ASSUME NEW r \in Range(new)
      PROVE  r.at <= now
  <2>1. r.at \in Int /\ now - r.at \in 0..d
    BY <1>1, <1>2, Numbers
  <2>2. QED
    BY <1>2, <2>1
<1>6. QED
  BY <1>1, <1>4, <1>5 DEF new

\* What a step shows has been met after it.
LEMMA Meets ==
  ASSUME list' \in Seq(Review), page' \in Nat, NEW before, NEW brought, Meet(before, brought),
         before \subseteq Review, brought \subseteq Review, ~loading'
  PROVE  /\ met' \subseteq Review /\ before \subseteq met' /\ brought \subseteq met'
         /\ \A i \in DOMAIN list' :
              CurrentPage' * PageSize < i /\ i <= (CurrentPage' + 1) * PageSize =>
                list'[i] \in met'
<1>1. Shown'
  BY ShownNext
<1>2. met' = before \cup brought \cup (IF Reading' THEN Range(VisibleReviews)' ELSE {})
  BY DEF Meet
<1>3. Range(list') \subseteq Review
  BY LenProperties, ElementOfSeq DEF Range
<1>4. CASE list' = <<>>
  BY <1>2, <1>4 DEF Reading
<1>5. CASE list' # <<>>
  <2>1. Reading'
    BY <1>5 DEF Reading
  <2>2. met' = before \cup brought \cup Range(VisibleReviews')
    BY <1>2, <2>1 DEF Range
  <2>3. /\ Range(VisibleReviews') \subseteq Range(list')
        /\ \A i \in DOMAIN list' :
             CurrentPage' * PageSize < i /\ i <= (CurrentPage' + 1) * PageSize =>
               list'[i] \in Range(VisibleReviews')
    BY <1>1, <1>5 DEF Shown, Range
  <2>4. QED
    BY <1>3, <2>2, <2>3
<1>6. QED
  BY <1>4, <1>5

\* A refresh leaves on the pages up to the one that is shown what had been met, or
\* brought it.
LEMMA RefreshInv ==
  ASSUME IInv, Refresh
  PROVE  IInv'
<1> DEFINE brought == Range(list') \ Range(list)
<1>1. /\ list' = Answer(hours) /\ UNCHANGED <<now, saved, hours, loading, page>>
      /\ Meet(met, brought)
  BY DEF Refresh
<1>2. /\ list \in Seq(Review) /\ page \in Nat /\ loading \in BOOLEAN
      /\ saved \subseteq Review /\ met \subseteq Review
  BY DEF IInv, TypeOK
<1>3. /\ list' \in Seq(Review) /\ Range(list') \subseteq saved
      /\ \A r \in Range(list') : r.at <= now
      /\ \A i, j \in DOMAIN list' : i < j => Newer(list'[i], list'[j])
      /\ \A i \in DOMAIN list', j \in DOMAIN list : list'[i] = list[j] => j <= i
  BY <1>1, AnswerHeld
<1>4. Shown /\ Shown'
  BY <1>1, <1>2, <1>3, ShownFacts, ShownNext
<1>5. met' \subseteq Review
  <2>1. CASE loading
    BY <1>1, <1>2, <1>3, <2>1 DEF Meet, Reading
  <2>2. CASE ~loading
    BY <1>1, <1>2, <1>3, <2>2, Meets
  <2>3. QED
    BY <2>1, <2>2
<1>6. MetSoFar'
  <2> SUFFICES ASSUME ~loading', NEW i \in DOMAIN list', i <= (CurrentPage' + 1) * PageSize
               PROVE  list'[i] \in met'
    BY DEF MetSoFar
  <2>1. /\ met \subseteq met' /\ brought \subseteq met'
        /\ \A k \in DOMAIN list' :
             CurrentPage' * PageSize < k /\ k <= (CurrentPage' + 1) * PageSize =>
               list'[k] \in met'
    BY <1>1, <1>2, <1>3, Meets
  <2>2. CASE CurrentPage' * PageSize < i
    BY <2>1, <2>2
  <2>3. CASE ~(CurrentPage' * PageSize < i)
    <3>1. CASE list'[i] \notin Range(list)
      BY <2>1, <3>1 DEF Range
    <3>2. CASE list'[i] \in Range(list)
      <4>1. PICK j \in DOMAIN list : list'[i] = list[j]
        BY <3>2 DEF Range
      <4>2. j <= i /\ i \in Nat /\ j \in Nat /\ j <= Len(list) /\ Len(list) \in Nat
        BY <1>2, <1>3, <4>1, LenProperties
      <4>3. j <= (CurrentPage + 1) * PageSize
        <5>1. CASE Len(list) <= (CurrentPage + 1) * PageSize
          BY <1>4, <4>2, <5>1, Numbers DEF Shown
        <5>2. CASE CurrentPage = page
          <6> DEFINE p == CurrentPage
                     q == CurrentPage'
          <6>1. p \in Nat /\ q \in Nat /\ q <= p
            BY <1>1, <1>4, <5>2 DEF Shown
          <6>2. /\ p * PageSize \in Nat /\ q * PageSize \in Nat /\ PageSize \in Nat
                /\ (p + 1) * PageSize = p * PageSize + PageSize
                /\ i <= q * PageSize
            <7>1. p * PageSize \in Nat /\ (p + 1) * PageSize = p * PageSize + PageSize
              BY <1>4 DEF Shown
            <7>2. q * PageSize \in Nat
              BY <1>4 DEF Shown
            <7> HIDE DEF p, q
            <7>3. i <= q * PageSize
              BY <2>3, <4>2, <7>2 DEF q
            <7>4. QED
              BY <7>1, <7>2, <7>3, Numbers
          <6> HIDE DEF p, q
          <6>3. q * PageSize <= p * PageSize
            <7>1. CASE q < p
              <8>1. (q + 1) * PageSize = q * PageSize + PageSize
                    /\ (q + 1) * PageSize <= p * PageSize
                BY <6>1, <7>1, Pages
              <8>2. QED
                BY <6>2, <8>1
            <7>2. CASE q = p
              BY <6>2, <7>2
            <7>3. QED
              BY <6>1, <7>1, <7>2
          <6>4. j <= (p + 1) * PageSize
            BY <4>2, <6>2, <6>3
          <6>5. QED
            BY <6>4 DEF p
        <5>3. QED
          BY <1>4, <5>1, <5>2 DEF Shown
      <4>4. list[j] \in met
        BY <1>1, <4>3 DEF IInv, MetSoFar
      <4>5. QED
        BY <2>1, <4>1, <4>4
    <3>3. QED
      BY <3>1, <3>2
  <2>4. QED
    BY <2>2, <2>3
<1>7. TypeOK'
  BY <1>1, <1>2, <1>3, <1>5 DEF IInv, TypeOK
<1>8. QED
  BY <1>1, <1>3, <1>6, <1>7 DEF IInv, SavedOnce, HeldIsSaved, LoadsFromTheFirst

\* The first page of the window, which a load shows.
LEMMA FirstPage ==
  ASSUME IInv, loading, ~loading', page' = page, list' \in Seq(Review), NEW before,
         before \subseteq Review, Meet(before, {})
  PROVE  MetSoFar' /\ met' \subseteq Review
<1>1. page' = 0 /\ page' \in Nat
  BY DEF IInv, LoadsFromTheFirst
<1>2. Shown'
  BY <1>1, ShownNext
<1>3. /\ met' \subseteq Review
      /\ \A i \in DOMAIN list' :
           CurrentPage' * PageSize < i /\ i <= (CurrentPage' + 1) * PageSize => list'[i] \in met'
  BY <1>1, Meets
<1>4. CurrentPage' = 0
  BY <1>1, <1>2 DEF Shown
<1>5. \A i \in DOMAIN list' : CurrentPage' * PageSize < i
  <2>1. 0 * PageSize = 0
    BY Numbers
  <2>2. QED
    BY <1>4, <2>1, LenProperties
<1>6. QED
  BY <1>3, <1>5 DEF MetSoFar

\* A load begins with the first page, whether it succeeds or fails.
LEMMA LoadInv ==
  ASSUME IInv, Load \/ LoadFails
  PROVE  IInv'
<1>1. /\ loading /\ ~loading' /\ loading' \in BOOLEAN
      /\ UNCHANGED <<now, saved, hours, page>> /\ Meet(met, {})
      /\ list' = Answer(hours) \/ list' = list
  BY DEF Load, LoadFails
<1>2. list \in Seq(Review) /\ met \subseteq Review /\ page \in Nat
  BY DEF IInv, TypeOK
<1>3. /\ list' \in Seq(Review) /\ Range(list') \subseteq saved
      /\ \A r \in Range(list') : r.at <= now
      /\ \A i, j \in DOMAIN list' : i < j => Newer(list'[i], list'[j])
  <2>1. CASE list' = Answer(hours)
    BY <2>1, AnswerHeld
  <2>2. CASE list' = list
    BY <2>2 DEF IInv, TypeOK, HeldIsSaved
  <2>3. QED
    BY <1>1, <2>1, <2>2
<1>4. MetSoFar' /\ met' \subseteq Review
  BY <1>1, <1>2, <1>3, FirstPage
<1>5. TypeOK'
  BY <1>1, <1>2, <1>3, <1>4 DEF IInv, TypeOK
<1>6. QED
  BY <1>1, <1>3, <1>4, <1>5 DEF IInv, SavedOnce, HeldIsSaved, LoadsFromTheFirst

\* A page that is turned to is beside the one that was shown.
LEMMA TurnInv ==
  ASSUME IInv, NEW p, p = CurrentPage - 1 \/ p = CurrentPage + 1, Turn(p)
  PROVE  IInv'
<1>1. /\ ~loading /\ list # <<>> /\ p \in 0..(TotalPages - 1)
      /\ page' = p /\ UNCHANGED <<now, saved, hours, list, loading>> /\ Meet(met, {})
  BY DEF Turn, Reading
<1>2. list \in Seq(Review) /\ met \subseteq Review /\ page \in Nat
  BY DEF IInv, TypeOK
<1>3. p \in Nat /\ p <= TotalPages - 1 /\ TotalPages \in Nat
  BY <1>1, <1>2, LastPage
<1>4. Shown
  BY <1>2, ShownFacts
<1>5. /\ met' \subseteq Review /\ met \subseteq met'
      /\ \A i \in DOMAIN list' :
           CurrentPage' * PageSize < i /\ i <= (CurrentPage' + 1) * PageSize => list'[i] \in met'
  BY <1>1, <1>2, <1>3, Meets
<1>6. CurrentPage' = p
  <2>1. TotalPages' = TotalPages
    BY <1>1 DEF TotalPages
  <2>2. CurrentPage' = Min({p, TotalPages - 1})
    BY <1>1, <2>1 DEF CurrentPage
  <2>3. QED
    BY <1>3, <2>2, MinOfTwo
<1>7. ASSUME NEW i \in DOMAIN list, i <= p * PageSize
      PROVE  list[i] \in met
  <2>1. p * PageSize <= (CurrentPage + 1) * PageSize
    <3>1. CASE p = CurrentPage + 1
      <4>1. (CurrentPage + 1) * PageSize \in Nat
        BY <1>4, Numbers DEF Shown
      <4>2. QED
        BY <3>1, <4>1
    <3>2. CASE p = CurrentPage - 1
      <4>1. p < CurrentPage /\ CurrentPage = p + 1 /\ CurrentPage \in Nat
        BY <1>3, <1>4, <3>2 DEF Shown
      <4>2. p * PageSize \in Nat /\ (p + 1) * PageSize = p * PageSize + PageSize
        BY <1>3, <4>1, Pages
      <4>3. CurrentPage * PageSize = p * PageSize + PageSize
        BY <4>1, <4>2
      <4>4. QED
        BY <1>4, <4>2, <4>3, Numbers DEF Shown
    <3>3. QED
      BY <3>1, <3>2
  <2>2. p * PageSize \in Nat /\ (CurrentPage + 1) * PageSize \in Nat /\ i \in Nat
    <3>1. p * PageSize \in Nat
      BY <1>3, Pages, p < p + 1
    <3>2. QED
      BY <1>2, <1>4, <3>1, Numbers, LenProperties DEF Shown
  <2>3. i <= (CurrentPage + 1) * PageSize
    BY <1>7, <2>1, <2>2
  <2>4. QED
    BY <1>1, <2>3 DEF IInv, MetSoFar
<1>8. MetSoFar'
  <2> SUFFICES ASSUME NEW i \in DOMAIN list, i <= (CurrentPage' + 1) * PageSize
               PROVE  list[i] \in met'
    BY <1>1 DEF MetSoFar
  <2>1. i \in Nat /\ p * PageSize \in Nat
    <3>1. p * PageSize \in Nat
      BY <1>3, Pages, p < p + 1
    <3>2. QED
      BY <1>2, <3>1, LenProperties
  <2>2. CASE i <= p * PageSize
    BY <1>5, <1>7, <2>2
  <2>3. CASE p * PageSize < i
    BY <1>1, <1>5, <1>6, <2>3
  <2>4. QED
    BY <2>1, <2>2, <2>3
<1>9. TypeOK'
  BY <1>1, <1>2, <1>3, <1>5 DEF IInv, TypeOK
<1>10. QED
  BY <1>1, <1>8, <1>9 DEF IInv, SavedOnce, HeldIsSaved, LoadsFromTheFirst

\* A review that is stored has a new id.
LEMMA StoreInv ==
  ASSUME IInv, NEW i \in Id, NEW t \in Submitted, Store(i, t)
  PROVE  IInv'
<1> DEFINE r == [id |-> i, at |-> t]
<1>1. /\ i \notin {s.id : s \in saved} /\ saved' = saved \cup {r}
      /\ UNCHANGED <<now, hours, list, loading, page, met>>
  BY DEF Store
<1>2. r \in Review /\ r.id = i /\ r.at = t
  BY DEF Review
<1> HIDE DEF r
<1>3. IsFiniteSet(saved')
  BY <1>1, FS_AddElement DEF IInv, SavedOnce
<1>4. SavedOnce'
  BY <1>1, <1>2, <1>3 DEF IInv, SavedOnce
<1>5. TypeOK'
  BY <1>1, <1>2 DEF IInv, TypeOK
<1>6. CurrentPage' = CurrentPage
  BY <1>1 DEF CurrentPage, TotalPages
<1>7. QED
  BY <1>1, <1>4, <1>5, <1>6 DEF IInv, HeldIsSaved, LoadsFromTheFirst, MetSoFar

\* Time passes without a trace in the list.
LEMMA TickInv ==
  ASSUME IInv, NEW t \in Instant, Tick(t)
  PROVE  IInv'
<1>1. /\ t > now /\ now' = t
      /\ UNCHANGED <<saved, hours, list, loading, page, met>>
  BY DEF Tick
<1>2. t \in Nat /\ now \in Nat /\ \A r \in saved : r.at \in Int
  BY Numbers DEF IInv, TypeOK
<1>3. HeldIsSaved'
  <2>1. \A r \in Range(list) : r.at <= t
    BY <1>1, <1>2 DEF IInv, HeldIsSaved
  <2>2. Range(list') = Range(list)
    BY <1>1
  <2>3. QED
    BY <1>1, <2>1, <2>2 DEF IInv, HeldIsSaved
<1>4. CurrentPage' = CurrentPage
  BY <1>1 DEF CurrentPage, TotalPages
<1>5. QED
  BY <1>1, <1>3, <1>4 DEF IInv, TypeOK, SavedOnce, LoadsFromTheFirst, MetSoFar

\* The choice of a window goes back to the first page.
LEMMA ChooseInv ==
  ASSUME IInv, NEW h \in Choice, Choose(h)
  PROVE  IInv'
BY DEF IInv, Choose, TypeOK, SavedOnce, HeldIsSaved, LoadsFromTheFirst, MetSoFar

\* Every step preserves the inductive invariant.
LEMMA StepIInv == IInv /\ [Next]_vars => IInv'
<1> SUFFICES ASSUME IInv, [Next]_vars PROVE IInv'
  OBVIOUS
<1>1. ASSUME NEW t \in Instant, Tick(t) PROVE IInv'
  BY <1>1, TickInv
<1>2. ASSUME NEW i \in Id, NEW t \in Submitted, Store(i, t) PROVE IInv'
  BY <1>2, StoreInv
<1>3. CASE Refresh
  BY <1>3, RefreshInv
<1>4. CASE Load \/ LoadFails
  BY <1>4, LoadInv
<1>5. ASSUME NEW h \in Choice, Choose(h) PROVE IInv'
  BY <1>5, ChooseInv
<1>6. CASE Turn(CurrentPage - 1) \/ Turn(CurrentPage + 1)
  BY <1>6, TurnInv
<1>7. CASE UNCHANGED vars
  <2>1. UNCHANGED <<now, saved, hours, list, loading, page, met>>
    BY <1>7 DEF vars
  <2>2. CurrentPage' = CurrentPage
    BY <2>1 DEF CurrentPage, TotalPages
  <2>3. QED
    BY <2>1, <2>2 DEF IInv, TypeOK, SavedOnce, HeldIsSaved, LoadsFromTheFirst, MetSoFar
<1>8. QED
  BY <1>1, <1>2, <1>3, <1>4, <1>5, <1>6, <1>7 DEF Next

\* The inductive invariant holds in every reachable state.
THEOREM Invariance == Spec => []IInv
BY InitIInv, StepIInv, PTL DEF Spec

\* TypeOK: the variables keep their types, and the list its strict order.
THEOREM Typing == Spec => []TypeOK
<1>1. IInv => TypeOK
  BY DEF IInv
<1>2. QED
  BY <1>1, Invariance, PTL

\* ReadingSkipsNothing: turning the pages one by one skips no review, whatever
\* refreshes add or drop meanwhile (ReviewsPage.tsx:66-76).
THEOREM ReadersSkipNothing == Spec => []ReadingSkipsNothing
<1>1. IInv => ReadingSkipsNothing
  <2> SUFFICES ASSUME IInv, Reading, NEW i \in 1..(CurrentPage * PageSize)
               PROVE  list[i] \in met
    BY DEF ReadingSkipsNothing
  <2>1. ~loading /\ list # <<>> /\ list \in Seq(Review) /\ page \in Nat
    BY DEF Reading, IInv, TypeOK
  <2>2. Shown
    BY <2>1, ShownFacts
  <2>3. /\ i \in Nat /\ i >= 1 /\ i <= CurrentPage * PageSize
        /\ CurrentPage * PageSize \in Nat /\ PageSize \in Nat
        /\ (CurrentPage + 1) * PageSize = CurrentPage * PageSize + PageSize
        /\ CurrentPage * PageSize < Len(list)
    BY <2>1, <2>2, Numbers DEF Shown
  <2>4. i \in DOMAIN list /\ i <= (CurrentPage + 1) * PageSize
    BY <2>1, <2>3, LenProperties
  <2>5. QED
    BY <2>1, <2>4 DEF IInv, MetSoFar
<1>2. QED
  BY <1>1, Invariance, PTL

-----------------------------------------------------------------------------
(* The ages on the cards *)

\* The divisions are numbers, the first of them 1.
LEMMA Divisions == Division \in SUBSET Int /\ 1 \in Division /\ \A u \in Division : u >= 1
<1>1. QED
  BY SMT DEF Division

\* Every age has a largest division within it.
LEMMA LargestDivision ==
  ASSUME NEW a \in Nat
  PROVE  \E u \in Division : (u = 1 \/ u <= a) /\ \A v \in Division : v <= a => v <= u
<1> DEFINE Good(u) == (u = 1 \/ u <= a) /\ \A v \in Division : v <= a => v <= u
<1>1. a < 60 => Good(1)
  BY SMT DEF Division
<1>2. 60 <= a /\ a < 3600 => Good(60)
  BY SMT DEF Division
<1>3. 3600 <= a /\ a < 86400 => Good(3600)
  BY SMT DEF Division
<1>4. 86400 <= a /\ a < 604800 => Good(86400)
  BY SMT DEF Division
<1>5. 604800 <= a /\ a < 2628001 => Good(604800)
  BY SMT DEF Division
<1>6. 2628001 <= a /\ a < 31536014 => Good(2628001)
  BY SMT DEF Division
<1>7. 31536014 <= a => Good(31536014)
  BY SMT DEF Division
<1> HIDE DEF Good
<1>8. /\ 1 \in Division /\ 60 \in Division /\ 3600 \in Division /\ 86400 \in Division
      /\ 604800 \in Division /\ 2628001 \in Division /\ 31536014 \in Division
  BY SMT DEF Division
<1>9. \/ Good(1) \/ Good(60) \/ Good(3600) \/ Good(86400)
      \/ Good(604800) \/ Good(2628001) \/ Good(31536014)
  BY <1>1, <1>2, <1>3, <1>4, <1>5, <1>6, <1>7, SMT
<1>10. \E u \in Division : Good(u)
  BY <1>8, <1>9, SMT
<1>11. QED
  BY <1>10 DEF Good

\* The next division is a number of the one before it, or more, and rounding to
\* the nearest does not pass it.
LEMMA NextDivision ==
  ASSUME NEW u \in Division, NEW w \in Division, u < w
  PROVE  \E v \in Division, k \in Nat \ {0} :
           u < v /\ v <= w /\ k * u <= v /\ 2 * v < 2 * (k * u) + u + 3
<1> DEFINE Good(v, k) == u < v /\ v <= w /\ k * u <= v /\ 2 * v < 2 * (k * u) + u + 3
<1>1. u = 1 => Good(60, 60)
  BY SMT DEF Division
<1>2. u = 60 => Good(3600, 60)
  BY SMT DEF Division
<1>3. u = 3600 => Good(86400, 24)
  BY SMT DEF Division
<1>4. u = 86400 => Good(604800, 7)
  BY SMT DEF Division
<1>5. u = 604800 => Good(2628001, 4)
  BY SMT DEF Division
<1>6. u = 2628001 => Good(31536014, 12)
  BY SMT DEF Division
<1>7. u # 31536014
  BY SMT DEF Division
<1> HIDE DEF Good
<1>8. /\ 60 \in Division /\ 3600 \in Division /\ 86400 \in Division
      /\ 604800 \in Division /\ 2628001 \in Division /\ 31536014 \in Division
  BY SMT DEF Division
<1>9. \/ Good(60, 60) \/ Good(3600, 60) \/ Good(86400, 24)
      \/ Good(604800, 7) \/ Good(2628001, 4) \/ Good(31536014, 12)
  BY <1>1, <1>2, <1>3, <1>4, <1>5, <1>6, <1>7, SMT DEF Division
<1>10. \E v \in Division, k \in Nat \ {0} : Good(v, k)
  BY <1>8, <1>9, SMT
<1>11. QED
  BY <1>10 DEF Good

\* The unit of an age is the largest division within it.
LEMMA AgeFacts ==
  ASSUME NEW a \in Nat
  PROVE  /\ Age(a).unit \in Division
         /\ Age(a).unit = 1 \/ Age(a).unit <= a
         /\ \A v \in Division : v <= a => v <= Age(a).unit
         /\ Age(a).count = (2 * a + Age(a).unit - 1) \div (2 * Age(a).unit)
<1> DEFINE S == {1} \cup {v \in Division : v <= a}
<1>1. PICK u \in Division : (u = 1 \/ u <= a) /\ \A v \in Division : v <= a => v <= u
  BY LargestDivision
<1>2. u \in Int /\ u >= 1
  BY Divisions
<1>3. S \in SUBSET Int /\ u \in S /\ \A x \in S : x <= u
  BY <1>1, <1>2, Divisions
<1>4. Max(S) = u
  <2> HIDE DEF S
  <2>1. QED
    BY <1>3, MaxIs
<1>5. Age(a) = [unit |-> u, count |-> (2 * a + u - 1) \div (2 * u)]
  BY <1>4 DEF Age
<1>6. QED
  BY <1>1, <1>5

Size(a) == Age(a).count * Age(a).unit

\* Rounding is off by half a unit at most.
LEMMA Rounded ==
  ASSUME NEW a \in Nat, NEW u \in Nat \ {0}, NEW c, c = (2 * a + u - 1) \div (2 * u)
  PROVE  c \in Nat /\ c * u \in Nat /\ 2 * (c * u) <= 2 * a + u - 1 /\ 2 * a + u - 1 < 2 * (c * u) + 2 * u
<1> DEFINE n == 2 * a + u - 1
           d == 2 * u
<1>1. n \in Nat /\ d \in Nat \ {0}
  OBVIOUS
<1> HIDE DEF n, d
<1>2. c = n \div d
  BY DEF n, d
<1>3. c \in Nat /\ c * d <= n /\ n < (c + 1) * d
  BY <1>1, <1>2, Divided
<1>4. c * d = 2 * (c * u) /\ (c + 1) * d = 2 * (c * u) + 2 * u /\ c * u \in Nat
  BY <1>3 DEF d
<1>5. QED
  BY <1>3, <1>4 DEF n

\* What an age is written as is true to half of its unit.
LEMMA SizeIsTrue ==
  ASSUME NEW a \in Nat
  PROVE  /\ Size(a) \in Nat /\ Age(a).unit \in Nat \ {0} /\ Age(a).count \in Nat
         /\ 2 * Size(a) <= 2 * a + Age(a).unit - 1
         /\ 2 * a + Age(a).unit - 1 < 2 * Size(a) + 2 * Age(a).unit
<1> DEFINE u == Age(a).unit
           c == Age(a).count
<1>1. u \in Nat \ {0} /\ c = (2 * a + u - 1) \div (2 * u)
  <2>1. u \in Division /\ c = (2 * a + u - 1) \div (2 * u)
    BY AgeFacts
  <2> HIDE DEF u, c
  <2>2. QED
    BY <2>1, Divisions
<1>2. Size(a) = c * u
  BY DEF Size
<1> HIDE DEF u, c
<1>3. c \in Nat /\ c * u \in Nat /\ 2 * (c * u) <= 2 * a + u - 1 /\ 2 * a + u - 1 < 2 * (c * u) + 2 * u
  BY <1>1, Rounded
<1>4. Size(a) \in Nat /\ 2 * Size(a) <= 2 * a + u - 1 /\ 2 * a + u - 1 < 2 * Size(a) + 2 * u
  BY <1>2, <1>3
<1>5. QED
  BY <1>1, <1>3, <1>4 DEF u, c

\* An age that reaches its unit is written with one of it at least.
LEMMA SizeReaches ==
  ASSUME NEW b \in Nat, Age(b).unit <= b
  PROVE  Age(b).unit <= Size(b)
<1> DEFINE u == Age(b).unit
           c == Age(b).count
<1>1. /\ Size(b) \in Nat /\ u \in Nat \ {0} /\ c \in Nat /\ Size(b) = c * u
      /\ 2 * b + u - 1 < 2 * Size(b) + 2 * u
  BY SizeIsTrue DEF Size
<1>2. u <= b
  OBVIOUS
<1> HIDE DEF u, c
<1>3. c # 0
  <2> SUFFICES ASSUME c = 0 PROVE FALSE
    OBVIOUS
  <2>1. Size(b) = 0
    BY <1>1
  <2>2. QED
    BY <1>1, <1>2, <2>1
<1>4. 1 * u <= c * u
  BY <1>1, <1>3, Multiples
<1>5. u <= Size(b)
  BY <1>1, <1>4
<1>6. QED
  BY <1>5 DEF u

\* An older review is not written as a younger one.
LEMMA SizeGrows ==
  ASSUME NEW a \in Nat, NEW b \in Nat, a <= b
  PROVE  Size(a) <= Size(b)
<1> DEFINE u == Age(a).unit
           w == Age(b).unit
           c == Age(a).count
           d == Age(b).count
<1>1. /\ Size(a) \in Nat /\ u \in Nat \ {0} /\ c \in Nat /\ Size(a) = c * u
      /\ 2 * Size(a) <= 2 * a + u - 1
  BY SizeIsTrue DEF Size
<1>2. /\ Size(b) \in Nat /\ w \in Nat \ {0} /\ d \in Nat /\ Size(b) = d * w
      /\ 2 * b + w - 1 < 2 * Size(b) + 2 * w
  BY SizeIsTrue DEF Size
<1>3. /\ u \in Division /\ w \in Division
      /\ u = 1 \/ u <= a
      /\ w = 1 \/ w <= b
      /\ \A v \in Division : v <= a => v <= u
      /\ \A v \in Division : v <= b => v <= w
      /\ w <= b => w <= Size(b)
  BY AgeFacts, SizeReaches
<1> HIDE DEF u, w, c, d
<1>4. CASE u = w
  <2>1. CASE c <= d
    BY <1>1, <1>2, <1>4, <2>1, Multiples
  <2>2. CASE c > d
    <3>1. Size(a) >= Size(b) + u
      BY <1>1, <1>2, <1>4, <2>2, Multiples
    <3>2. QED
      BY <1>1, <1>2, <1>4, <3>1
  <2>3. QED
    BY <1>1, <1>2, <2>1, <2>2
<1>5. CASE u # w
  <2>1. u < w /\ w <= b
    BY <1>1, <1>2, <1>3, <1>5, Divisions
  <2>2. PICK v \in Division, k \in Nat \ {0} :
          u < v /\ v <= w /\ k * u <= v /\ 2 * v < 2 * (k * u) + u + 3
    BY <1>3, <2>1, NextDivision
  <2>3. v \in Nat /\ ~(v <= a)
    BY <1>1, <1>3, <2>2, Divisions
  <2>4. c <= k
    <3> SUFFICES ASSUME c > k PROVE FALSE
      BY <1>1
    <3>1. c * u >= k * u + u /\ k * u \in Nat
      BY <1>1, Multiples
    <3>2. 2 * (k * u) + 2 * u <= 2 * a + u - 1
      BY <1>1, <3>1
    <3>3. a <= v - 1
      BY <2>3
    <3>4. QED
      BY <1>1, <2>2, <2>3, <3>1, <3>2, <3>3
  <2>5. Size(a) <= k * u /\ k * u \in Nat
    BY <1>1, <2>4, Multiples
  <2>6. QED
    BY <1>1, <1>2, <1>3, <2>1, <2>2, <2>3, <2>5
<1>6. QED
  BY <1>4, <1>5

\* AgesAreTrue: the ages on the cards are true to half a unit and never fall down
\* the list (ReviewCard.tsx, format.ts), whenever they are read.
THEOREM AgesTrue == Spec => []AgesAreTrue
<1>1. IInv => AgesAreTrue
  <2> SUFFICES ASSUME IInv PROVE AgesAreTrue
    OBVIOUS
  <2> DEFINE age(i) == now - list[i].at
  <2>1. \A i \in DOMAIN list : age(i) \in Nat /\ list[i].at \in Int /\ list[i].id \in Int
    <3> TAKE i \in DOMAIN list
    <3>1. list[i] \in Review /\ list[i].at <= now
      BY DEF IInv, TypeOK, HeldIsSaved, Range
    <3>2. QED
      BY <3>1, Numbers DEF IInv, TypeOK
  <2>2. \A i \in DOMAIN list : Card(list[i]).age = Age(age(i))
    BY DEF Card
  <2>3. ASSUME NEW i \in DOMAIN list
        PROVE  2 * (Card(list[i]).age.count * Card(list[i]).age.unit - (now - list[i].at))
                 \in (-Card(list[i]).age.unit)..Card(list[i]).age.unit
    <3> DEFINE a == age(i)
               s == Size(a)
               u == Age(a).unit
    <3>1. a \in Nat
      BY <2>1
    <3>2. s \in Nat /\ u \in Nat \ {0} /\ 2 * s <= 2 * a + u - 1 /\ 2 * a + u - 1 < 2 * s + 2 * u
      BY <3>1, SizeIsTrue
    <3>3. Card(list[i]).age.count * Card(list[i]).age.unit = s /\ Card(list[i]).age.unit = u
      BY <2>2 DEF Size
    <3>4. now - list[i].at = a
      OBVIOUS
    <3> HIDE DEF a, s, u
    <3>5. 2 * (s - a) \in (-u)..u
      BY <3>1, <3>2
    <3>6. QED
      BY <3>3, <3>4, <3>5
  <2>4. ASSUME NEW i \in DOMAIN list, NEW j \in DOMAIN list, i < j
        PROVE  Card(list[i]).age.count * Card(list[i]).age.unit
                 <= Card(list[j]).age.count * Card(list[j]).age.unit
    <3>1. Newer(list[i], list[j])
      BY <2>4 DEF IInv, TypeOK
    <3>2. age(i) \in Nat /\ age(j) \in Nat /\ age(i) <= age(j)
      BY <2>1, <3>1, Numbers DEF Newer, IInv, TypeOK
    <3>3. Size(age(i)) <= Size(age(j))
      BY <3>2, SizeGrows
    <3>4. QED
      BY <2>2, <3>3 DEF Size
  <2>5. QED
    BY <2>3, <2>4 DEF AgesAreTrue
<1>2. QED
  BY <1>1, Invariance, PTL

-----------------------------------------------------------------------------
(* The bars and the cards *)

\* The pages one after the other are the list (ReviewsPage.tsx:75-81).
THEOREM PagesMakeTheList ==
  ASSUME list \in Seq(Review)
  PROVE  FlattenSeq([p \in 1..TotalPages |-> PageOf(p - 1)]) = list
<1> DEFINE n == TotalPages
           L == Len(list)
           to(i) == IF i * PageSize <= L THEN i * PageSize ELSE L
           seqs == [p \in 1..n |-> PageOf(p - 1)]
           g == [i \in 1..n |-> SubSeq(list, 1, to(i))]
           Step(h, i) == IF i = 1 THEN seqs[i] ELSE h[i - 1] \o seqs[i]
<1>1. /\ PageSize \in Nat \ {0} /\ L \in Nat /\ DOMAIN list = 1..L /\ n \in Nat \ {0}
      /\ list # <<>> => (n - 1) * PageSize < L
      /\ L <= n * PageSize
      /\ list = <<>> => n = 1 /\ L = 0
  BY Numbers, LenProperties, LastPage DEF TotalPages
<1>2. ASSUME NEW i \in 1..n
      PROVE  /\ i * PageSize \in Nat /\ (i - 1) * PageSize \in Nat
             /\ i * PageSize = (i - 1) * PageSize + PageSize
             /\ (i - 1) * PageSize <= L
             /\ list # <<>> => (i - 1) * PageSize < L
  <2> DEFINE s == PageSize
             j == i - 1
  <2>1. j \in Nat /\ i = j + 1 /\ j <= n - 1 /\ n - 1 \in Nat
    BY <1>1
  <2> HIDE DEF n, L, j
  <2>2. j * s \in Nat /\ (j + 1) * s = j * s + s
    BY <1>1, <2>1
  <2>3. j * s <= (n - 1) * s /\ (n - 1) * s \in Nat
    BY <1>1, <2>1, Multiples
  <2>4. list = <<>> => j * s = 0
    BY <1>1, <2>1
  <2>5. QED
    BY <1>1, <2>1, <2>2, <2>3, <2>4 DEF j
<1>3. ASSUME NEW i \in 1..n
      PROVE  /\ seqs[i] = SubSeq(list, (i - 1) * PageSize + 1, to(i))
             /\ to(i) \in Int /\ (i - 1) * PageSize <= to(i) /\ to(i) <= L
  <2> DEFINE from == (i - 1) * PageSize
  <2>1. (i - 1 + 1) * PageSize = i * PageSize
    BY <1>1
  <2>2. to(i) = Min({i * PageSize, L})
    BY <1>1, <1>2, MinOfTwo
  <2>3. PageOf(i - 1) = SubSeq(list, from + 1, to(i))
    BY <2>1, <2>2 DEF PageOf
  <2>4. from \in Nat /\ from <= L /\ i * PageSize = from + PageSize
    BY <1>2
  <2> HIDE DEF from
  <2>5. to(i) \in Int /\ from <= to(i) /\ to(i) <= L
    BY <1>1, <2>4
  <2>6. QED
    BY <2>3, <2>5 DEF from
<1>4. ASSUME NEW i \in 1..n
      PROVE  g[i] = Step(g, i)
  <2>1. CASE i = 1
    <3>1. (i - 1) * PageSize + 1 = 1
      BY <1>1, <2>1
    <3>2. QED
      BY <1>3, <2>1, <3>1
  <2>2. CASE i # 1
    <3> DEFINE k == (i - 1) * PageSize
    <3>1. i - 1 \in 1..n /\ list # <<>>
      BY <1>1, <2>2
    <3>2. to(i - 1) = k /\ k \in Nat /\ k < L
      BY <1>1, <1>2, <3>1
    <3>3. seqs[i] = SubSeq(list, k + 1, to(i)) /\ to(i) \in Int /\ k <= to(i) /\ to(i) <= L
      BY <1>3
    <3>4. g[i - 1] = SubSeq(list, 1, k) /\ g[i] = SubSeq(list, 1, to(i))
      BY <3>1, <3>2
    <3> HIDE DEF k, g, seqs, to, L
    <3>5. 1 \in 1..L + 1 /\ k \in 1 - 1..L /\ to(i) \in k..L
      BY <1>1, <3>2, <3>3
    <3>6. SubSeq(list, 1, k) \o SubSeq(list, k + 1, to(i)) = SubSeq(list, 1, to(i))
      BY <3>5, ConcatAdjacentSubSeq DEF L
    <3>7. QED
      BY <2>2, <3>3, <3>4, <3>6
  <2>3. QED
    BY <2>1, <2>2
<1>5. g[n] = list
  <2>1. to(n) = L
    <3> DEFINE m == n * PageSize
    <3>1. m \in Nat /\ L <= m /\ L \in Nat
      BY <1>1, LastPage
    <3> HIDE DEF m, L
    <3>2. (IF m <= L THEN m ELSE L) = L
      BY <3>1
    <3>3. QED
      BY <3>2 DEF m
  <2>2. SubSeq(list, 1, L) = list
    BY SubSeqFull
  <2>3. n \in 1..n /\ g[n] = SubSeq(list, 1, to(n))
    BY <1>1
  <2> HIDE DEF to, g, L
  <2>4. QED
    BY <2>1, <2>2, <2>3
<1>6. seqs \in Seq(Seq(Review)) /\ Len(seqs) = n
  <2>1. \A i \in 1..n : PageOf(i - 1) \in Seq(Review)
    <3> TAKE i \in 1..n
    <3> DEFINE m == (i - 1) * PageSize + 1
               e == to(i)
    <3>1. PageOf(i - 1) = SubSeq(list, m, e) /\ e \in Int /\ e <= L
      BY <1>3
    <3>2. m \in Nat /\ m >= 1
      BY <1>2
    <3> HIDE DEF m, e
    <3>3. \A j \in m..e : list[j] \in Review
      <4>1. \A j \in m..e : j \in 1..L
        BY <1>1, <3>1, <3>2
      <4>2. QED
        BY <4>1, ElementOfSeq
    <3>4. m \in Int
      BY <3>2
    <3>5. SubSeq(list, m, e) \in Seq(Review)
      BY <3>1, <3>3, <3>4, SubSeqProperties, Zenon
    <3>6. QED
      BY <3>1, <3>5
  <2> HIDE DEF n
  <2>2. seqs \in Seq(Seq(Review))
    BY <1>1, <2>1, IsASeq
  <2>3. QED
    BY <1>1, <2>2, LenProperties
<1> DEFINE Flat(h) == h = [i \in 1..Len(seqs) |-> Step(h, i)]
<1>7. Flat(g)
  <2>1. g = [i \in 1..n |-> g[i]]
    OBVIOUS
  <2> HIDE DEF g, seqs
  <2>2. g = [i \in 1..n |-> Step(g, i)]
    BY <1>4, <2>1
  <2>3. QED
    BY <1>6, <2>2
<1> DEFINE flatten == CHOOSE h : Flat(h)
<1>8. Flat(flatten)
  BY <1>7
<1>9. \A i \in 1..n : flatten[i] = Step(flatten, i)
  <2> HIDE DEF flatten, Step
  <2>1. QED
    BY <1>6, <1>8
<1>10. flatten[n] = list
  <2> DEFINE M == {i \in Nat : i + 1 \in 1..n => flatten[i + 1] = g[i + 1]}
  <2> HIDE DEF flatten, g, seqs, Flat
  <2>1. 0 \in M
    <3>1. 1 \in 1..n
      BY <1>1
    <3>2. flatten[1] = g[1]
      BY <1>4, <1>9, <3>1
    <3>3. QED
      BY <3>2
  <2>2. ASSUME NEW i \in Nat, i \in M
        PROVE  i + 1 \in M
    <3> SUFFICES ASSUME i + 2 \in 1..n PROVE flatten[i + 2] = g[i + 2]
      OBVIOUS
    <3>1. i + 1 \in 1..n /\ i + 2 # 1 /\ i + 2 - 1 = i + 1
      BY <1>1
    <3>2. flatten[i + 1] = g[i + 1]
      BY <2>2, <3>1
    <3> DEFINE j == i + 2
    <3>3. j \in 1..n /\ j # 1 /\ j - 1 = i + 1
      BY <3>1
    <3> HIDE DEF j
    <3>4. flatten[j] = flatten[j - 1] \o seqs[j] /\ g[j] = g[j - 1] \o seqs[j]
      BY <1>4, <1>9, <3>3
    <3>5. flatten[j] = g[j]
      BY <3>2, <3>3, <3>4
    <3>6. QED
      BY <3>5 DEF j
  <2> HIDE DEF M
  <2>3. Nat \subseteq M
    BY <2>1, <2>2, Counting
  <2>4. n - 1 \in M /\ n - 1 + 1 = n /\ n \in 1..n
    BY <1>1, <2>3
  <2>5. QED
    BY <1>5, <2>4 DEF M
<1>11. FlattenSeq(seqs) = flatten[Len(seqs)]
  <2> HIDE DEF seqs
  <2>1. Len(seqs) # 0
    BY <1>1, <1>6
  <2>2. QED
    BY <2>1, Zenon DEF FlattenSeq
<1>12. QED
  BY <1>6, <1>10, <1>11

\* The widest bar is the full one, and the widths are in the order of the counts.
LEMMA BarFacts ==
  ASSUME NEW c, DOMAIN c = Star, \A n \in Star : c[n] \in Nat,
         NEW max, max = Max({1} \cup Range(c))
  PROVE  /\ \A m, n \in Star : c[m] <= c[n] => (100 * c[m]) \div max <= (100 * c[n]) \div max
         /\ (\E n \in Star : c[n] # 0) => \E n \in Star : (100 * c[n]) \div max = 100
<1> DEFINE S == {1} \cup Range(c)
<1>1. S \in SUBSET Int /\ 1 \in S /\ \A x \in S : x = 1 \/ \E n \in Star : x = c[n]
  BY DEF Range
<1>2. \A n \in Star : c[n] \in S
  BY DEF Range
<1>3. \E m \in S : \A x \in S : x <= m
  <2>1. \A n \in Star : n \in {1, 2, 3, 4, 5}
    BY DEF Star
  <2>2. 1 \in Star /\ 2 \in Star /\ 3 \in Star /\ 4 \in Star /\ 5 \in Star
    BY DEF Star
  <2>3. c[1] \in Nat /\ c[2] \in Nat /\ c[3] \in Nat /\ c[4] \in Nat /\ c[5] \in Nat
    BY <2>2
  <2>4. \A x \in S : x = 1 \/ x = c[1] \/ x = c[2] \/ x = c[3] \/ x = c[4] \/ x = c[5]
    BY <1>1, <2>1
  <2>5. c[1] \in S /\ c[2] \in S /\ c[3] \in S /\ c[4] \in S /\ c[5] \in S
    BY <1>2, <2>2
  <2> HIDE DEF S
  <2> DEFINE Top(m) == 1 <= m /\ c[1] <= m /\ c[2] <= m /\ c[3] <= m /\ c[4] <= m /\ c[5] <= m
  <2>6. Top(1) \/ Top(c[1]) \/ Top(c[2]) \/ Top(c[3]) \/ Top(c[4]) \/ Top(c[5])
    BY <2>3
  <2>7. \E m \in S : Top(m)
    BY <1>1, <2>5, <2>6
  <2>8. \A m : Top(m) => \A x \in S : x <= m
    BY <2>4
  <2>9. QED
    BY <2>7, <2>8
<1>4. PICK top \in S : \A x \in S : x <= top
  BY <1>3
<1>5. max = top
  <2> HIDE DEF S
  <2>1. Max(S) = top
    BY <1>1, <1>4, MaxIs
  <2>2. QED
    BY <2>1 DEF S
<1>6. /\ max \in Nat \ {0}
      /\ \A n \in Star : c[n] <= max
      /\ max = 1 \/ \E n \in Star : max = c[n]
  <2>1. max \in Int /\ 1 <= max
    BY <1>1, <1>4, <1>5
  <2>2. max \in Nat \ {0}
    BY <2>1
  <2>3. \A n \in Star : c[n] <= max
    BY <1>2, <1>4, <1>5
  <2>4. max = 1 \/ \E n \in Star : max = c[n]
    BY <1>1, <1>5
  <2>5. QED
    BY <2>2, <2>3, <2>4
<1> HIDE DEF S
<1>7. ASSUME NEW m \in Star, NEW n \in Star, c[m] <= c[n]
      PROVE  (100 * c[m]) \div max <= (100 * c[n]) \div max
  <2> DEFINE a == 100 * c[m]
             b == 100 * c[n]
             q == a \div max
             r == b \div max
  <2>1. a \in Nat /\ b \in Nat /\ a <= b
    BY <1>7
  <2> HIDE DEF a, b
  <2>2. /\ q \in Nat /\ q * max <= a
        /\ r \in Nat /\ b < (r + 1) * max
    BY <1>6, <2>1, Divided
  <2> HIDE DEF q, r
  <2>3. CASE q > r
    <3>1. q * max >= r * max + max /\ q * max \in Nat /\ r * max \in Nat
      BY <1>6, <2>2, <2>3, Multiples
    <3>2. (r + 1) * max = r * max + max
      BY <1>6, <2>2
    <3>3. QED
      BY <1>6, <2>1, <2>2, <3>1, <3>2
  <2>4. CASE q <= r
    BY <2>4 DEF q, r, a, b
  <2>5. QED
    BY <2>2, <2>3, <2>4
<1>8. ASSUME NEW n \in Star, c[n] # 0
      PROVE  \E m \in Star : (100 * c[m]) \div max = 100
  <2>1. PICK m \in Star : c[m] = max
    <3>1. c[n] \in Nat /\ c[n] >= 1 /\ c[n] <= max
      BY <1>6, <1>8
    <3>2. CASE max = 1
      <4>1. c[n] = max
        BY <3>1, <3>2
      <4>2. QED
        BY <4>1
    <3>3. QED
      BY <1>6, <3>2
  <2> DEFINE q == (100 * max) \div max
  <2>2. q \in Nat /\ q * max <= 100 * max /\ 100 * max < (q + 1) * max
    <3> DEFINE a == 100 * max
    <3>1. a \in Nat
      BY <1>6
    <3> HIDE DEF a
    <3>2. a \div max \in Nat /\ (a \div max) * max <= a /\ a < (a \div max + 1) * max
      BY <1>6, <3>1, Divided
    <3>3. QED
      BY <3>2 DEF a
  <2> HIDE DEF q
  <2>3. ~(q > 100)
    <3>1. ASSUME q > 100 PROVE FALSE
      <4>1. q * max >= 100 * max + max /\ q * max \in Nat /\ 100 * max \in Nat
        BY <1>6, <2>2, <3>1, Multiples
      <4>2. QED
        BY <1>6, <2>2, <4>1
    <3>2. QED
      BY <3>1
  <2>4. ~(q < 100)
    <3>1. ASSUME q < 100 PROVE FALSE
      <4>1. q + 1 \in Nat /\ q + 1 <= 100
        BY <2>2, <3>1
      <4>2. (q + 1) * max <= 100 * max /\ (q + 1) * max \in Nat /\ 100 * max \in Nat
        BY <1>6, <4>1, Multiples
      <4>3. QED
        BY <2>2, <4>2
    <3>2. QED
      BY <3>1
  <2>5. q = 100
    BY <2>2, <2>3, <2>4
  <2>6. QED
    BY <2>1, <2>5 DEF q
<1>9. QED
  BY <1>7, <1>8

\* A card has as many filled stars as its review's score.
LEMMA StarsAreTheScore ==
  ASSUME NEW r \in Review, NEW n \in Star
  PROVE  FilledStars(r) = 1..n <=> ScoreOf[r.id] = n
<1>1. ScoreOf[r.id] \in Star
  BY Numbers, ReadingAssumption DEF Review
<1> DEFINE s == ScoreOf[r.id]
<1>2. s \in Int /\ s >= 1 /\ s <= 5 /\ n \in Int /\ n >= 1 /\ n <= 5
  BY <1>1 DEF Star
<1>3. FilledStars(r) = {m \in Star : m <= s}
  BY DEF FilledStars
<1> HIDE DEF s
<1>4. \A m : m \in {k \in Star : k <= s} <=> m \in 1..s
  BY <1>2 DEF Star
<1>5. {k \in Star : k <= s} = 1..s
  BY <1>4
<1>6. 1..s = 1..n <=> s = n
  <2>1. ASSUME 1..s = 1..n PROVE s = n
    <3>1. s \in 1..s /\ n \in 1..n
      BY <1>2
    <3>2. s \in 1..n /\ n \in 1..s
      BY <2>1, <3>1
    <3>3. QED
      BY <1>2, <3>2
  <2>2. QED
    BY <2>1
<1>7. QED
  BY <1>3, <1>5, <1>6 DEF s

\* BarsCountCards: "the stats always match what's on screen" (README.md:45), of
\* any number of reviews, on pages of any size.
THEOREM BarsCount == Spec => []BarsCountCards
<1>1. IInv => BarsCountCards
  <2> SUFFICES ASSUME IInv, list = Answer(hours)
               PROVE  BarsCountCards
    BY DEF BarsCountCards
  <2> DEFINE rs == SetToSeq(saved)
             d == WindowOf(hours) * Hour
             s == Summary(rs, d, now)
             c == s.countByStar
             read == FlattenSeq([p \in 1..TotalPages |-> PageOf(p - 1)])
             cards == [i \in DOMAIN read |-> Card(read[i])]
             count(n) == Cardinality({i \in DOMAIN cards : cards[i].stars = 1..n})
             max == Max({1} \cup Range(c))
             width(n) == (100 * c[n]) \div max
             updated == IF s.total > 0 THEN {Age(now - s.lastUpdated)} ELSE {}
  <2>1. /\ list \in Seq(Review) /\ DOMAIN list = 1..Len(list) /\ Len(list) \in Nat
        /\ \A i \in DOMAIN list : list[i] \in Review
        /\ now \in Int /\ d \in Int
    BY Numbers, LenProperties, ElementOfSeq DEF IInv, TypeOK
  <2>2. rs \in Seq(Review) /\ Range(rs) = saved /\ Reviews(rs)
    BY SavedFacts DEF IInv, TypeOK, SavedOnce
  <2>3. list = RecentReviews(rs, d, now)
    BY DEF Answer
  <2>4. /\ \A i \in DOMAIN rs : rs[i] \in Review
        /\ \A i \in DOMAIN rs : ScoreOf[rs[i].id] \in Star
        /\ \A i \in DOMAIN rs : rs[i].at >= -1
    <3>1. \A i \in DOMAIN rs : rs[i] \in Review
      BY <2>2, LenProperties, ElementOfSeq
    <3>2. \A r \in Review : ScoreOf[r.id] \in Star /\ r.at >= -1
      <4>1. \A r \in Review : r.id \in Id /\ r.at \in Nat
        BY ReadingAssumption DEF Review
      <4>2. QED
        BY <4>1, Numbers
    <3> HIDE DEF rs
    <3>3. QED
      BY <3>1, <3>2
  <2> HIDE DEF rs, d
  <2>5. /\ s.total = Len(list)
        /\ DOMAIN c = Star
        /\ \A n \in Star : c[n] = StarsIn(list, n) /\ StarsIn(list, n) \in Nat
        /\ s.total = StarsIn(list, 1) + StarsIn(list, 2) + StarsIn(list, 3) + StarsIn(list, 4) + StarsIn(list, 5)
        /\ list # <<>> => s.lastUpdated = list[1].at
    BY <2>1, <2>2, <2>3, <2>4, SummaryIsOfTheList
  <2>6. read = list
    BY <2>1, PagesMakeTheList
  <2>7. cards = [i \in 1..Len(list) |-> Card(list[i])]
    BY <2>1, <2>6
  <2> HIDE DEF read, s
  <2>8. Len(cards) = Len(list) /\ DOMAIN cards = 1..Len(list)
    BY <2>1, <2>7
  <2>9. ASSUME NEW n \in Star
        PROVE  count(n) = c[n]
    <3>1. \A i \in 1..Len(list) : cards[i].stars = FilledStars(list[i])
      BY <2>7 DEF Card
    <3>2. ASSUME NEW i \in 1..Len(list)
          PROVE  cards[i].stars = 1..n <=> ScoreOf[list[i].id] = n
      <4>1. list[i] \in Review
        BY <2>1
      <4>2. FilledStars(list[i]) = 1..n <=> ScoreOf[list[i].id] = n
        BY <4>1, StarsAreTheScore
      <4> HIDE DEF cards
      <4>3. QED
        BY <3>1, <4>2
    <3> HIDE DEF cards
    <3>3. {i \in DOMAIN cards : cards[i].stars = 1..n} = {i \in DOMAIN list : ScoreOf[list[i].id] = n}
      BY <2>1, <2>8, <3>2
    <3>4. QED
      BY <2>5, <3>3 DEF StarsIn
  <2>10. /\ \A m, n \in Star : c[m] <= c[n] => width(m) <= width(n)
         /\ (\E n \in Star : c[n] # 0) => \E n \in Star : width(n) = 100
    <3>1. \A n \in Star : c[n] \in Nat
      BY <2>5
    <3> HIDE DEF c
    <3>2. QED
      BY <2>5, <3>1, BarFacts
  <2>11. ASSUME cards # <<>>
         PROVE  \E n \in Star : c[n] # 0
    <3>1. list # <<>>
      BY <2>1, <2>7, <2>11
    <3>2. Len(list) # 0
      BY <2>1, <3>1
    <3>3. 1 \in Star /\ 2 \in Star /\ 3 \in Star /\ 4 \in Star /\ 5 \in Star
      BY DEF Star
    <3> SUFFICES ASSUME \A n \in Star : c[n] = 0 PROVE FALSE
      OBVIOUS
    <3>4. /\ StarsIn(list, 1) = 0 /\ StarsIn(list, 2) = 0 /\ StarsIn(list, 3) = 0
          /\ StarsIn(list, 4) = 0 /\ StarsIn(list, 5) = 0
      BY <2>5, <3>3
    <3>5. QED
      BY <2>5, <3>2, <3>4
  <2>12. updated = {cards[i].age : i \in DOMAIN cards \cap {1}}
    <3>1. CASE list = <<>>
      <4>1. Len(list) = 0
        BY <3>1
      <4> HIDE DEF cards
      <4>2. s.total = 0 /\ DOMAIN cards = {}
        <5>1. 1..0 = {}
          OBVIOUS
        <5>2. s.total = 0
          BY <2>5, <4>1
        <5>3. DOMAIN cards = 1..0
          BY <2>8, <4>1
        <5>4. QED
          BY <5>1, <5>2, <5>3
      <4>3. QED
        BY <4>2
    <3>2. CASE list # <<>>
      <4>1. 1 \in 1..Len(list) /\ s.total > 0
        BY <2>1, <2>5, <3>2
      <4>2. cards[1].age = Age(now - list[1].at)
        BY <2>7, <4>1 DEF Card
      <4>3. updated = {Age(now - list[1].at)}
        BY <2>5, <3>2, <4>1
      <4>4. DOMAIN cards \cap {1} = {1}
        BY <2>8, <4>1
      <4> HIDE DEF cards, updated
      <4>5. QED
        BY <4>2, <4>3, <4>4
    <3>3. QED
      BY <3>1, <3>2
  <2>13. SummaryBar(s) = [total |-> s.total,
                          bar |-> [n \in Star |-> [count |-> c[n], width |-> width(n)]],
                          updated |-> updated]
    BY Zenon DEF SummaryBar
  <2> DEFINE bar == SummaryBar(s).bar
  <2>14. /\ SummaryBar(s).total = Len(cards) /\ SummaryBar(s).updated = updated
         /\ \A n \in Star : bar[n].count = c[n] /\ bar[n].width = width(n)
    <3> DEFINE bars == [n \in Star |-> [count |-> c[n], width |-> width(n)]]
    <3>1. \A n \in Star : bars[n].count = c[n] /\ bars[n].width = width(n)
      OBVIOUS
    <3> HIDE DEF c, width, updated, cards, bars
    <3>2. /\ SummaryBar(s).total = s.total /\ SummaryBar(s).updated = updated
          /\ SummaryBar(s).bar = bars
      BY <2>13 DEF bars
    <3>3. QED
      BY <2>5, <2>8, <3>1, <3>2
  <2>15. /\ SummaryBar(s).total = Len(cards)
         /\ \A n \in Star : bar[n].count = count(n)
         /\ \A m, n \in Star : count(m) <= count(n) => bar[m].width <= bar[n].width
         /\ cards # <<>> => \E n \in Star : bar[n].width = 100
         /\ SummaryBar(s).updated = {cards[i].age : i \in DOMAIN cards \cap {1}}
    <3> HIDE DEF c, width, updated, cards, count, bar
    <3>1. \A n \in Star : bar[n].count = count(n)
      BY <2>9, <2>14
    <3>2. \A m, n \in Star : count(m) <= count(n) => bar[m].width <= bar[n].width
      BY <2>9, <2>10, <2>14
    <3>3. cards # <<>> => \E n \in Star : bar[n].width = 100
      BY <2>10, <2>11, <2>14
    <3>4. QED
      BY <2>12, <2>14, <3>1, <3>2, <3>3
  <2>16. QED
    BY <2>15, Zenon DEF BarsCountCards, rs, d, s, read
<1>2. QED
  BY <1>1, Invariance, PTL
================================================================================
