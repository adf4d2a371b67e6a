-------------------------------- MODULE Window --------------------------------
(***************************************************************************)
(* What a request reads of an app's stored reviews: the window of its      *)
(* hours parameter (handler.go), the list and the summary (service.go).    *)
(*                                                                         *)
(* Times and durations are in the unit of the user.  A review is its id    *)
(* and the time of its submission; its score is a constant of the id, a    *)
(* number that is no star where an entry of the feed has none that can be  *)
(* read.  A list of stored reviews is a sequence in the order in which     *)
(* they were saved; what a request keeps of it is a set of its places.     *)
(***************************************************************************)
EXTENDS Integers, SequencesExt

CONSTANTS
  DefaultWindow,   \* the window of a request without a usable hours parameter
  MaxWindow,       \* maxWindowHours
  MaxDuration,     \* the hours a time.Duration can hold before it wraps around
  ScoreOf,         \* id -> its rating
  NoHours          \* a parameter that is absent or no int

ASSUME WindowAssumption ==
  /\ {DefaultWindow, MaxWindow, MaxDuration} \subseteq Nat \ {0}
  /\ MaxWindow <= MaxDuration
ASSUME NoHoursAssumption == NoHours \notin Int

Star == 1..5

\* time.Duration(n) * time.Hour, a signed integer of fixed width.
Hours(n) ==
  LET period == 2 * MaxDuration + 1
  IN  ((n + MaxDuration) % period) - MaxDuration

\* Mutant: the parameter is not clamped.
WindowUnclamped(q) ==
  IF q = NoHours THEN DefaultWindow
  ELSE IF q <= 0 THEN DefaultWindow ELSE Hours(q)

\* The window of a request.
WindowOf(q) ==
  IF q = NoHours THEN DefaultWindow
  ELSE IF q <= 0 THEN DefaultWindow
  ELSE Hours(IF q > MaxWindow THEN MaxWindow ELSE q)

\* Mutant: a review dated in the future counts as recent.
WithinFuture(r, d, t) == t - r.at <= d

\* The review was submitted within the last d, at time t.
WithinLast(r, d, t) ==
  LET age == t - r.at
  IN  age >= 0 /\ age <= d

\* The places of the reviews that within keeps.
Within(rs, d, t) == {i \in DOMAIN rs : WithinLast(rs[i], d, t)}

\* The order of the list: newest first, and by id among equals.
Newer(r, s) == r.at > s.at \/ (r.at = s.at /\ r.id > s.id)

\* Mutant: the list is in the order of the store.
StoredBefore(rs, i, j) == i < j

\* What is at place i comes before what is at place j.
Before(rs, i, j) == Newer(rs[i], rs[j]) \/ (rs[i] = rs[j] /\ i < j)

Rank(rs, I, i) == Cardinality({j \in I : Before(rs, j, i)})

\* sort.Slice: what is at the places I, each where its rank among them puts it.
Sorted(rs, I) ==
  [k \in 1..Cardinality(I) |-> rs[CHOOSE i \in I : Rank(rs, I, i) = k - 1]]

\* Service.GetRecentReviews
RecentReviews(rs, d, t) == Sorted(rs, Within(rs, d, t))

\* Mutant: every stored review is counted.
CountAll(rs, d, t) == DOMAIN rs

\* The places of the reviews a summary counts.
Counted(rs, d, t) == Within(rs, d, t)

\* Service.GetSummary: the average is sum divided by total, of a summary that
\* has reviews; lastUpdated starts at the zero time, before every review.
Summary(rs, d, t) ==
  LET recent == Counted(rs, d, t)
  IN  [total |-> Cardinality(recent),
       countByStar |-> [s \in Star |->
                          Cardinality({i \in recent : ScoreOf[rs[i].id] = s})],
       sum |-> SumFunction([i \in recent |-> ScoreOf[rs[i].id]]),
       lastUpdated |-> Max({-1} \cup {rs[i].at : i \in recent})]
===============================================================================
