------------------------------ MODULE ReviewList -------------------------------
(***************************************************************************)
(* What a reader sees of the list and of the summary: the display-only     *)
(* pagination of web/src/pages/ReviewsPage.tsx with Pagination.tsx, the    *)
(* ages on the cards (ReviewCard.tsx, lib/format.ts), their stars, and the *)
(* bars of SummaryBar.tsx.                                                 *)
(*                                                                         *)
(* The list changes under the reader: a silent refresh brings reviews that *)
(* were stored meanwhile, in the middle too, and drops those that have     *)
(* left the window.  A load reads and arrives in one step (ReviewsView has *)
(* its steps), of one app.  Times are seconds, on one clock; what is       *)
(* written around a number is left out.                                    *)
(***************************************************************************)
EXTENDS Window

CONSTANTS
  Id,        \* the ids of reviews
  Instant,   \* bound: the times at which something happens
  Submitted, \* bound: the times at which reviews are submitted
  Choice,    \* WINDOWS: the hours that the WindowSelector offers
  PageSize   \* PAGE_SIZE

ASSUME ReadingAssumption ==
  /\ Id \subseteq Int /\ ScoreOf \in [Id -> Star]
  /\ Submitted \subseteq Instant /\ Instant \subseteq Nat /\ Choice \subseteq 1..MaxWindow
  /\ PageSize \in Nat \ {0}

VARIABLES
  now,      \* the clock
  saved,    \* the reviews that the server has
  hours,    \* the chosen window
  list,     \* the reviews that the hook holds, newest first
  loading,  \* the initial load of the window is under way
  page,     \* the page's number, from 0: it may be past the end of the list
  met       \* ghost: what the reader was shown of the window, or came since

vars == <<now, saved, hours, list, loading, page, met>>

Review == [id : Id, at : Submitted]
Hour == 3600

-----------------------------------------------------------------------------
(* Pagination *)

TotalPages ==
  IF list = <<>> THEN 1 ELSE (Len(list) + PageSize - 1) \div PageSize

\* The page that is shown: a refresh that shrinks the list lands on the last one.
CurrentPage == Min({page, TotalPages - 1})

\* Mutant: the slice takes its end for included.
PageOfInclusive(p) ==
  SubSeq(list, p * PageSize + 1, Min({(p + 1) * PageSize + 1, Len(list)}))

\* The reviews on page p.
PageOf(p) ==
  SubSeq(list, p * PageSize + 1, Min({(p + 1) * PageSize, Len(list)}))

VisibleReviews == PageOf(CurrentPage)

\* The body of the page is the list.
Reading == ~loading /\ list # <<>>

\* What is visible after the step, and what the step brings, has been met.
Meet(before, brought) ==
  met' = before \cup brought \cup (IF Reading' THEN Range(VisibleReviews)' ELSE {})

-----------------------------------------------------------------------------

Init ==
  /\ now \in Instant /\ hours \in Choice
  /\ saved = {} /\ list = <<>> /\ loading = TRUE /\ page = 0 /\ met = {}

Tick(t) ==
  /\ t > now
  /\ now' = t
  /\ UNCHANGED <<saved, hours, list, loading, page, met>>

\* A poll stores a review, which may have been submitted long before, or be dated
\* ahead of the clock.
Store(i, t) ==
  /\ i \notin {r.id : r \in saved}
  /\ saved' = saved \cup {[id |-> i, at |-> t]}
  /\ UNCHANGED <<now, hours, list, loading, page, met>>

\* What the server answers.
Answer(q) == RecentReviews(SetToSeq(saved), WindowOf(q) * Hour, now)

\* The interval of the hook fires, and its load succeeds.
Refresh ==
  /\ list' = Answer(hours)
  /\ UNCHANGED <<now, saved, hours, loading, page>>
  /\ Meet(met, Range(list') \ Range(list))

\* The initial load of the window succeeds.
Load ==
  /\ loading /\ loading' = FALSE
  /\ list' = Answer(hours)
  /\ UNCHANGED <<now, saved, hours, page>>
  /\ Meet(met, {})

\* It fails: the list that is held is shown again.
LoadFails ==
  /\ loading /\ loading' = FALSE
  /\ UNCHANGED <<now, saved, hours, list, page>>
  /\ Meet(met, {})

\* Mutant: the page's number is kept.
ChooseOnly(h) ==
  /\ h # hours
  /\ hours' = h /\ loading' = TRUE
  /\ met' = {}
  /\ UNCHANGED <<now, saved, list, page>>

\* The reader chooses another window: the page's number is reset while it renders.
Choose(h) ==
  /\ h # hours
  /\ hours' = h /\ loading' = TRUE /\ page' = 0
  /\ met' = {}
  /\ UNCHANGED <<now, saved, list>>

\* "Prev" and "Next" beside the number of the page, where there are several.
Turn(p) ==
  /\ Reading /\ TotalPages > 1
  /\ p \in 0..(TotalPages - 1)
  /\ page' = p
  /\ UNCHANGED <<now, saved, hours, list, loading>>
  /\ Meet(met, {})

Next ==
  \/ \E t \in Instant : Tick(t)
  \/ \E i \in Id, t \in Submitted : Store(i, t)
  \/ Refresh \/ Load \/ LoadFails
  \/ \E h \in Choice : Choose(h)
  \/ Turn(CurrentPage - 1) \/ Turn(CurrentPage + 1)

Spec == Init /\ [][Next]_vars

-----------------------------------------------------------------------------
(* Cards and bars *)

\* DIVISIONS: the seconds of a second, minute, hour, day, week, month and year;
\* the last two are rounded.
Division == {1, 60, 3600, 86400, 604800, 2628001, 31536014}

\* Mutant: the age is cut off and not rounded.
AgeCutOff(age) ==
  LET unit == Max({1} \cup {u \in Division : u <= age})
  IN  [unit |-> unit, count |-> age \div unit]

\* formatRelative of a time that was age seconds ago: Math.round rounds the
\* negative difference, and so half a unit down.
Age(age) ==
  LET unit == Max({1} \cup {u \in Division : u <= age})
  IN  [unit |-> unit, count |-> (2 * age + unit - 1) \div (2 * unit)]

\* The filled stars of a card.
FilledStars(r) == {n \in Star : n <= ScoreOf[r.id]}

Card(r) == [age |-> Age(now - r.at), stars |-> FilledStars(r)]

\* The number beside the bar of each star and the bar's percentage, the total, and
\* the age of the newest review, where there is one.
SummaryBar(summary) ==
  LET max == Max({1} \cup Range(summary.countByStar))
  IN  [total |-> summary.total,
       bar |-> [n \in Star |-> [count |-> summary.countByStar[n],
                                width |-> (100 * summary.countByStar[n]) \div max]],
       updated |-> IF summary.total > 0 THEN {Age(now - summary.lastUpdated)} ELSE {}]

-----------------------------------------------------------------------------
(* Properties *)

\* The types of the variables; no review is twice in the list, which is newest
\* first.
TypeOK ==
  /\ now \in Instant /\ saved \subseteq Review /\ hours \in Choice
  /\ list \in Seq(Review) /\ loading \in BOOLEAN
  /\ page \in Nat /\ met \subseteq Review
  /\ \A i, j \in DOMAIN list : i < j => Newer(list[i], list[j])

\* Turning the pages one by one skips nothing: a review on a page before the one
\* that is shown was visible under the chosen window, or came in by a refresh
\* since it was chosen.  It takes the reset of the page's number to its first
\* (ReviewsPage.tsx:66-73), and that neither the clamp nor a refresh that adds or
\* drops reviews moves the reader ahead.
ReadingSkipsNothing ==
  Reading => \A i \in 1..(CurrentPage * PageSize) : list[i] \in met

\* The ages on the cards are true to half a unit and never fall down the list,
\* which the page calls "newest first" (ReviewsPage.tsx:128), also of a list that
\* has not been refreshed for long.
AgesAreTrue ==
  LET shown(i) == Card(list[i]).age
      size(i) == shown(i).count * shown(i).unit
      off(i) == size(i) - (now - list[i].at)
  IN  /\ \A i \in DOMAIN list : 2 * off(i) \in (-shown(i).unit)..shown(i).unit
      /\ \A i, j \in DOMAIN list : i < j => size(i) <= size(j)

\* "the stats always match what's on screen" (README.md:45): where the list is
\* what the server would answer, a reader who turns all its pages counts as many
\* cards with each number of filled stars as the summary says, the bars are in
\* proportion to them, and it was "updated" when the first card says.
BarsCountCards ==
  LET summary == SummaryBar(Summary(SetToSeq(saved), WindowOf(hours) * Hour, now))
      bar == summary.bar
      read == FlattenSeq([p \in 1..TotalPages |-> PageOf(p - 1)])
      cards == [i \in DOMAIN read |-> Card(read[i])]
      count(n) == Cardinality({i \in DOMAIN cards : cards[i].stars = 1..n})
  IN  list = Answer(hours) =>
        /\ summary.total = Len(cards)
        /\ \A n \in Star : bar[n].count = count(n)
        /\ \A m, n \in Star : count(m) <= count(n) => bar[m].width <= bar[n].width
        /\ cards # <<>> => \E n \in Star : bar[n].width = 100
        /\ summary.updated = {cards[i].age : i \in DOMAIN cards \cap {1}}
================================================================================
