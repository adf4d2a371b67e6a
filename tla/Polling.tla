------------------------------- MODULE Polling --------------------------------
(***************************************************************************)
(* The polls of one app: Fetch (internal/appstore/rss_fetcher.go) pages    *)
(* through a feed that changes meanwhile, PollApp (service.go) saves what  *)
(* it returns, and requests read what is stored.                           *)
(*                                                                         *)
(* The feed is sorted newest first.  A page is cut out of it when it is    *)
(* requested, so a review that appears, goes, or is edited between two     *)
(* requests shifts the others over the border of a page.  A review may     *)
(* appear late (with a time in the past) and be dated ahead of the clock.  *)
(* Save is one step here (FileStore has its steps), and so is a read.      *)
(***************************************************************************)
EXTENDS Window

CONSTANTS
  Id,          \* the ids of reviews
  PageSize,    \* the reviews on a page of the feed
  MaxPages,    \* maxPages
  PollWindow,  \* RSSFetcher.window: how far back a poll goes
  Query,       \* the hours parameters of requests
  MaxTime,     \* bound: the clock stops there
  MaxChanges   \* bound: how often the feed changes

ASSUME PagingAssumption == {PageSize, MaxPages, PollWindow} \subseteq Nat \ {0}
ASSUME IdAssumption == Id \subseteq Int
ASSUME ScoreAssumption == ScoreOf \in [Id -> Int]
ASSUME QueryAssumption == Query \subseteq Int \cup {NoHours}
ASSUME BoundAssumption == {MaxTime, MaxChanges} \subseteq Nat

VARIABLES
  now,      \* the clock
  feed,     \* the feed, newest first
  changes,  \* how often it has changed
  phase,    \* "idle", "fetch" or "save": where the poll is
  page,     \* the page Fetch asks for next
  cutoff,   \* the cutoff Fetch computed when it started
  got,      \* the reviews it has read
  stored,   \* the stored reviews of the app
  due       \* ghost: the reviews that the poll has to find

vars == <<now, feed, changes, phase, page, cutoff, got, stored, due>>

Review == [id : Id, at : Int]
Ids(rs) == {rs[i].id : i \in DOMAIN rs}
Reach == MaxPages * PageSize
InReach == {feed[i] : i \in DOMAIN feed \cap 1..Reach}

-----------------------------------------------------------------------------
(* The feed *)

Init ==
  /\ now = 0
  /\ feed = <<>> /\ changes = 0
  /\ phase = "idle" /\ page = 1 /\ cutoff = 0 /\ got = <<>> /\ due = {}
  /\ stored = <<>>

Change ==
  /\ changes < MaxChanges
  /\ changes' = changes + 1

NewestFirst(f) == IsSorted(f, LAMBDA r, s : r.at >= s.at)

\* The review takes a place in the feed; nothing says which among equals.
Inserted(f, r) ==
  {g \in {InsertAt(f, k, r) : k \in 1..(Len(f) + 1)} : NewestFirst(g)}

Publish(i, t) ==
  /\ Change
  /\ i \notin Ids(feed)
  /\ feed' \in Inserted(feed, [id |-> i, at |-> t])
  /\ UNCHANGED <<now, phase, page, cutoff, got, stored, due>>

\* Its author changes a review, which moves it up with a new time.
Edit(i) ==
  /\ Change
  /\ \E k \in DOMAIN feed :
      /\ feed[k].id = i /\ feed[k].at < now
      /\ feed' \in Inserted(RemoveAt(feed, k), [id |-> i, at |-> now])
      /\ due' = due \ {feed[k]}
      /\ UNCHANGED <<now, phase, page, cutoff, got, stored>>

\* A review is withdrawn: those behind it move up, maybe to a page that has
\* been read, and the poll under way may miss them.
Withdraw(i) ==
  /\ Change
  /\ \E k \in DOMAIN feed :
      /\ feed[k].id = i
      /\ feed' = RemoveAt(feed, k)
      /\ due' = IF phase = "fetch" THEN due \ {feed[j] : j \in k..Len(feed)} ELSE due
      /\ UNCHANGED <<now, phase, page, cutoff, got, stored>>

Tick ==
  /\ now < MaxTime
  /\ now' = now + 1
  /\ UNCHANGED <<feed, changes, phase, page, cutoff, got, stored, due>>

-----------------------------------------------------------------------------
(* Polls *)

PageOf(p) ==
  SubSeq(feed, (p - 1) * PageSize + 1, Min({p * PageSize, Len(feed)}))

\* The cutoff is computed once; the ghost notes what has to be found.
StartPoll ==
  /\ phase = "idle"
  /\ phase' = "fetch" /\ page' = 1 /\ got' = <<>>
  /\ cutoff' = now - PollWindow
  /\ due' = {r \in Range(feed) : r.at >= now - PollWindow}
  /\ UNCHANGED <<now, feed, changes, stored>>

\* The oldest review of the page is past the window.
PastWindow(rs) == \E r \in Range(rs) : r.at < cutoff

\* Mutant: the range of a rating is not checked.
ParsesAny(rs) == rs \in Seq(Review)

\* toReview takes every entry of the page: its rating is one to five stars.
Parses(rs) == \A i \in Ids(rs) : ScoreOf[i] \in Star

\* Mutant: the loop ends at a page with a review that is stored already.
EndsAtKnown(rs) ==
  rs = <<>> \/ page = MaxPages \/ Ids(rs) \cap Ids(stored) # {}

\* Mutant: there is no page cap.
EndsUncapped(rs) ==
  rs = <<>> \/ PastWindow(rs)

\* The loop of Fetch ends at an empty page, at one that goes back past the
\* window, and at the page cap.
Ends(rs) ==
  rs = <<>> \/ page = MaxPages \/ PastWindow(rs)

\* The next page is read and parsed.
FetchPage ==
  LET rs == PageOf(page)
  IN  /\ phase = "fetch"
      /\ Parses(rs)
      /\ got' = got \o rs
      /\ IF Ends(rs)
           THEN phase' = "save" /\ page' = 1 /\ due' = due \cap InReach
           ELSE page' = page + 1 /\ UNCHANGED <<phase, due>>
      /\ UNCHANGED <<now, feed, changes, cutoff, stored>>

\* Mutant: the batch of a poll whose newest review is known has nothing new.
MergedIfNewest(rs, batch) ==
  IF batch # <<>> /\ batch[1].id \in Ids(rs) THEN rs
  ELSE FoldLeft(LAMBDA s, r : IF r.id \in Ids(s) THEN s ELSE Append(s, r), rs, batch)

\* FileStore.Save: the first review of every new id is appended.
Merged(rs, batch) ==
  FoldLeft(LAMBDA s, r : IF r.id \in Ids(s) THEN s ELSE Append(s, r), rs, batch)

\* Mutant: the poll replaces what is stored.
SaveBatch ==
  /\ phase = "save"
  /\ stored' = Merged(<<>>, got)
  /\ phase' = "idle" /\ cutoff' = 0 /\ got' = <<>> /\ due' = {}
  /\ UNCHANGED <<now, feed, changes, page>>

\* What has been read is saved, and the poll is over.
Save ==
  /\ phase = "save"
  /\ stored' = Merged(stored, got)
  /\ phase' = "idle" /\ cutoff' = 0 /\ got' = <<>> /\ due' = {}
  /\ UNCHANGED <<now, feed, changes, page>>

\* A page cannot be read or parsed, or the file cannot be written: what has
\* been read is dropped.
PollFails ==
  /\ phase # "idle"
  /\ phase' = "idle" /\ page' = 1 /\ cutoff' = 0 /\ got' = <<>> /\ due' = {}
  /\ UNCHANGED <<now, feed, changes, stored>>

Next ==
  \/ \E i \in Id :
       \/ \E t \in (now - 1)..(now + 1) : Publish(i, t)
       \/ Edit(i)
       \/ Withdraw(i)
  \/ Tick
  \/ StartPoll \/ FetchPage \/ Save \/ PollFails

Spec == Init /\ [][Next]_vars

\* The scheduler polls again and again, and a page that is requested again and
\* again, and a file that is written again and again, do not fail for ever.
Fairness ==
  /\ WF_vars(StartPoll) /\ WF_vars(FetchPage \/ Save \/ PollFails)
  /\ \A p \in 1..MaxPages : SF_vars(page = p /\ FetchPage)
  /\ SF_vars(Save)

FairSpec == Spec /\ Fairness

-----------------------------------------------------------------------------
(* Properties *)

\* What a request for the list, and one for the summary, answers.
ListOf(q) == RecentReviews(stored, WindowOf(q), now)
SummaryOf(q) == Summary(stored, WindowOf(q), now)

\* The types of the variables; the feed is sorted, the poll stays within its
\* pages, and holds nothing while it is idle.
TypeOK ==
  /\ now \in 0..MaxTime /\ changes \in 0..MaxChanges
  /\ feed \in Seq(Review) /\ got \in Seq(Review) /\ stored \in Seq(Review)
  /\ phase \in {"idle", "fetch", "save"}
  /\ page \in 1..MaxPages /\ cutoff \in Int
  /\ due \subseteq Review
  /\ NewestFirst(feed)
  /\ phase # "fetch" => page = 1
  /\ phase = "idle" => got = <<>> /\ due = {}

\* "once a page reaches past the window every later page is older - safe to
\* stop paging here" (rss_fetcher.go:70-71), however the feed shifts between
\* two pages: a poll stores every review of the window that was in the feed when
\* it began, but for those that are edited or withdrawn, are behind a
\* withdrawn one, or end up beyond the page cap.
PollIsComplete ==
  [][Save => \A r \in due : r.id \in Ids(stored')]_vars

\* GetRecentReviews answers exactly the stored reviews of the window, each id
\* once, strictly newest first, so that two requests agree on their order
\* (service.go:41, 48-53).
ListIsExact ==
  \A q \in Query :
    LET list == ListOf(q)
    IN  /\ Range(list) = {r \in Range(stored) : now - r.at \in 0..WindowOf(q)}
        /\ \A i, j \in DOMAIN list :
             i < j => Newer(list[i], list[j]) /\ list[i].id # list[j].id

\* "so the boundary-page reviews the fetcher over-reads can't skew the stats,
\* and the summary matches the reviews list" (service.go:106-107).
SummaryMatchesList ==
  \A q \in Query :
    LET list == ListOf(q)
        s == SummaryOf(q)
        count(n) == Cardinality({i \in DOMAIN list : ScoreOf[list[i].id] = n})
    IN  /\ s.total = Len(list)
        /\ \A n \in Star : s.countByStar[n] = count(n)
        /\ s.sum = SumFunction([n \in Star |-> n * count(n)])
        /\ list # <<>> => s.lastUpdated = list[1].at

\* reviewSchema: one review that it refuses makes the page refuse the whole list.
ReviewSchema(r) == ScoreOf[r.id] \in 1..5

\* "the contract for both ends" (web/src/schemas/index.ts:3): whatever ratings the
\* feed holds, the page can parse what it gets, and each review that a summary
\* totals is under one of the stars that the bar shows.
AnswersParse ==
  \A q \in Query :
    LET s == SummaryOf(q)
    IN  /\ \A r \in Range(ListOf(q)) : ReviewSchema(r)
        /\ SumFunction(s.countByStar) = s.total

\* Asking for more hours never shows less: the clamp keeps the product with an
\* hour from wrapping around (handler.go:143-145, 155-158).
WiderShowsMore ==
  \A q, r \in Query \ {NoHours} :
    0 < q /\ q <= r => Range(ListOf(q)) \subseteq Range(ListOf(r))

\* Whatever the feed does, a review that is listed stays listed, as it is, until
\* the window has passed it.
ListedUntilOld ==
  [][\A d \in {WindowOf(q) : q \in Query} :
       LET list == RecentReviews(stored, d, now)
       IN  \A r \in Range(list) : r \in Range(list') \/ now' - r.at > d]_vars

\* Polls can reach the review: it is among the first pages and in the window,
\* and no entry of those pages is refused.
Pollable(i) ==
  /\ \E r \in InReach : r.id = i /\ r.at >= now - PollWindow
  /\ \A r \in InReach : ScoreOf[r.id] \in Star

\* A review that polls can reach is stored in the end, however late it came, and
\* however many polls fail or miss it by a shift of the feed.
CaughtUp ==
  \A i \in Id : <>[]Pollable(i) => <>(i \in Ids(stored))
===============================================================================
