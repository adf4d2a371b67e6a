----------------------------- MODULE MCReviewList ------------------------------
(* Pages of two reviews and lists of five, so that a list has a page in the    *)
(* middle and one that is not full; the page's windows; and times that differ  *)
(* by just less than an hour and a day, just more than a day, and by a week.   *)
EXTENDS ReviewList
MCScoreOf == [i \in Id |-> IF i = 1 THEN 2 ELSE 5]
MCInstant == {0, 3570, 88200, 604800}
MCSubmitted == {0, 3570}
MCChoice == {24, 48, 168}
================================================================================
