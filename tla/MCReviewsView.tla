---------------------------- MODULE MCReviewsView ----------------------------
(* Two apps and two windows, one poll per app that finds something new, an   *)
(* armed load that another overtakes, and a disarmed one that comes late.    *)
EXTENDS ReviewsView
==============================================================================
