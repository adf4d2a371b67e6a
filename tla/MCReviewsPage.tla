----------------------------- MODULE MCReviewsPage -----------------------------
(* Two apps and two requests under way: the list with an add or a removal, two *)
(* clicks on the button, or an add with a removal of the other app.  One hook  *)
(* with its interval, two windows, and a load that comes late after the        *)
(* selection has changed; what the server stores does not change here.         *)
EXTENDS ReviewsPage, TLC

Symmetry == Permutations(Slot) \cup Permutations(Window)
================================================================================
