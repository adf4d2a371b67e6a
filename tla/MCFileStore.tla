----------------------------- MODULE MCFileStore -----------------------------
(* Two apps, two writers, and three reviews: r1 in two versions of one id    *)
(* (the author edited it between two polls) and r2.                          *)
EXTENDS FileStore, FiniteSets

MCReview == {"r1", "r1edited", "r2"}
MCId == {"1", "2"}
MCIdOf == [r \in MCReview |-> IF r = "r2" THEN "2" ELSE "1"]

\* A page that shifted under the poll gives two versions of a review at once;
\* the next polls find the edited version and one more review.
MCBatch == {<<"r1", "r1edited">>, <<"r1edited", "r2">>, <<"r2">>}

\* Every file fits, or only those of at most one review do.
NoneOversized == {}
TwoOversized == {S \in SUBSET MCReview : Cardinality(S) > 1}

AnyFault == {"io", "dirSync", "kill", "power", "read"}
==============================================================================
