------------------------------ MODULE MCPolling -------------------------------
(* Pages of one review and a cap of two of them, so that each change of the  *)
(* feed shifts it over the border of a page and a third review is beyond the *)
(* cap; one entry whose rating is no star; a window that reviews leave; and  *)
(* parameters below, in and above the range, and none.                       *)
EXTENDS Polling
MCScoreOf == [i \in Id |-> CASE i = 1 -> 2 [] i = 2 -> 5 [] i = 3 -> 0]
MCQuery == {NoHours, 0, 1, 2, 3}
===============================================================================
