------------------------------- MODULE MCServer -------------------------------
(* Two apps, so that a pass has an order and an app can be missed; one        *)
(* connection, whose second add can find the one background token taken by    *)
(* the poll of its first; and one token of each kind.  The finding's run       *)
(* has the same.                                                             *)
EXTENDS Server
===============================================================================
