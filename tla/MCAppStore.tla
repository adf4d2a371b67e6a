------------------------------ MODULE MCAppStore ------------------------------
(* Two apps, known by their id only or with their name, two handlers, and a   *)
(* configuration that may change between runs: seeded with none or with both. *)
EXTENDS AppStore, TLC

MCMeta == {"idOnly", "named"}
MCSeeds == {[a \in App |-> NotTracked], [a \in App |-> "idOnly"]}

\* Nothing tells two apps apart, nor two handlers.
Symmetry == Permutations(App) \cup Permutations(Writer)
===============================================================================
