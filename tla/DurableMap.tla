------------------------------ MODULE DurableMap ------------------------------
(***************************************************************************)
(* What both stores promise their callers, whatever crashes and whatever   *)
(* disk errors happen: a map that is served from memory, in which a change *)
(* that was acknowledged outlives every restart that can read it, and in   *)
(* which only changes that failed or were interrupted may surface at a     *)
(* restart unannounced.                                                    *)
(*                                                                         *)
(* val is the map that is served (while the process is down, the one it    *)
(* served last), and serving says whether it is.  disk[k] holds the values *)
(* of k that a restart may find.  Acknowledging a change to k leaves only  *)
(* its value there, and only an operation on k adds another one; nothing   *)
(* that is served changes but by an acknowledged operation or at a         *)
(* restart.  A restart that cannot read what it finds serves something     *)
(* else instead, and leaves it to the next restart to find it again.       *)
(***************************************************************************)
CONSTANTS
  Key, Value,
  Start,          \* the values a key may have before the first boot
  Allowed(_, _),  \* Allowed(u, v): one operation may turn u into v
  Instead(_)      \* what a restart that cannot read the value u may serve

VARIABLES serving, val, disk

Init ==
  /\ serving = FALSE
  /\ val \in [Key -> Start]
  /\ disk \in [Key -> SUBSET Start]

\* An operation on k reaches the disk; nothing is acknowledged yet.
Attempt(k, v) ==
  /\ serving
  /\ Allowed(val[k], v)
  /\ disk' = [disk EXCEPT ![k] = @ \cup {v}]
  /\ UNCHANGED <<serving, val>>

\* No value appears on the disk by itself.
Settles ==
  /\ disk' \in [Key -> SUBSET Value]
  /\ \A k \in Key : disk'[k] \subseteq disk[k]

\* Less is left open of what a restart may find.
Settle == Settles /\ UNCHANGED <<serving, val>>

\* Everything in memory is gone.
Crash == Settles /\ serving' = FALSE /\ UNCHANGED val

\* The operation is acknowledged, and cannot be lost any more.
Commit(k) ==
  /\ serving
  /\ \E v \in disk[k] :
       /\ Allowed(val[k], v)
       /\ val' = [val EXCEPT ![k] = v]
       /\ disk' = [disk EXCEPT ![k] = {v}]
  /\ UNCHANGED serving

\* A boot serves, for each key, a value that it finds, or what it serves in
\* place of one that it cannot read.  It writes nothing.
Restart ==
  /\ ~serving /\ serving' = TRUE
  /\ val' \in [Key -> Value]
  /\ \A k \in Key : \E u \in disk[k] : val'[k] \in {u} \cup Instead(u)
  /\ UNCHANGED disk

Next ==
  \/ \E k \in Key, v \in Value : Attempt(k, v)
  \/ Settle
  \/ Crash
  \/ \E k \in Key : Commit(k)
  \/ Restart

Spec == Init /\ [][Next]_<<serving, val, disk>>
=============================================================================
