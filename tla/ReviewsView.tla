------------------------------ MODULE ReviewsView ------------------------------
(***************************************************************************)
(* web/src/hooks/useReviews.ts and useSummary.ts under                     *)
(* web/src/pages/ReviewsPage.tsx: what the page shows of the selected app  *)
(* and window while loads are on their way, fail, and come back late.      *)
(*                                                                         *)
(* The two hooks are the same code over two endpoints.  A change of the    *)
(* selected app or of the window runs the clean-up of the old effect,      *)
(* which disarms the loads it had started, and the new effect, which loads *)
(* anew; an interval loads again, silently.  A response is the version of  *)
(* the app's reviews that the server read when it answered; version 0 is   *)
(* an app without reviews in the window, every poll that stores some makes *)
(* a new version.  The selection is the one that the effects have run for: *)
(* React runs the effects of a click with the click, and ReviewsPage says  *)
(* what may be rendered before other effects run.                          *)
(***************************************************************************)
EXTENDS Integers, FiniteSets

CONSTANTS
  App, NoApp,    \* the apps of the selector; no app is selected
  Window,        \* the choices of WindowSelector
  Hook,          \* the hooks in use: "reviews", "summary"
  MaxVersion,    \* bound: the polls of an app that find something new
  MaxArmed,      \* bound: the loads of a hook's current effect under way at once
  MaxInFlight,   \* bound: all the loads under way when a new effect starts
  CanFail        \* whether a load may fail

ASSUME HookAssumption == Hook \subseteq {"reviews", "summary"}
ASSUME NoAppAssumption == NoApp \notin App
ASSUME BoundAssumption == {MaxVersion, MaxArmed, MaxInFlight} \subseteq Nat

VARIABLES
  stored,     \* app -> the version the server has
  selected,   \* the selected app, or NoApp
  hours,      \* the selected window
  data,       \* hook -> the response it shows, or Nothing
  loading,    \* hook -> its loading flag
  failed,     \* hook -> it holds an error
  inFlight    \* the loads under way

vars == <<stored, selected, hours, data, loading, failed, inFlight>>

Version == 0..MaxVersion
Nothing == [version |-> 0]
Response == [app : App, hours : Window, version : Version]

\* A load belongs to the effect that started it: active is that effect's flag.
\* It is on its way to the server ("sent") or back with what was read there.
\* Loads that agree in all of this are interchangeable, and kept as one.
Sent == -1
Load == [hook : Hook, app : App, hours : Window, initial : BOOLEAN,
         active : BOOLEAN, read : Version \cup {Sent}]

StartOf(k, a, h, initial) ==
  [hook |-> k, app |-> a, hours |-> h, initial |-> initial,
   active |-> TRUE, read |-> Sent]

-----------------------------------------------------------------------------

Init ==
  /\ stored \in [App -> Version]
  /\ selected = NoApp
  /\ hours \in Window
  /\ data = [k \in Hook |-> Nothing]
  /\ loading = [k \in Hook |-> FALSE]
  /\ failed = [k \in Hook |-> FALSE]
  /\ inFlight = {}

\* The server stores reviews that a poll found.
Store(a) ==
  /\ stored[a] < MaxVersion
  /\ stored' = [stored EXCEPT ![a] = @ + 1]
  /\ UNCHANGED <<selected, hours, data, loading, failed, inFlight>>

\* Mutant: the clean-up does not reset the active flag.
StillArmed == inFlight

\* The clean-up of the effects: the loads they started are disarmed.
Disarmed == {[f EXCEPT !.active = FALSE] : f \in inFlight}

\* Mutant: a change of the selection loads the way the interval does.
ShowSilently(a, h) ==
  /\ <<a, h>> # <<selected, hours>>
  /\ Cardinality(inFlight) <= MaxInFlight
  /\ selected' = a /\ hours' = h
  /\ inFlight' = Disarmed \cup {StartOf(k, a, h, FALSE) : k \in Hook}
  /\ UNCHANGED <<stored, data, loading, failed>>

\* An app or a window is chosen (or the page selects the first app): both
\* effects start over with an initial load.  What they showed stays.
Show(a, h) ==
  /\ <<a, h>> # <<selected, hours>>
  /\ Cardinality(inFlight) <= MaxInFlight
  /\ selected' = a /\ hours' = h
  /\ inFlight' = Disarmed \cup {StartOf(k, a, h, TRUE) : k \in Hook}
  /\ loading' = [k \in Hook |-> TRUE]
  /\ failed' = [k \in Hook |-> FALSE]
  /\ UNCHANGED <<stored, data>>

\* The last app is removed: nothing is selected and the hooks are emptied.
ShowNothing ==
  /\ selected # NoApp
  /\ selected' = NoApp
  /\ inFlight' = Disarmed
  /\ data' = [k \in Hook |-> Nothing]
  /\ failed' = [k \in Hook |-> k = "summary" /\ failed[k]]
  /\ UNCHANGED <<stored, hours, loading>>

\* Mutant: the hook loads once and sets no interval.
RefreshNothing(k) == FALSE /\ UNCHANGED vars

\* The interval of the effect fires.
Refresh(k) ==
  /\ selected # NoApp
  /\ Cardinality({f \in inFlight : f.hook = k /\ f.active}) < MaxArmed
  /\ inFlight' = inFlight \cup {StartOf(k, selected, hours, FALSE)}
  /\ UNCHANGED <<stored, selected, hours, data, loading, failed>>

\* The server reads the app's reviews.
Answer(f) ==
  /\ f.read = Sent
  /\ inFlight' = (inFlight \ {f}) \cup {[f EXCEPT !.read = stored[f.app]]}
  /\ UNCHANGED <<stored, selected, hours, data, loading, failed>>

LoadingAfter(f) ==
  IF f.active /\ f.initial THEN [loading EXCEPT ![f.hook] = FALSE] ELSE loading

\* Mutant: what is shown is not waited for.
ArriveUnread(f) ==
  /\ inFlight' = inFlight \ {f}
  /\ data' = IF f.active
               THEN [data EXCEPT ![f.hook] =
                       [app |-> f.app, hours |-> f.hours, version |-> f.read]]
               ELSE data
  /\ loading' = LoadingAfter(f)
  /\ UNCHANGED <<stored, selected, hours, failed>>

\* The response arrives: it is shown if its effect is still the current one.
Arrive(f) ==
  /\ f.read # Sent
  /\ inFlight' = inFlight \ {f}
  /\ data' = IF f.active
               THEN [data EXCEPT ![f.hook] =
                       [app |-> f.app, hours |-> f.hours, version |-> f.read]]
               ELSE data
  /\ loading' = LoadingAfter(f)
  /\ UNCHANGED <<stored, selected, hours, failed>>

\* Mutant: only a load that succeeds ends the loading state.
FailLoading(f) ==
  /\ CanFail
  /\ inFlight' = inFlight \ {f}
  /\ failed' = IF f.active /\ f.initial THEN [failed EXCEPT ![f.hook] = TRUE] ELSE failed
  /\ UNCHANGED <<stored, selected, hours, data, loading>>

\* The load fails, on its way there or back.
Fail(f) ==
  /\ CanFail
  /\ inFlight' = inFlight \ {f}
  /\ failed' = IF f.active /\ f.initial THEN [failed EXCEPT ![f.hook] = TRUE] ELSE failed
  /\ loading' = LoadingAfter(f)
  /\ UNCHANGED <<stored, selected, hours, data>>

Next ==
  \/ \E a \in App : Store(a)
  \/ \E a \in App, h \in Window : Show(a, h)
  \/ ShowNothing
  \/ \E k \in Hook : Refresh(k)
  \/ \E f \in inFlight : Answer(f) \/ Arrive(f) \/ Fail(f)

Spec == Init /\ [][Next]_vars

\* A load that is under way ends, the interval keeps firing, and a hook whose
\* loads can succeed again and again does not fail for ever.
Fairness ==
  /\ \A f \in Load :
       f.active => WF_vars(f \in inFlight /\ (Answer(f) \/ Arrive(f) \/ Fail(f)))
  /\ \A k \in Hook :
       /\ WF_vars(Refresh(k))
       /\ SF_vars(\E f \in inFlight : f.hook = k /\ f.active /\ Answer(f))
       /\ SF_vars(\E f \in inFlight : f.hook = k /\ f.active /\ Arrive(f))

FairSpec == Spec /\ Fairness

-----------------------------------------------------------------------------
(* What the page makes of it *)

\* ReviewsPage's body.
Body ==
  IF selected = NoApp THEN "none"
  ELSE IF loading["reviews"] THEN "loading"
  ELSE IF data["reviews"].version > 0 THEN "list"
  ELSE IF failed["reviews"] THEN "error"
  ELSE "empty"

IsOf(d, a, h) == d.app = a /\ d.hours = h

-----------------------------------------------------------------------------
(* Properties *)

\* The types of the variables.
TypeOK ==
  /\ stored \in [App -> Version]
  /\ selected \in App \cup {NoApp}
  /\ hours \in Window
  /\ data \in [Hook -> Response \cup {Nothing}]
  /\ loading \in [Hook -> BOOLEAN]
  /\ failed \in [Hook -> BOOLEAN]
  /\ inFlight \in SUBSET Load

\* However late it comes, a response is shown only while the app and the window
\* it was asked for are the selected ones (useReviews.ts:30, useSummary.ts:29).
OnlySelectedArrives ==
  [][\A k \in Hook : data'[k] # data[k] =>
       data'[k] = Nothing \/ IsOf(data'[k], selected', hours')]_data

\* The loading state of the page ends: it is on only while the initial load of
\* the current effect is under way (useReviews.ts:39-43).
LoadingHasLoad ==
  \A k \in Hook :
    loading[k] /\ selected # NoApp =>
      \E f \in inFlight : f.hook = k /\ f.active /\ f.initial

\* Once the initial load of a selection is over without an error, a hook shows
\* that selection: the list and the summary bar are of one app and window
\* (useSummary.ts:8-9).
SettledIsSelected ==
  \A k \in Hook :
    selected # NoApp /\ ~loading[k] /\ ~failed[k] =>
      data[k] # Nothing /\ IsOf(data[k], selected, hours)

\* "shows the selected app's banner and reviews" (README.md:186): the list
\* under the banner is of the app and the window that are selected.
ListIsOfSelection ==
  Body = "list" => IsOf(data["reviews"], selected, hours)

\* "so the list stays current" (useReviews.ts:9): while the selection stays, the
\* hooks end up with what the server has, whatever loads fail and however the
\* answers overtake each other, and a list that is not empty ends up on the page.
\* Of an empty one the page may go on showing the error of the initial load.
CatchesUp ==
  \A a \in App, h \in Window :
    <>[](selected = a /\ hours = h) =>
      <>[](/\ \A k \in Hook :
                ~loading[k] /\ data[k] = [app |-> a, hours |-> h, version |-> stored[a]]
           /\ stored[a] > 0 => Body = "list")
=============================================================================
