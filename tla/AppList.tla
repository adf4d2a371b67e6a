------------------------------- MODULE AppList --------------------------------
(***************************************************************************)
(* web/src/hooks/useApps.ts with AddAppForm.tsx and the selection of       *)
(* ReviewsPage.tsx: the page's copy of the registry while requests are     *)
(* served, answered and lost in any order.                                 *)
(*                                                                         *)
(* A request is sent, then served (the server changes or reads the         *)
(* registry) or refused, and its answer arrives later or is lost.  What an *)
(* answer changes is rendered, and may be painted, before the effect that  *)
(* corrects the selection runs: the effect is due in between.  React runs  *)
(* it before it renders anything new but a click.  Apps are numbers in the *)
(* order of the list; what is typed and the texts of errors are left out.  *)
(***************************************************************************)
EXTENDS Integers, FiniteSetsExt

CONSTANTS
  App, NoApp,   \* the apps; none is selected
  Slot          \* bound: the requests under way at once

ASSUME AppAssumption == App \subseteq Nat /\ NoApp \notin App

VARIABLES
  registry,     \* the apps the server monitors
  apps,         \* the apps the page lists
  loading,      \* the list has not been answered yet
  selected,     \* the selected app, or NoApp
  due,          \* the selection that an effect is about to make, in a set
                \* that is empty when there is none
  submitting,   \* the form's button is disabled
  req,          \* slot -> the request in it, or Free
  unsure        \* ghost: apps that a lost answer or an overlap left open

vars == <<registry, apps, loading, selected, due, submitting, req, unsure>>

Free == [kind |-> "none"]

\* apps is what is asked about, and in the answer to a list what was read; a
\* request is alone if no other one about its app was under way with it.
Request == [kind : {"list", "add", "remove"}, apps : SUBSET App,
            served : BOOLEAN, alone : BOOLEAN]

ListRequest == [kind |-> "list", apps |-> App, served |-> FALSE, alone |-> TRUE]

Active == {s \in Slot : req[s] # Free}
About(a) == {s \in Active : req[s].kind = "list" \/ a \in req[s].apps}

\* The selectors and the button "Remove" are on the page.
Controls == apps # {} /\ selected # NoApp

-----------------------------------------------------------------------------

\* The page is mounted and asks for the list.
Init ==
  /\ registry \in SUBSET App
  /\ apps = {} /\ loading = TRUE /\ selected = NoApp /\ submitting = FALSE
  /\ due = {} /\ unsure = {}
  /\ \E s \in Slot : req = [t \in Slot |-> IF t = s THEN ListRequest ELSE Free]

\* A request about one app takes a free slot.
Send(s, kind, a) ==
  /\ req[s] = Free
  /\ req' = [t \in Slot |->
       IF t = s THEN [kind |-> kind, apps |-> {a}, served |-> FALSE,
                      alone |-> About(a) = {}]
       ELSE IF t \in About(a) THEN [req[t] EXCEPT !.alone = FALSE]
       ELSE req[t]]
  /\ unsure' = IF About(a) = {} THEN unsure ELSE unsure \cup {a}

\* Mutant: the button stays enabled.
SubmitAddAgain(s, a) ==
  /\ submitting' = TRUE
  /\ Send(s, "add", a)
  /\ UNCHANGED <<registry, apps, loading, selected, due>>

\* The form is submitted: its button is enabled, and what is typed is an id.
SubmitAdd(s, a) ==
  /\ ~submitting
  /\ submitting' = TRUE
  /\ Send(s, "add", a)
  /\ UNCHANGED <<registry, apps, loading, selected, due>>

\* The button beside the selector: nothing keeps it from a second click.
ClickRemove(s) ==
  /\ Controls
  /\ Send(s, "remove", selected)
  /\ UNCHANGED <<registry, apps, loading, selected, due, submitting>>

\* The AppSelector.  An effect that is due has the last word if it has not run
\* when the choice is made: it selects what its own render saw fit.  If it has
\* run, and only its update waits to be rendered, the choice comes after it.
Select(a) ==
  /\ Controls
  /\ a \in apps
  /\ selected' = a
  /\ due' \in {due, {}}
  /\ UNCHANGED <<registry, apps, loading, submitting, req, unsure>>

-----------------------------------------------------------------------------
(* The server *)

Serve(s) ==
  /\ s \in Active /\ ~req[s].served
  /\ registry' = CASE req[s].kind = "add" -> registry \cup req[s].apps
                   [] req[s].kind = "remove" -> registry \ req[s].apps
                   [] OTHER -> registry
  /\ req' = [req EXCEPT ![s].served = TRUE,
                        ![s].apps = IF req[s].kind = "list" THEN registry ELSE @]
  /\ UNCHANGED <<apps, loading, selected, due, submitting, unsure>>

-----------------------------------------------------------------------------
(* The answers *)

\* What the effect of the page selects, given the list that was rendered: a
\* selection that is not listed gives way to the first app.
Reselected(list) ==
  IF list = {} THEN NoApp
  ELSE IF selected \in list THEN selected ELSE Min(list)

\* Mutant: the app that is selected when the answer comes is dropped.
ListedAfterDrop(r) ==
  CASE r.kind = "list" -> r.apps
    [] r.kind = "add" -> apps \cup r.apps
    [] r.kind = "remove" -> apps \ {selected}

\* The list after the answer to a request.
ListedAfter(r) ==
  CASE r.kind = "list" -> r.apps
    [] r.kind = "add" -> apps \cup r.apps
    [] r.kind = "remove" -> apps \ r.apps

\* Mutant: only the answer to the list ends the loading state.
OverIfServed(s) ==
  /\ req' = [req EXCEPT ![s] = Free]
  /\ loading' = (loading /\ ~(req[s].kind = "list" /\ req[s].served))
  /\ submitting' = (submitting /\ req[s].kind # "add")

\* The request is over: in every case the flag that waited for it is reset.
Over(s) ==
  /\ req' = [req EXCEPT ![s] = Free]
  /\ loading' = (loading /\ req[s].kind # "list")
  /\ submitting' = (submitting /\ req[s].kind # "add")

\* Mutant: the effect that corrects the selection is left out.
ArriveUnselected(s) ==
  /\ due = {} /\ s \in Active /\ req[s].served
  /\ Over(s)
  /\ apps' = ListedAfter(req[s])
  /\ unsure' = IF req[s].alone THEN unsure \ req[s].apps ELSE unsure
  /\ UNCHANGED <<registry, selected, due>>

\* The answer changes the list, which is rendered with the old selection.
Arrive(s) ==
  /\ due = {} /\ s \in Active /\ req[s].served
  /\ Over(s)
  /\ apps' = ListedAfter(req[s])
  /\ due' = {Reselected(apps')} \ {selected}
  /\ unsure' = IF req[s].alone THEN unsure \ req[s].apps ELSE unsure
  /\ UNCHANGED <<registry, selected>>

\* The effect has run, and the page is rendered with the selection it made.
Correct ==
  /\ \E a \in due : selected' = a
  /\ due' = {}
  /\ UNCHANGED <<registry, apps, loading, submitting, req, unsure>>

\* The request does not reach the server, or the server answers with an error.
Refuse(s) ==
  /\ s \in Active /\ ~req[s].served
  /\ Over(s)
  /\ unsure' = IF req[s].kind = "list" THEN App ELSE unsure
  /\ UNCHANGED <<registry, apps, selected, due>>

\* The server has done it and the answer is lost.
Lose(s) ==
  /\ s \in Active /\ req[s].served
  /\ Over(s)
  /\ unsure' = IF req[s].kind = "list" THEN App ELSE unsure \cup req[s].apps
  /\ UNCHANGED <<registry, apps, selected, due>>

\* A step of a request.
Requests ==
  \E s \in Slot :
    \/ \E a \in App : SubmitAdd(s, a)
    \/ ClickRemove(s)
    \/ Serve(s) \/ Arrive(s) \/ Refuse(s) \/ Lose(s)

Next ==
  \/ Requests
  \/ \E a \in App : Select(a)
  \/ Correct

Spec == Init /\ [][Next]_vars

-----------------------------------------------------------------------------
(* Properties *)

\* The types of the variables; only one add is under way, and the form waits
\* for it.
TypeOK ==
  /\ {registry, apps, unsure} \subseteq SUBSET App
  /\ {loading, submitting} \subseteq BOOLEAN
  /\ selected \in App \cup {NoApp}
  /\ due \in SUBSET (App \cup {NoApp})
  /\ req \in [Slot -> Request \cup {Free}]
  /\ \A s \in Active : req[s].kind = "add" =>
       submitting /\ \A t \in Active \ {s} : req[t].kind # "add"

\* The page lists exactly what the server monitors, as far as an app goes about
\* which nothing is under way and whose last request was not overlapped by
\* another, nor lost its answer: a request that is refused changes neither side
\* (AddAppForm.tsx:25-32), and one that is retried repairs a loss.
InStep ==
  \A a \in App \ unsure : About(a) = {} => (a \in apps <=> a \in registry)

Listed(a) == IF apps = {} THEN a = NoApp ELSE a \in apps

\* Whatever is added, removed and chosen in whatever order, once the effect of
\* the page has run, what is selected is listed, and something is selected
\* whenever there is a list (ReviewsPage.tsx:36-42): a removal leaves no app
\* selected that is gone.  Until then the old selection may be seen.
SelectedIsListed ==
  \A a \in (IF due = {} THEN {selected} ELSE due) : Listed(a)

\* The form and the list wait for a request, and never for one that is over:
\* whether it succeeds, is refused, or loses its answer, the button can be used
\* again and the loading state ends (AddAppForm.tsx:30-32, useApps.ts:21).
FlagsHaveRequest ==
  /\ submitting => \E s \in Active : req[s].kind = "add"
  /\ loading => \E s \in Active : req[s].kind = "list"
===============================================================================
