------------------------------ MODULE ReviewsPage ------------------------------
(***************************************************************************)
(* web/src/pages/ReviewsPage.tsx: the app list, the two hooks and the      *)
(* selectors together.                                                     *)
(*                                                                         *)
(* AppList changes the selection, by a choice and by the effect that       *)
(* corrects it.  A change of the selection is rendered before the effects  *)
(* of the hooks, which are those of ReviewsView, run for it: viewed is the *)
(* app that they ran for last.  React runs the effects of a click with the *)
(* click; others may wait for a frame to be painted, but run before a      *)
(* click or an effect makes another change to render.  The hooks' own      *)
(* steps leave the app list alone.                                         *)
(***************************************************************************)
EXTENDS AppList

CONSTANTS Window, Hook, MaxVersion, MaxArmed, MaxInFlight   \* see ReviewsView

ASSUME PageAssumption ==
  /\ Hook \subseteq {"reviews", "summary"}
  /\ {MaxVersion, MaxArmed, MaxInFlight} \subseteq Nat

VARIABLES
  viewed,     \* the app that the effects of the hooks ran for last, or NoApp
  stored,     \* app -> the version the server has
  hours,      \* the selected window
  data,       \* hook -> the response it shows
  fetching,   \* hook -> its loading flag
  failed,     \* hook -> it holds an error
  inFlight    \* the loads under way

Hooks ==
  INSTANCE ReviewsView WITH selected <- viewed, loading <- fetching, CanFail <- TRUE

listVars == <<registry, apps, loading, due, submitting, req, unsure>>
hookVars == <<viewed, stored, hours, data, fetching, failed, inFlight>>
pageVars == <<vars, hookVars>>

-----------------------------------------------------------------------------

PageInit == Init /\ Hooks!Init

\* A step of a request leaves the selection, and so the hooks, alone.
ListStep == Requests /\ UNCHANGED hookVars

\* The AppSelector: a click, with its effects.
ChooseApp(a) ==
  /\ viewed = selected
  /\ Select(a)
  /\ Hooks!Show(a, hours)

\* A button of the WindowSelector: a click, with its effects.
ChooseWindow(h) ==
  /\ viewed = selected
  /\ Controls
  /\ Hooks!Show(selected, h)
  /\ UNCHANGED <<selected, listVars>>

\* The selection that the page's effect made is rendered; the effects of the
\* hooks are still to run.
Correction == viewed = selected /\ Correct /\ UNCHANGED hookVars

\* Mutant: without an app, the hooks return before they are emptied.
RunEffectsIfSelected ==
  /\ viewed # selected
  /\ IF selected = NoApp
       THEN viewed' = NoApp /\ UNCHANGED <<stored, hours, data, fetching, failed, inFlight>>
       ELSE Hooks!Show(selected, hours)
  /\ UNCHANGED <<selected, listVars>>

\* The effects of the hooks run for a selection that was corrected.
RunEffects ==
  /\ viewed # selected
  /\ IF selected = NoApp THEN Hooks!ShowNothing ELSE Hooks!Show(selected, hours)
  /\ UNCHANGED <<selected, listVars>>

\* A step of the hooks that leaves the selection alone.
HookStep ==
  /\ UNCHANGED <<selected, viewed, hours, listVars>>
  /\ Hooks!Next

PageNext ==
  \/ ListStep
  \/ \E a \in App : ChooseApp(a)
  \/ \E h \in Window : ChooseWindow(h)
  \/ Correction
  \/ RunEffects
  \/ HookStep

PageSpec == PageInit /\ [][PageNext]_pageVars

-----------------------------------------------------------------------------
(* What the page renders *)

\* The app in the banner: the selected one is looked up in the list.
Banner == IF selected \in apps THEN selected ELSE NoApp

-----------------------------------------------------------------------------
(* Properties *)

\* "shows the selected app's banner and reviews" (README.md:186), once the effects
\* have run: the controls come with the banner of the app they act on; a hook that
\* has loaded without an error shows that app and the chosen window; and where
\* there is no banner, as after the last app has been removed, nothing of an app
\* that is gone is left.
ShownIsListed ==
  due = {} /\ viewed = selected =>
    /\ IF Controls THEN Banner = selected ELSE Banner = NoApp
    /\ \A k \in Hook :
         IF Banner = NoApp THEN data[k] = Hooks!Nothing
         ELSE ~fetching[k] /\ ~failed[k] =>
                data[k] # Hooks!Nothing /\ Hooks!IsOf(data[k], Banner, hours)
===============================================================================
