-------------------------- MODULE ReviewsView_proofs --------------------------
(***************************************************************************)
(* The safety of ReviewsView for every number of apps, windows, versions   *)
(* and loads under way.                                                    *)
(*                                                                         *)
(* What makes it inductive is that an armed load always asks for what is   *)
(* selected: the clean-up of an effect disarms its loads in the same step  *)
(* in which the selection changes.                                         *)
(***************************************************************************)
EXTENDS ReviewsView, TLAPS

\* A load whose effect is the current one asks for what is selected.
ArmedAskForSelected ==
  \A f \in inFlight : f.active => f.app = selected /\ f.hours = hours

IInv ==
  /\ TypeOK
  /\ ArmedAskForSelected
  /\ LoadingHasLoad
  /\ SettledIsSelected

-----------------------------------------------------------------------------

\* The initial states satisfy the inductive invariant.
LEMMA InitIInv == Init => IInv
<1> SUFFICES ASSUME Init
             PROVE  IInv
  OBVIOUS
<1>1. TypeOK
  BY DEF Init, TypeOK
<1>2. ArmedAskForSelected /\ LoadingHasLoad /\ SettledIsSelected
  BY DEF Init, ArmedAskForSelected, LoadingHasLoad, SettledIsSelected
<1>3. QED
  BY <1>1, <1>2 DEF IInv

\* The selection changes: nothing under way is armed but the new initial loads.
LEMMA ShowIInv ==
  ASSUME IInv, NEW a \in App, NEW h \in Window, Show(a, h)
  PROVE  IInv'
<1> USE DEF IInv, TypeOK
<1>1. Disarmed \in SUBSET Load /\ \A f \in Disarmed : ~f.active
  BY DEF Disarmed, Load
<1>2. ASSUME NEW k \in Hook
      PROVE  /\ StartOf(k, a, h, TRUE) \in Load
             /\ StartOf(k, a, h, TRUE).app = a
             /\ StartOf(k, a, h, TRUE).hours = h
             /\ StartOf(k, a, h, TRUE).hook = k
             /\ StartOf(k, a, h, TRUE).active
             /\ StartOf(k, a, h, TRUE).initial
  BY <1>2 DEF StartOf, Load
<1>3. inFlight' = Disarmed \cup {StartOf(k, a, h, TRUE) : k \in Hook}
  BY DEF Show
<1> HIDE DEF IInv
<1>4. TypeOK'
  <2>1. inFlight' \in SUBSET Load
    BY <1>1, <1>2, <1>3
  <2>2. QED
    BY <2>1 DEF Show, IInv
<1>5. ArmedAskForSelected'
  <2>1. ASSUME NEW f \in inFlight', f.active
        PROVE  f.app = a /\ f.hours = h
    <3>1. f \notin Disarmed
      BY <1>1, <2>1
    <3>2. PICK k \in Hook : f = StartOf(k, a, h, TRUE)
      BY <1>3, <3>1
    <3>3. QED
      BY <1>2, <3>2
  <2>2. QED
    BY <2>1 DEF Show, ArmedAskForSelected
<1>6. LoadingHasLoad'
  <2>1. ASSUME NEW k \in Hook
        PROVE  \E f \in inFlight' : f.hook = k /\ f.active /\ f.initial
    BY <1>2, <1>3
  <2>2. QED
    BY <2>1 DEF LoadingHasLoad
<1>7. SettledIsSelected'
  BY DEF Show, SettledIsSelected
<1>8. QED
  BY <1>4, <1>5, <1>6, <1>7 DEF IInv

\* Nothing is selected any more, and nothing under way is armed.
LEMMA ShowNothingIInv ==
  ASSUME IInv, ShowNothing
  PROVE  IInv'
<1> USE DEF IInv, TypeOK
<1>1. Disarmed \in SUBSET Load /\ \A f \in Disarmed : ~f.active
  BY DEF Disarmed, Load
<1>2. TypeOK'
  BY <1>1 DEF ShowNothing
<1>3. ArmedAskForSelected'
  BY <1>1 DEF ShowNothing, ArmedAskForSelected
<1>4. LoadingHasLoad' /\ SettledIsSelected'
  BY DEF ShowNothing, LoadingHasLoad, SettledIsSelected
<1>5. QED
  BY <1>2, <1>3, <1>4

\* The interval adds a load of what is selected.
LEMMA RefreshIInv ==
  ASSUME IInv, NEW k \in Hook, Refresh(k)
  PROVE  IInv'
<1> DEFINE f == StartOf(k, selected, hours, FALSE)
<1> USE DEF IInv, TypeOK
<1>1. f \in Load /\ f.app = selected /\ f.hours = hours
  BY DEF Refresh, StartOf, Load
<1>2. inFlight' = inFlight \cup {f} /\ UNCHANGED <<stored, selected, hours, data, loading, failed>>
  BY DEF Refresh
<1> HIDE DEF f
<1>3. TypeOK' /\ ArmedAskForSelected'
  BY <1>1, <1>2 DEF ArmedAskForSelected
<1>4. LoadingHasLoad' /\ SettledIsSelected'
  BY <1>2 DEF LoadingHasLoad, SettledIsSelected
<1>5. QED
  BY <1>3, <1>4

\* The server's answer changes nothing of a load but what was read.
LEMMA AnswerIInv ==
  ASSUME IInv, NEW f \in inFlight, Answer(f)
  PROVE  IInv'
<1> DEFINE g == [f EXCEPT !.read = stored[f.app]]
<1> USE DEF IInv, TypeOK
<1>1. /\ g \in Load
      /\ g.hook = f.hook /\ g.app = f.app /\ g.hours = f.hours
      /\ g.active = f.active /\ g.initial = f.initial
  BY DEF Load
<1>2. /\ inFlight' = (inFlight \ {f}) \cup {g}
      /\ UNCHANGED <<stored, selected, hours, data, loading, failed>>
  BY DEF Answer
<1> HIDE DEF g
<1>3. TypeOK' /\ ArmedAskForSelected'
  BY <1>1, <1>2 DEF ArmedAskForSelected
<1>4. LoadingHasLoad'
  BY <1>1, <1>2 DEF LoadingHasLoad
<1>5. SettledIsSelected'
  BY <1>2 DEF SettledIsSelected
<1>6. QED
  BY <1>3, <1>4, <1>5

\* A load that leaves takes the loading state with it if it is what it waits
\* for; the load that a hook still waits for is another one and stays.
LEMMA LeavingKeepsLoadingHasLoad ==
  ASSUME IInv, NEW f \in inFlight,
         inFlight' = inFlight \ {f}, loading' = LoadingAfter(f), selected' = selected
  PROVE  loading' \in [Hook -> BOOLEAN] /\ LoadingHasLoad'
<1> USE DEF IInv, TypeOK
<1>1. f \in Load /\ f.hook \in Hook
  BY DEF Load
<1>2. loading' \in [Hook -> BOOLEAN]
  BY <1>1 DEF LoadingAfter
<1>3. ASSUME NEW k \in Hook, loading'[k], selected' # NoApp
      PROVE  \E g \in inFlight' : g.hook = k /\ g.active /\ g.initial
  <2>1. loading[k] /\ ~(f.hook = k /\ f.active /\ f.initial)
    BY <1>1, <1>3 DEF LoadingAfter
  <2>2. PICK g \in inFlight : g.hook = k /\ g.active /\ g.initial
    BY <1>3, <2>1 DEF LoadingHasLoad
  <2>3. g # f
    BY <2>1, <2>2
  <2>4. QED
    BY <2>2, <2>3
<1>4. QED
  BY <1>2, <1>3 DEF LoadingHasLoad

\* A response that arrives preserves the inductive invariant.
LEMMA ArriveIInv ==
  ASSUME IInv, NEW f \in inFlight, Arrive(f)
  PROVE  IInv'
<1> DEFINE r == [app |-> f.app, hours |-> f.hours, version |-> f.read]
<1> USE DEF IInv, TypeOK
<1>1. f \in Load /\ f.hook \in Hook /\ r \in Response
  BY DEF Arrive, Load, Response
<1>2. /\ inFlight' = inFlight \ {f} /\ loading' = LoadingAfter(f)
      /\ UNCHANGED <<stored, selected, hours, failed>>
      /\ data' = IF f.active THEN [data EXCEPT ![f.hook] = r] ELSE data
  BY DEF Arrive
<1>3. f.active => r.app = selected /\ r.hours = hours
  BY DEF ArmedAskForSelected
<1>4. r # Nothing
  <2>1. "app" \in DOMAIN r /\ "app" \notin DOMAIN Nothing
    BY DEF Nothing
  <2>2. QED
    BY <2>1
<1> HIDE DEF r
<1>5. loading' \in [Hook -> BOOLEAN] /\ LoadingHasLoad'
  BY <1>2, LeavingKeepsLoadingHasLoad
<1>6. TypeOK'
  BY <1>1, <1>2, <1>5
<1>7. ArmedAskForSelected'
  BY <1>2 DEF ArmedAskForSelected
<1>8. ASSUME NEW k \in Hook, selected' # NoApp, ~loading'[k], ~failed'[k]
      PROVE  data'[k] # Nothing /\ IsOf(data'[k], selected', hours')
  <2>1. CASE f.active /\ f.hook = k
    BY <1>1, <1>2, <1>3, <1>4, <2>1 DEF IsOf
  <2>2. CASE ~(f.active /\ f.hook = k)
    <3>1. loading'[k] = loading[k] /\ data'[k] = data[k]
      BY <1>1, <1>2, <2>2 DEF LoadingAfter
    <3>2. QED
      BY <1>2, <1>8, <3>1 DEF SettledIsSelected
  <2>3. QED
    BY <2>1, <2>2
<1>9. QED
  BY <1>5, <1>6, <1>7, <1>8 DEF SettledIsSelected

\* A load that fails preserves the inductive invariant.
LEMMA FailIInv ==
  ASSUME IInv, NEW f \in inFlight, Fail(f)
  PROVE  IInv'
<1> USE DEF IInv, TypeOK
<1>1. f \in Load /\ f.hook \in Hook
  BY DEF Load
<1>2. /\ inFlight' = inFlight \ {f} /\ loading' = LoadingAfter(f)
      /\ UNCHANGED <<stored, selected, hours, data>>
      /\ failed' = IF f.active /\ f.initial THEN [failed EXCEPT ![f.hook] = TRUE] ELSE failed
  BY DEF Fail
<1>3. loading' \in [Hook -> BOOLEAN] /\ LoadingHasLoad'
  BY <1>2, LeavingKeepsLoadingHasLoad
<1>4. TypeOK'
  BY <1>1, <1>2, <1>3
<1>5. ArmedAskForSelected'
  BY <1>2 DEF ArmedAskForSelected
<1>6. ASSUME NEW k \in Hook, selected' # NoApp, ~loading'[k], ~failed'[k]
      PROVE  data'[k] # Nothing /\ IsOf(data'[k], selected', hours')
  <2>1. ~(f.active /\ f.initial /\ f.hook = k)
    BY <1>1, <1>2, <1>6
  <2>2. ~loading[k] /\ ~failed[k]
    BY <1>1, <1>2, <1>6, <2>1 DEF LoadingAfter
  <2>3. QED
    BY <1>2, <1>6, <2>2 DEF SettledIsSelected
<1>7. QED
  BY <1>3, <1>4, <1>5, <1>6 DEF SettledIsSelected

\* Every step preserves the inductive invariant.
LEMMA StepIInv == IInv /\ [Next]_vars => IInv'
<1> SUFFICES ASSUME IInv, [Next]_vars
             PROVE  IInv'
  OBVIOUS
<1>1. ASSUME NEW a \in App, Store(a)
      PROVE  IInv'
  <2>1. stored' \in [App -> Version]
    BY <1>1, BoundAssumption DEF Store, IInv, TypeOK, Version
  <2>2. QED
    BY <1>1, <2>1 DEF Store, IInv, TypeOK, ArmedAskForSelected, LoadingHasLoad, SettledIsSelected
<1>2. CASE UNCHANGED vars
  BY <1>2 DEF vars, IInv, TypeOK, ArmedAskForSelected, LoadingHasLoad, SettledIsSelected
<1>3. QED
  BY <1>1, <1>2, ShowIInv, ShowNothingIInv, RefreshIInv, AnswerIInv, ArriveIInv, FailIInv DEF Next

\* The inductive invariant holds in every reachable state.
THEOREM Invariance == Spec => []IInv
BY InitIInv, StepIInv, PTL DEF Spec

-----------------------------------------------------------------------------
(* The properties that the run checks *)

\* The variables keep their types.
THEOREM Typing == Spec => []TypeOK
<1>1. IInv => TypeOK
  BY DEF IInv
<1>2. QED
  BY <1>1, Invariance, PTL

\* The page never waits for a load that is not under way (useReviews.ts:39-43).
THEOREM NoEndlessLoading == Spec => []LoadingHasLoad
<1>1. IInv => LoadingHasLoad
  BY DEF IInv
<1>2. QED
  BY <1>1, Invariance, PTL

\* Once the initial load is over without an error, a hook shows the selection,
\* whatever loads of earlier selections are still under way.
THEOREM SettledShowsSelected == Spec => []SettledIsSelected
<1>1. IInv => SettledIsSelected
  BY DEF IInv
<1>2. QED
  BY <1>1, Invariance, PTL

\* A response that comes after its app or window was left is never shown
\* (useReviews.ts:30, 49).
THEOREM LateResponsesAreDropped == Spec => OnlySelectedArrives
<1>1. ASSUME IInv, [Next]_vars
      PROVE  [\A k \in Hook : data'[k] # data[k] =>
                data'[k] = Nothing \/ IsOf(data'[k], selected', hours')]_data
  <2>1. SUFFICES ASSUME NEW k \in Hook, data'[k] # data[k]
                 PROVE  data'[k] = Nothing \/ IsOf(data'[k], selected', hours')
    OBVIOUS
  <2>2. CASE ShowNothing
    BY <2>2 DEF ShowNothing
  <2>3. ASSUME NEW f \in inFlight, Arrive(f)
        PROVE  IsOf(data'[k], selected', hours')
    <3>1. f.active /\ f.hook = k
      BY <1>1, <2>1, <2>3 DEF Arrive, IInv, TypeOK
    <3>2. data'[k] = [app |-> f.app, hours |-> f.hours, version |-> f.read]
      BY <1>1, <2>3, <3>1 DEF Arrive, IInv, TypeOK
    <3>3. QED
      BY <1>1, <2>3, <3>1, <3>2 DEF Arrive, IInv, ArmedAskForSelected, IsOf
  <2>4. ASSUME data' = data
        PROVE  FALSE
    BY <2>1, <2>4
  <2>5. QED
    BY <1>1, <2>2, <2>3, <2>4 DEF Next, Store, Show, Refresh, Answer, Fail, vars
<1>2. QED
  BY <1>1, Invariance, PTL DEF Spec, OnlySelectedArrives

\* Where no app is selected, no hook holds a response.
EmptyWithoutApp == selected = NoApp => \A k \in Hook : data[k] = Nothing

\* What the hooks show goes with the last app (useReviews.ts:16-18), and a load
\* that comes later does not bring it back.
THEOREM NothingWithoutApp == Spec => []EmptyWithoutApp
<1>1. Init => EmptyWithoutApp
  BY DEF Init, EmptyWithoutApp
<1>2. ASSUME IInv, EmptyWithoutApp, [Next]_vars
      PROVE  EmptyWithoutApp'
  <2>1. ASSUME NEW a \in App, NEW h \in Window, Show(a, h)
        PROVE  selected' # NoApp
    BY <2>1, NoAppAssumption DEF Show
  <2>2. ASSUME NEW f \in inFlight, Arrive(f), selected = NoApp
        PROVE  data' = data
    <3>1. f \in Load /\ f.app # NoApp
      BY <1>2, NoAppAssumption DEF IInv, TypeOK, Load
    <3>2. ~f.active
      BY <1>2, <2>2, <3>1 DEF IInv, ArmedAskForSelected
    <3>3. QED
      BY <2>2, <3>2 DEF Arrive
  <2>3. ASSUME NEW f \in inFlight, Arrive(f)
        PROVE  selected' = selected
    BY <2>3 DEF Arrive
  <2>4. CASE ShowNothing
    BY <2>4 DEF ShowNothing, EmptyWithoutApp
  <2>5. QED
    BY <1>2, <2>1, <2>2, <2>3, <2>4
       DEF Next, EmptyWithoutApp, Store, Refresh, Answer, Fail, vars
<1>3. QED
  BY <1>1, <1>2, Invariance, PTL DEF Spec
===============================================================================
