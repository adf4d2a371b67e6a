----------------------------- MODULE Server_proofs -----------------------------
(***************************************************************************)
(* Proofs about Server, for any apps, connections and concurrency.         *)
(***************************************************************************)
EXTENDS Server, TLAPS

\* What each stage of main can rely on.  Once the scheduler is done its polls
\* are, and stay, gone; once Shutdown has returned without timing out there is
\* no request and none can come, so no background poll starts any more.
Stages ==
  /\ main \in {"waitBgPolls", "stopped"} => sched = "done"
  /\ ~ShutdownTimesOut =>
       /\ main \in {"waitScheduler", "waitBgPolls", "stopped"} => NoRequests
       /\ main = "stopped" => AllFree("bg")

IInv == TypeOK /\ PassesDoNotOverlap /\ Stages

\* The initial states satisfy the inductive invariant.
LEMMA InitIInv == Init => IInv
BY DEF Init, IInv, TypeOK, PassesDoNotOverlap, Stages, AllFree, Slots, PollState, Request

\* Every step preserves the inductive invariant.
LEMMA StepIInv ==
  ASSUME IInv, [Next]_vars
  PROVE  IInv'
<1> USE DEF IInv, TypeOK, Stages
<1>1. ASSUME UNCHANGED <<main, srv, sched, poll, handler>>, TypeOK'
      PROVE  IInv'
  BY <1>1 DEF PassesDoNotOverlap, AllFree, NoRequests
<1>2. CASE Signal
  BY <1>1, <1>2 DEF Signal
<1>3. CASE ServeFails
  BY <1>3 DEF ServeFails, PassesDoNotOverlap, AllFree, NoRequests, Alive
<1>4. ASSUME NEW s \in Slot, PollStep(s)
      PROVE  IInv'
  <2>1. poll' \in [Slot -> PollState]
    BY <1>4 DEF PollStep, Fetched, PollReturns, PollState, Free
  <2>2. \A t \in Slot : poll[t] = Free => poll'[t] = Free
    BY <1>4 DEF PollStep, Fetched, PollReturns, Free
  <2>3. UNCHANGED <<registry, ctxDone, srv, main, sched, queue, ticker, handler>> /\ Alive
    BY <1>4 DEF PollStep, Fetched, PollReturns
  <2>4. QED
    BY <2>1, <2>2, <2>3 DEF PassesDoNotOverlap, AllFree, Slots, NoRequests, Alive
<1>5. CASE List \/ StopFanout \/ NextPass \/ Join \/ SchedulerEnds
  BY <1>5 DEF List, StopFanout, NextPass, Join, EndPass, SchedulerEnds, PassesDoNotOverlap,
              AllFree, NoRequests, Alive
<1>6. ASSUME NEW a \in App, NEW s \in Slots("sched"), StartPoll(a, s)
      PROVE  IInv'
  <2>1. poll' \in [Slot -> PollState]
    BY <1>6 DEF StartPoll, Poll, PollState
  <2>2. QED
    BY <1>6, <2>1 DEF StartPoll, PassesDoNotOverlap, NoRequests, Alive
<1>7. CASE Tick
  BY <1>1, <1>7 DEF Tick
<1>8. ASSUME NEW a \in App, Remove(a) \/ \E h \in Handler : AddStarts(h, a)
      PROVE  IInv'
  <2>1. handler' \in [Handler -> Request]
    BY <1>8 DEF AddStarts, Remove, Asked, Request
  <2>2. QED
    BY <1>8, <2>1 DEF AddStarts, Remove, PassesDoNotOverlap, AllFree, NoRequests
<1>9. ASSUME NEW h \in Handler, HandlerRuns(h)
      PROVE  IInv'
  <2> USE DEF HandlerRuns, ExistsEnds, LookupEnds, AddRefused, AddRegisters, OnAppAdded
  <2>1. handler[h] \in Request \ {NoRequest} /\ handler[h].app \in App
    BY <1>9 DEF Joined, Request, NoRequest, Registered
  <2>2. ~ShutdownTimesOut => main \in {"select", "stop", "shutdown"}
    BY <2>1 DEF NoRequests, NoRequest
  <2>3. handler' \in [Handler -> Request] /\ registry' \in SUBSET App
    BY <1>9, <2>1 DEF Joined, Request, NoRequest, Registered
  <2>4. UNCHANGED <<ctxDone, srv, main, sched, queue, ticker>> /\ Alive
    BY <1>9
  <2>5. /\ poll' \in [Slot -> PollState]
        /\ \A s \in Slots("sched") : poll'[s] = poll[s]
    BY <1>9, <2>1 DEF Slots, Poll, PollState
  <2>6. QED
    BY <2>2, <2>3, <2>4, <2>5 DEF PassesDoNotOverlap, AllFree, Alive
<1>10. CASE MainRuns
  BY <1>10 DEF MainRuns, Wake, ShutDown, ShutDownReturns, SchedulerWait, BgPollsWait, Proceed,
               PassesDoNotOverlap, AllFree, NoRequests
<1>11. CASE Exited \/ UNCHANGED vars
  BY <1>1, <1>11 DEF Exited, vars
<1>12. QED
  BY <1>2, <1>3, <1>4, <1>5, <1>6, <1>7, <1>8, <1>9, <1>10, <1>11
     DEF Next, SchedulerRuns, StartNext

\* The inductive invariant holds in every reachable state.
THEOREM Invariance == Spec => []IInv
BY InitIInv, StepIInv, PTL DEF Spec

\* The types of the variables.
THEOREM Typing == Spec => []TypeOK
<1>1. IInv => TypeOK
  BY DEF IInv
<1>2. QED
  BY <1>1, Invariance, PTL

\* The passes of the scheduler never overlap and it leaves no poll behind, even
\* where a handler outlives Shutdown (main.go:118-119, 145).
THEOREM PassesApart == Spec => []PassesDoNotOverlap
<1>1. IInv => PassesDoNotOverlap
  BY DEF IInv
<1>2. QED
  BY <1>1, Invariance, PTL

\* A graceful stop cuts nothing off (main.go:104-110): if every handler ends
\* before Shutdown's deadline, no poll and no add is under way when main
\* returns.
THEOREM GracefulStop == ASSUME ~ShutdownTimesOut PROVE Spec => []StopsQuietly
<1>1. IInv => StopsQuietly
  BY DEF IInv, Stages, PassesDoNotOverlap, StopsQuietly, AllFree, Slots, Slot
<1>2. QED
  BY <1>1, Invariance, PTL

\* "every Add happens-before srv.Shutdown returns, and thus before
\* bgPolls.Wait()" (main.go:46-47), under the same condition.
THEOREM AddsBeforeWait ==
  ASSUME ~ShutdownTimesOut PROVE Spec => AddsBeforeShutdownReturns
<1>1. ASSUME IInv, [Next]_vars
      PROVE  [(\E s \in Slots("bg") : poll[s] = Free /\ poll'[s] # Free)
                => main \in {"select", "stop", "shutdown"}]_vars
  <2>1. SUFFICES ASSUME NEW s \in Slots("bg"), poll[s] = Free, poll'[s] # Free
                 PROVE  main \in {"select", "stop", "shutdown"}
    OBVIOUS
  <2>2. PICK h \in Handler : OnAppAdded(h)
    <3>1. CASE \E t \in Slot : PollStep(t)
      BY <1>1, <2>1, <3>1 DEF PollStep, Fetched, PollReturns, IInv, TypeOK, Slots, Free
    <3>2. CASE StartNext
      <4>1. PICK a \in App, t \in Slots("sched") : StartPoll(a, t)
        BY <3>2 DEF StartNext
      <4>2. s # t
        BY <2>1 DEF Slots
      <4>3. QED
        BY <1>1, <2>1, <4>1, <4>2 DEF StartPoll, IInv, TypeOK, Slots
    <3>3. CASE \E h \in Handler : HandlerRuns(h)
      BY <2>1, <3>3 DEF HandlerRuns, ExistsEnds, LookupEnds, AddRefused, AddRegisters
    <3>4. poll' # poll
      BY <2>1
    <3>5. ~(Signal \/ ServeFails \/ List \/ StopFanout \/ Join \/ NextPass
             \/ SchedulerEnds \/ Tick)
      BY <3>4 DEF Signal, ServeFails, List, StopFanout, Join, EndPass, NextPass, SchedulerEnds, Tick
    <3>6. ~(MainRuns \/ Exited \/ UNCHANGED vars)
      BY <3>4 DEF MainRuns, Wake, ShutDown, ShutDownReturns, SchedulerWait, BgPollsWait, Proceed,
                  Exited, vars
    <3>7. ~\E a \in App : Remove(a) \/ \E g \in Handler : AddStarts(g, a)
      BY <3>4 DEF AddStarts, Remove
    <3>8. QED
      BY <1>1, <3>1, <3>2, <3>3, <3>5, <3>6, <3>7 DEF Next, SchedulerRuns
  <2>3. handler[h] # NoRequest /\ Alive
    BY <2>2 DEF OnAppAdded, NoRequest
  <2>4. QED
    BY <1>1, <2>3 DEF IInv, Stages, NoRequests, TypeOK, Alive
<1>2. QED
  BY <1>1, Invariance, PTL DEF Spec, AddsBeforeShutdownReturns
=============================================================================
