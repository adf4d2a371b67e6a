-------------------------------- MODULE Server --------------------------------
(***************************************************************************)
(* cmd/server/main.go: the goroutines of the process and how they end.     *)
(*                                                                         *)
(* main waits for a signal or for the HTTP server to fail, cancels the     *)
(* shared context, shuts the server down and waits for the scheduler and   *)
(* for the background polls.  The scheduler polls every registered app at  *)
(* once and then on each tick, at most Concurrency at a time; the handler  *)
(* of an add registers the app and starts a background poll of it, unless  *)
(* Concurrency of those are running.                                       *)
(*                                                                         *)
(* A semaphore is a buffered channel: its tokens are the slots of that     *)
(* kind, and a poll occupies one from its start to its return.  A poll is  *)
(* a fetch followed by a save (service.PollApp); the registry is the set   *)
(* that AppStore serves.                                                   *)
(***************************************************************************)
EXTENDS Integers, FiniteSets

CONSTANTS
  App,
  Handler,          \* the connections that adds arrive on
  Concurrency,      \* POLL_CONCURRENCY, which loadConfig raises to 1
  ShutdownTimesOut  \* whether a handler may outlive Shutdown's 10 s

ASSUME ConcurrencyAssumption == Concurrency \in Nat \ {0}
ASSUME ShutdownTimesOutAssumption == ShutdownTimesOut \in BOOLEAN

VARIABLES
  registry,  \* the apps that the registry serves
  ctxDone,   \* the shared context is cancelled
  srv,       \* "serving", "failed" (ListenAndServe returned) or "closed"
  main,      \* what main is doing
  sched,     \* what runScheduler is doing
  queue,     \* the apps this pass of pollAll has still to start
  ticker,    \* "none" before NewTicker, "idle", or "due": a tick is buffered
  poll,      \* slot -> the poll that holds it
  handler    \* connection -> the add request on it

vars == <<registry, ctxDone, srv, main, sched, queue, ticker, poll, handler>>

Slot == {"sched", "bg"} \X (1..Concurrency)
Slots(k) == {s \in Slot : s[1] = k}

Free == [phase |-> "free"]
Poll(a, ph) == [phase |-> ph, app |-> a]
PollState == {Free} \cup [phase : {"fetch", "save"}, app : App]

\* An add is two requests to Apple, validation and lookup, then the rest.
NoRequest == [at |-> "idle"]
Asked(a) == [at |-> "joining", app |-> a, exists |-> "asked", lookup |-> "asked"]
Registered(a) == [at |-> "registered", app |-> a]
Request ==
  {NoRequest} \cup {Registered(a) : a \in App}
    \cup [at : {"joining"}, app : App, exists : {"asked", "yes", "no"},
          lookup : {"asked", "ended"}]

AllFree(k) == \A s \in Slots(k) : poll[s] = Free
NoRequests == \A h \in Handler : handler[h] = NoRequest

\* A poll of the app is under way.
Polled(a) == \E s \in Slot : poll[s] # Free /\ poll[s].app = a

Alive == main # "stopped"

-----------------------------------------------------------------------------

Init ==
  /\ registry \in SUBSET App
  /\ ctxDone = FALSE
  /\ srv = "serving"
  /\ main = "select"
  /\ sched = "list"
  /\ queue = {}
  /\ ticker = "none"
  /\ poll = [s \in Slot |-> Free]
  /\ handler = [h \in Handler |-> NoRequest]

(* Outside: SIGINT or SIGTERM, and the failure of ListenAndServe. *)

Signal ==
  /\ Alive /\ ~ctxDone
  /\ ctxDone' = TRUE
  /\ UNCHANGED <<registry, srv, main, sched, queue, ticker, poll, handler>>

ServeFails ==
  /\ Alive /\ srv = "serving"
  /\ srv' = "failed"
  /\ UNCHANGED <<registry, ctxDone, main, sched, queue, ticker, poll, handler>>

-----------------------------------------------------------------------------
(* A poll: svc.PollApp, and the release of its token *)

\* The feed is read.
Fetched(s) ==
  /\ Alive
  /\ poll[s].phase = "fetch"
  /\ poll' = [poll EXCEPT ![s].phase = "save"]
  /\ UNCHANGED <<registry, ctxDone, srv, main, sched, queue, ticker, handler>>

\* The fetch failed or was cancelled, or the save returned.
PollReturns(s) ==
  /\ Alive
  /\ poll[s] # Free
  /\ poll' = [poll EXCEPT ![s] = Free]
  /\ UNCHANGED <<registry, ctxDone, srv, main, sched, queue, ticker, handler>>

PollStep(s) == Fetched(s) \/ PollReturns(s)

-----------------------------------------------------------------------------
(* runScheduler *)

\* Mutant: a pass polls the apps configured at startup.
ListSeeds ==
  /\ Alive /\ sched = "list"
  /\ queue' = App
  /\ sched' = "fanout"
  /\ UNCHANGED <<registry, ctxDone, srv, main, ticker, poll, handler>>

\* pollAll takes a snapshot of the registry.
List ==
  /\ Alive /\ sched = "list"
  /\ queue' = registry
  /\ sched' = "fanout"
  /\ UNCHANGED <<registry, ctxDone, srv, main, ticker, poll, handler>>

\* The next app gets a token and a goroutine.
StartPoll(a, s) ==
  /\ Alive /\ sched = "fanout"
  /\ a \in queue
  /\ poll[s] = Free
  /\ poll' = [poll EXCEPT ![s] = Poll(a, "fetch")]
  /\ queue' = queue \ {a}
  /\ UNCHANGED <<registry, ctxDone, srv, main, sched, ticker, handler>>

\* Mutant: an app that finds no token is skipped, as in pollInBackground.
StopFanoutWhenFull ==
  /\ Alive /\ sched = "fanout"
  /\ queue = {} \/ ctxDone \/ \A s \in Slots("sched") : poll[s] # Free
  /\ queue' = {}
  /\ sched' = "join"
  /\ UNCHANGED <<registry, ctxDone, srv, main, ticker, poll, handler>>

\* All apps are started, or the context is done and the rest is given up.
StopFanout ==
  /\ Alive /\ sched = "fanout"
  /\ queue = {} \/ ctxDone
  /\ queue' = {}
  /\ sched' = "join"
  /\ UNCHANGED <<registry, ctxDone, srv, main, ticker, poll, handler>>

EndPass ==
  /\ sched' = "tick"
  /\ ticker' = IF ticker = "none" THEN "idle" ELSE ticker
  /\ UNCHANGED <<registry, ctxDone, srv, main, queue, poll, handler>>

\* Mutant: pollAll does not wait for its polls.
JoinNothing == Alive /\ sched = "join" /\ EndPass

\* wg.Wait: the pass ends with its last poll; the first one creates the ticker.
Join == Alive /\ sched = "join" /\ AllFree("sched") /\ EndPass

Tick ==
  /\ Alive /\ ticker = "idle"
  /\ ticker' = "due"
  /\ UNCHANGED <<registry, ctxDone, srv, main, sched, queue, poll, handler>>

NextPass ==
  /\ Alive /\ sched = "tick"
  /\ ticker = "due"
  /\ ticker' = "idle"
  /\ sched' = "list"
  /\ UNCHANGED <<registry, ctxDone, srv, main, queue, poll, handler>>

\* Mutant: a buffered tick is always taken before the cancelled context.
SchedulerEndsUnlessDue ==
  /\ Alive /\ sched = "tick"
  /\ ctxDone /\ ticker # "due"
  /\ sched' = "done"
  /\ UNCHANGED <<registry, ctxDone, srv, main, queue, ticker, poll, handler>>

SchedulerEnds ==
  /\ Alive /\ sched = "tick"
  /\ ctxDone
  /\ sched' = "done"
  /\ UNCHANGED <<registry, ctxDone, srv, main, queue, ticker, poll, handler>>

StartNext == \E a \in App, s \in Slots("sched") : StartPoll(a, s)

SchedulerRuns == List \/ StartNext \/ StopFanout \/ Join \/ NextPass

-----------------------------------------------------------------------------
(* The handlers: POST and DELETE of an app *)

\* A connection is served until Shutdown, even after ListenAndServe returned.
\* addApp calls svc.AddApp, which validates and looks up at the same time.
AddStarts(h, a) ==
  /\ Alive /\ srv # "closed"
  /\ handler[h] = NoRequest
  /\ handler' = [handler EXCEPT ![h] = Asked(a)]
  /\ UNCHANGED <<registry, ctxDone, srv, main, sched, queue, ticker, poll>>

\* The store has the app, or not, or the validation failed.
ExistsEnds(h) ==
  /\ Alive
  /\ handler[h].at = "joining" /\ handler[h].exists = "asked"
  /\ \E answer \in {"yes", "no"} : handler' = [handler EXCEPT ![h].exists = answer]
  /\ UNCHANGED <<registry, ctxDone, srv, main, sched, queue, ticker, poll>>

\* With a name and an icon, or without: its error is dropped.
LookupEnds(h) ==
  /\ Alive
  /\ handler[h].at = "joining" /\ handler[h].lookup = "asked"
  /\ handler' = [handler EXCEPT ![h].lookup = "ended"]
  /\ UNCHANGED <<registry, ctxDone, srv, main, sched, queue, ticker, poll>>

\* wg.Wait waits for both, whatever the first of them has said.
Joined(h) ==
  handler[h].at = "joining" /\ handler[h].exists # "asked" /\ handler[h].lookup = "ended"

\* The app is unknown, or the validation or registry.Add failed.
AddRefused(h) ==
  /\ Alive /\ Joined(h)
  /\ handler' = [handler EXCEPT ![h] = NoRequest]
  /\ UNCHANGED <<registry, ctxDone, srv, main, sched, queue, ticker, poll>>

AddRegisters(h) ==
  /\ Alive /\ Joined(h) /\ handler[h].exists = "yes"
  /\ registry' = registry \cup {handler[h].app}
  /\ handler' = [handler EXCEPT ![h] = Registered(handler[h].app)]
  /\ UNCHANGED <<ctxDone, srv, main, sched, queue, ticker, poll>>

\* pollInBackground, then the answer: the poll is skipped if no token is left.
OnAppAdded(h) ==
  /\ Alive /\ handler[h].at = "registered"
  /\ handler' = [handler EXCEPT ![h] = NoRequest]
  /\ \/ \E s \in Slots("bg") :
          /\ poll[s] = Free
          /\ poll' = [poll EXCEPT ![s] = Poll(handler[h].app, "fetch")]
     \/ /\ \A s \in Slots("bg") : poll[s] # Free
        /\ UNCHANGED poll
  /\ UNCHANGED <<registry, ctxDone, srv, main, sched, queue, ticker>>

HandlerRuns(h) ==
  ExistsEnds(h) \/ LookupEnds(h) \/ AddRefused(h) \/ AddRegisters(h) \/ OnAppAdded(h)

\* removeApp, one step on a connection of its own.
Remove(a) ==
  /\ Alive /\ srv # "closed"
  /\ a \in registry
  /\ registry' = registry \ {a}
  /\ UNCHANGED <<ctxDone, srv, main, sched, queue, ticker, poll, handler>>

-----------------------------------------------------------------------------
(* main *)

\* The select: a signal came or the server failed.
Wake ==
  /\ main = "select"
  /\ ctxDone \/ srv = "failed"
  /\ main' = "stop"
  /\ UNCHANGED <<registry, ctxDone, srv, sched, queue, ticker, poll, handler>>

\* Mutant: stop() is not called; a server that failed leaves the context alive.
ShutDownOnly ==
  /\ main = "stop"
  /\ srv' = "closed"
  /\ main' = "shutdown"
  /\ UNCHANGED <<registry, ctxDone, sched, queue, ticker, poll, handler>>

\* stop(), and Shutdown closes the listener.
ShutDown ==
  /\ main = "stop"
  /\ ctxDone' = TRUE
  /\ srv' = "closed"
  /\ main' = "shutdown"
  /\ UNCHANGED <<registry, sched, queue, ticker, poll, handler>>

Proceed(from, to) ==
  /\ main = from
  /\ main' = to
  /\ UNCHANGED <<registry, ctxDone, srv, sched, queue, ticker, poll, handler>>

\* Shutdown returns: every connection is idle, or the deadline has passed.
ShutDownReturns ==
  /\ NoRequests \/ ShutdownTimesOut
  /\ Proceed("shutdown", "waitScheduler")

SchedulerWait == sched = "done" /\ Proceed("waitScheduler", "waitBgPolls")

\* Mutant: main does not wait for the background polls.
BgPollsWaitNot == Proceed("waitBgPolls", "stopped")

BgPollsWait == AllFree("bg") /\ Proceed("waitBgPolls", "stopped")

MainRuns == Wake \/ ShutDown \/ ShutDownReturns \/ SchedulerWait \/ BgPollsWait

\* The process has exited, and its goroutines with it.
Exited == main = "stopped" /\ UNCHANGED vars

-----------------------------------------------------------------------------

Next ==
  \/ Signal \/ ServeFails
  \/ \E s \in Slot : PollStep(s)
  \/ SchedulerRuns \/ SchedulerEnds \/ Tick
  \/ \E a \in App : Remove(a) \/ \E h \in Handler : AddStarts(h, a)
  \/ \E h \in Handler : HandlerRuns(h)
  \/ MainRuns
  \/ Exited

Spec == Init /\ [][Next]_vars

\* Every goroutine that can run does; a request to Apple ends by its 15 s
\* timeout, the ticker fires, and a select that finds the context done again
\* and again among other ready cases takes it at last (Go picks at random).
Fairness ==
  /\ WF_vars(MainRuns)
  /\ WF_vars(SchedulerRuns)
  /\ SF_vars(SchedulerEnds)
  /\ WF_vars(Tick)
  /\ \A s \in Slot : WF_vars(PollStep(s))
  /\ \A h \in Handler : WF_vars(HandlerRuns(h))

FairSpec == Spec /\ Fairness

-----------------------------------------------------------------------------
(* Properties *)

\* The types of the variables; from Shutdown on the shared context is done and
\* the listener closed, whichever of the signal and the server ended the select
\* (main.go:94-104), and the context is done when the scheduler ends.
TypeOK ==
  /\ registry \in SUBSET App
  /\ ctxDone \in BOOLEAN
  /\ srv \in {"serving", "failed", "closed"}
  /\ main \in {"select", "stop", "shutdown", "waitScheduler", "waitBgPolls", "stopped"}
  /\ sched \in {"list", "fanout", "join", "tick", "done"}
  /\ queue \in SUBSET App
  /\ ticker \in {"none", "idle", "due"}
  /\ poll \in [Slot -> PollState]
  /\ handler \in [Handler -> Request]
  /\ main \notin {"select", "stop"} => ctxDone /\ srv = "closed"
  /\ sched = "done" => ctxDone

\* A pass of the scheduler begins, and the scheduler ends, only when every poll
\* of the pass before has returned (main.go:119, 145): the passes of a slow
\* feed do not pile up.
PassesDoNotOverlap == sched \in {"list", "tick", "done"} => AllFree("sched")

\* A graceful stop cuts nothing off: when main returns, no poll is between its
\* fetch and the end of its save, and no add is half done (main.go:104-110).
StopsQuietly ==
  main = "stopped" => NoRequests /\ \A s \in Slot : poll[s] = Free

\* "every Add happens-before srv.Shutdown returns, and thus before
\* bgPolls.Wait()" (main.go:46-47): a background poll starts only before main
\* has come out of Shutdown.
AddsBeforeShutdownReturns ==
  [][(\E s \in Slots("bg") : poll[s] = Free /\ poll'[s] # Free)
       => main \in {"select", "stop", "shutdown"}]_vars

\* A signal or a failed server always ends the process.
ShutdownCompletes == ctxDone \/ srv = "failed" ~> main = "stopped"

\* While the process runs, an app that stays registered is polled again and
\* again, its background poll skipped or not ("the scheduler catches it next
\* tick", main.go:44).
RegisteredIsPolled ==
  \A a \in App : <>[](a \in registry /\ ~ctxDone /\ srv = "serving") => []<>Polled(a)

\* An app that was removed for good is left alone in the end (service.go:99).
RemovedIsLeft ==
  \A a \in App : <>[](a \notin registry /\ NoRequests) => <>[]~Polled(a)
=============================================================================
