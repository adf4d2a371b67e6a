-------------------------- MODULE ReviewsPage_proofs ---------------------------
(***************************************************************************)
(* Proofs about AppList, for any apps and any number of requests, and      *)
(* about the page that runs it.                                            *)
(*                                                                         *)
(* The page runs the app list and the hooks as they are: each of its steps *)
(* is a step of AppList or leaves it alone, and a step of ReviewsView or   *)
(* leaves it alone.  What is proved of the two holds for them together,    *)
(* and what the page shows follows from it.                                *)
(***************************************************************************)
EXTENDS ReviewsPage, WellFoundedInduction, TLAPS

View == INSTANCE ReviewsView_proofs WITH selected <- viewed, loading <- fetching, CanFail <- TRUE

-----------------------------------------------------------------------------
(* The app list *)

\* A request asks about one app, unless it is the list.
AboutOne ==
  \A s \in Active : req[s].kind # "list" =>
    \A a, b \in req[s].apps : a = b

\* A request that is alone has its app for itself, and what the server did for
\* it still stands.
AloneStands ==
  \A s \in Active : req[s].alone =>
    /\ \A t \in Active \ {s} :
         /\ req[s].kind # "list" /\ req[t].kind # "list"
         /\ req[s].apps \cap req[t].apps = {}
    /\ req[s].served =>
         /\ req[s].kind = "list" => req[s].apps = registry
         /\ req[s].kind = "add" => req[s].apps \subseteq registry
         /\ req[s].kind = "remove" => req[s].apps \cap registry = {}

\* One that is not leaves its app unsure.
OverlapIsUnsure ==
  \A s \in Active : ~req[s].alone /\ req[s].kind # "list" => req[s].apps \subseteq unsure

\* While the list is asked for, every other request overlaps it; for the apps
\* that no other one is about, its answer still stands.
ListStands ==
  \A s \in Active : req[s].kind = "list" =>
    /\ \A t \in Active \ {s} : req[t].kind # "list" /\ req[t].apps \subseteq unsure
    /\ req[s].served => \A a \in App \ unsure : a \in req[s].apps <=> a \in registry

\* The two sides agree about an app for as long as the server has done nothing
\* about it that the page has not been told.
Agree ==
  \A a \in App \ unsure :
    (\A s \in About(a) : req[s].kind # "list" /\ ~req[s].served) =>
      (a \in apps <=> a \in registry)

InStepInv == AboutOne /\ AloneStands /\ OverlapIsUnsure /\ ListStands /\ Agree

IInv == TypeOK /\ SelectedIsListed /\ FlagsHaveRequest /\ InStepInv

-----------------------------------------------------------------------------

\* A list that is not empty has a first app: what the page selects is listed.
LEMMA FirstIsListed ==
  ASSUME NEW list \in SUBSET App, list # {}
  PROVE  Min(list) \in list
<1>1. PICK x \in list : \A y \in list : ~(<<y, x>> \in OpToRel(<, Nat))
  BY AppAssumption, NatLessThanWellFounded, WFMin, Zenon
<1>2. \A y \in list : x <= y
  <2> TAKE y \in list
  <2>1. x \in Nat /\ y \in Nat
    BY AppAssumption
  <2>2. ~(y < x)
    BY <1>1, <2>1 DEF OpToRel
  <2>3. QED
    BY <2>1, <2>2
<1>3. QED
  BY <1>2 DEF Min

\* The selection that the effect of an answer makes is listed, if anything is.
LEMMA ReselectedIsListed ==
  ASSUME NEW list \in SUBSET App
  PROVE  IF list = {} THEN Reselected(list) = NoApp ELSE Reselected(list) \in list
BY FirstIsListed DEF Reselected

\* The initial states satisfy the inductive invariant.
LEMMA InitIInv == Init => IInv
<1> SUFFICES ASSUME Init PROVE IInv
  OBVIOUS
<1>1. PICK s \in Slot : req = [t \in Slot |-> IF t = s THEN ListRequest ELSE Free]
  BY DEF Init
<1>2. /\ ListRequest \in Request /\ ListRequest # Free
      /\ ListRequest.kind = "list" /\ ListRequest.served = FALSE
  BY DEF ListRequest, Request, Free
<1>3. Active = {s} /\ req[s] = ListRequest /\ req \in [Slot -> Request \cup {Free}]
  BY <1>1, <1>2 DEF Active
<1>4. TypeOK /\ SelectedIsListed
  BY <1>2, <1>3 DEF Init, TypeOK, SelectedIsListed, Listed
<1>5. AboutOne /\ AloneStands /\ OverlapIsUnsure /\ ListStands
  BY <1>2, <1>3 DEF AboutOne, AloneStands, OverlapIsUnsure, ListStands
<1>6. Agree
  BY <1>2, <1>3 DEF Agree, About
<1>7. FlagsHaveRequest
  BY <1>2, <1>3 DEF Init, FlagsHaveRequest
<1>8. QED
  BY <1>4, <1>5, <1>6, <1>7 DEF IInv, InStepInv

\* A request that is sent.
LEMMA SendKeeps ==
  ASSUME IInv, NEW s \in Slot, NEW a \in App, NEW kind \in {"add", "remove"}, Send(s, kind, a),
         UNCHANGED <<registry, apps>>
  PROVE  /\ req' \in [Slot -> Request \cup {Free}] /\ unsure' \in SUBSET App
         /\ \A t \in Slot \ {s} : /\ req'[t] = Free <=> req[t] = Free
                                  /\ req'[t].kind = req[t].kind
         /\ req'[s].kind = kind /\ req'[s] # Free
         /\ InStepInv'
<1> USE DEF IInv, TypeOK, InStepInv
<1> DEFINE new == [kind |-> kind, apps |-> {a}, served |-> FALSE, alone |-> About(a) = {}]
<1>1. /\ s \notin Active
      /\ new \in Request /\ new # Free
      /\ req'[s] = new
      /\ \A t \in About(a) : req'[t] = [req[t] EXCEPT !.alone = FALSE]
      /\ \A t \in Slot \ (About(a) \cup {s}) : req'[t] = req[t]
      /\ req' = [t \in Slot |-> req'[t]]
  BY DEF Send, About, Active, Request, Free
<1>11. /\ req'[s].kind = kind /\ req'[s].apps = {a} /\ req'[s].served = FALSE
       /\ req'[s].alone <=> About(a) = {}
  <2>1. new.kind = kind /\ new.apps = {a} /\ new.served = FALSE /\ (new.alone <=> About(a) = {})
    BY Zenon
  <2>2. QED
    BY <1>1, <2>1, Zenon
<1>2. \A t \in Active :
        /\ req[t] \in Request /\ req'[t] \in Request
        /\ req'[t].kind = req[t].kind /\ req'[t].apps = req[t].apps
        /\ req'[t].served = req[t].served
        /\ req'[t].alone <=> req[t].alone /\ t \notin About(a)
  <2> TAKE t \in Active
  <2>1. t \in Slot \ {s} /\ req[t] \in Request
    BY <1>1 DEF Active
  <2>2. CASE t \in About(a)
    BY <1>1, <2>1, <2>2 DEF Request
  <2>3. CASE t \notin About(a)
    BY <1>1, <2>1, <2>3 DEF Request
  <2>4. QED
    BY <2>2, <2>3
<1>3. Active' = Active \cup {s}
  BY <1>1, <1>2 DEF Active, About, Request, Free
<1>4. /\ About(a) = {} => unsure' = unsure
      /\ About(a) # {} => unsure' = unsure \cup {a}
  BY DEF Send
<1>5. AboutOne'
  BY <1>1, <1>2, <1>3 DEF AboutOne
<1>6. AloneStands'
  <2>1. ASSUME NEW t \in Active, req'[t].alone
        PROVE  /\ \A u \in Active' \ {t} :
                    /\ req'[t].kind # "list" /\ req'[u].kind # "list"
                    /\ req'[t].apps \cap req'[u].apps = {}
               /\ req'[t].served =>
                    /\ req[t].kind = "list" => req[t].apps = registry
                    /\ req[t].kind = "add" => req[t].apps \subseteq registry
                    /\ req[t].kind = "remove" => req[t].apps \cap registry = {}
    <3>2. t \notin About(a)
      BY <1>2, <2>1
    <3>3. req[t].kind # "list" /\ a \notin req[t].apps
      BY <3>2 DEF About
    <3>4. ASSUME NEW u \in Active \ {t}
          PROVE  req'[u].kind # "list" /\ req'[t].apps \cap req'[u].apps = {}
      BY <1>2, <2>1, <3>4 DEF AloneStands
    <3>5. req'[s].kind # "list" /\ req'[t].apps \cap req'[s].apps = {}
      BY <1>2, <1>11, <3>3
    <3>6. req'[t].served =>
            /\ req[t].kind = "list" => req[t].apps = registry
            /\ req[t].kind = "add" => req[t].apps \subseteq registry
            /\ req[t].kind = "remove" => req[t].apps \cap registry = {}
      BY <1>2, <2>1 DEF AloneStands
    <3>7. QED
      BY <1>2, <1>3, <3>3, <3>4, <3>5, <3>6
  <2>2. ASSUME About(a) = {}
        PROVE  \A u \in Active : req'[u].kind # "list" /\ a \notin req'[u].apps
    BY <1>2, <2>2 DEF About
  <2>3. \A t \in Active' : req'[t].alone => t \in Active \/ (t = s /\ About(a) = {})
    BY <1>3, <1>11
  <2>4. QED
    BY <1>1, <1>2, <1>3, <1>11, <2>1, <2>2, <2>3 DEF AloneStands, Request
<1>7. OverlapIsUnsure'
  <2>1. ASSUME NEW t \in About(a), req[t].kind # "list"
        PROVE  req[t].apps = {a}
    BY <2>1 DEF AboutOne, About
  <2>2. ASSUME NEW t \in Active, ~req'[t].alone, req'[t].kind # "list"
        PROVE  req'[t].apps \subseteq unsure'
    BY <1>2, <1>4, <2>1, <2>2 DEF OverlapIsUnsure
  <2>3. QED
    BY <1>3, <1>4, <1>11, <2>2 DEF OverlapIsUnsure
<1>8. ListStands'
  BY <1>1, <1>2, <1>3, <1>4 DEF ListStands, About
<1>9. Agree'
  BY <1>1, <1>2, <1>3, <1>4 DEF Agree, About
<1>10. QED
  <2>1. req' \in [Slot -> Request \cup {Free}]
    <3>1. ASSUME NEW t \in Slot
          PROVE  req'[t] \in Request \cup {Free}
      <4>1. CASE t = s
        BY <1>1, <4>1
      <4>2. CASE t \in Active
        BY <1>2, <4>2
      <4>3. CASE t # s /\ t \notin Active
        BY <1>1, <4>3 DEF About
      <4>4. QED
        BY <4>1, <4>2, <4>3
    <3>2. QED
      BY <1>1, <3>1
  <2>2. unsure' \in SUBSET App
    BY <1>4
  <2>3. ASSUME NEW t \in Slot \ {s}
        PROVE  (req'[t] = Free <=> req[t] = Free) /\ req'[t].kind = req[t].kind
    <3>1. CASE t \in Active
      BY <1>2, <3>1 DEF Active, Request, Free
    <3>2. CASE t \notin Active
      BY <1>1, <3>2 DEF Active, About
    <3>3. QED
      BY <3>1, <3>2
  <2>4. QED
    BY <1>1, <1>11, <2>1, <2>2, <2>3, <1>5, <1>6, <1>7, <1>8, <1>9

\* A request that ends, in whichever way: what is about the others stays.
LEMMA OverKeeps ==
  ASSUME IInv, NEW s \in Active, Over(s)
  PROVE  /\ req' \in [Slot -> Request \cup {Free}]
         /\ Active' = Active \ {s}
         /\ \A t \in Active \ {s} : req'[t] = req[t]
         /\ loading' \in BOOLEAN /\ submitting' \in BOOLEAN
         /\ \A t \in Active' : req'[t].kind = "add" =>
              submitting' /\ \A u \in Active' \ {t} : req'[u].kind # "add"
         /\ FlagsHaveRequest'
<1> USE DEF IInv, TypeOK
<1>1. /\ req' \in [Slot -> Request \cup {Free}] /\ s \in Slot
      /\ req'[s] = Free
      /\ \A t \in Slot \ {s} : req'[t] = req[t]
  BY DEF Over, Active
<1>2. Active' = Active \ {s}
  BY <1>1 DEF Active
<1>3. loading' \in BOOLEAN /\ submitting' \in BOOLEAN
  BY DEF Over
<1>4. ASSUME NEW t \in Active', req'[t].kind = "add"
      PROVE  submitting' /\ \A u \in Active' \ {t} : req'[u].kind # "add"
  <2>1. t \in Active \ {s} /\ req[t].kind = "add"
    BY <1>1, <1>2, <1>4 DEF Active
  <2>2. submitting /\ req[s].kind # "add" /\ \A u \in Active \ {t} : req[u].kind # "add"
    BY <2>1
  <2>3. QED
    BY <1>1, <1>2, <2>2 DEF Over, Active
<1>5. FlagsHaveRequest'
  <2>1. ASSUME NEW t \in Active, req[t].kind # req[s].kind
        PROVE  t \in Active' /\ req'[t] = req[t]
    BY <1>1, <1>2, <2>1 DEF Active
  <2>2. /\ submitting' => submitting /\ req[s].kind # "add"
        /\ loading' => loading /\ req[s].kind # "list"
    BY DEF Over
  <2>3. QED
    BY <2>1, <2>2 DEF FlagsHaveRequest
<1>6. QED
  BY <1>1, <1>2, <1>3, <1>4, <1>5 DEF Active

\* A new request takes a free slot: those that the flags wait for are still there.
LEMMA FlagsSurvive ==
  ASSUME FlagsHaveRequest, NEW s \in Slot, req[s] = Free, req'[s] # Free,
         \A t \in Slot \ {s} : (req'[t] = Free <=> req[t] = Free) /\ req'[t].kind = req[t].kind,
         loading' = loading, submitting' => submitting \/ req'[s].kind = "add"
  PROVE  FlagsHaveRequest'
<1>1. \A t \in Active : t \in Active' /\ req'[t].kind = req[t].kind
  BY DEF Active
<1>2. s \in Active'
  BY DEF Active
<1>3. QED
  BY <1>1, <1>2 DEF FlagsHaveRequest

\* A request that is sent preserves the inductive invariant.
LEMMA SendStep ==
  ASSUME IInv, NEW s \in Slot, (\E a \in App : SubmitAdd(s, a)) \/ ClickRemove(s)
  PROVE  IInv'
<1>1. ASSUME NEW a \in App, SubmitAdd(s, a)
      PROVE  IInv'
  <2>1. Send(s, "add", a) /\ UNCHANGED <<registry, apps, loading, selected, due>>
    BY <1>1 DEF SubmitAdd
  <2>2. /\ req' \in [Slot -> Request \cup {Free}] /\ unsure' \in SUBSET App
        /\ \A t \in Slot \ {s} : (req'[t] = Free <=> req[t] = Free) /\ req'[t].kind = req[t].kind
        /\ req'[s].kind = "add" /\ req'[s] # Free
        /\ InStepInv'
    BY <2>1, SendKeeps
  <2>3. \A t \in Active : req[t].kind # "add"
    BY <1>1 DEF SubmitAdd, IInv, TypeOK
  <2>4. TypeOK'
    BY <1>1, <2>1, <2>2, <2>3 DEF SubmitAdd, IInv, TypeOK, Active
  <2>5. FlagsHaveRequest'
    BY <1>1, <2>1, <2>2, FlagsSurvive DEF IInv, Send
  <2>6. QED
    BY <2>1, <2>2, <2>4, <2>5 DEF IInv, SelectedIsListed, Listed
<1>2. CASE ClickRemove(s)
  <2>1. selected \in App /\ Send(s, "remove", selected)
        /\ UNCHANGED <<registry, apps, loading, selected, due, submitting>>
    BY <1>2 DEF ClickRemove, Controls, IInv, TypeOK
  <2>2. /\ req' \in [Slot -> Request \cup {Free}] /\ unsure' \in SUBSET App
        /\ \A t \in Slot \ {s} : (req'[t] = Free <=> req[t] = Free) /\ req'[t].kind = req[t].kind
        /\ req'[s].kind = "remove" /\ req'[s] # Free
        /\ InStepInv'
    BY <2>1, SendKeeps
  <2>3. TypeOK'
    BY <2>1, <2>2 DEF IInv, TypeOK, Active
  <2>4. FlagsHaveRequest'
    BY <2>1, <2>2, FlagsSurvive DEF IInv, Send
  <2>5. QED
    BY <2>1, <2>2, <2>3, <2>4 DEF IInv, SelectedIsListed, Listed
<1>3. QED
  BY <1>1, <1>2

\* The server acts on a request, or reads the registry for it.
LEMMA ServeStep ==
  ASSUME IInv, NEW s \in Slot, Serve(s)
  PROVE  IInv'
<1> DEFINE read == IF req[s].kind = "list" THEN registry ELSE req[s].apps
<1>1. /\ s \in Active /\ req[s] \in Request /\ ~req[s].served
      /\ req' = [req EXCEPT ![s] = [req[s] EXCEPT !.served = TRUE, !.apps = read]]
      /\ UNCHANGED <<apps, loading, selected, due, submitting, unsure>>
  BY DEF Serve, Active, IInv, TypeOK
<1>2. /\ req[s].kind = "list" => registry' = registry
      /\ req[s].kind = "add" => registry' = registry \cup req[s].apps
      /\ req[s].kind = "remove" => registry' = registry \ req[s].apps
      /\ registry' \in SUBSET App
  BY <1>1 DEF Serve, IInv, TypeOK, Request
<1>3. /\ req' \in [Slot -> Request \cup {Free}]
      /\ req'[s].kind = req[s].kind /\ req'[s].served = TRUE /\ req'[s].apps = read
      /\ req'[s].alone = req[s].alone /\ req'[s] # Free
      /\ \A t \in Slot \ {s} : req'[t] = req[t]
  BY <1>1 DEF IInv, TypeOK, Request, Free
<1>4. Active' = Active
  BY <1>1, <1>3 DEF Active
<1>5. TypeOK' /\ SelectedIsListed' /\ FlagsHaveRequest'
  <2>1. TypeOK' /\ SelectedIsListed'
    BY <1>1, <1>2, <1>3, <1>4 DEF IInv, TypeOK, SelectedIsListed, Listed, Active
  <2>2. \A t \in Active : t \in Active' /\ req'[t].kind = req[t].kind
    BY <1>3, <1>4 DEF Active
  <2>3. QED
    BY <1>1, <2>1, <2>2 DEF IInv, FlagsHaveRequest
<1> USE DEF IInv, InStepInv
<1>6. AboutOne' /\ OverlapIsUnsure'
  BY <1>1, <1>3, <1>4 DEF AboutOne, OverlapIsUnsure, Active
<1>7. AloneStands'
  <2>1. ASSUME NEW t \in Active', req'[t].alone, NEW u \in Active' \ {t}
        PROVE  /\ req'[t].kind # "list" /\ req'[u].kind # "list"
               /\ req'[t].apps \cap req'[u].apps = {}
    BY <1>1, <1>3, <1>4, <2>1 DEF AloneStands, Active
  <2>2. ASSUME NEW t \in Active', req'[t].alone, req'[t].served
        PROVE  /\ req'[t].kind = "list" => req'[t].apps = registry'
               /\ req'[t].kind = "add" => req'[t].apps \subseteq registry'
               /\ req'[t].kind = "remove" => req'[t].apps \cap registry' = {}
    <3>1. CASE t = s
      BY <1>2, <1>3, <3>1
    <3>2. CASE t # s
      <4>1. /\ req'[t] = req[t] /\ t \in Active
            /\ req[t].kind # "list" /\ req[s].kind # "list" /\ req[t].apps \cap req[s].apps = {}
        BY <1>1, <1>3, <1>4, <2>2, <3>2 DEF AloneStands, Active
      <4>2. /\ req[t].kind = "add" => req[t].apps \subseteq registry
            /\ req[t].kind = "remove" => req[t].apps \cap registry = {}
        BY <2>2, <4>1 DEF AloneStands
      <4>3. req[s].kind \in {"add", "remove"}
        BY <1>1, <4>1 DEF Request
      <4>4. QED
        BY <1>2, <4>1, <4>2, <4>3
    <3>3. QED
      BY <3>1, <3>2
  <2>3. QED
    BY <2>1, <2>2 DEF AloneStands
<1>8. ListStands'
  <2>1. ASSUME NEW t \in Active', req'[t].kind = "list", NEW u \in Active' \ {t}
        PROVE  req'[u].kind # "list" /\ req'[u].apps \subseteq unsure'
    BY <1>1, <1>3, <1>4, <2>1 DEF ListStands, Active
  <2>2. ASSUME NEW t \in Active', req'[t].kind = "list", req'[t].served,
               NEW a \in App \ unsure'
        PROVE  a \in req'[t].apps <=> a \in registry'
    <3>1. CASE t = s
      BY <1>2, <1>3, <2>2, <3>1
    <3>2. CASE t # s
      <4>1. req'[t] = req[t] /\ t \in Active /\ req[s].kind # "list" /\ a \notin req[s].apps
        BY <1>1, <1>3, <1>4, <2>2, <3>2 DEF ListStands, Active
      <4>2. a \in req[t].apps <=> a \in registry
        BY <1>1, <2>2, <4>1 DEF ListStands
      <4>3. req[s].kind \in {"add", "remove"}
        BY <1>1, <4>1 DEF Request
      <4>4. QED
        BY <1>2, <4>1, <4>2, <4>3
    <3>3. QED
      BY <3>1, <3>2
  <2>3. QED
    BY <2>1, <2>2 DEF ListStands
<1>9. Agree'
  <2>1. SUFFICES ASSUME NEW a \in App \ unsure,
                        \A t \in About(a)' : req'[t].kind # "list" /\ ~req'[t].served
                 PROVE  a \in apps <=> a \in registry'
    BY <1>1 DEF Agree
  <2>2. s \notin About(a)' /\ req[s].kind \in {"add", "remove"} /\ a \notin req[s].apps
    BY <1>1, <1>3, <1>4, <2>1 DEF About, Request
  <2>3. \A t \in About(a) : t \in About(a)' /\ req'[t] = req[t]
    BY <1>3, <1>4, <2>2 DEF About, Active
  <2>4. QED
    BY <1>1, <1>2, <2>1, <2>2, <2>3 DEF Agree
<1>10. QED
  BY <1>5, <1>6, <1>7, <1>8, <1>9

\* What an answer, a refusal or a loss has to see to: that the two sides agree
\* about the apps it leaves sure.
LEMMA EndKeeps ==
  ASSUME IInv, NEW s \in Active, Over(s), registry' = registry,
         apps' \in SUBSET App, unsure' \in SUBSET App,
         unsure \subseteq unsure' \/ (req[s].alone /\ unsure \ unsure' \subseteq req[s].apps),
         \A a \in App \ unsure' :
           (\A t \in About(a) \ {s} : req[t].kind # "list" /\ ~req[t].served) =>
             (a \in apps' <=> a \in registry)
  PROVE  InStepInv'
<1>1. /\ Active' = Active \ {s}
      /\ \A t \in Active \ {s} : req'[t] = req[t]
  BY OverKeeps
<1>2. InStepInv
  BY DEF IInv
<1>3. AboutOne' /\ AloneStands'
  BY <1>1, <1>2 DEF InStepInv, AboutOne, AloneStands
<1>4. OverlapIsUnsure'
  <2>1. ASSUME NEW t \in Active \ {s}, ~req[t].alone, req[t].kind # "list"
        PROVE  req[t].apps \subseteq unsure'
    <3>1. req[t].apps \subseteq unsure
      BY <1>2, <2>1 DEF InStepInv, OverlapIsUnsure
    <3>2. req[s].alone => req[t].apps \cap req[s].apps = {}
      BY <1>2, <2>1 DEF InStepInv, AloneStands
    <3>3. QED
      BY <3>1, <3>2
  <2>2. QED
    BY <1>1, <2>1 DEF OverlapIsUnsure
<1>5. ListStands'
  <2>1. ASSUME NEW t \in Active \ {s}, req[t].kind = "list"
        PROVE  unsure \subseteq unsure'
    BY <1>2, <2>1 DEF InStepInv, AloneStands
  <2>2. QED
    BY <1>1, <1>2, <2>1 DEF InStepInv, ListStands
<1>6. Agree'
  <2>1. SUFFICES ASSUME NEW a \in App \ unsure',
                        \A t \in About(a)' : req'[t].kind # "list" /\ ~req'[t].served
                 PROVE  a \in apps' <=> a \in registry
    BY DEF Agree
  <2>2. \A t \in About(a) \ {s} : t \in About(a)' /\ req'[t] = req[t]
    BY <1>1 DEF About
  <2>3. QED
    BY <2>1, <2>2
<1>7. QED
  BY <1>3, <1>4, <1>5, <1>6 DEF InStepInv

\* Refusals and losses leave the list and the selection alone.
LEMMA FailureStep ==
  ASSUME IInv, NEW s \in Slot, Refuse(s) \/ Lose(s)
  PROVE  IInv'
<1>1. /\ s \in Active /\ Over(s) /\ req[s] \in Request
      /\ UNCHANGED <<registry, apps, selected, due>>
  BY DEF Refuse, Lose, Active, IInv, TypeOK
<1>2. /\ unsure' \in SUBSET App /\ unsure \subseteq unsure'
      /\ req[s].kind = "list" => unsure' = App
      /\ req[s].kind # "list" /\ req[s].served => unsure' = unsure \cup req[s].apps
  BY <1>1 DEF Refuse, Lose, IInv, TypeOK, Request
<1>3. ASSUME NEW a \in App \ unsure',
             \A t \in About(a) \ {s} : req[t].kind # "list" /\ ~req[t].served
      PROVE  a \in apps' <=> a \in registry
  <2>1. req[s].kind # "list" /\ (s \in About(a) => ~req[s].served)
    BY <1>2, <1>3 DEF About
  <2>2. QED
    BY <1>1, <1>2, <1>3, <2>1 DEF IInv, InStepInv, Agree
<1>4. InStepInv'
  BY <1>1, <1>2, <1>3, EndKeeps DEF IInv, TypeOK
<1>5. TypeOK'
  BY <1>1, <1>2, OverKeeps DEF IInv, TypeOK
<1>6. FlagsHaveRequest'
  BY <1>1, OverKeeps
<1>7. QED
  BY <1>1, <1>4, <1>5, <1>6 DEF IInv, SelectedIsListed, Listed

\* An answer changes the list; a selection that is not in it is about to change.
LEMMA ArriveStep ==
  ASSUME IInv, NEW s \in Slot, Arrive(s)
  PROVE  IInv'
<1>1. /\ s \in Active /\ req[s].served /\ Over(s) /\ req[s] \in Request
      /\ registry' = registry /\ apps' = ListedAfter(req[s])
      /\ selected' = selected /\ due' = {Reselected(apps')} \ {selected}
  BY DEF Arrive, Active, IInv, TypeOK
<1>2. /\ req[s].kind = "list" => apps' = req[s].apps
      /\ req[s].kind = "add" => apps' = apps \cup req[s].apps
      /\ req[s].kind = "remove" => apps' = apps \ req[s].apps
      /\ apps' \in SUBSET App
  BY <1>1 DEF ListedAfter, IInv, TypeOK, Request
<1>3. /\ req[s].alone => unsure' = unsure \ req[s].apps
      /\ ~req[s].alone => unsure' = unsure
      /\ unsure' \in SUBSET App
  BY DEF Arrive, IInv, TypeOK
<1>4. ASSUME NEW a \in App \ unsure',
             \A t \in About(a) \ {s} : req[t].kind # "list" /\ ~req[t].served
      PROVE  a \in apps' <=> a \in registry
  <2>1. CASE req[s].kind = "list" /\ req[s].alone
    BY <1>1, <1>2, <2>1 DEF IInv, InStepInv, AloneStands
  <2>2. CASE req[s].kind = "list" /\ ~req[s].alone
    BY <1>1, <1>2, <1>3, <1>4, <2>2 DEF IInv, InStepInv, ListStands
  <2>3. CASE req[s].kind # "list" /\ a \in req[s].apps
    <3>1. req[s].kind \in {"add", "remove"}
      BY <1>1, <2>3 DEF Request
    <3>2. req[s].alone
      BY <1>1, <1>3, <1>4, <2>3 DEF IInv, InStepInv, OverlapIsUnsure
    <3>3. /\ req[s].kind = "add" => a \in registry
          /\ req[s].kind = "remove" => a \notin registry
      BY <1>1, <2>3, <3>2 DEF IInv, InStepInv, AloneStands
    <3>4. QED
      BY <1>2, <2>3, <3>1, <3>3
  <2>4. CASE req[s].kind # "list" /\ a \notin req[s].apps
    <3>1. s \notin About(a) /\ a \notin unsure
      BY <1>3, <1>4, <2>4 DEF About
    <3>2. a \in apps <=> a \in registry
      BY <1>4, <3>1 DEF IInv, InStepInv, Agree
    <3>3. req[s].kind \in {"add", "remove"}
      BY <1>1, <2>4 DEF Request
    <3>4. QED
      BY <1>2, <2>4, <3>2, <3>3
  <2>5. QED
    BY <2>1, <2>2, <2>3, <2>4
<1>5. InStepInv'
  BY <1>1, <1>2, <1>3, <1>4, EndKeeps
<1>6. SelectedIsListed' /\ due' \in SUBSET (App \cup {NoApp})
  BY <1>1, <1>2, ReselectedIsListed DEF SelectedIsListed, Listed
<1>7. TypeOK'
  BY <1>1, <1>2, <1>3, <1>6, OverKeeps DEF IInv, TypeOK
<1>8. FlagsHaveRequest'
  BY <1>1, OverKeeps
<1>9. QED
  BY <1>5, <1>6, <1>7, <1>8 DEF IInv

\* Every step preserves the inductive invariant.
LEMMA StepIInv ==
  ASSUME IInv, [Next]_vars
  PROVE  IInv'
<1>1. ASSUME NEW a \in App, Select(a)
      PROVE  IInv'
  BY <1>1 DEF Select, IInv, InStepInv, TypeOK, SelectedIsListed, Listed, FlagsHaveRequest, AboutOne,
              AloneStands, OverlapIsUnsure, ListStands, Agree, Active, About
<1>2. CASE Correct
  BY <1>2 DEF Correct, IInv, InStepInv, TypeOK, SelectedIsListed, Listed, FlagsHaveRequest, AboutOne,
              AloneStands, OverlapIsUnsure, ListStands, Agree, Active, About
<1>3. CASE UNCHANGED vars
  BY <1>3 DEF vars, IInv, InStepInv, TypeOK, SelectedIsListed, Listed, FlagsHaveRequest, AboutOne,
              AloneStands, OverlapIsUnsure, ListStands, Agree, Active, About
<1>4. QED
  BY <1>1, <1>2, <1>3, SendStep, ServeStep, ArriveStep, FailureStep DEF Next, Requests

\* The inductive invariant holds in every reachable state.
THEOREM Invariance == Spec => []IInv
<1>1. IInv /\ [Next]_vars => IInv'
  BY StepIInv
<1>2. QED
  BY InitIInv, <1>1, PTL DEF Spec

-----------------------------------------------------------------------------

\* The types of the variables, and that the form waits for its one add.
THEOREM Typing == Spec => []TypeOK
<1>1. IInv => TypeOK
  BY DEF IInv
<1>2. QED
  BY Invariance, <1>1, PTL

\* For any number of requests in any order, the page and the server agree about
\* every app whose last request was alone and not lost.
THEOREM PageIsInStep == Spec => []InStep
<1>1. IInv => InStep
  BY DEF IInv, InStepInv, Agree, InStep
<1>2. QED
  BY Invariance, <1>1, PTL

\* For any number of requests and choices in any order, once the effect of the
\* page has run, what is selected is listed, and something is whenever there is a
\* list.
THEOREM SelectionIsListed == Spec => []SelectedIsListed
<1>1. IInv => SelectedIsListed
  BY DEF IInv
<1>2. QED
  BY Invariance, <1>1, PTL

\* The form and the list never wait for a request that is over.
THEOREM FlagsAreFreed == Spec => []FlagsHaveRequest
<1>1. IInv => FlagsHaveRequest
  BY DEF IInv
<1>2. QED
  BY Invariance, <1>1, PTL

-----------------------------------------------------------------------------
(* The page *)

\* A step of the hooks does not move the app list.
THEOREM PageRunsTheList == PageSpec => Spec
<1>1. PageInit => Init
  BY DEF PageInit
<1>2. [PageNext]_pageVars => [Next]_vars
  BY DEF PageNext, ListStep, ChooseApp, ChooseWindow, Correction, RunEffects, HookStep, Next,
         pageVars, vars, listVars
<1>3. QED
  BY <1>1, <1>2, PTL DEF PageSpec, Spec

\* The chosen window is one of the selector.
LEMMA WindowIsChosen == PageSpec => [](hours \in Window)
<1>1. PageInit => hours \in Window
  BY DEF PageInit, Hooks!Init
<1>2. hours \in Window /\ [PageNext]_pageVars => (hours \in Window)'
  BY DEF PageNext, ListStep, ChooseApp, ChooseWindow, Correction, RunEffects, HookStep,
         Hooks!Show, Hooks!ShowNothing, pageVars, hookVars
<1>3. QED
  BY <1>1, <1>2, PTL DEF PageSpec

\* The effects that start over or are emptied are those of the hooks.
LEMMA ShowIsAStep ==
  /\ \A a \in App, h \in Window : Hooks!Show(a, h) => View!Next
  /\ Hooks!ShowNothing => View!Next
<1>1. ASSUME NEW a \in App, NEW h \in Window, Hooks!Show(a, h)
      PROVE  View!Next
  <2>1. View!Show(a, h)
    BY <1>1 DEF Hooks!Show, Hooks!Disarmed, Hooks!StartOf, Hooks!Sent,
                View!Show, View!Disarmed, View!StartOf, View!Sent,
                Hooks!Cardinality, View!Cardinality
  <2>2. QED
    BY <2>1 DEF View!Next
<1>2. Hooks!ShowNothing => View!Next
  BY DEF Hooks!ShowNothing, Hooks!Disarmed, Hooks!Nothing,
         View!Next, View!ShowNothing, View!Disarmed, View!Nothing
<1>3. QED
  BY <1>1, <1>2

\* The actions of the two instances are the same.
LEMMA HookActions ==
  ASSUME Hooks!Next, viewed' = viewed, hours' = hours
  PROVE  View!Next
<1>1. ASSUME NEW a \in App, Hooks!Store(a)
      PROVE  View!Next
  BY <1>1 DEF Hooks!Store, View!Store, View!Next
<1>2. ASSUME NEW k \in Hook, Hooks!Refresh(k)
      PROVE  View!Next
  <2>1. View!Refresh(k)
    BY <1>2 DEF Hooks!Refresh, Hooks!StartOf, Hooks!Sent, Hooks!Cardinality,
                View!Refresh, View!StartOf, View!Sent, View!Cardinality
  <2>2. QED
    BY <2>1 DEF View!Next
<1>3. ASSUME NEW f \in inFlight, Hooks!Answer(f) \/ Hooks!Arrive(f) \/ Hooks!Fail(f)
      PROVE  View!Next
  <2>1. View!Answer(f) \/ View!Arrive(f) \/ View!Fail(f)
    BY <1>3 DEF Hooks!Answer, Hooks!Arrive, Hooks!Fail, Hooks!LoadingAfter, Hooks!Sent,
                View!Answer, View!Arrive, View!Fail, View!LoadingAfter, View!Sent
  <2>2. QED
    BY <2>1 DEF View!Next
<1>4. ASSUME NEW a \in App, NEW h \in Window
      PROVE  ~Hooks!Show(a, h) /\ ~Hooks!ShowNothing
  BY DEF Hooks!Show, Hooks!ShowNothing
<1>5. QED
  BY <1>1, <1>2, <1>3, <1>4 DEF Hooks!Next, Hooks!ShowNothing

\* With the frames between a render and its effects, what the hooks do is what
\* ReviewsView says of the selection that their effects ran for last.
THEOREM PageRunsTheHooks == PageSpec => View!Spec
<1>1. PageInit => View!Init
  BY DEF PageInit, Hooks!Init, View!Init, Hooks!Nothing, View!Nothing, Hooks!Version, View!Version
<1>2. ASSUME TypeOK, hours \in Window, [PageNext]_pageVars
      PROVE  [View!Next]_View!vars
  <2>1. CASE ListStep \/ Correction \/ UNCHANGED pageVars
    BY <2>1 DEF ListStep, Correction, pageVars, hookVars, View!vars
  <2>2. ASSUME NEW a \in App, ChooseApp(a)
        PROVE  View!Next
    BY <1>2, <2>2, ShowIsAStep DEF ChooseApp
  <2>3. ASSUME NEW h \in Window, ChooseWindow(h)
        PROVE  View!Next
    <3>1. selected \in App /\ Hooks!Show(selected, h)
      BY <1>2, <2>3 DEF TypeOK, ChooseWindow, Controls
    <3>2. QED
      BY <3>1, ShowIsAStep
  <2>4. CASE RunEffects
    <3>1. selected = NoApp \/ selected \in App
      BY <1>2 DEF TypeOK
    <3>2. QED
      BY <1>2, <2>4, <3>1, ShowIsAStep, AppAssumption DEF RunEffects
  <2>5. CASE HookStep
    BY <2>5, HookActions DEF HookStep
  <2>6. QED
    BY <1>2, <2>1, <2>2, <2>3, <2>4, <2>5 DEF PageNext
<1>3. QED
  BY <1>1, <1>2, PageRunsTheList, Typing, WindowIsChosen, PTL DEF PageSpec, View!Spec

-----------------------------------------------------------------------------

\* Once the effects have run, the banner is that of the selected app, what is shown
\* under it is its own as soon as it is loaded, and nothing is shown without one.
THEOREM BannerAndReviewsAgree == PageSpec => []ShownIsListed
<1>1. PageSpec => []SelectedIsListed
  BY PageRunsTheList, SelectionIsListed, PTL
<1>2. View!Spec => []View!SettledIsSelected
  BY View!SettledShowsSelected, AppAssumption, PageAssumption
<1>3. View!Spec => []View!EmptyWithoutApp
  BY View!NothingWithoutApp, AppAssumption, PageAssumption
<1>4. SelectedIsListed /\ View!SettledIsSelected /\ View!EmptyWithoutApp => ShownIsListed
  BY AppAssumption
     DEF SelectedIsListed, Listed, View!SettledIsSelected, View!EmptyWithoutApp, ShownIsListed, Controls,
         Banner, View!Nothing, Hooks!Nothing, View!IsOf, Hooks!IsOf
<1>5. QED
  BY <1>1, <1>2, <1>3, <1>4, PageRunsTheHooks, PTL
===============================================================================
