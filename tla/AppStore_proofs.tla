---------------------------- MODULE AppStore_proofs ----------------------------
(***************************************************************************)
(* Proofs about AppStore, for any apps, seeds and writers.                 *)
(***************************************************************************)
EXTENDS AppStore, TLAPS

\* A call in progress writes the seed, alone, or holds writeMu and changes one
\* app of the registry in memory; once renamed, its file is in place.
Inside(w) ==
  LET c == call[w] IN
  /\ up = "seeding" =>
       /\ c.data \in Seeds
       /\ \A v \in Writer : v # w => call[v] = Idle
       /\ c.step \in {"begin", "written", "synced"} => Disk = Absent
  /\ up = "up" =>
       /\ writeMu = w
       /\ OneApp(reg, c.data)
  /\ c.step \in {"renamed", "flushed"} => Disk = Whole(c.data)
  /\ c.step = "flushed" /\ DirOpens => onReboot[RegistryFile] = {Whole(c.data)}

\* The inductive invariant.
IInv ==
  /\ TypeOK
  /\ Disk \in onReboot[RegistryFile]
  /\ Torn \notin onReboot[RegistryFile]
  /\ up = "down" => \A w \in Writer : call[w] = Idle
  /\ \A w \in Writer : call[w] # Idle => Inside(w)

\* The initial states satisfy the inductive invariant.
LEMMA InitIInv == Init => IInv
<1> SUFFICES ASSUME Init
             PROVE  IInv
  OBVIOUS
<1>1. Absent \in FileOf(Registry) /\ Absent # Torn
  BY DEF FileOf, Absent, Torn
<1>2. NoApps \in Registry
  BY DEF NoApps, Registry
<1>3. TypeOK
  BY <1>1, <1>2 DEF Init, TypeOK, CallOf, Nothing
<1>4. QED
  BY <1>1, <1>3 DEF Init, IInv, Disk

\* The types of the history variables.
HistoryOK ==
  /\ acked \in SUBSET Registry
  /\ asked \in [App -> SUBSET (Meta \cup {NotTracked})]

\* Every step preserves them.
LEMMA StepHistory ==
  ASSUME TypeOK, [Next]_vars
  PROVE  HistoryOK'
<1> USE DEF TypeOK, HistoryOK
<1>1. CASE history' = history
  BY <1>1 DEF history
<1>2. ASSUME NEW w \in Writer, SeedCommit(w) \/ Commit(w)
      PROVE  HistoryOK'
  <2>1. call[w].data \in Registry
    BY <1>2 DEF SeedCommit, Commit, At, Idle, CallOf
  <2>2. QED
    BY <1>2, <2>1 DEF SeedCommit, Commit, Acknowledge, Nothing
<1>3. ASSUME NEW w \in Writer, NEW a \in App,
             RemoveDiff(w, a) \/ \E m \in Meta : AddDiff(w, a, m)
      PROVE  HistoryOK'
  <2>1. PICK next \in Registry : Lock(w, next)
    BY <1>3 DEF RemoveDiff, AddDiff, With, Without, Registry
  <2>2. QED
    BY <2>1 DEF Lock, AskedToo, Registry
<1>4. CASE GiveUp
  BY <1>4 DEF GiveUp
<1>5. QED
  BY <1>1, <1>2, <1>3, <1>4 DEF Next, BootLoad, BootSeed, SeedError, Write, Error, Down, vars

\* A call that starts from a quiet store with the map next to write.
LEMMA StartIInv ==
  ASSUME IInv, NEW w \in Writer, NEW next \in Registry,
         \A v \in Writer : call[v] = Idle,
         call' = [call EXCEPT ![w] = Begin(RegistryFile, next)],
         UNCHANGED <<reg, file, onReboot>>, HistoryOK',
         \/ up' = "seeding" /\ writeMu' = writeMu /\ next \in Seeds /\ Disk = Absent
         \/ up' = "up" /\ writeMu' = w /\ OneApp(reg, next)
  PROVE  IInv'
<1> USE DEF IInv, TypeOK, HistoryOK
<1>1. /\ call' \in [Writer -> CallOf(Registry)]
      /\ call'[w] = Begin(RegistryFile, next)
      /\ \A v \in Writer : v # w => call'[v] = Idle
  BY DEF CallOf, Begin, Step
<1>2. Inside(w)'
  BY <1>1 DEF Inside, Begin, Disk
<1>3. \A v \in Writer : call'[v] # Idle => Inside(v)'
  BY <1>1, <1>2
<1>4. TypeOK'
  BY <1>1
<1>5. QED
  BY <1>3, <1>4 DEF Disk

\* Every step preserves the inductive invariant.
LEMMA StepIInv == IInv /\ [Next]_vars => IInv'
<1> SUFFICES ASSUME IInv, [Next]_vars
             PROVE  IInv'
  OBVIOUS
<1> USE DEF IInv, TypeOK
<1>0. HistoryOK'
  BY StepHistory
<1> USE <1>0 DEF HistoryOK
<1>1. CASE BootLoad
  <2>1. reg' \in Registry
    BY <1>1 DEF BootLoad, Disk, Readable, FileOf, Whole, Absent, Torn
  <2>2. QED
    BY <1>1, <2>1 DEF BootLoad, Disk
<1>2. ASSUME NEW w \in Writer, NEW s \in Seeds, BootSeed(w, s)
      PROVE  IInv'
  BY <1>2, StartIInv, SeedsAssumption DEF BootSeed
<1>3. ASSUME NEW w \in Writer, SeedCommit(w) \/ Commit(w)
      PROVE  IInv'
  <2>1. /\ call[w] \in [step : Step, path : {RegistryFile}, data : Registry]
        /\ Inside(w)
        /\ \A v \in Writer : v # w => call[v] = Idle
    BY <1>3 DEF SeedCommit, Commit, At, Idle, CallOf, Inside
  <2>2. /\ reg' = call[w].data
        /\ up' = "up"
        /\ writeMu' \in {writeMu, NoWriter}
        /\ call' = [call EXCEPT ![w] = Idle]
        /\ UNCHANGED <<file, onReboot>>
    BY <1>3 DEF SeedCommit, Commit
  <2>3. \A v \in Writer : call'[v] = Idle
    BY <2>1, <2>2
  <2>4. call' \in [Writer -> CallOf(Registry)]
    BY <2>2 DEF CallOf
  <2>5. QED
    BY <2>1, <2>2, <2>3, <2>4 DEF Disk
<1>4. ASSUME NEW w \in Writer, SeedError(w) \/ Error(w)
      PROVE  IInv'
  <2>1. call' = [call EXCEPT ![w] = Idle] /\ call[w] # Idle
    BY <1>4 DEF SeedError, Error, WriteFails, FailEarly, FailLate, At, Idle
  <2>2. /\ UNCHANGED <<reg, file, onReboot>>
        /\ up' \in {"down", "up"}
        /\ writeMu' \in {writeMu, NoWriter}
    BY <1>4 DEF SeedError, Error, WriteFails, FailEarly, FailLate
  <2>3. \A v \in Writer : call'[v] = Idle
    BY <1>4, <2>1 DEF SeedError, Error, Inside
  <2>4. call' \in [Writer -> CallOf(Registry)]
    BY <2>1 DEF CallOf
  <2>5. QED
    BY <2>2, <2>3, <2>4 DEF Disk
<1>5. ASSUME NEW w \in Writer, NEW a \in App, NEW m \in Meta, AddDiff(w, a, m)
      PROVE  IInv'
  <2>1. /\ With(reg, a, m) \in Registry
        /\ OneApp(reg, With(reg, a, m))
    BY <1>5 DEF AddDiff, With, Registry, OneApp
  <2>2. \A v \in Writer : call[v] = Idle
    BY <1>5, WriterAssumption DEF AddDiff, Lock
  <2>3. QED
    BY <1>5, <2>1, <2>2, StartIInv DEF AddDiff, Lock
<1>6. ASSUME NEW w \in Writer, NEW a \in App, RemoveDiff(w, a)
      PROVE  IInv'
  <2>1. /\ Without(reg, a) \in Registry
        /\ OneApp(reg, Without(reg, a))
    BY <1>6 DEF RemoveDiff, Without, Registry, OneApp
  <2>2. \A v \in Writer : call[v] = Idle
    BY <1>6, WriterAssumption DEF RemoveDiff, Lock
  <2>3. QED
    BY <1>6, <2>1, <2>2, StartIInv DEF RemoveDiff, Lock
<1>7. ASSUME NEW w \in Writer, Write(w)
      PROVE  IInv'
  <2> DEFINE c == call[w]
  <2>1. /\ c \in [step : Step, path : {RegistryFile}, data : Registry]
        /\ c # Idle
        /\ Inside(w)
        /\ \A v \in Writer : v # w => call[v] = Idle
    BY <1>7 DEF Write, DiskStep, WriteTemp, SyncTemp, RenameTemp, FsyncDir, At, Idle, CallOf, Inside
  <2>2. UNCHANGED <<up, reg, writeMu>>
    BY <1>7 DEF Write
  <2>3. ASSUME NEW s \in Step, Advance(w, s)
        PROVE  /\ call' \in [Writer -> CallOf(Registry)]
               /\ call'[w] = [step |-> s, path |-> RegistryFile, data |-> c.data]
               /\ \A v \in Writer : v # w => call'[v] = Idle
    BY <2>1, <2>3 DEF Advance, CallOf
  <2>4. ASSUME NEW s \in Step, Advance(w, s), Inside(w)',
               Disk' \in onReboot'[RegistryFile], Torn \notin onReboot'[RegistryFile],
               file' \in [{RegistryFile} -> FileOf(Registry)],
               onReboot' \in [{RegistryFile} -> SUBSET FileOf(Registry)]
        PROVE  IInv'
    <3>1. /\ call' \in [Writer -> CallOf(Registry)]
          /\ \A v \in Writer : v # w => call'[v] = Idle
      BY <2>3, <2>4
    <3>2. \A v \in Writer : call'[v] # Idle => Inside(v)'
      BY <2>4, <3>1
    <3>3. up # "down"
      BY <2>1
    <3>4. QED
      BY <2>1, <2>2, <2>4, <3>1, <3>2, <3>3
  <2>5. CASE WriteTemp(w) \/ SyncTemp(w)
    <3>1. PICK s \in {"written", "synced"} : Advance(w, s)
      BY <2>5 DEF WriteTemp, SyncTemp
    <3>2. /\ s \in Step
          /\ UNCHANGED <<file, onReboot>>
          /\ c.step \in {"begin", "written", "synced"}
      BY <2>5 DEF Step, WriteTemp, SyncTemp, At
    <3>3. call'[w] = [step |-> s, path |-> RegistryFile, data |-> c.data]
      BY <2>3, <3>1, <3>2
    <3>4. \A v \in Writer : v # w => call'[v] = Idle
      BY <2>3, <3>1, <3>2
    <3>5. Inside(w)'
      BY <2>1, <2>2, <3>1, <3>2, <3>3, <3>4 DEF Inside, Disk
    <3>6. QED
      BY <2>4, <3>1, <3>2, <3>5 DEF Disk
  <2>6. CASE RenameTemp(w)
    <3>1. /\ file' = [file EXCEPT ![RegistryFile] = Whole(c.data)]
          /\ onReboot' = [onReboot EXCEPT ![RegistryFile] = @ \cup {Whole(c.data)}]
          /\ Advance(w, "renamed")
      BY <2>1, <2>6 DEF RenameTemp, RenameOver, Landing, At
    <3>2. Whole(c.data) \in FileOf(Registry) /\ Whole(c.data) # Torn
      BY <2>1 DEF FileOf, Whole, Torn
    <3>3. /\ call'[w] = [step |-> "renamed", path |-> RegistryFile, data |-> c.data]
          /\ \A v \in Writer : v # w => call'[v] = Idle
      BY <2>3, <3>1 DEF Step
    <3>4. Disk' = Whole(c.data)
      BY <3>1 DEF Disk
    <3>5. Inside(w)'
      BY <2>1, <2>2, <3>3, <3>4 DEF Inside
    <3>6. /\ file' \in [{RegistryFile} -> FileOf(Registry)]
          /\ onReboot' \in [{RegistryFile} -> SUBSET FileOf(Registry)]
          /\ Disk' \in onReboot'[RegistryFile]
          /\ Torn \notin onReboot'[RegistryFile]
      BY <3>1, <3>2, <3>4
    <3>7. QED
      BY <2>4, <3>1, <3>5, <3>6 DEF Step
  <2>7. CASE FsyncDir(w)
    <3>1. /\ c.step = "renamed"
          /\ onReboot' = IF DirOpens THEN [p \in {RegistryFile} |-> {file[p]}] ELSE onReboot
          /\ Advance(w, "flushed")
          /\ file' = file
      BY <2>7 DEF FsyncDir, At
    <3>2. /\ call'[w] = [step |-> "flushed", path |-> RegistryFile, data |-> c.data]
          /\ \A v \in Writer : v # w => call'[v] = Idle
      BY <2>3, <3>1 DEF Step
    <3>3. Inside(w)'
      BY <2>1, <2>2, <3>1, <3>2 DEF Inside, Disk
    <3>4. /\ onReboot' \in [{RegistryFile} -> SUBSET FileOf(Registry)]
          /\ Disk' \in onReboot'[RegistryFile]
          /\ Torn \notin onReboot'[RegistryFile]
      BY <3>1 DEF Disk
    <3>5. QED
      BY <2>4, <3>1, <3>3, <3>4 DEF Step
  <2>8. QED
    BY <1>7, <2>5, <2>6, <2>7 DEF Write, DiskStep
<1>8. CASE Down
  <2>1. /\ call' = [w \in Writer |-> Idle]
        /\ up' = "down"
        /\ writeMu' = NoWriter
        /\ reg' = reg
    BY <1>8 DEF Down, Crash, Kill, PowerLoss
  <2>2. /\ file'[RegistryFile] \in onReboot'[RegistryFile]
        /\ onReboot'[RegistryFile] \subseteq onReboot[RegistryFile]
    BY <1>8 DEF Down, Crash, Kill, PowerLoss, Disk
  <2>3. /\ file' \in [{RegistryFile} -> FileOf(Registry)]
        /\ onReboot' \in [{RegistryFile} -> SUBSET FileOf(Registry)]
    BY <1>8, <2>2 DEF Down, Crash, Kill, PowerLoss
  <2>4. QED
    BY <2>1, <2>2, <2>3 DEF CallOf, Disk
<1>9. CASE UNCHANGED vars
  BY <1>9 DEF vars, Inside, Disk
<1>10. QED
  BY <1>1, <1>2, <1>3, <1>4, <1>5, <1>6, <1>7, <1>8, <1>9 DEF Next

\* The inductive invariant holds in every reachable state.
THEOREM Invariance == Spec => []IInv
BY InitIInv, StepIInv, PTL DEF Spec

\* The variables keep their types, and no two changes of the registry overlap.
THEOREM Typing == Spec => []TypeOK
<1>1. IInv => TypeOK
  BY DEF IInv
<1>2. QED
  BY <1>1, Invariance, PTL

-----------------------------------------------------------------------------
(* What the user was told *)

\* Every registry that is in memory, on its way to the disk, or may be found
\* there after a crash keeps what was acknowledged; the registry in memory may
\* be found there until a call has replaced it; and a file is missing only where
\* nothing was acknowledged, as it is while a seed is written.
Kept ==
  /\ SeededOnce
  /\ up = "seeding" => acked = {}
  /\ \A f \in onReboot[RegistryFile] : f.kind = "whole" => Survives(f.data)
  /\ up = "up" => Survives(reg)
  /\ up = "up" => \/ Whole(reg) \in onReboot[RegistryFile]
                  \/ \E w \in Writer : call[w].step = "flushed"
  /\ \A w \in Writer : call[w] # Idle => Survives(call[w].data)

\* What a step does to a registry that kept what was acknowledged: it still does
\* when more is asked for, and when a call is given up if it may be on the disk.
LEMMA StillSurvives ==
  ASSUME TypeOK, NEW r \in Registry, Survives(r), acked' = acked
  PROVE  /\ asked' = asked => Survives(r)'
         /\ (\A a \in App : asked[a] \subseteq asked'[a]) => Survives(r)'
         /\ GiveUp /\ Whole(r) \in onReboot'[RegistryFile] => Survives(r)'
<1>1. PICK s \in (IF acked = {} THEN Seeds ELSE acked) :
        \A a \in App : r[a] \in {s[a]} \cup asked[a]
  BY DEF Survives
<1>2. ASSUME \A a \in App : r[a] \in {s[a]} \cup asked'[a]
      PROVE  Survives(r)'
  BY <1>1, <1>2 DEF Survives
<1>3. ASSUME GiveUp, Whole(r) \in onReboot'[RegistryFile]
      PROVE  \A a \in App : r[a] \in {s[a]} \cup asked'[a]
  <2>1. Whole(r).kind = "whole" /\ Whole(r).data = r
    BY DEF Whole
  <2>2. ASSUME NEW a \in App, r[a] \in asked[a]
        PROVE  r[a] \in asked'[a]
    BY <1>3, <2>1, <2>2 DEF GiveUp
  <2>3. QED
    BY <1>1, <2>2
<1>4. QED
  BY <1>1, <1>2, <1>3

\* It holds at first.
LEMMA InitKept == Init => Kept
BY DEF Init, Kept, SeededOnce, Absent

\* Every step preserves it, where the directory can be flushed.
LEMMA StepKept ==
  ASSUME DirOpens, IInv, Kept, [Next]_vars
  PROVE  Kept'
<1> USE DEF IInv, TypeOK, SeededOnce
<1> DEFINE F == onReboot[RegistryFile]
<1>1. \A d : Whole(d) # Absent /\ Whole(d).kind = "whole" /\ Whole(d).data = d
  BY DEF Whole, Absent
<1>2. \A f \in F : f.kind = "whole" => f.data \in Registry /\ f = Whole(f.data)
  BY DEF FileOf, Whole, Absent, Torn
<1>3. \A w \in Writer : call[w] # Idle => call[w].data \in Registry
  BY DEF CallOf
<1>4. CASE BootLoad
  <2>1. Disk \in F /\ Disk.kind = "whole" /\ Disk = Whole(Disk.data)
    BY <1>2, <1>4 DEF BootLoad, Readable
  <2>2. Survives(Disk.data)
    BY <2>1 DEF Kept
  <2>3. UNCHANGED <<onReboot, call, acked, asked>> /\ up' = "up" /\ reg' = Disk.data
    BY <1>4 DEF BootLoad, history
  <2>4. QED
    BY <2>1, <2>2, <2>3 DEF Kept, Survives
<1>5. ASSUME NEW w \in Writer, NEW s \in Seeds, BootSeed(w, s)
      PROVE  Kept'
  <2>1. acked = {}
    BY <1>5 DEF BootSeed, Kept
  <2>2. Survives(s)
    BY <2>1 DEF Survives
  <2>3. /\ UNCHANGED <<onReboot, acked, asked>> /\ up' = "seeding"
        /\ \A v \in Writer : v # w => call'[v] = Idle
        /\ call'[w].data = s
    BY <1>5 DEF BootSeed, history, Begin
  <2>4. QED
    BY <2>1, <2>2, <2>3 DEF Kept, Survives
<1>6. ASSUME NEW w \in Writer, SeedCommit(w) \/ Commit(w)
      PROVE  Kept'
  <2>1. /\ Inside(w)
        /\ call[w].step = "flushed"
        /\ call[w].data \in Registry
        /\ \A v \in Writer : v # w => call[v] = Idle
    BY <1>6, <1>3 DEF SeedCommit, Commit, At, Idle, Inside
  <2>2. /\ F = {Whole(reg')}
        /\ onReboot' = onReboot
        /\ up' = "up"
        /\ acked' = {reg'}
        /\ \A v \in Writer : call'[v] = Idle
    BY <1>6, <2>1 DEF SeedCommit, Commit, Acknowledge, Inside
  <2>3. Survives(reg)'
    BY <2>2 DEF Survives
  <2>4. \A f \in onReboot'[RegistryFile] : f # Absent /\ f.data = reg'
    BY <1>1, <2>2
  <2>5. QED
    BY <2>2, <2>3, <2>4 DEF Kept, Survives
<1>7. ASSUME NEW w \in Writer, NEW a \in App,
             RemoveDiff(w, a) \/ \E m \in Meta : AddDiff(w, a, m)
      PROVE  Kept'
  <2>1. PICK next \in Registry : Lock(w, next)
    BY <1>7 DEF RemoveDiff, AddDiff, With, Without, Registry
  <2>2. /\ UNCHANGED <<up, reg, onReboot, acked>> /\ up = "up"
        /\ asked' = AskedToo(next)
        /\ call' = [call EXCEPT ![w] = Begin(RegistryFile, next)]
        /\ \A v \in Writer : call[v] = Idle
    BY <2>1, WriterAssumption DEF Lock
  <2>3. \A b \in App : asked[b] \subseteq asked'[b]
    BY <2>2 DEF AskedToo
  <2>4. \A r \in Registry : Survives(r) => Survives(r)'
    BY <2>2, <2>3, StillSurvives
  <2>5. Survives(reg)'
    BY <2>2, <2>4 DEF Kept
  <2>6. Survives(next)'
    <3>1. PICK s \in (IF acked = {} THEN Seeds ELSE acked) :
            \A b \in App : reg[b] \in {s[b]} \cup asked[b]
      BY <2>2 DEF Kept, Survives
    <3>2. \A b \in App : next[b] \in {s[b]} \cup asked'[b]
      BY <2>2, <3>1 DEF AskedToo
    <3>3. QED
      BY <2>2, <3>1, <3>2 DEF Survives
  <2>7. \A f \in onReboot'[RegistryFile] : f.kind = "whole" => Survives(f.data)'
    BY <1>2, <2>2, <2>4 DEF Kept
  <2>8. \A v \in Writer : call'[v] # Idle => Survives(call[v].data)'
    BY <2>2, <2>6 DEF Begin
  <2>9. Whole(reg) \in F
    BY <2>2 DEF Kept, Idle
  <2>10. QED
    BY <2>2, <2>5, <2>7, <2>8, <2>9 DEF Kept
<1>8. ASSUME NEW w \in Writer, Write(w)
      PROVE  Kept'
  <2>1. /\ call[w] # Idle
        /\ Inside(w)
        /\ call[w] \in [step : Step, path : {RegistryFile}, data : Registry]
        /\ \A v \in Writer : v # w => call[v] = Idle
        /\ UNCHANGED <<up, reg, acked, asked>>
    BY <1>8 DEF Write, DiskStep, WriteTemp, SyncTemp, RenameTemp, FsyncDir, At, Idle, CallOf,
                Inside, history
  <2>2. /\ \A v \in Writer : v # w => call'[v] = Idle
        /\ call'[w].data = call[w].data
    BY <1>8, <2>1 DEF Write, DiskStep, WriteTemp, SyncTemp, RenameTemp, RenameOver, FsyncDir, Advance
  <2>3. \A r : Survives(r)' <=> Survives(r)
    BY <2>1 DEF Survives
  <2>4. Survives(call[w].data)
    BY <2>1 DEF Kept
  <2>5. CASE RenameTemp(w)
    <3>1. onReboot'[RegistryFile] = F \cup {Whole(call[w].data)} /\ call[w].step = "synced"
      BY <2>1, <2>5 DEF RenameTemp, RenameOver, Landing, At
    <3>2. \A f \in onReboot'[RegistryFile] : f.kind = "whole" => Survives(f.data)
      BY <1>1, <2>4, <3>1 DEF Kept
    <3>3. \A v \in Writer : call[v].step # "flushed"
      BY <2>1, <3>1 DEF Idle
    <3>4. Absent \in onReboot'[RegistryFile] => Absent \in F
      BY <1>1, <3>1
    <3>5. QED
      BY <2>1, <2>2, <2>3, <2>4, <3>1, <3>2, <3>3, <3>4 DEF Kept
  <2>6. CASE WriteTemp(w) \/ SyncTemp(w)
    <3>1. onReboot' = onReboot
      BY <2>6 DEF WriteTemp, SyncTemp
    <3>2. \A v \in Writer : call[v].step # "flushed"
      BY <2>1, <2>6 DEF Idle, WriteTemp, SyncTemp, At
    <3>3. QED
      BY <2>1, <2>2, <2>3, <2>4, <3>1, <3>2 DEF Kept
  <2>7. CASE FsyncDir(w)
    <3>1. onReboot'[RegistryFile] \subseteq F
      BY <2>7 DEF FsyncDir, Disk
    <3>2. call'[w].step = "flushed"
      BY <2>1, <2>7 DEF FsyncDir, Advance
    <3>3. QED
      BY <2>1, <2>2, <2>3, <2>4, <3>1, <3>2 DEF Kept
  <2>8. QED
    BY <1>8, <2>5, <2>6, <2>7 DEF Write, DiskStep
<1>9. ASSUME NEW w \in Writer, SeedError(w)
      PROVE  Kept'
  <2>1. /\ UNCHANGED <<onReboot, acked, asked>> /\ up' = "down"
        /\ \A v \in Writer : call'[v] # Idle => call'[v] = call[v]
    BY <1>9 DEF SeedError, WriteFails, FailEarly, FailLate, history
  <2>2. QED
    BY <2>1 DEF Kept, Survives
<1>10. ASSUME GiveUp, onReboot'[RegistryFile] \subseteq F, \A v \in Writer : call'[v] = Idle
       PROVE  \A f \in onReboot'[RegistryFile] : f.kind = "whole" => Survives(f.data)'
  <2>1. acked' = acked
    BY <1>10 DEF GiveUp
  <2>2. QED
    BY <1>2, <1>10, <2>1, StillSurvives DEF Kept
<1>11. ASSUME NEW w \in Writer, Error(w)
       PROVE  Kept'
  <2>1. /\ GiveUp /\ up = "up" /\ acked' = acked
        /\ UNCHANGED <<up, reg, onReboot>>
        /\ call[w] # Idle /\ call[w].step # "flushed"
        /\ call' = [call EXCEPT ![w] = Idle]
    BY <1>11 DEF Error, WriteFails, FailEarly, FailLate, GiveUp, Idle, At
  <2>2. \A v \in Writer : v # w => call[v] = Idle
    BY <2>1 DEF Inside
  <2>3. Whole(reg) \in F
    BY <2>1, <2>2 DEF Kept, Idle
  <2>4. Survives(reg)'
    BY <2>1, <2>3, StillSurvives DEF Kept
  <2>5. \A v \in Writer : call'[v] = Idle
    BY <2>1, <2>2
  <2>6. QED
    BY <1>10, <2>1, <2>3, <2>4, <2>5 DEF Kept
<1>12. CASE Down
  <2>1. /\ GiveUp /\ acked' = acked /\ up' = "down"
        /\ onReboot'[RegistryFile] \subseteq F
        /\ \A v \in Writer : call'[v] = Idle
    BY <1>12 DEF Down, Crash, Kill, PowerLoss, GiveUp
  <2>2. QED
    BY <1>10, <2>1 DEF Kept
<1>13. CASE UNCHANGED vars
  BY <1>13 DEF vars, history, Kept, Survives
<1>14. QED
  BY <1>4, <1>5, <1>6, <1>7, <1>8, <1>9, <1>11, <1>12, <1>13 DEF Next

\* "The seed is applied only on first run (no file yet)" (app_store.go:17): where
\* the directory can be fsynced, whatever crashes and whatever fails, no crash
\* takes the file of a registry away from which anything was acknowledged.
THEOREM SeedsOnce ==
  ASSUME DirOpens
  PROVE  Spec => []SeededOnce
<1>1. IInv /\ Kept /\ [Next]_vars => Kept'
  BY StepKept
<1>2. Kept => SeededOnce
  BY DEF Kept
<1>3. QED
  BY <1>1, <1>2, InitKept, Invariance, PTL DEF Spec

\* A boot serves a registry that keeps what was acknowledged.
LEMMA StepKeepsRegistry ==
  ASSUME IInv, Kept, [Next]_vars, up # "up", up' = "up"
  PROVE  Survives(reg')
<1> USE DEF IInv, TypeOK
<1>1. CASE BootLoad
  <2>1. Disk \in onReboot[RegistryFile] /\ Disk.kind = "whole" /\ reg' = Disk.data
    BY <1>1 DEF BootLoad, Readable
  <2>2. QED
    BY <2>1 DEF Kept
<1>2. ASSUME NEW w \in Writer, SeedCommit(w)
      PROVE  Survives(reg')
  BY <1>2 DEF SeedCommit, At, Idle, Kept
<1>3. QED
  BY <1>1, <1>2 DEF Next, BootSeed, SeedError, RemoveDiff, AddDiff, Lock, Write, Error, Commit,
                    Down, vars

\* "user add/remove survives restart" (app_store.go:18): where the directory can be
\* fsynced, whatever crashes and whatever fails, a boot serves the registry
\* acknowledged last, or before any was a seed, but for what was asked for since in
\* calls that had reached the disk when they failed or were cut off.
THEOREM RegistrySurvivesRestart ==
  ASSUME DirOpens
  PROVE  Spec => RestartKeepsRegistry
<1>1. IInv /\ Kept /\ [Next]_vars => Kept'
  BY StepKept
<1>2. IInv /\ Kept /\ [Next]_vars => [up # "up" /\ up' = "up" => Survives(reg')]_vars
  BY StepKeepsRegistry
<1>3. QED
  BY <1>1, <1>2, InitKept, Invariance, PTL DEF Spec, RestartKeepsRegistry

-----------------------------------------------------------------------------
(* The refinement *)

\* What may be served after a loss of power, file by file.
LEMMA CandidatesFacts ==
  ASSUME Oversized = {}
  PROVE  /\ \A R, S : R \subseteq S => Candidates(R) \subseteq Candidates(S)
         /\ \A R, d : Candidates(R \cup {Whole(d)}) = Candidates(R) \cup {d}
         /\ \A d : Candidates({Whole(d)}) = {d}
         /\ \A R : Absent \in R => Seeds \subseteq Candidates(R)
         /\ \A R \in SUBSET FileOf(Registry) : Candidates(R) \subseteq Registry
<1>1. \A d : Whole(d) # Absent
  BY DEF Whole, Absent
<1>2. \A d : MayLoad(Whole(d)) = {d}
  BY <1>1 DEF MayLoad, Readable, Whole
<1>3. MayLoad(Absent) = Seeds
  BY DEF MayLoad
<1>4. \A f \in FileOf(Registry) : MayLoad(f) \subseteq Registry
  BY SeedsAssumption DEF MayLoad, FileOf, Readable, Whole, Torn, Absent
<1>5. \A R, x : x \in Candidates(R) <=> \E f \in R : x \in MayLoad(f)
  BY Zenon DEF Candidates
<1>6. \A R, S : R \subseteq S => Candidates(R) \subseteq Candidates(S)
  BY <1>5
<1>7. ASSUME NEW R, NEW d
      PROVE  Candidates(R \cup {Whole(d)}) = Candidates(R) \cup {d}
  BY <1>2, <1>5
<1>8. ASSUME NEW d
      PROVE  Candidates({Whole(d)}) = {d}
  BY <1>2, <1>5
<1>9. ASSUME NEW R, Absent \in R
      PROVE  Seeds \subseteq Candidates(R)
  BY <1>3, <1>5, <1>9
<1>10. ASSUME NEW R \in SUBSET FileOf(Registry)
       PROVE  Candidates(R) \subseteq Registry
  BY <1>4, <1>5
<1>11. QED
  BY <1>6, <1>7, <1>8, <1>9, <1>10

\* The initial states are initial states of the promise.
LEMMA InitPromise == Init => Promise!Init
<1> SUFFICES ASSUME Init
             PROVE  Promise!Init
  OBVIOUS
<1>1. Candidates({Absent}) = Seeds
  BY Zenon DEF Candidates, MayLoad
<1>2. OnDisk = Seeds
  BY <1>1 DEF Init, OnDisk
<1>3. QED
  BY <1>2 DEF Init, Promise!Init

\* The values that the promise's variables take.
pval == [p \in {RegistryFile} |-> reg]
pdisk == [p \in {RegistryFile} |-> OnDisk]
pserving == (up = "up")

\* Every step is one of the promise or a stutter.
LEMMA StepPromise ==
  ASSUME DirOpens, Oversized = {}, IInv, IInv', [Next]_vars
  PROVE  [Promise!Next]_<<pserving, pval, pdisk>>
<1> DEFINE F == onReboot[RegistryFile]
<1> USE DEF IInv, TypeOK, pserving, pval, pdisk
<1>0. /\ OnDisk \subseteq Registry
      /\ OnDisk' \subseteq Registry
  BY CandidatesFacts DEF OnDisk
<1>1. ASSUME reg' = reg, onReboot'[RegistryFile] \subseteq F
      PROVE  /\ pserving' = pserving => Promise!Settle
             /\ pserving' = FALSE => Promise!Crash
  <2>1. OnDisk' \subseteq OnDisk
    BY <1>1, CandidatesFacts DEF OnDisk
  <2>2. Promise!Settles
    BY <1>0, <2>1 DEF Promise!Settles
  <2>3. QED
    BY <1>1, <2>2 DEF Promise!Settle, Promise!Crash
<1>2. ASSUME reg' \in OnDisk, onReboot' = onReboot, up # "up", up' = "up"
      PROVE  Promise!Restart
  <2>1. OnDisk' = OnDisk
    BY <1>2 DEF OnDisk
  <2>2. QED
    BY <1>0, <1>2, <2>1 DEF Promise!Restart, NotSkipped
<1>3. CASE BootLoad
  <2>1. Disk = Whole(Disk.data)
    BY <1>3 DEF BootLoad, Readable, FileOf, Whole, Absent, Torn, Disk
  <2>2. Disk.data \in Candidates(F)
    <3>1. {Whole(Disk.data)} \subseteq F
      BY <2>1
    <3>2. QED
      BY <3>1, CandidatesFacts
  <2>3. reg' \in OnDisk
    BY <1>3, <2>2 DEF BootLoad, OnDisk
  <2>4. QED
    BY <1>2, <1>3, <2>3 DEF BootLoad, Promise!Next
<1>4. ASSUME NEW w \in Writer,
             \/ \E s \in Seeds : BootSeed(w, s)
             \/ \E a \in App : RemoveDiff(w, a) \/ \E m \in Meta : AddDiff(w, a, m)
             \/ SeedError(w) \/ Error(w)
      PROVE  Promise!Next
  <2>1. reg' = reg /\ onReboot' = onReboot /\ pserving' = pserving
    BY <1>4 DEF BootSeed, RemoveDiff, AddDiff, Lock, SeedError, Error, WriteFails, FailEarly, FailLate
  <2>2. QED
    BY <1>1, <2>1 DEF Promise!Next
<1>5. ASSUME NEW w \in Writer, Write(w)
      PROVE  [Promise!Next]_<<pserving, pval, pdisk>>
  <2>1. /\ call[w] \in [step : Step, path : {RegistryFile}, data : Registry]
        /\ Inside(w)
        /\ up # "down"
        /\ reg' = reg /\ up' = up
    BY <1>5 DEF Write, DiskStep, WriteTemp, SyncTemp, RenameTemp, FsyncDir, At, Idle, CallOf
  <2>2. PICK d \in Registry : d = call[w].data
    BY <2>1
  <2>3. CASE RenameTemp(w)
    <3>1. onReboot'[RegistryFile] = F \cup {Whole(d)} /\ call[w].step = "synced"
      BY <2>2, <2>3 DEF RenameTemp, RenameOver, Landing, At
    <3>2. OnDisk' = OnDisk \cup {d}
      BY <3>1, CandidatesFacts DEF OnDisk
    <3>3. CASE up = "up"
      <4>1. OneApp(reg, d)
        BY <2>1, <2>2, <3>3 DEF Inside
      <4>2. Promise!Attempt(RegistryFile, d)
        BY <2>1, <3>2, <3>3, <4>1 DEF Promise!Attempt
      <4>3. QED
        BY <4>2 DEF Promise!Next
    <3>4. CASE up = "seeding"
      <4>1. d \in Seeds /\ Absent \in F
        BY <2>1, <2>2, <3>1, <3>4 DEF Inside
      <4>2. d \in OnDisk
        BY <4>1, CandidatesFacts DEF OnDisk
      <4>3. OnDisk' = OnDisk
        BY <3>2, <4>2
      <4>4. QED
        BY <2>1, <4>3
    <3>5. QED
      BY <2>1, <3>3, <3>4
  <2>4. CASE ~RenameTemp(w)
    <3>1. onReboot'[RegistryFile] \subseteq F
      BY <1>5, <2>4 DEF Write, DiskStep, WriteTemp, SyncTemp, FsyncDir, Disk
    <3>2. QED
      BY <1>1, <2>1, <3>1 DEF Promise!Next
  <2>5. QED
    BY <2>3, <2>4
<1>6. ASSUME NEW w \in Writer, SeedCommit(w) \/ Commit(w)
      PROVE  Promise!Next
  <2>1. /\ call[w] \in [step : Step, path : {RegistryFile}, data : Registry]
        /\ Inside(w)
        /\ reg' = call[w].data
        /\ F = {Whole(call[w].data)}
        /\ onReboot' = onReboot
    BY <1>6 DEF SeedCommit, Commit, At, Idle, CallOf, Inside
  <2>2. PICK d \in Registry : d = call[w].data
    BY <2>1
  <2>3. Candidates(F) = {d}
    BY <2>1, <2>2, CandidatesFacts
  <2>4. CASE SeedCommit(w)
    <3>1. reg' \in OnDisk
      BY <2>1, <2>2, <2>3 DEF OnDisk
    <3>2. up # "up" /\ up' = "up"
      BY <2>4 DEF SeedCommit
    <3>3. QED
      BY <1>2, <2>1, <3>1, <3>2 DEF Promise!Next
  <2>5. CASE Commit(w)
    <3>1. OneApp(reg, d)
      BY <2>1, <2>2, <2>5 DEF Commit, Inside
    <3>2. OnDisk = {d} /\ OnDisk' = {d}
      BY <2>1, <2>3 DEF OnDisk
    <3>3. Promise!Commit(RegistryFile)
      BY <2>1, <2>2, <2>5, <3>1, <3>2 DEF Commit, Promise!Commit
    <3>4. QED
      BY <3>3 DEF Promise!Next
  <2>6. QED
    BY <1>6, <2>4, <2>5
<1>7. CASE Down
  <2>1. reg' = reg /\ onReboot'[RegistryFile] \subseteq F /\ up' = "down"
    BY <1>7 DEF Down, Crash, Kill, PowerLoss
  <2>2. QED
    BY <1>1, <2>1 DEF Promise!Next
<1>8. CASE UNCHANGED vars
  BY <1>8 DEF vars, OnDisk
<1>9. QED
  BY <1>3, <1>4, <1>5, <1>6, <1>7, <1>8 DEF Next

\* An Add or a Remove that returned nil outlives every crash, whatever the
\* sequence of crashes and disk errors, where the directory can be fsynced and
\* the registry has not outgrown the limit of readJSONFile.
THEOREM StoreKeepsPromise ==
  ASSUME DirOpens, Oversized = {}
  PROVE  Spec => KeepsPromise
<1>1. Init => Promise!Init
  BY InitPromise
<1>2. IInv /\ IInv' /\ [Next]_vars => [Promise!Next]_<<pserving, pval, pdisk>>
  BY StepPromise
<1>3. QED
  BY <1>1, <1>2, Invariance, PTL DEF Spec, KeepsPromise, Promise!Spec, pserving, pval, pdisk
=============================================================================
