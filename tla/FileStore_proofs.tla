--------------------------- MODULE FileStore_proofs ---------------------------
(***************************************************************************)
(* Proofs about FileStore, for any apps, reviews, batches and writers.     *)
(***************************************************************************)
EXTENDS FileStore, TLAPS

USE DEF Data

\* What is true of a writer inside Save: it is alone, what it writes extends
\* what is in memory, and once it has renamed the file is in place.
Inside(w) ==
  LET c == call[w] IN
  /\ up
  /\ writeMu = w
  /\ Extends(mem[c.path], c.data)
  /\ c.step \in {"renamed", "flushed"} => file[c.path] = Whole(c.data)
  /\ c.step = "flushed" /\ DirOpens => onReboot[c.path] = {Whole(c.data)}

\* Every file that may be found holds one review per id.
CandidatesUnique ==
  \A a \in App : \A f \in onReboot[a] : f.kind = "whole" => UniqueIds(f.data)

\* The inductive invariant.
IInv ==
  /\ TypeOK
  /\ \A a \in App : file[a] \in onReboot[a]
  /\ NoTornFile
  /\ \A a \in App : UniqueIds(mem[a])
  /\ CandidatesUnique
  /\ \A w \in Writer : call[w] # Idle => Inside(w)

-----------------------------------------------------------------------------
(* Lemmas on what Save computes *)

\* The merged set that Save writes extends the stored one.
LEMMA FreshExtends ==
  ASSUME NEW S \in Data, NEW b \in Batch, Fresh(S, b) # {}
  PROVE  /\ Fresh(S, b) \in Data
         /\ Extends(S, S \cup Fresh(S, b))
         /\ S \cup Fresh(S, b) # S
<1> DEFINE F == Fresh(S, b)
<1>1. F \in Data
  BY BatchAssumption DEF Fresh
<1>2. \A r \in F : IdOf[r] \notin Ids(S)
  BY DEF Fresh
<1>3. \A r \in F, s \in S : IdOf[r] # IdOf[s]
  BY <1>2 DEF Ids
<1>4. UniqueIds(F)
  <2>1. SUFFICES ASSUME NEW i \in DOMAIN b, NEW j \in DOMAIN b,
                        IdOf[b[i]] = IdOf[b[j]],
                        \A k \in DOMAIN b : k < i => IdOf[b[k]] # IdOf[b[i]],
                        \A k \in DOMAIN b : k < j => IdOf[b[k]] # IdOf[b[j]]
                 PROVE  b[i] = b[j]
    BY DEF Fresh, UniqueIds
  <2>2. i \in Int /\ j \in Int
    BY BatchAssumption
  <2>3. ~(i < j) /\ ~(j < i)
    BY <2>1
  <2>4. QED
    BY <2>2, <2>3
<1>5. (S \cup F) \ S = F
  BY <1>3
<1>6. Extends(S, S \cup F)
  BY <1>3, <1>4, <1>5 DEF Extends
<1>7. QED
  BY <1>1, <1>3, <1>5, <1>6

\* A set that extends one without duplicates has none either.
LEMMA ExtendsUnique ==
  ASSUME NEW S \in Data, NEW T \in Data, UniqueIds(S), Extends(S, T)
  PROVE  UniqueIds(T)
BY DEF UniqueIds, Extends

-----------------------------------------------------------------------------
(* The inductive invariant *)

\* The initial states satisfy the inductive invariant.
LEMMA InitIInv == Init => IInv
<1> SUFFICES ASSUME Init
             PROVE  IInv
  OBVIOUS
<1>1. Absent \in FileOf(Data) /\ Absent # Torn /\ Absent.kind # "whole"
  BY DEF FileOf, Absent, Torn
<1>2. TypeOK
  BY <1>1 DEF Init, TypeOK, CallOf
<1>3. NoTornFile /\ CandidatesUnique /\ \A a \in App : file[a] \in onReboot[a]
  BY <1>1 DEF Init, NoTornFile, CandidatesUnique
<1>4. \A a \in App : UniqueIds(mem[a])
  BY DEF Init, UniqueIds
<1>5. QED
  BY <1>2, <1>3, <1>4 DEF Init, IInv

\* Every step preserves the inductive invariant.
LEMMA StepIInv == IInv /\ [Next]_vars => IInv'
<1> SUFFICES ASSUME IInv, [Next]_vars
             PROVE  IInv'
  OBVIOUS
<1> USE DEF IInv, TypeOK, NoTornFile
<1>1. CASE Boot
  <2>0. PICK unread \in SUBSET App :
          mem' = [a \in App |-> IF a \in unread THEN {} ELSE Loaded(file[a])]
    BY <1>1 DEF Boot
  <2>1. mem' \in [App -> Data]
    BY <2>0 DEF Loaded, Readable, FileOf, Whole, Absent, Torn
  <2>2. \A a \in App : UniqueIds(mem'[a])
    BY <2>0 DEF Loaded, Readable, CandidatesUnique, UniqueIds
  <2>3. \A w \in Writer : call[w] = Idle
    BY <1>1 DEF Boot, Inside
  <2>4. QED
    BY <1>1, <2>1, <2>2, <2>3 DEF Boot, CandidatesUnique
<1>2. ASSUME NEW w \in Writer, NEW a \in App, NEW b \in Batch, SaveDiff(w, a, b)
      PROVE  IInv'
  <2> DEFINE next == mem[a] \cup Fresh(mem[a], b)
  <2>1. next \in Data /\ Extends(mem[a], next)
    BY <1>2, FreshExtends DEF SaveDiff
  <2>2. \A v \in Writer : call[v] = Idle
    BY <1>2, WriterAssumption DEF SaveDiff, Inside
  <2>3. call' \in [Writer -> CallOf(Data)]
    BY <1>2, <2>1 DEF SaveDiff, CallOf, Begin, Step
  <2>4. \A v \in Writer : call'[v] # Idle => v = w
    BY <1>2, <2>2 DEF SaveDiff
  <2>5. Inside(w)'
    BY <1>2, <2>1 DEF SaveDiff, Inside, Begin
  <2>6. QED
    BY <1>2, <2>3, <2>4, <2>5 DEF SaveDiff, CandidatesUnique
<1>3. ASSUME NEW w \in Writer, SaveWrite(w)
      PROVE  IInv'
  <2> DEFINE c == call[w]
  <2>1. c # Idle
    BY <1>3 DEF SaveWrite, DiskStep, WriteTemp, SyncTemp, RenameTemp, FsyncDir, At, Idle
  <2>2. /\ c \in [step : Step, path : App, data : Data]
        /\ Inside(w)
        /\ \A v \in Writer : v # w => call[v] = Idle
    BY <2>1 DEF CallOf, Inside
  <2>3. ASSUME NEW s \in Step, Advance(w, s)
        PROVE  /\ call' \in [Writer -> CallOf(Data)]
               /\ call'[w] = [step |-> s, path |-> c.path, data |-> c.data]
               /\ \A v \in Writer : v # w => call'[v] = Idle
    BY <2>2, <2>3 DEF Advance, CallOf
  <2>4. CASE WriteTemp(w) \/ SyncTemp(w)
    <3>1. PICK s \in {"written", "synced"} : Advance(w, s)
      BY <2>4 DEF WriteTemp, SyncTemp
    <3>2. s \in Step
      BY DEF Step
    <3>3. UNCHANGED <<up, mem, writeMu, file, onReboot>>
      BY <1>3, <2>4 DEF SaveWrite, WriteTemp, SyncTemp
    <3>4. /\ call' \in [Writer -> CallOf(Data)]
          /\ call'[w] = [step |-> s, path |-> c.path, data |-> c.data]
          /\ \A v \in Writer : v # w => call'[v] = Idle
      BY <2>3, <3>1, <3>2
    <3>5. Inside(w)'
      BY <2>2, <3>1, <3>3, <3>4 DEF Inside
    <3>6. CandidatesUnique'
      BY <3>3 DEF CandidatesUnique
    <3>7. \A v \in Writer : call'[v] # Idle => Inside(v)'
      BY <3>4, <3>5
    <3>8. TypeOK'
      BY <2>2, <3>3, <3>4, <3>7 DEF Inside
    <3>9. QED
      BY <3>3, <3>6, <3>7, <3>8
  <2>5. CASE RenameTemp(w)
    <3>1. /\ file' = [file EXCEPT ![c.path] = Whole(c.data)]
          /\ onReboot' = [onReboot EXCEPT ![c.path] = @ \cup {Whole(c.data)}]
          /\ Advance(w, "renamed")
          /\ UNCHANGED <<up, mem, writeMu>>
      BY <1>3, <2>5 DEF SaveWrite, RenameTemp, RenameOver, Landing, At
    <3>2. Whole(c.data) \in FileOf(Data) /\ Whole(c.data) # Torn
      BY <2>2 DEF FileOf, Whole, Torn
    <3>3. UniqueIds(c.data)
      BY <2>2, ExtendsUnique DEF Inside
    <3>4. CandidatesUnique'
      BY <2>2, <3>1, <3>3 DEF CandidatesUnique, Whole
    <3>5. /\ call' \in [Writer -> CallOf(Data)]
          /\ call'[w] = [step |-> "renamed", path |-> c.path, data |-> c.data]
          /\ \A v \in Writer : v # w => call'[v] = Idle
      BY <2>3, <3>1 DEF Step
    <3>6. Inside(w)'
      BY <2>2, <3>1, <3>5 DEF Inside
    <3>7. NoTornFile'
      BY <2>2, <3>1, <3>2
    <3>8. \A a \in App : file'[a] \in onReboot'[a]
      BY <2>2, <3>1
    <3>9. \A v \in Writer : call'[v] # Idle => Inside(v)'
      BY <3>5, <3>6
    <3>10. TypeOK'
      BY <2>2, <3>1, <3>2, <3>5, <3>9 DEF Inside
    <3>11. QED
      BY <3>1, <3>4, <3>7, <3>8, <3>9, <3>10
  <2>6. CASE FsyncDir(w)
    <3>1. /\ c.step = "renamed"
          /\ onReboot' = IF DirOpens THEN [p \in App |-> {file[p]}] ELSE onReboot
          /\ Advance(w, "flushed")
          /\ UNCHANGED <<up, mem, writeMu, file>>
      BY <1>3, <2>6 DEF SaveWrite, FsyncDir, At
    <3>2. /\ call' \in [Writer -> CallOf(Data)]
          /\ call'[w] = [step |-> "flushed", path |-> c.path, data |-> c.data]
          /\ \A v \in Writer : v # w => call'[v] = Idle
      BY <2>3, <3>1 DEF Step
    <3>3. \A a \in App : file[a] \in onReboot'[a] /\ onReboot'[a] \subseteq onReboot[a]
      BY <3>1
    <3>4. onReboot' \in [App -> SUBSET FileOf(Data)]
      BY <3>1
    <3>5. Inside(w)'
      BY <2>2, <3>1, <3>2 DEF Inside
    <3>6. CandidatesUnique'
      BY <3>3 DEF CandidatesUnique
    <3>7. \A v \in Writer : call'[v] # Idle => Inside(v)'
      BY <3>2, <3>5
    <3>8. TypeOK'
      BY <2>2, <3>1, <3>2, <3>4, <3>7 DEF Inside
    <3>9. NoTornFile'
      BY <3>1, <3>3
    <3>10. QED
      BY <3>1, <3>3, <3>6, <3>7, <3>8, <3>9
  <2>7. QED
    BY <1>3, <2>4, <2>5, <2>6 DEF SaveWrite, DiskStep
<1>4. ASSUME NEW w \in Writer, SaveError(w)
      PROVE  IInv'
  <2>1. call' = [call EXCEPT ![w] = Idle] /\ call[w] # Idle
    BY <1>4 DEF SaveError, WriteFails, FailEarly, FailLate, At, Idle
  <2>2. UNCHANGED <<up, mem, file, onReboot>> /\ writeMu' = NoWriter
    BY <1>4 DEF SaveError, WriteFails, FailEarly, FailLate
  <2>3. \A v \in Writer : call'[v] = Idle
    BY <2>1 DEF Inside
  <2>4. call' \in [Writer -> CallOf(Data)]
    BY <2>1 DEF CallOf
  <2>5. QED
    BY <2>2, <2>3, <2>4 DEF CandidatesUnique
<1>5. ASSUME NEW w \in Writer, SaveCommit(w)
      PROVE  IInv'
  <2>1. /\ call[w] \in [step : Step, path : App, data : Data]
        /\ Inside(w)
        /\ \A v \in Writer : v # w => call[v] = Idle
    BY <1>5 DEF SaveCommit, At, Idle, CallOf, Inside
  <2>2. /\ mem' = [mem EXCEPT ![call[w].path] = call[w].data]
        /\ call' = [call EXCEPT ![w] = Idle]
        /\ writeMu' = NoWriter
        /\ UNCHANGED <<up, file, onReboot>>
    BY <1>5 DEF SaveCommit, Commit
  <2>3. UniqueIds(call[w].data)
    BY <2>1, ExtendsUnique DEF Inside
  <2>4. \A v \in Writer : call'[v] = Idle
    BY <2>1, <2>2
  <2>5. call' \in [Writer -> CallOf(Data)]
    BY <2>2 DEF CallOf
  <2>6. mem' \in [App -> Data] /\ \A a \in App : UniqueIds(mem'[a])
    BY <2>1, <2>2, <2>3
  <2>7. QED
    BY <2>2, <2>4, <2>5, <2>6 DEF CandidatesUnique
<1>6. CASE Down
  <2>1. /\ call' = [w \in Writer |-> Idle]
        /\ up' = FALSE
        /\ writeMu' = NoWriter
        /\ mem' = mem
    BY <1>6 DEF Down, Crash, Kill, PowerLoss
  <2>2. \A a \in App : /\ file'[a] \in onReboot'[a]
                       /\ onReboot'[a] \subseteq onReboot[a]
    BY <1>6 DEF Down, Crash, Kill, PowerLoss
  <2>3. /\ file' \in [App -> FileOf(Data)]
        /\ onReboot' \in [App -> SUBSET FileOf(Data)]
    BY <1>6, <2>2 DEF Down, Crash, Kill, PowerLoss
  <2>4. CandidatesUnique' /\ NoTornFile'
    BY <2>2 DEF CandidatesUnique
  <2>5. QED
    BY <2>1, <2>2, <2>3, <2>4 DEF CallOf
<1>7. CASE UNCHANGED vars
  BY <1>7 DEF vars, CandidatesUnique, Inside
<1>8. QED
  BY <1>1, <1>2, <1>3, <1>4, <1>5, <1>6, <1>7 DEF Next

\* The inductive invariant holds in every reachable state.
THEOREM Invariance == Spec => []IInv
BY InitIInv, StepIInv, PTL DEF Spec

-----------------------------------------------------------------------------
(* The invariants that the runs check *)

\* The variables keep their types and no two Saves overlap.
THEOREM Typing == Spec => []TypeOK
<1>1. IInv => TypeOK
  BY DEF IInv
<1>2. QED
  BY <1>1, Invariance, PTL

\* atomicWrite's promise (storage.go:40-42): whatever crashes when, a reader or
\* a reboot finds each data file whole.
THEOREM FilesAreWhole == Spec => []NoTornFile
<1>1. IInv => NoTornFile
  BY DEF IInv
<1>2. QED
  BY <1>1, Invariance, PTL

\* The id is the dedupe key (file_store.go:17): memory and every file a boot
\* may find hold one review per id.
THEOREM NoDuplicates == Spec => []OnePerId
<1>1. IInv => OnePerId
  <2>1. UniqueIds({})
    BY DEF UniqueIds
  <2>2. QED
    BY <2>1 DEF IInv, OnePerId, CandidatesUnique, Content
<1>2. QED
  BY <1>1, Invariance, PTL

-----------------------------------------------------------------------------
(* The refinement *)

\* The initial states are initial states of the promise.
LEMMA InitPromise == Init => Promise!Init
<1>1. ASSUME Init
      PROVE  \A a \in App : OnDisk(a) = {{}}
  <2>1. Content(Absent) = {}
    BY DEF Content, Absent
  <2>2. QED
    BY <1>1, <2>1 DEF Init, OnDisk
<1>2. QED
  BY <1>1 DEF Init, Promise!Init

\* Where the directory can be opened, each step of the store is a step of the
\* promise or none.
LEMMA StepPromise ==
  ASSUME DirOpens, IInv, IInv', [Next]_vars
  PROVE  [Promise!Next]_<<up, mem, [a \in App |-> OnDisk(a)]>>
<1> DEFINE disk == [a \in App |-> OnDisk(a)]
<1> USE DEF IInv, TypeOK
<1>0. /\ \A a \in App : \A f \in onReboot[a] : Content(f) \in Data
      /\ \A a \in App : \A f \in onReboot'[a] : Content(f) \in Data
      /\ \A d : Content(Whole(d)) = d
      /\ disk \in [App -> SUBSET Data]
      /\ disk' \in [App -> SUBSET Data]
  <2>1. \A f \in FileOf(Data) : Content(f) \in Data
    BY DEF FileOf, Content, Whole, Absent, Torn
  <2>2. \A d : Content(Whole(d)) = d
    BY DEF Content, Whole
  <2>3. /\ \A a \in App : \A f \in onReboot[a] : Content(f) \in Data
        /\ \A a \in App : \A f \in onReboot'[a] : Content(f) \in Data
    BY <2>1
  <2>4. QED
    BY <2>2, <2>3 DEF OnDisk
\* A step that neither changes memory nor adds a file to onReboot.
<1>1. ASSUME mem' = mem, \A a \in App : onReboot'[a] \subseteq onReboot[a]
      PROVE  /\ up' = up => Promise!Settle
             /\ up' = FALSE => Promise!Crash
  <2>1. Promise!Settles
    BY <1>0, <1>1 DEF Promise!Settles, OnDisk
  <2>2. QED
    BY <1>1, <2>1 DEF Promise!Settle, Promise!Crash
<1>2. CASE Boot
  <2>0. PICK unread \in (IF "read" \in Faults THEN SUBSET App ELSE {{}}) :
          mem' = [a \in App |-> IF a \in unread THEN {} ELSE Loaded(file[a])]
    BY <1>2 DEF Boot
  <2>1. ASSUME NEW a \in App
        PROVE  \E u \in OnDisk(a) : mem'[a] \in {u} \cup Skipped(u)
    <3>1. Content(file[a]) \in OnDisk(a)
      BY DEF OnDisk
    <3>2. mem'[a] \in {Content(file[a])} \cup Skipped(Content(file[a]))
      <4>1. mem'[a] = IF a \in unread THEN {} ELSE Loaded(file[a])
        BY <2>0
      <4>2. CASE a \in unread
        BY <2>0, <4>1, <4>2 DEF Skipped
      <4>3. CASE a \notin unread
        BY <4>1, <4>3 DEF Loaded, Readable, Content, Skipped
      <4>4. QED
        BY <4>2, <4>3
    <3>3. QED
      BY <3>1, <3>2
  <2>2. disk' = disk
    BY <1>2 DEF Boot, OnDisk
  <2>3. Promise!Restart
    BY <1>0, <1>2, <2>1, <2>2 DEF Boot, Promise!Restart
  <2>4. QED
    BY <2>3 DEF Promise!Next
<1>3. ASSUME NEW w \in Writer, NEW a \in App, NEW b \in Batch, SaveDiff(w, a, b)
      PROVE  Promise!Settle
  BY <1>1, <1>3 DEF SaveDiff
<1>4. ASSUME NEW w \in Writer, SaveWrite(w)
      PROVE  Promise!Next
  <2>0. call[w] \in [step : Step, path : App, data : Data] /\ Inside(w)
    BY <1>4 DEF SaveWrite, DiskStep, WriteTemp, SyncTemp, RenameTemp, FsyncDir, At, Idle, CallOf
  <2>1. PICK p \in App, d \in Data : p = call[w].path /\ d = call[w].data
    BY <2>0
  <2>2. CASE RenameTemp(w)
    <3>1. /\ onReboot' = [onReboot EXCEPT ![p] = @ \cup {Whole(d)}]
          /\ mem' = mem /\ up' = up /\ up
      BY <1>4, <2>0, <2>1, <2>2 DEF SaveWrite, RenameTemp, RenameOver, Landing, At, Inside
    <3>2. Extends(mem[p], d)
      BY <2>0, <2>1 DEF Inside
    <3>3. disk' = [disk EXCEPT ![p] = @ \cup {d}]
      <4>1. ASSUME NEW a \in App, a # p
            PROVE  OnDisk(a)' = OnDisk(a)
        BY <3>1, <4>1 DEF OnDisk
      <4>2. onReboot'[p] = onReboot[p] \cup {Whole(d)}
        BY <2>1, <3>1
      <4>3. {Content(f) : f \in onReboot'[p]}
              = {Content(f) : f \in onReboot[p]} \cup {d}
        BY <1>0, <4>2
      <4>4. OnDisk(p)' = OnDisk(p) \cup {d}
        BY <4>3 DEF OnDisk
      <4>5. QED
        BY <2>1, <4>1, <4>4
    <3>4. Promise!Attempt(p, d)
      BY <3>1, <3>2, <3>3 DEF Promise!Attempt
    <3>5. QED
      BY <2>1, <3>4 DEF Promise!Next
  <2>3. CASE ~RenameTemp(w)
    <3>1. mem' = mem /\ up' = up /\ \A a \in App : onReboot'[a] \subseteq onReboot[a]
      BY <1>4, <2>3 DEF SaveWrite, DiskStep, WriteTemp, SyncTemp, FsyncDir
    <3>2. QED
      BY <1>1, <3>1 DEF Promise!Next
  <2>4. QED
    BY <2>2, <2>3
<1>5. ASSUME NEW w \in Writer, SaveError(w)
      PROVE  Promise!Settle
  BY <1>1, <1>5 DEF SaveError, WriteFails, FailEarly, FailLate
<1>6. ASSUME NEW w \in Writer, SaveCommit(w)
      PROVE  Promise!Next
  <2>0. call[w] \in [step : Step, path : App, data : Data] /\ Inside(w)
    BY <1>6 DEF SaveCommit, At, Idle, CallOf
  <2>1. PICK p \in App, d \in Data : p = call[w].path /\ d = call[w].data
    BY <2>0
  <2>2. onReboot[p] = {Whole(d)}
    BY <1>6, <2>0, <2>1 DEF SaveCommit, At, Inside
  <2>3. OnDisk(p) = {d}
    BY <1>0, <2>2 DEF OnDisk
  <2>4. mem' = [mem EXCEPT ![p] = d] /\ onReboot' = onReboot /\ up' = up /\ up
    BY <1>6, <2>0, <2>1 DEF SaveCommit, Commit, Inside
  <2>5. disk' = [disk EXCEPT ![p] = {d}]
    BY <2>1, <2>3, <2>4 DEF OnDisk
  <2>6. Promise!Commit(p)
    BY <2>0, <2>1, <2>3, <2>4, <2>5 DEF Promise!Commit, Inside
  <2>7. QED
    BY <2>1, <2>6 DEF Promise!Next
<1>7. CASE Down
  <2>1. mem' = mem /\ up' = FALSE /\ \A a \in App : onReboot'[a] \subseteq onReboot[a]
    BY <1>7 DEF Down, Crash, Kill, PowerLoss
  <2>2. QED
    BY <1>1, <2>1 DEF Promise!Next
<1>8. CASE UNCHANGED vars
  BY <1>8 DEF vars, OnDisk
<1>9. QED
  BY <1>2, <1>3, <1>4, <1>5, <1>6, <1>7, <1>8 DEF Next, Promise!Next

\* A Save that returned nil outlives every crash, whatever the sequence of
\* crashes, disk errors and failed reads, where the directory can be fsynced: a
\* boot serves less only in place of a file that it could not read (Skipped), and
\* what is in that file is there for the next boot until the app is saved again.
THEOREM StoreKeepsPromise ==
  ASSUME DirOpens
  PROVE  Spec => KeepsPromise
<1>1. Init => Promise!Init
  BY InitPromise
<1>2. IInv /\ IInv' /\ [Next]_vars => [Promise!Next]_<<up, mem, [a \in App |-> OnDisk(a)]>>
  BY StepPromise
<1>3. QED
  BY <1>1, <1>2, Invariance, PTL DEF Spec, KeepsPromise, Promise!Spec

-----------------------------------------------------------------------------
(* Nothing is lost while crashes are of one kind *)

\* Every file that a boot may read before the next crash of the other kind
\* holds what is in memory.
Kept ==
  \A a \in App :
    /\ mem[a] \subseteq Loaded(file[a])
    /\ "power" \in Faults =>
         /\ \A f \in onReboot[a] : mem[a] \subseteq Loaded(f)
         /\ ~up => onReboot[a] = {file[a]}

\* A boot reads a file that was written whole as what was written.
LEMMA LoadedWhole ==
  ASSUME Oversized = {}, NEW d
  PROVE  Loaded(Whole(d)) = d
BY DEF Loaded, Readable, Whole

\* It holds at first.
LEMMA InitKept == Init => Kept
BY DEF Init, Kept

\* Every step preserves it, while crashes are of one kind.
LEMMA StepKept ==
  ASSUME DirOpens, Oversized = {}, "read" \notin Faults,
         ~({"kill", "power"} \subseteq Faults), IInv, Kept, [Next]_vars
  PROVE  Kept'
<1> USE DEF IInv, TypeOK
<1>1. CASE Boot
  BY <1>1 DEF Boot, Kept
<1>2. ASSUME NEW w \in Writer, NEW a \in App, NEW b \in Batch, SaveDiff(w, a, b)
      PROVE  Kept'
  BY <1>2 DEF SaveDiff, Kept
<1>3. ASSUME NEW w \in Writer, SaveWrite(w)
      PROVE  Kept'
  <2>0. call[w] \in [step : Step, path : App, data : Data] /\ Inside(w)
    BY <1>3 DEF SaveWrite, DiskStep, WriteTemp, SyncTemp, RenameTemp, FsyncDir, At, Idle, CallOf
  <2>1. PICK p \in App, d \in Data : p = call[w].path /\ d = call[w].data
    BY <2>0
  <2>2. up' = up /\ mem' = mem /\ up
    BY <1>3, <2>0 DEF SaveWrite, Inside
  <2>3. CASE RenameTemp(w)
    <3>1. /\ onReboot' = [onReboot EXCEPT ![p] = @ \cup {Whole(d)}]
          /\ file' = [file EXCEPT ![p] = Whole(d)]
      BY <2>1, <2>3 DEF RenameTemp, RenameOver, Landing, At
    <3>2. mem[p] \subseteq Loaded(Whole(d))
      BY <2>0, <2>1, LoadedWhole DEF Inside, Extends
    <3>3. QED
      BY <2>2, <3>1, <3>2 DEF Kept
  <2>4. CASE ~RenameTemp(w)
    <3>1. file' = file /\ \A a \in App : onReboot'[a] \subseteq onReboot[a]
      BY <1>3, <2>4 DEF SaveWrite, DiskStep, WriteTemp, SyncTemp, FsyncDir
    <3>2. QED
      BY <2>2, <3>1 DEF Kept
  <2>5. QED
    BY <2>3, <2>4
<1>4. ASSUME NEW w \in Writer, SaveError(w)
      PROVE  Kept'
  BY <1>4 DEF SaveError, WriteFails, FailEarly, FailLate, Kept
<1>5. ASSUME NEW w \in Writer, SaveCommit(w)
      PROVE  Kept'
  <2>0. call[w] \in [step : Step, path : App, data : Data] /\ Inside(w)
    BY <1>5 DEF SaveCommit, At, Idle, CallOf
  <2>1. PICK p \in App, d \in Data : p = call[w].path /\ d = call[w].data
    BY <2>0
  <2>2. /\ up' = up /\ up
        /\ file[p] = Whole(d)
        /\ onReboot[p] = {Whole(d)}
        /\ mem' = [mem EXCEPT ![p] = d]
        /\ file' = file /\ onReboot' = onReboot
    BY <1>5, <2>0, <2>1 DEF SaveCommit, Commit, At, Inside
  <2>3. Loaded(Whole(d)) = d
    BY LoadedWhole
  <2>4. QED
    BY <2>2, <2>3 DEF Kept
<1>6. CASE Down
  <2>1. mem' = mem /\ ~up'
    BY <1>6 DEF Down
  <2>2. CASE Kill
    BY <2>1, <2>2 DEF Kill, Kept
  <2>3. CASE PowerLoss
    <3>1. /\ "power" \in Faults
          /\ \A a \in App : file'[a] \in onReboot[a] /\ onReboot'[a] = {file'[a]}
      BY <2>3 DEF PowerLoss
    <3>2. QED
      BY <2>1, <3>1 DEF Kept
  <2>4. QED
    BY <1>6, <2>2, <2>3 DEF Down, Crash
<1>7. CASE UNCHANGED vars
  BY <1>7 DEF vars, Kept
<1>8. QED
  BY <1>1, <1>2, <1>3, <1>4, <1>5, <1>6, <1>7 DEF Next

\* No step takes a review out of what is served.
LEMMA StepLosesNothing ==
  ASSUME Oversized = {}, "read" \notin Faults, IInv, Kept, [Next]_vars
  PROVE  [\A a \in App : mem[a] \subseteq mem'[a]]_mem
<1> USE DEF IInv, TypeOK
<1>1. CASE Boot
  BY <1>1 DEF Boot, Kept
<1>2. ASSUME NEW w \in Writer, SaveCommit(w)
      PROVE  \A a \in App : mem[a] \subseteq mem'[a]
  <2>1. call[w] \in [step : Step, path : App, data : Data] /\ Inside(w)
    BY <1>2 DEF SaveCommit, At, Idle, CallOf
  <2>2. mem' = [mem EXCEPT ![call[w].path] = call[w].data]
    BY <1>2 DEF SaveCommit, Commit
  <2>3. mem[call[w].path] \subseteq call[w].data
    BY <2>1 DEF Inside, Extends
  <2>4. QED
    BY <2>1, <2>2, <2>3
<1>3. ~Boot /\ (\A w \in Writer : ~SaveCommit(w)) => mem' = mem
  BY DEF Next, SaveDiff, SaveWrite, SaveError, Down, vars
<1>4. QED
  BY <1>1, <1>2, <1>3

\* "restart loses nothing" (file_store.go:18): while either only the process
\* or only the machine crashes, every boot can read every file, and none has
\* outgrown the limit, no step takes a review away from an app.
THEOREM OneKindOfCrashLosesNothing ==
  ASSUME DirOpens, Oversized = {}, "read" \notin Faults,
         ~({"kill", "power"} \subseteq Faults)
  PROVE  Spec => RestartLosesNothing
<1>1. IInv /\ Kept /\ [Next]_vars => Kept'
  BY StepKept
<1>2. IInv /\ Kept /\ [Next]_vars => [\A a \in App : mem[a] \subseteq mem'[a]]_mem
  BY StepLosesNothing
<1>3. QED
  BY <1>1, <1>2, InitKept, Invariance, PTL DEF Spec, RestartLosesNothing

-----------------------------------------------------------------------------
(* Memory and disk *)

\* The file of an app differs from memory only between the rename and the
\* commit of a Save of that app.
Mirror ==
  up => \A a \in App :
          \/ Loaded(file[a]) = mem[a]
          \/ \E w \in Writer : call[w] # Idle /\ call[w].path = a
                                /\ call[w].step \in {"renamed", "flushed"}

\* Every step preserves it, where the directory can be flushed and read.
LEMMA StepMirror ==
  ASSUME {"dirSync", "read"} \cap Faults = {}, Oversized = {}, IInv, Mirror, [Next]_vars
  PROVE  Mirror'
<1> USE DEF IInv, TypeOK
<1>1. CASE Boot
  BY <1>1 DEF Boot, Mirror
<1>2. ASSUME NEW w \in Writer, NEW a \in App, NEW b \in Batch, SaveDiff(w, a, b)
      PROVE  Mirror'
  <2>1. \A v \in Writer : call[v] = Idle
    BY <1>2, WriterAssumption DEF SaveDiff, Inside
  <2>2. \A c \in App : Loaded(file[c]) = mem[c]
    BY <1>2, <2>1 DEF SaveDiff, Mirror
  <2>3. QED
    BY <1>2, <2>2 DEF SaveDiff, Mirror
<1>3. ASSUME NEW w \in Writer, SaveWrite(w)
      PROVE  Mirror'
  <2>1. call[w] \in [step : Step, path : App, data : Data] /\ Inside(w)
    BY <1>3 DEF SaveWrite, DiskStep, WriteTemp, SyncTemp, RenameTemp, FsyncDir, At, Idle, CallOf
  <2>2. PICK s \in Step : Advance(w, s)
    BY <1>3 DEF SaveWrite, DiskStep, WriteTemp, SyncTemp, RenameTemp, RenameOver, FsyncDir, Step
  <2>3. /\ call'[w] = [step |-> s, path |-> call[w].path, data |-> call[w].data]
        /\ \A v \in Writer : v # w => call'[v] = call[v] /\ call[v] = Idle
        /\ call'[w] # Idle
    BY <2>1, <2>2 DEF Advance, Idle, Step, Inside
  <2>4. s \in {"renamed", "flushed"} \/ (call[w].step \notin {"renamed", "flushed"} /\ file' = file)
    BY <1>3, <2>1, <2>3 DEF SaveWrite, DiskStep, WriteTemp, SyncTemp, RenameTemp, RenameOver,
                           FsyncDir, At, Advance
  <2>5. \A a \in App : a # call[w].path => file'[a] = file[a]
    BY <1>3, <2>1 DEF SaveWrite, DiskStep, WriteTemp, SyncTemp, RenameTemp, RenameOver, FsyncDir
  <2>6. up' = up /\ mem' = mem
    BY <1>3 DEF SaveWrite
  <2>7. \A a \in App : a # call[w].path /\ up => Loaded(file[a]) = mem[a]
    BY <2>3 DEF Mirror
  <2>8. QED
    BY <2>1, <2>3, <2>4, <2>5, <2>6, <2>7 DEF Mirror
<1>4. ASSUME NEW w \in Writer, SaveError(w)
      PROVE  Mirror'
  <2>1. /\ call[w].step \in {"begin", "written", "synced"}
        /\ UNCHANGED <<up, mem, file>>
    BY <1>4 DEF SaveError, WriteFails, FailEarly, FailLate
  <2>2. \A v \in Writer : v # w => call[v] = Idle
    BY <2>1 DEF Idle, Inside
  <2>3. up => \A a \in App : Loaded(file[a]) = mem[a]
    BY <2>1, <2>2 DEF Mirror
  <2>4. QED
    BY <2>1, <2>3 DEF Mirror
<1>5. ASSUME NEW w \in Writer, SaveCommit(w)
      PROVE  Mirror'
  <2>1. /\ call[w] \in [step : Step, path : App, data : Data]
        /\ Inside(w)
        /\ file[call[w].path] = Whole(call[w].data)
    BY <1>5 DEF SaveCommit, At, Idle, CallOf, Inside
  <2>2. \A v \in Writer : v # w => call[v] = Idle
    BY <2>1 DEF Inside
  <2>3. /\ mem' = [mem EXCEPT ![call[w].path] = call[w].data]
        /\ up' = up /\ file' = file
    BY <1>5 DEF SaveCommit, Commit
  <2>4. \A a \in App : a # call[w].path /\ up => Loaded(file[a]) = mem[a]
    BY <2>2 DEF Mirror
  <2>5. Loaded(Whole(call[w].data)) = call[w].data
    BY LoadedWhole
  <2>6. QED
    BY <2>1, <2>3, <2>4, <2>5 DEF Mirror
<1>6. CASE Down
  BY <1>6 DEF Down, Mirror
<1>7. CASE UNCHANGED vars
  BY <1>7 DEF vars, Mirror
<1>8. QED
  BY <1>1, <1>2, <1>3, <1>4, <1>5, <1>6, <1>7 DEF Next

\* "memory and disk never diverge" (file_store.go:65-66): if fsyncDir never
\* fails, every boot can read every file, and none has outgrown the limit,
\* between two Saves the file of each app holds what is served.
THEOREM MemoryAndDiskAgree ==
  ASSUME {"dirSync", "read"} \cap Faults = {}, Oversized = {}
  PROVE  Spec => []MemoryMatchesDisk
<1>1. Init => Mirror
  BY DEF Init, Mirror
<1>2. IInv /\ Mirror /\ [Next]_vars => Mirror'
  BY StepMirror
<1>3. IInv /\ Mirror => MemoryMatchesDisk
  <2>1. ASSUME IInv, writeMu = NoWriter
        PROVE  \A w \in Writer : call[w] = Idle
    BY <2>1, WriterAssumption DEF IInv, TypeOK
  <2>2. QED
    BY <2>1 DEF Mirror, MemoryMatchesDisk
<1>4. QED
  BY <1>1, <1>2, <1>3, Invariance, PTL DEF Spec

\* No step takes a review out of a file while the machine runs on: memory, which
\* the next file is made from, holds what is in the file.
LEMMA StepFilesGrow ==
  ASSUME {"dirSync", "read", "power"} \cap Faults = {}, Oversized = {},
         IInv, Mirror, [Next]_vars
  PROVE  [\A a \in App : Content(file[a]) \subseteq Content(file'[a])]_file
<1> USE DEF IInv, TypeOK
<1>1. ASSUME NEW w \in Writer, SaveWrite(w), RenameTemp(w)
      PROVE  \A a \in App : Content(file[a]) \subseteq Content(file'[a])
  <2>1. call[w] \in [step : Step, path : App, data : Data] /\ Inside(w)
    BY <1>1 DEF RenameTemp, At, Idle, CallOf
  <2>2. PICK p \in App, d \in Data : p = call[w].path /\ d = call[w].data
    BY <2>1
  <2>3. Extends(mem[p], d) /\ up
    BY <2>1, <2>2 DEF Inside
  <2>4. Loaded(file[p]) = mem[p]
    <3>1. \A v \in Writer : v # w => call[v] = Idle
      BY <2>1 DEF Inside
    <3>2. call[w].step = "synced"
      BY <1>1 DEF RenameTemp, At
    <3>3. QED
      BY <2>3, <3>1, <3>2 DEF Mirror
  <2>5. Content(file[p]) = mem[p]
    BY <2>4 DEF Content, Loaded, Readable
  <2>6. file' = [file EXCEPT ![p] = Whole(d)]
    BY <1>1, <2>2 DEF RenameTemp, RenameOver
  <2>7. Content(Whole(d)) = d
    BY DEF Content, Whole
  <2>8. QED
    BY <2>3, <2>5, <2>6, <2>7 DEF Extends
<1>2. (\A w \in Writer : ~(SaveWrite(w) /\ RenameTemp(w))) => file' = file
  BY DEF Next, Boot, SaveDiff, SaveWrite, DiskStep, WriteTemp, SyncTemp, FsyncDir, SaveError,
         WriteFails, FailEarly, FailLate, SaveCommit, Commit, Down, Crash, Kill, PowerLoss, vars
<1>3. QED
  BY <1>1, <1>2

\* "Save appends" (file_store.go:63): if fsyncDir never fails, every boot can
\* read every file, none has outgrown the limit and the machine does not lose
\* power, no review ever leaves the file of its app.
THEOREM SaveAppends ==
  ASSUME {"dirSync", "read", "power"} \cap Faults = {}, Oversized = {}
  PROVE  Spec => FilesOnlyGrow
<1>1. Init => Mirror
  BY DEF Init, Mirror
<1>2. IInv /\ Mirror /\ [Next]_vars => Mirror'
  BY StepMirror
<1>3. IInv /\ Mirror /\ [Next]_vars
        => [\A a \in App : Content(file[a]) \subseteq Content(file'[a])]_file
  BY StepFilesGrow
<1>4. QED
  BY <1>1, <1>2, <1>3, Invariance, PTL DEF Spec, FilesOnlyGrow
=============================================================================
