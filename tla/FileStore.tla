------------------------------- MODULE FileStore -------------------------------
(***************************************************************************)
(* internal/storage/file_store.go: the reviews of each app, in memory and  *)
(* mirrored to data/<appID>.json.                                          *)
(*                                                                         *)
(* Save is three kinds of step: it takes writeMu and computes what is new  *)
(* (SaveDiff), it writes the file (the steps of AtomicFile), and it        *)
(* commits the new map to memory and unlocks (SaveCommit).  A Save of      *)
(* nothing new returns without a write and changes no state.  The order    *)
(* of the stored slice is abstracted to a set: every reader of the store   *)
(* (service.within) sorts what it gets by a total order.  App ids that     *)
(* pathFor refuses are not in App: a Save of one returns before the lock.  *)
(***************************************************************************)
EXTENDS Integers, Sequences

CONSTANTS
  App,      \* the app ids
  Review,   \* the reviews, two versions of one review being two of them
  Id,       \* the review ids
  IdOf,     \* review -> its id
  Batch,    \* the sequences of reviews that a poll may save
  Writer, NoWriter, Oversized, Faults, DirOpens

ASSUME IdAssumption == IdOf \in [Review -> Id]
ASSUME BatchAssumption == Batch \subseteq Seq(Review)
ASSUME WriterAssumption == NoWriter \notin Writer

VARIABLES
  up,       \* the process serves requests
  mem,      \* app -> the reviews in memory; while down, those served last
  writeMu,  \* the writer inside Save, or NoWriter
  file, onReboot, call

INSTANCE AtomicFile WITH Path <- App

ASSUME FaultsAssumption == Faults \subseteq FaultKind
ASSUME DirOpensAssumption == DirOpens \in BOOLEAN

vars == <<up, mem, writeMu, file, onReboot, call>>

Data == SUBSET Review

-----------------------------------------------------------------------------
(* What Save computes and what NewFileStore loads. *)

Ids(S) == {IdOf[r] : r \in S}

\* Mutant: ids are compared with the stored ones only, not within the batch.
FreshToStored(S, b) == {b[i] : i \in {j \in DOMAIN b : IdOf[b[j]] \notin Ids(S)}}

\* The reviews of the batch whose id is not stored and not earlier in it.
Fresh(S, b) ==
  {b[i] : i \in {j \in DOMAIN b :
                   /\ IdOf[b[j]] \notin Ids(S)
                   /\ \A k \in DOMAIN b : k < j => IdOf[b[k]] # IdOf[b[j]]}}

\* The reviews in a file, and those that a boot takes from one that it could
\* read: a missing, corrupt or oversized file is skipped.
Content(f) == IF f.kind = "whole" THEN f.data ELSE {}
Loaded(f) == IF Readable(f) THEN f.data ELSE {}

-----------------------------------------------------------------------------
(* Actions *)

\* The first start, in an empty directory.
Init ==
  /\ up = FALSE
  /\ mem = [a \in App |-> {}]
  /\ writeMu = NoWriter
  /\ file = [a \in App |-> Absent]
  /\ onReboot = [a \in App |-> {Absent}]
  /\ call = [w \in Writer |-> Idle]

\* NewFileStore.  A file whose Stat or ReadFile fails is logged and skipped
\* like a corrupt one: its app is served empty, and the next Save of the app
\* will write a file without the reviews that were not read.
Boot ==
  /\ ~up
  /\ up' = TRUE
  /\ \E unread \in (IF "read" \in Faults THEN SUBSET App ELSE {{}}) :
       mem' = [a \in App |-> IF a \in unread THEN {} ELSE Loaded(file[a])]
  /\ UNCHANGED <<writeMu, file, onReboot, call>>

\* Mutant: Save does not take writeMu.
SaveUnlocked(w, a, b) ==
  /\ up /\ call[w] = Idle
  /\ Fresh(mem[a], b) # {}
  /\ writeMu' = w
  /\ call' = [call EXCEPT ![w] = Begin(a, mem[a] \cup Fresh(mem[a], b))]
  /\ UNCHANGED <<up, mem, file, onReboot>>

\* Mutant: the stored reviews are not copied into the slice that is written.
SaveUncopied(w, a, b) ==
  /\ up
  /\ writeMu = NoWriter
  /\ Fresh(mem[a], b) # {}
  /\ writeMu' = w
  /\ call' = [call EXCEPT ![w] = Begin(a, Fresh(mem[a], b))]
  /\ UNCHANGED <<up, mem, file, onReboot>>

\* Save up to writeJSON, when the batch holds something new.
SaveDiff(w, a, b) ==
  /\ up
  /\ writeMu = NoWriter
  /\ Fresh(mem[a], b) # {}
  /\ writeMu' = w
  /\ call' = [call EXCEPT ![w] = Begin(a, mem[a] \cup Fresh(mem[a], b))]
  /\ UNCHANGED <<up, mem, file, onReboot>>

SaveWrite(w) == DiskStep(w) /\ UNCHANGED <<up, mem, writeMu>>

\* Mutant: the error path of Save returns without unlocking.
SaveErrorLocked(w) == WriteFails(w) /\ UNCHANGED <<up, mem, writeMu>>

\* Mutant: Save ignores the error of the write and commits.
SaveErrorIgnored(w) ==
  /\ WriteFails(w)
  /\ mem' = [mem EXCEPT ![call[w].path] = call[w].data]
  /\ writeMu' = NoWriter
  /\ UNCHANGED up

\* writeJSON returned an error: Save returns it, memory keeps the old map.
SaveError(w) ==
  /\ WriteFails(w)
  /\ writeMu' = NoWriter
  /\ UNCHANGED <<up, mem>>

Commit(w) ==
  /\ mem' = [mem EXCEPT ![call[w].path] = call[w].data]
  /\ call' = [call EXCEPT ![w] = Idle]
  /\ writeMu' = NoWriter
  /\ UNCHANGED <<up, file, onReboot>>

\* Mutant: memory is committed before the file is in place.
SaveCommitEarly(w) == call[w].step \in {"synced", "flushed"} /\ Commit(w)

\* writeJSON returned nil: the new map is committed and Save returns nil.
SaveCommit(w) == At(w, "flushed") /\ Commit(w)

\* The process is gone, in the middle of whatever it was doing.
Down == Crash /\ up' = FALSE /\ writeMu' = NoWriter /\ UNCHANGED mem

Next ==
  \/ Boot
  \/ \E w \in Writer, a \in App, b \in Batch : SaveDiff(w, a, b)
  \/ \E w \in Writer : SaveWrite(w) \/ SaveError(w) \/ SaveCommit(w)
  \/ Down

Spec == Init /\ [][Next]_vars

\* A Save under way goes on: nothing it waits for can block for ever.
FairSpec ==
  /\ Spec
  /\ \A w \in Writer : WF_vars(SaveWrite(w) \/ SaveError(w) \/ SaveCommit(w))

-----------------------------------------------------------------------------
(* Properties *)

\* The types of the variables; while a writer is inside Save it holds writeMu,
\* so that no two of them are inside at a time (file_store.go:73).
TypeOK ==
  /\ up \in BOOLEAN
  /\ mem \in [App -> Data]
  /\ writeMu \in Writer \cup {NoWriter}
  /\ file \in [App -> FileOf(Data)]
  /\ onReboot \in [App -> SUBSET FileOf(Data)]
  /\ call \in [Writer -> CallOf(Data)]
  /\ \A w \in Writer : call[w] # Idle => writeMu = w

\* Whatever crashes between the system calls of atomicWrite, a reader or a
\* reboot finds the old file or the new one whole, never a partial one.
NoTornFile == \A a \in App : file[a] # Torn /\ Torn \notin onReboot[a]

UniqueIds(S) == \A r, s \in S : IdOf[r] = IdOf[s] => r = s

\* The store never holds two reviews of one id, in memory or in any file a
\* boot may find: the summary would count such a review twice.
OnePerId ==
  \A a \in App :
    /\ UniqueIds(mem[a])
    /\ \A f \in onReboot[a] : UniqueIds(Content(f))

\* "restart loses nothing" (file_store.go:18): the reviews an app has been seen
\* with are there after every later step, the restarts included, in the version
\* first stored.  Not so once a boot skips a file (file_store.go:48-51).
RestartLosesNothing == [][\A a \in App : mem[a] \subseteq mem'[a]]_mem

\* "Save appends" (file_store.go:63): a review that is in the file of an app
\* stays there, whatever is saved later and whenever the process dies.
FilesOnlyGrow ==
  [][\A a \in App : Content(file[a]) \subseteq Content(file'[a])]_file

\* "memory and disk never diverge": when no Save is under way, the file of an
\* app holds the reviews that are served.
MemoryMatchesDisk ==
  up /\ writeMu = NoWriter => \A a \in App : Loaded(file[a]) = mem[a]

\* Every path out of Save unlocks writeMu, so no Save waits for it for ever on
\* account of one that failed.
LockIsReleased == []<>(writeMu = NoWriter)

-----------------------------------------------------------------------------
(* The store as a DurableMap: a key is an app, a value its set of reviews. *)

\* One Save adds reviews of ids not stored so far, one for each of them, and
\* neither removes nor replaces what is stored.
Extends(S, T) ==
  /\ S \subseteq T
  /\ \A r \in S, s \in T \ S : IdOf[r] # IdOf[s]
  /\ UniqueIds(T \ S)

\* The reviews of an app that a boot may find.
OnDisk(a) == {Content(f) : f \in onReboot[a]}

\* A boot serves an app empty if the file that holds S cannot be read.
Skipped(S) == IF "read" \in Faults \/ S \in Oversized THEN {{}} ELSE {}

Promise ==
  INSTANCE DurableMap WITH
    Key <- App, Value <- Data, Start <- {{}}, Allowed <- Extends,
    Instead <- Skipped,
    serving <- up, val <- mem, disk <- [a \in App |-> OnDisk(a)]

\* FileStore keeps the promise of DurableMap: a Save that returned nil
\* outlives every crash, and a boot serves what it added last, or what a failed
\* or interrupted Save of the app has written since; nothing instead of them only
\* where the file cannot be read, and it is left for the next boot to find, until
\* the app is saved again.
KeepsPromise == Promise!Spec
=============================================================================
