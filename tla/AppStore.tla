------------------------------- MODULE AppStore -------------------------------
(***************************************************************************)
(* internal/storage/app_store.go: the registry of monitored apps, in       *)
(* memory and mirrored to data/apps.json.                                  *)
(*                                                                         *)
(* A boot loads the file, or, when there is none, writes the seed (APP_IDS)*)
(* before it serves; a file that cannot be read stops the boot.  Add and   *)
(* Remove take writeMu, copy the map with the change (AddDiff, RemoveDiff),*)
(* write the file (the steps of AtomicFile), commit and unlock.  An Add of *)
(* an identical app and a Remove of an absent one return at once and       *)
(* change no state.                                                        *)
(*                                                                         *)
(* acked and asked are history variables: no guard reads them.  They hold  *)
(* what the user has been told and what the user is waiting to be told,    *)
(* which is what a restart has to keep.                                    *)
(***************************************************************************)
CONSTANTS
  App,          \* the app ids
  Meta,         \* what is known of an app besides its id (name, icon)
  NotTracked,   \* marks an app that is not in the registry
  Seeds,        \* the registries that APP_IDS may ask for at a first run
  Writer, NoWriter, Oversized, Faults, DirOpens

Registry == [App -> Meta \cup {NotTracked}]

ASSUME NotTrackedAssumption == NotTracked \notin Meta
ASSUME SeedsAssumption == Seeds \subseteq Registry
ASSUME WriterAssumption == NoWriter \notin Writer

VARIABLES
  up,       \* "down", "seeding" (NewAppStore is writing the seed) or "up"
  reg,      \* the registry in memory; while not up, the one served last
  writeMu,  \* the writer inside Add or Remove, or NoWriter
  file, onReboot, call,
  acked,    \* the registry acknowledged last, in a set that is empty before
  asked     \* app -> what has been asked for since, in a call that goes on
            \* or that failed or was cut off after it reached the disk

RegistryFile == "apps.json"

INSTANCE AtomicFile WITH Path <- {RegistryFile}

ASSUME FaultsAssumption == Faults \subseteq FaultKind
ASSUME DirOpensAssumption == DirOpens \in BOOLEAN

history == <<acked, asked>>
vars == <<up, reg, writeMu, file, onReboot, call, history>>

NoApps == [a \in App |-> NotTracked]
Nothing == [a \in App |-> {}]

Disk == file[RegistryFile]

-----------------------------------------------------------------------------
(* NewAppStore *)

\* Before the first run: nothing was served and there is no file.
Init ==
  /\ up = "down"
  /\ reg = NoApps
  /\ writeMu = NoWriter
  /\ file = [p \in {RegistryFile} |-> Absent]
  /\ onReboot = [p \in {RegistryFile} |-> {Absent}]
  /\ call = [w \in Writer |-> Idle]
  /\ acked = {}
  /\ asked = Nothing

\* What is in memory now is on disk, and who waits for it is told.
Acknowledge(r) == acked' = {r} /\ asked' = Nothing

\* A call has failed or was cut off: what is not on the disk will not come back.
GiveUp ==
  /\ asked' = [a \in App |->
                 {m \in asked[a] : \E f \in onReboot'[RegistryFile] :
                                    f.kind = "whole" /\ f.data[a] = m}]
  /\ UNCHANGED acked

\* The file is there and decodes.  When it is there and does not, or cannot be
\* read, the boot fails and the store stays down.
BootLoad ==
  /\ up = "down"
  /\ Readable(Disk)
  /\ up' = "up"
  /\ reg' = Disk.data
  /\ UNCHANGED <<writeMu, file, onReboot, call, history>>

\* Mutant: the seed is written whether there is a file or not.
BootSeedAlways(w, s) ==
  /\ up = "down"
  /\ up' = "seeding"
  /\ call' = [call EXCEPT ![w] = Begin(RegistryFile, s)]
  /\ UNCHANGED <<reg, writeMu, file, onReboot, history>>

\* There is no file: the boot goroutine w starts to write the seed.
BootSeed(w, s) ==
  /\ up = "down"
  /\ Disk = Absent
  /\ up' = "seeding"
  /\ call' = [call EXCEPT ![w] = Begin(RegistryFile, s)]
  /\ UNCHANGED <<reg, writeMu, file, onReboot, history>>

\* Mutant: the seed is served before it is on disk.
SeedCommitEarly(w) ==
  /\ up = "seeding"
  /\ call[w] # Idle
  /\ up' = "up"
  /\ reg' = call[w].data
  /\ call' = [call EXCEPT ![w] = Idle]
  /\ Acknowledge(reg')
  /\ UNCHANGED <<writeMu, file, onReboot>>

\* The seed is on disk and the store is ready.
SeedCommit(w) ==
  /\ up = "seeding"
  /\ At(w, "flushed")
  /\ up' = "up"
  /\ reg' = call[w].data
  /\ call' = [call EXCEPT ![w] = Idle]
  /\ Acknowledge(reg')
  /\ UNCHANGED <<writeMu, file, onReboot>>

\* Writing the seed failed: main logs it and exits.
SeedError(w) ==
  /\ up = "seeding"
  /\ WriteFails(w)
  /\ up' = "down"
  /\ UNCHANGED <<reg, writeMu, history>>

-----------------------------------------------------------------------------
(* Add and Remove *)

\* The registry r with app a set to m, or taken out of it.
With(r, a, m) == [r EXCEPT ![a] = m]
Without(r, a) == [r EXCEPT ![a] = NotTracked]

\* The caller asks for what next changes.
AskedToo(next) ==
  [a \in App |-> IF next[a] = reg[a] THEN asked[a] ELSE asked[a] \cup {next[a]}]

\* Mutant: Add and Remove do not take writeMu.
LockNot(w, next) ==
  /\ up = "up"
  /\ call[w] = Idle
  /\ writeMu' = w
  /\ call' = [call EXCEPT ![w] = Begin(RegistryFile, next)]
  /\ asked' = AskedToo(next)
  /\ UNCHANGED <<up, reg, file, onReboot, acked>>

Lock(w, next) ==
  /\ up = "up"
  /\ writeMu = NoWriter
  /\ writeMu' = w
  /\ call' = [call EXCEPT ![w] = Begin(RegistryFile, next)]
  /\ asked' = AskedToo(next)
  /\ UNCHANGED <<up, reg, file, onReboot, acked>>

AddDiff(w, a, m) == reg[a] # m /\ Lock(w, With(reg, a, m))

RemoveDiff(w, a) == reg[a] # NotTracked /\ Lock(w, Without(reg, a))

Write(w) == DiskStep(w) /\ UNCHANGED <<up, reg, writeMu, history>>

\* persist returned an error: the caller gets it, memory keeps the old map.
Error(w) ==
  /\ up = "up"
  /\ WriteFails(w)
  /\ writeMu' = NoWriter
  /\ GiveUp
  /\ UNCHANGED <<up, reg>>

\* Mutant: the new map is committed before the directory is flushed.
CommitEarly(w) ==
  /\ up = "up"
  /\ call[w].step \in {"renamed", "flushed"}
  /\ reg' = call[w].data
  /\ call' = [call EXCEPT ![w] = Idle]
  /\ writeMu' = NoWriter
  /\ Acknowledge(reg')
  /\ UNCHANGED <<up, file, onReboot>>

\* persist returned nil: the new map is committed and the caller answered.
Commit(w) ==
  /\ up = "up"
  /\ At(w, "flushed")
  /\ reg' = call[w].data
  /\ call' = [call EXCEPT ![w] = Idle]
  /\ writeMu' = NoWriter
  /\ Acknowledge(reg')
  /\ UNCHANGED <<up, file, onReboot>>

Down ==
  /\ Crash
  /\ up' = "down"
  /\ writeMu' = NoWriter
  /\ GiveUp
  /\ UNCHANGED reg

Next ==
  \/ BootLoad
  \/ \E w \in Writer, s \in Seeds : BootSeed(w, s)
  \/ \E w \in Writer : SeedCommit(w) \/ SeedError(w)
  \/ \E w \in Writer, a \in App, m \in Meta : AddDiff(w, a, m)
  \/ \E w \in Writer, a \in App : RemoveDiff(w, a)
  \/ \E w \in Writer : Write(w) \/ Error(w) \/ Commit(w)
  \/ Down

Spec == Init /\ [][Next]_vars

-----------------------------------------------------------------------------
(* Properties *)

\* The types of the variables; whoever writes the registry is the boot itself
\* or holds writeMu (app_store.go:75, 101).
TypeOK ==
  /\ up \in {"down", "seeding", "up"}
  /\ reg \in Registry
  /\ writeMu \in Writer \cup {NoWriter}
  /\ file \in [{RegistryFile} -> FileOf(Registry)]
  /\ onReboot \in [{RegistryFile} -> SUBSET FileOf(Registry)]
  /\ call \in [Writer -> CallOf(Registry)]
  /\ acked \in SUBSET Registry
  /\ asked \in [App -> SUBSET (Meta \cup {NotTracked})]
  /\ \A w \in Writer : call[w] # Idle => up = "seeding" \/ writeMu = w

\* "The seed is applied only on first run (no file yet)" (app_store.go:17): once
\* the seed has been written or a change acknowledged, no crash can take the
\* file away, so that no later boot mistakes a run for the first one.
SeededOnce == acked # {} => Absent \notin onReboot[RegistryFile]

\* "user add/remove survives restart" (app_store.go:18): whatever crashes, a boot
\* serves the registry acknowledged last, or before any was a seed, in which an
\* app is other than acknowledged only if that was asked for since, by an Add or
\* a Remove that failed or was cut off after it had reached the disk.
Survives(r) ==
  \E s \in (IF acked = {} THEN Seeds ELSE acked) :
    \A a \in App : r[a] \in {s[a]} \cup asked[a]

RestartKeepsRegistry == [][up # "up" /\ up' = "up" => Survives(reg')]_vars

-----------------------------------------------------------------------------
(* The registry as a DurableMap of one key. *)

\* What a boot that finds f may serve.
MayLoad(f) ==
  IF f = Absent THEN Seeds ELSE IF Readable(f) THEN {f.data} ELSE {}

Candidates(R) == UNION {MayLoad(f) : f \in R}

OnDisk == Candidates(onReboot[RegistryFile])

\* A registry that cannot be read is never replaced: the boot fails.
NotSkipped(r) == {}

OneApp(r, s) == \E a \in App : \A b \in App \ {a} : r[b] = s[b]

Promise ==
  INSTANCE DurableMap WITH
    Key <- {RegistryFile}, Value <- Registry, Start <- Seeds \cup {NoApps},
    Allowed <- OneApp, Instead <- NotSkipped,
    serving <- (up = "up"),
    val <- [p \in {RegistryFile} |-> reg],
    disk <- [p \in {RegistryFile} |-> OnDisk]

\* AppStore keeps the promise of DurableMap: an Add or a Remove that returned
\* nil outlives every crash, and a boot serves the registry it made, or what a
\* failed or interrupted change of one app has written since.
KeepsPromise == Promise!Spec
=============================================================================
