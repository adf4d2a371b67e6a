------------------------------ MODULE AtomicFile ------------------------------
(***************************************************************************)
(* internal/storage/storage.go: how both stores put a data file on disk.   *)
(* atomicWrite creates a temp file next to the target, writes it, fsyncs   *)
(* it, renames it over the target and fsyncs the directory.                *)
(*                                                                         *)
(* The module is a sub-module: a store INSTANCEs it, starts a call by      *)
(* setting call[w] to Begin(p, d), and consumes the call when its step is  *)
(* "flushed".  In between, every system call is a step of its own, so that *)
(* a crash or an error can fall between any two of them.                   *)
(*                                                                         *)
(* A file is what a reader of the path finds.  The operating system may    *)
(* have put less on the disk than it shows: onReboot[p] is the set of      *)
(* files that a loss of power may leave at the path.                       *)
(***************************************************************************)
CONSTANTS
  Path,      \* the data files, all in one directory
  Writer,    \* the goroutines that may be inside atomicWrite
  Oversized, \* the contents whose JSON is longer than maxFileBytes
  Faults,    \* what may go wrong, a subset of FaultKind
  DirOpens   \* whether the platform lets the directory be opened for fsync

VARIABLES
  file,      \* path -> the file a reader finds there
  onReboot,  \* path -> the files a loss of power may leave there
  call       \* writer -> its position in atomicWrite

FaultKind == {"io",       \* create, write, fsync, close or rename fails
              "dirSync",  \* opening or syncing the directory fails
              "kill",     \* the process dies, the operating system lives on
              "power",    \* the machine dies
              "read"}     \* a boot cannot read a file that is there

Absent == [kind |-> "absent"]
Torn == [kind |-> "torn"]
Whole(d) == [kind |-> "whole", data |-> d]

\* What a path can hold when the contents written are those in D.
FileOf(D) == {Absent, Torn} \cup {Whole(d) : d \in D}

Step == {"begin", "written", "synced", "renamed", "flushed"}

Idle == [step |-> "idle"]
Begin(p, d) == [step |-> "begin", path |-> p, data |-> d]
CallOf(D) == {Idle} \cup [step : Step, path : Path, data : D]

\* readJSONFile followed by json.Unmarshal succeeds, if the Stat and the
\* ReadFile in it do (a "read" fault is that they do not).
Readable(f) == f.kind = "whole" /\ f.data \notin Oversized

At(w, s) == call[w].step = s
Advance(w, s) == call' = [call EXCEPT ![w].step = s]

-----------------------------------------------------------------------------

\* CreateTemp and Write: the bytes are in the page cache only.
WriteTemp(w) ==
  /\ At(w, "begin")
  /\ Advance(w, "written")
  /\ UNCHANGED <<file, onReboot>>

\* Sync and Close of the temp file.
SyncTemp(w) ==
  /\ At(w, "written")
  /\ Advance(w, "synced")
  /\ UNCHANGED <<file, onReboot>>

\* What a loss of power may leave at the path once c's temp file is renamed
\* over it: the whole content, and a partial one if it was never fsynced.
Landing(c) ==
  {Whole(c.data)} \cup (IF c.step = "synced" THEN {} ELSE {Torn})

RenameOver(w) ==
  LET c == call[w] IN
  /\ file' = [file EXCEPT ![c.path] = Whole(c.data)]
  /\ onReboot' = [onReboot EXCEPT ![c.path] = @ \cup Landing(c)]
  /\ Advance(w, "renamed")

\* Mutant: the temp file is renamed without having been fsynced.
RenameUnsynced(w) == call[w].step \in {"written", "synced"} /\ RenameOver(w)

RenameTemp(w) == At(w, "synced") /\ RenameOver(w)

\* Mutant: the directory is never flushed.
FsyncNothing(w) ==
  At(w, "renamed") /\ Advance(w, "flushed") /\ UNCHANGED <<file, onReboot>>

\* fsyncDir succeeds.  The renames in the directory are on the disk, unless
\* the platform refuses to open it, which the code takes as a success.
FsyncDir(w) ==
  /\ At(w, "renamed")
  /\ onReboot' = IF DirOpens THEN [p \in Path |-> {file[p]}] ELSE onReboot
  /\ Advance(w, "flushed")
  /\ UNCHANGED file

DiskStep(w) == WriteTemp(w) \/ SyncTemp(w) \/ RenameTemp(w) \/ FsyncDir(w)

\* An error before or in the rename: the temp file is removed, the target kept.
FailEarly(w) ==
  /\ "io" \in Faults
  /\ call[w].step \in {"begin", "written", "synced"}
  /\ call' = [call EXCEPT ![w] = Idle]
  /\ UNCHANGED <<file, onReboot>>

\* An error of fsyncDir: the target is already the new file.
FailLate(w) ==
  /\ "dirSync" \in Faults
  /\ At(w, "renamed")
  /\ call' = [call EXCEPT ![w] = Idle]
  /\ UNCHANGED <<file, onReboot>>

WriteFails(w) == FailEarly(w) \/ FailLate(w)

\* The process dies with its goroutines; the temp files it leaves behind are
\* ignored by every later boot.
Kill ==
  /\ "kill" \in Faults
  /\ call' = [w \in Writer |-> Idle]
  /\ UNCHANGED <<file, onReboot>>

\* The machine dies: each path holds one of the files that could be on disk.
PowerLoss ==
  /\ "power" \in Faults
  /\ call' = [w \in Writer |-> Idle]
  /\ file' \in {f \in [Path -> UNION {onReboot[p] : p \in Path}] :
                  \A p \in Path : f[p] \in onReboot[p]}
  /\ onReboot' = [p \in Path |-> {file'[p]}]

Crash == Kill \/ PowerLoss
=============================================================================
