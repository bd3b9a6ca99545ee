------------------------------ MODULE MMInstall ------------------------------
(***************************************************************************)
(* cmd/mm/install.go: mm --install copies the running executable into the  *)
(* user's bin directory and puts it on PATH: on Unix by a marked block in  *)
(* each shell profile, on Windows by a PowerShell command.                 *)
(*                                                                         *)
(* One step per file the installer reads, and one per system call by which *)
(* writeReaderAtomic changes a directory.  Any call may fail, the process  *)
(* may be killed between two of them, and the user may append to a profile *)
(* at any time.  A file is its contents (with the execute bit for the      *)
(* binary); a profile's contents are a sequence of tokens.                 *)
(***************************************************************************)
EXTENDS Integers, FiniteSets, SequencesExt

CONSTANTS
  Absent,         \* no file at a path
  Binary,         \* the destination of the executable
  ProfileFiles,   \* the files the profile paths may resolve to
  Profiles,       \* the body of each profile's block, in the order of the list
  Links,          \* how profile paths may resolve: index -> file
  Texts,          \* what users write into a profile
  OldBodies,      \* block bodies of earlier versions
  FirstDisks,     \* what may be on disk at first: platform -> set of disks
  MaxRuns, MaxFaults, MaxEdits   \* bounds on runs, failing calls and edits

Files   == ProfileFiles \cup {Binary}
Indexes == DOMAIN Profiles
Bodies  == {Profiles[k] : k \in Indexes} \cup OldBodies
Start   == "# >>> mm shortcut >>>"
End     == "# <<< mm shortcut <<<"
Newline == "\n"

\* The executable that runs, as it is installed: mode 0o755.
Mm == [bytes |-> "mm", exec |-> TRUE]
Binaries == [bytes : {"mm", "prior"}, exec : BOOLEAN]
Contents == Seq(Texts \cup Bodies \cup {Start, End, Newline})

\* What may be at a path.
IsDisk(d) ==
  /\ d = [f \in Files |-> d[f]] /\ d[Binary] \in Binaries \cup {Absent}
  /\ \A f \in ProfileFiles : d[f] # Absent => d[f] \in Contents

ASSUME MMInstallAssumption ==
  /\ Len(Profiles) \in Nat \ {0} /\ Indexes = 1..Len(Profiles)
  /\ IsFiniteSet(ProfileFiles) /\ Binary \notin ProfileFiles
  /\ Absent \notin Contents /\ Absent \notin Binaries
  /\ \A platform \in DOMAIN FirstDisks : \A d \in FirstDisks[platform] : IsDisk(d)
  /\ Links \subseteq [Indexes -> ProfileFiles]
  /\ MaxRuns \in Nat /\ MaxFaults \in Nat /\ MaxEdits \in Nat

VARIABLES
  goos,      \* cfg.goos: "unix" or "windows"
  resolve,   \* profileWritePath of each profile
  disk,      \* what is at each path
  temps,     \* the files that have a .mm-* file beside them
  userPath,  \* does the Windows user PATH have the directory?
  pc,        \* where installUnix or installWindows is, "off" when none runs
  mem,       \* its variables
  write,     \* the writeReaderAtomic call in progress
  ended,     \* how the last run ended
  before,    \* the disk as it would be without the last run
  raced,     \* the profiles edited after the running install planned them
  own,       \* what the user wrote into each profile
  faults, runs, edits   \* the bounds' counters

vars == <<goos, resolve, disk, temps, userPath, pc, mem, write, ended, before, raced,
          own, faults, runs, edits>>
fixed == <<goos, resolve, before, own, runs, edits>>

NoPlan  == [changed |-> FALSE, snapshot |-> Absent, updated |-> Absent]
NoWrite == [at |-> "idle", to |-> Binary, data |-> Absent, replace |-> FALSE]
Fresh   == [next |-> 1, plans |-> [k \in Indexes |-> NoPlan], binary |-> Absent,
            changed |-> FALSE, committed |-> 0, broken |-> FALSE]

Data(file) == IF file = Absent THEN <<>> ELSE file

-----------------------------------------------------------------------------
(* planProfileBlock.                                                       *)

Block(body) == <<Start, body, End>>
First(data, token) == SelectInSeq(data, LAMBDA t : t = token)

Incomplete(data) ==
  LET s == First(data, Start)
      e == First(data, End)
  IN  (s > 0) # (e > 0) \/ (s > 0 /\ e < s)

\* A mutant: the end marker is kept behind the new block.
ReplacedBody(data, body) ==
  SubSeq(data, 1, First(data, Start) - 1) \o Block(body)
    \o SubSeq(data, First(data, End), Len(data))

\* The text around the block stays; the part from marker to marker goes.
Replaced(data, body) ==
  SubSeq(data, 1, First(data, Start) - 1) \o Block(body)
    \o SubSeq(data, First(data, End) + 1, Len(data))

Appended(data, body) ==
  (IF data = <<>> THEN <<>>
   ELSE IF Last(data) = Newline THEN data \o <<Newline>>
   ELSE data \o <<Newline, Newline>>) \o Block(body) \o <<Newline>>

\* A mutant: the comparison stops before the end marker.
HasOpenBlock(data, body) ==
  LET s == First(data, Start)
  IN  s > 0 /\ SubSeq(data, s, First(data, End) - 1) = Block(body)

HasBlock(data, body) ==
  LET s == First(data, Start)
  IN  s > 0 /\ SubSeq(data, s, First(data, End)) = Block(body)

\* A mutant: the new block takes the place of the whole profile.
OnlyBlock(data, body) == Block(body) \o <<Newline>>

Updated(data, body) ==
  IF First(data, Start) > 0 THEN Replaced(data, body) ELSE Appended(data, body)

PlanOf(file, body) ==
  IF HasBlock(Data(file), body) THEN [NoPlan EXCEPT !.snapshot = file]
  ELSE [changed |-> TRUE, snapshot |-> file, updated |-> Updated(Data(file), body)]

-----------------------------------------------------------------------------
(* Control.                                                                *)

\* A call fails, if the bound allows one more failure; or it succeeds.
Fails    == faults < MaxFaults /\ faults' = faults + 1
Succeeds == UNCHANGED faults

Running(at) == pc = at /\ write.at = "idle"

\* The install function returns.
Return(result) ==
  /\ pc' = "off" /\ ended' = result
  /\ mem' = Fresh /\ write' = NoWrite

Go(at, m) == pc' = at /\ mem' = m /\ UNCHANGED ended

Call(file, data, replace) ==
  /\ write' = [at |-> "create", to |-> file, data |-> data, replace |-> replace]
  /\ UNCHANGED <<disk, pc, mem, ended>>

-----------------------------------------------------------------------------
(* writeReaderAtomic.                                                      *)

At(step) == write.at = step /\ UNCHANGED <<fixed, raced, userPath, pc, mem, ended>>
Advance(step) == write' = [write EXCEPT !.at = step]

\* MkdirAll and CreateTemp.
CreateTemp ==
  /\ At("create") /\ UNCHANGED disk
  /\ \/ Succeeds /\ temps' = temps \cup {write.to} /\ Advance("fill")
     \/ Fails /\ UNCHANGED temps /\ Advance("failed")

\* Chmod, Copy and Close of the temporary file.
FillTemp ==
  /\ At("fill") /\ UNCHANGED <<disk, temps>>
  /\ \/ Succeeds /\ Advance(IF write.replace THEN "remove" ELSE "rename")
     \/ Fails /\ Advance("drop")

\* Only with replace; there may be no file to remove.
RemoveOld ==
  /\ At("remove") /\ UNCHANGED temps
  /\ \/ Succeeds /\ disk' = [disk EXCEPT ![write.to] = Absent] /\ Advance("rename")
     \/ Fails /\ UNCHANGED disk /\ Advance("drop")

Rename ==
  /\ At("rename")
  /\ \/ /\ Succeeds
        /\ disk' = [disk EXCEPT ![write.to] = write.data]
        /\ temps' = temps \ {write.to}
        /\ Advance("done")
     \/ Fails /\ UNCHANGED <<disk, temps>> /\ Advance("drop")

\* The deferred Remove, whose error is ignored.
DropTemp ==
  /\ At("drop") /\ UNCHANGED disk
  /\ \/ Succeeds /\ temps' = temps \ {write.to}
     \/ Fails /\ UNCHANGED temps
  /\ Advance("failed")

WriteAtomic == CreateTemp \/ FillTemp \/ RemoveOld \/ Rename \/ DropTemp

-----------------------------------------------------------------------------
(* installUnix and installWindows, up to the copy of the executable.       *)

StartInstall ==
  /\ pc = "off" /\ runs < MaxRuns
  /\ pc' = IF goos = "unix" THEN "plan" ELSE "snapshot"
  /\ ended' = "running" /\ before' = disk /\ runs' = runs + 1
  /\ UNCHANGED <<goos, resolve, disk, temps, userPath, mem, write, raced, own, faults, edits>>

Control(at) == Running(at) /\ UNCHANGED <<fixed, raced, temps>>

\* A profile that cannot be read, or whose block is incomplete, ends the run.
PlanProfile ==
  LET k    == mem.next
      file == disk[resolve[k]]
  IN  /\ Control("plan") /\ UNCHANGED <<disk, userPath>>
      /\ \/ /\ Succeeds /\ ~Incomplete(Data(file))
            /\ Go(IF k < Len(Profiles) THEN "plan" ELSE "snapshot",
                  [mem EXCEPT !.plans[k] = PlanOf(file, Profiles[k]), !.next = k + 1])
            /\ UNCHANGED write
         \/ Succeeds /\ Incomplete(Data(file)) /\ Return("failed")
         \/ Fails /\ Return("failed")

SnapshotBinary ==
  /\ Control("snapshot") /\ UNCHANGED <<disk, userPath>>
  /\ \/ /\ Succeeds /\ Go("copy", [mem EXCEPT !.binary = disk[Binary]])
        /\ UNCHANGED write
     \/ Fails /\ Return("failed")

\* A mutant: the index is not set back to the first profile.
CopiedOnly(changed) ==
  Go(IF goos = "unix" THEN "update" ELSE "configure", [mem EXCEPT !.changed = changed])

\* After copyExecutableIfChanged: Unix writes the profiles, Windows sets PATH.
Copied(changed) ==
  Go(IF goos = "unix" THEN "update" ELSE "configure",
     [mem EXCEPT !.changed = changed, !.next = 1])

Same(file) == file # Absent /\ file.bytes = Mm.bytes

\* A mutant: the old executable is removed first on every platform.
ReplaceAlways == TRUE
ReplaceFirst  == goos = "windows"

CopyExecutable ==
  LET file == disk[Binary]
  IN  /\ Control("copy") /\ UNCHANGED userPath
      /\ \/ /\ Succeeds /\ Same(file) /\ (goos = "unix" => file.exec)
            /\ Copied(FALSE) /\ UNCHANGED <<disk, write>>
         \/ /\ Succeeds /\ Same(file) /\ goos = "unix" /\ ~file.exec
            /\ disk' = [disk EXCEPT ![Binary].exec = TRUE]
            /\ Copied(TRUE) /\ UNCHANGED write
         \/ Succeeds /\ ~Same(file) /\ Call(Binary, Mm, ReplaceFirst)
         \/ Fails /\ Return("copy failed") /\ UNCHANGED disk

CopyReturns ==
  /\ pc = "copy" /\ write.at \in {"done", "failed"}
  /\ IF write.at = "done" THEN Copied(TRUE) /\ write' = NoWrite ELSE Return("copy failed")
  /\ UNCHANGED <<fixed, disk, temps, userPath, raced, faults>>

-----------------------------------------------------------------------------
(* The profile updates of installUnix, and rollbackUnixInstall.            *)

\* The first profile from k on that has to change.
Pending(k) == {j \in k..Len(Profiles) : mem.plans[j].changed}
FirstOf(indexes) == CHOOSE k \in indexes : \A j \in indexes : k <= j

UpdateProfile ==
  LET k == FirstOf(Pending(mem.next))
  IN  /\ Control("update") /\ Succeeds /\ UNCHANGED userPath
      /\ IF Pending(mem.next) = {} THEN Return("ok") /\ UNCHANGED disk
         ELSE Call(resolve[k], mem.plans[k].updated, FALSE)

\* Mutants: the last profile written is not undone; only the binary is.
CommittedBefore(k) == [mem EXCEPT !.committed = k - 1, !.next = k + 1]
BinaryFirst        == "restore"

Committed(k) == [mem EXCEPT !.committed = k, !.next = k + 1]
Rollback     == "roll back"

UpdateReturns ==
  LET k == FirstOf(Pending(mem.next))
  IN  /\ pc = "update" /\ write.at \in {"done", "failed"}
      /\ IF write.at = "done" THEN Go("update", Committed(k)) ELSE Go(Rollback, mem)
      /\ write' = NoWrite
      /\ UNCHANGED <<fixed, disk, temps, userPath, raced, faults>>

\* restoreSnapshot, for a file that was not there.
RemoveFile(file, ok) ==
  IF ok THEN Succeeds /\ disk' = [disk EXCEPT ![file] = Absent]
        ELSE Fails /\ UNCHANGED disk

\* A mutant: a file that was not there is written like any other.
RestoreContents(file, snapshot, at, m) == Succeeds /\ Call(file, snapshot, FALSE)

\* restoreSnapshot; every failure is noted and the rollback goes on.
Restore(file, snapshot, at, m) ==
  IF snapshot # Absent THEN Succeeds /\ Call(file, snapshot, FALSE)
  ELSE \E ok \in BOOLEAN :
         /\ RemoveFile(file, ok)
         /\ Go(at, [m EXCEPT !.broken = @ \/ ~ok])
         /\ UNCHANGED write

\* A mutant: the loop's index stands still.
UndoneAgain == mem

Undone == [mem EXCEPT !.committed = @ - 1]

RollBackProfile ==
  LET k == mem.committed
  IN  /\ Control("roll back") /\ k > 0 /\ UNCHANGED userPath
      /\ IF mem.plans[k].changed
         THEN Restore(resolve[k], mem.plans[k].snapshot, "roll back", Undone)
         ELSE Succeeds /\ Go("roll back", Undone) /\ UNCHANGED <<disk, write>>

RollBackReturns ==
  /\ pc = "roll back" /\ write.at \in {"done", "failed"}
  /\ Go("roll back", [Undone EXCEPT !.broken = @ \/ write.at = "failed"])
  /\ write' = NoWrite
  /\ UNCHANGED <<fixed, disk, temps, userPath, raced, faults>>

ProfilesRestored ==
  /\ Control("roll back") /\ mem.committed = 0
  /\ Succeeds /\ Go("restore", mem) /\ UNCHANGED <<disk, userPath, write>>

-----------------------------------------------------------------------------
(* The Windows user PATH, and the binary's restoration on both platforms.  *)

\* windowsPathScript adds the directory unless PATH has it.
ConfigurePath ==
  /\ Control("configure") /\ UNCHANGED disk
  /\ \/ Succeeds /\ userPath' = TRUE /\ Return("ok")
     \/ Fails /\ Go("restore", mem) /\ UNCHANGED <<userPath, write>>

Failure(broken) == IF broken THEN "rollback failed" ELSE "failed"

RestoreBinary ==
  /\ Control("restore") /\ UNCHANGED userPath
  /\ \/ /\ ~mem.changed /\ Succeeds
        /\ Return(Failure(mem.broken)) /\ UNCHANGED disk
     \/ /\ mem.changed /\ mem.binary # Absent /\ Succeeds
        /\ Call(Binary, mem.binary, FALSE)
     \/ /\ mem.changed /\ mem.binary = Absent
        /\ \E ok \in BOOLEAN :
             RemoveFile(Binary, ok) /\ Return(Failure(mem.broken \/ ~ok))

RestoreReturns ==
  /\ pc = "restore" /\ write.at \in {"done", "failed"}
  /\ Return(Failure(mem.broken \/ write.at = "failed"))
  /\ UNCHANGED <<fixed, disk, temps, userPath, raced, faults>>

-----------------------------------------------------------------------------
(* The process's death, and the user.                                      *)

\* A run that is killed after an undo failed is one whose rollback failed.
Kill ==
  /\ pc # "off" /\ Fails /\ Return(IF mem.broken THEN "rollback failed" ELSE "killed")
  /\ UNCHANGED <<fixed, disk, temps, userPath, raced>>

\* A snapshot of the file is in use from its plan to the end of the run.
Planned(f) ==
  /\ pc # "off"
  /\ \E k \in Indexes : resolve[k] = f /\ (pc = "plan" => k < mem.next)

\* The user, or a program of the user's, appends a line to a profile.
Edit(f) ==
  /\ edits < MaxEdits /\ edits' = edits + 1
  /\ \E text \in Texts :
       /\ disk' = [disk EXCEPT ![f] = Data(@) \o <<text, Newline>>]
       /\ before' = [before EXCEPT ![f] = Data(@) \o <<text, Newline>>]
       /\ own' = [own EXCEPT ![f] = Append(@, text)]
  /\ raced' = IF Planned(f) THEN raced \cup {f} ELSE raced
  /\ UNCHANGED <<goos, resolve, temps, userPath, pc, mem, write, ended, faults, runs>>

-----------------------------------------------------------------------------

\* The user's texts among tokens, in their order.
TextsOf(data) ==
  LET upto[n \in 0..Len(data)] ==
        IF n = 0 THEN <<>>
        ELSE IF data[n] \in Texts THEN Append(upto[n - 1], data[n]) ELSE upto[n - 1]
  IN  upto[Len(data)]

\* What is outside the first block.
Outside(data) ==
  IF First(data, Start) = 0 \/ Incomplete(data) THEN data
  ELSE SubSeq(data, 1, First(data, Start) - 1) \o SubSeq(data, First(data, End) + 1, Len(data))

UserText(file) == TextsOf(Outside(Data(file)))

Init ==
  /\ goos \in DOMAIN FirstDisks /\ disk \in FirstDisks[goos]
  /\ resolve \in Links /\ temps = {} /\ userPath = FALSE
  /\ pc = "off" /\ mem = Fresh /\ write = NoWrite
  /\ ended = "never ran" /\ before = disk /\ raced = {}
  /\ own = [f \in ProfileFiles |-> UserText(disk[f])]
  /\ faults = 0 /\ runs = 0 /\ edits = 0

\* What the installer does once it runs.
Install ==
  \/ PlanProfile \/ SnapshotBinary \/ CopyExecutable \/ CopyReturns \/ WriteAtomic
  \/ UpdateProfile \/ UpdateReturns
  \/ RollBackProfile \/ RollBackReturns \/ ProfilesRestored
  \/ ConfigurePath \/ RestoreBinary \/ RestoreReturns

Next == StartInstall \/ Install \/ Kill \/ \E f \in ProfileFiles : Edit(f)

\* A running installer goes on and every system call returns; only the
\* PowerShell process it starts may run for ever.
Spec == Init /\ [][Next]_vars /\ WF_vars(Install /\ pc # "configure")

-----------------------------------------------------------------------------
(* What mm --install promises.                                             *)

\* The type invariant: a call in progress belongs to a stage that makes one,
\* and only planned profiles have been written.
TypeOK ==
  /\ disk[Binary] \in Binaries \cup {Absent}
  /\ \A f \in ProfileFiles : disk[f] # Absent => disk[f] \in Contents
  /\ temps \subseteq Files /\ raced \subseteq ProfileFiles /\ userPath \in BOOLEAN
  /\ pc \in {"off", "plan", "snapshot", "copy", "update", "roll back", "configure", "restore"}
  /\ ended \in {"never ran", "running", "ok", "failed", "copy failed", "rollback failed",
                "killed"}
  /\ mem.next \in 1..(Len(Profiles) + 1) /\ mem.committed \in 0..Len(Profiles)
  /\ write.at # "idle" =>
       /\ pc \in {"copy", "update", "roll back", "restore"}
       /\ write.data # Absent
       /\ write.to = Binary <=> pc \in {"copy", "restore"}
  /\ mem.committed > 0 =>
       pc \in {"update", "roll back"} /\ mem.committed < mem.next

Configures(file, body) ==
  \E i \in 1..(Len(Data(file)) - 2) : SubSeq(Data(file), i, i + 2) = Block(body)

Installed(d) ==
  /\ d[Binary] = Mm
  /\ goos = "unix" => \A k \in Indexes : Configures(d[resolve[k]], Profiles[k])

\* A run that reports success leaves the executable in place and PATH set up
\* in every profile, or on Windows in the user PATH.
SuccessInstalls ==
  pc = "off" /\ ended = "ok" /\ raced = {} =>
    Installed(disk) /\ (goos = "windows" => userPath)

\* Idempotence (README.md:594: "The install is idempotent"): a run that finds
\* everything installed changes no file, and makes no temporary one.
RerunChangesNothing ==
  [][pc # "off" /\ Installed(before) /\ edits' = edits
     => disk' = disk /\ temps' = temps]_vars

\* However runs fail, die and follow one another, no profile gets a second
\* block or half of one (main_test.go:197 counts the markers of two runs).
OneBlock ==
  \A f \in ProfileFiles :
    LET data == Data(disk[f])
        count(token) == Cardinality({i \in DOMAIN data : data[i] = token})
    IN  ~Incomplete(Data(before[f])) =>
          count(Start) <= 1 /\ count(End) = count(Start)

\* What users wrote into a profile is there, in its order, at every moment,
\* unless they wrote it while an install held a snapshot of the profile.
UserTextKept ==
  \A f \in ProfileFiles \ raced : UserText(disk[f]) = own[f]

\* A run that fails and says nothing of its rollback has undone everything
\* (README.md:594-596), but a failed copy on Windows, which has no rollback.
FailureRestores ==
  \/ pc = "off" /\ ended = "failed"
  \/ pc = "off" /\ ended = "copy failed" /\ goos = "unix"
  => \A f \in Files \ raced : disk[f] = before[f]

\* On Unix a binary that is there when a run starts is there all along: the
\* old one or the new one, never neither, even if the run is killed.
BinaryStays ==
  goos = "unix" /\ before[Binary] # Absent => disk[Binary] # Absent

\* Profiles are written after the binary and undone before it: a block that
\* a run added points at the executable the run installed, unless an undo failed.
BlockNeedsBinary ==
  \A k \in Indexes :
    /\ Configures(disk[resolve[k]], Profiles[k])
    /\ ~Configures(before[resolve[k]], Profiles[k])
    /\ ~mem.broken /\ ended # "rollback failed" /\ raced = {}
    => disk[Binary] = Mm

\* Every run comes to an end, through its rollback if need be; it waits for
\* nothing but PowerShell.
InstallEnds == pc # "off" ~> pc \in {"off", "configure"}
=============================================================================
