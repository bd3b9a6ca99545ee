------------------------------ MODULE InstallGo ------------------------------
(***************************************************************************)
(* scripts/install-go.sh: processes that install the Go toolchain under    *)
(* .tools at the same time, through a lock directory that holds a PID.     *)
(*                                                                         *)
(* One step per command that touches a file other processes use.  Any      *)
(* process may be killed between two commands, or interrupted: bash runs   *)
(* its INT and TERM traps after the current command.  A process is its     *)
(* PID; a process that ends may be followed by one with the same PID.      *)
(***************************************************************************)
EXTENDS Naturals, FiniteSets

CONSTANTS
  Procs,      \* PIDs of install-go processes
  Old,        \* the PID of a dead process that left its lock
  Signals,    \* the signals that may arrive, of "INT" and "KILL"
  MaxSignals, \* bound on how many arrive
  MaxStarts   \* bound on how often one PID is used

Absent == "absent"   \* no directory at a path
NoPid  == "no pid"   \* a lock directory with no PID in it, or with none that can be read
Locks  == Procs \cup {Old, NoPid}
Slots  == 0..MaxStarts   \* 0: .stale.$$, n + 1: .stale.$$.n

ASSUME InstallAssumption ==
  /\ Absent \notin Locks /\ NoPid \notin Procs \cup {Old} /\ Old \notin Procs
  /\ Signals \subseteq {"INT", "KILL"}
  /\ MaxSignals \in Nat /\ MaxStarts \in Nat

VARIABLES
  lock,     \* .tools/.install.lock
  copies,   \* the renamed locks .install.lock.stale.*
  dest,     \* .tools/go: Absent, "prior" (not runnable) or "go"
  backup,   \* go.backup.$$
  stage,    \* .go-install.XXXXXX of each process: Absent, "empty" or "go"
  pc,       \* the next command of each process, "off" when it is not running
  mem,      \* the shell variables of each process
  ended,    \* how the PID's last process ended
  starts, signals   \* the bounds' counters

files == <<lock, copies, dest, backup, stage>>
vars  == <<files, pc, mem, ended, starts, signals>>

Fresh ==
  [attempt |-> 1, seen |-> NoPid, slot |-> 0, captured |-> FALSE, held |-> FALSE,
   staged |-> FALSE, named |-> FALSE, saved |-> FALSE, preserve |-> FALSE, rc |-> "ok"]

Acquiring  == {"begin", "mkdir", "own", "read", "probe", "capture", "note", "inspect",
               "test", "restore"}
Installing == {"recover", "sweep stages", "sweep copies", "stage", "fetch", "name", "save",
               "note saved", "install", "drop"}
Cleaning   == {"cleanup", "clear", "unlock"}

Init ==
  /\ lock \in {Absent, Old}
  /\ copies = [path \in Procs \X Slots |-> Absent]
  /\ dest \in {Absent, "prior"}
  /\ backup = [p \in Procs |-> Absent]
  /\ stage = [p \in Procs |-> Absent]
  /\ pc = [p \in Procs |-> "off"]
  /\ mem = [p \in Procs |-> Fresh]
  /\ ended = [p \in Procs |-> "never ran"]
  /\ starts = [p \in Procs |-> 0] /\ signals = 0

-----------------------------------------------------------------------------
(* kill -0, and the shell's way from one command to the next.              *)

Alive(pid) == pid \in Procs /\ pc[pid] # "off"

\* A mutant: a lock without a PID passes for a dead process's.
DeadOrUnwritten(pid) == ~Alive(pid)

\* A PID that is numeric and proven dead.
Dead(pid) == pid \in Procs \cup {Old} /\ ~Alive(pid)

Copy(p) == <<p, mem[p].slot>>

Goto(p, step)    == pc' = [pc EXCEPT ![p] = step]
Set(p, m)        == mem' = [mem EXCEPT ![p] = m]
Step(p, from)    == pc[p] = from /\ UNCHANGED <<ended, starts, signals>>

\* A mutant: a contender that waits for the owner.
WaitForOwner(p, m) == Goto(p, "mkdir") /\ Set(p, m)

\* die, or a command that fails under set -e: on to the EXIT trap.
Die(p, m) == Goto(p, "cleanup") /\ Set(p, [m EXCEPT !.rc = "failed"])

\* The next of three attempts.
Retry(p, m) ==
  IF m.attempt < 3 THEN Goto(p, "mkdir") /\ Set(p, [m EXCEPT !.attempt = @ + 1])
                   ELSE Die(p, m)

-----------------------------------------------------------------------------
(* acquire_lock.                                                           *)

\* A run that finds a runnable Go ends before it creates anything.
Start(p) ==
  /\ pc[p] = "off" /\ dest # "go" /\ starts[p] < MaxStarts
  /\ starts' = [starts EXCEPT ![p] = @ + 1]
  /\ Goto(p, "begin") /\ Set(p, Fresh)
  /\ ended' = [ended EXCEPT ![p] = "running"]
  /\ UNCHANGED <<files, signals>>

\* A copy an earlier process of this PID left is removed if its owner is dead;
\* otherwise this process takes a path with a number.
ChooseCopyPath(p) ==
  LET left == IF Dead(copies[<<p, 0>>]) THEN [copies EXCEPT ![<<p, 0>>] = Absent] ELSE copies
      free == {n \in Slots : left[<<p, n>>] = Absent}
  IN  /\ Step(p, "begin") /\ free # {}
      /\ copies' = left
      /\ Set(p, [mem[p] EXCEPT !.slot = CHOOSE n \in free : \A k \in free : n <= k])
      /\ Goto(p, "mkdir")
      /\ UNCHANGED <<lock, dest, backup, stage>>

MakeLock(p) ==
  /\ Step(p, "mkdir")
  /\ IF lock = Absent THEN lock' = NoPid /\ Goto(p, "own")
                      ELSE UNCHANGED lock /\ Goto(p, "read")
  /\ UNCHANGED <<copies, dest, backup, stage, mem>>

OwnLock(p) ==
  /\ Step(p, "own")
  /\ Set(p, [mem[p] EXCEPT !.held = TRUE])
  /\ Goto(p, "write")
  /\ UNCHANGED files

\* The PID goes into whatever directory has the lock's path now.
WritePid(p) ==
  /\ Step(p, "write")
  /\ IF lock # Absent THEN lock' = p /\ Goto(p, "recover") /\ UNCHANGED mem
                      ELSE Die(p, mem[p]) /\ UNCHANGED lock
  /\ UNCHANGED <<copies, dest, backup, stage>>

ReadPid(p) ==
  /\ Step(p, "read")
  /\ Set(p, [mem[p] EXCEPT !.seen = IF lock = Absent THEN NoPid ELSE lock])
  /\ Goto(p, "probe")
  /\ UNCHANGED files

\* A live owner and an unreadable one end the process.
ProbeOwner(p) ==
  /\ Step(p, "probe")
  /\ IF Dead(mem[p].seen) THEN Goto(p, "capture") /\ UNCHANGED mem
                          ELSE Die(p, mem[p])
  /\ UNCHANGED files

\* The lock is renamed to this process's own path - the lock that is there by
\* now, which need not be the one whose PID was read.
CaptureLock(p) ==
  /\ Step(p, "capture")
  /\ IF lock # Absent
       THEN /\ copies' = [copies EXCEPT ![Copy(p)] = lock] /\ lock' = Absent
            /\ Goto(p, "note") /\ UNCHANGED mem
       ELSE Retry(p, mem[p]) /\ UNCHANGED <<copies, lock>>
  /\ UNCHANGED <<dest, backup, stage>>

NoteCopy(p) ==
  /\ Step(p, "note")
  /\ Set(p, [mem[p] EXCEPT !.captured = TRUE])
  /\ Goto(p, "inspect")
  /\ UNCHANGED files

\* stale_dir="": cleanup will not delete the copy.
DropClaim(m) == [m EXCEPT !.captured = FALSE]

\* A mutant: what was captured is not looked at again.
StaleOnSight(pid) == TRUE

\* Only a captured lock whose owner is dead is deleted.
Stale(pid) == Dead(pid)

InspectCopy(p) ==
  /\ Step(p, "inspect")
  /\ IF Stale(copies[Copy(p)])
       THEN /\ copies' = [copies EXCEPT ![Copy(p)] = Absent]
            /\ Retry(p, DropClaim(mem[p]))
       ELSE Goto(p, "test") /\ UNCHANGED <<copies, mem>>
  /\ UNCHANGED <<lock, dest, backup, stage>>

\* The path of the lock is tested, and then the copy moved there.
TestLockPath(p) ==
  /\ Step(p, "test")
  /\ IF lock = Absent THEN Goto(p, "restore") /\ UNCHANGED mem
                      ELSE Die(p, DropClaim(mem[p]))
  /\ UNCHANGED files

\* mv puts the copy inside a directory that has appeared at the path since.
RestoreLock(p) ==
  /\ Step(p, "restore")
  /\ lock' = IF lock = Absent THEN copies[Copy(p)] ELSE lock
  /\ copies' = [copies EXCEPT ![Copy(p)] = Absent]
  /\ Die(p, DropClaim(mem[p]))
  /\ UNCHANGED <<dest, backup, stage>>

-----------------------------------------------------------------------------
(* Recovery of what a killed run left, under the lock.                     *)

RecoverBackup(p) ==
  /\ Step(p, "recover")
  /\ IF dest # Absent \/ \A q \in Procs : backup[q] = Absent
       THEN backup' = [q \in Procs |-> IF dest # Absent THEN Absent ELSE backup[q]]
            /\ UNCHANGED dest
       ELSE \/ \E q \in Procs :
                 /\ backup[q] # Absent
                 /\ dest' = backup[q] /\ backup' = [backup EXCEPT ![q] = Absent]
            \/ UNCHANGED <<dest, backup>>
  /\ Goto(p, "sweep stages")
  /\ UNCHANGED <<lock, copies, stage, mem>>

SweepStages(p) ==
  /\ Step(p, "sweep stages")
  /\ stage' = [q \in Procs |-> Absent]
  /\ Goto(p, "sweep copies")
  /\ UNCHANGED <<lock, copies, dest, backup, mem>>

SweepCopies(p) ==
  /\ Step(p, "sweep copies")
  /\ copies' = [path \in DOMAIN copies |-> IF Dead(copies[path]) THEN Absent ELSE copies[path]]
  /\ Goto(p, "stage")
  /\ UNCHANGED <<lock, dest, backup, stage, mem>>

-----------------------------------------------------------------------------
(* The new toolchain: staged, verified and swapped in.                     *)

MakeStage(p) ==
  /\ Step(p, "stage")
  /\ stage' = [stage EXCEPT ![p] = "empty"]
  /\ Set(p, [mem[p] EXCEPT !.staged = TRUE])
  /\ Goto(p, "fetch")
  /\ UNCHANGED <<lock, copies, dest, backup>>

\* Download, verify, extract and try out; any of it may fail.
Fetch(p) ==
  /\ Step(p, "fetch")
  /\ \/ /\ stage[p] # Absent /\ stage' = [stage EXCEPT ![p] = "go"]
        /\ Goto(p, "name") /\ UNCHANGED mem
     \/ Die(p, mem[p]) /\ UNCHANGED stage
  /\ UNCHANGED <<lock, copies, dest, backup>>

\* A mutant: the new toolchain is moved onto the prior one.
NeverInTheWay == FALSE

\* Something at the destination has to be moved away first.
InTheWay == dest # Absent

NameBackup(p) ==
  /\ Step(p, "name")
  /\ Set(p, [mem[p] EXCEPT !.named = TRUE])
  /\ Goto(p, IF InTheWay THEN "save" ELSE "install")
  /\ UNCHANGED files

SaveDest(p) ==
  /\ Step(p, "save")
  /\ \/ /\ dest # Absent /\ dest' = Absent
        /\ backup' = [backup EXCEPT ![p] = IF @ = Absent THEN dest ELSE @]
        /\ Goto(p, "note saved") /\ UNCHANGED mem
     \/ Die(p, mem[p]) /\ UNCHANGED <<dest, backup>>
  /\ UNCHANGED <<lock, copies, stage>>

NoteSaved(p) ==
  /\ Step(p, "note saved")
  /\ Set(p, [mem[p] EXCEPT !.saved = TRUE])
  /\ Goto(p, "install")
  /\ UNCHANGED files

\* mv puts the toolchain inside a destination that exists.
Install(p) ==
  /\ Step(p, "install")
  /\ \/ /\ stage[p] = "go" /\ stage' = [stage EXCEPT ![p] = "empty"]
        /\ dest' = IF dest = Absent THEN "go" ELSE dest
        /\ Goto(p, "drop") /\ UNCHANGED mem
     \/ Die(p, mem[p]) /\ UNCHANGED <<dest, stage>>
  /\ UNCHANGED <<lock, copies, backup>>

DropBackup(p) ==
  /\ Step(p, "drop")
  /\ backup' = [backup EXCEPT ![p] = Absent]
  /\ Goto(p, "cleanup")
  /\ UNCHANGED <<lock, copies, dest, stage, mem>>

-----------------------------------------------------------------------------
(* cleanup, the EXIT trap.                                                 *)

RestoreBackup(p) ==
  /\ Step(p, "cleanup")
  /\ IF mem[p].saved /\ backup[p] # Absent /\ dest = Absent
       THEN \/ /\ dest' = backup[p] /\ backup' = [backup EXCEPT ![p] = Absent]
               /\ Set(p, [mem[p] EXCEPT !.named = FALSE])
            \/ /\ Set(p, [mem[p] EXCEPT !.preserve = TRUE, !.rc = "failed"])
               /\ UNCHANGED <<dest, backup>>
       ELSE UNCHANGED <<dest, backup, mem>>
  /\ Goto(p, "clear")
  /\ UNCHANGED <<lock, copies, stage>>

\* Mutants: the only backup is deleted; the stage is forgotten.
OwnBackupAlways(p) == mem[p].named
OwnStageOfSuccess(p) == mem[p].staged /\ mem[p].rc = "ok"

\* What this process may delete on its way out.
OwnBackup(p) == mem[p].named /\ ~mem[p].preserve
OwnStage(p)  == mem[p].staged

ClearOwn(p) ==
  /\ Step(p, "clear")
  /\ backup' = IF OwnBackup(p) THEN [backup EXCEPT ![p] = Absent] ELSE backup
  /\ stage'  = IF OwnStage(p) THEN [stage EXCEPT ![p] = Absent] ELSE stage
  /\ copies' = IF mem[p].captured THEN [copies EXCEPT ![Copy(p)] = Absent] ELSE copies
  /\ Goto(p, "unlock")
  /\ UNCHANGED <<lock, dest, mem>>

\* A holder removes the lock that is there and exits.
Unlock(p) ==
  /\ pc[p] = "unlock"
  /\ lock' = IF mem[p].held THEN Absent ELSE lock
  /\ Goto(p, "off")
  /\ ended' = [ended EXCEPT ![p] = mem[p].rc]
  /\ UNCHANGED <<copies, dest, backup, stage, mem, starts, signals>>

-----------------------------------------------------------------------------
Signal == signals < MaxSignals /\ signals' = signals + 1

\* INT or TERM, trapped until cleanup begins.
Interrupt(p) ==
  /\ "INT" \in Signals /\ Signal
  /\ pc[p] \in Acquiring \cup {"write"} \cup Installing
  /\ Goto(p, "cleanup") /\ Set(p, [mem[p] EXCEPT !.rc = "interrupted"])
  /\ UNCHANGED <<files, ended, starts>>

\* SIGKILL, or a second INT during cleanup.
Kill(p) ==
  /\ "KILL" \in Signals /\ Signal
  /\ pc[p] # "off"
  /\ Goto(p, "off")
  /\ ended' = [ended EXCEPT ![p] = "killed"]
  /\ UNCHANGED <<files, mem, starts>>

Acquire(p) ==
  \/ ChooseCopyPath(p) \/ MakeLock(p) \/ OwnLock(p) \/ WritePid(p)
  \/ ReadPid(p) \/ ProbeOwner(p) \/ CaptureLock(p) \/ NoteCopy(p)
  \/ InspectCopy(p) \/ TestLockPath(p) \/ RestoreLock(p)

InstallUnderLock(p) ==
  \/ RecoverBackup(p) \/ SweepStages(p) \/ SweepCopies(p)
  \/ MakeStage(p) \/ Fetch(p) \/ NameBackup(p) \/ SaveDest(p) \/ NoteSaved(p)
  \/ Install(p) \/ DropBackup(p)

CleanUp(p) == RestoreBackup(p) \/ ClearOwn(p) \/ Unlock(p)

Next ==
  \E p \in Procs :
    \/ Start(p) \/ Acquire(p) \/ InstallUnderLock(p) \/ CleanUp(p)
    \/ Interrupt(p) \/ Kill(p)

\* A running shell goes on to its next command; only a download may hang.
Spec == Init /\ [][Next]_vars /\ \A p \in Procs : WF_vars(Acquire(p))

-----------------------------------------------------------------------------
(* What the installer promises.                                            *)

\* Installs are serialized (line 11): never two processes past acquire_lock.
OneInstaller ==
  \A p, q \in Procs : pc[p] \in Installing /\ pc[q] \in Installing => p = q

HasToolchain == dest # Absent \/ \E p \in Procs : backup[p] # Absent

\* A toolchain that was there stays at its place or in a backup, whatever
\* fails and whenever a process dies (install-go-rollback-test.sh: "Verify
\* failed replacement restores the prior toolchain or preserves its backup").
ToolchainSurvives == [][HasToolchain => HasToolchain']_vars

Places(pid) == {path \in DOMAIN copies : copies[path] = pid}

\* Taking over a stale lock never deletes a live one (lines 18-19: "never
\* deleting a live or unreadable lock"): the lock of a running process is at
\* the lock path or in a copy until that process removes it itself.
LiveLockKept ==
  [][\A q \in Procs :
       /\ lock = q \/ Places(q) # {}
       /\ pc[q] \in Installing /\ pc'[q] \in Installing
       => (lock = q \/ Places(q) # {})']_vars

\* A run that reports success leaves the toolchain it installed.
SuccessInstalls ==
  [][\A p \in Procs : pc[p] = "unlock" /\ ended'[p] = "ok" => dest' = "go"]_vars

\* Ordinary endings and the INT and TERM handlers leave no stage behind, and
\* no backup but one whose restoration failed (lines 260-263).
NoLeftovers ==
  \A p \in Procs : pc[p] = "off" /\ ended[p] \in {"ok", "failed", "interrupted"} =>
    /\ stage[p] = Absent
    /\ backup[p] # Absent => ended[p] = "failed"

\* A lock nobody holds names a dead owner, so that the next run may take it
\* over (lines 262-263: "a now-stale lock whose dead PID the next acquire
\* removes automatically").
AbandonedLockIsStale ==
  (\A p \in Procs : pc[p] = "off") => lock = Absent \/ Dead(lock)

\* Every contender gets the lock or gives up.
AcquireEnds == \A p \in Procs : pc[p] \in Acquiring ~> pc[p] \notin Acquiring
=============================================================================
