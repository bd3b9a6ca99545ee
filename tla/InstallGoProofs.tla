--------------------------- MODULE InstallGoProofs ---------------------------
(***************************************************************************)
(* install-go.sh cleans up after itself, however many processes run, are   *)
(* interrupted or killed, as long as no PID is used a second time.         *)
(* Where two processes run, installs are serialized and a success is       *)
(* installed, whatever signals arrive; where they can only be killed, the  *)
(* prior toolchain survives and no live lock is deleted.                   *)
(***************************************************************************)
EXTENDS InstallGo, WellFoundedInduction, TLAPS

Pcs == Acquiring \cup {"write"} \cup Installing \cup Cleaning \cup {"off"}
Toolchains == {Absent, "prior", "go"}

Memory ==
  [attempt : Nat, seen : Locks, slot : Slots, captured : BOOLEAN, held : BOOLEAN,
   staged : BOOLEAN, named : BOOLEAN, saved : BOOLEAN, preserve : BOOLEAN,
   rc : {"ok", "failed", "interrupted"}]

Types ==
  /\ lock \in Locks \cup {Absent}
  /\ copies \in [Procs \X Slots -> Locks \cup {Absent}]
  /\ dest \in Toolchains /\ backup \in [Procs -> Toolchains]
  /\ stage \in [Procs -> {Absent, "empty", "go"}]
  /\ pc \in [Procs -> Pcs] /\ mem \in [Procs -> Memory]
  /\ ended \in [Procs -> {"never ran", "running", "ok", "failed", "interrupted", "killed"}]
  /\ starts \in [Procs -> Nat] /\ signals \in Nat

\* What a process has made is what it remembers to clear.
Remembered(p) ==
  /\ stage[p] # Absent => mem[p].staged
  /\ backup[p] # Absent => mem[p].named
  /\ pc[p] \in {"save", "note saved", "install", "drop"} => mem[p].named
  /\ mem[p].preserve => mem[p].rc = "failed" /\ pc[p] \in {"clear", "unlock"}
  /\ pc[p] = "unlock" => stage[p] = Absent /\ (backup[p] # Absent => mem[p].rc = "failed")

\* A process that has not run has made nothing, and one that ended by itself
\* has cleared what it made.
Cleared(p) ==
  /\ pc[p] # "off" <=> ended[p] = "running"
  /\ starts[p] = 0 <=> ended[p] = "never ran"
  /\ ended[p] = "never ran" => stage[p] = Absent /\ backup[p] = Absent
  /\ ended[p] = "running" => Remembered(p)
  /\ ended[p] \in {"ok", "failed", "interrupted"} =>
       stage[p] = Absent /\ (backup[p] # Absent => ended[p] = "failed")

CleanInv == Types /\ \A p \in Procs : Cleared(p)

-----------------------------------------------------------------------------
(* Types.                                                                  *)

\* The first free path is one of the paths.
LEMMA FirstFree ==
  ASSUME NEW free \in SUBSET Slots, free # {}
  PROVE  (CHOOSE n \in free : \A k \in free : n <= k) \in free \cap Slots
PROOF
<1>1. free \in SUBSET Nat BY InstallAssumption DEF Slots
<1>2. IsWellFoundedOn(OpToRel(<, Nat), Nat)
  BY NatLessThanWellFounded
<1>3. PICK x \in free : \A y \in free : ~(<<y, x>> \in OpToRel(<, Nat))
  BY <1>1, <1>2, WFMin, Zenon
<1>4. ASSUME NEW y \in free PROVE x <= y
  <2>1. OpToRel(<, Nat) = {ss \in Nat \X Nat : ss[1] < ss[2]}
    BY DEF OpToRel
  <2>2. ~(y < x)
    BY <1>1, <1>3, <2>1
  <2> QED BY <1>1, <2>2
<1>5. \E n \in free : \A k \in free : n <= k BY <1>4
<1>6. (CHOOSE n \in free : \A k \in free : n <= k) \in free BY <1>5
<1> QED BY <1>6

\* A change of one field is a memory again.
LEMMA MemoryFields ==
  ASSUME NEW m \in Memory
  PROVE  /\ [m EXCEPT !.rc = "failed"] \in Memory
         /\ [m EXCEPT !.rc = "interrupted"] \in Memory
         /\ [m EXCEPT !.attempt = @ + 1] \in Memory
         /\ \A s \in Slots : [m EXCEPT !.slot = s] \in Memory
         /\ \A s \in Locks : [m EXCEPT !.seen = s] \in Memory
         /\ \A v \in BOOLEAN :
              /\ [m EXCEPT !.captured = v] \in Memory /\ [m EXCEPT !.held = v] \in Memory
              /\ [m EXCEPT !.staged = v] \in Memory /\ [m EXCEPT !.named = v] \in Memory
              /\ [m EXCEPT !.saved = v] \in Memory
         /\ [m EXCEPT !.preserve = TRUE, !.rc = "failed"] \in Memory
PROOF
<1>1. [m EXCEPT !.rc = "failed"] \in Memory BY DEF Memory
<1>2. [m EXCEPT !.rc = "interrupted"] \in Memory BY DEF Memory
<1>3. [m EXCEPT !.attempt = @ + 1] \in Memory BY DEF Memory
<1>4. ASSUME NEW s \in Slots PROVE [m EXCEPT !.slot = s] \in Memory BY DEF Memory
<1>5. ASSUME NEW s \in Locks PROVE [m EXCEPT !.seen = s] \in Memory BY DEF Memory
<1>6. ASSUME NEW v \in BOOLEAN
      PROVE  /\ [m EXCEPT !.captured = v] \in Memory /\ [m EXCEPT !.held = v] \in Memory
             /\ [m EXCEPT !.staged = v] \in Memory /\ [m EXCEPT !.named = v] \in Memory
             /\ [m EXCEPT !.saved = v] \in Memory
  <2>1. [m EXCEPT !.captured = v] \in Memory BY DEF Memory
  <2>2. [m EXCEPT !.held = v] \in Memory BY DEF Memory
  <2>3. [m EXCEPT !.staged = v] \in Memory BY DEF Memory
  <2>4. [m EXCEPT !.named = v] \in Memory BY DEF Memory
  <2>5. [m EXCEPT !.saved = v] \in Memory BY DEF Memory
  <2> QED BY <2>1, <2>2, <2>3, <2>4, <2>5, Zenon
<1>7. [m EXCEPT !.preserve = TRUE, !.rc = "failed"] \in Memory BY DEF Memory
<1> QED BY <1>1, <1>2, <1>3, <1>4, <1>5, <1>6, <1>7, Zenon

\* Variables that are written for one process only.
OwnOnly(q) ==
  \A p \in Procs \ {q} :
    /\ pc'[p] = pc[p] /\ mem'[p] = mem[p] /\ ended'[p] = ended[p] /\ starts'[p] = starts[p]
    /\ stage'[p] \in {stage[p], Absent} /\ backup'[p] \in {backup[p], Absent}

\* What a process does leaves another one cleared, unless it takes from it.
LEMMA OthersStayCleared ==
  ASSUME CleanInv, NEW q \in Procs, OwnOnly(q), NEW p \in Procs, p # q
  PROVE  Cleared(p)'
PROOF
<1>1. /\ pc'[p] = pc[p] /\ mem'[p] = mem[p] /\ ended'[p] = ended[p] /\ starts'[p] = starts[p]
      /\ stage'[p] \in {stage[p], Absent} /\ backup'[p] \in {backup[p], Absent}
  BY Zenon DEF OwnOnly
<1>2. stage'[p] # Absent => stage[p] # Absent
  BY <1>1, Zenon
<1>3. backup'[p] # Absent => backup[p] # Absent
  BY <1>1, Zenon
<1>4. stage[p] = Absent => stage'[p] = Absent
  BY <1>2, Zenon
<1>5. backup[p] = Absent => backup'[p] = Absent
  BY <1>3, Zenon
<1>6. Cleared(p)
  BY Zenon DEF CleanInv
<1>7. Remembered(p) => Remembered(p)'
  BY <1>1, <1>2, <1>3, <1>4, Zenon DEF Remembered
<1> QED
  <2>1. (pc[p] # "off" <=> ended[p] = "running")' /\ (starts[p] = 0 <=> ended[p] = "never ran")'
    BY <1>1, <1>6, Zenon DEF Cleared
  <2>2. (ended[p] = "never ran" => stage[p] = Absent /\ backup[p] = Absent)'
    BY <1>1, <1>4, <1>5, <1>6, Zenon DEF Cleared
  <2>3. (ended[p] = "running" => Remembered(p))'
    BY <1>1, <1>6, <1>7, Zenon DEF Cleared
  <2>4. (ended[p] \in {"ok", "failed", "interrupted"} =>
           stage[p] = Absent /\ (backup[p] # Absent => ended[p] = "failed"))'
    BY <1>1, <1>3, <1>4, <1>6, Zenon DEF Cleared
  <2> QED BY <2>1, <2>2, <2>3, <2>4, Zenon DEF Cleared

\* The shell goes on to a command.
LEMMA Going ==
  ASSUME Types, NEW q \in Procs, NEW step \in Pcs, Goto(q, step)
  PROVE  /\ pc' \in [Procs -> Pcs] /\ pc'[q] = step
         /\ \A p \in Procs \ {q} : pc'[p] = pc[p]
BY DEF Types, Goto

\* A process sets its variables.
LEMMA Setting ==
  ASSUME Types, NEW q \in Procs, NEW m \in Memory, Set(q, m)
  PROVE  /\ mem' \in [Procs -> Memory] /\ mem'[q] = m
         /\ \A p \in Procs \ {q} : mem'[p] = mem[p]
BY DEF Types, Set

\* die, and the next attempt.
LEMMA Dying ==
  ASSUME Types, NEW q \in Procs, NEW m \in Memory, Die(q, m)
  PROVE  /\ pc' \in [Procs -> Pcs] /\ pc'[q] = "cleanup"
         /\ mem' \in [Procs -> Memory] /\ mem'[q] = [m EXCEPT !.rc = "failed"]
         /\ \A p \in Procs \ {q} : pc'[p] = pc[p] /\ mem'[p] = mem[p]
PROOF
<1>1. "cleanup" \in Pcs BY DEF Pcs, Cleaning
<1>2. [m EXCEPT !.rc = "failed"] \in Memory BY MemoryFields, Zenon
<1>3. Goto(q, "cleanup") /\ Set(q, [m EXCEPT !.rc = "failed"]) BY DEF Die
<1>4. /\ pc' \in [Procs -> Pcs] /\ pc'[q] = "cleanup"
      /\ \A p \in Procs \ {q} : pc'[p] = pc[p]
  BY <1>1, <1>3, Going, Zenon
<1>5. /\ mem' \in [Procs -> Memory] /\ mem'[q] = [m EXCEPT !.rc = "failed"]
      /\ \A p \in Procs \ {q} : mem'[p] = mem[p]
  BY <1>2, <1>3, Setting, Zenon
<1> QED BY <1>4, <1>5, Zenon

\* What a process will clear is the same.
SameClaims(m, n) == m.staged = n.staged /\ m.named = n.named /\ m.preserve = n.preserve

\* The next attempt starts over, or the process dies.
LEMMA Retrying ==
  ASSUME Types, NEW q \in Procs, NEW m \in Memory, Retry(q, m)
  PROVE  /\ pc' \in [Procs -> Pcs] /\ pc'[q] \in {"mkdir", "cleanup"}
         /\ mem' \in [Procs -> Memory] /\ SameClaims(mem'[q], m)
         /\ \A p \in Procs \ {q} : pc'[p] = pc[p] /\ mem'[p] = mem[p]
PROOF
<1>1. CASE m.attempt < 3
  <2>1. "mkdir" \in Pcs BY DEF Pcs, Acquiring
  <2>2. [m EXCEPT !.attempt = @ + 1] \in Memory BY MemoryFields, Zenon
  <2>3. Goto(q, "mkdir") /\ Set(q, [m EXCEPT !.attempt = @ + 1]) BY <1>1 DEF Retry
  <2>4. /\ pc' \in [Procs -> Pcs] /\ pc'[q] = "mkdir"
        /\ \A p \in Procs \ {q} : pc'[p] = pc[p]
    BY <2>1, <2>3, Going, Zenon
  <2>5. /\ mem' \in [Procs -> Memory] /\ mem'[q] = [m EXCEPT !.attempt = @ + 1]
        /\ \A p \in Procs \ {q} : mem'[p] = mem[p]
    BY <2>2, <2>3, Setting, Zenon
  <2>6. SameClaims([m EXCEPT !.attempt = @ + 1], m) BY DEF Memory, SameClaims
  <2> QED BY <2>4, <2>5, <2>6, Zenon
<1>2. CASE ~(m.attempt < 3)
  <2>1. Die(q, m) BY <1>2 DEF Retry
  <2>2. SameClaims([m EXCEPT !.rc = "failed"], m) BY DEF Memory, SameClaims
  <2> QED BY <2>1, <2>2, Dying, Zenon
<1> QED BY <1>1, <1>2


-----------------------------------------------------------------------------
(* Steps of acquire_lock.                                                  *)

\* What a step of the shell does to the process that takes it.
Moves(q, from, to) ==
  /\ pc[q] \in from /\ pc' \in [Procs -> Pcs] /\ pc'[q] \in to
  /\ \A p \in Procs \ {q} : pc'[p] = pc[p]
  /\ mem' \in [Procs -> Memory] /\ \A p \in Procs \ {q} : mem'[p] = mem[p]

LockTypes ==
  lock' \in Locks \cup {Absent} /\ copies' \in [Procs \X Slots -> Locks \cup {Absent}]

\* A command that succeeds moves its process only.
LEMMA MovingOn ==
  ASSUME Types, NEW q \in Procs, NEW step \in Pcs, Goto(q, step),
         NEW m \in Memory, Set(q, m) \/ (UNCHANGED mem /\ m = mem[q])
  PROVE  Moves(q, {pc[q]}, {step}) /\ mem'[q] = m
PROOF
<1>1. /\ pc' \in [Procs -> Pcs] /\ pc'[q] = step
      /\ \A p \in Procs \ {q} : pc'[p] = pc[p]
  BY Going, Zenon
<1>2. /\ mem' \in [Procs -> Memory] /\ mem'[q] = m
      /\ \A p \in Procs \ {q} : mem'[p] = mem[p]
  <2>1. CASE Set(q, m) BY <2>1, Setting, Zenon
  <2>2. CASE UNCHANGED mem /\ m = mem[q] BY <2>2 DEF Types
  <2> QED BY <2>1, <2>2
<1> QED BY <1>1, <1>2 DEF Moves

\* So does one that fails.
LEMMA MovingOff ==
  ASSUME Types, NEW q \in Procs, NEW m \in Memory, Die(q, m)
  PROVE  Moves(q, {pc[q]}, {"cleanup"}) /\ mem'[q] = [m EXCEPT !.rc = "failed"]
BY Dying DEF Moves

AcquireSteps == Acquiring \cup {"write"}

\* So does every command of acquire_lock, and it claims nothing to clear.
LEMMA AcquireMoves ==
  ASSUME Types, NEW q \in Procs, Acquire(q)
  PROVE  /\ Moves(q, AcquireSteps, AcquireSteps \cup {"recover", "cleanup"})
         /\ SameClaims(mem'[q], mem[q]) /\ LockTypes
         /\ UNCHANGED <<dest, backup, stage, ended, starts, signals>>
PROOF
<1> DEFINE to == AcquireSteps \cup {"recover", "cleanup"}
           Goal == /\ Moves(q, AcquireSteps, to)
                   /\ SameClaims(mem'[q], mem[q]) /\ LockTypes
                   /\ UNCHANGED <<dest, backup, stage, ended, starts, signals>>
<1>m. mem[q] \in Memory BY DEF Types
<1>p. AcquireSteps \cup to \subseteq Pcs
  BY DEF AcquireSteps, Pcs, Acquiring, Installing, Cleaning
<1>c. Copy(q) \in Procs \X Slots
  BY <1>m DEF Copy, Memory
<1>s. /\ \A s \in Slots : SameClaims([mem[q] EXCEPT !.slot = s], mem[q])
      /\ \A s \in Locks : SameClaims([mem[q] EXCEPT !.seen = s], mem[q])
      /\ \A v \in BOOLEAN : /\ SameClaims([mem[q] EXCEPT !.captured = v], mem[q])
                            /\ SameClaims([mem[q] EXCEPT !.held = v], mem[q])
      /\ SameClaims([mem[q] EXCEPT !.rc = "failed"], mem[q])
      /\ SameClaims([[mem[q] EXCEPT !.captured = FALSE] EXCEPT !.rc = "failed"], mem[q])
      /\ SameClaims([mem[q] EXCEPT !.captured = FALSE], mem[q])
      /\ SameClaims(mem[q], mem[q])
  BY <1>m DEF Memory, SameClaims
<1>d. DropClaim(mem[q]) \in Memory /\ DropClaim(mem[q]) = [mem[q] EXCEPT !.captured = FALSE]
  BY <1>m, MemoryFields DEF DropClaim
<1>1. ASSUME ChooseCopyPath(q) PROVE Goal
  <2> DEFINE left == IF Dead(copies[<<q, 0>>]) THEN [copies EXCEPT ![<<q, 0>>] = Absent]
                                               ELSE copies
             free == {n \in Slots : left[<<q, n>>] = Absent}
             first == CHOOSE n \in free : \A k \in free : n <= k
  <2>1. /\ pc[q] = "begin" /\ UNCHANGED <<ended, starts, signals>>
        /\ free # {} /\ copies' = left /\ Set(q, [mem[q] EXCEPT !.slot = first])
        /\ Goto(q, "mkdir") /\ UNCHANGED <<lock, dest, backup, stage>>
    BY <1>1 DEF ChooseCopyPath, Step
  <2>2. left \in [Procs \X Slots -> Locks \cup {Absent}]
    BY DEF Types
  <2> HIDE DEF left
  <2>3. first \in Slots
    BY <2>1, FirstFree
  <2> HIDE DEF first
  <2>4. [mem[q] EXCEPT !.slot = first] \in Memory BY <1>m, <2>3, MemoryFields
  <2>5. "mkdir" \in Pcs BY DEF Pcs, Acquiring
  <2>6. Moves(q, {pc[q]}, {"mkdir"}) /\ mem'[q] = [mem[q] EXCEPT !.slot = first]
    BY <2>1, <2>4, <2>5, MovingOn, Zenon
  <2>7. LockTypes BY <2>1, <2>2 DEF LockTypes, Types
  <2>8. SameClaims(mem'[q], mem[q]) BY <2>6, <2>3, <1>s, Zenon
  <2> QED BY <2>1, <2>6, <2>7, <2>8 DEF Moves, AcquireSteps, Acquiring
<1>2. ASSUME MakeLock(q) PROVE Goal
  <2>1. PICK step \in {"own", "read"} : Goto(q, step)
    BY <1>2 DEF MakeLock
  <2>2. /\ pc[q] = "mkdir" /\ lock' \in {lock, NoPid} /\ UNCHANGED mem
        /\ UNCHANGED <<copies, dest, backup, stage, ended, starts, signals>>
    BY <1>2 DEF MakeLock, Step
  <2>3. step \in Pcs BY DEF Pcs, Acquiring
  <2>4. Moves(q, {pc[q]}, {step}) /\ mem'[q] = mem[q]
    BY <1>m, <2>1, <2>2, <2>3, MovingOn, Zenon
  <2>5. LockTypes BY <2>2 DEF LockTypes, Types, Locks
  <2> QED BY <1>s, <2>2, <2>4, <2>5 DEF Moves, AcquireSteps, Acquiring
<1>3. ASSUME OwnLock(q) PROVE Goal
  <2>1. /\ pc[q] = "own" /\ Set(q, [mem[q] EXCEPT !.held = TRUE]) /\ Goto(q, "write")
        /\ UNCHANGED <<lock, copies, dest, backup, stage, ended, starts, signals>>
    BY <1>3 DEF OwnLock, Step, files
  <2>2. "write" \in Pcs /\ [mem[q] EXCEPT !.held = TRUE] \in Memory
    BY <1>m, MemoryFields DEF Pcs
  <2>3. Moves(q, {pc[q]}, {"write"}) /\ mem'[q] = [mem[q] EXCEPT !.held = TRUE]
    BY <2>1, <2>2, MovingOn, Zenon
  <2>4. LockTypes BY <2>1 DEF LockTypes, Types
  <2> QED BY <1>s, <2>1, <2>3, <2>4 DEF Moves, AcquireSteps, Acquiring
<1>4. ASSUME WritePid(q) PROVE Goal
  <2>1. /\ pc[q] = "write" /\ lock' \in {lock, q}
        /\ UNCHANGED <<copies, dest, backup, stage, ended, starts, signals>>
        /\ (Goto(q, "recover") /\ UNCHANGED mem) \/ Die(q, mem[q])
    BY <1>4 DEF WritePid, Step
  <2>2. LockTypes BY <2>1 DEF LockTypes, Types, Locks
  <2>3. ASSUME Goto(q, "recover"), UNCHANGED mem PROVE Goal
    <3>1. "recover" \in Pcs BY DEF Pcs, Installing
    <3>2. Moves(q, {pc[q]}, {"recover"}) /\ mem'[q] = mem[q]
      BY <1>m, <2>3, <3>1, MovingOn, Zenon
    <3> QED BY <1>s, <2>1, <2>2, <3>2 DEF Moves, AcquireSteps
  <2>4. ASSUME Die(q, mem[q]) PROVE Goal
    <3>1. Moves(q, {pc[q]}, {"cleanup"}) /\ mem'[q] = [mem[q] EXCEPT !.rc = "failed"]
      BY <1>m, <2>4, MovingOff, Zenon
    <3> QED BY <1>s, <2>1, <2>2, <3>1 DEF Moves, AcquireSteps
  <2> QED BY <2>1, <2>3, <2>4
<1>5. ASSUME ReadPid(q) PROVE Goal
  <2> DEFINE it == IF lock = Absent THEN NoPid ELSE lock
  <2>1. /\ pc[q] = "read" /\ Set(q, [mem[q] EXCEPT !.seen = it]) /\ Goto(q, "probe")
        /\ UNCHANGED <<lock, copies, dest, backup, stage, ended, starts, signals>>
    BY <1>5 DEF ReadPid, Step, files
  <2>2. it \in Locks BY DEF Types, Locks
  <2> HIDE DEF it
  <2>3. "probe" \in Pcs /\ [mem[q] EXCEPT !.seen = it] \in Memory
    BY <1>m, <2>2, MemoryFields DEF Pcs, Acquiring
  <2>4. Moves(q, {pc[q]}, {"probe"}) /\ mem'[q] = [mem[q] EXCEPT !.seen = it]
    BY <2>1, <2>3, MovingOn, Zenon
  <2>5. LockTypes BY <2>1 DEF LockTypes, Types
  <2> QED BY <1>s, <2>1, <2>2, <2>4, <2>5 DEF Moves, AcquireSteps, Acquiring
<1>6. ASSUME ProbeOwner(q) PROVE Goal
  <2>1. /\ pc[q] = "probe"
        /\ UNCHANGED <<lock, copies, dest, backup, stage, ended, starts, signals>>
        /\ (Goto(q, "capture") /\ UNCHANGED mem) \/ Die(q, mem[q])
    BY <1>6 DEF ProbeOwner, Step, files
  <2>2. LockTypes BY <2>1 DEF LockTypes, Types
  <2>3. ASSUME Goto(q, "capture"), UNCHANGED mem PROVE Goal
    <3>1. "capture" \in Pcs BY DEF Pcs, Acquiring
    <3>2. Moves(q, {pc[q]}, {"capture"}) /\ mem'[q] = mem[q]
      BY <1>m, <2>3, <3>1, MovingOn, Zenon
    <3> QED BY <1>s, <2>1, <2>2, <3>2 DEF Moves, AcquireSteps, Acquiring
  <2>4. ASSUME Die(q, mem[q]) PROVE Goal
    <3>1. Moves(q, {pc[q]}, {"cleanup"}) /\ mem'[q] = [mem[q] EXCEPT !.rc = "failed"]
      BY <1>m, <2>4, MovingOff, Zenon
    <3> QED BY <1>s, <2>1, <2>2, <3>1 DEF Moves, AcquireSteps, Acquiring
  <2> QED BY <2>1, <2>3, <2>4
<1>r. ASSUME NEW m \in Memory, SameClaims(m, mem[q]), Retry(q, m), pc[q] \in AcquireSteps
      PROVE  Moves(q, AcquireSteps, to) /\ SameClaims(mem'[q], mem[q])
  <2>1. /\ pc' \in [Procs -> Pcs] /\ pc'[q] \in {"mkdir", "cleanup"}
        /\ mem' \in [Procs -> Memory] /\ SameClaims(mem'[q], m)
        /\ \A p \in Procs \ {q} : pc'[p] = pc[p] /\ mem'[p] = mem[p]
    BY <1>r, Retrying, Zenon
  <2> QED BY <1>r, <2>1 DEF Moves, AcquireSteps, Acquiring, SameClaims
<1>7. ASSUME CaptureLock(q) PROVE Goal
  <2>1. /\ pc[q] = "capture" /\ UNCHANGED <<dest, backup, stage, ended, starts, signals>>
        /\ \/ /\ lock # Absent /\ copies' = [copies EXCEPT ![Copy(q)] = lock]
              /\ lock' = Absent /\ Goto(q, "note") /\ UNCHANGED mem
           \/ Retry(q, mem[q]) /\ UNCHANGED <<copies, lock>>
    BY <1>7 DEF CaptureLock, Step
  <2>2. LockTypes BY <2>1, <1>c DEF LockTypes, Types
  <2>3. ASSUME Goto(q, "note"), UNCHANGED mem PROVE Goal
    <3>1. "note" \in Pcs BY DEF Pcs, Acquiring
    <3>2. Moves(q, {pc[q]}, {"note"}) /\ mem'[q] = mem[q]
      BY <1>m, <2>3, <3>1, MovingOn, Zenon
    <3> QED BY <1>s, <2>1, <2>2, <3>2 DEF Moves, AcquireSteps, Acquiring
  <2>4. ASSUME Retry(q, mem[q]) PROVE Goal
    BY <1>m, <1>s, <1>r, <2>1, <2>2, <2>4 DEF AcquireSteps, Acquiring
  <2> QED BY <2>1, <2>3, <2>4
<1>8. ASSUME NoteCopy(q) PROVE Goal
  <2>1. /\ pc[q] = "note" /\ Set(q, [mem[q] EXCEPT !.captured = TRUE]) /\ Goto(q, "inspect")
        /\ UNCHANGED <<lock, copies, dest, backup, stage, ended, starts, signals>>
    BY <1>8 DEF NoteCopy, Step, files
  <2>2. "inspect" \in Pcs /\ [mem[q] EXCEPT !.captured = TRUE] \in Memory
    BY <1>m, MemoryFields DEF Pcs, Acquiring
  <2>3. Moves(q, {pc[q]}, {"inspect"}) /\ mem'[q] = [mem[q] EXCEPT !.captured = TRUE]
    BY <2>1, <2>2, MovingOn, Zenon
  <2>4. LockTypes BY <2>1 DEF LockTypes, Types
  <2> QED BY <1>s, <2>1, <2>3, <2>4 DEF Moves, AcquireSteps, Acquiring
<1>9. ASSUME InspectCopy(q) PROVE Goal
  <2>1. /\ pc[q] = "inspect"
        /\ UNCHANGED <<lock, dest, backup, stage, ended, starts, signals>>
        /\ \/ /\ copies' = [copies EXCEPT ![Copy(q)] = Absent]
              /\ Retry(q, DropClaim(mem[q]))
           \/ Goto(q, "test") /\ UNCHANGED <<copies, mem>>
    BY <1>9 DEF InspectCopy, Step
  <2>2. LockTypes BY <2>1 DEF LockTypes, Types
  <2>3. ASSUME Goto(q, "test"), UNCHANGED mem PROVE Goal
    <3>1. "test" \in Pcs BY DEF Pcs, Acquiring
    <3>2. Moves(q, {pc[q]}, {"test"}) /\ mem'[q] = mem[q]
      BY <1>m, <2>3, <3>1, MovingOn, Zenon
    <3> QED BY <1>s, <2>1, <2>2, <3>2 DEF Moves, AcquireSteps, Acquiring
  <2>4. ASSUME Retry(q, DropClaim(mem[q])) PROVE Goal
    <3>1. SameClaims(DropClaim(mem[q]), mem[q]) BY <1>s, <1>d
    <3>2. pc[q] \in AcquireSteps BY <2>1 DEF AcquireSteps, Acquiring
    <3>3. Moves(q, AcquireSteps, to) /\ SameClaims(mem'[q], mem[q])
      BY <1>d, <1>r, <2>4, <3>1, <3>2, Zenon
    <3> QED BY <2>1, <2>2, <3>3
  <2> QED BY <2>1, <2>3, <2>4
<1>e. ASSUME Die(q, DropClaim(mem[q])), pc[q] \in AcquireSteps
      PROVE  Moves(q, AcquireSteps, to) /\ SameClaims(mem'[q], mem[q])
  <2>1. Moves(q, {pc[q]}, {"cleanup"}) /\ mem'[q] = [DropClaim(mem[q]) EXCEPT !.rc = "failed"]
    BY <1>d, <1>e, MovingOff, Zenon
  <2>2. SameClaims(mem'[q], mem[q]) BY <1>d, <1>s, <2>1
  <2> QED BY <1>e, <2>1, <2>2 DEF Moves
<1>10. ASSUME TestLockPath(q) PROVE Goal
  <2>1. /\ pc[q] = "test"
        /\ UNCHANGED <<lock, copies, dest, backup, stage, ended, starts, signals>>
        /\ (Goto(q, "restore") /\ UNCHANGED mem) \/ Die(q, DropClaim(mem[q]))
    BY <1>10 DEF TestLockPath, Step, files
  <2>2. LockTypes BY <2>1 DEF LockTypes, Types
  <2>3. ASSUME Goto(q, "restore"), UNCHANGED mem PROVE Goal
    <3>1. "restore" \in Pcs BY DEF Pcs, Acquiring
    <3>2. Moves(q, {pc[q]}, {"restore"}) /\ mem'[q] = mem[q]
      BY <1>m, <2>3, <3>1, MovingOn, Zenon
    <3> QED BY <1>s, <2>1, <2>2, <3>2 DEF Moves, AcquireSteps, Acquiring
  <2>4. ASSUME Die(q, DropClaim(mem[q])) PROVE Goal
    BY <1>e, <2>1, <2>2, <2>4 DEF AcquireSteps, Acquiring
  <2> QED BY <2>1, <2>3, <2>4
<1>11. ASSUME RestoreLock(q) PROVE Goal
  <2>1. /\ pc[q] = "restore" /\ lock' \in {copies[Copy(q)], lock}
        /\ copies' = [copies EXCEPT ![Copy(q)] = Absent]
        /\ UNCHANGED <<dest, backup, stage, ended, starts, signals>>
        /\ Die(q, DropClaim(mem[q]))
    BY <1>11 DEF RestoreLock, Step
  <2>2. LockTypes BY <1>c, <2>1 DEF LockTypes, Types
  <2> QED BY <1>e, <2>1, <2>2 DEF AcquireSteps, Acquiring
<1> QED
  BY <1>1, <1>2, <1>3, <1>4, <1>5, <1>6, <1>7, <1>8, <1>9, <1>10, <1>11 DEF Acquire


-----------------------------------------------------------------------------
(* Every step leaves everything remembered or cleared.                     *)

\* The process that moves has to show that it is cleared.
LEMMA StepKeeps ==
  ASSUME CleanInv, NEW q \in Procs, Types', OwnOnly(q), Cleared(q)'
  PROVE  CleanInv'
PROOF
<1>1. ASSUME NEW p \in Procs PROVE Cleared(p)'
  <2>1. CASE p = q BY <2>1
  <2>2. CASE p # q BY <2>2, OthersStayCleared
  <2> QED BY <2>1, <2>2
<1> QED BY <1>1 DEF CleanInv

\* acquire_lock makes nothing that cleanup has to clear.
LEMMA AcquireKeeps ==
  ASSUME CleanInv, NEW q \in Procs, Acquire(q) PROVE CleanInv'
PROOF
<1>1. Types BY DEF CleanInv
<1>2. /\ Moves(q, AcquireSteps, AcquireSteps \cup {"recover", "cleanup"})
      /\ SameClaims(mem'[q], mem[q]) /\ LockTypes
      /\ UNCHANGED <<dest, backup, stage, ended, starts, signals>>
  BY <1>1, AcquireMoves, Zenon
<1>3. Types' BY <1>1, <1>2 DEF Types, Moves, LockTypes
<1>4. OwnOnly(q) BY <1>2 DEF OwnOnly, Moves
<1>5. Cleared(q)'
  <2>1. pc[q] \in AcquireSteps /\ pc'[q] \in AcquireSteps \cup {"recover", "cleanup"}
    BY <1>2 DEF Moves
  <2>2. Cleared(q) BY DEF CleanInv
  <2>3. pc[q] # "off" /\ pc'[q] # "off" BY <2>1 DEF AcquireSteps, Acquiring
  <2>4. Remembered(q) /\ ~mem[q].preserve
    BY <2>1, <2>2, <2>3 DEF Cleared, Remembered, AcquireSteps, Acquiring
  <2>5. pc'[q] \notin {"save", "note saved", "install", "drop", "clear", "unlock"}
    BY <2>1 DEF AcquireSteps, Acquiring
  <2>6. ~mem'[q].preserve BY <1>2, <2>4, Zenon DEF SameClaims
  <2>7. (stage'[q] # Absent => mem'[q].staged) /\ (backup'[q] # Absent => mem'[q].named)
    BY <1>2, <2>4 DEF SameClaims, Remembered
  <2>8. Remembered(q)' BY <2>5, <2>6, <2>7 DEF Remembered
  <2> QED BY <1>2, <2>2, <2>3, <2>8 DEF Cleared
<1> QED BY <1>3, <1>4, <1>5, StepKeeps

\* What a step of a running process has to leave.
LEMMA RunningKeeps ==
  ASSUME CleanInv, NEW q \in Procs, NEW step \in Pcs \ {"off"}, pc[q] # "off",
         NEW m \in Memory, Moves(q, {pc[q]}, {step}), mem'[q] = m,
         UNCHANGED <<ended, starts, signals>>, LockTypes, dest' \in Toolchains,
         stage' \in [Procs -> {Absent, "empty", "go"}], backup' \in [Procs -> Toolchains],
         \A p \in Procs \ {q} :
           stage'[p] \in {stage[p], Absent} /\ backup'[p] \in {backup[p], Absent},
         stage'[q] # Absent => m.staged, backup'[q] # Absent => m.named,
         step \in {"save", "note saved", "install", "drop"} => m.named,
         m.preserve => m.rc = "failed" /\ step \in {"clear", "unlock"},
         step = "unlock" => stage'[q] = Absent /\ (backup'[q] # Absent => m.rc = "failed")
  PROVE  CleanInv'
PROOF
<1>1. Types /\ Cleared(q) BY DEF CleanInv
<1>2. Types' BY <1>1 DEF Types, Moves, LockTypes
<1>3. OwnOnly(q) BY DEF OwnOnly, Moves
<1>4. pc'[q] = step BY DEF Moves
<1>5. Remembered(q)' BY <1>4 DEF Remembered
<1>6. Cleared(q)' BY <1>1, <1>4, <1>5 DEF Cleared
<1> QED BY <1>2, <1>3, <1>6, StepKeeps


\* What is made under the lock is remembered.
LEMMA InstallingKeeps ==
  ASSUME CleanInv, NEW q \in Procs, InstallUnderLock(q) PROVE CleanInv'
PROOF
<1>t. Types BY DEF CleanInv
<1>m. mem[q] \in Memory BY <1>t DEF Types
<1>p. Installing \cup {"cleanup"} \subseteq Pcs \ {"off"} BY DEF Pcs, Installing, Cleaning
<1>q. /\ pc[q] \in Installing
      /\ UNCHANGED <<ended, starts, signals>>
  BY DEF InstallUnderLock, RecoverBackup, SweepStages, SweepCopies, MakeStage, Fetch,
         NameBackup, SaveDest, NoteSaved, Install, DropBackup, Step, Installing
<1>r. pc[q] # "off" /\ Remembered(q) /\ ~mem[q].preserve
  <2>1. pc[q] \notin {"off", "clear", "unlock"} BY <1>q DEF Installing
  <2> QED BY <2>1 DEF CleanInv, Cleared, Remembered
<1>f. [mem[q] EXCEPT !.rc = "failed"] \in Memory BY <1>m, MemoryFields, Zenon
<1>x. \* what a step has to show, beyond the command it goes to
      ASSUME NEW step \in Installing \cup {"cleanup"}, NEW m \in Memory,
             Moves(q, {pc[q]}, {step}), mem'[q] = m,
             LockTypes, dest' \in Toolchains,
             stage' \in [Procs -> {Absent, "empty", "go"}], backup' \in [Procs -> Toolchains],
             \A p \in Procs \ {q} :
               stage'[p] \in {stage[p], Absent} /\ backup'[p] \in {backup[p], Absent},
             stage'[q] # Absent => m.staged, backup'[q] # Absent => m.named,
             step \in {"save", "note saved", "install", "drop"} => m.named, ~m.preserve
      PROVE  CleanInv'
  <2>1. step \in Pcs \ {"off"} /\ step \notin {"clear", "unlock"}
    BY <1>p DEF Installing
  <2> QED BY <1>q, <1>r, <1>x, <2>1, RunningKeeps
<1>d. \* a command that fails
      ASSUME Die(q, mem[q]), UNCHANGED <<lock, copies, dest, backup, stage>>
      PROVE  CleanInv'
  <2>1. Moves(q, {pc[q]}, {"cleanup"}) /\ mem'[q] = [mem[q] EXCEPT !.rc = "failed"]
    BY <1>t, <1>m, <1>d, MovingOff, Zenon
  <2> DEFINE m == [mem[q] EXCEPT !.rc = "failed"]
  <2>2. m.staged = mem[q].staged /\ m.named = mem[q].named /\ m.preserve = mem[q].preserve
    BY <1>m DEF Memory
  <2>3. (stage[q] # Absent => m.staged) /\ (backup[q] # Absent => m.named) /\ ~m.preserve
    BY <1>r, <2>2 DEF Remembered
  <2>4. mem'[q] = m /\ m \in Memory BY <1>f, <2>1
  <2> HIDE DEF m
  <2>5. LockTypes BY <1>t, <1>d DEF LockTypes, Types
  <2> QED BY <1>t, <1>d, <1>x, <2>1, <2>3, <2>4, <2>5 DEF Types
<1>1. ASSUME RecoverBackup(q) PROVE CleanInv'
  <2>1. /\ Goto(q, "sweep stages") /\ UNCHANGED <<lock, copies, stage, mem>>
        /\ \/ backup' = [p \in Procs |-> IF dest # Absent THEN Absent ELSE backup[p]]
              /\ UNCHANGED dest
           \/ \E p \in Procs : dest' = backup[p] /\ backup' = [backup EXCEPT ![p] = Absent]
           \/ UNCHANGED <<dest, backup>>
    BY <1>1, Zenon DEF RecoverBackup
  <2>2. Absent \in Toolchains BY DEF Toolchains
  <2> DEFINE Kept == /\ backup' \in [Procs -> Toolchains] /\ dest' \in Toolchains
                     /\ \A p \in Procs : backup'[p] \in {backup[p], Absent}
  <2>3. Kept
    <3>1. CASE /\ backup' = [p \in Procs |-> IF dest # Absent THEN Absent ELSE backup[p]]
               /\ UNCHANGED dest
      BY <1>t, <2>2, <3>1 DEF Types
    <3>2. ASSUME NEW p \in Procs, dest' = backup[p], backup' = [backup EXCEPT ![p] = Absent]
          PROVE  Kept
      BY <1>t, <2>2, <3>2 DEF Types
    <3>3. CASE UNCHANGED <<dest, backup>> BY <1>t, <3>3 DEF Types
    <3> QED BY <2>1, <3>1, <3>2, <3>3
  <2>4. "sweep stages" \in Installing BY DEF Installing
  <2>5. Moves(q, {pc[q]}, {"sweep stages"}) /\ mem'[q] = mem[q]
    BY <1>t, <1>m, <1>p, <2>1, <2>4, MovingOn
  <2>6. LockTypes BY <1>t, <2>1 DEF LockTypes, Types
  <2>7. (stage[q] # Absent => mem[q].staged) /\ (backup'[q] # Absent => mem[q].named)
    BY <1>r, <2>3 DEF Remembered
  <2> QED BY <1>t, <1>m, <1>r, <1>x, <2>1, <2>3, <2>4, <2>5, <2>6, <2>7 DEF Types
<1>2. ASSUME SweepStages(q) PROVE CleanInv'
  <2>1. /\ Goto(q, "sweep copies") /\ UNCHANGED <<lock, copies, dest, backup, mem>>
        /\ stage' = [p \in Procs |-> Absent]
    BY <1>2 DEF SweepStages
  <2>2. "sweep copies" \in Installing BY DEF Installing
  <2>3. Moves(q, {pc[q]}, {"sweep copies"}) /\ mem'[q] = mem[q]
    BY <1>t, <1>m, <1>p, <2>1, <2>2, MovingOn
  <2>4. LockTypes BY <1>t, <2>1 DEF LockTypes, Types
  <2>5. backup[q] # Absent => mem[q].named BY <1>r DEF Remembered
  <2> QED BY <1>t, <1>m, <1>r, <1>x, <2>1, <2>2, <2>3, <2>4, <2>5 DEF Types
<1>3. ASSUME SweepCopies(q) PROVE CleanInv'
  <2>1. /\ Goto(q, "stage") /\ UNCHANGED <<lock, dest, backup, stage, mem>>
        /\ copies' = [path \in DOMAIN copies |->
                        IF Dead(copies[path]) THEN Absent ELSE copies[path]]
    BY <1>3 DEF SweepCopies
  <2>2. "stage" \in Installing BY DEF Installing
  <2>3. Moves(q, {pc[q]}, {"stage"}) /\ mem'[q] = mem[q]
    BY <1>t, <1>m, <1>p, <2>1, <2>2, MovingOn
  <2>4. LockTypes BY <1>t, <2>1 DEF LockTypes, Types
  <2>5. (stage[q] # Absent => mem[q].staged) /\ (backup[q] # Absent => mem[q].named)
    BY <1>r DEF Remembered
  <2> QED BY <1>t, <1>m, <1>r, <1>x, <2>1, <2>2, <2>3, <2>4, <2>5 DEF Types
<1>4. ASSUME MakeStage(q) PROVE CleanInv'
  <2> DEFINE m == [mem[q] EXCEPT !.staged = TRUE]
  <2>1. /\ Goto(q, "fetch") /\ UNCHANGED <<lock, copies, dest, backup>> /\ Set(q, m)
        /\ stage' = [stage EXCEPT ![q] = "empty"]
    BY <1>4 DEF MakeStage
  <2>2. m.staged /\ m.named = mem[q].named /\ m.preserve = mem[q].preserve
    BY <1>m DEF Memory
  <2>3. m \in Memory BY <1>m, MemoryFields
  <2> HIDE DEF m
  <2>4. "fetch" \in Installing BY DEF Installing
  <2>5. Moves(q, {pc[q]}, {"fetch"}) /\ mem'[q] = m
    BY <1>t, <1>p, <2>1, <2>3, <2>4, MovingOn
  <2>6. LockTypes BY <1>t, <2>1 DEF LockTypes, Types
  <2>7. (backup[q] # Absent => m.named) /\ ~m.preserve BY <1>r, <2>2 DEF Remembered
  <2> QED BY <1>t, <1>x, <2>1, <2>2, <2>3, <2>4, <2>5, <2>6, <2>7 DEF Types
<1>5. ASSUME Fetch(q) PROVE CleanInv'
  <2>1. CASE Die(q, mem[q]) /\ UNCHANGED stage
    <3>1. UNCHANGED <<lock, copies, dest, backup>> BY <1>5 DEF Fetch
    <3> QED BY <1>d, <2>1, <3>1
  <2>2. CASE /\ stage[q] # Absent /\ stage' = [stage EXCEPT ![q] = "go"]
             /\ Goto(q, "name") /\ UNCHANGED mem
    <3>1. UNCHANGED <<lock, copies, dest, backup>> BY <1>5 DEF Fetch
    <3>2. "name" \in Installing BY DEF Installing
    <3>3. Moves(q, {pc[q]}, {"name"}) /\ mem'[q] = mem[q]
      BY <1>t, <1>m, <1>p, <2>2, <3>2, MovingOn
    <3>4. LockTypes BY <1>t, <3>1 DEF LockTypes, Types
    <3>5. mem[q].staged /\ (backup[q] # Absent => mem[q].named)
      BY <1>r, <2>2 DEF Remembered
    <3> QED BY <1>t, <1>m, <1>r, <1>x, <2>2, <3>1, <3>2, <3>3, <3>4, <3>5 DEF Types
  <2> QED BY <1>5, <2>1, <2>2 DEF Fetch
<1>6. ASSUME NameBackup(q) PROVE CleanInv'
  <2> DEFINE m == [mem[q] EXCEPT !.named = TRUE]
  <2>1. PICK step \in {"save", "install"} : Goto(q, step)
    BY <1>6 DEF NameBackup
  <2>2. UNCHANGED <<lock, copies, dest, backup, stage>> /\ Set(q, m)
    BY <1>6 DEF NameBackup, files
  <2>3. m.named /\ m.staged = mem[q].staged /\ m.preserve = mem[q].preserve
    BY <1>m DEF Memory
  <2>4. m \in Memory BY <1>m, MemoryFields
  <2> HIDE DEF m
  <2>5. step \in Installing BY DEF Installing
  <2>6. Moves(q, {pc[q]}, {step}) /\ mem'[q] = m
    BY <1>t, <1>p, <2>1, <2>2, <2>4, <2>5, MovingOn
  <2>7. LockTypes BY <1>t, <2>2 DEF LockTypes, Types
  <2>8. (stage[q] # Absent => m.staged) /\ ~m.preserve BY <1>r, <2>3 DEF Remembered
  <2> QED BY <1>t, <1>x, <2>2, <2>3, <2>4, <2>5, <2>6, <2>7, <2>8 DEF Types
<1>7. ASSUME SaveDest(q) PROVE CleanInv'
  <2>1. CASE Die(q, mem[q]) /\ UNCHANGED <<dest, backup>>
    <3>1. UNCHANGED <<lock, copies, stage>> BY <1>7 DEF SaveDest
    <3> QED BY <1>d, <2>1, <3>1
  <2>2. CASE /\ dest # Absent /\ dest' = Absent
             /\ backup' = [backup EXCEPT ![q] = IF @ = Absent THEN dest ELSE @]
             /\ Goto(q, "note saved") /\ UNCHANGED mem
    <3>1. UNCHANGED <<lock, copies, stage>> /\ pc[q] = "save" BY <1>7 DEF SaveDest, Step
    <3>2. "note saved" \in Installing BY DEF Installing
    <3>3. Moves(q, {pc[q]}, {"note saved"}) /\ mem'[q] = mem[q]
      BY <1>t, <1>m, <1>p, <2>2, <3>2, MovingOn
    <3>4. LockTypes BY <1>t, <3>1 DEF LockTypes, Types
    <3>5. mem[q].named /\ (stage[q] # Absent => mem[q].staged)
      BY <1>r, <3>1 DEF Remembered
    <3>6. /\ backup' \in [Procs -> Toolchains] /\ dest' \in Toolchains
          /\ \A p \in Procs \ {q} : backup'[p] \in {backup[p], Absent}
      BY <1>t, <2>2 DEF Types, Toolchains
    <3> QED BY <1>t, <1>m, <1>r, <1>x, <3>1, <3>2, <3>3, <3>4, <3>5, <3>6 DEF Types
  <2> QED BY <1>7, <2>1, <2>2 DEF SaveDest
<1>8. ASSUME NoteSaved(q) PROVE CleanInv'
  <2> DEFINE m == [mem[q] EXCEPT !.saved = TRUE]
  <2>1. /\ Goto(q, "install") /\ UNCHANGED <<lock, copies, dest, backup, stage>> /\ Set(q, m)
        /\ pc[q] = "note saved"
    BY <1>8 DEF NoteSaved, Step, files
  <2>2. m.named = mem[q].named /\ m.staged = mem[q].staged /\ m.preserve = mem[q].preserve
    BY <1>m DEF Memory
  <2>3. m \in Memory BY <1>m, MemoryFields
  <2> HIDE DEF m
  <2>4. "install" \in Installing BY DEF Installing
  <2>5. Moves(q, {pc[q]}, {"install"}) /\ mem'[q] = m
    BY <1>t, <1>p, <2>1, <2>3, <2>4, MovingOn
  <2>6. LockTypes BY <1>t, <2>1 DEF LockTypes, Types
  <2>7. m.named /\ (stage[q] # Absent => m.staged) /\ ~m.preserve
    BY <1>r, <2>1, <2>2 DEF Remembered
  <2> QED BY <1>t, <1>x, <2>1, <2>3, <2>4, <2>5, <2>6, <2>7 DEF Types
<1>9. ASSUME Install(q) PROVE CleanInv'
  <2>1. CASE Die(q, mem[q]) /\ UNCHANGED <<dest, stage>>
    <3>1. UNCHANGED <<lock, copies, backup>> BY <1>9 DEF Install
    <3> QED BY <1>d, <2>1, <3>1
  <2>2. CASE /\ stage[q] = "go" /\ stage' = [stage EXCEPT ![q] = "empty"]
             /\ dest' = (IF dest = Absent THEN "go" ELSE dest)
             /\ Goto(q, "drop") /\ UNCHANGED mem
    <3>1. UNCHANGED <<lock, copies, backup>> /\ pc[q] = "install" BY <1>9 DEF Install, Step
    <3>2. "drop" \in Installing BY DEF Installing
    <3>3. Moves(q, {pc[q]}, {"drop"}) /\ mem'[q] = mem[q]
      BY <1>t, <1>m, <1>p, <2>2, <3>2, MovingOn
    <3>4. LockTypes BY <1>t, <3>1 DEF LockTypes, Types
    <3>5. mem[q].named /\ mem[q].staged
      BY <1>r, <2>2, <3>1 DEF Remembered, Absent
    <3>6. dest' \in Toolchains /\ stage' \in [Procs -> {Absent, "empty", "go"}]
      BY <1>t, <2>2 DEF Types, Toolchains
    <3> QED BY <1>t, <1>m, <1>r, <1>x, <2>2, <3>1, <3>2, <3>3, <3>4, <3>5, <3>6 DEF Types
  <2> QED BY <1>9, <2>1, <2>2 DEF Install
<1>10. ASSUME DropBackup(q) PROVE CleanInv'
  <2>1. /\ Goto(q, "cleanup") /\ UNCHANGED <<lock, copies, dest, stage, mem>>
        /\ backup' = [backup EXCEPT ![q] = Absent]
    BY <1>10 DEF DropBackup
  <2>2. Moves(q, {pc[q]}, {"cleanup"}) /\ mem'[q] = mem[q]
    BY <1>t, <1>m, <1>p, <2>1, MovingOn
  <2>3. LockTypes BY <1>t, <2>1 DEF LockTypes, Types
  <2>4. stage[q] # Absent => mem[q].staged BY <1>r DEF Remembered
  <2> QED BY <1>t, <1>m, <1>r, <1>x, <2>1, <2>2, <2>3, <2>4 DEF Types, Toolchains
<1> QED
  BY <1>1, <1>2, <1>3, <1>4, <1>5, <1>6, <1>7, <1>8, <1>9, <1>10 DEF InstallUnderLock


\* cleanup clears what is remembered.
LEMMA CleanUpKeeps ==
  ASSUME CleanInv, NEW q \in Procs, CleanUp(q) PROVE CleanInv'
PROOF
<1>t. Types BY DEF CleanInv
<1>m. mem[q] \in Memory BY <1>t DEF Types
<1>p. {"clear", "unlock"} \subseteq Pcs \ {"off"} BY DEF Pcs, Cleaning
<1>q. pc[q] \in Cleaning
  BY DEF CleanUp, RestoreBackup, ClearOwn, Unlock, Step, Cleaning
<1>r. pc[q] # "off" /\ Remembered(q)
  BY <1>q DEF CleanInv, Cleared, Cleaning
<1>s. stage[q] # Absent => mem[q].staged BY <1>r DEF Remembered
<1>b. backup[q] # Absent => mem[q].named BY <1>r DEF Remembered
<1>1. ASSUME RestoreBackup(q) PROVE CleanInv'
  <2>1. /\ pc[q] = "cleanup" /\ Goto(q, "clear") /\ UNCHANGED <<lock, copies, stage>>
        /\ UNCHANGED <<ended, starts, signals>>
    BY <1>1 DEF RestoreBackup, Step
  <2>2. LockTypes BY <1>t, <2>1 DEF LockTypes, Types
  <2>3. ~mem[q].preserve BY <1>r, <2>1 DEF Remembered
  <2>4. stage \in [Procs -> {Absent, "empty", "go"}] /\ backup \in [Procs -> Toolchains]
        /\ dest \in Toolchains
    BY <1>t DEF Types
  <2>5. ASSUME dest' = backup[q], backup' = [backup EXCEPT ![q] = Absent],
               Set(q, [mem[q] EXCEPT !.named = FALSE])
        PROVE  CleanInv'
    <3> DEFINE m == [mem[q] EXCEPT !.named = FALSE]
    <3>1. m.staged = mem[q].staged /\ m.preserve = mem[q].preserve BY <1>m DEF Memory
    <3>2. m \in Memory BY <1>m, MemoryFields
    <3> HIDE DEF m
    <3>3. Moves(q, {pc[q]}, {"clear"}) /\ mem'[q] = m
      BY <1>t, <1>p, <2>1, <2>5, <3>2, MovingOn DEF m
    <3>4. backup' \in [Procs -> Toolchains] /\ backup'[q] = Absent /\ dest' \in Toolchains
          /\ \A p \in Procs \ {q} : backup'[p] \in {backup[p], Absent}
      BY <2>4, <2>5 DEF Toolchains
    <3>5. (stage[q] # Absent => m.staged) /\ ~m.preserve BY <1>s, <2>3, <3>1
    <3> QED BY <1>p, <1>r, <2>1, <2>2, <2>4, <3>2, <3>3, <3>4, <3>5, RunningKeeps
  <2>6. ASSUME Set(q, [mem[q] EXCEPT !.preserve = TRUE, !.rc = "failed"]),
               UNCHANGED <<dest, backup>>
        PROVE  CleanInv'
    <3> DEFINE m == [mem[q] EXCEPT !.preserve = TRUE, !.rc = "failed"]
    <3>1. m.staged = mem[q].staged /\ m.named = mem[q].named /\ m.rc = "failed"
      BY <1>m DEF Memory
    <3>2. m \in Memory BY <1>m, MemoryFields
    <3> HIDE DEF m
    <3>3. Moves(q, {pc[q]}, {"clear"}) /\ mem'[q] = m
      BY <1>t, <1>p, <2>1, <2>6, <3>2, MovingOn DEF m
    <3>4. (stage[q] # Absent => m.staged) /\ (backup[q] # Absent => m.named)
      BY <1>s, <1>b, <3>1
    <3> QED BY <1>p, <1>r, <2>1, <2>2, <2>4, <2>6, <3>1, <3>2, <3>3, <3>4, RunningKeeps
  <2>7. ASSUME UNCHANGED <<dest, backup, mem>> PROVE CleanInv'
    <3>1. Moves(q, {pc[q]}, {"clear"}) /\ mem'[q] = mem[q]
      BY <1>t, <1>m, <1>p, <2>1, <2>7, MovingOn
    <3> QED BY <1>m, <1>p, <1>r, <1>s, <1>b, <2>1, <2>2, <2>3, <2>4, <2>7, <3>1, RunningKeeps
  <2> QED BY <1>1, <2>5, <2>6, <2>7 DEF RestoreBackup
<1>2. ASSUME ClearOwn(q) PROVE CleanInv'
  <2>1. /\ pc[q] = "clear" /\ Goto(q, "unlock") /\ UNCHANGED <<lock, dest, mem>>
        /\ UNCHANGED <<ended, starts, signals>>
        /\ backup' = IF OwnBackup(q) THEN [backup EXCEPT ![q] = Absent] ELSE backup
        /\ stage' = IF OwnStage(q) THEN [stage EXCEPT ![q] = Absent] ELSE stage
        /\ copies' = IF mem[q].captured THEN [copies EXCEPT ![Copy(q)] = Absent] ELSE copies
    BY <1>2 DEF ClearOwn, Step
  <2>2. LockTypes BY <1>t, <2>1 DEF LockTypes, Types
  <2>3. Moves(q, {pc[q]}, {"unlock"}) /\ mem'[q] = mem[q]
    BY <1>t, <1>m, <1>p, <2>1, MovingOn
  <2>4. /\ stage' \in [Procs -> {Absent, "empty", "go"}] /\ stage'[q] = Absent
        /\ \A p \in Procs \ {q} : stage'[p] = stage[p]
    BY <1>t, <1>s, <2>1 DEF Types, OwnStage
  <2>5. /\ backup' \in [Procs -> Toolchains] /\ (backup'[q] # Absent => mem[q].preserve)
        /\ \A p \in Procs \ {q} : backup'[p] = backup[p]
    BY <1>t, <1>b, <2>1 DEF Types, OwnBackup, Toolchains
  <2>6. dest \in Toolchains BY <1>t DEF Types
  <2>7. mem[q].preserve => mem[q].rc = "failed"
    BY <1>r DEF Remembered
  <2> QED BY ZenonT(60), <1>m, <1>p, <1>r, <1>b, <2>1, <2>2, <2>3, <2>4, <2>5, <2>6, <2>7,
             RunningKeeps
<1>3. ASSUME Unlock(q) PROVE CleanInv'
  <2>1. /\ pc[q] = "unlock" /\ lock' \in {lock, Absent} /\ Goto(q, "off")
        /\ ended' = [ended EXCEPT ![q] = mem[q].rc]
        /\ UNCHANGED <<copies, dest, backup, stage, mem, starts, signals>>
    BY <1>3 DEF Unlock
  <2>2. "off" \in Pcs BY DEF Pcs
  <2>3. Moves(q, {pc[q]}, {"off"}) BY <1>t, <1>m, <2>1, <2>2, MovingOn
  <2>4. mem[q].rc \in {"ok", "failed", "interrupted"} BY <1>m DEF Memory
  <2>5. /\ ended' \in [Procs -> {"never ran", "running", "ok", "failed", "interrupted", "killed"}]
        /\ ended'[q] = mem[q].rc /\ \A p \in Procs \ {q} : ended'[p] = ended[p]
    BY <1>t, <2>1, <2>4 DEF Types
  <2>6. Types' BY <1>t, <2>1, <2>3, <2>5 DEF Types, Moves
  <2>7. OwnOnly(q) BY <2>1, <2>3, <2>5 DEF OwnOnly, Moves
  <2>8. stage[q] = Absent /\ (backup[q] # Absent => mem[q].rc = "failed")
    BY <1>r, <2>1 DEF Remembered
  <2>9. pc'[q] = "off" BY <2>3 DEF Moves
  <2>10. starts[q] = 0 <=> FALSE BY <1>r DEF CleanInv, Cleared
  <2>11. Cleared(q)' BY <2>1, <2>4, <2>5, <2>8, <2>9, <2>10 DEF Cleared
  <2> QED BY <2>6, <2>7, <2>11, StepKeeps
<1> QED BY <1>1, <1>2, <1>3 DEF CleanUp

\* A PID that has not run has nothing to clear.
LEMMA StartKeeps ==
  ASSUME MaxStarts = 1, CleanInv, NEW q \in Procs, Start(q) PROVE CleanInv'
PROOF
<1>1. /\ pc[q] = "off" /\ starts[q] < 1 /\ starts' = [starts EXCEPT ![q] = @ + 1]
      /\ Goto(q, "begin") /\ Set(q, Fresh) /\ ended' = [ended EXCEPT ![q] = "running"]
      /\ UNCHANGED <<lock, copies, dest, backup, stage, signals>>
  BY DEF Start, files
<1>2. Types /\ Cleared(q) BY DEF CleanInv
<1>3. Fresh \in Memory BY InstallAssumption DEF Fresh, Memory, Slots, Locks
<1>4. "begin" \in Pcs BY DEF Pcs, Acquiring
<1>5. Moves(q, {pc[q]}, {"begin"}) /\ mem'[q] = Fresh
  BY <1>1, <1>2, <1>3, <1>4, MovingOn
<1>n. starts \in [Procs -> Nat] BY <1>2 DEF Types
<1>6. starts[q] = 0 /\ starts[q] + 1 = 1
  <2>1. starts[q] \in Nat BY <1>n
  <2>2. starts[q] < 1 BY <1>1
  <2> QED BY <2>1, <2>2
<1>7. stage[q] = Absent /\ backup[q] = Absent BY <1>2, <1>6 DEF Cleared
<1>8. /\ ended' \in [Procs -> {"never ran", "running", "ok", "failed", "interrupted", "killed"}]
      /\ ended'[q] = "running" /\ \A p \in Procs \ {q} : ended'[p] = ended[p]
  BY <1>1, <1>2 DEF Types
<1>9. /\ starts' \in [Procs -> Nat] /\ starts'[q] = 1
      /\ \A p \in Procs \ {q} : starts'[p] = starts[p]
  <2>1. starts' = [starts EXCEPT ![q] = 1] BY <1>1, <1>6
  <2> QED BY <1>n, <2>1
<1>10. Types' BY <1>1, <1>2, <1>5, <1>8, <1>9 DEF Types, Moves
<1>11. OwnOnly(q) BY <1>1, <1>5, <1>8, <1>9 DEF OwnOnly, Moves
<1>12. pc'[q] = "begin" BY <1>5 DEF Moves
<1>13. ~mem'[q].preserve BY <1>5 DEF Fresh
<1>14. Remembered(q)' BY <1>1, <1>7, <1>12, <1>13 DEF Remembered
<1>15. Cleared(q)'
  <2>1. starts'[q] # 0 BY <1>9
  <2>2. ended'[q] \notin {"never ran", "ok", "failed", "interrupted"} BY <1>8
  <2>3. pc'[q] # "off" BY <1>12
  <2> QED BY <1>8, <1>14, <2>1, <2>2, <2>3 DEF Cleared
<1> QED BY <1>10, <1>11, <1>15, StepKeeps

\* The bound on signals counts; nothing depends on it.
LEMMA SignalKeeps ==
  ASSUME CleanInv, NEW q \in Procs, Interrupt(q) \/ Kill(q) PROVE CleanInv'
PROOF
<1>t. Types /\ Cleared(q) BY DEF CleanInv
<1>m. mem[q] \in Memory BY <1>t DEF Types
<1>s. signals' \in Nat
  <2>1. signals \in Nat BY <1>t DEF Types
  <2>2. signals' = signals + 1 BY DEF Interrupt, Kill, Signal
  <2> QED BY <2>1, <2>2
<1>1. ASSUME Interrupt(q) PROVE CleanInv'
  <2> DEFINE m == [mem[q] EXCEPT !.rc = "interrupted"]
  <2>1. /\ pc[q] \in Acquiring \cup {"write"} \cup Installing
        /\ Goto(q, "cleanup") /\ Set(q, m)
        /\ UNCHANGED <<lock, copies, dest, backup, stage, ended, starts>>
    BY <1>1 DEF Interrupt, files
  <2>2. m.staged = mem[q].staged /\ m.named = mem[q].named /\ m.preserve = mem[q].preserve
    BY <1>m DEF Memory
  <2>3. m \in Memory BY <1>m, MemoryFields
  <2> HIDE DEF m
  <2>4. "cleanup" \in Pcs BY DEF Pcs, Cleaning
  <2>5. Moves(q, {pc[q]}, {"cleanup"}) /\ mem'[q] = m
    BY <1>t, <2>1, <2>3, <2>4, MovingOn
  <2>6. pc[q] \notin {"off", "clear", "unlock"} BY <2>1 DEF Acquiring, Installing
  <2>7. Remembered(q) BY <1>t, <2>6 DEF Cleared
  <2>8. /\ stage[q] # Absent => m.staged
        /\ backup[q] # Absent => m.named
        /\ ~m.preserve
    BY <2>2, <2>6, <2>7 DEF Remembered
  <2>9. pc'[q] = "cleanup" BY <2>5 DEF Moves
  <2>10. Remembered(q)' BY <2>1, <2>5, <2>8, <2>9 DEF Remembered
  <2>11. Cleared(q)' BY <1>t, <2>1, <2>6, <2>9, <2>10 DEF Cleared
  <2>12. Types' BY <1>s, <1>t, <2>1, <2>5 DEF Types, Moves
  <2>13. OwnOnly(q) BY <2>1, <2>5 DEF OwnOnly, Moves
  <2> QED BY <2>11, <2>12, <2>13, StepKeeps
<1>2. ASSUME Kill(q) PROVE CleanInv'
  <2>1. /\ pc[q] # "off" /\ Goto(q, "off") /\ ended' = [ended EXCEPT ![q] = "killed"]
        /\ UNCHANGED <<lock, copies, dest, backup, stage, mem, starts>>
    BY <1>2 DEF Kill, files
  <2>2. "off" \in Pcs BY DEF Pcs
  <2>3. Moves(q, {pc[q]}, {"off"}) BY <1>t, <1>m, <2>1, <2>2, MovingOn
  <2>4. /\ ended' \in [Procs -> {"never ran", "running", "ok", "failed", "interrupted", "killed"}]
        /\ ended'[q] = "killed" /\ \A p \in Procs \ {q} : ended'[p] = ended[p]
    BY <1>t, <2>1 DEF Types
  <2>5. pc'[q] = "off" BY <2>3 DEF Moves
  <2>6. starts[q] = 0 <=> FALSE BY <1>t, <2>1 DEF Cleared
  <2>7. Cleared(q)' BY <2>1, <2>4, <2>5, <2>6 DEF Cleared
  <2>8. Types' BY <1>s, <1>t, <2>1, <2>3, <2>4 DEF Types, Moves
  <2>9. OwnOnly(q) BY <2>1, <2>3, <2>4 DEF OwnOnly, Moves
  <2> QED BY <2>7, <2>8, <2>9, StepKeeps
<1> QED BY <1>1, <1>2

-----------------------------------------------------------------------------
(* The theorem.                                                            *)

\* The inductive invariant: of what processes make, each knows what it has
\* to clear, and one that ended by itself has cleared it.
THEOREM ProcessesClear ==
  ASSUME MaxStarts = 1 PROVE Spec => []CleanInv
PROOF
<1>1. ASSUME Init PROVE CleanInv
  <2>1. Fresh \in Memory BY InstallAssumption DEF Fresh, Memory, Slots, Locks
  <2>2. Types
    BY <1>1, <2>1 DEF Init, Types, Pcs, Locks, Toolchains
  <2>3. ASSUME NEW p \in Procs PROVE Cleared(p)
    BY <1>1 DEF Init, Cleared
  <2> QED BY <2>2, <2>3 DEF CleanInv
<1>2. ASSUME CleanInv, [Next]_vars PROVE CleanInv'
  <2>1. CASE UNCHANGED vars
    BY <1>2, <2>1 DEF vars, files, CleanInv, Types, Cleared, Remembered
  <2>2. ASSUME NEW p \in Procs,
               \/ Start(p) \/ Acquire(p) \/ InstallUnderLock(p) \/ CleanUp(p)
               \/ Interrupt(p) \/ Kill(p)
        PROVE  CleanInv'
    BY <1>2, <2>2, StartKeeps, AcquireKeeps, InstallingKeeps, CleanUpKeeps, SignalKeeps, Zenon
  <2> QED BY <1>2, <2>1, <2>2 DEF Next
<1> QED BY <1>1, <1>2, PTL DEF Spec

\* A process that ends by itself, whether it succeeds, fails or is
\* interrupted, leaves no stage behind, and no backup but one it could not
\* restore: for any number of processes and signals, whatever the others do
\* and whichever of them are killed, where no PID is used a second time.
THEOREM NothingIsLeft ==
  ASSUME MaxStarts = 1 PROVE Spec => []NoLeftovers
PROOF
<1>1. CleanInv => NoLeftovers
  BY DEF CleanInv, Cleared, NoLeftovers
<1> QED BY <1>1, ProcessesClear, PTL

-----------------------------------------------------------------------------
(* Two processes: installs are serialized.                                 *)

TwoProcesses == \A p, q, r \in Procs : p = q \/ p = r \/ q = r

\* A process that has made the lock directory and has not removed it.
Inside(p) == \/ pc[p] \in {"own", "write"} \cup Installing
             \/ pc[p] \in Cleaning /\ mem[p].held

\* A process that will not make or move a lock any more.
Gone(p) == pc[p] \in Cleaning \cup {"off"} /\ ended[p] # "never ran"

\* A process that has written its PID, or died on the way to it.
Late(p) == pc[p] \in Installing \cup Cleaning \cup {"off"} /\ ended[p] # "never ran"

\* The lock q has renamed may be p's, and q is to look at it or to put it back.
Mine(q, p)      == copies[Copy(q)] \in {p, NoPid, Absent}
Returning(q, p) == pc[q] \in {"note", "inspect", "test", "restore"} /\ Mine(q, p)

\* What each of two processes knows of the other.
Pair(p, q) ==
  /\ ~(Inside(p) /\ Inside(q))
  /\ Inside(p) => lock \in {p, NoPid, Absent}
  /\ Inside(p) /\ lock = Absent => Gone(q) \/ Returning(q, p)
  /\ pc[q] \in {"test", "restore"} => Mine(q, p)
  /\ lock = q \/ Places(q) # {} => Late(q)
  /\ pc[q] \in Acquiring => ~mem[q].held

Serial == \A p, q \in Procs : p # q => Pair(p, q)

\* A step of one process leaves the variables of the others.
Alone(r) ==
  \A p \in Procs \ {r} : pc'[p] = pc[p] /\ mem'[p] = mem[p] /\ ended'[p] = ended[p]

\* A step that leaves the lock, and the copies but for some it removes.
Fewer == \A path \in Procs \X Slots : copies'[path] \in {copies[path], Absent}

\* A step that does not bring a process nearer to the lock.
Plain(r, p) ==
  /\ lock' = lock /\ Fewer
  /\ Inside(r)' => Inside(r)
  /\ Inside(p) /\ (Gone(r) \/ Returning(r, p)) => (Gone(r) \/ Returning(r, p))'
  /\ Late(r) => Late(r)'
  /\ pc'[r] \in {"test", "restore"} => Mine(r, p)'
  /\ pc'[r] \in Acquiring => ~mem'[r].held

\* Each process has renamed locks of its own.
LEMMA Copies ==
  ASSUME Types, NEW p \in Procs
  PROVE  /\ Copy(p) \in Procs \X Slots /\ copies[Copy(p)] \in Locks \cup {Absent}
         /\ \A r \in Procs : r # p => Copy(r) # Copy(p)
         /\ \A s \in Slots : s = mem[p].slot => Copy(p) = <<p, s>>
PROOF
<1>1. mem[p].slot \in Slots BY DEF Types, Memory
<1>2. Copy(p) \in Procs \X Slots BY <1>1 DEF Copy
<1>3. copies[Copy(p)] \in Locks \cup {Absent} BY <1>2 DEF Types
<1> QED BY <1>2, <1>3 DEF Copy

\* A PID is not the mark of a missing lock, nor of a lock without a PID.
LEMMA NamesDiffer == NoPid \notin Procs /\ Absent \notin Procs /\ NoPid # Absent
BY InstallAssumption DEF Locks

\* A step that only removes copies gives no process a new place.
LEMMA FewerPlaces ==
  ASSUME Types, Types', Fewer, NEW p \in Procs
  PROVE  Places(p)' # {} => Places(p) # {}
PROOF
<1>1. DOMAIN copies = Procs \X Slots /\ DOMAIN copies' = Procs \X Slots
  BY DEF Types
<1>2. ASSUME NEW path \in Procs \X Slots, copies'[path] = p PROVE copies[path] = p
  BY <1>2, NamesDiffer DEF Fewer
<1> QED BY <1>1, <1>2 DEF Places

\* A plain step keeps what the two know of each other.
LEMMA PlainKeeps ==
  ASSUME Types, Types', NEW r \in Procs, NEW p \in Procs, p # r,
         Pair(p, r), Pair(r, p), Alone(r), Plain(r, p)
  PROVE  Pair(p, r)' /\ Pair(r, p)'
PROOF
<1>1. /\ pc'[p] = pc[p] /\ mem'[p] = mem[p] /\ ended'[p] = ended[p]
  BY DEF Alone
<1>2. /\ Inside(p)' = Inside(p) /\ Gone(p)' = Gone(p) /\ Late(p)' = Late(p)
      /\ Copy(p)' = Copy(p)
  BY <1>1 DEF Inside, Gone, Late, Copy
<1>3. Mine(p, r) => Mine(p, r)'
  BY <1>2, Copies DEF Mine, Plain, Fewer
<1>4. Returning(p, r) => Returning(p, r)'
  BY <1>1, <1>3 DEF Returning
<1>5. (Places(r)' # {} => Places(r) # {}) /\ (Places(p)' # {} => Places(p) # {})
  BY FewerPlaces DEF Plain
<1>6. Pair(p, r)'
  <2>1. ~(Inside(p) /\ Inside(r))' BY <1>2 DEF Pair, Plain
  <2>2. Inside(p)' => lock' \in {p, NoPid, Absent} BY <1>2 DEF Pair, Plain
  <2>3. Inside(p)' /\ lock' = Absent => (Gone(r) \/ Returning(r, p))'
    BY <1>2 DEF Pair, Plain
  <2>4. pc'[r] \in {"test", "restore"} => Mine(r, p)' BY DEF Plain
  <2>5. lock' = r \/ Places(r)' # {} => Late(r)' BY <1>5 DEF Pair, Plain
  <2>6. pc'[r] \in Acquiring => ~mem'[r].held BY DEF Plain
  <2> QED BY <2>1, <2>2, <2>3, <2>4, <2>5, <2>6 DEF Pair
<1>7. Pair(r, p)'
  <2>1. ~(Inside(r) /\ Inside(p))' BY <1>2 DEF Pair, Plain
  <2>2. Inside(r)' => lock' \in {r, NoPid, Absent} BY DEF Pair, Plain
  <2>3. Inside(r)' /\ lock' = Absent => (Gone(p) \/ Returning(p, r))'
    BY <1>2, <1>4 DEF Pair, Plain
  <2>4. pc'[p] \in {"test", "restore"} => Mine(p, r)' BY <1>1, <1>3 DEF Pair
  <2>5. lock' = p \/ Places(p)' # {} => Late(p)' BY <1>2, <1>5 DEF Pair, Plain
  <2>6. pc'[p] \in Acquiring => ~mem'[p].held BY <1>1 DEF Pair
  <2> QED BY <2>1, <2>2, <2>3, <2>4, <2>5, <2>6 DEF Pair
<1> QED BY <1>6, <1>7

\* The commands before a process has made or renamed a lock.
Before == {"begin", "mkdir", "read", "probe", "capture"}

\* The process that moves runs.
LEMMA Running ==
  ASSUME CleanInv, NEW r \in Procs, pc[r] # "off" PROVE ended[r] = "running"
BY DEF CleanInv, Cleared

\* On the way to the lock, a step is plain.
LEMMA BeforePlain ==
  ASSUME NEW r \in Procs, NEW p \in Procs, Pair(p, r), lock' = lock, Fewer,
         pc[r] \in Before, pc'[r] \in Before \cup {"cleanup"}, mem'[r].held = mem[r].held
  PROVE  Plain(r, p)
PROOF
<1>1. pc[r] \in Acquiring BY DEF Before, Acquiring
<1>2. ~mem[r].held BY <1>1 DEF Pair
<1>3. ~Gone(r) /\ ~Late(r) /\ ~Returning(r, p)
  BY DEF Gone, Late, Returning, Before, Installing, Cleaning
<1>4. ~Inside(r)' BY <1>2 DEF Inside, Before, Installing, Cleaning
<1>5. pc'[r] \notin {"test", "restore"} BY DEF Before
<1> QED BY <1>2, <1>3, <1>4, <1>5 DEF Plain

\* So is a step under the lock.
LEMMA InsidePlain ==
  ASSUME NEW r \in Procs, NEW p \in Procs, lock' = lock, Fewer,
         pc[r] \in {"own", "write"} \cup Installing, ended' = ended,
         pc'[r] \in {"write"} \cup Installing \cup {"cleanup"},
         pc'[r] = "write" => pc[r] = "own"
  PROVE  Plain(r, p)
PROOF
<1>1. Inside(r) BY DEF Inside
<1>2. ~Gone(r) /\ ~Returning(r, p)
  BY DEF Gone, Returning, Installing, Cleaning
<1>3. Late(r) => Late(r)' BY DEF Late, Installing, Cleaning
<1>4. pc'[r] \notin {"test", "restore"} \cup Acquiring
  BY DEF Acquiring, Installing
<1> QED BY <1>1, <1>2, <1>3, <1>4 DEF Plain

\* So is a step of cleanup that keeps the lock.
LEMMA CleaningPlain ==
  ASSUME NEW r \in Procs, NEW p \in Procs, lock' = lock, Fewer,
         pc[r] \in Cleaning, ended' = ended, pc'[r] \in Cleaning,
         mem'[r].held = mem[r].held
  PROVE  Plain(r, p)
PROOF
<1>1. Inside(r)' => Inside(r) BY DEF Inside, Installing, Cleaning
<1>2. Gone(r) => Gone(r)' BY DEF Gone
<1>3. ~Returning(r, p) BY DEF Returning, Cleaning
<1>4. Late(r) => Late(r)' BY DEF Late
<1>5. pc'[r] \notin {"test", "restore"} \cup Acquiring
  BY DEF Acquiring, Cleaning
<1> QED BY <1>1, <1>2, <1>3, <1>4, <1>5 DEF Plain

\* A process that is interrupted or killed, or gives up, leaves the lock.
LEMMA LeavingPlain ==
  ASSUME NEW r \in Procs, NEW p \in Procs, Pair(p, r), lock' = lock, Fewer,
         pc'[r] \in {"cleanup", "off"}, ended'[r] # "never ran",
         pc'[r] = "cleanup" =>
           mem'[r].held = mem[r].held /\ pc[r] \in Acquiring \cup {"write"} \cup Installing
  PROVE  Plain(r, p)
PROOF
<1>1. Inside(r)' => Inside(r)
  BY DEF Inside, Installing, Cleaning, Pair, Acquiring
<1>2. Gone(r)' /\ Late(r)' BY DEF Gone, Late, Cleaning
<1>3. pc'[r] \notin {"test", "restore"} \cup Acquiring
  BY DEF Acquiring
<1> QED BY <1>1, <1>2, <1>3 DEF Plain


-----------------------------------------------------------------------------
(* What each command of acquire_lock does to its process.                  *)

\* The shell variables that tell what a process has done.
Fields(r) ==
  /\ mem'[r].saved = mem[r].saved
  /\ mem'[r].held = IF pc[r] = "own" THEN TRUE ELSE mem[r].held
  /\ pc[r] # "begin" => mem'[r].slot = mem[r].slot
  /\ pc'[r] = "cleanup" => mem'[r].rc = "failed"
  /\ mem'[r].captured =>
       \/ pc'[r] \in {"inspect", "test", "restore"}
       \/ mem[r].captured /\ pc[r] \notin {"inspect", "test", "restore"}

Shell(r, from, to) == Moves(r, {from}, to) /\ UNCHANGED <<ended, dest, backup>>

\* Fields that a change of another field leaves.
LEMMA MemoryKeeps ==
  ASSUME NEW m \in Memory
  PROVE  /\ \A s \in Slots : LET n == [m EXCEPT !.slot = s] IN
              n.saved = m.saved /\ n.held = m.held /\ n.captured = m.captured /\ n.slot = s
         /\ \A s \in Locks : LET n == [m EXCEPT !.seen = s] IN
              n.saved = m.saved /\ n.held = m.held /\ n.captured = m.captured /\ n.slot = m.slot
         /\ LET n == [m EXCEPT !.held = TRUE] IN
              n.saved = m.saved /\ n.held = TRUE /\ n.captured = m.captured /\ n.slot = m.slot
         /\ LET n == [m EXCEPT !.captured = TRUE] IN
              n.saved = m.saved /\ n.held = m.held /\ n.slot = m.slot
         /\ LET n == DropClaim(m) IN
              n \in Memory /\ n.saved = m.saved /\ n.held = m.held /\ n.slot = m.slot
              /\ n.captured = FALSE
         /\ LET n == [m EXCEPT !.rc = "failed"] IN
              n.saved = m.saved /\ n.held = m.held /\ n.captured = m.captured
              /\ n.slot = m.slot /\ n.rc = "failed"
         /\ LET n == [m EXCEPT !.attempt = @ + 1] IN
              n.saved = m.saved /\ n.held = m.held /\ n.captured = m.captured /\ n.slot = m.slot
BY DEF Memory, DropClaim

\* die, with a memory that differs from the process's in its claim at most.
LEMMA DyingFields ==
  ASSUME Types, NEW r \in Procs, NEW m \in Memory, Die(r, m), pc[r] \notin {"begin", "own"},
         m.saved = mem[r].saved, m.held = mem[r].held, m.slot = mem[r].slot,
         m.captured => mem[r].captured /\ pc[r] \notin {"inspect", "test", "restore"}
  PROVE  Moves(r, {pc[r]}, {"cleanup"}) /\ Fields(r)
PROOF
<1>1. Moves(r, {pc[r]}, {"cleanup"}) /\ mem'[r] = [m EXCEPT !.rc = "failed"]
  BY MovingOff, Zenon
<1>2. /\ mem'[r].saved = m.saved /\ mem'[r].held = m.held /\ mem'[r].captured = m.captured
      /\ mem'[r].slot = m.slot /\ mem'[r].rc = "failed"
  BY <1>1, MemoryKeeps
<1>3. Fields(r) BY <1>2 DEF Fields
<1> QED BY <1>1, <1>3

\* The next attempt, with such a memory.
LEMMA RetryingFields ==
  ASSUME Types, NEW r \in Procs, NEW m \in Memory, Retry(r, m), pc[r] \notin {"begin", "own"},
         m.saved = mem[r].saved, m.held = mem[r].held, m.slot = mem[r].slot,
         m.captured => mem[r].captured /\ pc[r] \notin {"inspect", "test", "restore"}
  PROVE  Moves(r, {pc[r]}, {"mkdir", "cleanup"}) /\ Fields(r)
PROOF
<1>1. CASE m.attempt < 3
  <2>1. Goto(r, "mkdir") /\ Set(r, [m EXCEPT !.attempt = @ + 1]) BY <1>1 DEF Retry
  <2>2. "mkdir" \in Pcs BY DEF Pcs, Acquiring
  <2>3. [m EXCEPT !.attempt = @ + 1] \in Memory BY MemoryFields, Zenon
  <2>4. Moves(r, {pc[r]}, {"mkdir"}) /\ mem'[r] = [m EXCEPT !.attempt = @ + 1]
    BY <2>1, <2>2, <2>3, MovingOn, Zenon
  <2>5. /\ mem'[r].saved = m.saved /\ mem'[r].held = m.held /\ mem'[r].captured = m.captured
        /\ mem'[r].slot = m.slot
    BY <2>4, MemoryKeeps
  <2>6. pc'[r] = "mkdir" BY <2>4 DEF Moves
  <2>7. Fields(r) BY <2>5, <2>6 DEF Fields
  <2> QED BY <2>4, <2>7 DEF Moves
<1>2. CASE ~(m.attempt < 3)
  <2>1. Die(r, m) BY <1>2 DEF Retry
  <2>2. Moves(r, {pc[r]}, {"cleanup"}) /\ Fields(r) BY <2>1, DyingFields
  <2> QED BY <2>2 DEF Moves
<1> QED BY <1>1, <1>2

\* On to the next command, with the memory as it is.
LEMMA GoingFields ==
  ASSUME Types, NEW r \in Procs, NEW step \in Pcs \ {"cleanup"}, Goto(r, step), UNCHANGED mem,
         pc[r] # "own",
         mem[r].captured /\ pc[r] \in {"inspect", "test", "restore"} =>
           step \in {"inspect", "test", "restore"}
  PROVE  Moves(r, {pc[r]}, {step}) /\ Fields(r)
PROOF
<1>1. mem[r] \in Memory BY DEF Types
<1>2. Moves(r, {pc[r]}, {step}) /\ mem'[r] = mem[r]
  BY <1>1, MovingOn, Zenon
<1>3. pc'[r] = step BY <1>2 DEF Moves
<1>4. Fields(r) BY <1>2, <1>3 DEF Fields
<1> QED BY <1>2, <1>4


\* The commands that take the lock, or find that it is taken.
LEMMA TakingDoes ==
  ASSUME Types, NEW r \in Procs
  PROVE  /\ ChooseCopyPath(r) => Shell(r, "begin", {"mkdir"}) /\ Fields(r)
         /\ MakeLock(r) => Shell(r, "mkdir", {"own", "read"}) /\ Fields(r)
         /\ OwnLock(r) => Shell(r, "own", {"write"}) /\ Fields(r)
         /\ WritePid(r) => Shell(r, "write", {"recover", "cleanup"}) /\ Fields(r)
         /\ ReadPid(r) => Shell(r, "read", {"probe"}) /\ Fields(r)
         /\ ProbeOwner(r) => Shell(r, "probe", {"capture", "cleanup"}) /\ Fields(r)
PROOF
<1>m. mem[r] \in Memory BY DEF Types
<1>p. {"begin", "mkdir", "own", "read", "probe", "capture", "write", "recover"}
        \subseteq Pcs \ {"cleanup"}
  BY DEF Pcs, Acquiring, Installing
<1>1. ASSUME ChooseCopyPath(r) PROVE Shell(r, "begin", {"mkdir"}) /\ Fields(r)
  <2> DEFINE left == IF Dead(copies[<<r, 0>>]) THEN [copies EXCEPT ![<<r, 0>>] = Absent]
                                               ELSE copies
             free == {n \in Slots : left[<<r, n>>] = Absent}
             first == CHOOSE n \in free : \A k \in free : n <= k
  <2>1. /\ pc[r] = "begin" /\ UNCHANGED <<ended, dest, backup>>
        /\ free # {} /\ Set(r, [mem[r] EXCEPT !.slot = first]) /\ Goto(r, "mkdir")
    BY <1>1 DEF ChooseCopyPath, Step
  <2>2. free \in SUBSET Slots OBVIOUS
  <2> HIDE DEF free
  <2>3. first \in Slots BY <2>1, <2>2, FirstFree
  <2> HIDE DEF first
  <2> DEFINE m == [mem[r] EXCEPT !.slot = first]
  <2>4. m \in Memory BY <1>m, <2>3, MemoryFields
  <2>5. m.saved = mem[r].saved /\ m.held = mem[r].held /\ m.captured = mem[r].captured
    BY <1>m, <2>3, MemoryKeeps
  <2>6. Set(r, m) BY <2>1
  <2> HIDE DEF m
  <2>7. Moves(r, {pc[r]}, {"mkdir"}) /\ mem'[r] = m
    BY <1>p, <2>1, <2>4, <2>6, MovingOn
  <2>8. pc'[r] = "mkdir" BY <2>7 DEF Moves
  <2>9. Fields(r) BY <2>1, <2>5, <2>7, <2>8 DEF Fields
  <2> QED BY <2>1, <2>7, <2>9 DEF Shell
<1>2. ASSUME MakeLock(r) PROVE Shell(r, "mkdir", {"own", "read"}) /\ Fields(r)
  <2>1. PICK step \in {"own", "read"} : Goto(r, step)
    BY <1>2 DEF MakeLock
  <2>2. pc[r] = "mkdir" /\ UNCHANGED <<mem, ended, dest, backup>>
    BY <1>2 DEF MakeLock, Step
  <2>3. step \in Pcs \ {"cleanup"} BY <1>p
  <2>4. Moves(r, {pc[r]}, {step}) /\ Fields(r)
    BY <2>1, <2>2, <2>3, GoingFields
  <2> QED BY <2>2, <2>4 DEF Shell, Moves
<1>3. ASSUME OwnLock(r) PROVE Shell(r, "own", {"write"}) /\ Fields(r)
  <2> DEFINE m == [mem[r] EXCEPT !.held = TRUE]
  <2>1. /\ pc[r] = "own" /\ UNCHANGED <<ended, dest, backup>>
        /\ Set(r, m) /\ Goto(r, "write")
    BY <1>3 DEF OwnLock, Step, files
  <2>2. m \in Memory BY <1>m, MemoryFields
  <2>3. m.saved = mem[r].saved /\ m.held = TRUE /\ m.captured = mem[r].captured
        /\ m.slot = mem[r].slot
    BY <1>m, MemoryKeeps
  <2> HIDE DEF m
  <2>4. Moves(r, {pc[r]}, {"write"}) /\ mem'[r] = m
    BY <1>p, <2>1, <2>2, MovingOn
  <2>5. pc'[r] = "write" BY <2>4 DEF Moves
  <2>6. Fields(r) BY <2>1, <2>3, <2>4, <2>5 DEF Fields
  <2> QED BY <2>1, <2>4, <2>6 DEF Shell
<1>4. ASSUME WritePid(r) PROVE Shell(r, "write", {"recover", "cleanup"}) /\ Fields(r)
  <2>1. /\ pc[r] = "write" /\ UNCHANGED <<ended, dest, backup>>
        /\ (Goto(r, "recover") /\ UNCHANGED mem) \/ Die(r, mem[r])
    BY <1>4 DEF WritePid, Step
  <2>2. CASE Goto(r, "recover") /\ UNCHANGED mem
    <3>1. Moves(r, {pc[r]}, {"recover"}) /\ Fields(r)
      BY <1>p, <2>1, <2>2, GoingFields
    <3> QED BY <2>1, <3>1 DEF Shell, Moves
  <2>3. CASE Die(r, mem[r])
    <3>1. Moves(r, {pc[r]}, {"cleanup"}) /\ Fields(r)
      BY <1>m, <2>1, <2>3, DyingFields
    <3> QED BY <2>1, <3>1 DEF Shell, Moves
  <2> QED BY <2>1, <2>2, <2>3
<1>5. ASSUME ReadPid(r) PROVE Shell(r, "read", {"probe"}) /\ Fields(r)
  <2> DEFINE it == IF lock = Absent THEN NoPid ELSE lock
             m == [mem[r] EXCEPT !.seen = it]
  <2>1. /\ pc[r] = "read" /\ UNCHANGED <<ended, dest, backup>>
        /\ Set(r, m) /\ Goto(r, "probe")
    BY <1>5 DEF ReadPid, Step, files
  <2>2. it \in Locks BY DEF Types, Locks
  <2> HIDE DEF it
  <2>3. m \in Memory BY <1>m, <2>2, MemoryFields
  <2>4. m.saved = mem[r].saved /\ m.held = mem[r].held /\ m.captured = mem[r].captured
        /\ m.slot = mem[r].slot
    BY <1>m, <2>2, MemoryKeeps
  <2> HIDE DEF m
  <2>5. Moves(r, {pc[r]}, {"probe"}) /\ mem'[r] = m
    BY <1>p, <2>1, <2>3, MovingOn
  <2>6. pc'[r] = "probe" BY <2>5 DEF Moves
  <2>7. Fields(r) BY <2>1, <2>4, <2>5, <2>6 DEF Fields
  <2> QED BY <2>1, <2>5, <2>7 DEF Shell
<1>6. ASSUME ProbeOwner(r) PROVE Shell(r, "probe", {"capture", "cleanup"}) /\ Fields(r)
  <2>1. /\ pc[r] = "probe" /\ UNCHANGED <<ended, dest, backup>>
        /\ (Goto(r, "capture") /\ UNCHANGED mem) \/ Die(r, mem[r])
    BY <1>6 DEF ProbeOwner, Step, files
  <2>2. CASE Goto(r, "capture") /\ UNCHANGED mem
    <3>1. Moves(r, {pc[r]}, {"capture"}) /\ Fields(r)
      BY <1>p, <2>1, <2>2, GoingFields
    <3> QED BY <2>1, <3>1 DEF Shell, Moves
  <2>3. CASE Die(r, mem[r])
    <3>1. Moves(r, {pc[r]}, {"cleanup"}) /\ Fields(r)
      BY <1>m, <2>1, <2>3, DyingFields
    <3> QED BY <2>1, <3>1 DEF Shell, Moves
  <2> QED BY <2>1, <2>2, <2>3
<1> QED BY <1>1, <1>2, <1>3, <1>4, <1>5, <1>6

\* The commands that take a stale lock away, or put a live one back.
LEMMA StealingDoes ==
  ASSUME Types, NEW r \in Procs
  PROVE  /\ CaptureLock(r) => Shell(r, "capture", {"note", "mkdir", "cleanup"}) /\ Fields(r)
         /\ NoteCopy(r) => Shell(r, "note", {"inspect"}) /\ Fields(r)
         /\ InspectCopy(r) => Shell(r, "inspect", {"test", "mkdir", "cleanup"}) /\ Fields(r)
         /\ TestLockPath(r) => Shell(r, "test", {"restore", "cleanup"}) /\ Fields(r)
         /\ RestoreLock(r) => Shell(r, "restore", {"cleanup"}) /\ Fields(r)
PROOF
<1>m. mem[r] \in Memory BY DEF Types
<1>p. {"note", "inspect", "test", "restore"} \subseteq Pcs \ {"cleanup"}
  BY DEF Pcs, Acquiring
<1>d. /\ DropClaim(mem[r]) \in Memory /\ DropClaim(mem[r]).saved = mem[r].saved
      /\ DropClaim(mem[r]).held = mem[r].held /\ DropClaim(mem[r]).slot = mem[r].slot
      /\ DropClaim(mem[r]).captured = FALSE
  BY <1>m, MemoryKeeps
<1>1. ASSUME CaptureLock(r)
      PROVE  Shell(r, "capture", {"note", "mkdir", "cleanup"}) /\ Fields(r)
  <2>1. /\ pc[r] = "capture" /\ UNCHANGED <<ended, dest, backup>>
        /\ (Goto(r, "note") /\ UNCHANGED mem) \/ Retry(r, mem[r])
    BY <1>1 DEF CaptureLock, Step
  <2>2. CASE Goto(r, "note") /\ UNCHANGED mem
    <3>1. Moves(r, {pc[r]}, {"note"}) /\ Fields(r)
      BY <1>p, <2>1, <2>2, GoingFields
    <3> QED BY <2>1, <3>1 DEF Shell, Moves
  <2>3. CASE Retry(r, mem[r])
    <3>1. Moves(r, {pc[r]}, {"mkdir", "cleanup"}) /\ Fields(r)
      BY <1>m, <2>1, <2>3, RetryingFields
    <3> QED BY <2>1, <3>1 DEF Shell, Moves
  <2> QED BY <2>1, <2>2, <2>3
<1>2. ASSUME NoteCopy(r) PROVE Shell(r, "note", {"inspect"}) /\ Fields(r)
  <2> DEFINE m == [mem[r] EXCEPT !.captured = TRUE]
  <2>1. /\ pc[r] = "note" /\ UNCHANGED <<ended, dest, backup>>
        /\ Set(r, m) /\ Goto(r, "inspect")
    BY <1>2 DEF NoteCopy, Step, files
  <2>2. m \in Memory BY <1>m, MemoryFields
  <2>3. m.saved = mem[r].saved /\ m.held = mem[r].held /\ m.slot = mem[r].slot
    BY <1>m, MemoryKeeps
  <2> HIDE DEF m
  <2>4. Moves(r, {pc[r]}, {"inspect"}) /\ mem'[r] = m
    BY <1>p, <2>1, <2>2, MovingOn
  <2>5. pc'[r] = "inspect" BY <2>4 DEF Moves
  <2>6. Fields(r) BY <2>1, <2>3, <2>4, <2>5 DEF Fields
  <2> QED BY <2>1, <2>4, <2>6 DEF Shell
<1>3. ASSUME InspectCopy(r)
      PROVE  Shell(r, "inspect", {"test", "mkdir", "cleanup"}) /\ Fields(r)
  <2>1. /\ pc[r] = "inspect" /\ UNCHANGED <<ended, dest, backup>>
        /\ (Goto(r, "test") /\ UNCHANGED mem) \/ Retry(r, DropClaim(mem[r]))
    BY <1>3 DEF InspectCopy, Step
  <2>2. CASE Goto(r, "test") /\ UNCHANGED mem
    <3>1. Moves(r, {pc[r]}, {"test"}) /\ Fields(r)
      BY <1>p, <2>1, <2>2, GoingFields
    <3> QED BY <2>1, <3>1 DEF Shell, Moves
  <2>3. CASE Retry(r, DropClaim(mem[r]))
    <3>1. Moves(r, {pc[r]}, {"mkdir", "cleanup"}) /\ Fields(r)
      BY <1>d, <2>1, <2>3, RetryingFields
    <3> QED BY <2>1, <3>1 DEF Shell, Moves
  <2> QED BY <2>1, <2>2, <2>3
<1>e. ASSUME Die(r, DropClaim(mem[r])), pc[r] \in {"test", "restore"}
      PROVE  Moves(r, {pc[r]}, {"cleanup"}) /\ Fields(r)
  BY <1>d, <1>e, DyingFields
<1>4. ASSUME TestLockPath(r) PROVE Shell(r, "test", {"restore", "cleanup"}) /\ Fields(r)
  <2>1. /\ pc[r] = "test" /\ UNCHANGED <<ended, dest, backup>>
        /\ (Goto(r, "restore") /\ UNCHANGED mem) \/ Die(r, DropClaim(mem[r]))
    BY <1>4 DEF TestLockPath, Step, files
  <2>2. CASE Goto(r, "restore") /\ UNCHANGED mem
    <3>1. Moves(r, {pc[r]}, {"restore"}) /\ Fields(r)
      BY <1>p, <2>1, <2>2, GoingFields
    <3> QED BY <2>1, <3>1 DEF Shell, Moves
  <2>3. CASE Die(r, DropClaim(mem[r]))
    <3>1. Moves(r, {pc[r]}, {"cleanup"}) /\ Fields(r) BY <1>e, <2>1, <2>3
    <3> QED BY <2>1, <3>1 DEF Shell, Moves
  <2> QED BY <2>1, <2>2, <2>3
<1>5. ASSUME RestoreLock(r) PROVE Shell(r, "restore", {"cleanup"}) /\ Fields(r)
  <2>1. /\ pc[r] = "restore" /\ UNCHANGED <<ended, dest, backup>>
        /\ Die(r, DropClaim(mem[r]))
    BY <1>5 DEF RestoreLock, Step
  <2>2. Moves(r, {pc[r]}, {"cleanup"}) /\ Fields(r) BY <1>e, <2>1
  <2> QED BY <2>1, <2>2 DEF Shell
<1> QED BY <1>1, <1>2, <1>3, <1>4, <1>5


-----------------------------------------------------------------------------
(* No command of acquire_lock brings two processes past it.                *)

\* What the two know of each other.
Both(p, r) == Pair(p, r) /\ Pair(r, p)

\* Such a command moves its process only.
LEMMA ShellAlone ==
  ASSUME NEW r \in Procs, NEW from, NEW to, Shell(r, from, to)
  PROVE  Alone(r) /\ pc[r] = from /\ pc'[r] \in to /\ ended' = ended
BY DEF Shell, Moves, Alone

\* The commands that take the lock: mkdir succeeds only where the other is not
\* inside, for whoever is inside and has lost its lock will have it put back.
LEMMA TakingApart ==
  ASSUME CleanInv, CleanInv', NEW r \in Procs, NEW p \in Procs, p # r, Both(p, r),
         \/ ChooseCopyPath(r) \/ MakeLock(r) \/ OwnLock(r)
         \/ WritePid(r) \/ ReadPid(r) \/ ProbeOwner(r)
  PROVE  Both(p, r)'
PROOF
<1>t. Types /\ Types' BY DEF CleanInv
<1>a. copies' = copies => Fewer BY DEF Fewer
<1>b. \* Plain steps keep what they know.
      ASSUME Alone(r), Plain(r, p) PROVE Both(p, r)'
  BY <1>t, <1>b, PlainKeeps DEF Both
<1>1. ASSUME ChooseCopyPath(r) PROVE Both(p, r)'
  <2>1. Alone(r) /\ pc[r] = "begin" /\ pc'[r] = "mkdir" /\ Fields(r)
    BY <1>t, <1>1, TakingDoes, ShellAlone
  <2>2. lock' = lock
        /\ copies' = IF Dead(copies[<<r, 0>>]) THEN [copies EXCEPT ![<<r, 0>>] = Absent]
                                               ELSE copies
    BY <1>1 DEF ChooseCopyPath
  <2>3. Fewer BY <1>t, <2>2 DEF Fewer, Types
  <2>4. Plain(r, p)
    BY <2>1, <2>2, <2>3, BeforePlain DEF Both, Fields, Before
  <2> QED BY <1>b, <2>1, <2>4
<1>2. ASSUME MakeLock(r) PROVE Both(p, r)'
  <2>1. Alone(r) /\ pc[r] = "mkdir" /\ pc'[r] \in {"own", "read"} /\ Fields(r)
    BY <1>t, <1>2, TakingDoes, ShellAlone
  <2>2. copies' = copies BY <1>2 DEF MakeLock
  <2>3. CASE lock # Absent
    <3>1. lock' = lock /\ pc'[r] = "read"
      BY <1>t, <1>2, <2>3, Going DEF MakeLock, Pcs, Acquiring
    <3>2. Plain(r, p)
      BY <1>a, <2>1, <2>2, <3>1, BeforePlain DEF Both, Fields, Before
    <3> QED BY <1>b, <2>1, <3>2
  <2>4. CASE lock = Absent
    <3>1. lock' = NoPid /\ pc'[r] = "own"
      BY <1>t, <1>2, <2>4, Going DEF MakeLock, Pcs, Acquiring
    <3>2. /\ pc'[p] = pc[p] /\ mem'[p] = mem[p] /\ ended'[p] = ended[p]
      BY <2>1 DEF Alone
    <3>3. ~Inside(p)
      BY <2>1, <2>4 DEF Both, Pair, Gone, Returning, Cleaning
    <3>4. ~Inside(p)' BY <3>2, <3>3 DEF Inside
    <3>5. Places(r)' = Places(r) /\ Places(p)' = Places(p)
      BY <2>2 DEF Places
    <3>6. Places(r) = {}
      BY <2>1 DEF Both, Pair, Late, Installing, Cleaning
    <3>7. lock' \notin {p, r, Absent} BY <3>1, NamesDiffer
    <3>8. Pair(p, r)'
      BY <2>1, <3>1, <3>4, <3>5, <3>6, <3>7 DEF Pair, Both, Fields, Acquiring
    <3>9. Mine(p, r)' <=> Mine(p, r) BY <2>2, <3>2 DEF Mine, Copy
    <3>10. Late(p)' <=> Late(p) BY <3>2 DEF Late
    <3>11. Pair(r, p)'
      BY <3>1, <3>2, <3>4, <3>5, <3>7, <3>9, <3>10 DEF Pair, Both
    <3> QED BY <3>8, <3>11 DEF Both
  <2> QED BY <2>3, <2>4
<1>3. ASSUME OwnLock(r) PROVE Both(p, r)'
  <2>1. Alone(r) /\ pc[r] = "own" /\ pc'[r] = "write" /\ ended' = ended
    BY <1>t, <1>3, TakingDoes, ShellAlone
  <2>2. lock' = lock /\ copies' = copies BY <1>3 DEF OwnLock, files
  <2>3. Plain(r, p) BY <1>a, <2>1, <2>2, InsidePlain
  <2> QED BY <1>b, <2>1, <2>3
<1>4. ASSUME WritePid(r) PROVE Both(p, r)'
  <2>1. /\ Alone(r) /\ pc[r] = "write" /\ pc'[r] \in {"recover", "cleanup"}
        /\ ended' = ended /\ Fields(r)
    BY <1>t, <1>4, TakingDoes, ShellAlone
  <2>2. copies' = copies BY <1>4 DEF WritePid
  <2>3. CASE lock = Absent
    <3>1. lock' = lock BY <1>4, <2>3 DEF WritePid
    <3>2. "recover" \in Installing BY DEF Installing
    <3>3. Plain(r, p) BY <1>a, <2>1, <2>2, <3>1, <3>2, InsidePlain
    <3> QED BY <1>b, <2>1, <3>3
  <2>4. CASE lock # Absent
    <3>1. lock' = r /\ pc'[r] = "recover"
      BY <1>t, <1>4, <2>4, Going DEF WritePid, Pcs, Installing
    <3>2. /\ pc'[p] = pc[p] /\ mem'[p] = mem[p] /\ ended'[p] = ended[p]
      BY <2>1 DEF Alone
    <3>3. ~Inside(p) BY <2>1 DEF Both, Pair, Inside
    <3>4. ~Inside(p)' BY <3>2, <3>3 DEF Inside
    <3>5. Places(r)' = Places(r) /\ Places(p)' = Places(p)
      BY <2>2 DEF Places
    <3>6. lock' \notin {p, Absent} BY <3>1, NamesDiffer
    <3>7. ended'[r] = "running" BY <2>1, Running
    <3>8. Late(r)' BY <3>1, <3>7 DEF Late, Installing
    <3>9. Pair(p, r)'
      BY <3>1, <3>4, <3>8 DEF Pair, Acquiring
    <3>10. Mine(p, r)' <=> Mine(p, r) BY <2>2, <3>2 DEF Mine, Copy
    <3>11. Late(p)' <=> Late(p) BY <3>2 DEF Late
    <3>12. Pair(r, p)'
      BY <3>1, <3>2, <3>4, <3>5, <3>6, <3>10, <3>11 DEF Pair, Both
    <3> QED BY <3>9, <3>12 DEF Both
  <2> QED BY <2>3, <2>4
<1>5. ASSUME ReadPid(r) PROVE Both(p, r)'
  <2>1. Alone(r) /\ pc[r] = "read" /\ pc'[r] = "probe" /\ Fields(r)
    BY <1>t, <1>5, TakingDoes, ShellAlone
  <2>2. lock' = lock /\ copies' = copies BY <1>5 DEF ReadPid, files
  <2>3. Plain(r, p)
    BY <1>a, <2>1, <2>2, BeforePlain DEF Both, Fields, Before
  <2> QED BY <1>b, <2>1, <2>3
<1>6. ASSUME ProbeOwner(r) PROVE Both(p, r)'
  <2>1. Alone(r) /\ pc[r] = "probe" /\ pc'[r] \in {"capture", "cleanup"} /\ Fields(r)
    BY <1>t, <1>6, TakingDoes, ShellAlone
  <2>2. lock' = lock /\ copies' = copies BY <1>6 DEF ProbeOwner, files
  <2>3. Plain(r, p)
    BY <1>a, <2>1, <2>2, BeforePlain DEF Both, Fields, Before
  <2> QED BY <1>b, <2>1, <2>3
<1> QED BY <1>1, <1>2, <1>3, <1>4, <1>5, <1>6


\* The commands that take a lock away: what is renamed while the other is inside
\* is its lock or has no PID, so it is not deleted but put back.
LEMMA StealingApart ==
  ASSUME TwoProcesses, CleanInv, CleanInv', NEW r \in Procs, NEW p \in Procs, p # r, Both(p, r),
         \/ CaptureLock(r) \/ NoteCopy(r) \/ InspectCopy(r) \/ TestLockPath(r)
         \/ RestoreLock(r)
  PROVE  Both(p, r)'
PROOF
<1>t. Types /\ Types' BY DEF CleanInv
<1>a. copies' = copies => Fewer BY DEF Fewer
<1>b. \* Plain steps keep what they know.
      ASSUME Alone(r), Plain(r, p) PROVE Both(p, r)'
  BY <1>t, <1>b, PlainKeeps DEF Both
<1>c. /\ Copy(r) \in Procs \X Slots /\ Copy(p) \in Procs \X Slots /\ Copy(p) # Copy(r)
      /\ copies[Copy(r)] \in Locks \cup {Absent}
      /\ DOMAIN copies = Procs \X Slots /\ DOMAIN copies' = Procs \X Slots
  BY <1>t, Copies DEF Types
<1>k. \* A command that keeps the path keeps the copy's place.
      ASSUME Fields(r), pc[r] # "begin" PROVE Copy(r)' = Copy(r)
  BY <1>k DEF Fields, Copy
<1>1. ASSUME CaptureLock(r) PROVE Both(p, r)'
  <2>1. /\ Alone(r) /\ pc[r] = "capture" /\ pc'[r] \in {"note", "mkdir", "cleanup"}
        /\ Fields(r)
    BY <1>t, <1>1, StealingDoes, ShellAlone
  <2>2. CASE lock = Absent
    <3>1. lock' = lock /\ copies' = copies /\ Retry(r, mem[r])
      BY <1>1, <2>2 DEF CaptureLock
    <3>2. mem[r] \in Memory BY <1>t DEF Types
    <3>3. pc'[r] \in {"mkdir", "cleanup"}
      BY <1>t, <3>1, <3>2, Retrying
    <3>4. Plain(r, p)
      BY <1>a, <2>1, <3>1, <3>3, BeforePlain DEF Both, Fields, Before
    <3> QED BY <1>b, <2>1, <3>4
  <2>3. CASE lock # Absent
    <3>1. /\ lock' = Absent /\ copies' = [copies EXCEPT ![Copy(r)] = lock]
          /\ pc'[r] = "note"
      BY <1>t, <1>1, <2>3, Going DEF CaptureLock, Pcs, Acquiring
    <3>2. /\ pc'[p] = pc[p] /\ mem'[p] = mem[p] /\ ended'[p] = ended[p]
      BY <2>1 DEF Alone
    <3>3. copies'[Copy(r)] = lock /\ copies'[Copy(p)] = copies[Copy(p)]
      BY <1>t, <1>c, <3>1 DEF Types
    <3>4. Copy(r)' = Copy(r) BY <1>k, <2>1
    <3>5. /\ Inside(p)' = Inside(p) /\ Late(p)' = Late(p) /\ Copy(p)' = Copy(p)
      BY <3>2 DEF Inside, Late, Copy
    <3>6. Mine(p, r)' <=> Mine(p, r) BY <3>3, <3>5 DEF Mine
    <3>7. ~Inside(r)'
      BY <3>1 DEF Inside, Installing, Cleaning
    <3>8. Inside(p) => Returning(r, p)'
      BY <3>1, <3>3, <3>4 DEF Returning, Mine, Both, Pair
    <3>9. \* What is in a copy was there or at the lock's path.
          ASSUME NEW x \in Procs, lock' = x \/ Places(x)' # {} PROVE lock = x \/ Places(x) # {}
      <4>1. lock' # x BY <3>1, NamesDiffer
      <4>2. PICK path \in Procs \X Slots : copies'[path] = x
        BY <1>c, <3>9, <4>1 DEF Places
      <4>3. CASE path = Copy(r) BY <3>3, <4>2, <4>3
      <4>4. CASE path # Copy(r)
        <5>1. copies[path] = x BY <1>t, <1>c, <3>1, <4>2, <4>4 DEF Types
        <5> QED BY <1>c, <5>1 DEF Places
      <4> QED BY <4>3, <4>4
    <3>10. ~Late(r) BY <2>1 DEF Late, Installing, Cleaning
    <3>11. ~(lock' = r \/ Places(r)' # {}) BY <3>9, <3>10 DEF Both, Pair
    <3>12. ~mem'[r].held
      BY <2>1 DEF Fields, Both, Pair, Acquiring
    <3>13. Pair(p, r)'
      <4>1. Inside(p)' => lock' \in {p, NoPid, Absent} BY <3>1
      <4>2. Inside(p)' /\ lock' = Absent => (Gone(r) \/ Returning(r, p))' BY <3>5, <3>8
      <4>3. pc'[r] \notin {"test", "restore"} BY <3>1
      <4> QED BY <3>7, <3>11, <3>12, <4>1, <4>2, <4>3 DEF Pair
    <3>14. Pair(r, p)'
      <4>1. pc'[p] \in {"test", "restore"} => Mine(p, r)' BY <3>2, <3>6 DEF Both, Pair
      <4>2. lock' = p \/ Places(p)' # {} => Late(p)' BY <3>5, <3>9 DEF Both, Pair
      <4>3. pc'[p] \in Acquiring => ~mem'[p].held BY <3>2 DEF Both, Pair
      <4> QED BY <3>7, <4>1, <4>2, <4>3 DEF Pair
    <3> QED BY <3>13, <3>14 DEF Both
  <2> QED BY <2>2, <2>3
<1>2. ASSUME NoteCopy(r) PROVE Both(p, r)'
  <2>1. Alone(r) /\ pc[r] = "note" /\ pc'[r] = "inspect" /\ Fields(r)
    BY <1>t, <1>2, StealingDoes, ShellAlone
  <2>2. lock' = lock /\ copies' = copies BY <1>2 DEF NoteCopy, files
  <2>3. Copy(r)' = Copy(r) BY <1>k, <2>1
  <2>4. Returning(r, p) => Returning(r, p)'
    BY <2>1, <2>2, <2>3 DEF Returning, Mine
  <2>5. ~Inside(r)' /\ ~Gone(r) /\ ~Late(r)
    BY <2>1 DEF Inside, Gone, Late, Installing, Cleaning
  <2>6. ~mem'[r].held BY <2>1 DEF Fields, Both, Pair, Acquiring
  <2>7. Plain(r, p) BY <1>a, <2>1, <2>2, <2>4, <2>5, <2>6 DEF Plain
  <2> QED BY <1>b, <2>1, <2>7
<1>3. ASSUME InspectCopy(r) PROVE Both(p, r)'
  <2>1. /\ Alone(r) /\ pc[r] = "inspect" /\ pc'[r] \in {"test", "mkdir", "cleanup"}
        /\ Fields(r)
    BY <1>t, <1>3, StealingDoes, ShellAlone
  <2>2. lock' = lock BY <1>3 DEF InspectCopy
  <2>3. ~mem[r].held /\ ~mem'[r].held
    BY <2>1 DEF Fields, Both, Pair, Acquiring
  <2>4. ~Inside(r)' /\ ~Gone(r) /\ ~Late(r)
    BY <2>1, <2>3 DEF Inside, Gone, Late, Installing, Cleaning
  <2>5. CASE Dead(copies[Copy(r)])
    <3>1. copies' = [copies EXCEPT ![Copy(r)] = Absent]
      BY <1>3, <2>5 DEF InspectCopy, Stale
    <3>2. Fewer BY <1>t, <1>c, <3>1 DEF Fewer, Types
    <3>3. Inside(p) => ~Returning(r, p)
      <4>1. Inside(p) => pc[p] # "off" BY DEF Inside, Installing, Cleaning
      <4>2. Inside(p) => copies[Copy(r)] # p BY <2>5, <4>1 DEF Dead, Alive
      <4>3. copies[Copy(r)] \notin {NoPid, Absent}
        BY <2>5, InstallAssumption DEF Dead, Locks
      <4> QED BY <4>2, <4>3 DEF Returning, Mine
    <3>4. Retry(r, DropClaim(mem[r])) BY <1>3, <2>5 DEF InspectCopy, Stale
    <3>5. mem[r] \in Memory BY <1>t DEF Types
    <3>6. DropClaim(mem[r]) \in Memory BY <3>5, MemoryKeeps
    <3>7. pc'[r] \in {"mkdir", "cleanup"} BY <1>t, <3>4, <3>6, Retrying
    <3>8. Plain(r, p) BY <2>2, <2>3, <2>4, <3>2, <3>3, <3>7 DEF Plain
    <3> QED BY <1>b, <2>1, <3>8
  <2>6. CASE ~Dead(copies[Copy(r)])
    <3>1. copies' = copies /\ Goto(r, "test")
      BY <1>3, <2>6 DEF InspectCopy, Stale
    <3>2. pc'[r] = "test" BY <1>t, <3>1, Going DEF Pcs, Acquiring
    <3>3. Copy(r)' = Copy(r) BY <1>k, <2>1
    <3>4. Returning(r, p) => Returning(r, p)'
      BY <3>1, <3>2, <3>3 DEF Returning, Mine
    <3>5. copies[Copy(r)] # r
      <4>1. Places(r) = {} BY <2>4 DEF Both, Pair
      <4> QED BY <1>c, <4>1 DEF Places
    <3>6. copies[Copy(r)] \notin {r, Old} /\ copies[Copy(r)] \in Procs => copies[Copy(r)] = p
      BY <3>5 DEF TwoProcesses
    <3>7. copies[Copy(r)] # Old
      BY <2>6, InstallAssumption DEF Dead, Alive
    <3>8. Mine(r, p)
      BY <1>c, <3>5, <3>6, <3>7 DEF Mine, Locks
    <3>9. Mine(r, p)' BY <3>1, <3>3, <3>8 DEF Mine
    <3>10. Plain(r, p) BY <1>a, <2>2, <2>3, <2>4, <3>1, <3>4, <3>9 DEF Plain
    <3> QED BY <1>b, <2>1, <3>10
  <2> QED BY <2>5, <2>6
<1>4. ASSUME TestLockPath(r) PROVE Both(p, r)'
  <2>1. /\ Alone(r) /\ pc[r] = "test" /\ pc'[r] \in {"restore", "cleanup"} /\ Fields(r)
        /\ ended' = ended
    BY <1>t, <1>4, StealingDoes, ShellAlone
  <2>2. lock' = lock /\ copies' = copies BY <1>4 DEF TestLockPath, files
  <2>3. Copy(r)' = Copy(r) BY <1>k, <2>1
  <2>4. Mine(r, p) /\ Mine(r, p)' BY <2>1, <2>2, <2>3 DEF Both, Pair, Mine
  <2>5. ended'[r] # "never ran" BY <2>1, Running
  <2>6. (Gone(r) \/ Returning(r, p))'
    BY <2>1, <2>4, <2>5 DEF Gone, Returning, Cleaning
  <2>7. ~mem'[r].held BY <2>1 DEF Fields, Both, Pair, Acquiring
  <2>8. ~Inside(r)' /\ ~Late(r)
    BY <2>1, <2>7 DEF Inside, Late, Installing, Cleaning
  <2>9. Plain(r, p) BY <1>a, <2>1, <2>2, <2>4, <2>6, <2>7, <2>8 DEF Plain
  <2> QED BY <1>b, <2>1, <2>9
<1>5. ASSUME RestoreLock(r) PROVE Both(p, r)'
  <2>1. /\ Alone(r) /\ pc[r] = "restore" /\ pc'[r] = "cleanup" /\ Fields(r)
        /\ ended' = ended
    BY <1>t, <1>5, StealingDoes, ShellAlone
  <2>2. /\ lock' = IF lock = Absent THEN copies[Copy(r)] ELSE lock
        /\ copies' = [copies EXCEPT ![Copy(r)] = Absent]
    BY <1>5 DEF RestoreLock
  <2>3. /\ pc'[p] = pc[p] /\ mem'[p] = mem[p] /\ ended'[p] = ended[p]
    BY <2>1 DEF Alone
  <2>4. copies'[Copy(p)] = copies[Copy(p)]
    BY <1>t, <1>c, <2>2 DEF Types
  <2>5. /\ Inside(p)' = Inside(p) /\ Late(p)' = Late(p) /\ Copy(p)' = Copy(p)
    BY <2>3 DEF Inside, Late, Copy
  <2>6. Mine(p, r)' <=> Mine(p, r) BY <2>4, <2>5 DEF Mine
  <2>7. ended'[r] # "never ran" BY <2>1, Running
  <2>8. ~mem'[r].held BY <2>1 DEF Fields, Both, Pair, Acquiring
  <2>9. Gone(r)' /\ ~Inside(r)'
    BY <2>1, <2>7, <2>8 DEF Gone, Inside, Installing, Cleaning
  <2>10. Mine(r, p) BY <2>1 DEF Both, Pair
  <2>11. Inside(p) => lock' \in {p, NoPid, Absent}
    BY <2>2, <2>10 DEF Mine, Both, Pair
  <2>12. ASSUME NEW x \in Procs, lock' = x \/ Places(x)' # {} PROVE lock = x \/ Places(x) # {}
    <3>1. CASE lock' = x BY <1>c, <2>2, <3>1 DEF Places
    <3>2. CASE Places(x)' # {}
      <4>1. Fewer BY <1>t, <1>c, <2>2 DEF Fewer, Types
      <4> QED BY <1>t, <3>2, <4>1, FewerPlaces
    <3> QED BY <2>12, <3>1, <3>2
  <2>13. ~Late(r) BY <2>1 DEF Late, Installing, Cleaning
  <2>14. ~(lock' = r \/ Places(r)' # {}) BY <2>12, <2>13 DEF Both, Pair
  <2>15. Pair(p, r)'
    <3>1. pc'[r] \notin {"test", "restore"} BY <2>1
    <3> QED BY <2>5, <2>8, <2>9, <2>11, <2>14, <3>1 DEF Pair
  <2>16. Pair(r, p)'
    <3>1. pc'[p] \in {"test", "restore"} => Mine(p, r)' BY <2>3, <2>6 DEF Both, Pair
    <3>2. lock' = p \/ Places(p)' # {} => Late(p)' BY <2>5, <2>12 DEF Both, Pair
    <3>3. pc'[p] \in Acquiring => ~mem'[p].held BY <2>3 DEF Both, Pair
    <3> QED BY <2>9, <3>1, <3>2, <3>3 DEF Pair
  <2> QED BY <2>15, <2>16 DEF Both
<1> QED BY <1>1, <1>2, <1>3, <1>4, <1>5


-----------------------------------------------------------------------------
(* What the commands under the lock, and those of cleanup, do.             *)

\* The shell variables of a holder.
Kept(r) ==
  /\ mem'[r].held = mem[r].held /\ mem'[r].captured = mem[r].captured
  /\ mem'[r].slot = mem[r].slot
  /\ mem'[r].saved = IF pc[r] = "note saved" THEN TRUE ELSE mem[r].saved
  /\ pc'[r] = "cleanup" /\ pc[r] # "drop" => mem'[r].rc = "failed"

Works(r, from, to) == Moves(r, {from}, to) /\ ended' = ended /\ Kept(r)

\* Fields that the changes under the lock leave.
LEMMA HolderKeeps ==
  ASSUME NEW m \in Memory
  PROVE  /\ LET n == [m EXCEPT !.staged = TRUE] IN
              n.saved = m.saved /\ n.held = m.held /\ n.captured = m.captured /\ n.slot = m.slot
         /\ LET n == [m EXCEPT !.named = TRUE] IN
              n.saved = m.saved /\ n.held = m.held /\ n.captured = m.captured /\ n.slot = m.slot
         /\ LET n == [m EXCEPT !.saved = TRUE] IN
              n.saved = TRUE /\ n.held = m.held /\ n.captured = m.captured /\ n.slot = m.slot
BY DEF Memory

\* A command under the lock that fails.
LEMMA FailingWorks ==
  ASSUME Types, NEW r \in Procs, Die(r, mem[r]), pc[r] # "note saved", ended' = ended
  PROVE  Works(r, pc[r], {"cleanup"})
PROOF
<1>m. mem[r] \in Memory BY DEF Types
<1>1. Moves(r, {pc[r]}, {"cleanup"}) /\ mem'[r] = [mem[r] EXCEPT !.rc = "failed"]
  BY <1>m, MovingOff, Zenon
<1>2. /\ mem'[r].saved = mem[r].saved /\ mem'[r].held = mem[r].held /\ mem'[r].slot = mem[r].slot
      /\ mem'[r].captured = mem[r].captured /\ mem'[r].rc = "failed"
  BY <1>m, <1>1 DEF Memory
<1>3. Kept(r) BY <1>2 DEF Kept
<1> QED BY <1>1, <1>3 DEF Works

\* A command under the lock that succeeds.
LEMMA GoingWorks ==
  ASSUME Types, NEW r \in Procs, NEW step \in Pcs, Goto(r, step), UNCHANGED mem,
         pc[r] # "note saved", step = "cleanup" => pc[r] = "drop", ended' = ended
  PROVE  Works(r, pc[r], {step})
PROOF
<1>m. mem[r] \in Memory BY DEF Types
<1>1. Moves(r, {pc[r]}, {step}) /\ mem'[r] = mem[r]
  BY <1>m, MovingOn, Zenon
<1>2. pc'[r] = step BY <1>1 DEF Moves
<1>3. Kept(r) BY <1>1, <1>2 DEF Kept
<1> QED BY <1>1, <1>3 DEF Works

\* Where each command under the lock leads.
LEMMA InstallDoes ==
  ASSUME Types, NEW r \in Procs
  PROVE  /\ RecoverBackup(r) => Works(r, "recover", {"sweep stages"})
         /\ SweepStages(r) => Works(r, "sweep stages", {"sweep copies"})
         /\ SweepCopies(r) => Works(r, "sweep copies", {"stage"})
         /\ MakeStage(r) => Works(r, "stage", {"fetch"})
         /\ Fetch(r) => Works(r, "fetch", {"name", "cleanup"})
         /\ NameBackup(r) => Works(r, "name", {"save", "install"})
         /\ SaveDest(r) => Works(r, "save", {"note saved", "cleanup"})
         /\ NoteSaved(r) => Works(r, "note saved", {"install"})
         /\ Install(r) => Works(r, "install", {"drop", "cleanup"})
         /\ DropBackup(r) => Works(r, "drop", {"cleanup"})
PROOF
<1>m. mem[r] \in Memory BY DEF Types
<1>p. Installing \cup {"cleanup"} \subseteq Pcs
  BY DEF Pcs, Cleaning
<1>i. Installing = {"recover", "sweep stages", "sweep copies", "stage", "fetch", "name", "save",
                    "note saved", "install", "drop"}
  BY DEF Installing
<1>1. ASSUME RecoverBackup(r) PROVE Works(r, "recover", {"sweep stages"})
  <2>1. pc[r] = "recover" /\ ended' = ended /\ Goto(r, "sweep stages") /\ UNCHANGED mem
    BY <1>1 DEF RecoverBackup, Step
  <2> QED BY <1>p, <1>i, <2>1, GoingWorks
<1>2. ASSUME SweepStages(r) PROVE Works(r, "sweep stages", {"sweep copies"})
  <2>1. pc[r] = "sweep stages" /\ ended' = ended /\ Goto(r, "sweep copies") /\ UNCHANGED mem
    BY <1>2 DEF SweepStages, Step
  <2> QED BY <1>p, <1>i, <2>1, GoingWorks
<1>3. ASSUME SweepCopies(r) PROVE Works(r, "sweep copies", {"stage"})
  <2>1. pc[r] = "sweep copies" /\ ended' = ended /\ Goto(r, "stage") /\ UNCHANGED mem
    BY <1>3 DEF SweepCopies, Step
  <2> QED BY <1>p, <1>i, <2>1, GoingWorks
<1>4. ASSUME MakeStage(r) PROVE Works(r, "stage", {"fetch"})
  <2> DEFINE m == [mem[r] EXCEPT !.staged = TRUE]
  <2>1. pc[r] = "stage" /\ ended' = ended /\ Goto(r, "fetch") /\ Set(r, m)
    BY <1>4 DEF MakeStage, Step
  <2>2. m \in Memory BY <1>m, MemoryFields
  <2>3. /\ m.saved = mem[r].saved /\ m.held = mem[r].held
        /\ m.captured = mem[r].captured /\ m.slot = mem[r].slot
    BY <1>m, HolderKeeps
  <2> HIDE DEF m
  <2>4. Moves(r, {pc[r]}, {"fetch"}) /\ mem'[r] = m
    BY <1>p, <1>i, <2>1, <2>2, MovingOn
  <2>5. pc'[r] = "fetch" BY <2>4 DEF Moves
  <2> QED BY <2>1, <2>3, <2>4, <2>5 DEF Works, Kept
<1>5. ASSUME Fetch(r) PROVE Works(r, "fetch", {"name", "cleanup"})
  <2>1. /\ pc[r] = "fetch" /\ ended' = ended
        /\ (Goto(r, "name") /\ UNCHANGED mem) \/ Die(r, mem[r])
    BY <1>5 DEF Fetch, Step
  <2>2. CASE Goto(r, "name") /\ UNCHANGED mem
    <3>1. Works(r, "fetch", {"name"}) BY <1>p, <1>i, <2>1, <2>2, GoingWorks
    <3> QED BY <3>1 DEF Works, Moves
  <2>3. CASE Die(r, mem[r])
    <3>1. Works(r, "fetch", {"cleanup"}) BY <2>1, <2>3, FailingWorks
    <3> QED BY <3>1 DEF Works, Moves
  <2> QED BY <2>1, <2>2, <2>3
<1>6. ASSUME NameBackup(r) PROVE Works(r, "name", {"save", "install"})
  <2> DEFINE m == [mem[r] EXCEPT !.named = TRUE]
  <2>1. PICK step \in {"save", "install"} : Goto(r, step)
    BY <1>6 DEF NameBackup
  <2>2. pc[r] = "name" /\ ended' = ended /\ Set(r, m)
    BY <1>6 DEF NameBackup, Step
  <2>3. m \in Memory BY <1>m, MemoryFields
  <2>4. /\ m.saved = mem[r].saved /\ m.held = mem[r].held
        /\ m.captured = mem[r].captured /\ m.slot = mem[r].slot
    BY <1>m, HolderKeeps
  <2> HIDE DEF m
  <2>5. Moves(r, {pc[r]}, {step}) /\ mem'[r] = m
    BY <1>p, <1>i, <2>1, <2>2, <2>3, MovingOn
  <2>6. pc'[r] = step BY <2>5 DEF Moves
  <2> QED BY <2>2, <2>4, <2>5, <2>6 DEF Works, Kept, Moves
<1>7. ASSUME SaveDest(r) PROVE Works(r, "save", {"note saved", "cleanup"})
  <2>1. /\ pc[r] = "save" /\ ended' = ended
        /\ (Goto(r, "note saved") /\ UNCHANGED mem) \/ Die(r, mem[r])
    BY <1>7 DEF SaveDest, Step
  <2>2. CASE Goto(r, "note saved") /\ UNCHANGED mem
    <3>1. Works(r, "save", {"note saved"}) BY <1>p, <1>i, <2>1, <2>2, GoingWorks
    <3> QED BY <3>1 DEF Works, Moves
  <2>3. CASE Die(r, mem[r])
    <3>1. Works(r, "save", {"cleanup"}) BY <2>1, <2>3, FailingWorks
    <3> QED BY <3>1 DEF Works, Moves
  <2> QED BY <2>1, <2>2, <2>3
<1>8. ASSUME NoteSaved(r) PROVE Works(r, "note saved", {"install"})
  <2> DEFINE m == [mem[r] EXCEPT !.saved = TRUE]
  <2>1. pc[r] = "note saved" /\ ended' = ended /\ Goto(r, "install") /\ Set(r, m)
    BY <1>8 DEF NoteSaved, Step
  <2>2. m \in Memory BY <1>m, MemoryFields
  <2>3. /\ m.saved = TRUE /\ m.held = mem[r].held
        /\ m.captured = mem[r].captured /\ m.slot = mem[r].slot
    BY <1>m, HolderKeeps
  <2> HIDE DEF m
  <2>4. Moves(r, {pc[r]}, {"install"}) /\ mem'[r] = m
    BY <1>p, <1>i, <2>1, <2>2, MovingOn
  <2>5. pc'[r] = "install" BY <2>4 DEF Moves
  <2> QED BY <2>1, <2>3, <2>4, <2>5 DEF Works, Kept
<1>9. ASSUME Install(r) PROVE Works(r, "install", {"drop", "cleanup"})
  <2>1. /\ pc[r] = "install" /\ ended' = ended
        /\ (Goto(r, "drop") /\ UNCHANGED mem) \/ Die(r, mem[r])
    BY <1>9 DEF Install, Step
  <2>2. CASE Goto(r, "drop") /\ UNCHANGED mem
    <3>1. Works(r, "install", {"drop"}) BY <1>p, <1>i, <2>1, <2>2, GoingWorks
    <3> QED BY <3>1 DEF Works, Moves
  <2>3. CASE Die(r, mem[r])
    <3>1. Works(r, "install", {"cleanup"}) BY <2>1, <2>3, FailingWorks
    <3> QED BY <3>1 DEF Works, Moves
  <2> QED BY <2>1, <2>2, <2>3
<1>10. ASSUME DropBackup(r) PROVE Works(r, "drop", {"cleanup"})
  <2>1. pc[r] = "drop" /\ ended' = ended /\ Goto(r, "cleanup") /\ UNCHANGED mem
    BY <1>10 DEF DropBackup, Step
  <2> QED BY <1>p, <2>1, GoingWorks
<1> QED BY <1>1, <1>2, <1>3, <1>4, <1>5, <1>6, <1>7, <1>8, <1>9, <1>10

\* cleanup gives up a backup it has restored, or keeps one it could not.
Cleans(r) ==
  /\ mem'[r].held = mem[r].held /\ mem'[r].captured = mem[r].captured
  /\ mem'[r].saved = mem[r].saved /\ mem'[r].slot = mem[r].slot
  /\ mem'[r].rc \in {mem[r].rc, "failed"}

\* Where each command of cleanup leads.
LEMMA CleanDoes ==
  ASSUME Types, NEW r \in Procs
  PROVE  /\ RestoreBackup(r) =>
              Moves(r, {"cleanup"}, {"clear"}) /\ ended' = ended /\ Cleans(r)
              /\ (mem'[r].preserve \/ ~mem'[r].named \/ mem'[r] = mem[r])
         /\ ClearOwn(r) =>
              Moves(r, {"clear"}, {"unlock"}) /\ ended' = ended /\ mem' = mem
         /\ Unlock(r) =>
              Moves(r, {"unlock"}, {"off"}) /\ ended' = [ended EXCEPT ![r] = mem[r].rc]
              /\ mem' = mem
PROOF
<1>m. mem[r] \in Memory BY DEF Types
<1>p. {"clear", "unlock", "off"} \subseteq Pcs BY DEF Pcs, Cleaning
<1>1. ASSUME RestoreBackup(r)
      PROVE  /\ Moves(r, {"cleanup"}, {"clear"}) /\ ended' = ended /\ Cleans(r)
             /\ mem'[r].preserve \/ ~mem'[r].named \/ mem'[r] = mem[r]
  <2>1. /\ pc[r] = "cleanup" /\ ended' = ended /\ Goto(r, "clear")
        /\ \/ Set(r, [mem[r] EXCEPT !.named = FALSE])
           \/ Set(r, [mem[r] EXCEPT !.preserve = TRUE, !.rc = "failed"])
           \/ UNCHANGED mem
    BY <1>1 DEF RestoreBackup, Step
  <2>2. CASE Set(r, [mem[r] EXCEPT !.named = FALSE])
    <3> DEFINE m == [mem[r] EXCEPT !.named = FALSE]
    <3>1. m \in Memory BY <1>m, MemoryFields
    <3>2. /\ m.held = mem[r].held /\ m.captured = mem[r].captured /\ m.saved = mem[r].saved
          /\ m.slot = mem[r].slot /\ m.rc = mem[r].rc /\ ~m.named
      BY <1>m DEF Memory
    <3>3. Set(r, m) BY <2>2
    <3> HIDE DEF m
    <3>4. Moves(r, {pc[r]}, {"clear"}) /\ mem'[r] = m
      BY <1>p, <2>1, <3>1, <3>3, MovingOn
    <3> QED BY <2>1, <3>2, <3>4 DEF Cleans
  <2>3. CASE Set(r, [mem[r] EXCEPT !.preserve = TRUE, !.rc = "failed"])
    <3> DEFINE m == [mem[r] EXCEPT !.preserve = TRUE, !.rc = "failed"]
    <3>1. m \in Memory BY <1>m, MemoryFields
    <3>2. /\ m.held = mem[r].held /\ m.captured = mem[r].captured /\ m.saved = mem[r].saved
          /\ m.slot = mem[r].slot /\ m.rc = "failed" /\ m.preserve
      BY <1>m DEF Memory
    <3>3. Set(r, m) BY <2>3
    <3> HIDE DEF m
    <3>4. Moves(r, {pc[r]}, {"clear"}) /\ mem'[r] = m
      BY <1>p, <2>1, <3>1, <3>3, MovingOn
    <3> QED BY <2>1, <3>2, <3>4 DEF Cleans
  <2>4. CASE UNCHANGED mem
    <3>1. Moves(r, {pc[r]}, {"clear"}) /\ mem'[r] = mem[r]
      BY <1>m, <1>p, <2>1, <2>4, MovingOn
    <3> QED BY <2>1, <3>1 DEF Cleans
  <2> QED BY <2>1, <2>2, <2>3, <2>4
<1>2. ASSUME ClearOwn(r)
      PROVE  Moves(r, {"clear"}, {"unlock"}) /\ ended' = ended /\ mem' = mem
  <2>1. pc[r] = "clear" /\ ended' = ended /\ Goto(r, "unlock") /\ UNCHANGED mem
    BY <1>2 DEF ClearOwn, Step
  <2>2. Moves(r, {pc[r]}, {"unlock"}) BY <1>m, <1>p, <2>1, MovingOn
  <2> QED BY <2>1, <2>2
<1>3. ASSUME Unlock(r)
      PROVE  Moves(r, {"unlock"}, {"off"}) /\ ended' = [ended EXCEPT ![r] = mem[r].rc]
             /\ mem' = mem
  <2>1. /\ pc[r] = "unlock" /\ ended' = [ended EXCEPT ![r] = mem[r].rc]
        /\ Goto(r, "off") /\ UNCHANGED mem
    BY <1>3 DEF Unlock
  <2>2. Moves(r, {pc[r]}, {"off"}) BY <1>m, <1>p, <2>1, MovingOn
  <2> QED BY <2>1, <2>2
<1> QED BY <1>1, <1>2, <1>3


-----------------------------------------------------------------------------
(* Nor does any other step.                                                *)

\* The commands under the lock leave it.
LEMMA InstallingApart ==
  ASSUME CleanInv, CleanInv', NEW r \in Procs, NEW p \in Procs, p # r, Both(p, r),
         InstallUnderLock(r)
  PROVE  Both(p, r)'
PROOF
<1>t. Types /\ Types' BY DEF CleanInv
<1>1. lock' = lock /\ (copies' = copies \/ SweepCopies(r))
  BY DEF InstallUnderLock, RecoverBackup, SweepStages, SweepCopies, MakeStage, Fetch,
         NameBackup, SaveDest, NoteSaved, Install, DropBackup, files
<1>2. Fewer
  <2>1. CASE copies' = copies BY <2>1 DEF Fewer
  <2>2. CASE SweepCopies(r) BY <1>t, <2>2 DEF SweepCopies, Fewer, Types
  <2> QED BY <1>1, <2>1, <2>2
<1>3. PICK from \in Installing, to \in SUBSET (Installing \cup {"cleanup"}) : Works(r, from, to)
  BY <1>t, InstallDoes DEF InstallUnderLock, Installing
<1>4. /\ Alone(r) /\ ended' = ended
      /\ pc[r] \in Installing /\ pc'[r] \in Installing \cup {"cleanup"}
  BY <1>3 DEF Works, Moves, Alone
<1>5. pc'[r] # "write" BY <1>4 DEF Installing
<1>6. Plain(r, p) BY <1>1, <1>2, <1>4, <1>5, InsidePlain
<1> QED BY <1>t, <1>4, <1>6, PlainKeeps DEF Both

\* cleanup removes the lock for its holder, and leaves it otherwise.
LEMMA CleaningApart ==
  ASSUME CleanInv, CleanInv', NEW r \in Procs, NEW p \in Procs, p # r, Both(p, r),
         CleanUp(r)
  PROVE  Both(p, r)'
PROOF
<1>t. Types /\ Types' BY DEF CleanInv
<1>1. ASSUME RestoreBackup(r) \/ ClearOwn(r) PROVE Both(p, r)'
  <2>1. lock' = lock BY <1>1 DEF RestoreBackup, ClearOwn
  <2>2. Fewer
    <3>1. CASE RestoreBackup(r) BY <3>1 DEF RestoreBackup, Fewer
    <3>2. CASE ClearOwn(r)
      <4>1. copies' = IF mem[r].captured THEN [copies EXCEPT ![Copy(r)] = Absent] ELSE copies
        BY <3>2 DEF ClearOwn
      <4> QED BY <1>t, <4>1, Copies DEF Fewer, Types
    <3> QED BY <1>1, <3>1, <3>2
  <2>3. /\ Alone(r) /\ ended' = ended /\ mem'[r].held = mem[r].held
        /\ pc[r] \in Cleaning /\ pc'[r] \in Cleaning
    BY <1>t, <1>1, CleanDoes DEF Moves, Alone, Cleans, Cleaning
  <2>4. Plain(r, p) BY <2>1, <2>2, <2>3, CleaningPlain
  <2> QED BY <1>t, <2>3, <2>4, PlainKeeps DEF Both
<1>2. ASSUME Unlock(r) PROVE Both(p, r)'
  <2>1. /\ Moves(r, {"unlock"}, {"off"}) /\ ended' = [ended EXCEPT ![r] = mem[r].rc]
        /\ mem' = mem
    BY <1>t, <1>2, CleanDoes
  <2>2. copies' = copies /\ lock' = IF mem[r].held THEN Absent ELSE lock
    BY <1>2 DEF Unlock
  <2>3. pc[r] = "unlock" /\ pc'[r] = "off" BY <2>1 DEF Moves
  <2>4. mem[r].rc # "never ran" BY <1>t DEF Types, Memory
  <2>5. ended'[r] # "never ran" BY <1>t, <2>1, <2>4 DEF Types
  <2>6. Alone(r) BY <1>t, <2>1 DEF Alone, Moves, Types
  <2>7. CASE ~mem[r].held
    <3>1. Fewer BY <2>2 DEF Fewer
    <3>2. Plain(r, p) BY <2>2, <2>3, <2>5, <2>7, <3>1, LeavingPlain DEF Both
    <3> QED BY <1>t, <2>6, <3>2, PlainKeeps DEF Both
  <2>8. CASE mem[r].held
    <3>1. lock' = Absent BY <2>2, <2>8
    <3>2. Inside(r) BY <2>3, <2>8 DEF Inside, Cleaning
    <3>3. ~Inside(p) BY <3>2 DEF Both, Pair
    <3>4. /\ pc'[p] = pc[p] /\ mem'[p] = mem[p] /\ ended'[p] = ended[p]
      BY <2>6 DEF Alone
    <3>5. ~Inside(p)' /\ ~Inside(r)'
      BY <2>3, <3>3, <3>4 DEF Inside, Installing, Cleaning
    <3>6. Places(r)' = Places(r) /\ Places(p)' = Places(p)
      BY <2>2 DEF Places
    <3>7. lock' \notin {p, r} BY <3>1, NamesDiffer
    <3>8. Late(r)' BY <2>3, <2>5 DEF Late
    <3>9. Pair(p, r)'
      BY <2>3, <3>5, <3>8 DEF Pair, Acquiring
    <3>10. Mine(p, r)' <=> Mine(p, r) BY <2>2, <3>4 DEF Mine, Copy
    <3>11. Late(p)' <=> Late(p) BY <3>4 DEF Late
    <3>12. Pair(r, p)'
      BY <3>4, <3>5, <3>6, <3>7, <3>10, <3>11 DEF Pair, Both
    <3> QED BY <3>9, <3>12 DEF Both
  <2> QED BY <2>7, <2>8
<1> QED BY <1>1, <1>2 DEF CleanUp

\* What a signal leaves of a process.
LEMMA SignalDoes ==
  ASSUME CleanInv, NEW r \in Procs
  PROVE  /\ Interrupt(r) =>
              /\ Moves(r, {pc[r]}, {"cleanup"}) /\ Alone(r) /\ ended' = ended
              /\ pc[r] \in Acquiring \cup {"write"} \cup Installing
              /\ mem'[r].held = mem[r].held /\ mem'[r].saved = mem[r].saved
              /\ mem'[r].rc = "interrupted"
         /\ Kill(r) =>
              Moves(r, {pc[r]}, {"off"}) /\ Alone(r) /\ ended'[r] = "killed" /\ mem' = mem
PROOF
<1>t. Types BY DEF CleanInv
<1>m. mem[r] \in Memory BY <1>t DEF Types
<1>1. ASSUME Interrupt(r)
      PROVE  /\ Moves(r, {pc[r]}, {"cleanup"}) /\ Alone(r) /\ ended' = ended
             /\ pc[r] \in Acquiring \cup {"write"} \cup Installing
             /\ mem'[r].held = mem[r].held /\ mem'[r].saved = mem[r].saved
             /\ mem'[r].rc = "interrupted"
  <2> DEFINE m == [mem[r] EXCEPT !.rc = "interrupted"]
  <2>1. /\ pc[r] \in Acquiring \cup {"write"} \cup Installing /\ ended' = ended
        /\ Goto(r, "cleanup") /\ Set(r, m)
    BY <1>1 DEF Interrupt
  <2>2. m \in Memory /\ m.held = mem[r].held /\ m.saved = mem[r].saved /\ m.rc = "interrupted"
    BY <1>m DEF Memory
  <2> HIDE DEF m
  <2>3. Moves(r, {pc[r]}, {"cleanup"}) /\ mem'[r] = m
    BY <1>t, <2>1, <2>2, MovingOn DEF Pcs, Cleaning
  <2>4. Alone(r) BY <2>1, <2>3 DEF Alone, Moves
  <2> QED BY <2>1, <2>2, <2>3, <2>4
<1>2. ASSUME Kill(r)
      PROVE  Moves(r, {pc[r]}, {"off"}) /\ Alone(r) /\ ended'[r] = "killed" /\ mem' = mem
  <2>1. Goto(r, "off") /\ ended' = [ended EXCEPT ![r] = "killed"] /\ UNCHANGED mem
    BY <1>2 DEF Kill
  <2>2. Moves(r, {pc[r]}, {"off"}) BY <1>t, <1>m, <2>1, MovingOn DEF Pcs
  <2>3. ended'[r] = "killed" /\ Alone(r)
    BY <1>t, <2>1, <2>2 DEF Alone, Moves, Types
  <2> QED BY <2>1, <2>2, <2>3
<1> QED BY <1>1, <1>2

\* A signal leaves the lock.
LEMMA SignalApart ==
  ASSUME CleanInv, CleanInv', NEW r \in Procs, NEW p \in Procs, p # r, Both(p, r),
         Interrupt(r) \/ Kill(r)
  PROVE  Both(p, r)'
PROOF
<1>t. Types /\ Types' BY DEF CleanInv
<1>1. lock' = lock /\ Fewer BY DEF Interrupt, Kill, files, Fewer
<1>2. CASE Interrupt(r)
  <2>1. /\ Alone(r) /\ ended' = ended /\ mem'[r].held = mem[r].held
        /\ pc[r] \in Acquiring \cup {"write"} \cup Installing /\ pc'[r] = "cleanup"
    BY <1>2, SignalDoes DEF Moves
  <2>2. pc[r] # "off" BY <2>1 DEF Acquiring, Installing
  <2>3. ended'[r] # "never ran" BY <2>1, <2>2, Running
  <2>4. Plain(r, p) BY <1>1, <2>1, <2>3, LeavingPlain DEF Both
  <2> QED BY <1>t, <2>1, <2>4, PlainKeeps DEF Both
<1>3. CASE Kill(r)
  <2>1. Alone(r) /\ ended'[r] # "never ran" /\ pc'[r] = "off"
    BY <1>3, SignalDoes DEF Moves
  <2>2. Plain(r, p) BY <1>1, <2>1, LeavingPlain DEF Both
  <2> QED BY <1>t, <2>1, <2>2, PlainKeeps DEF Both
<1> QED BY <1>2, <1>3

\* What a process finds when it starts.
LEMMA Starting ==
  ASSUME MaxStarts = 1, CleanInv, NEW r \in Procs, Start(r)
  PROVE  /\ Moves(r, {"off"}, {"begin"}) /\ mem'[r] = Fresh /\ Alone(r)
         /\ ended[r] = "never ran" /\ ended'[r] = "running"
         /\ UNCHANGED <<lock, copies, dest, backup, stage>>
PROOF
<1>t. Types /\ Cleared(r) BY DEF CleanInv
<1>1. /\ pc[r] = "off" /\ starts[r] < 1 /\ Goto(r, "begin") /\ Set(r, Fresh)
      /\ ended' = [ended EXCEPT ![r] = "running"]
      /\ UNCHANGED <<lock, copies, dest, backup, stage>>
  BY DEF Start, files
<1>2. Fresh \in Memory BY InstallAssumption DEF Fresh, Memory, Slots, Locks
<1>3. Moves(r, {pc[r]}, {"begin"}) /\ mem'[r] = Fresh
  BY <1>t, <1>1, <1>2, MovingOn DEF Pcs, Acquiring
<1>4. starts[r] = 0
  <2>1. starts[r] \in Nat BY <1>t DEF Types
  <2> QED BY <1>1, <2>1
<1>5. ended[r] = "never ran" BY <1>t, <1>4 DEF Cleared
<1>6. ended'[r] = "running" /\ Alone(r) BY <1>t, <1>1, <1>3 DEF Alone, Moves, Types
<1> QED BY <1>1, <1>3, <1>5, <1>6

\* So does a process that starts.
LEMMA StartApart ==
  ASSUME MaxStarts = 1, CleanInv, CleanInv', NEW r \in Procs, NEW p \in Procs, p # r,
         Both(p, r), Start(r)
  PROVE  Both(p, r)'
PROOF
<1>t. Types /\ Types' BY DEF CleanInv
<1>1. /\ Moves(r, {"off"}, {"begin"}) /\ mem'[r] = Fresh /\ Alone(r)
      /\ ended[r] = "never ran" /\ lock' = lock /\ copies' = copies
  BY Starting
<1>2. pc[r] = "off" /\ pc'[r] = "begin" BY <1>1 DEF Moves
<1>3. ~Gone(r) /\ ~Late(r) /\ ~Returning(r, p)
  BY <1>1, <1>2 DEF Gone, Late, Returning
<1>4. ~Inside(r)' BY <1>2 DEF Inside, Installing, Cleaning
<1>f. mem'[r] = Fresh BY <1>1
<1>5. ~mem'[r].held BY <1>f DEF Fresh
<1>6. Plain(r, p) BY <1>1, <1>2, <1>3, <1>4, <1>5 DEF Plain, Fewer
<1> QED BY <1>t, <1>1, <1>6, PlainKeeps DEF Both

\* Each step of a process, and what it brings about between it and the other.
LEMMA SerialStep ==
  ASSUME TwoProcesses, MaxStarts = 1, CleanInv, CleanInv', Serial, [Next]_vars
  PROVE  Serial'
PROOF
<1>1. CASE UNCHANGED vars
  <2>1. UNCHANGED <<lock, copies, pc, mem, ended>> BY <1>1 DEF vars, files
  <2>2. ASSUME NEW p \in Procs, NEW q \in Procs, Pair(p, q) PROVE Pair(p, q)'
    <3>1. /\ Inside(p)' = Inside(p) /\ Inside(q)' = Inside(q) /\ Gone(q)' = Gone(q)
          /\ Late(q)' = Late(q) /\ Places(q)' = Places(q) /\ Copy(q)' = Copy(q)
      BY <2>1 DEF Inside, Gone, Late, Places, Copy
    <3>2. Mine(q, p)' = Mine(q, p) BY <2>1, <3>1 DEF Mine
    <3>3. Returning(q, p)' = Returning(q, p) BY <2>1, <3>2 DEF Returning
    <3> QED BY <2>1, <2>2, <3>1, <3>2, <3>3 DEF Pair
  <2> QED BY <2>2 DEF Serial
<1>2. ASSUME NEW r \in Procs,
             \/ Start(r) \/ Acquire(r) \/ InstallUnderLock(r) \/ CleanUp(r)
             \/ Interrupt(r) \/ Kill(r)
      PROVE  Serial'
  <2>1. ASSUME NEW p \in Procs, p # r PROVE Both(p, r)'
    <3>1. Both(p, r) BY <2>1 DEF Serial, Both
    <3>2. CASE Start(r) BY <2>1, <3>1, <3>2, StartApart
    <3>3. CASE Acquire(r)
      BY <2>1, <3>1, <3>3, TakingApart, StealingApart DEF Acquire
    <3>4. CASE InstallUnderLock(r) BY <2>1, <3>1, <3>4, InstallingApart
    <3>5. CASE CleanUp(r) BY <2>1, <3>1, <3>5, CleaningApart
    <3>6. CASE Interrupt(r) \/ Kill(r) BY <2>1, <3>1, <3>6, SignalApart
    <3> QED BY <1>2, <3>2, <3>3, <3>4, <3>5, <3>6
  <2>2. ASSUME NEW p \in Procs, NEW q \in Procs, p # q PROVE Pair(p, q)'
    <3>1. p = r \/ q = r BY <2>2 DEF TwoProcesses
    <3> QED BY <2>1, <2>2, <3>1 DEF Both
  <2> QED BY <2>2 DEF Serial
<1> QED BY <1>1, <1>2 DEF Next

\* Of two processes one at a time is past the lock, and the other knows.
THEOREM PairsKeepApart ==
  ASSUME TwoProcesses, MaxStarts = 1 PROVE Spec => []Serial
PROOF
<1>1. Init => Serial
  <2>1. ASSUME Init, NEW p \in Procs, NEW q \in Procs PROVE Pair(p, q)
    <3>1. pc[p] = "off" /\ pc[q] = "off" /\ lock # q
      BY <2>1, InstallAssumption DEF Init, Locks
    <3>2. Places(q) = {}
      <4>1. ASSUME NEW path \in Procs \X Slots PROVE copies[path] # q
        BY <2>1, NamesDiffer DEF Init
      <4>2. DOMAIN copies = Procs \X Slots BY <2>1 DEF Init
      <4> QED BY <4>1, <4>2 DEF Places
    <3> QED BY <3>1, <3>2 DEF Pair, Inside, Installing, Cleaning, Acquiring
  <2> QED BY <2>1 DEF Serial
<1>2. CleanInv /\ CleanInv' /\ Serial /\ [Next]_vars => Serial'
  BY SerialStep
<1>3. Spec => []CleanInv BY ProcessesClear
<1> QED BY <1>1, <1>2, <1>3, PTL DEF Spec

\* Installs are serialized (install-go.sh:11): of two processes that want to
\* install, with no lock or a dead process's lock there at first, however often
\* and wherever they are interrupted or killed, no two are past acquire_lock at
\* once.  (An unreadable lock is left only by one of the two, killed under way.)
THEOREM InstallsAreSerialized ==
  ASSUME TwoProcesses, MaxStarts = 1 PROVE Spec => []OneInstaller
PROOF
<1>1. Serial => OneInstaller
  BY DEF Serial, Pair, Inside, OneInstaller
<1> QED BY <1>1, PairsKeepApart, PTL


-----------------------------------------------------------------------------
(* Two processes: a run that reports success leaves its toolchain.         *)

\* Who is under the lock, or deletes or restores what it made there, holds it.
Holder(p) ==
  /\ pc[p] \in {"write"} \cup Installing => mem[p].held
  /\ mem[p].saved => mem[p].held
  /\ pc[p] \in Cleaning /\ mem[p].rc = "ok" => mem[p].held

\* The destination is clear for the new toolchain, and then has it.
Placed(p) ==
  /\ pc[p] \in {"note saved", "install"} => dest = Absent
  /\ pc[p] = "drop" => dest = "go"
  /\ pc[p] \in Cleaning /\ mem[p].rc = "ok" => dest = "go"

SwapInv == \A p \in Procs : Holder(p) /\ Placed(p)

\* What a step that takes part in the swap leaves of the other process's.
LEMMA OthersSwap ==
  ASSUME SwapInv, Serial, NEW r \in Procs, NEW p \in Procs, p # r, Alone(r),
         dest' = dest \/ Inside(r)
  PROVE  (Holder(p) /\ Placed(p))'
PROOF
<1>1. pc'[p] = pc[p] /\ mem'[p] = mem[p] BY DEF Alone
<1>2. Holder(p) /\ Placed(p) BY DEF SwapInv
<1>3. Holder(p)' BY <1>1, <1>2 DEF Holder
<1>4. CASE dest' = dest BY <1>1, <1>2, <1>3, <1>4 DEF Placed
<1>5. CASE Inside(r)
  <2>1. ~Inside(p) BY <1>5 DEF Serial, Pair
  <2>2. pc[p] \notin Installing /\ (pc[p] \in Cleaning => ~mem[p].held)
    BY <2>1 DEF Inside
  <2>3. pc[p] \notin {"note saved", "install", "drop"} BY <2>2 DEF Installing
  <2>4. ~(pc[p] \in Cleaning /\ mem[p].rc = "ok") BY <1>2, <2>2 DEF Holder
  <2> QED BY <1>1, <1>3, <2>3, <2>4 DEF Placed
<1> QED BY <1>4, <1>5

\* The commands of acquire_lock leave the destination.
LEMMA AcquireSwap ==
  ASSUME CleanInv, NEW r \in Procs, Acquire(r), Holder(r) /\ Placed(r)
  PROVE  Alone(r) /\ dest' = dest /\ (Holder(r) /\ Placed(r))'
PROOF
<1>t. Types BY DEF CleanInv
<1>1. /\ Alone(r) /\ dest' = dest /\ Fields(r)
      /\ pc[r] \in AcquireSteps /\ pc'[r] \in AcquireSteps \cup {"recover", "cleanup"}
      /\ pc'[r] \in {"write", "recover"} => pc[r] \in {"own", "write"}
  BY <1>t, TakingDoes, StealingDoes
     DEF Acquire, Shell, Moves, Alone, AcquireSteps, Acquiring
<1>2. pc'[r] = "cleanup" => mem'[r].rc # "ok" BY <1>1 DEF Fields
<1>3. pc'[r] \in Cleaning => pc'[r] = "cleanup"
  BY <1>1 DEF AcquireSteps, Acquiring, Cleaning
<1>4. pc'[r] \in Installing => pc'[r] = "recover"
  BY <1>1 DEF AcquireSteps, Acquiring, Installing
<1>5. pc'[r] \in {"write", "recover"} => mem'[r].held
  BY <1>1 DEF Fields, Holder
<1>6. mem'[r].saved => mem'[r].held BY <1>1 DEF Fields, Holder
<1>7. Holder(r)' BY <1>2, <1>3, <1>4, <1>5, <1>6 DEF Holder
<1>8. pc'[r] \notin {"note saved", "install", "drop"}
  BY <1>1 DEF AcquireSteps, Acquiring
<1>9. Placed(r)' BY <1>2, <1>3, <1>8 DEF Placed
<1> QED BY <1>1, <1>7, <1>9

\* The swap moves what is in the way away, and then the toolchain there.
LEMMA InstallSwap ==
  ASSUME CleanInv, NEW r \in Procs, InstallUnderLock(r), Holder(r) /\ Placed(r)
  PROVE  Alone(r) /\ Inside(r) /\ (Holder(r) /\ Placed(r))'
PROOF
<1>t. Types BY DEF CleanInv
<1>1. PICK from \in Installing, to \in SUBSET (Installing \cup {"cleanup"}) : Works(r, from, to)
  BY <1>t, InstallDoes DEF InstallUnderLock, Installing
<1>2. /\ Alone(r) /\ Kept(r) /\ pc[r] \in Installing /\ pc'[r] \in Installing \cup {"cleanup"}
  BY <1>1 DEF Works, Moves, Alone
<1>3. Inside(r) BY <1>2 DEF Inside
<1>4. mem'[r].held BY <1>2 DEF Kept, Holder
<1>5. Holder(r)' BY <1>4 DEF Holder
<1>c. pc'[r] \in Cleaning => pc'[r] = "cleanup"
  BY <1>2 DEF Installing, Cleaning
<1>f. ASSUME pc'[r] \notin {"note saved", "install", "drop"}, pc[r] # "drop"
      PROVE  Placed(r)'
  <2>1. pc'[r] = "cleanup" => mem'[r].rc # "ok" BY <1>2, <1>f DEF Kept
  <2> QED BY <1>c, <1>f, <2>1 DEF Placed
<1>6. Placed(r)'
  <2>1. CASE NameBackup(r)
    <3>1. dest' = dest /\ Goto(r, IF dest # Absent THEN "save" ELSE "install")
      BY <2>1 DEF NameBackup, InTheWay, files
    <3>2. pc'[r] = IF dest # Absent THEN "save" ELSE "install"
      BY <1>t, <3>1, Going DEF Pcs, Installing
    <3> QED BY <3>1, <3>2, <1>c DEF Placed
  <2>2. CASE SaveDest(r)
    <3>1. pc'[r] \in {"note saved", "cleanup"} /\ pc[r] = "save"
      BY <1>t, <2>2, InstallDoes DEF Works, Moves
    <3>2. CASE pc'[r] = "note saved"
      <4>1. ~Die(r, mem[r])
        <5>1. mem[r] \in Memory BY <1>t DEF Types
        <5> QED BY <1>t, <3>2, <5>1, Dying
      <4>2. dest' = Absent BY <2>2, <4>1 DEF SaveDest
      <4> QED BY <3>2, <4>2, <1>c DEF Placed
    <3>3. CASE pc'[r] = "cleanup" BY <1>f, <3>1, <3>3
    <3> QED BY <3>1, <3>2, <3>3
  <2>3. CASE NoteSaved(r)
    <3>1. pc'[r] = "install" /\ pc[r] = "note saved"
      BY <1>t, <2>3, InstallDoes DEF Works, Moves
    <3>2. dest' = dest BY <2>3 DEF NoteSaved, files
    <3> QED BY <1>c, <3>1, <3>2 DEF Placed
  <2>4. CASE Install(r)
    <3>1. pc'[r] \in {"drop", "cleanup"} /\ pc[r] = "install"
      BY <1>t, <2>4, InstallDoes DEF Works, Moves
    <3>2. CASE pc'[r] = "drop"
      <4>1. ~Die(r, mem[r])
        <5>1. mem[r] \in Memory BY <1>t DEF Types
        <5> QED BY <1>t, <3>2, <5>1, Dying
      <4>2. dest = Absent BY <3>1 DEF Placed
      <4>3. dest' = "go" BY <2>4, <4>1, <4>2 DEF Install
      <4> QED BY <1>c, <3>2, <4>3 DEF Placed
    <3>3. CASE pc'[r] = "cleanup" BY <1>f, <3>1, <3>3
    <3> QED BY <3>1, <3>2, <3>3
  <2>5. CASE DropBackup(r)
    <3>1. pc'[r] = "cleanup" /\ pc[r] = "drop"
      BY <1>t, <2>5, InstallDoes DEF Works, Moves
    <3>2. dest' = dest BY <2>5 DEF DropBackup
    <3> QED BY <3>1, <3>2 DEF Placed
  <2>6. CASE \/ RecoverBackup(r) \/ SweepStages(r) \/ SweepCopies(r)
             \/ MakeStage(r) \/ Fetch(r)
    <3>1. pc'[r] \notin {"note saved", "install", "drop"} /\ pc[r] # "drop"
      BY <1>t, <2>6, InstallDoes DEF Works, Moves
    <3> QED BY <1>f, <3>1
  <2> QED BY <2>1, <2>2, <2>3, <2>4, <2>5, <2>6 DEF InstallUnderLock
<1> QED BY <1>2, <1>3, <1>5, <1>6

\* cleanup changes the destination only of a run that fails.
LEMMA CleanSwap ==
  ASSUME CleanInv, NEW r \in Procs, CleanUp(r), Holder(r) /\ Placed(r)
  PROVE  Alone(r) /\ (dest' = dest \/ Inside(r)) /\ (Holder(r) /\ Placed(r))'
PROOF
<1>t. Types BY DEF CleanInv
<1>1. CASE RestoreBackup(r)
  <2>1. /\ Alone(r) /\ Cleans(r) /\ pc[r] = "cleanup" /\ pc'[r] = "clear"
    BY <1>t, <1>1, CleanDoes DEF Moves, Alone
  <2>2. pc[r] \in Cleaning BY <2>1 DEF Cleaning
  <2>3. mem'[r].rc = "ok" => mem[r].rc = "ok" BY <2>1 DEF Cleans
  <2>4. Holder(r)'
    BY <2>1, <2>2, <2>3 DEF Holder, Cleans, Installing
  <2>5. dest' = dest \/ (mem[r].saved /\ dest = Absent)
    BY <1>1 DEF RestoreBackup
  <2>6. mem[r].saved => Inside(r) BY <2>2 DEF Holder, Inside
  <2>7. Placed(r)'
    BY <2>1, <2>2, <2>3, <2>5 DEF Placed, Absent
  <2> QED BY <2>1, <2>4, <2>5, <2>6, <2>7
<1>2. CASE ClearOwn(r)
  <2>1. Alone(r) /\ mem' = mem /\ pc[r] = "clear" /\ pc'[r] = "unlock"
    BY <1>t, <1>2, CleanDoes DEF Moves, Alone
  <2>2. dest' = dest BY <1>2 DEF ClearOwn
  <2> QED BY <2>1, <2>2 DEF Holder, Placed, Installing, Cleaning
<1>3. CASE Unlock(r)
  <2>1. /\ Moves(r, {"unlock"}, {"off"}) /\ mem' = mem
        /\ ended' = [ended EXCEPT ![r] = mem[r].rc]
    BY <1>t, <1>3, CleanDoes
  <2>2. Alone(r) BY <1>t, <2>1 DEF Alone, Moves, Types
  <2>3. pc[r] = "unlock" /\ pc'[r] = "off" BY <2>1 DEF Moves
  <2>4. dest' = dest BY <1>3 DEF Unlock
  <2> QED BY <2>1, <2>2, <2>3, <2>4 DEF Holder, Placed, Installing, Cleaning
<1> QED BY <1>1, <1>2, <1>3 DEF CleanUp

\* Starts and signals leave the destination.
LEMMA OtherSwap ==
  ASSUME MaxStarts = 1, CleanInv, NEW r \in Procs, Start(r) \/ Interrupt(r) \/ Kill(r),
         Holder(r) /\ Placed(r)
  PROVE  Alone(r) /\ dest' = dest /\ (Holder(r) /\ Placed(r))'
PROOF
<1>1. CASE Start(r)
  <2>1. Moves(r, {"off"}, {"begin"}) /\ Alone(r) /\ mem'[r] = Fresh /\ dest' = dest
    BY <1>1, Starting
  <2>2. pc'[r] = "begin" BY <2>1 DEF Moves
  <2>3. mem'[r] = Fresh BY <2>1
  <2>4. ~mem'[r].saved BY <2>3 DEF Fresh
  <2> QED BY <2>1, <2>2, <2>4 DEF Holder, Placed, Installing, Cleaning
<1>2. CASE Interrupt(r)
  <2>1. /\ Alone(r) /\ pc'[r] = "cleanup" /\ mem'[r].rc = "interrupted"
        /\ mem'[r].held = mem[r].held /\ mem'[r].saved = mem[r].saved
    BY <1>2, SignalDoes DEF Moves
  <2>2. dest' = dest BY <1>2 DEF Interrupt, files
  <2> QED BY <2>1, <2>2 DEF Holder, Placed, Installing
<1>3. CASE Kill(r)
  <2>1. Alone(r) /\ pc'[r] = "off" /\ mem' = mem
    BY <1>3, SignalDoes DEF Moves
  <2>2. dest' = dest BY <1>3 DEF Kill, files
  <2> QED BY <2>1, <2>2 DEF Holder, Placed, Installing, Cleaning
<1> QED BY <1>1, <1>2, <1>3

\* Each step keeps who holds the lock and what is in place.
LEMMA SwapStep ==
  ASSUME MaxStarts = 1, CleanInv, Serial, SwapInv, [Next]_vars
  PROVE  SwapInv'
PROOF
<1>1. CASE UNCHANGED vars
  <2>1. UNCHANGED <<dest, pc, mem>> BY <1>1 DEF vars, files
  <2> QED BY <2>1 DEF SwapInv, Holder, Placed
<1>2. ASSUME NEW r \in Procs,
             \/ Start(r) \/ Acquire(r) \/ InstallUnderLock(r) \/ CleanUp(r)
             \/ Interrupt(r) \/ Kill(r)
      PROVE  SwapInv'
  <2>1. Holder(r) /\ Placed(r) BY DEF SwapInv
  <2>2. Alone(r) /\ (dest' = dest \/ Inside(r)) /\ (Holder(r) /\ Placed(r))'
    BY <1>2, <2>1, AcquireSwap, InstallSwap, CleanSwap, OtherSwap
  <2> QED BY <2>2, OthersSwap DEF SwapInv
<1> QED BY <1>1, <1>2 DEF Next

\* Of two processes, the one that swaps toolchains finds the destination as
\* it left it.
THEOREM SwapsAreAlone ==
  ASSUME TwoProcesses, MaxStarts = 1 PROVE Spec => []SwapInv
PROOF
<1>1. Init => SwapInv
  <2>1. ASSUME Init, NEW p \in Procs PROVE Holder(p) /\ Placed(p)
    <3>1. pc[p] = "off" /\ mem[p] = Fresh BY <2>1 DEF Init
    <3>2. ~mem[p].saved BY <3>1 DEF Fresh
    <3> QED BY <3>1, <3>2 DEF Holder, Placed, Installing, Cleaning
  <2> QED BY <2>1 DEF SwapInv
<1>2. CleanInv /\ Serial /\ SwapInv /\ [Next]_vars => SwapInv'
  BY SwapStep
<1>3. Spec => []CleanInv BY ProcessesClear
<1>4. Spec => []Serial BY PairsKeepApart
<1> QED BY <1>1, <1>2, <1>3, <1>4, PTL DEF Spec

\* A run that exits with success has its toolchain at .tools/go when it exits:
\* of two processes, whatever is interrupted or killed before.
THEOREM SuccessIsInstalled ==
  ASSUME TwoProcesses, MaxStarts = 1 PROVE Spec => SuccessInstalls
PROOF
<1>1. CleanInv /\ SwapInv /\ [Next]_vars =>
        [\A p \in Procs : pc[p] = "unlock" /\ ended'[p] = "ok" => dest' = "go"]_vars
  <2>1. ASSUME CleanInv, SwapInv, NEW r \in Procs,
               \/ Start(r) \/ Acquire(r) \/ InstallUnderLock(r) \/ CleanUp(r)
               \/ Interrupt(r) \/ Kill(r),
               NEW p \in Procs, pc[p] = "unlock", ended'[p] = "ok"
        PROVE  dest' = "go"
    <3>t. Types BY <2>1 DEF CleanInv
    <3>1. ended[p] = "running" BY <2>1, Running
    <3>2. Holder(r) /\ Placed(r) BY <2>1 DEF SwapInv
    <3>3. CASE Unlock(r)
      <4>1. ended' = [ended EXCEPT ![r] = mem[r].rc] /\ dest' = dest
        BY <3>3 DEF Unlock
      <4>2. p = r BY <2>1, <3>t, <3>1, <4>1 DEF Types
      <4>3. mem[p].rc = "ok" BY <2>1, <3>t, <4>1, <4>2 DEF Types
      <4> QED BY <2>1, <4>1, <4>3 DEF SwapInv, Placed, Cleaning
    <3>4. CASE Start(r)
      <4>1. ended' = [ended EXCEPT ![r] = "running"] BY <3>4 DEF Start
      <4> QED BY <2>1, <3>t, <3>1, <4>1 DEF Types
    <3>5. CASE Kill(r)
      <4>1. ended' = [ended EXCEPT ![r] = "killed"] BY <3>5 DEF Kill
      <4> QED BY <2>1, <3>t, <3>1, <4>1 DEF Types
    <3>6. CASE Acquire(r) \/ InstallUnderLock(r) \/ RestoreBackup(r) \/ ClearOwn(r) \/ Interrupt(r)
      <4>1. ended' = ended
        BY <3>t, <3>6, TakingDoes, StealingDoes, InstallDoes, CleanDoes
           DEF Acquire, InstallUnderLock, Interrupt, Shell, Works
      <4> QED BY <2>1, <3>1, <4>1
    <3> QED BY <2>1, <3>3, <3>4, <3>5, <3>6 DEF CleanUp
  <2> QED BY <2>1 DEF Next
<1>2. Spec => []CleanInv BY ProcessesClear
<1>3. Spec => []SwapInv BY SwapsAreAlone
<1> QED BY <1>1, <1>2, <1>3, PTL DEF Spec, SuccessInstalls


-----------------------------------------------------------------------------
(* Two processes, without INT and TERM: the prior toolchain survives.      *)

\* A backup is this run's, noted as saved unless mv has only just returned,
\* and cleanup deletes it only if a toolchain is in place.
Backed(p) ==
  /\ pc[p] \in Acquiring \cup {"write"} \cup (Installing \ {"note saved", "install", "drop"}) =>
       backup[p] = Absent
  /\ pc[p] \in {"install", "drop"} \cup Cleaning /\ ~mem[p].saved => backup[p] = Absent
  /\ pc[p] = "clear" /\ OwnBackup(p) /\ backup[p] # Absent => dest # Absent

BackupInv == \A p \in Procs : Backed(p)

\* Without a backup there is nothing to know of it.
LEMMA AbsentBacked ==
  ASSUME NEW r \in Procs, backup'[r] = Absent
  PROVE  Backed(r)'
BY DEF Backed

\* A step leaves the backup of the other.
LEMMA OthersBacked ==
  ASSUME SwapInv, Serial, BackupInv, NEW r \in Procs, NEW p \in Procs, p # r, Alone(r),
         dest' = dest \/ Inside(r), backup'[p] \in {backup[p], Absent}
  PROVE  Backed(p)'
PROOF
<1>1. pc'[p] = pc[p] /\ mem'[p] = mem[p] BY DEF Alone
<1>2. Backed(p) /\ Holder(p) BY DEF BackupInv, SwapInv
<1>3. OwnBackup(p)' <=> OwnBackup(p) BY <1>1 DEF OwnBackup
<1>4. CASE dest' = dest BY <1>1, <1>2, <1>3, <1>4 DEF Backed
<1>5. CASE Inside(r)
  <2>1. ~Inside(p) BY <1>5 DEF Serial, Pair
  <2>2. pc[p] \in Cleaning => ~mem[p].saved
    BY <1>2, <2>1 DEF Inside, Holder
  <2>3. pc[p] = "clear" => backup[p] = Absent
    BY <1>2, <2>2 DEF Backed, Cleaning
  <2> QED BY <1>1, <1>2, <1>3, <2>3 DEF Backed
<1> QED BY <1>4, <1>5

\* acquire_lock runs before there is a backup.
LEMMA AcquireBacked ==
  ASSUME CleanInv, BackupInv, NEW r \in Procs, Acquire(r)
  PROVE  UNCHANGED <<dest, backup>> /\ Backed(r)'
PROOF
<1>1. /\ Moves(r, AcquireSteps, AcquireSteps \cup {"recover", "cleanup"})
      /\ UNCHANGED <<dest, backup>>
  BY AcquireMoves DEF CleanInv
<1>2. pc[r] \in Acquiring \cup {"write"} BY <1>1 DEF Moves, AcquireSteps
<1>3. backup[r] = Absent BY <1>2 DEF BackupInv, Backed
<1> QED BY <1>1, <1>3, AbsentBacked

\* While a toolchain is saved, swapped in and its backup dropped, there is one.
LEMMA InstallBacked ==
  ASSUME CleanInv, SwapInv, BackupInv, NEW r \in Procs, InstallUnderLock(r)
  PROVE  /\ \A p \in Procs \ {r} : backup'[p] \in {backup[p], Absent}
         /\ Backed(r)' /\ (HasToolchain => HasToolchain')
PROOF
<1>t. Types BY DEF CleanInv
<1>b. backup \in [Procs -> Toolchains] BY <1>t DEF Types
<1>d. Backed(r) /\ Placed(r) BY DEF BackupInv, SwapInv
<1> DEFINE Good == /\ \A p \in Procs \ {r} : backup'[p] \in {backup[p], Absent}
                   /\ Backed(r)' /\ (HasToolchain => HasToolchain')
<1>k. ASSUME UNCHANGED <<dest, backup>> PROVE HasToolchain => HasToolchain'
  BY <1>k DEF HasToolchain
<1>e. \* before there is a backup
      ASSUME pc[r] \in Installing \ {"note saved", "install", "drop"} PROVE backup[r] = Absent
  BY <1>d, <1>e DEF Backed
<1>1. ASSUME RecoverBackup(r) PROVE Good
  <2>1. pc[r] = "recover" BY <1>1 DEF RecoverBackup, Step
  <2>2. backup[r] = Absent BY <1>e, <2>1 DEF Installing
  <2>3. \/ backup' = [p \in Procs |-> IF dest # Absent THEN Absent ELSE backup[p]]
           /\ UNCHANGED dest /\ (dest # Absent \/ \A p \in Procs : backup[p] = Absent)
        \/ \E p \in Procs : /\ backup[p] # Absent /\ dest' = backup[p]
                            /\ backup' = [backup EXCEPT ![p] = Absent]
        \/ UNCHANGED <<dest, backup>>
    BY <1>1, Zenon DEF RecoverBackup
  <2>4. CASE UNCHANGED <<dest, backup>> BY <1>k, <2>2, <2>4, AbsentBacked
  <2>5. ASSUME NEW p \in Procs, backup[p] # Absent, dest' = backup[p],
               backup' = [backup EXCEPT ![p] = Absent]
        PROVE  Good
    <3>1. \A q \in Procs : backup'[q] \in {backup[q], Absent} BY <1>b, <2>5
    <3>2. HasToolchain' BY <2>5 DEF HasToolchain
    <3> QED BY <2>2, <3>1, <3>2, AbsentBacked
  <2>6. CASE /\ backup' = [p \in Procs |-> IF dest # Absent THEN Absent ELSE backup[p]]
             /\ UNCHANGED dest /\ (dest # Absent \/ \A p \in Procs : backup[p] = Absent)
    <3>1. \A q \in Procs : backup'[q] \in {backup[q], Absent} BY <2>6
    <3>2. HasToolchain => HasToolchain' BY <2>6 DEF HasToolchain
    <3> QED BY <2>2, <3>1, <3>2, AbsentBacked
  <2> QED BY <2>3, <2>4, <2>5, <2>6
<1>2. ASSUME SweepStages(r) \/ SweepCopies(r) \/ MakeStage(r) \/ Fetch(r) \/ NameBackup(r)
      PROVE  Good
  <2>1. pc[r] \in {"sweep stages", "sweep copies", "stage", "fetch", "name"}
        /\ UNCHANGED <<dest, backup>>
    BY <1>2 DEF SweepStages, SweepCopies, MakeStage, Fetch, NameBackup, Step, files
  <2>2. backup[r] = Absent BY <1>e, <2>1 DEF Installing
  <2> QED BY <1>k, <2>1, <2>2, AbsentBacked
<1>3. ASSUME SaveDest(r) PROVE Good
  <2>1. Works(r, "save", {"note saved", "cleanup"}) BY <1>t, <1>3, InstallDoes
  <2>2. pc[r] = "save" /\ pc'[r] \in {"note saved", "cleanup"} BY <2>1 DEF Works, Moves
  <2>3. backup[r] = Absent BY <1>e, <2>2 DEF Installing
  <2>4. CASE UNCHANGED <<dest, backup>> BY <1>k, <2>3, <2>4, AbsentBacked
  <2>5. CASE /\ dest # Absent /\ Goto(r, "note saved")
             /\ backup' = [backup EXCEPT ![r] = IF @ = Absent THEN dest ELSE @]
    <3>1. backup'[r] # Absent /\ \A p \in Procs \ {r} : backup'[p] = backup[p]
      BY <1>b, <2>5
    <3>2. HasToolchain' BY <3>1 DEF HasToolchain
    <3>3. pc'[r] = "note saved" BY <1>t, <2>5, Going DEF Pcs, Installing
    <3>4. Backed(r)' BY <3>3 DEF Backed, Acquiring, Cleaning
    <3> QED BY <3>1, <3>2, <3>4
  <2> QED BY <1>3, <2>4, <2>5 DEF SaveDest
<1>4. ASSUME NoteSaved(r) PROVE Good
  <2>1. Works(r, "note saved", {"install"}) BY <1>t, <1>4, InstallDoes
  <2>2. pc'[r] = "install" /\ mem'[r].saved = TRUE BY <2>1 DEF Works, Moves, Kept
  <2>3. Backed(r)' BY <2>2 DEF Backed, Acquiring
  <2>4. UNCHANGED <<dest, backup>> BY <1>4 DEF NoteSaved, files
  <2> QED BY <1>k, <2>3, <2>4
<1>5. ASSUME Install(r) PROVE Good
  <2>1. Works(r, "install", {"drop", "cleanup"}) BY <1>t, <1>5, InstallDoes
  <2>2. /\ pc[r] = "install" /\ pc'[r] \in {"drop", "cleanup"} /\ mem'[r].saved = mem[r].saved
    BY <2>1 DEF Works, Moves, Kept
  <2>3. backup' = backup BY <1>5 DEF Install
  <2>4. ~mem'[r].saved => backup'[r] = Absent BY <1>d, <2>2, <2>3 DEF Backed
  <2>5. Backed(r)' BY <2>2, <2>4 DEF Backed, Acquiring, Installing
  <2>6. dest' \in {dest, "go"} BY <1>5 DEF Install
  <2>7. HasToolchain => HasToolchain' BY <2>3, <2>6 DEF HasToolchain, Absent
  <2> QED BY <2>3, <2>5, <2>7
<1>6. ASSUME DropBackup(r) PROVE Good
  <2>1. pc[r] = "drop" /\ dest' = dest /\ backup' = [backup EXCEPT ![r] = Absent]
    BY <1>6 DEF DropBackup, Step
  <2>2. dest = "go" BY <1>d, <2>1 DEF Placed
  <2>3. HasToolchain' BY <2>1, <2>2 DEF HasToolchain, Absent
  <2>4. backup'[r] = Absent /\ \A p \in Procs \ {r} : backup'[p] = backup[p]
    BY <1>b, <2>1
  <2> QED BY <2>3, <2>4, AbsentBacked
<1> QED BY <1>1, <1>2, <1>3, <1>4, <1>5, <1>6 DEF InstallUnderLock

\* cleanup puts a saved toolchain back, keeps its backup, or leaves it in place.
LEMMA CleanBacked ==
  ASSUME CleanInv, SwapInv, BackupInv, NEW r \in Procs, CleanUp(r)
  PROVE  /\ \A p \in Procs \ {r} : backup'[p] \in {backup[p], Absent}
         /\ Backed(r)' /\ (HasToolchain => HasToolchain')
PROOF
<1>t. Types BY DEF CleanInv
<1>b. backup \in [Procs -> Toolchains] BY <1>t DEF Types
<1>d. Backed(r) BY DEF BackupInv
<1> DEFINE Good == /\ \A p \in Procs \ {r} : backup'[p] \in {backup[p], Absent}
                   /\ Backed(r)' /\ (HasToolchain => HasToolchain')
<1>1. ASSUME RestoreBackup(r) PROVE Good
  <2>1. Moves(r, {"cleanup"}, {"clear"}) /\ Cleans(r) BY <1>t, <1>1, CleanDoes
  <2>2. pc[r] = "cleanup" /\ pc'[r] = "clear" /\ mem'[r].saved = mem[r].saved
    BY <2>1 DEF Moves, Cleans
  <2>3. ~mem[r].saved => backup[r] = Absent BY <1>d, <2>2 DEF Backed, Cleaning
  <2>4. ASSUME dest' = backup[r], backup' = [backup EXCEPT ![r] = Absent], backup[r] # Absent
        PROVE  Good
    <3>1. backup'[r] = Absent /\ \A p \in Procs \ {r} : backup'[p] = backup[p]
      BY <1>b, <2>4
    <3>2. HasToolchain' BY <2>4 DEF HasToolchain
    <3> QED BY <3>1, <3>2, AbsentBacked
  <2>5. ASSUME UNCHANGED <<dest, backup>>, OwnBackup(r)' /\ backup[r] # Absent => dest # Absent
        PROVE  Good
    <3>1. HasToolchain => HasToolchain' BY <2>5 DEF HasToolchain
    <3>2. Backed(r)' BY <2>2, <2>3, <2>5 DEF Backed, Acquiring, Installing
    <3> QED BY <2>5, <3>1, <3>2
  <2>6. CASE mem[r].saved /\ backup[r] # Absent /\ dest = Absent
    <3>1. CASE dest' = backup[r] /\ backup' = [backup EXCEPT ![r] = Absent]
      BY <2>4, <2>6, <3>1
    <3>2. CASE /\ Set(r, [mem[r] EXCEPT !.preserve = TRUE, !.rc = "failed"])
               /\ UNCHANGED <<dest, backup>>
      <4>1. mem[r] \in Memory BY <1>t DEF Types
      <4>2. [mem[r] EXCEPT !.preserve = TRUE, !.rc = "failed"] \in Memory
        BY <4>1, MemoryFields
      <4>3. mem'[r] = [mem[r] EXCEPT !.preserve = TRUE, !.rc = "failed"]
        BY <1>t, <3>2, <4>2, Setting
      <4>4. mem'[r].preserve BY <4>1, <4>3 DEF Memory
      <4>5. ~OwnBackup(r)' BY <4>4 DEF OwnBackup
      <4> QED BY <2>5, <3>2, <4>5
    <3> QED BY <1>1, <2>6, <3>1, <3>2 DEF RestoreBackup
  <2>7. CASE ~(mem[r].saved /\ backup[r] # Absent /\ dest = Absent)
    <3>1. UNCHANGED <<dest, backup>> BY <1>1, <2>7 DEF RestoreBackup
    <3> QED BY <2>3, <2>5, <2>7, <3>1
  <2> QED BY <2>6, <2>7
<1>2. ASSUME ClearOwn(r) PROVE Good
  <2>1. Moves(r, {"clear"}, {"unlock"}) /\ mem' = mem BY <1>t, <1>2, CleanDoes
  <2>2. pc[r] = "clear" /\ pc'[r] = "unlock" BY <2>1 DEF Moves
  <2>3. /\ dest' = dest
        /\ backup' = IF OwnBackup(r) THEN [backup EXCEPT ![r] = Absent] ELSE backup
    BY <1>2 DEF ClearOwn
  <2>4. \A p \in Procs \ {r} : backup'[p] = backup[p] BY <1>b, <2>3
  <2>5. backup'[r] \in {backup[r], Absent} BY <1>b, <2>3
  <2>6. ~mem[r].saved => backup[r] = Absent BY <1>d, <2>2 DEF Backed, Cleaning
  <2>7. Backed(r)' BY <2>1, <2>2, <2>5, <2>6 DEF Backed, Acquiring, Installing
  <2>8. HasToolchain => HasToolchain'
    <3>1. CASE OwnBackup(r) /\ backup[r] # Absent
      <4>1. dest # Absent BY <1>d, <2>2, <3>1 DEF Backed
      <4> QED BY <2>3, <4>1 DEF HasToolchain
    <3>2. CASE ~(OwnBackup(r) /\ backup[r] # Absent)
      <4>1. \A p \in Procs : backup'[p] = backup[p] BY <1>b, <2>3, <2>4, <3>2
      <4> QED BY <2>3, <4>1 DEF HasToolchain
    <3> QED BY <3>1, <3>2
  <2> QED BY <2>4, <2>7, <2>8
<1>3. ASSUME Unlock(r) PROVE Good
  <2>1. Moves(r, {"unlock"}, {"off"}) BY <1>t, <1>3, CleanDoes
  <2>2. pc'[r] = "off" BY <2>1 DEF Moves
  <2>3. Backed(r)' BY <2>2 DEF Backed, Acquiring, Installing, Cleaning
  <2>4. UNCHANGED <<dest, backup>> BY <1>3 DEF Unlock
  <2> QED BY <2>3, <2>4 DEF HasToolchain
<1> QED BY <1>1, <1>2, <1>3 DEF CleanUp

\* Nothing is left of a PID that has not run, and a killed process deletes nothing.
LEMMA OtherBacked ==
  ASSUME MaxStarts = 1, CleanInv, NEW r \in Procs, Start(r) \/ Kill(r)
  PROVE  UNCHANGED <<dest, backup>> /\ Backed(r)'
PROOF
<1>1. CASE Start(r)
  <2>1. ended[r] = "never ran" /\ UNCHANGED <<dest, backup>> BY <1>1, Starting
  <2>2. backup[r] = Absent BY <2>1 DEF CleanInv, Cleared
  <2> QED BY <2>1, <2>2, AbsentBacked
<1>2. CASE Kill(r)
  <2>1. pc'[r] = "off" BY <1>2, SignalDoes DEF Moves
  <2>2. Backed(r)' BY <2>1 DEF Backed, Acquiring, Installing, Cleaning
  <2>3. UNCHANGED <<dest, backup>> BY <1>2 DEF Kill, files
  <2> QED BY <2>2, <2>3
<1> QED BY <1>1, <1>2

\* Each step keeps what is known of the backups, and a toolchain.
LEMMA BackupStep ==
  ASSUME MaxStarts = 1, "INT" \notin Signals, CleanInv, Serial, SwapInv, BackupInv, [Next]_vars
  PROVE  BackupInv' /\ (HasToolchain => HasToolchain')
PROOF
<1>1. CASE UNCHANGED vars
  <2>1. UNCHANGED <<dest, backup, pc, mem>> BY <1>1 DEF vars, files
  <2> QED BY <2>1 DEF BackupInv, Backed, OwnBackup, HasToolchain
<1>2. ASSUME NEW r \in Procs,
             \/ Start(r) \/ Acquire(r) \/ InstallUnderLock(r) \/ CleanUp(r)
             \/ Interrupt(r) \/ Kill(r)
      PROVE  BackupInv' /\ (HasToolchain => HasToolchain')
  <2>1. ~Interrupt(r) BY DEF Interrupt
  <2>2. Holder(r) /\ Placed(r) BY DEF SwapInv
  <2>3. Alone(r) /\ (dest' = dest \/ Inside(r))
    BY <1>2, <2>2, AcquireSwap, InstallSwap, CleanSwap, OtherSwap
  <2>4. UNCHANGED <<dest, backup>> =>
          /\ \A p \in Procs \ {r} : backup'[p] \in {backup[p], Absent}
          /\ HasToolchain => HasToolchain'
    BY DEF HasToolchain
  <2>5. /\ \A p \in Procs \ {r} : backup'[p] \in {backup[p], Absent}
        /\ Backed(r)' /\ (HasToolchain => HasToolchain')
    BY <1>2, <2>1, <2>4, AcquireBacked, InstallBacked, CleanBacked, OtherBacked
  <2>6. BackupInv' BY <2>3, <2>5, OthersBacked DEF BackupInv
  <2> QED BY <2>5, <2>6
<1> QED BY <1>1, <1>2 DEF Next

\* Of two processes that may be killed, each one's backup is its own.
THEOREM BackupsAreOwn ==
  ASSUME TwoProcesses, MaxStarts = 1, "INT" \notin Signals PROVE Spec => []BackupInv
PROOF
<1>1. Init => BackupInv
  BY DEF Init, BackupInv, Backed, Acquiring, Installing, Cleaning
<1>2. CleanInv /\ Serial /\ SwapInv /\ BackupInv /\ [Next]_vars => BackupInv'
  BY BackupStep
<1>3. Spec => []CleanInv BY ProcessesClear
<1>4. Spec => []Serial BY PairsKeepApart
<1>5. Spec => []SwapInv BY SwapsAreAlone
<1> QED BY <1>1, <1>2, <1>3, <1>4, <1>5, PTL DEF Spec

\* A toolchain that was there is at its place or in a backup, whatever command
\* fails and wherever one of two processes is killed, if no INT or TERM
\* arrives between mv and the line that notes what it moved.
THEOREM ToolchainIsNeverLost ==
  ASSUME TwoProcesses, MaxStarts = 1, "INT" \notin Signals PROVE Spec => ToolchainSurvives
PROOF
<1>1. CleanInv /\ Serial /\ SwapInv /\ BackupInv /\ [Next]_vars =>
        [HasToolchain => HasToolchain']_vars
  BY BackupStep
<1>2. Spec => []CleanInv BY ProcessesClear
<1>3. Spec => []Serial BY PairsKeepApart
<1>4. Spec => []SwapInv BY SwapsAreAlone
<1>5. Spec => []BackupInv BY BackupsAreOwn
<1> QED BY <1>1, <1>2, <1>3, <1>4, <1>5, PTL DEF Spec, ToolchainSurvives


-----------------------------------------------------------------------------
(* Two processes, without INT and TERM: the lock of a live one is kept.    *)

\* What a process may delete or write over is not another's lock: it claims a
\* copy only while it looks at it, its path is free until it renames a lock to
\* it, and it puts a live one's back where there is none.
Claimed(p) ==
  /\ pc[p] # "off" /\ mem[p].captured => pc[p] \in {"inspect", "test", "restore"}
  /\ pc[p] \in {"mkdir", "read", "probe", "capture"} => copies[Copy(p)] = Absent
  /\ \A q \in Procs :
       pc[p] = "restore" /\ copies[Copy(p)] = q /\ pc[q] \in Installing => lock = Absent

ClaimInv == \A p \in Procs : Claimed(p)

\* Only the command that renames the lock puts something at a copy's path.
LEMMA CopiesStep ==
  ASSUME CleanInv, NEW r \in Procs,
         \/ Start(r) \/ Acquire(r) \/ InstallUnderLock(r) \/ CleanUp(r) \/ Kill(r)
  PROVE  Fewer \/ (lock # Absent /\ CaptureLock(r) /\ copies' = [copies EXCEPT ![Copy(r)] = lock])
PROOF
<1>t. Types BY DEF CleanInv
<1>c. Copy(r) \in Procs \X Slots BY <1>t, Copies
<1>1. copies' = copies => Fewer BY DEF Fewer
<1>2. CASE ChooseCopyPath(r) BY <1>t, <1>2 DEF ChooseCopyPath, Fewer, Types
<1>3. CASE CaptureLock(r)
  <2>1. CASE lock = Absent BY <1>1, <1>3, <2>1 DEF CaptureLock
  <2>2. CASE lock # Absent BY <1>3, <2>2 DEF CaptureLock
  <2> QED BY <2>1, <2>2
<1>4. CASE InspectCopy(r)
  <2>1. copies' \in {copies, [copies EXCEPT ![Copy(r)] = Absent]} BY <1>4 DEF InspectCopy
  <2> QED BY <1>t, <1>c, <2>1 DEF Fewer, Types
<1>5. CASE RestoreLock(r) BY <1>t, <1>c, <1>5 DEF RestoreLock, Fewer, Types
<1>6. CASE SweepCopies(r) BY <1>t, <1>6 DEF SweepCopies, Fewer, Types
<1>7. CASE ClearOwn(r)
  <2>1. copies' \in {copies, [copies EXCEPT ![Copy(r)] = Absent]} BY <1>7 DEF ClearOwn
  <2> QED BY <1>t, <1>c, <2>1 DEF Fewer, Types
<1>8. CASE \/ MakeLock(r) \/ OwnLock(r) \/ WritePid(r) \/ ReadPid(r) \/ ProbeOwner(r)
           \/ NoteCopy(r) \/ TestLockPath(r) \/ Start(r) \/ Kill(r)
  <2>1. copies' = copies
    BY <1>8 DEF MakeLock, OwnLock, WritePid, ReadPid, ProbeOwner, NoteCopy, TestLockPath,
                Start, Kill, files
  <2> QED BY <1>1, <2>1
<1>9. CASE \/ RecoverBackup(r) \/ SweepStages(r) \/ MakeStage(r) \/ Fetch(r) \/ NameBackup(r)
           \/ SaveDest(r) \/ NoteSaved(r) \/ Install(r) \/ DropBackup(r)
           \/ RestoreBackup(r) \/ Unlock(r)
  <2>1. copies' = copies
    BY <1>9 DEF RecoverBackup, SweepStages, MakeStage, Fetch, NameBackup, SaveDest, NoteSaved,
                Install, DropBackup, RestoreBackup, Unlock, files
  <2> QED BY <1>1, <2>1
<1> QED
  BY <1>2, <1>3, <1>4, <1>5, <1>6, <1>7, <1>8, <1>9 DEF Acquire, InstallUnderLock, CleanUp

\* Another process's copy is where it was, if it is there.
LEMMA OthersCopy ==
  ASSUME CleanInv, NEW r \in Procs, NEW p \in Procs, p # r, Alone(r),
         \/ Start(r) \/ Acquire(r) \/ InstallUnderLock(r) \/ CleanUp(r) \/ Kill(r)
  PROVE  (copies[Copy(p)])' \in {copies[Copy(p)], Absent}
PROOF
<1>t. Types BY DEF CleanInv
<1>1. Copy(p)' = Copy(p) BY DEF Alone, Copy
<1>2. Copy(p) \in Procs \X Slots /\ Copy(r) # Copy(p) BY <1>t, Copies
<1>3. CASE Fewer BY <1>1, <1>2, <1>3 DEF Fewer
<1>4. CASE copies' = [copies EXCEPT ![Copy(r)] = lock] BY <1>t, <1>1, <1>2, <1>4 DEF Types
<1> QED BY <1>3, <1>4, CopiesStep

\* Who goes on under the lock leaves it, or has just written its PID there.
LEMMA UnderLock ==
  ASSUME CleanInv, NEW r \in Procs, pc'[r] \in Installing,
         \/ Start(r) \/ Acquire(r) \/ InstallUnderLock(r) \/ CleanUp(r) \/ Kill(r)
  PROVE  (pc[r] \in Installing /\ InstallUnderLock(r) /\ lock' = lock) \/ pc[r] = "write"
PROOF
<1>t. Types BY DEF CleanInv
<1>1. ~Start(r)
  <2>1. ASSUME Start(r) PROVE pc'[r] = "begin"
    BY <1>t, <2>1, Going DEF Start, Pcs, Acquiring
  <2> QED BY <2>1 DEF Installing
<1>2. ~Kill(r)
  <2>1. Kill(r) => pc'[r] = "off" BY SignalDoes DEF Moves
  <2> QED BY <2>1 DEF Installing
<1>3. ~CleanUp(r)
  <2>1. CleanUp(r) => pc'[r] \in {"clear", "unlock", "off"}
    BY <1>t, CleanDoes DEF CleanUp, Moves
  <2> QED BY <2>1 DEF Installing
<1>4. Acquire(r) => pc[r] = "write"
  <2>1. Acquire(r) => pc[r] = "write" \/ pc'[r] \notin Installing
    BY <1>t, TakingDoes, StealingDoes DEF Acquire, Shell, Moves, Installing
  <2> QED BY <2>1
<1>5. InstallUnderLock(r) => pc[r] \in Installing /\ lock' = lock
  BY DEF InstallUnderLock, RecoverBackup, SweepStages, SweepCopies, MakeStage, Fetch,
         NameBackup, SaveDest, NoteSaved, Install, DropBackup, files, Step, Installing
<1> QED BY <1>1, <1>2, <1>3, <1>4, <1>5

\* A step leaves the other one's claims, and the lock it is to put back.
LEMMA OthersClaim ==
  ASSUME TwoProcesses, CleanInv, Serial, ClaimInv, NEW r \in Procs, NEW p \in Procs, p # r,
         Alone(r), \/ Start(r) \/ Acquire(r) \/ InstallUnderLock(r) \/ CleanUp(r) \/ Kill(r)
  PROVE  Claimed(p)'
PROOF
<1>t. Types BY DEF CleanInv
<1>1. pc'[p] = pc[p] /\ mem'[p] = mem[p] BY DEF Alone
<1>2. Claimed(p) BY DEF ClaimInv
<1>3. (copies[Copy(p)])' \in {copies[Copy(p)], Absent} BY OthersCopy
<1>4. ASSUME NEW q \in Procs, pc'[p] = "restore", (copies[Copy(p)])' = q, pc'[q] \in Installing
      PROVE  lock' = Absent
  <2>1. copies[Copy(p)] = q BY <1>3, <1>4, NamesDiffer
  <2>2. q = r
    <3>1. q # p BY <1>4 DEF Installing
    <3> QED BY <3>1 DEF TwoProcesses
  <2>3. CASE pc[r] \in Installing /\ lock' = lock BY <1>1, <1>2, <1>4, <2>1, <2>2, <2>3 DEF Claimed
  <2>4. CASE pc[r] = "write"
    <3>1. ~Late(r) BY <2>4 DEF Late, Installing, Cleaning
    <3>2. Places(r) = {} BY <3>1 DEF Serial, Pair
    <3>3. Copy(p) \in DOMAIN copies BY <1>t, Copies DEF Types
    <3> QED BY <2>1, <2>2, <3>2, <3>3 DEF Places
  <2> QED BY <1>4, <2>2, <2>3, <2>4, UnderLock
<1> QED BY <1>1, <1>2, <1>3, <1>4 DEF Claimed

\* A step that goes on with a copy, or looks at one, claims no other.
LEMMA AcquireClaim ==
  ASSUME CleanInv, ClaimInv, NEW r \in Procs, Acquire(r)
  PROVE  Claimed(r)'
PROOF
<1>t. Types BY DEF CleanInv
<1>c. Copy(r) \in Procs \X Slots BY <1>t, Copies
<1>d. Claimed(r) BY DEF ClaimInv
<1>0. Fields(r)
  BY <1>t, TakingDoes, StealingDoes DEF Acquire
<1>m. /\ pc[r] \in AcquireSteps /\ pc'[r] # "off"
      /\ pc'[r] \in AcquireSteps \cup {"recover", "cleanup"}
  BY <1>t, AcquireMoves DEF Moves, AcquireSteps, Acquiring
<1>o. pc[r] # "off" BY <1>m DEF AcquireSteps, Acquiring
<1>1. mem'[r].captured => pc'[r] \in {"inspect", "test", "restore"}
  BY <1>0, <1>d, <1>o DEF Fields, Claimed
<1>k. pc[r] # "begin" => Copy(r)' = Copy(r) BY <1>0 DEF Fields, Copy
<1>x. \* A step that goes elsewhere has nothing to show.
      ASSUME pc'[r] \notin {"mkdir", "read", "probe", "capture", "restore"} PROVE Claimed(r)'
  BY <1>1, <1>x DEF Claimed
<1>y. \* Before the lock is renamed, the path is free.
      ASSUME pc'[r] # "restore", (copies[Copy(r)])' = Absent PROVE Claimed(r)'
  BY <1>1, <1>y DEF Claimed
<1>2. ASSUME ChooseCopyPath(r) PROVE Claimed(r)'
  <2> DEFINE left == IF Dead(copies[<<r, 0>>]) THEN [copies EXCEPT ![<<r, 0>>] = Absent]
                                               ELSE copies
             free == {n \in Slots : left[<<r, n>>] = Absent}
             first == CHOOSE n \in free : \A k \in free : n <= k
  <2>1. /\ free # {} /\ Set(r, [mem[r] EXCEPT !.slot = first]) /\ copies' = left
    BY <1>2 DEF ChooseCopyPath
  <2>2. free \in SUBSET Slots OBVIOUS
  <2>3. first \in free /\ first \in Slots
    <3> HIDE DEF free
    <3> QED BY <2>1, <2>2, FirstFree
  <2>4. copies'[<<r, first>>] = Absent BY <2>1, <2>3
  <2> HIDE DEF first, left, free
  <2>5. mem[r] \in Memory BY <1>t DEF Types
  <2>6. [mem[r] EXCEPT !.slot = first] \in Memory BY <2>3, <2>5, MemoryFields
  <2>7. mem'[r] = [mem[r] EXCEPT !.slot = first] BY <1>t, <2>1, <2>6, Setting
  <2>8. mem'[r].slot = first BY <2>3, <2>5, <2>7, MemoryKeeps
  <2>9. (copies[Copy(r)])' = Absent BY <2>4, <2>8 DEF Copy
  <2>10. pc'[r] = "mkdir" BY <1>t, <1>2, TakingDoes DEF Shell, Moves
  <2> QED BY <1>y, <2>9, <2>10
<1>3. ASSUME MakeLock(r) \/ ReadPid(r) \/ ProbeOwner(r) PROVE Claimed(r)'
  <2>1. pc[r] \in {"mkdir", "read", "probe"} /\ pc'[r] # "restore"
    BY <1>t, <1>3, TakingDoes DEF Shell, Moves
  <2>2. copies' = copies BY <1>3 DEF MakeLock, ReadPid, ProbeOwner, files
  <2>3. (copies[Copy(r)])' = Absent BY <1>d, <1>k, <2>1, <2>2 DEF Claimed
  <2> QED BY <1>y, <2>1, <2>3
<1>4. ASSUME CaptureLock(r) PROVE Claimed(r)'
  <2>1. pc[r] = "capture" /\ pc'[r] \in {"note", "mkdir", "cleanup"}
    BY <1>t, <1>4, StealingDoes DEF Shell, Moves
  <2>2. CASE lock = Absent
    <3>1. copies' = copies BY <1>4, <2>2 DEF CaptureLock
    <3>2. (copies[Copy(r)])' = Absent BY <1>d, <1>k, <2>1, <3>1 DEF Claimed
    <3> QED BY <1>y, <2>1, <3>2
  <2>3. CASE lock # Absent
    <3>1. pc'[r] = "note"
      BY <1>t, <1>4, <2>3, Going DEF CaptureLock, Pcs, Acquiring
    <3> QED BY <1>x, <3>1
  <2> QED BY <2>2, <2>3
<1>5. ASSUME InspectCopy(r) PROVE Claimed(r)'
  <2>1. pc[r] = "inspect" /\ pc'[r] \in {"test", "mkdir", "cleanup"}
    BY <1>t, <1>5, StealingDoes DEF Shell, Moves
  <2>2. CASE Dead(copies[Copy(r)])
    <3>1. copies' = [copies EXCEPT ![Copy(r)] = Absent] BY <1>5, <2>2 DEF InspectCopy, Stale
    <3>2. copies'[Copy(r)] = Absent BY <1>t, <1>c, <3>1 DEF Types
    <3>3. (copies[Copy(r)])' = Absent BY <1>k, <2>1, <3>2
    <3> QED BY <1>y, <2>1, <3>3
  <2>3. CASE ~Dead(copies[Copy(r)])
    <3>1. pc'[r] = "test"
      BY <1>t, <1>5, <2>3, Going DEF InspectCopy, Stale, Pcs, Acquiring
    <3> QED BY <1>x, <3>1
  <2> QED BY <2>2, <2>3
<1>6. ASSUME TestLockPath(r) PROVE Claimed(r)'
  <2>1. pc'[r] \in {"restore", "cleanup"}
    BY <1>t, <1>6, StealingDoes DEF Shell, Moves
  <2>2. CASE lock = Absent
    <3>1. lock' = Absent BY <1>6, <2>2 DEF TestLockPath, files
    <3> QED BY <1>1, <2>1, <3>1 DEF Claimed
  <2>3. CASE lock # Absent
    <3>1. Die(r, DropClaim(mem[r])) BY <1>6, <2>3 DEF TestLockPath
    <3>2. mem[r] \in Memory BY <1>t DEF Types
    <3>3. DropClaim(mem[r]) \in Memory BY <3>2, MemoryKeeps
    <3>4. pc'[r] = "cleanup" BY <1>t, <3>1, <3>3, Dying
    <3> QED BY <1>x, <3>4
  <2> QED BY <2>2, <2>3
<1>7. ASSUME OwnLock(r) \/ WritePid(r) \/ NoteCopy(r) \/ RestoreLock(r) PROVE Claimed(r)'
  <2>1. pc'[r] \in {"write", "recover", "cleanup", "inspect"}
    BY <1>t, <1>7, TakingDoes, StealingDoes DEF Shell, Moves
  <2> QED BY <1>x, <2>1
<1> QED BY <1>2, <1>3, <1>4, <1>5, <1>6, <1>7 DEF Acquire

\* Outside of acquire_lock a process claims no copy.
LEMMA OtherClaim ==
  ASSUME MaxStarts = 1, CleanInv, ClaimInv, NEW r \in Procs,
         Start(r) \/ InstallUnderLock(r) \/ CleanUp(r) \/ Kill(r)
  PROVE  Claimed(r)'
PROOF
<1>t. Types BY DEF CleanInv
<1>d. Claimed(r) BY DEF ClaimInv
<1>x. ASSUME pc'[r] \in {"off", "begin"} \cup Installing \cup Cleaning,
             pc'[r] = "off" \/ ~mem'[r].captured
      PROVE  Claimed(r)'
  <2>1. pc'[r] \notin {"mkdir", "read", "probe", "capture", "restore"}
    BY <1>x DEF Installing, Cleaning
  <2> QED BY <1>x, <2>1 DEF Claimed
<1>1. CASE Start(r)
  <2>1. Moves(r, {"off"}, {"begin"}) /\ mem'[r] = Fresh BY <1>1, Starting
  <2>2. mem'[r] = Fresh BY <2>1
  <2>3. ~mem'[r].captured BY <2>2 DEF Fresh
  <2> QED BY <1>x, <2>1, <2>3 DEF Moves
<1>2. CASE InstallUnderLock(r)
  <2>1. PICK from \in Installing, to \in SUBSET (Installing \cup {"cleanup"}) : Works(r, from, to)
    BY <1>t, <1>2, InstallDoes DEF InstallUnderLock, Installing
  <2>2. /\ pc[r] \in Installing /\ pc'[r] \in Installing \cup Cleaning
        /\ mem'[r].captured = mem[r].captured
    BY <2>1 DEF Works, Moves, Kept, Cleaning
  <2>3. ~mem[r].captured BY <1>d, <2>2 DEF Claimed, Installing
  <2> QED BY <1>x, <2>2, <2>3
<1>3. CASE CleanUp(r)
  <2>1. /\ pc[r] \in Cleaning /\ pc'[r] \in {"off", "clear", "unlock"}
        /\ mem'[r].captured = mem[r].captured
    BY <1>t, <1>3, CleanDoes DEF CleanUp, Moves, Cleans, Cleaning
  <2>2. ~mem[r].captured BY <1>d, <2>1 DEF Claimed, Cleaning
  <2>3. pc'[r] \in {"off"} \cup Cleaning BY <2>1 DEF Cleaning
  <2> QED BY <1>x, <2>1, <2>2, <2>3
<1>4. CASE Kill(r)
  <2>1. pc'[r] = "off" BY <1>4, SignalDoes DEF Moves
  <2> QED BY <1>x, <2>1
<1> QED BY <1>1, <1>2, <1>3, <1>4

\* Each step keeps the claims safe.
LEMMA ClaimStep ==
  ASSUME TwoProcesses, MaxStarts = 1, "INT" \notin Signals,
         CleanInv, Serial, SwapInv, ClaimInv, [Next]_vars
  PROVE  ClaimInv'
PROOF
<1>1. CASE UNCHANGED vars
  <2>1. UNCHANGED <<lock, copies, pc, mem>> BY <1>1 DEF vars, files
  <2> QED BY <2>1 DEF ClaimInv, Claimed, Copy
<1>2. ASSUME NEW r \in Procs,
             \/ Start(r) \/ Acquire(r) \/ InstallUnderLock(r) \/ CleanUp(r)
             \/ Interrupt(r) \/ Kill(r)
      PROVE  ClaimInv'
  <2>1. ~Interrupt(r) BY DEF Interrupt
  <2>2. Holder(r) /\ Placed(r) BY DEF SwapInv
  <2>3. Alone(r) BY <1>2, <2>2, AcquireSwap, InstallSwap, CleanSwap, OtherSwap
  <2>4. Claimed(r)' BY <1>2, <2>1, AcquireClaim, OtherClaim
  <2>5. ASSUME NEW p \in Procs, p # r PROVE Claimed(p)'
    BY <1>2, <2>1, <2>3, <2>5, OthersClaim
  <2> QED BY <2>4, <2>5 DEF ClaimInv
<1> QED BY <1>1, <1>2 DEF Next

\* Of two processes that may be killed, neither claims what the other may own.
THEOREM ClaimsAreSafe ==
  ASSUME TwoProcesses, MaxStarts = 1, "INT" \notin Signals PROVE Spec => []ClaimInv
PROOF
<1>1. Init => ClaimInv
  BY DEF Init, ClaimInv, Claimed
<1>2. CleanInv /\ Serial /\ SwapInv /\ ClaimInv /\ [Next]_vars => ClaimInv'
  BY ClaimStep
<1>3. Spec => []CleanInv BY ProcessesClear
<1>4. Spec => []Serial BY PairsKeepApart
<1>5. Spec => []SwapInv BY SwapsAreAlone
<1> QED BY <1>1, <1>2, <1>3, <1>4, <1>5, PTL DEF Spec


\* A copy that still names q is one of its places.
LEMMA StaysAPlace ==
  ASSUME CleanInv', NEW q \in Procs, NEW path \in Procs \X Slots, copies'[path] = q
  PROVE  Places(q)' # {}
PROOF
<1>1. DOMAIN copies' = Procs \X Slots BY DEF CleanInv, Types
<1> QED BY <1>1 DEF Places

\* The holder's own commands leave its lock, wherever it is.
LEMMA OwnLockStays ==
  ASSUME CleanInv, CleanInv', NEW q \in Procs, lock = q \/ Places(q) # {},
         pc[q] \in Installing, InstallUnderLock(q)
  PROVE  (lock = q \/ Places(q) # {})'
PROOF
<1>t. Types BY DEF CleanInv
<1>1. lock' = lock /\ (copies' = copies \/ SweepCopies(q))
  BY DEF InstallUnderLock, RecoverBackup, SweepStages, SweepCopies, MakeStage, Fetch,
         NameBackup, SaveDest, NoteSaved, Install, DropBackup, files
<1>2. CASE lock = q BY <1>1, <1>2
<1>3. CASE Places(q) # {}
  <2>1. PICK path \in Procs \X Slots : copies[path] = q
    BY <1>t, <1>3 DEF Places, Types
  <2>2. pc[q] # "off" BY DEF Installing
  <2>3. ~Dead(q) BY <2>2 DEF Dead, Alive
  <2>4. copies'[path] = q
    <3>1. CASE copies' = copies BY <2>1, <3>1
    <3>2. CASE SweepCopies(q) BY <1>t, <2>1, <2>3, <3>2 DEF SweepCopies, Types
    <3> QED BY <1>1, <3>1, <3>2
  <2> QED BY <2>4, StaysAPlace
<1> QED BY <1>2, <1>3

\* The other process moves it, or puts it back, but does not delete it.
LEMMA OtherLockStays ==
  ASSUME MaxStarts = 1, CleanInv, CleanInv', Serial, SwapInv, ClaimInv,
         NEW q \in Procs, NEW r \in Procs, r # q, lock = q \/ Places(q) # {},
         pc[q] \in Installing,
         Start(r) \/ Acquire(r) \/ InstallUnderLock(r) \/ CleanUp(r) \/ Kill(r)
  PROVE  (lock = q \/ Places(q) # {})'
PROOF
<1>t. Types BY DEF CleanInv
<1>c. Copy(r) \in Procs \X Slots BY <1>t, Copies
<1>d. Claimed(r) /\ Holder(r) BY DEF ClaimInv, SwapInv
<1>q. q # Absent /\ q # NoPid BY NamesDiffer
<1>l. ~Dead(q)
  <2>1. pc[q] # "off" BY DEF Installing
  <2> QED BY <2>1 DEF Dead, Alive
<1>i. ~Inside(r)
  <2>1. Inside(q) BY DEF Inside
  <2> QED BY <2>1 DEF Serial, Pair
<1>p. \* where it is, if it is in a copy
      ASSUME lock # q PROVE \E path \in Procs \X Slots : copies[path] = q
  BY <1>t, <1>p DEF Places, Types
<1>u. ASSUME UNCHANGED <<lock, copies>> PROVE (lock = q \/ Places(q) # {})'
  BY <1>u DEF Places
<1>1. CASE ChooseCopyPath(r)
  <2>1. /\ lock' = lock
        /\ copies' = IF Dead(copies[<<r, 0>>]) THEN [copies EXCEPT ![<<r, 0>>] = Absent]
                                               ELSE copies
    BY <1>1 DEF ChooseCopyPath
  <2>2. ASSUME NEW path \in Procs \X Slots, copies[path] = q PROVE Places(q)' # {}
    <3>1. copies'[path] = q BY <1>t, <1>l, <2>1, <2>2 DEF Types
    <3> QED BY <3>1, StaysAPlace
  <2> QED BY <1>p, <2>1, <2>2
<1>2. CASE MakeLock(r)
  <2>1. copies' = copies /\ (lock # Absent => lock' = lock) BY <1>2 DEF MakeLock
  <2> QED BY <1>q, <2>1 DEF Places
<1>3. CASE OwnLock(r) \/ ReadPid(r) \/ ProbeOwner(r) \/ NoteCopy(r) \/ TestLockPath(r)
  BY <1>u, <1>3 DEF OwnLock, ReadPid, ProbeOwner, NoteCopy, TestLockPath, files
<1>4. CASE WritePid(r) BY <1>i, <1>4 DEF WritePid, Step, Inside
<1>5. CASE CaptureLock(r)
  <2>1. CASE lock = Absent BY <1>u, <1>5, <2>1 DEF CaptureLock
  <2>2. CASE lock # Absent
    <3>1. pc[r] = "capture" /\ copies' = [copies EXCEPT ![Copy(r)] = lock]
      BY <1>5, <2>2 DEF CaptureLock, Step
    <3>2. copies'[Copy(r)] = lock BY <1>t, <1>c, <3>1 DEF Types
    <3>3. copies[Copy(r)] = Absent BY <1>d, <3>1 DEF Claimed
    <3>4. ASSUME NEW path \in Procs \X Slots, copies[path] = q PROVE Places(q)' # {}
      <4>1. path # Copy(r) BY <1>q, <3>3, <3>4
      <4>2. copies'[path] = q BY <1>t, <3>1, <3>4, <4>1 DEF Types
      <4> QED BY <4>2, StaysAPlace
    <3> QED BY <1>c, <1>p, <3>2, <3>4, StaysAPlace
  <2> QED BY <2>1, <2>2
<1>6. CASE InspectCopy(r)
  <2>1. /\ lock' = lock
        /\ copies' = IF Dead(copies[Copy(r)]) THEN [copies EXCEPT ![Copy(r)] = Absent] ELSE copies
    BY <1>6 DEF InspectCopy, Stale
  <2>2. ASSUME NEW path \in Procs \X Slots, copies[path] = q PROVE Places(q)' # {}
    <3>1. copies'[path] = q BY <1>t, <1>l, <2>1, <2>2 DEF Types
    <3> QED BY <3>1, StaysAPlace
  <2> QED BY <1>p, <2>1, <2>2
<1>7. CASE RestoreLock(r)
  <2>1. /\ pc[r] = "restore" /\ copies' = [copies EXCEPT ![Copy(r)] = Absent]
        /\ lock' = IF lock = Absent THEN copies[Copy(r)] ELSE lock
    BY <1>7 DEF RestoreLock, Step
  <2>2. CASE lock = q BY <1>q, <2>1, <2>2
  <2>3. ASSUME NEW path \in Procs \X Slots, copies[path] = q
        PROVE  (lock = q \/ Places(q) # {})'
    <3>1. CASE path = Copy(r)
      <4>1. lock = Absent BY <1>d, <2>1, <2>3, <3>1 DEF Claimed
      <4> QED BY <2>1, <2>3, <3>1, <4>1
    <3>2. CASE path # Copy(r)
      <4>1. copies'[path] = q BY <1>t, <2>1, <2>3, <3>2 DEF Types
      <4> QED BY <4>1, StaysAPlace
    <3> QED BY <3>1, <3>2
  <2> QED BY <1>p, <2>2, <2>3
<1>8. CASE InstallUnderLock(r)
  <2>1. pc[r] \in Installing
    BY <1>8 DEF InstallUnderLock, RecoverBackup, SweepStages, SweepCopies, MakeStage, Fetch,
                NameBackup, SaveDest, NoteSaved, Install, DropBackup, Step, Installing
  <2> QED BY <1>i, <2>1 DEF Inside
<1>9. CASE RestoreBackup(r) BY <1>u, <1>9 DEF RestoreBackup
<1>10. CASE ClearOwn(r)
  <2>1. pc[r] = "clear" BY <1>10 DEF ClearOwn, Step
  <2>2. ~mem[r].captured BY <1>d, <2>1 DEF Claimed
  <2> QED BY <1>u, <1>10, <2>2 DEF ClearOwn
<1>11. CASE Unlock(r)
  <2>1. pc[r] = "unlock" BY <1>11 DEF Unlock
  <2>2. ~mem[r].held BY <1>i, <2>1 DEF Inside, Cleaning
  <2> QED BY <1>u, <1>11, <2>2 DEF Unlock
<1>12. CASE Start(r) \/ Kill(r) BY <1>u, <1>12 DEF Start, Kill, files
<1> QED
  BY <1>1, <1>2, <1>3, <1>4, <1>5, <1>6, <1>7, <1>8, <1>9, <1>10, <1>11, <1>12
  DEF Acquire, CleanUp

\* Taking over a stale lock never deletes a live one (install-go.sh:18-19):
\* of two processes that may be killed, the one that installs has its
\* lock at its place or in a copy until it removes it itself, whatever the
\* other renames, inspects or puts back.
THEOREM LiveLockIsNeverDeleted ==
  ASSUME TwoProcesses, MaxStarts = 1, "INT" \notin Signals PROVE Spec => LiveLockKept
PROOF
<1>1. CleanInv /\ CleanInv' /\ Serial /\ SwapInv /\ ClaimInv /\ [Next]_vars =>
        [\A q \in Procs :
           /\ lock = q \/ Places(q) # {}
           /\ pc[q] \in Installing /\ pc'[q] \in Installing
           => (lock = q \/ Places(q) # {})']_vars
  <2>1. ASSUME CleanInv, CleanInv', Serial, SwapInv, ClaimInv, NEW r \in Procs,
               \/ Start(r) \/ Acquire(r) \/ InstallUnderLock(r) \/ CleanUp(r)
               \/ Interrupt(r) \/ Kill(r),
               NEW q \in Procs, lock = q \/ Places(q) # {}, pc[q] \in Installing,
               pc'[q] \in Installing
        PROVE  (lock = q \/ Places(q) # {})'
    <3>1. ~Interrupt(r) BY DEF Interrupt
    <3>2. CASE r = q
      <4>1. pc[q] # "write" BY <2>1 DEF Installing
      <4>2. InstallUnderLock(q) BY <2>1, <3>1, <3>2, <4>1, UnderLock
      <4> QED BY <2>1, <4>2, OwnLockStays
    <3>3. CASE r # q BY <2>1, <3>1, <3>3, OtherLockStays
    <3> QED BY <3>2, <3>3
  <2> QED BY <2>1 DEF Next
<1>2. Spec => []CleanInv BY ProcessesClear
<1>3. Spec => []Serial BY PairsKeepApart
<1>4. Spec => []SwapInv BY SwapsAreAlone
<1>5. Spec => []ClaimInv BY ClaimsAreSafe
<1> QED BY <1>1, <1>2, <1>3, <1>4, <1>5, PTL DEF Spec, LiveLockKept

==============================================================================
