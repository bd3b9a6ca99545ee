--------------------------- MODULE MMInstallProofs ---------------------------
(***************************************************************************)
(* mm --install undoes what it did, and never leaves a block without its   *)
(* executable, for any profiles, links between them, first disks, and any  *)
(* number of runs, failing calls and edits.                                *)
(***************************************************************************)
EXTENDS MMInstall, SequenceTheorems, FiniteSetTheorems, WellFoundedInduction, TLAPS

Plans   == [changed : BOOLEAN, snapshot : Contents \cup {Absent},
            updated : Contents \cup {Absent}]
Memory  == [next : 1..(Len(Profiles) + 1), plans : [Indexes -> Plans],
            binary : Binaries \cup {Absent}, changed : BOOLEAN,
            committed : 0..Len(Profiles), broken : BOOLEAN]
Steps   == {"idle", "create", "fill", "remove", "rename", "drop", "done", "failed"}

Types ==
  /\ resolve \in [Indexes -> ProfileFiles]
  /\ IsDisk(disk) /\ IsDisk(before)
  /\ temps \in SUBSET Files /\ raced \in SUBSET ProfileFiles /\ userPath \in BOOLEAN
  /\ pc \in {"off", "plan", "snapshot", "copy", "update", "roll back", "configure", "restore"}
  /\ ended \in {"never ran", "running", "ok", "failed", "copy failed", "rollback failed",
                "killed"}
  /\ mem \in Memory
  /\ write \in [at : Steps, to : Files, data : {write.data}, replace : BOOLEAN]
  /\ \A k \in Indexes : mem.plans[k].changed => mem.plans[k].updated # Absent

\* The installer's variables in each stage.
Stages ==
  /\ pc = "off" <=> ended # "running"
  /\ pc \in {"update", "roll back"} => goos = "unix"
  /\ pc = "configure" => goos # "unix"
  /\ pc = "plan" => mem.next <= Len(Profiles) /\ goos = "unix"
  /\ mem.committed > 0 => pc \in {"update", "roll back"} /\ mem.committed < mem.next
  /\ mem.broken => pc \in {"roll back", "restore"}
  /\ pc = "off" => mem = Fresh

\* The call in progress is the one its stage makes.
Calls ==
  /\ write.at = "remove" => write.replace
  /\ write.at # "idle" =>
       \/ /\ pc = "copy" /\ write.to = Binary /\ write.data = Mm
          /\ write.replace = ReplaceFirst
       \/ /\ pc = "update" /\ ~write.replace /\ Pending(mem.next) # {}
          /\ LET k == FirstOf(Pending(mem.next))
             IN  write.to = resolve[k] /\ write.data = mem.plans[k].updated
       \/ /\ pc = "roll back" /\ ~write.replace /\ mem.committed > 0
          /\ LET plan == mem.plans[mem.committed]
             IN  /\ plan.changed /\ plan.snapshot # Absent
                 /\ write.to = resolve[mem.committed] /\ write.data = plan.snapshot
       \/ /\ pc = "restore" /\ ~write.replace /\ mem.changed
          /\ mem.binary # Absent /\ write.to = Binary /\ write.data = mem.binary

\* A snapshot is what would be there without the run.
Snapshots ==
  /\ \A k \in Indexes :
       /\ goos = "unix" /\ pc # "off" /\ (pc = "plan" => k < mem.next)
       /\ resolve[k] \notin raced
       => mem.plans[k].snapshot = before[resolve[k]]
  /\ pc \in {"copy", "update", "roll back", "configure", "restore"} =>
       mem.binary = before[Binary]

\* What the run has done to a profile and not undone.
Touched(f) ==
  \/ mem.broken
  \/ \E k \in 1..mem.committed : mem.plans[k].changed /\ resolve[k] = f
  \/ pc = "update" /\ write.at = "done" /\ write.to = f

\* A profile nobody else edited differs from what it was only where the
\* rollback will look.
ProfileUndone(f) ==
  /\ pc # "off" => disk[f] = before[f] \/ Touched(f)
  /\ pc = "roll back" /\ write.at = "done" /\ write.to = f => disk[f] = before[f]
  /\ pc = "off" /\ ended \in {"failed", "copy failed"} => disk[f] = before[f]
  /\ pc = "off" /\ ended # "rollback failed" => disk[f] = before[f] \/ disk[Binary] = Mm

\* The binary in each stage.
BinaryUndone ==
  /\ goos = "unix" => disk[Binary] \in {Mm, before[Binary]}
  /\ pc \in {"plan", "snapshot"} => disk[Binary] = before[Binary]
  /\ pc = "copy" => IF write.at = "done" THEN disk[Binary] = Mm
                    ELSE goos = "unix" \/ write.at = "idle" => disk[Binary] = before[Binary]
  /\ pc \in {"update", "roll back"} => disk[Binary] = Mm
  /\ pc \in {"update", "roll back", "configure", "restore"} /\ ~mem.changed =>
       disk[Binary] = before[Binary]
  /\ pc = "restore" /\ write.at = "done" => disk[Binary] = before[Binary]
  /\ pc = "off" /\ ended = "failed" => disk[Binary] = before[Binary]
  /\ pc = "off" /\ ended = "copy failed" /\ goos = "unix" => disk[Binary] = before[Binary]

InstallInv ==
  /\ Types /\ Stages /\ Calls /\ Snapshots
  /\ \A f \in ProfileFiles \ raced : ProfileUndone(f)
  /\ BinaryUndone

-----------------------------------------------------------------------------
(* Lemmas.                                                                 *)

\* The least index of a set is in it.
LEMMA FirstOfIsLeast ==
  ASSUME NEW S \in SUBSET Nat, S # {}
  PROVE  FirstOf(S) \in S /\ \A j \in S : FirstOf(S) <= j
PROOF
<1>1. IsWellFoundedOn(OpToRel(<, Nat), Nat)
  BY NatLessThanWellFounded
<1>2. PICK x \in S : \A y \in S : ~(<<y, x>> \in OpToRel(<, Nat))
  BY <1>1, WFMin, Zenon
<1>3. OpToRel(<, Nat) = {ss \in Nat \X Nat : ss[1] < ss[2]}
  BY DEF OpToRel
<1>4. ASSUME NEW y \in S PROVE x <= y
  <2>1. ~(y < x) BY <1>2, <1>3
  <2> QED BY <2>1
<1> QED BY <1>4 DEF FirstOf

\* The shape of the constants.
LEMMA Shape ==
  /\ Len(Profiles) \in Nat /\ Len(Profiles) > 0 /\ Indexes = 1..Len(Profiles)
  /\ Binary \in Files /\ Binary \notin ProfileFiles /\ ProfileFiles \subseteq Files
  /\ Absent \notin Contents /\ Absent \notin Binaries
  /\ Mm \in Binaries /\ NoPlan \in Plans /\ Fresh \in Memory
  /\ ~(Fresh.committed > 0)
  /\ \A file \in Binaries : file.bytes = "mm" /\ file.exec => file = Mm
PROOF
<1> USE MMInstallAssumption
<1>1. Mm \in Binaries
  BY DEF Mm, Binaries
<1>2. NoPlan \in Plans
  BY DEF NoPlan, Plans
<1>3. Fresh \in Memory
  BY <1>2 DEF Fresh, Memory
<1>5. ~(Fresh.committed > 0)
  BY DEF Fresh
<1>4. \A file \in Binaries : file.bytes = "mm" /\ file.exec => file = Mm
  BY DEF Mm, Binaries
<1> QED BY <1>1, <1>2, <1>3, <1>4, <1>5 DEF Files

\* No call is in progress.
LEMMA NoWriteType ==
  /\ NoWrite.at = "idle" /\ NoWrite.to = Binary
  /\ NoWrite \in [at : Steps, to : Files, data : {NoWrite.data}, replace : BOOLEAN]
BY Shape DEF NoWrite, Steps

\* A change of one file leaves the others alone.
LEMMA DiskExcept ==
  ASSUME IsDisk(disk), NEW f \in Files, NEW x, disk' = [disk EXCEPT ![f] = x],
         f = Binary => x \in Binaries \cup {Absent},
         f # Binary => x \in Contents \cup {Absent}
  PROVE  /\ IsDisk(disk') /\ disk'[f] = x
         /\ \A g \in Files \ {f} : disk'[g] = disk[g]
BY Shape DEF IsDisk, Files

\* The first place of a token in a file, or zero.
LEMMA FirstToken ==
  ASSUME NEW data \in Contents, NEW token
  PROVE  /\ First(data, token) \in 0..Len(data)
         /\ First(data, token) > 0 => data[First(data, token)] = token
         /\ \A i \in 1..Len(data) :
              data[i] = token => 0 < First(data, token) /\ First(data, token) <= i
PROOF
<1> DEFINE I == {i \in 1..Len(data) : data[i] = token}
<1>1. First(data, token) = IF I # {} THEN Min(I) ELSE 0
  BY DEF First, SelectInSeq
<1>2. Len(data) \in Nat
  BY DEF Contents
<1>3. I \in SUBSET Nat
  BY <1>2
<1>4. Min(I) = FirstOf(I)
  BY DEF Min, FirstOf
<1>5. I # {} => Min(I) \in I /\ \A j \in I : Min(I) <= j
  BY <1>3, <1>4, FirstOfIsLeast
<1> HIDE DEF I
<1>6. \A i \in 1..Len(data) : data[i] = token => i \in I
  BY DEF I
<1>7. \A i \in I : i \in 1..Len(data) /\ data[i] = token
  BY DEF I
<1>8. CASE I = {}
  BY <1>1, <1>2, <1>6, <1>8
<1>9. CASE I # {}
  BY <1>1, <1>2, <1>5, <1>6, <1>7, <1>9
<1> QED BY <1>8, <1>9

\* What planProfileBlock computes is the contents of a profile again.
LEMMA UpdatedType ==
  ASSUME NEW data \in Contents, ~Incomplete(data), NEW body \in Bodies
  PROVE  Updated(data, body) \in Contents
PROOF
<1> DEFINE T == Texts \cup Bodies \cup {Start, End, Newline}
<1> DEFINE s == First(data, Start)
<1> DEFINE e == First(data, End)
<1>1. Len(data) \in Nat /\ \A i \in 1..Len(data) : data[i] \in T
  BY ElementOfSeq DEF Contents
<1>2. Block(body) \in Contents /\ <<Newline>> \in Contents /\ <<Newline, Newline>> \in Contents
  BY DEF Block, Contents
<1>3. s \in 0..Len(data) /\ e \in 0..Len(data)
  BY FirstToken
<1>4. CASE s > 0
  <2>1. SubSeq(data, 1, s - 1) \in Contents
    BY <1>1, <1>3, SubSeqProperties DEF Contents
  <2>2. SubSeq(data, e + 1, Len(data)) \in Contents
    BY <1>1, <1>3, SubSeqProperties DEF Contents
  <2>3. Updated(data, body) = SubSeq(data, 1, s - 1) \o Block(body) \o SubSeq(data, e + 1, Len(data))
    BY <1>4 DEF Updated, Replaced
  <2> QED BY <1>2, <2>1, <2>2, <2>3, ConcatProperties DEF Contents
<1>5. CASE ~(s > 0)
  <2>1. Updated(data, body) = Appended(data, body)
    BY <1>5 DEF Updated
  <2>2. \A x, y \in Contents : x \o y \in Contents
    BY ConcatProperties DEF Contents
  <2>3. <<>> \in Contents
    BY EmptySeq DEF Contents
  <2>4. \/ Updated(data, body) = <<>> \o Block(body) \o <<Newline>>
        \/ Updated(data, body) = (data \o <<Newline>>) \o Block(body) \o <<Newline>>
        \/ Updated(data, body) = (data \o <<Newline, Newline>>) \o Block(body) \o <<Newline>>
    BY <2>1 DEF Appended
  <2>5. \A x \in Contents : (x \o Block(body)) \o <<Newline>> \in Contents
    BY <1>2, <2>2, Zenon
  <2>6. data \o <<Newline>> \in Contents /\ data \o <<Newline, Newline>> \in Contents
    BY <1>2, <2>2, Zenon
  <2> QED BY <2>3, <2>4, <2>5, <2>6, Zenon
<1> QED BY <1>4, <1>5

\* A plan is well typed, and a plan to change has the new contents.
LEMMA PlanType ==
  ASSUME NEW file, file # Absent => file \in Contents, ~Incomplete(Data(file)),
         NEW k \in Indexes
  PROVE  LET plan == PlanOf(file, Profiles[k])
         IN  /\ plan \in Plans /\ plan.snapshot = file
             /\ plan.changed => plan.updated # Absent
PROOF
<1>1. Data(file) \in Contents
  BY EmptySeq DEF Data, Contents
<1>2. Updated(Data(file), Profiles[k]) \in Contents
  BY <1>1, UpdatedType DEF Bodies
<1> QED BY <1>2, Shape DEF PlanOf, NoPlan, Plans

\* The fields of the installer's variables.
LEMMA MemoryTypes ==
  ASSUME mem \in Memory
  PROVE  /\ mem.next \in 1..(Len(Profiles) + 1) /\ mem.committed \in 0..Len(Profiles)
         /\ mem.committed > 0 => mem.committed \in Indexes
         /\ mem.plans \in [Indexes -> Plans]
         /\ mem.binary \in Binaries \cup {Absent}
         /\ mem.changed \in BOOLEAN /\ mem.broken \in BOOLEAN
         /\ \A k \in Indexes :
              /\ mem.plans[k].changed \in BOOLEAN
              /\ mem.plans[k].snapshot \in Contents \cup {Absent}
              /\ mem.plans[k].updated \in Contents \cup {Absent}
PROOF
<1>1. /\ mem.next \in 1..(Len(Profiles) + 1) /\ mem.committed \in 0..Len(Profiles)
      /\ mem.plans \in [Indexes -> Plans] /\ mem.binary \in Binaries \cup {Absent}
      /\ mem.changed \in BOOLEAN /\ mem.broken \in BOOLEAN
  BY DEF Memory
<1>2. mem.committed > 0 => mem.committed \in Indexes
  BY <1>1, Shape
<1>3. \A k \in Indexes :
        /\ mem.plans[k].changed \in BOOLEAN
        /\ mem.plans[k].snapshot \in Contents \cup {Absent}
        /\ mem.plans[k].updated \in Contents \cup {Absent}
  BY <1>1 DEF Plans
<1> QED BY <1>1, <1>2, <1>3

\* The next profile to update is one that has to change.
LEMMA NextPending ==
  ASSUME mem \in Memory, Pending(mem.next) # {}
  PROVE  LET k == FirstOf(Pending(mem.next))
         IN  k \in Indexes /\ k >= mem.next /\ mem.plans[k].changed
PROOF
<1> DEFINE S == Pending(mem.next)
<1>1. S \in SUBSET Nat /\ S \subseteq Indexes
  BY MemoryTypes, Shape DEF Pending
<1>2. FirstOf(S) \in S
  BY <1>1, FirstOfIsLeast
<1>3. \A k \in S : k >= mem.next /\ mem.plans[k].changed
  BY MemoryTypes, Shape DEF Pending
<1> QED BY <1>1, <1>2, <1>3

-----------------------------------------------------------------------------
(* writeReaderAtomic.                                                      *)

\* A call in progress is at one of its steps, and its data fits its target.
LEMMA CallTypes ==
  ASSUME InstallInv, write.at # "idle"
  PROVE  /\ pc \in {"copy", "update", "roll back", "restore"}
         /\ write.to \in Files /\ write.data # Absent
         /\ write.to = Binary <=> pc \in {"copy", "restore"}
         /\ write.to = Binary => write.data \in Binaries
         /\ write.to # Binary => write.to \in ProfileFiles /\ write.data \in Contents
PROOF
<1> USE DEF InstallInv
<1>0. mem \in Memory /\ resolve \in [Indexes -> ProfileFiles]
  BY DEF Types
<1>1. CASE pc = "copy"
  BY <1>1, Shape DEF Calls
<1>2. CASE pc = "update"
  <2> DEFINE k == FirstOf(Pending(mem.next))
  <2>1. Pending(mem.next) # {} /\ write.to = resolve[k] /\ write.data = mem.plans[k].updated
    BY <1>2 DEF Calls
  <2>2. k \in Indexes /\ mem.plans[k].changed
    BY <1>0, <2>1, NextPending
  <2>3. mem.plans[k].updated \in Contents
    BY <1>0, <2>2, MemoryTypes DEF Types
  <2> HIDE DEF k
  <2>4. resolve[k] \in ProfileFiles
    BY <1>0, <2>2
  <2> QED BY <1>2, <2>1, <2>3, <2>4, Shape
<1>3. CASE pc = "roll back"
  <2> DEFINE k == mem.committed
  <2>1. k > 0 /\ write.to = resolve[k] /\ write.data = mem.plans[k].snapshot /\ write.data # Absent
    BY <1>3 DEF Calls
  <2>2. k \in Indexes /\ mem.plans[k].snapshot \in Contents \cup {Absent}
    BY <1>0, <2>1, MemoryTypes
  <2> HIDE DEF k
  <2>3. resolve[k] \in ProfileFiles
    BY <1>0, <2>2
  <2> QED BY <1>3, <2>1, <2>2, <2>3, Shape
<1>4. CASE pc = "restore"
  <2>1. write.to = Binary /\ write.data = mem.binary /\ write.data # Absent
    BY <1>4 DEF Calls
  <2> QED BY <1>0, <1>4, <2>1, MemoryTypes, Shape
<1> QED BY <1>1, <1>2, <1>3, <1>4 DEF Calls

\* A step of a call that leaves the disk alone.
LEMMA AdvanceKeeps ==
  ASSUME InstallInv, write.at # "idle", NEW step \in Steps \ {"idle", "done"},
         write' = [write EXCEPT !.at = step], write.at # "done",
         step = "remove" => write.replace,
         temps' \in SUBSET Files,
         UNCHANGED <<fixed, disk, raced, userPath, pc, mem, ended>>
  PROVE  InstallInv'
PROOF
<1> USE DEF InstallInv, fixed
<1>1. /\ write'.at = step /\ write'.to = write.to /\ write'.data = write.data
      /\ write'.replace = write.replace
      /\ write' \in [at : Steps, to : Files, data : {write'.data}, replace : BOOLEAN]
  BY DEF Types, Steps
<1>2. Types' BY <1>1 DEF Types
<1>3. Stages' BY DEF Stages
<1>4. Calls'
  <2>1. ReplaceFirst' = ReplaceFirst BY DEF ReplaceFirst
  <2>2. Pending(mem.next)' = Pending(mem.next) BY DEF Pending
  <2> QED BY <1>1, <2>1, <2>2 DEF Calls
<1>5. Snapshots' BY DEF Snapshots
<1>6. ASSUME NEW f \in ProfileFiles \ raced' PROVE ProfileUndone(f)'
  BY <1>1 DEF ProfileUndone, Touched
<1>7. BinaryUndone'
  BY <1>1 DEF BinaryUndone
<1> QED BY <1>2, <1>3, <1>4, <1>5, <1>6, <1>7

\* Only Windows removes the old executable before the new one is in place.
LEMMA RemoveOldKeeps ==
  ASSUME InstallInv, RemoveOld, disk' # disk
  PROVE  InstallInv'
PROOF
<1> USE DEF InstallInv, fixed
<1>1. /\ write.at = "remove" /\ UNCHANGED <<fixed, raced, userPath, pc, mem, ended, temps>>
      /\ disk' = [disk EXCEPT ![write.to] = Absent]
      /\ write' = [write EXCEPT !.at = "rename"]
  BY DEF RemoveOld, At, Advance
<1>2. pc = "copy" /\ write.to = Binary /\ goos = "windows"
  BY <1>1 DEF Calls, ReplaceFirst
<1>3. IsDisk(disk') /\ \A f \in ProfileFiles : disk'[f] = disk[f]
  <2>1. IsDisk(disk) BY DEF Types
  <2>2. IsDisk(disk') /\ \A f \in Files \ {Binary} : disk'[f] = disk[f]
    BY <1>1, <1>2, <2>1, DiskExcept, Shape
  <2> QED BY <2>2, Shape
<1>4. /\ write'.at = "rename" /\ write'.to = write.to /\ write'.data = write.data
      /\ write'.replace = write.replace
      /\ write' \in [at : Steps, to : Files, data : {write'.data}, replace : BOOLEAN]
  BY <1>1 DEF Types, Steps
<1>5. Types' BY <1>1, <1>3, <1>4 DEF Types
<1>6. Stages' BY <1>1 DEF Stages
<1>7. Calls' BY <1>1, <1>2, <1>4 DEF Calls, ReplaceFirst
<1>8. Snapshots' BY <1>1 DEF Snapshots
<1>9. ASSUME NEW f \in ProfileFiles \ raced' PROVE ProfileUndone(f)'
  BY <1>1, <1>2, <1>3 DEF ProfileUndone, Touched
<1>10. BinaryUndone'
  BY <1>1, <1>2, <1>4 DEF BinaryUndone
<1> QED BY <1>5, <1>6, <1>7, <1>8, <1>9, <1>10

\* The rename puts the data in place: a snapshot where a rollback renames.
LEMMA RenameKeeps ==
  ASSUME InstallInv, write.at = "rename", UNCHANGED <<fixed, raced, userPath, pc, mem, ended>>,
         disk' = [disk EXCEPT ![write.to] = write.data], temps' = temps \ {write.to},
         write' = [write EXCEPT !.at = "done"]
  PROVE  InstallInv'
PROOF
<1> USE DEF InstallInv, fixed
<1>1. /\ write'.at = "done" /\ write'.to = write.to /\ write'.data = write.data
      /\ write'.replace = write.replace
      /\ write' \in [at : Steps, to : Files, data : {write'.data}, replace : BOOLEAN]
  BY DEF Types, Steps
<1>2. /\ pc \in {"copy", "update", "roll back", "restore"}
      /\ write.to = Binary <=> pc \in {"copy", "restore"}
      /\ write.to \in Files /\ IsDisk(disk')
      /\ disk'[write.to] = write.data
      /\ \A f \in Files \ {write.to} : disk'[f] = disk[f]
  <2>1. IsDisk(disk) BY DEF Types
  <2>2. /\ pc \in {"copy", "update", "roll back", "restore"}
        /\ write.to \in Files
        /\ write.to = Binary => write.data \in Binaries
        /\ write.to # Binary => write.data \in Contents
    BY CallTypes
  <2>3. write.to = Binary <=> pc \in {"copy", "restore"}
    BY CallTypes
  <2>4. /\ IsDisk(disk') /\ disk'[write.to] = write.data
        /\ \A f \in Files \ {write.to} : disk'[f] = disk[f]
    BY <2>1, <2>2, DiskExcept
  <2> QED BY <2>2, <2>3, <2>4
<1>3. Types' BY <1>1, <1>2 DEF Types
<1>4. Stages' BY DEF Stages
<1>5. Calls'
  <2>1. ReplaceFirst' = ReplaceFirst BY DEF ReplaceFirst
  <2>2. Pending(mem.next)' = Pending(mem.next) BY DEF Pending
  <2> QED BY <1>1, <2>1, <2>2 DEF Calls
<1>6. Snapshots' BY DEF Snapshots
<1>7. ASSUME NEW f \in ProfileFiles \ raced' PROVE ProfileUndone(f)'
  <2>0. ProfileUndone(f) /\ f \in Files /\ f # Binary
    BY Shape
  <2>1. CASE f # write.to
    <3>1. disk'[f] = disk[f] BY <1>2, <2>0, <2>1
    <3> QED BY <1>1, <1>2, <2>0, <2>1, <3>1 DEF ProfileUndone, Touched
  <2>2. CASE f = write.to /\ pc = "update"
    BY <1>1, <2>2 DEF ProfileUndone, Touched
  <2>3. CASE f = write.to /\ pc = "roll back"
    <3> DEFINE k == mem.committed
    <3>1. f = resolve[k] /\ k > 0 /\ write.data = mem.plans[k].snapshot
      BY <2>3 DEF Calls
    <3>2. k \in Indexes BY <3>1, MemoryTypes DEF Types
    <3>3. goos = "unix" BY <2>3 DEF Stages
    <3>4. write.data = before[f]
      BY <2>3, <3>1, <3>2, <3>3 DEF Snapshots
    <3> QED BY <1>1, <1>2, <2>3, <3>4 DEF ProfileUndone, Touched
  <2> QED BY <1>2, <2>0, <2>1, <2>2, <2>3
<1>8. BinaryUndone'
  <2>1. CASE pc = "copy"
    <3>1. disk'[Binary] = Mm BY <1>2, <2>1 DEF Calls
    <3> QED BY <1>1, <2>1, <3>1 DEF BinaryUndone
  <2>2. CASE pc = "restore"
    <3>1. disk'[Binary] = before[Binary] /\ mem.changed
      BY <1>2, <2>2 DEF Calls, Snapshots
    <3> QED BY <1>1, <2>2, <3>1 DEF BinaryUndone
  <2>3. CASE pc \in {"update", "roll back"}
    <3>1. disk'[Binary] = disk[Binary] BY <1>2, <2>3, Shape
    <3> QED BY <1>1, <2>3, <3>1 DEF BinaryUndone
  <2> QED BY <1>2, <2>1, <2>2, <2>3
<1> QED BY <1>3, <1>4, <1>5, <1>6, <1>7, <1>8

\* Every step of a call keeps the invariant.
LEMMA WriteAtomicKeeps ==
  ASSUME InstallInv, WriteAtomic
  PROVE  InstallInv'
PROOF
<1>1. CASE CreateTemp
  <2>1. PICK step \in {"fill", "failed"} : write' = [write EXCEPT !.at = step]
    BY <1>1 DEF CreateTemp, Advance
  <2>2. write.to \in Files /\ temps \in SUBSET Files
    BY <1>1, CallTypes DEF CreateTemp, At, InstallInv, Types
  <2>3. temps' \in SUBSET Files
    BY <1>1, <2>2 DEF CreateTemp
  <2> QED BY <1>1, <2>1, <2>3, AdvanceKeeps DEF CreateTemp, At, Steps
<1>2. CASE FillTemp
  <2>1. PICK step \in {"remove", "rename", "drop"} :
          write' = [write EXCEPT !.at = step] /\ (step = "remove" => write.replace)
    BY <1>2 DEF FillTemp, Advance
  <2> QED BY <1>2, <2>1, AdvanceKeeps DEF FillTemp, At, Steps, InstallInv, Types
<1>3. CASE DropTemp
  <2>1. temps' \in SUBSET Files
    BY <1>3 DEF DropTemp, InstallInv, Types
  <2> QED BY <1>3, <2>1, AdvanceKeeps DEF DropTemp, At, Advance, Steps
<1>4. CASE RemoveOld
  <2>1. CASE disk' # disk BY <1>4, <2>1, RemoveOldKeeps
  <2>2. CASE disk' = disk
    <3>1. PICK step \in {"rename", "drop"} : write' = [write EXCEPT !.at = step]
      BY <1>4 DEF RemoveOld, Advance
    <3> QED BY <1>4, <2>2, <3>1, AdvanceKeeps DEF RemoveOld, At, Steps, InstallInv, Types
  <2> QED BY <2>1, <2>2
<1>5. CASE Rename
  <2>1. CASE UNCHANGED <<disk, temps>> /\ Advance("drop")
    BY <1>5, <2>1, AdvanceKeeps DEF Rename, At, Advance, Steps, InstallInv, Types
  <2> QED BY <1>5, <2>1, RenameKeeps DEF Rename, At, Advance
<1> QED BY <1>1, <1>2, <1>3, <1>4, <1>5 DEF WriteAtomic

-----------------------------------------------------------------------------
(* The install functions, up to the copy of the executable.                *)

\* Outside the updates and the rollback a run has left the profiles as they
\* were, if every undo went well.
LEMMA Untouched ==
  ASSUME InstallInv, NEW f \in ProfileFiles \ raced,
         pc \in {"plan", "snapshot", "copy", "configure", "restore"}, ~mem.broken
  PROVE  disk[f] = before[f]
PROOF
<1>1. mem.committed \in 0..Len(Profiles) /\ ~(mem.committed > 0)
  BY MemoryTypes DEF InstallInv, Types, Stages
<1>2. 1..mem.committed = {}
  BY <1>1, Shape
<1>3. ~Touched(f)
  BY <1>2 DEF Touched
<1> QED BY <1>3 DEF InstallInv, ProfileUndone

\* A run may return when its result says what is on the disk.
LEMMA ReturnKeeps ==
  ASSUME InstallInv,
         NEW result \in {"ok", "failed", "copy failed", "rollback failed", "killed"},
         Return(result), UNCHANGED <<fixed, raced, temps>>, userPath' \in BOOLEAN,
         IsDisk(disk'),
         \A f \in ProfileFiles \ raced :
           /\ result \in {"failed", "copy failed"} => disk'[f] = before[f]
           /\ result # "rollback failed" => disk'[f] = before[f] \/ disk'[Binary] = Mm,
         goos = "unix" => disk'[Binary] \in {Mm, before[Binary]},
         result = "failed" => disk'[Binary] = before[Binary],
         result = "copy failed" /\ goos = "unix" => disk'[Binary] = before[Binary]
  PROVE  InstallInv'
PROOF
<1> USE DEF fixed
<1>1. /\ pc' = "off" /\ ended' = result /\ mem' = Fresh /\ write' = NoWrite
      /\ resolve' = resolve /\ before' = before /\ goos' = goos /\ raced' = raced
  BY DEF Return
<1>2. /\ write'.at = "idle" /\ write'.to = Binary
      /\ write' \in [at : Steps, to : Files, data : {write'.data}, replace : BOOLEAN]
  BY <1>1, Shape DEF NoWrite, Steps
<1>3. /\ mem' \in Memory /\ mem'.committed = 0 /\ mem'.broken = FALSE
      /\ \A k \in Indexes : mem'.plans[k].changed = FALSE
  BY <1>1, Shape DEF Fresh, NoPlan
<1>4. Types'
  BY <1>1, <1>2, <1>3 DEF InstallInv, Types
<1>5. Stages'
  <2>1. result # "running" OBVIOUS
  <2>2. ~(mem'.committed > 0)
    BY <1>1, Shape, Zenon
  <2> QED BY <1>1, <1>3, <2>1, <2>2 DEF Stages
<1>6. Calls'
  BY <1>2 DEF Calls
<1>7. Snapshots'
  BY <1>1 DEF Snapshots
<1>8. ASSUME NEW f \in ProfileFiles \ raced' PROVE ProfileUndone(f)'
  BY <1>1 DEF ProfileUndone
<1>9. BinaryUndone'
  BY <1>1 DEF BinaryUndone
<1> QED BY <1>4, <1>5, <1>6, <1>7, <1>8, <1>9 DEF InstallInv

\* What the disk was is noted before anything is done.
LEMMA StartInstallKeeps ==
  ASSUME InstallInv, StartInstall
  PROVE  InstallInv'
PROOF
<1> USE DEF InstallInv, StartInstall
<1>1. /\ pc' \in {"plan", "snapshot"} /\ (pc' = "plan" => goos = "unix")
      /\ mem = Fresh /\ write.at = "idle"
  BY DEF Stages, Calls
<1>2. /\ mem.committed = 0 /\ ~mem.broken /\ mem.next = 1 /\ mem.next <= Len(Profiles)
      /\ mem.binary = Absent /\ ~mem.changed
  BY <1>1, Shape DEF Fresh
<1>3. Types' BY <1>1 DEF Types
<1>4. Stages' BY <1>1, <1>2 DEF Stages
<1>5. Calls' BY <1>1 DEF Calls
<1>6. Snapshots'
  <2>1. CASE pc' = "plan" BY <1>2, <2>1, Shape DEF Snapshots
  <2>2. CASE pc' = "snapshot" BY <2>2 DEF Snapshots
  <2> QED BY <1>1, <2>1, <2>2
<1>7. ASSUME NEW f \in ProfileFiles \ raced' PROVE ProfileUndone(f)'
  BY <1>1 DEF ProfileUndone
<1>8. BinaryUndone'
  BY <1>1 DEF BinaryUndone
<1> QED BY <1>3, <1>4, <1>5, <1>6, <1>7, <1>8

\* A plan holds the profile as it would be without the run.
LEMMA PlanProfileKeeps ==
  ASSUME InstallInv, PlanProfile
  PROVE  InstallInv'
PROOF
<1> DEFINE k == mem.next
<1> DEFINE file == disk[resolve[k]]
<1> DEFINE plan == PlanOf(file, Profiles[k])
<1> USE DEF InstallInv
<1>1. /\ pc = "plan" /\ write.at = "idle" /\ k \in Indexes
      /\ UNCHANGED <<fixed, raced, temps, disk, userPath>>
      /\ mem.committed = 0 /\ ~mem.broken /\ goos = "unix"
  BY MemoryTypes, Shape DEF PlanProfile, Control, Running, Stages, Types
<1>2. \A f \in ProfileFiles \ raced : disk[f] = before[f]
  BY <1>1, Untouched
<1>3. disk[Binary] = before[Binary]
  BY <1>1 DEF BinaryUndone
<1>4. CASE Return("failed")
  BY <1>1, <1>2, <1>3, <1>4, ReturnKeeps DEF Types
<1>5. ASSUME ~Incomplete(Data(file)), UNCHANGED write,
             Go(IF k < Len(Profiles) THEN "plan" ELSE "snapshot",
                [mem EXCEPT !.plans[k] = plan, !.next = k + 1])
      PROVE  InstallInv'
  <2> USE DEF fixed
  <2>1. /\ pc' = (IF k < Len(Profiles) THEN "plan" ELSE "snapshot") /\ ended' = ended
        /\ mem' = [mem EXCEPT !.plans[k] = plan, !.next = k + 1]
    BY <1>5 DEF Go
  <2>2. resolve[k] \in ProfileFiles /\ (file # Absent => file \in Contents)
    BY <1>1 DEF Types, IsDisk
  <2>3. plan \in Plans /\ plan.snapshot = file /\ (plan.changed => plan.updated # Absent)
    BY <1>1, <1>5, <2>2, PlanType
  <2> HIDE DEF plan, file, k
  <2>4. k + 1 \in 1..(Len(Profiles) + 1)
    BY <1>1, Shape
  <2>5. /\ mem' \in Memory /\ mem'.next = k + 1 /\ mem'.plans = [mem.plans EXCEPT ![k] = plan]
        /\ mem'.committed = mem.committed /\ mem'.broken = mem.broken
        /\ mem'.changed = mem.changed /\ mem'.binary = mem.binary
    BY <1>1, <2>1, <2>3, <2>4 DEF Types, Memory
  <2>6. mem'.plans[k] = plan /\ \A j \in Indexes \ {k} : mem'.plans[j] = mem.plans[j]
    BY <1>1, <2>5 DEF Types, Memory
  <2>7. Types'
    <3>1. \A j \in Indexes : mem'.plans[j].changed => mem'.plans[j].updated # Absent
      BY <1>1, <2>3, <2>6 DEF Types
    <3>2. pc' \in {"plan", "snapshot"}
      BY <2>1
    <3> QED BY <1>1, <1>5, <2>1, <2>5, <3>1, <3>2 DEF Types
  <2>8. Stages'
    BY <1>1, <2>1, <2>4, <2>5, Shape DEF Stages, k
  <2>9. Calls'
    BY <1>1, <1>5 DEF Calls
  <2>10. Snapshots'
    <3>1. ASSUME NEW j \in Indexes, pc' = "plan" => j < mem'.next, resolve[j] \notin raced
          PROVE  mem'.plans[j].snapshot = before[resolve[j]]
      <4>1. CASE j = k
        BY <1>1, <1>2, <2>2, <2>3, <2>6, <3>1, <4>1 DEF file
      <4>2. CASE j # k
        <5>1. j < k
          BY <1>1, <2>1, <2>5, <3>1, <4>2, Shape
        <5> QED BY <1>1, <2>6, <3>1, <4>2, <5>1 DEF Snapshots, k
      <4> QED BY <4>1, <4>2
    <3> QED BY <1>1, <2>1, <3>1 DEF Snapshots
  <2>11. ASSUME NEW f \in ProfileFiles \ raced' PROVE ProfileUndone(f)'
    BY <1>1, <1>2, <2>1 DEF ProfileUndone
  <2>12. BinaryUndone'
    BY <1>1, <1>3, <2>1 DEF BinaryUndone
  <2> QED BY <2>7, <2>8, <2>9, <2>10, <2>11, <2>12
<1> QED BY <1>4, <1>5 DEF PlanProfile

\* A call of writeReaderAtomic begins: nothing is on the disk yet.
LEMMA CallKeeps ==
  ASSUME InstallInv, write.at = "idle", UNCHANGED <<fixed, raced, temps, userPath>>,
         NEW file \in Files, NEW data, NEW replace \in BOOLEAN, Call(file, data, replace),
         \/ pc = "copy" /\ file = Binary /\ data = Mm /\ replace = ReplaceFirst
            /\ disk[Binary] = before[Binary]
         \/ /\ pc = "update" /\ ~replace /\ Pending(mem.next) # {}
            /\ LET k == FirstOf(Pending(mem.next))
               IN  file = resolve[k] /\ data = mem.plans[k].updated
         \/ /\ pc = "roll back" /\ ~replace /\ mem.committed > 0
            /\ LET plan == mem.plans[mem.committed]
               IN  /\ plan.changed /\ plan.snapshot # Absent
                   /\ file = resolve[mem.committed] /\ data = plan.snapshot
         \/ /\ pc = "restore" /\ ~replace /\ mem.changed
            /\ mem.binary # Absent /\ file = Binary /\ data = mem.binary
  PROVE  InstallInv'
PROOF
<1> USE DEF fixed, Call
<1>1. /\ write'.at = "create" /\ write'.to = file /\ write'.data = data
      /\ write'.replace = replace
      /\ write' \in [at : Steps, to : Files, data : {write'.data}, replace : BOOLEAN]
  BY DEF Steps
<1>2. Types' BY <1>1 DEF InstallInv, Types
<1>3. Stages' BY DEF InstallInv, Stages
<1>4. Calls'
  <2>1. ReplaceFirst' = ReplaceFirst BY DEF ReplaceFirst
  <2>2. Pending(mem.next)' = Pending(mem.next) BY DEF Pending
  <2> QED BY <1>1, <2>1, <2>2 DEF Calls
<1>5. Snapshots' BY DEF InstallInv, Snapshots
<1>6. ASSUME NEW f \in ProfileFiles \ raced' PROVE ProfileUndone(f)'
  <2>1. ProfileUndone(f) BY DEF InstallInv
  <2> QED BY <1>1, <2>1 DEF ProfileUndone, Touched
<1>7. BinaryUndone'
  <2>1. BinaryUndone BY DEF InstallInv
  <2> QED BY <1>1, <2>1 DEF BinaryUndone
<1> QED BY <1>2, <1>3, <1>4, <1>5, <1>6, <1>7 DEF InstallInv

\* The snapshot of the binary is what was there.
LEMMA SnapshotBinaryKeeps ==
  ASSUME InstallInv, SnapshotBinary
  PROVE  InstallInv'
PROOF
<1>1. /\ pc = "snapshot" /\ write.at = "idle"
      /\ UNCHANGED <<fixed, raced, temps, disk, userPath>>
  BY DEF SnapshotBinary, Control, Running
<1>2. ~mem.broken /\ disk[Binary] = before[Binary] /\ IsDisk(disk) /\ mem \in Memory
  BY <1>1 DEF InstallInv, Stages, BinaryUndone, Types
<1>3. \A f \in ProfileFiles \ raced : disk[f] = before[f]
  BY <1>1, <1>2, Untouched
<1>4. CASE Return("failed")
  BY <1>1, <1>2, <1>3, <1>4, ReturnKeeps DEF InstallInv, Types
<1>5. ASSUME Go("copy", [mem EXCEPT !.binary = disk[Binary]]), UNCHANGED write
      PROVE  InstallInv'
  <2> USE DEF fixed
  <2>1. pc' = "copy" /\ ended' = ended /\ mem' = [mem EXCEPT !.binary = disk[Binary]]
    BY <1>5 DEF Go
  <2>2. /\ mem' \in Memory /\ mem'.binary = disk[Binary] /\ mem'.next = mem.next
        /\ mem'.plans = mem.plans /\ mem'.committed = mem.committed
        /\ mem'.broken = mem.broken /\ mem'.changed = mem.changed
    BY <1>2, <2>1 DEF Memory, IsDisk
  <2>3. Types' BY <1>1, <1>5, <2>1, <2>2 DEF InstallInv, Types
  <2>4. Stages' BY <1>1, <2>1, <2>2 DEF InstallInv, Stages
  <2>5. Calls' BY <1>1, <1>5 DEF Calls
  <2>6. Snapshots' BY <1>1, <1>2, <2>1, <2>2 DEF InstallInv, Snapshots
  <2>7. ASSUME NEW f \in ProfileFiles \ raced' PROVE ProfileUndone(f)'
    BY <1>1, <1>3, <2>1 DEF ProfileUndone
  <2>8. BinaryUndone' BY <1>1, <1>2, <1>5, <2>1 DEF BinaryUndone
  <2> QED BY <2>3, <2>4, <2>5, <2>6, <2>7, <2>8 DEF InstallInv
<1> QED BY <1>4, <1>5 DEF SnapshotBinary

\* After the copy the executable is in place, and the run knows whether it
\* changed it.
LEMMA CopiedKeeps ==
  ASSUME InstallInv, pc = "copy", NEW changed \in BOOLEAN, Copied(changed),
         UNCHANGED <<fixed, raced, temps, userPath>>, write'.at = "idle",
         write' \in [at : Steps, to : Files, data : {write'.data}, replace : BOOLEAN],
         IsDisk(disk'), \A f \in ProfileFiles : disk'[f] = disk[f],
         goos = "unix" => disk'[Binary] = Mm,
         ~changed => disk'[Binary] = before[Binary]
  PROVE  InstallInv'
PROOF
<1> USE DEF fixed
<1>1. /\ pc' = (IF goos = "unix" THEN "update" ELSE "configure") /\ ended' = ended
      /\ mem' = [mem EXCEPT !.changed = changed, !.next = 1]
  BY DEF Copied, Go
<1>2. mem \in Memory /\ ~mem.broken /\ ~(mem.committed > 0)
  BY DEF InstallInv, Types, Stages
<1>3. /\ mem' \in Memory /\ mem'.binary = mem.binary /\ mem'.plans = mem.plans
      /\ mem'.committed = mem.committed /\ mem'.broken = mem.broken /\ mem'.changed = changed
  <2>1. 1 \in 1..(Len(Profiles) + 1) BY Shape
  <2> QED BY <1>1, <1>2, <2>1 DEF Memory
<1>4. \A f \in ProfileFiles \ raced : disk'[f] = before[f]
  BY <1>2, Untouched
<1>5. Types' BY <1>1, <1>3 DEF InstallInv, Types
<1>6. Stages' BY <1>1, <1>2, <1>3 DEF InstallInv, Stages
<1>7. Calls' BY DEF Calls
<1>8. Snapshots'
  <2>1. pc' \in {"update", "configure"} /\ (pc' = "configure" => goos # "unix") BY <1>1
  <2> QED BY <1>3, <2>1 DEF InstallInv, Snapshots
<1>9. ASSUME NEW f \in ProfileFiles \ raced' PROVE ProfileUndone(f)'
  BY <1>1, <1>4 DEF ProfileUndone
<1>10. BinaryUndone'
  BY <1>1, <1>3 DEF BinaryUndone
<1> QED BY <1>5, <1>6, <1>7, <1>8, <1>9, <1>10 DEF InstallInv

\* The copy is skipped, only the execute bit is set, or the file is written.
LEMMA CopyExecutableKeeps ==
  ASSUME InstallInv, CopyExecutable
  PROVE  InstallInv'
PROOF
<1> DEFINE file == disk[Binary]
<1>1. /\ pc = "copy" /\ write.at = "idle" /\ UNCHANGED <<fixed, raced, temps, userPath>>
      /\ write \in [at : Steps, to : Files, data : {write.data}, replace : BOOLEAN]
  BY DEF CopyExecutable, Control, Running, InstallInv, Types
<1>2. /\ ~mem.broken /\ IsDisk(disk) /\ file \in Binaries \cup {Absent}
      /\ userPath \in BOOLEAN /\ (goos = "unix" => file \in {Mm, before[Binary]})
  BY <1>1 DEF InstallInv, Stages, BinaryUndone, Types, IsDisk
<1>3. file = before[Binary]
  BY <1>1 DEF InstallInv, BinaryUndone
<1>4. \A f \in ProfileFiles \ raced : disk[f] = before[f]
  BY <1>1, <1>2, Untouched
<1>5. CASE Same(file) /\ (goos = "unix" => file.exec) /\ Copied(FALSE) /\ UNCHANGED <<disk, write>>
  <2>1. goos = "unix" => file = Mm
    BY <1>2, <1>5, Shape DEF Same, Mm
  <2> QED BY <1>1, <1>2, <1>3, <1>5, <2>1, CopiedKeeps
<1>6. CASE /\ Same(file) /\ disk' = [disk EXCEPT ![Binary].exec = TRUE]
           /\ Copied(TRUE) /\ UNCHANGED write
  <2>1. [file EXCEPT !.exec = TRUE] = Mm
    BY <1>2, <1>6, Shape DEF Same, Mm, Binaries
  <2>2. disk' = [disk EXCEPT ![Binary] = Mm]
    BY <1>6, <2>1
  <2>3. /\ IsDisk(disk') /\ disk'[Binary] = Mm
        /\ \A f \in Files \ {Binary} : disk'[f] = disk[f]
    BY <1>2, <2>2, DiskExcept, Shape
  <2>4. \A f \in ProfileFiles : disk'[f] = disk[f]
    BY <2>3, Shape
  <2> QED BY <1>1, <1>6, <2>3, <2>4, CopiedKeeps
<1>7. CASE Call(Binary, Mm, ReplaceFirst)
  <2>1. ReplaceFirst \in BOOLEAN BY DEF ReplaceFirst
  <2> QED BY <1>1, <1>3, <1>7, <2>1, CallKeeps, Shape
<1>8. CASE Return("copy failed") /\ UNCHANGED disk
  BY <1>1, <1>2, <1>3, <1>4, <1>8, ReturnKeeps
<1> QED BY <1>5, <1>6, <1>7, <1>8 DEF CopyExecutable

\* The call for the executable returns.
LEMMA CopyReturnsKeeps ==
  ASSUME InstallInv, CopyReturns
  PROVE  InstallInv'
PROOF
<1>1. /\ pc = "copy" /\ UNCHANGED <<fixed, raced, temps, userPath, disk>>
      /\ write.at \in {"done", "failed"}
  BY DEF CopyReturns
<1>2. /\ ~mem.broken /\ IsDisk(disk) /\ userPath \in BOOLEAN
      /\ write.at = "done" => disk[Binary] = Mm
      /\ write.at # "done" /\ goos = "unix" => disk[Binary] = before[Binary]
      /\ goos = "unix" => disk[Binary] \in {Mm, before[Binary]}
  BY <1>1 DEF InstallInv, Stages, BinaryUndone, Types
<1>3. \A f \in ProfileFiles \ raced : disk[f] = before[f]
  BY <1>1, <1>2, Untouched
<1>4. CASE write.at = "done"
  <2>1. /\ Copied(TRUE) /\ write' = NoWrite /\ write'.at = "idle"
        /\ write' \in [at : Steps, to : Files, data : {write'.data}, replace : BOOLEAN]
    BY <1>4, NoWriteType DEF CopyReturns
  <2> QED BY <1>1, <1>2, <1>4, <2>1, CopiedKeeps
<1>5. CASE write.at # "done"
  <2>1. Return("copy failed") BY <1>1, <1>5 DEF CopyReturns
  <2> QED BY <1>1, <1>2, <1>3, <1>5, <2>1, ReturnKeeps
<1> QED BY <1>4, <1>5

-----------------------------------------------------------------------------
(* The profile updates of installUnix.                                     *)

\* The loop ends with success, or the next profile is written.
LEMMA UpdateProfileKeeps ==
  ASSUME InstallInv, UpdateProfile
  PROVE  InstallInv'
PROOF
<1> DEFINE k == FirstOf(Pending(mem.next))
<1>1. /\ pc = "update" /\ write.at = "idle"
      /\ UNCHANGED <<fixed, raced, temps, userPath>>
  BY DEF UpdateProfile, Control, Running
<1>2. /\ disk[Binary] = Mm /\ IsDisk(disk) /\ userPath \in BOOLEAN /\ mem \in Memory
      /\ goos = "unix" => disk[Binary] \in {Mm, before[Binary]}
  BY <1>1 DEF InstallInv, BinaryUndone, Types
<1>3. CASE Return("ok") /\ UNCHANGED disk
  BY <1>1, <1>2, <1>3, ReturnKeeps
<1>4. CASE Pending(mem.next) # {} /\ Call(resolve[k], mem.plans[k].updated, FALSE)
  <2>1. k \in Indexes BY <1>2, <1>4, NextPending
  <2>2. resolve[k] \in Files BY <2>1, Shape DEF InstallInv, Types
  <2> QED BY <1>1, <1>4, <2>2, CallKeeps
<1> QED BY <1>3, <1>4 DEF UpdateProfile

\* A profile that was written is one the rollback will look at.
LEMMA UpdateReturnsKeeps ==
  ASSUME InstallInv, UpdateReturns
  PROVE  InstallInv'
PROOF
<1> DEFINE k == FirstOf(Pending(mem.next))
<1> USE DEF fixed
<1>1. /\ pc = "update" /\ write.at \in {"done", "failed"} /\ write' = NoWrite
      /\ UNCHANGED <<fixed, disk, temps, userPath, raced>>
  BY DEF UpdateReturns
<1>2. /\ Pending(mem.next) # {} /\ write.to = resolve[k] /\ mem \in Memory /\ goos = "unix"
      /\ disk[Binary] = Mm /\ ~mem.broken
      /\ mem.committed > 0 => mem.committed < mem.next
  BY <1>1 DEF InstallInv, Calls, Types, Stages, BinaryUndone
<1>3. k \in Indexes /\ k >= mem.next /\ mem.plans[k].changed
  BY <1>2, NextPending
<1> HIDE DEF k
<1>4. Calls' BY <1>1, NoWriteType DEF Calls
<1>5. CASE write.at = "done"
  <2>1. pc' = "update" /\ ended' = ended /\ mem' = [mem EXCEPT !.committed = k, !.next = k + 1]
    BY <1>5 DEF UpdateReturns, Go, Committed, k
  <2>2. k \in 0..Len(Profiles) /\ k + 1 \in 1..(Len(Profiles) + 1) /\ k \in Nat
    BY <1>3, Shape
  <2>3. /\ mem' \in Memory /\ mem'.binary = mem.binary /\ mem'.plans = mem.plans
        /\ mem'.committed = k /\ mem'.broken = mem.broken /\ mem'.changed = mem.changed
        /\ mem'.next = k + 1
    BY <1>2, <2>1, <2>2 DEF Memory
  <2>4. Types' BY <1>1, <2>1, <2>3, NoWriteType DEF InstallInv, Types
  <2>5. Stages' BY <1>1, <1>2, <2>1, <2>2, <2>3 DEF InstallInv, Stages
  <2>6. Snapshots' BY <1>1, <2>1, <2>3 DEF InstallInv, Snapshots
  <2>7. ASSUME NEW f \in ProfileFiles \ raced' PROVE ProfileUndone(f)'
    <3>1. CASE f = write.to
      <4>1. k \in 1..mem'.committed /\ mem'.plans[k].changed /\ resolve'[k] = f
        BY <1>1, <1>2, <1>3, <2>2, <2>3, <3>1, Shape
      <4> QED BY <2>1, <4>1 DEF ProfileUndone, Touched
    <3>2. CASE f # write.to
      <4>1. disk[f] = before[f] \/ Touched(f)
        BY <1>1 DEF InstallInv, ProfileUndone
      <4>2. Touched(f) => \E j \in 1..mem.committed : mem.plans[j].changed /\ resolve[j] = f
        BY <1>2, <3>2 DEF Touched
      <4>3. 1..mem.committed \subseteq 1..mem'.committed
        BY <1>2, <1>3, <2>2, <2>3, MemoryTypes
      <4> QED BY <1>1, <2>1, <2>3, <4>1, <4>2, <4>3 DEF ProfileUndone, Touched
    <3> QED BY <3>1, <3>2
  <2>8. BinaryUndone' BY <1>1, <1>2, <2>1, <2>3 DEF InstallInv, BinaryUndone
  <2> QED BY <1>4, <2>4, <2>5, <2>6, <2>7, <2>8 DEF InstallInv
<1>6. CASE write.at # "done"
  <2>1. pc' = "roll back" /\ ended' = ended /\ mem' = mem
    BY <1>6 DEF UpdateReturns, Go, Rollback
  <2>2. Types' BY <1>1, <2>1, NoWriteType DEF InstallInv, Types
  <2>3. Stages' BY <1>1, <1>2, <2>1 DEF InstallInv, Stages
  <2>4. Snapshots' BY <1>1, <2>1 DEF InstallInv, Snapshots
  <2>5. ASSUME NEW f \in ProfileFiles \ raced' PROVE ProfileUndone(f)'
    <3>1. disk[f] = before[f] \/ Touched(f)
      BY <1>1 DEF InstallInv, ProfileUndone
    <3> QED BY <1>1, <1>6, <2>1, <3>1, NoWriteType DEF ProfileUndone, Touched
  <2>6. BinaryUndone' BY <1>1, <1>2, <2>1 DEF InstallInv, BinaryUndone
  <2> QED BY <1>4, <2>2, <2>3, <2>4, <2>5, <2>6 DEF InstallInv
<1> QED BY <1>5, <1>6

-----------------------------------------------------------------------------
(* rollbackUnixInstall.                                                    *)

\* The loop counts down.
LEMMA Predecessor ==
  ASSUME NEW k \in Indexes, NEW n \in 1..(Len(Profiles) + 1), k < n
  PROVE  /\ k \in Nat /\ n \in Nat /\ k - 1 \in 0..Len(Profiles) /\ k - 1 < n
         /\ \A j \in 1..k : j = k \/ j \in 1..(k - 1)
BY Shape

\* A step of the loop: the last profile that was written is as it was, or the
\* failure is noted.
LEMMA UndoneKeeps ==
  ASSUME InstallInv, pc = "roll back", mem.committed > 0, NEW broken \in BOOLEAN,
         mem.broken => broken,
         Go("roll back", [Undone EXCEPT !.broken = broken]), write'.at = "idle",
         write' \in [at : Steps, to : Files, data : {write'.data}, replace : BOOLEAN],
         UNCHANGED <<fixed, raced, temps, userPath>>, IsDisk(disk'),
         \A f \in Files \ {resolve[mem.committed]} : disk'[f] = disk[f],
         \/ ~mem.plans[mem.committed].changed /\ disk' = disk
         \/ broken
         \/ resolve[mem.committed] \in raced
         \/ disk'[resolve[mem.committed]] = before[resolve[mem.committed]]
  PROVE  InstallInv'
PROOF
<1> DEFINE k == mem.committed
<1> USE DEF fixed
<1>0. mem \in Memory /\ goos = "unix" /\ k < mem.next
  BY DEF InstallInv, Types, Stages
<1>1. k \in Indexes /\ mem.next \in 1..(Len(Profiles) + 1)
  BY <1>0, MemoryTypes
<1>2. pc' = "roll back" /\ ended' = ended /\ mem' = [Undone EXCEPT !.broken = broken]
  BY DEF Go
<1>3. /\ k - 1 \in 0..Len(Profiles) /\ k - 1 < mem.next
      /\ \A j \in 1..k : j = k \/ j \in 1..(k - 1)
  BY <1>0, <1>1, Predecessor, Zenon
<1>4. /\ mem' \in Memory /\ mem'.binary = mem.binary /\ mem'.plans = mem.plans
      /\ mem'.committed = k - 1 /\ mem'.broken = broken /\ mem'.changed = mem.changed
      /\ mem'.next = mem.next
  BY <1>0, <1>1, <1>2, <1>3 DEF Memory, Undone
<1>5. resolve[k] \in ProfileFiles /\ Binary \in Files \ {resolve[k]}
  BY ZenonT(60), <1>1, Shape DEF InstallInv, Types
<1>6. Types' BY <1>2, <1>4 DEF InstallInv, Types
<1>7. Stages' BY <1>0, <1>2, <1>3, <1>4 DEF InstallInv, Stages
<1>8. Calls' BY DEF Calls
<1>9. Snapshots' BY <1>2, <1>4 DEF InstallInv, Snapshots
<1>10. ASSUME NEW f \in ProfileFiles \ raced' PROVE ProfileUndone(f)'
  <2>1. disk[f] = before[f] \/ Touched(f)
    BY DEF InstallInv, ProfileUndone
  <2>2. f \in Files BY Shape
  <2>3. CASE f = resolve[k] /\ mem.plans[k].changed
    BY <1>2, <1>4, <2>3 DEF ProfileUndone, Touched
  <2>4. CASE f # resolve[k] \/ ~mem.plans[k].changed
    <3>1. disk'[f] = disk[f] \/ broken \/ disk'[f] = before[f]
      BY <2>2, <2>4
    <3>2. \A j \in 1..k : mem.plans[j].changed /\ resolve[j] = f => j \in 1..(k - 1)
      BY <1>3, <2>4
    <3>3. Touched(f) =>
            mem.broken \/ \E j \in 1..(k - 1) : mem.plans[j].changed /\ resolve[j] = f
      BY <3>2 DEF Touched
    <3> HIDE DEF k
    <3>4. broken \/ disk'[f] = before[f]
            \/ \E j \in 1..(k - 1) : mem.plans[j].changed /\ resolve[j] = f
      BY <2>1, <3>1, <3>3
    <3> QED BY <1>2, <1>4, <3>4 DEF ProfileUndone, Touched
  <2> QED BY <2>3, <2>4
<1>11. BinaryUndone'
  <2>1. disk'[Binary] = disk[Binary] BY <1>5
  <2> QED BY <1>2, <1>4, <2>1 DEF InstallInv, BinaryUndone
<1> QED BY <1>6, <1>7, <1>8, <1>9, <1>10, <1>11 DEF InstallInv

\* restoreSnapshot of one profile begins, or is done when it removes the file.
LEMMA RollBackProfileKeeps ==
  ASSUME InstallInv, RollBackProfile
  PROVE  InstallInv'
PROOF
<1> DEFINE k == mem.committed
<1> DEFINE file == resolve[k]
<1> DEFINE snapshot == mem.plans[k].snapshot
<1>1. /\ pc = "roll back" /\ write.at = "idle" /\ k > 0
      /\ UNCHANGED <<fixed, raced, temps, userPath>>
      /\ write \in [at : Steps, to : Files, data : {write.data}, replace : BOOLEAN]
  BY DEF RollBackProfile, Control, Running, InstallInv, Types
<1>2. /\ mem \in Memory /\ k \in Indexes /\ mem.broken \in BOOLEAN
      /\ goos = "unix" /\ IsDisk(disk)
  BY <1>1, MemoryTypes DEF InstallInv, Types, Stages
<1>3. file \in ProfileFiles /\ file \in Files /\ file # Binary
  BY <1>2, Shape DEF InstallInv, Types
<1>4. file \in raced \/ snapshot = before[file]
  BY <1>1, <1>2 DEF InstallInv, Snapshots
<1>5. CASE ~mem.plans[k].changed /\ Go("roll back", Undone) /\ UNCHANGED <<disk, write>>
  <2>1. Undone = [Undone EXCEPT !.broken = mem.broken]
    BY <1>2 DEF Undone, Memory
  <2> QED BY <1>1, <1>2, <1>5, <2>1, UndoneKeeps
<1>6. CASE mem.plans[k].changed /\ snapshot # Absent /\ Call(file, snapshot, FALSE)
  BY <1>1, <1>3, <1>6, CallKeeps
<1>7. ASSUME mem.plans[k].changed, snapshot = Absent, NEW ok \in BOOLEAN, RemoveFile(file, ok),
             Go("roll back", [Undone EXCEPT !.broken = @ \/ ~ok]), UNCHANGED write
      PROVE  InstallInv'
  <2>1. Undone.broken = mem.broken /\ (mem.broken \/ ~ok) \in BOOLEAN
    BY <1>2 DEF Undone, Memory
  <2>2. Go("roll back", [Undone EXCEPT !.broken = mem.broken \/ ~ok])
    BY <1>7, <2>1
  <2>3. CASE ok
    <3>1. disk' = [disk EXCEPT ![file] = Absent] BY <1>7, <2>3 DEF RemoveFile
    <3>2. /\ IsDisk(disk') /\ disk'[file] = Absent
          /\ \A f \in Files \ {file} : disk'[f] = disk[f]
      BY <1>2, <1>3, <3>1, DiskExcept
    <3>3. file \in raced \/ disk'[file] = before[file]
      BY <1>4, <1>7, <3>2
    <3> QED BY <1>1, <1>7, <2>1, <2>2, <3>2, <3>3, UndoneKeeps
  <2>4. CASE ~ok
    <3>1. disk' = disk BY <1>7, <2>4 DEF RemoveFile
    <3> QED BY <1>1, <1>2, <1>7, <2>1, <2>2, <2>4, <3>1, UndoneKeeps
  <2> QED BY <2>3, <2>4
<1> QED BY <1>5, <1>6, <1>7 DEF RollBackProfile, Restore

\* restoreSnapshot of one profile returns.
LEMMA RollBackReturnsKeeps ==
  ASSUME InstallInv, RollBackReturns
  PROVE  InstallInv'
PROOF
<1> DEFINE k == mem.committed
<1> DEFINE failed == write.at = "failed"
<1>1. /\ pc = "roll back" /\ write.at \in {"done", "failed"} /\ write' = NoWrite
      /\ UNCHANGED <<fixed, raced, temps, userPath, disk>>
      /\ Go("roll back", [Undone EXCEPT !.broken = @ \/ failed])
  BY DEF RollBackReturns
<1>2. /\ mem \in Memory /\ IsDisk(disk) /\ k > 0 /\ write.to = resolve[k]
  BY <1>1 DEF InstallInv, Types, Calls
<1>3. Undone.broken = mem.broken /\ (mem.broken \/ failed) \in BOOLEAN
  BY <1>2 DEF Undone, Memory
<1>4. Go("roll back", [Undone EXCEPT !.broken = mem.broken \/ failed])
  BY <1>1, <1>3
<1>5. resolve[k] \in ProfileFiles
  BY <1>2, MemoryTypes DEF InstallInv, Types
<1>6. failed \/ resolve[k] \in raced \/ disk[resolve[k]] = before[resolve[k]]
  BY <1>1, <1>2, <1>5 DEF InstallInv, ProfileUndone
<1> QED BY <1>1, <1>2, <1>3, <1>4, <1>6, NoWriteType, UndoneKeeps

\* All profiles are done with.
LEMMA ProfilesRestoredKeeps ==
  ASSUME InstallInv, ProfilesRestored
  PROVE  InstallInv'
PROOF
<1> USE DEF fixed
<1>1. /\ pc = "roll back" /\ write.at = "idle" /\ mem.committed = 0
      /\ UNCHANGED <<fixed, raced, temps, disk, userPath, write>>
      /\ pc' = "restore" /\ mem' = mem /\ ended' = ended
  BY DEF ProfilesRestored, Control, Running, Go
<1>2. 1..mem.committed = {} /\ ~(mem.committed > 0)
  <2>1. mem.committed = 0 BY <1>1
  <2> QED BY <2>1
<1>3. Types' BY <1>1 DEF InstallInv, Types
<1>4. Stages' BY <1>1, <1>2 DEF InstallInv, Stages
<1>5. Calls' BY <1>1 DEF Calls
<1>6. Snapshots' BY <1>1 DEF InstallInv, Snapshots
<1>7. ASSUME NEW f \in ProfileFiles \ raced' PROVE ProfileUndone(f)'
  <2>1. disk[f] = before[f] \/ mem.broken
    BY <1>1, <1>2 DEF InstallInv, ProfileUndone, Touched
  <2> QED BY <1>1, <2>1 DEF ProfileUndone, Touched
<1>8. BinaryUndone' BY <1>1 DEF InstallInv, BinaryUndone
<1> QED BY <1>3, <1>4, <1>5, <1>6, <1>7, <1>8 DEF InstallInv

-----------------------------------------------------------------------------
(* The Windows user PATH, and the restoration of the binary.               *)

\* PowerShell succeeds, or the binary is restored.
LEMMA ConfigurePathKeeps ==
  ASSUME InstallInv, ConfigurePath
  PROVE  InstallInv'
PROOF
<1>1. /\ pc = "configure" /\ write.at = "idle" /\ UNCHANGED <<fixed, raced, temps, disk>>
  BY DEF ConfigurePath, Control, Running
<1>2. /\ ~mem.broken /\ IsDisk(disk) /\ goos # "unix" /\ userPath \in BOOLEAN
  BY <1>1 DEF InstallInv, Stages, Types
<1>3. \A f \in ProfileFiles \ raced : disk[f] = before[f]
  BY <1>1, <1>2, Untouched
<1>4. CASE userPath' = TRUE /\ Return("ok")
  BY <1>1, <1>2, <1>3, <1>4, ReturnKeeps
<1>5. CASE Go("restore", mem) /\ UNCHANGED <<userPath, write>>
  <2> USE DEF fixed
  <2>1. pc' = "restore" /\ mem' = mem /\ ended' = ended BY <1>5 DEF Go
  <2>2. Types' BY <1>1, <1>5, <2>1 DEF InstallInv, Types
  <2>3. Stages' BY <1>1, <2>1 DEF InstallInv, Stages
  <2>4. Calls' BY <1>1, <1>5 DEF Calls
  <2>5. Snapshots' BY <1>1, <1>2, <2>1 DEF InstallInv, Snapshots
  <2>6. ASSUME NEW f \in ProfileFiles \ raced' PROVE ProfileUndone(f)'
    BY <1>1, <1>3, <2>1 DEF ProfileUndone
  <2>7. BinaryUndone' BY <1>1, <1>2, <1>5, <2>1 DEF InstallInv, BinaryUndone
  <2> QED BY <2>2, <2>3, <2>4, <2>5, <2>6, <2>7 DEF InstallInv
<1> QED BY <1>4, <1>5 DEF ConfigurePath

\* The run ends as the failure it is, with the binary as it was or a word
\* about the rollback.
LEMMA FailureKeeps ==
  ASSUME InstallInv, pc = "restore", NEW broken \in BOOLEAN, mem.broken => broken,
         Return(Failure(broken)), UNCHANGED <<fixed, raced, temps, userPath>>,
         IsDisk(disk'), \A f \in ProfileFiles : disk'[f] = disk[f],
         goos = "unix" => disk'[Binary] \in {Mm, before[Binary]},
         broken \/ disk'[Binary] = before[Binary]
  PROVE  InstallInv'
PROOF
<1>1. userPath' \in BOOLEAN
  BY DEF InstallInv, Types
<1>2. CASE broken
  <2>1. Return("rollback failed") BY <1>2 DEF Failure
  <2> QED BY <1>1, <2>1, ReturnKeeps
<1>3. CASE ~broken
  <2>1. Return("failed") BY <1>3 DEF Failure
  <2>2. \A f \in ProfileFiles \ raced : disk'[f] = before[f]
    BY <1>3, Untouched
  <2> QED BY <1>1, <1>3, <2>1, <2>2, ReturnKeeps
<1> QED BY <1>2, <1>3

\* restoreSnapshot of the binary begins, is not needed, or is done when it
\* removes the file.
LEMMA RestoreBinaryKeeps ==
  ASSUME InstallInv, RestoreBinary
  PROVE  InstallInv'
PROOF
<1>1. /\ pc = "restore" /\ write.at = "idle" /\ UNCHANGED <<fixed, raced, temps, userPath>>
  BY DEF RestoreBinary, Control, Running
<1>2. /\ IsDisk(disk) /\ mem.broken \in BOOLEAN /\ mem.binary = before[Binary]
      /\ ~mem.changed => disk[Binary] = before[Binary]
      /\ goos = "unix" => disk[Binary] \in {Mm, before[Binary]}
  BY <1>1, MemoryTypes DEF InstallInv, Types, Snapshots, BinaryUndone
<1>3. CASE ~mem.changed /\ Return(Failure(mem.broken)) /\ UNCHANGED disk
  BY <1>1, <1>2, <1>3, FailureKeeps
<1>4. CASE mem.changed /\ mem.binary # Absent /\ Call(Binary, mem.binary, FALSE)
  BY <1>1, <1>4, CallKeeps, Shape
<1>5. ASSUME mem.binary = Absent, NEW ok \in BOOLEAN, RemoveFile(Binary, ok),
             Return(Failure(mem.broken \/ ~ok))
      PROVE  InstallInv'
  <2>1. (mem.broken \/ ~ok) \in BOOLEAN OBVIOUS
  <2>2. CASE ok
    <3>1. disk' = [disk EXCEPT ![Binary] = Absent] BY <1>5, <2>2 DEF RemoveFile
    <3>2. /\ IsDisk(disk') /\ disk'[Binary] = Absent
          /\ \A f \in Files \ {Binary} : disk'[f] = disk[f]
      BY <1>2, <3>1, DiskExcept, Shape
    <3>3. \A f \in ProfileFiles : disk'[f] = disk[f] BY <3>2, Shape
    <3>4. disk'[Binary] = before[Binary] BY <1>2, <1>5, <3>2
    <3> QED BY <1>1, <1>5, <2>1, <3>2, <3>3, <3>4, FailureKeeps
  <2>3. CASE ~ok
    <3>1. disk' = disk BY <1>5, <2>3 DEF RemoveFile
    <3> QED BY <1>1, <1>2, <1>5, <2>1, <2>3, <3>1, FailureKeeps
  <2> QED BY <2>2, <2>3
<1> QED BY <1>3, <1>4, <1>5 DEF RestoreBinary

\* restoreSnapshot of the binary returns.
LEMMA RestoreReturnsKeeps ==
  ASSUME InstallInv, RestoreReturns
  PROVE  InstallInv'
PROOF
<1> DEFINE failed == write.at = "failed"
<1>1. /\ pc = "restore" /\ write.at \in {"done", "failed"}
      /\ UNCHANGED <<fixed, raced, temps, userPath, disk>>
      /\ Return(Failure(mem.broken \/ failed))
  BY DEF RestoreReturns
<1>2. /\ IsDisk(disk) /\ (mem.broken \/ failed) \in BOOLEAN
      /\ failed \/ disk[Binary] = before[Binary]
      /\ goos = "unix" => disk[Binary] \in {Mm, before[Binary]}
  BY <1>1 DEF InstallInv, Types, BinaryUndone
<1> QED BY <1>1, <1>2, FailureKeeps

-----------------------------------------------------------------------------
(* Death, and the user.                                                    *)

\* A killed run has touched a profile only while its executable is in place.
LEMMA KillKeeps ==
  ASSUME InstallInv, Kill
  PROVE  InstallInv'
PROOF
<1>1. /\ pc # "off" /\ UNCHANGED <<fixed, raced, temps, userPath, disk>>
      /\ Return(IF mem.broken THEN "rollback failed" ELSE "killed")
  BY DEF Kill
<1>2. /\ IsDisk(disk) /\ userPath \in BOOLEAN
      /\ goos = "unix" => disk[Binary] \in {Mm, before[Binary]}
      /\ pc \in {"update", "roll back"} => disk[Binary] = Mm
      /\ pc \in {"plan", "snapshot", "copy", "update", "roll back", "configure", "restore"}
  BY <1>1 DEF InstallInv, Types, BinaryUndone
<1>3. CASE mem.broken
  <2>1. Return("rollback failed") BY <1>1, <1>3
  <2> QED BY <1>1, <1>2, <2>1, ReturnKeeps
<1>4. CASE ~mem.broken
  <2>1. Return("killed") BY <1>1, <1>4
  <2>2. \A f \in ProfileFiles \ raced : disk[f] = before[f] \/ disk[Binary] = Mm
    BY <1>2, <1>4, Untouched
  <2> QED BY <1>1, <1>2, <2>1, <2>2, ReturnKeeps
<1> QED BY <1>3, <1>4

\* An edit is part of what would be there without the run, and a profile that
\* is edited after it was planned is set aside.
LEMMA EditKeeps ==
  ASSUME InstallInv, NEW f \in ProfileFiles, Edit(f)
  PROVE  InstallInv'
PROOF
<1> USE DEF InstallInv
<1>1. PICK text \in Texts :
        /\ disk' = [disk EXCEPT ![f] = Data(disk[f]) \o <<text, Newline>>]
        /\ before' = [before EXCEPT ![f] = Data(before[f]) \o <<text, Newline>>]
  BY DEF Edit
<1>2. /\ raced' = IF Planned(f) THEN raced \cup {f} ELSE raced
      /\ UNCHANGED <<goos, resolve, temps, userPath, pc, mem, write, ended>>
  BY DEF Edit
<1>3. f \in Files /\ f # Binary /\ IsDisk(disk) /\ IsDisk(before)
  BY Shape DEF Types
<1>4. \A file : (file # Absent => file \in Contents) =>
        Data(file) \o <<text, Newline>> \in Contents
  <2> SUFFICES ASSUME NEW file, file # Absent => file \in Contents
               PROVE  Data(file) \o <<text, Newline>> \in Contents
    OBVIOUS
  <2>1. Data(file) \in Contents BY EmptySeq DEF Data, Contents
  <2>2. <<text, Newline>> \in Contents BY DEF Contents
  <2> QED BY <2>1, <2>2, ConcatProperties DEF Contents
<1>5. /\ Data(disk[f]) \o <<text, Newline>> \in Contents
      /\ Data(before[f]) \o <<text, Newline>> \in Contents
  BY <1>3, <1>4 DEF IsDisk
<1>6. /\ IsDisk(disk') /\ disk'[f] = Data(disk[f]) \o <<text, Newline>>
      /\ \A g \in Files \ {f} : disk'[g] = disk[g]
  BY <1>1, <1>3, <1>5, DiskExcept
<1>7. /\ IsDisk(before') /\ before'[f] = Data(before[f]) \o <<text, Newline>>
      /\ \A g \in Files \ {f} : before'[g] = before[g]
  BY <1>1, <1>3, <1>5, Shape DEF IsDisk, Files
<1>8. disk'[Binary] = disk[Binary] /\ before'[Binary] = before[Binary]
  BY <1>3, <1>6, <1>7, Shape
<1>9. disk[f] = before[f] => disk'[f] = before'[f]
  BY <1>6, <1>7
<1>10. Types' BY <1>2, <1>6, <1>7 DEF Types
<1>11. Stages' BY <1>2 DEF Stages
<1>12. Calls'
  <2>1. ReplaceFirst' = ReplaceFirst BY <1>2 DEF ReplaceFirst
  <2>2. Pending(mem.next)' = Pending(mem.next) BY <1>2 DEF Pending
  <2> QED BY <1>2, <2>1, <2>2 DEF Calls
<1>13. Snapshots'
  <2>1. ASSUME NEW k \in Indexes, goos = "unix", pc # "off", pc = "plan" => k < mem.next,
               resolve[k] \notin raced'
        PROVE  mem.plans[k].snapshot = before'[resolve[k]]
    <3>1. resolve[k] # f
      BY <1>2, <2>1 DEF Planned
    <3>2. resolve[k] \in Files \ {f} /\ resolve[k] \notin raced
      BY <1>2, <2>1, <3>1, Shape DEF Types
    <3> QED BY <1>7, <2>1, <3>2 DEF Snapshots
  <2> QED BY <1>2, <1>8, <2>1 DEF Snapshots
<1>14. ASSUME NEW g \in ProfileFiles \ raced' PROVE ProfileUndone(g)'
  <2>1. ProfileUndone(g) /\ g \in Files
    BY <1>2, Shape
  <2>2. CASE g # f
    <3>1. disk'[g] = disk[g] /\ before'[g] = before[g] BY <1>6, <1>7, <2>1, <2>2
    <3> QED BY <1>2, <1>8, <2>1, <3>1 DEF ProfileUndone, Touched
  <2>3. CASE g = f
    BY <1>2, <1>8, <1>9, <2>1, <2>3 DEF ProfileUndone, Touched
  <2> QED BY <2>2, <2>3
<1>15. BinaryUndone' BY <1>2, <1>8 DEF BinaryUndone
<1> QED BY <1>10, <1>11, <1>12, <1>13, <1>14, <1>15

-----------------------------------------------------------------------------
(* Theorems.                                                               *)

\* The invariant holds of a disk no installer has touched.
LEMMA Init_InstallInv == Init => InstallInv
PROOF
<1> SUFFICES ASSUME Init PROVE InstallInv
  OBVIOUS
<1> USE DEF Init
<1>1. IsDisk(disk) /\ IsDisk(before) /\ resolve \in [Indexes -> ProfileFiles]
  BY MMInstallAssumption
<1>2. /\ mem \in Memory /\ ~(mem.committed > 0) /\ mem.broken = FALSE
      /\ \A k \in Indexes : mem.plans[k].changed = FALSE
  <2>1. mem = Fresh OBVIOUS
  <2>2. Fresh.broken = FALSE /\ \A k \in Indexes : Fresh.plans[k].changed = FALSE
    BY DEF Fresh, NoPlan
  <2> QED BY <2>1, <2>2, Shape, Zenon
<1>3. Types BY <1>1, <1>2, NoWriteType DEF Types
<1>4. Stages BY <1>2 DEF Stages
<1>5. Calls BY NoWriteType DEF Calls
<1>6. Snapshots BY DEF Snapshots
<1>7. ASSUME NEW f \in ProfileFiles \ raced PROVE ProfileUndone(f)
  BY DEF ProfileUndone
<1>8. BinaryUndone BY DEF BinaryUndone
<1> QED BY <1>3, <1>4, <1>5, <1>6, <1>7, <1>8 DEF InstallInv

\* The invariant is inductive.
LEMMA Next_InstallInv == InstallInv /\ [Next]_vars => InstallInv'
PROOF
<1> SUFFICES ASSUME InstallInv, [Next]_vars PROVE InstallInv'
  OBVIOUS
<1>1. CASE StartInstall BY <1>1, StartInstallKeeps
<1>2. CASE Install
  BY <1>2, PlanProfileKeeps, SnapshotBinaryKeeps, CopyExecutableKeeps, CopyReturnsKeeps,
     WriteAtomicKeeps, UpdateProfileKeeps, UpdateReturnsKeeps, RollBackProfileKeeps,
     RollBackReturnsKeeps, ProfilesRestoredKeeps, ConfigurePathKeeps, RestoreBinaryKeeps,
     RestoreReturnsKeeps
     DEF Install
<1>3. CASE Kill BY <1>3, KillKeeps
<1>4. CASE \E f \in ProfileFiles : Edit(f) BY <1>4, EditKeeps
<1>5. CASE UNCHANGED vars
  <2> USE <1>5 DEF vars, InstallInv
  <2>1. Types' BY DEF Types
  <2>2. Stages' BY DEF Stages
  <2>3. Calls' BY DEF Calls, Pending, ReplaceFirst
  <2>4. Snapshots' BY DEF Snapshots
  <2>5. ASSUME NEW f \in ProfileFiles \ raced' PROVE ProfileUndone(f)'
    BY DEF ProfileUndone, Touched
  <2>6. BinaryUndone' BY DEF BinaryUndone
  <2> QED BY <2>1, <2>2, <2>3, <2>4, <2>5, <2>6
<1> QED BY <1>1, <1>2, <1>3, <1>4, <1>5 DEF Next

\* What each stage of an install has done to the disk.
THEOREM InstallFollowsItsPlan == Spec => []InstallInv
PROOF
<1>1. Init => InstallInv BY Init_InstallInv
<1>2. InstallInv /\ [Next]_vars => InstallInv' BY Next_InstallInv
<1> QED BY <1>1, <1>2, PTL DEF Spec

\* The disk stays a disk: what planProfileBlock computes is a profile again,
\* and a call in progress writes an executable or a profile, where it belongs.
THEOREM InstallTypes == Spec => []TypeOK
PROOF
<1>1. InstallInv => TypeOK
  <2> SUFFICES ASSUME InstallInv PROVE TypeOK
    OBVIOUS
  <2>1. Types /\ Stages BY DEF InstallInv
  <2>2. mem.next \in 1..(Len(Profiles) + 1) /\ mem.committed \in 0..Len(Profiles)
    BY <2>1, MemoryTypes DEF Types
  <2>3. write.at # "idle" =>
          /\ pc \in {"copy", "update", "roll back", "restore"}
          /\ write.data # Absent
          /\ write.to = Binary <=> pc \in {"copy", "restore"}
    BY CallTypes
  <2> QED BY <2>1, <2>2, <2>3 DEF TypeOK, Types, Stages, IsDisk
<1> QED BY <1>1, InstallFollowsItsPlan, PTL

\* A run that fails and says nothing of its rollback has left every file as it
\* would be without it, whichever call failed, whatever paths are links to one
\* file, and whatever the user edits meanwhile (rollbackUnixInstall).
THEOREM FailedInstallsRestore == Spec => []FailureRestores
PROOF
<1>1. InstallInv => FailureRestores
  BY DEF FailureRestores, InstallInv, ProfileUndone, BinaryUndone, Files
<1> QED BY <1>1, InstallFollowsItsPlan, PTL

\* On Unix a binary that is there stays there (writeReaderAtomic).
THEOREM BinaryIsNeverMissing == Spec => []BinaryStays
PROOF
<1>1. InstallInv => BinaryStays
  <2>1. Mm # Absent BY Shape
  <2> QED BY <2>1 DEF BinaryStays, InstallInv, BinaryUndone
<1> QED BY <1>1, InstallFollowsItsPlan, PTL

\* A block a run added is there only with its executable (installUnix).
THEOREM BlocksHaveTheirBinary == Spec => []BlockNeedsBinary
PROOF
<1>1. InstallInv => BlockNeedsBinary
  <2> SUFFICES ASSUME InstallInv, NEW k \in Indexes,
                      disk[resolve[k]] # before[resolve[k]],
                      ~mem.broken, ended # "rollback failed", raced = {}
               PROVE  disk[Binary] = Mm
    BY DEF BlockNeedsBinary, Configures, Data
  <2> DEFINE f == resolve[k]
  <2>1. f \in ProfileFiles \ raced BY DEF InstallInv, Types
  <2>2. ProfileUndone(f) BY <2>1 DEF InstallInv
  <2>3. CASE pc = "off" BY <2>2, <2>3 DEF ProfileUndone
  <2>4. CASE pc \in {"update", "roll back"} BY <2>4 DEF InstallInv, BinaryUndone
  <2>5. CASE pc \in {"plan", "snapshot", "copy", "configure", "restore"}
    BY <2>1, <2>5, Untouched
  <2> QED BY <2>3, <2>4, <2>5 DEF InstallInv, Types
<1> QED BY <1>1, InstallFollowsItsPlan, PTL

-----------------------------------------------------------------------------
(***************************************************************************)
(* What mm --install makes of the profiles: a success installs every       *)
(* block, no profile gets a second one, a run that finds everything        *)
(* installed changes nothing, and the user's text is kept.                 *)
(***************************************************************************)

-----------------------------------------------------------------------------
(* Contents of a profile.                                                  *)

\* The body stands between the markers at place i.
BlockAt(data, body, i) ==
  /\ i \in 1..Len(data) /\ i + 2 \in 1..Len(data)
  /\ data[i] = Start /\ data[i + 1] = body /\ data[i + 2] = End

\* One start marker before one end marker, or neither.
MarkedAt(data, s, e) ==
  /\ s \in 1..Len(data) /\ e \in 1..Len(data) /\ s < e
  /\ \A i \in 1..Len(data) : (data[i] = Start <=> i = s) /\ (data[i] = End <=> i = e)

NoMarks(data) == \A i \in 1..Len(data) : data[i] # Start /\ data[i] # End
Single(data)  == NoMarks(data) \/ \E s, e \in 1..Len(data) : MarkedAt(data, s, e)

\* A file that planProfileBlock refuses, or that has at most one block.
Tidy(file) == Incomplete(Data(file)) \/ Single(Data(file))

\* Neither users nor block bodies write the markers.
MarkersApart == Start \notin Texts \cup Bodies /\ End \notin Texts \cup Bodies

OneBlockAtFirst ==
  \A platform \in DOMAIN FirstDisks : \A d \in FirstDisks[platform] :
    \A f \in ProfileFiles : Tidy(d[f])

\* The length and the elements of contents.
LEMMA ContentsShape ==
  ASSUME NEW data \in Contents
  PROVE  /\ Len(data) \in Nat
         /\ \A i \in 1..Len(data) : data[i] \in Texts \cup Bodies \cup {Start, End, Newline}
         /\ DOMAIN data = 1..Len(data)
BY ElementOfSeq, LenProperties DEF Contents

\* A file that is there is its contents.
LEMMA DataShape ==
  ASSUME NEW file, file # Absent => file \in Contents
  PROVE  /\ Data(file) \in Contents /\ (file # Absent => Data(file) = file)
         /\ (file = Absent => Data(file) = <<>> /\ Len(Data(file)) = 0 /\ Single(Data(file)))
PROOF
<1>1. <<>> \in Contents /\ Len(<<>>) = 0
  BY EmptySeq DEF Contents
<1>2. NoMarks(<<>>)
  BY <1>1 DEF NoMarks
<1> QED BY <1>1, <1>2 DEF Data, Single

\* The elements of a concatenation.
LEMMA ConcatShape ==
  ASSUME NEW a \in Contents, NEW b \in Contents
  PROVE  /\ a \o b \in Contents /\ Len(a \o b) = Len(a) + Len(b)
         /\ Len(a) \in Nat /\ Len(b) \in Nat
         /\ \A i \in 1..Len(a) : (a \o b)[i] = a[i]
         /\ \A i \in 1..Len(b) : (a \o b)[Len(a) + i] = b[i]
PROOF
<1> DEFINE T == Texts \cup Bodies \cup {Start, End, Newline}
<1>1. a \in Seq(T) /\ b \in Seq(T)
  BY DEF Contents
<1>2. /\ a \o b \in Seq(T) /\ Len(a \o b) = Len(a) + Len(b)
      /\ \A i \in 1 .. Len(a) + Len(b) :
           (a \o b)[i] = IF i <= Len(a) THEN a[i] ELSE b[i - Len(a)]
  BY <1>1, ConcatProperties
<1>3. Len(a) \in Nat /\ Len(b) \in Nat
  BY ContentsShape
<1>4. ASSUME NEW i \in 1..Len(b)
      PROVE  Len(a) + i \in 1..(Len(a) + Len(b)) /\ ~(Len(a) + i <= Len(a))
             /\ (Len(a) + i) - Len(a) = i
  BY <1>3
<1>5. \A i \in 1..Len(a) : i \in 1..(Len(a) + Len(b)) /\ i <= Len(a)
  BY <1>3
<1> QED BY <1>2, <1>3, <1>4, <1>5 DEF Contents

\* Any index of a concatenation is one of its parts'.
LEMMA ConcatIndex ==
  ASSUME NEW m \in Nat, NEW n \in Nat, NEW i \in 1..(m + n)
  PROVE  i \in 1..m \/ \E j \in 1..n : i = m + j
PROOF
<1>1. CASE i <= m BY <1>1
<1>2. CASE ~(i <= m)
  <2>1. i - m \in 1..n /\ i = m + (i - m) BY <1>2
  <2> QED BY <2>1
<1> QED BY <1>1, <1>2

\* A block is found where its three tokens are.
LEMMA BlockFound ==
  ASSUME NEW data \in Contents, NEW body \in Bodies, NEW i \in 1..Len(data),
         NEW e \in 1..Len(data)
  PROVE  SubSeq(data, i, e) = Block(body) <=> e = i + 2 /\ BlockAt(data, body, i)
PROOF
<1> DEFINE T == Texts \cup Bodies \cup {Start, End, Newline}
<1> DEFINE sub == SubSeq(data, i, e)
<1>1. Len(data) \in Nat /\ \A j \in 1..Len(data) : data[j] \in T
  BY ContentsShape
<1>2. \A j \in i..e : data[j] \in T
  BY <1>1
<1>3. /\ sub \in Seq(T) /\ Len(sub) = IF i <= e THEN e - i + 1 ELSE 0
      /\ \A j \in 1..(e - i + 1) : sub[j] = data[i + j - 1]
  BY <1>1, <1>2, SubSeqProperties
<1>4. /\ Block(body) \in Seq(T) /\ Len(Block(body)) = 3
      /\ Block(body)[1] = Start /\ Block(body)[2] = body /\ Block(body)[3] = End
  BY DEF Block
<1>5. e = i + 2 => sub[1] = data[i] /\ sub[2] = data[i + 1] /\ sub[3] = data[i + 2]
  BY SMTT(40), <1>1, <1>3
<1>6. ASSUME sub = Block(body) PROVE e = i + 2 /\ BlockAt(data, body, i)
  <2>1. (IF i <= e THEN e - i + 1 ELSE 0) = 3
    BY <1>3, <1>4, <1>6
  <2>2. e = i + 2
    BY <1>1, <2>1
  <2> QED BY <1>1, <1>4, <1>5, <1>6, <2>2 DEF BlockAt
<1>7. ASSUME e = i + 2, BlockAt(data, body, i) PROVE sub = Block(body)
  <2>1. Len(sub) = 3 BY <1>1, <1>3, <1>7
  <2>2. \A j \in 1..3 : sub[j] = Block(body)[j]
    BY <1>4, <1>5, <1>7 DEF BlockAt
  <2> QED BY <1>3, <1>4, <2>1, <2>2, SeqEqual
<1> QED BY <1>6, <1>7

\* A profile has the block where its three tokens are.
LEMMA ConfiguresBlock ==
  ASSUME NEW file, file # Absent => file \in Contents, NEW body \in Bodies
  PROVE  Configures(file, body) <=> \E i \in 1..Len(Data(file)) : BlockAt(Data(file), body, i)
PROOF
<1> DEFINE data == Data(file)
<1>1. data \in Contents /\ Len(data) \in Nat
  BY DataShape, ContentsShape
<1> HIDE DEF data
<1>2. ASSUME NEW i \in 1..(Len(data) - 2)
      PROVE  i \in 1..Len(data) /\ i + 2 \in 1..Len(data)
  BY <1>1
<1>3. \A i \in 1..(Len(data) - 2) :
        SubSeq(data, i, i + 2) = Block(body) <=> BlockAt(data, body, i)
  BY <1>1, <1>2, BlockFound
<1>4. \A i \in 1..Len(data) : BlockAt(data, body, i) => i \in 1..(Len(data) - 2)
  BY <1>1 DEF BlockAt
<1>5. \A i \in 1..(Len(data) - 2) : i \in 1..Len(data)
  BY <1>2
<1> QED BY <1>3, <1>4, <1>5 DEF Configures, data

\* A block between what has no markers is the only one.
LEMMA BlockBetween ==
  ASSUME NEW pre \in Contents, NEW post \in Contents, NEW body \in Bodies
  PROVE  LET data == (pre \o Block(body)) \o post
         IN  /\ data \in Contents /\ Configures(data, body)
             /\ MarkersApart /\ NoMarks(pre) /\ NoMarks(post) => Single(data)
PROOF
<1> DEFINE block == Block(body)
<1> DEFINE front == pre \o block
<1> DEFINE data  == front \o post
<1> DEFINE s == Len(pre) + 1
<1>1. /\ block \in Contents /\ Len(block) = 3
      /\ block[1] = Start /\ block[2] = body /\ block[3] = End
  BY DEF Block, Contents
<1> HIDE DEF block
<1>2. /\ front \in Contents /\ Len(front) = Len(pre) + 3 /\ Len(pre) \in Nat
      /\ \A i \in 1..Len(pre) : front[i] = pre[i]
      /\ \A i \in 1..3 : front[Len(pre) + i] = block[i]
  <2>1. block \in Contents /\ Len(block) = 3 BY <1>1
  <2>2. /\ front \in Contents /\ Len(front) = Len(pre) + Len(block) /\ Len(pre) \in Nat
        /\ \A i \in 1..Len(pre) : front[i] = pre[i]
        /\ \A i \in 1..Len(block) : front[Len(pre) + i] = block[i]
    BY <2>1, ConcatShape
  <2> QED BY <2>1, <2>2
<1> HIDE DEF front
<1>3. /\ data \in Contents /\ Len(data) = Len(front) + Len(post) /\ Len(post) \in Nat
      /\ \A i \in 1..Len(front) : data[i] = front[i]
      /\ \A i \in 1..Len(post) : data[Len(front) + i] = post[i]
  BY <1>2, ConcatShape
<1> HIDE DEF data
<1>4. /\ s \in 1..Len(data) /\ s + 1 \in 1..Len(data) /\ s + 2 \in 1..Len(data)
      /\ s \in 1..Len(front) /\ s + 1 \in 1..Len(front) /\ s + 2 \in 1..Len(front)
      /\ s + 1 = Len(pre) + 2 /\ s + 2 = Len(pre) + 3
  BY <1>2, <1>3
<1>5. data[s] = Start /\ data[s + 1] = body /\ data[s + 2] = End
  BY <1>1, <1>2, <1>3, <1>4
<1>6. Configures(data, body)
  <2>1. BlockAt(data, body, s) BY <1>4, <1>5 DEF BlockAt
  <2>2. Data(data) = data BY <1>3, DataShape, Shape
  <2> QED BY <1>3, <1>4, <2>1, <2>2, ConfiguresBlock
<1>7. ASSUME MarkersApart, NoMarks(pre), NoMarks(post) PROVE Single(data)
  <2>1. body # Start /\ body # End BY <1>7 DEF MarkersApart
  <2>2. ASSUME NEW i \in 1..Len(data)
        PROVE  (data[i] = Start <=> i = s) /\ (data[i] = End <=> i = s + 2)
    <3>1. CASE i \in 1..Len(pre)
      <4>1. i \in 1..Len(front) /\ i # s /\ i # s + 2 BY <1>2, <3>1
      <4> QED BY <1>2, <1>3, <1>7, <3>1, <4>1 DEF NoMarks
    <3>2. CASE \E j \in 1..Len(post) : i = Len(front) + j
      <4>1. PICK j \in 1..Len(post) : i = Len(front) + j BY <3>2
      <4>2. i # s /\ i # s + 2 BY <1>2, <1>3, <4>1
      <4> QED BY <1>3, <1>7, <4>1, <4>2 DEF NoMarks
    <3>3. CASE \E j \in 1..3 : i = Len(pre) + j
      <4>1. i = s \/ i = s + 1 \/ i = s + 2 BY <1>2, <3>3
      <4>2. s # s + 1 /\ s # s + 2 /\ s + 1 # s + 2 BY <1>2
      <4> QED BY <1>5, <2>1, <4>1, <4>2 DEF Start, End
    <3>4. i \in 1..Len(front) \/ \E j \in 1..Len(post) : i = Len(front) + j
      <4>1. i \in 1..(Len(front) + Len(post)) /\ Len(front) \in Nat BY <1>2, <1>3
      <4> QED BY <1>3, <4>1, ConcatIndex
    <3>5. i \in 1..Len(front) => i \in 1..Len(pre) \/ \E j \in 1..3 : i = Len(pre) + j
      BY <1>2, ConcatIndex
    <3> QED BY <3>1, <3>2, <3>3, <3>4, <3>5
  <2>3. s < s + 2 BY <1>2
  <2> HIDE DEF s
  <2>4. MarkedAt(data, s, s + 2) BY <1>4, <2>2, <2>3 DEF MarkedAt
  <2> QED BY <1>4, <2>4 DEF Single
<1> QED BY <1>3, <1>6, <1>7 DEF data, front, block

\* Where the markers of a single block are found.
LEMMA SingleShape ==
  ASSUME NEW data \in Contents, Single(data)
  PROVE  /\ ~Incomplete(data)
         /\ First(data, Start) > 0 => MarkedAt(data, First(data, Start), First(data, End))
         /\ ~(First(data, Start) > 0) => NoMarks(data)
PROOF
<1>1. Len(data) \in Nat BY ContentsShape
<1>2. First(data, Start) \in 0..Len(data) /\ First(data, End) \in 0..Len(data)
  BY FirstToken
<1>3. CASE NoMarks(data)
  <2>1. ~(First(data, Start) > 0) /\ ~(First(data, End) > 0)
    <3>1. \A token : First(data, token) > 0 => First(data, token) \in 1..Len(data)
                                              /\ data[First(data, token)] = token
      <4> TAKE token
      <4>1. First(data, token) \in 0..Len(data) /\
            (First(data, token) > 0 => data[First(data, token)] = token)
        BY FirstToken
      <4> QED BY <1>1, <4>1
    <3> QED BY <1>3, <3>1 DEF NoMarks
  <2>2. ~Incomplete(data) BY <2>1 DEF Incomplete
  <2> QED BY <1>3, <2>1, <2>2
<1>4. ASSUME NEW s \in 1..Len(data), NEW e \in 1..Len(data), MarkedAt(data, s, e)
      PROVE  First(data, Start) = s /\ First(data, End) = e /\ s > 0 /\ e > 0 /\ s < e
             /\ ~NoMarks(data)
  <2>1. data[s] = Start /\ data[e] = End /\ s < e BY <1>4 DEF MarkedAt
  <2>2. 0 < First(data, Start) /\ 0 < First(data, End) BY <2>1, FirstToken
  <2>3. First(data, Start) \in 1..Len(data) /\ First(data, End) \in 1..Len(data)
    BY <1>1, <1>2, <2>2
  <2>4. data[First(data, Start)] = Start /\ data[First(data, End)] = End
    BY <2>2, FirstToken
  <2>5. First(data, Start) = s /\ First(data, End) = e
    BY <1>4, <2>3, <2>4 DEF MarkedAt
  <2> QED BY <1>1, <2>1, <2>5 DEF NoMarks
<1>5. CASE \E s, e \in 1..Len(data) : MarkedAt(data, s, e)
  <2>1. PICK s \in 1..Len(data), e \in 1..Len(data) : MarkedAt(data, s, e) BY <1>5
  <2>2. First(data, Start) = s /\ First(data, End) = e /\ s > 0 /\ e > 0 /\ s < e
    BY <1>4, <2>1
  <2>3. ~(e < s) BY <1>1, <2>2
  <2>4. ~Incomplete(data) BY <2>2, <2>3 DEF Incomplete
  <2> QED BY <2>1, <2>2, <2>4
<1> QED BY <1>3, <1>5 DEF Single

\* Part of contents without markers is contents without markers.
LEMMA PartShape ==
  ASSUME NEW data \in Contents, NEW m \in 1..(Len(data) + 1), NEW n \in 0..Len(data)
  PROVE  /\ SubSeq(data, m, n) \in Contents
         /\ (\A i \in m..n : data[i] # Start /\ data[i] # End) => NoMarks(SubSeq(data, m, n))
PROOF
<1> DEFINE T == Texts \cup Bodies \cup {Start, End, Newline}
<1> DEFINE sub == SubSeq(data, m, n)
<1>1. Len(data) \in Nat /\ \A j \in 1..Len(data) : data[j] \in T
  BY ContentsShape
<1>2. m \in Int /\ n \in Int /\ \A j \in m..n : data[j] \in T
  BY <1>1
<1>3. /\ sub \in Seq(T) /\ Len(sub) = IF m <= n THEN n - m + 1 ELSE 0
      /\ \A j \in 1..(n - m + 1) : sub[j] = data[m + j - 1]
  BY <1>2, SubSeqProperties
<1>4. sub \in Contents BY <1>3 DEF Contents
<1> HIDE DEF sub
<1>5. ASSUME \A i \in m..n : data[i] # Start /\ data[i] # End,
             NEW j \in 1..Len(sub)
      PROVE  sub[j] # Start /\ sub[j] # End
  <2>1. j \in 1..(n - m + 1) /\ m + j - 1 \in m..n BY <1>2, <1>3
  <2> QED BY <1>3, <1>5, <2>1
<1> QED BY <1>4, <1>5 DEF NoMarks, sub

\* planProfileBlock puts the block where one was or at the end.
LEMMA UpdatedShape ==
  ASSUME NEW data \in Contents, ~Incomplete(data), NEW body \in Bodies
  PROVE  /\ Updated(data, body) \in Contents /\ Configures(Updated(data, body), body)
         /\ MarkersApart /\ Single(data) => Single(Updated(data, body))
PROOF
<1> DEFINE s == First(data, Start)
<1> DEFINE e == First(data, End)
<1>1. Len(data) \in Nat /\ s \in 0..Len(data) /\ e \in 0..Len(data)
  BY ContentsShape, FirstToken
<1>2. /\ <<>> \in Contents /\ <<Newline>> \in Contents /\ <<Newline, Newline>> \in Contents
      /\ NoMarks(<<>>) /\ NoMarks(<<Newline>>) /\ NoMarks(<<Newline, Newline>>)
  <2>1. <<>> \in Contents /\ Len(<<>>) = 0 BY EmptySeq DEF Contents
  <2>2. <<Newline>> \in Contents /\ <<Newline, Newline>> \in Contents BY DEF Contents
  <2>3. Newline # Start /\ Newline # End BY DEF Newline, Start, End
  <2>4. NoMarks(<<>>) BY <2>1 DEF NoMarks
  <2>5. NoMarks(<<Newline>>) /\ NoMarks(<<Newline, Newline>>) BY <2>3 DEF NoMarks
  <2> QED BY <2>1, <2>2, <2>4, <2>5
<1>3. \E pre, post \in Contents :
        /\ Updated(data, body) = (pre \o Block(body)) \o post
        /\ Single(data) => NoMarks(pre) /\ NoMarks(post)
  <2>1. CASE s > 0
    <3> DEFINE pre  == SubSeq(data, 1, s - 1)
    <3> DEFINE post == SubSeq(data, e + 1, Len(data))
    <3>1. /\ 1 \in 1..(Len(data) + 1) /\ s - 1 \in 0..Len(data)
          /\ e + 1 \in 1..(Len(data) + 1) /\ Len(data) \in 0..Len(data)
      BY <1>1, <2>1
    <3>2. pre \in Contents /\ post \in Contents
      BY <3>1, PartShape
    <3>3. Updated(data, body) = (pre \o Block(body)) \o post
      BY <2>1 DEF Updated, Replaced
    <3>4. ASSUME Single(data) PROVE NoMarks(pre) /\ NoMarks(post)
      <4>1. MarkedAt(data, s, e) BY <2>1, <3>4, SingleShape
      <4>2. s \in 1..Len(data) /\ e \in 1..Len(data) /\ s < e BY <4>1 DEF MarkedAt
      <4>3. \A i \in 1..(s - 1) : i \in 1..Len(data) /\ i # s /\ i # e BY <1>1, <4>2
      <4>4. \A i \in (e + 1)..Len(data) : i \in 1..Len(data) /\ i # s /\ i # e
        BY <1>1, <4>2
      <4>5. \A i \in 1..Len(data) : i # s /\ i # e => data[i] # Start /\ data[i] # End
        BY <4>1 DEF MarkedAt
      <4> QED BY <3>1, <4>3, <4>4, <4>5, PartShape
    <3> QED BY <3>2, <3>3, <3>4
  <2>2. CASE ~(s > 0)
    <3> DEFINE post == <<Newline>>
    <3>1. Updated(data, body) = Appended(data, body) BY <2>2 DEF Updated
    <3>2. Single(data) => NoMarks(data) BY <2>2, SingleShape
    <3>3. ASSUME NEW tail \in {<<Newline>>, <<Newline, Newline>>}
          PROVE  data \o tail \in Contents /\ (NoMarks(data) => NoMarks(data \o tail))
      <4>1. tail \in Contents /\ NoMarks(tail) BY <1>2
      <4>2. /\ data \o tail \in Contents /\ Len(data \o tail) = Len(data) + Len(tail)
            /\ Len(tail) \in Nat
            /\ \A i \in 1..Len(data) : (data \o tail)[i] = data[i]
            /\ \A i \in 1..Len(tail) : (data \o tail)[Len(data) + i] = tail[i]
        BY <4>1, ConcatShape
      <4> DEFINE all == data \o tail
      <4> HIDE DEF all
      <4>3. ASSUME NoMarks(data), NEW i \in 1..Len(all) PROVE all[i] # Start /\ all[i] # End
        <5>1. i \in 1..Len(data) \/ \E j \in 1..Len(tail) : i = Len(data) + j
          BY SMTT(40), <1>1, <4>2, ConcatIndex DEF all
        <5> QED BY <4>1, <4>2, <4>3, <5>1 DEF NoMarks, all
      <4> QED BY <4>2, <4>3 DEF NoMarks, all
    <3>4. \/ Updated(data, body) = (<<>> \o Block(body)) \o post
          \/ Updated(data, body) = ((data \o <<Newline>>) \o Block(body)) \o post
          \/ Updated(data, body) = ((data \o <<Newline, Newline>>) \o Block(body)) \o post
      BY <3>1 DEF Appended
    <3> QED BY <1>2, <3>2, <3>3, <3>4
  <2> QED BY <2>1, <2>2
<1>4. PICK pre \in Contents, post \in Contents :
        /\ Updated(data, body) = (pre \o Block(body)) \o post
        /\ Single(data) => NoMarks(pre) /\ NoMarks(post)
  BY <1>3
<1> QED BY <1>4, BlockBetween

\* A block that HasBlock finds is there, and finds any block that is the only one.
LEMMA HasBlockShape ==
  ASSUME NEW data \in Contents, NEW body \in Bodies
  PROVE  /\ HasBlock(data, body) => Configures(data, body)
         /\ Single(data) /\ Configures(data, body) => HasBlock(data, body)
PROOF
<1> DEFINE s == First(data, Start)
<1> DEFINE e == First(data, End)
<1>1. Len(data) \in Nat /\ s \in 0..Len(data) /\ e \in 0..Len(data) /\ Data(data) = data
  BY ContentsShape, FirstToken, DataShape, Shape
<1>2. Configures(data, body) <=> \E i \in 1..Len(data) : BlockAt(data, body, i)
  BY <1>1, ConfiguresBlock
<1>3. ASSUME HasBlock(data, body) PROVE Configures(data, body)
  <2>1. s > 0 /\ SubSeq(data, s, e) = Block(body) BY <1>3 DEF HasBlock
  <2>2. Block(body) # <<>> BY DEF Block
  <2>3. e >= s
    <3>1. CASE e < s
      <4>1. SubSeq(data, s, e) = <<>> BY <1>1, <3>1, SubSeqEmpty
      <4> QED BY <2>1, <2>2, <4>1
    <3> QED BY <1>1, <3>1
  <2>4. s \in 1..Len(data) /\ e \in 1..Len(data) BY <1>1, <2>1, <2>3
  <2>5. BlockAt(data, body, s) BY <2>1, <2>4, BlockFound
  <2> QED BY <1>2, <2>4, <2>5
<1>4. ASSUME Single(data), Configures(data, body) PROVE HasBlock(data, body)
  <2>1. PICK i \in 1..Len(data) : BlockAt(data, body, i) BY <1>2, <1>4
  <2>2. i + 2 \in 1..Len(data) /\ data[i] = Start /\ data[i + 2] = End
    BY <2>1 DEF BlockAt
  <2>3. s > 0 BY <2>2, FirstToken
  <2>4. MarkedAt(data, s, e) BY <1>4, <2>3, SingleShape
  <2>5. s = i /\ e = i + 2 BY <2>2, <2>4 DEF MarkedAt
  <2>6. SubSeq(data, i, i + 2) = Block(body) BY <2>1, <2>2, BlockFound
  <2> QED BY <2>3, <2>5, <2>6 DEF HasBlock
<1> QED BY <1>3, <1>4

\* Where a token is first is no matter of what is appended behind it.
LEMMA FirstOfLonger ==
  ASSUME NEW data \in Contents, NEW all \in Contents, NEW token,
         Len(data) <= Len(all), \A i \in 1..Len(data) : all[i] = data[i],
         \A i \in 1..Len(all) : all[i] = token => i \in 1..Len(data)
  PROVE  First(all, token) = First(data, token)
PROOF
<1> DEFINE f == First(data, token)
<1> DEFINE g == First(all, token)
<1>1. /\ Len(data) \in Nat /\ Len(all) \in Nat /\ f \in 0..Len(data) /\ g \in 0..Len(all)
      /\ f > 0 => data[f] = token
      /\ g > 0 => all[g] = token
      /\ \A i \in 1..Len(data) : data[i] = token => 0 < f /\ f <= i
      /\ \A i \in 1..Len(all) : all[i] = token => 0 < g /\ g <= i
  BY ContentsShape, FirstToken
<1> HIDE DEF f, g
<1>2. f > 0 => f \in 1..Len(all) /\ all[f] = token /\ 0 < g /\ g <= f
  BY <1>1
<1>3. g > 0 => g \in 1..Len(data) /\ data[g] = token /\ 0 < f /\ f <= g
  BY <1>1
<1>4. f = g BY <1>1, <1>2, <1>3
<1> QED BY <1>4 DEF f, g

\* A line appended to a profile leaves its blocks what they are.
LEMMA EditShape ==
  ASSUME NEW data \in Contents, NEW text \in Texts
  PROVE  LET all == data \o <<text, Newline>>
         IN  /\ all \in Contents
             /\ \A body \in Bodies : Configures(data, body) => Configures(all, body)
             /\ MarkersApart =>
                  /\ \A body \in Bodies : Configures(all, body) => Configures(data, body)
                  /\ Incomplete(all) => Incomplete(data)
                  /\ Incomplete(data) => Incomplete(all)
                  /\ First(all, Start) = First(data, Start)
                  /\ First(all, End) = First(data, End)
                  /\ Single(data) => Single(all)
PROOF
<1> DEFINE tail == <<text, Newline>>
<1> DEFINE all == data \o tail
<1>1. /\ tail \in Contents /\ Len(tail) = 2 /\ tail[1] = text /\ tail[2] = Newline
  BY DEF Contents
<1> HIDE DEF tail
<1>2. /\ all \in Contents /\ Len(all) = Len(data) + 2 /\ Len(data) \in Nat
      /\ \A i \in 1..Len(data) : all[i] = data[i] /\ i \in 1..Len(all)
      /\ \A i \in 1..2 : all[Len(data) + i] = tail[i]
  <2>1. tail \in Contents /\ Len(tail) = 2 BY <1>1
  <2>2. /\ all \in Contents /\ Len(all) = Len(data) + Len(tail) /\ Len(data) \in Nat
        /\ \A i \in 1..Len(data) : all[i] = data[i]
        /\ \A i \in 1..Len(tail) : all[Len(data) + i] = tail[i]
    BY <2>1, ConcatShape
  <2> QED BY <2>1, <2>2
<1> HIDE DEF all
<1>3. Data(data) = data /\ Data(all) = all BY <1>2, DataShape, Shape
<1>4. \A body \in Bodies :
        /\ Configures(data, body) <=> \E i \in 1..Len(data) : BlockAt(data, body, i)
        /\ Configures(all, body) <=> \E i \in 1..Len(all) : BlockAt(all, body, i)
  BY <1>2, <1>3, ConfiguresBlock
<1>5. ASSUME NEW body \in Bodies, Configures(data, body) PROVE Configures(all, body)
  <2>1. PICK i \in 1..Len(data) : BlockAt(data, body, i) BY <1>4, <1>5
  <2>2. i + 1 \in 1..Len(data) BY <1>2, <2>1 DEF BlockAt
  <2>3. BlockAt(all, body, i) BY <1>2, <2>1, <2>2 DEF BlockAt
  <2> QED BY <1>2, <1>4, <2>3
<1>6. ASSUME MarkersApart, NEW i \in 1..Len(all), all[i] = Start \/ all[i] = End
      PROVE  i \in 1..Len(data)
  <2>1. text # Start /\ text # End BY <1>6 DEF MarkersApart
  <2>2. Newline # Start /\ Newline # End BY DEF Newline, Start, End
  <2>3. i \in 1..Len(data) \/ \E j \in 1..2 : i = Len(data) + j
    BY <1>2, ConcatIndex
  <2>4. \A j \in 1..2 : tail[j] # Start /\ tail[j] # End BY <1>1, <2>1, <2>2
  <2> QED BY <1>2, <1>6, <2>3, <2>4
<1>7. ASSUME MarkersApart, NEW body \in Bodies, Configures(all, body) PROVE Configures(data, body)
  <2>1. PICK i \in 1..Len(all) : BlockAt(all, body, i) BY <1>4, <1>7
  <2>2. i + 2 \in 1..Len(data) /\ i \in 1..Len(data) BY <1>6, <1>7, <2>1 DEF BlockAt
  <2>3. i + 1 \in 1..Len(data) BY <1>2, <2>2
  <2>4. BlockAt(data, body, i) BY <1>2, <2>1, <2>2, <2>3 DEF BlockAt
  <2> QED BY <1>4, <2>2, <2>4
<1>8. ASSUME MarkersApart
      PROVE  /\ First(all, Start) = First(data, Start) /\ First(all, End) = First(data, End)
             /\ Incomplete(all) <=> Incomplete(data)
  <2>1. Len(data) <= Len(all) BY <1>2
  <2>2. First(all, Start) = First(data, Start) BY <1>2, <1>6, <1>8, <2>1, FirstOfLonger
  <2>3. First(all, End) = First(data, End) BY <1>2, <1>6, <1>8, <2>1, FirstOfLonger
  <2> QED BY <2>2, <2>3 DEF Incomplete
<1>9. ASSUME MarkersApart, Single(data) PROVE Single(all)
  <2>1. CASE NoMarks(data)
    <3>1. NoMarks(all) BY <1>2, <1>6, <1>9, <2>1 DEF NoMarks
    <3> QED BY <3>1 DEF Single
  <2>2. CASE \E s, e \in 1..Len(data) : MarkedAt(data, s, e)
    <3>1. PICK s \in 1..Len(data), e \in 1..Len(data) : MarkedAt(data, s, e) BY <2>2
    <3>2. MarkedAt(all, s, e) BY <1>2, <1>6, <1>9, <3>1 DEF MarkedAt
    <3> QED BY <1>2, <3>2 DEF Single
  <2> QED BY <1>9, <2>1, <2>2 DEF Single
<1> QED BY <1>2, <1>5, <1>7, <1>8, <1>9 DEF all, tail

\* A single block has as many end markers as start markers, at most one.
LEMMA SingleCounts ==
  ASSUME NEW data \in Contents, Single(data)
  PROVE  LET count(token) == Cardinality({i \in DOMAIN data : data[i] = token})
         IN  count(Start) <= 1 /\ count(End) = count(Start)
PROOF
<1> DEFINE places(token) == {i \in DOMAIN data : data[i] = token}
<1>1. DOMAIN data = 1..Len(data) BY ContentsShape
<1>2. CASE NoMarks(data)
  <2>1. places(Start) = {} /\ places(End) = {} BY <1>1, <1>2 DEF NoMarks
  <2>2. Cardinality({}) = 0 BY FS_EmptySet
  <2> QED BY <2>1, <2>2
<1>3. CASE \E s, e \in 1..Len(data) : MarkedAt(data, s, e)
  <2>1. PICK s \in 1..Len(data), e \in 1..Len(data) : MarkedAt(data, s, e) BY <1>3
  <2>2. places(Start) = {s} /\ places(End) = {e} BY <1>1, <2>1 DEF MarkedAt
  <2>3. Cardinality({s}) = 1 /\ Cardinality({e}) = 1 BY FS_Singleton
  <2>4. Cardinality(places(Start)) = 1 /\ Cardinality(places(End)) = 1 BY <2>2, <2>3
  <2> QED BY <2>4
<1> QED BY <1>2, <1>3 DEF Single

-----------------------------------------------------------------------------
(* Success.                                                                *)

\* Profiles that are links to one file have the same block, as the paths of
\* one shell do; and an executable on Windows needs no bit to be one.
LinkedAlike ==
  \A links \in Links : \A j, k \in Indexes : links[j] = links[k] => Profiles[j] = Profiles[k]

Executable(file) == file # Absent => file.exec

NoBitOnWindows ==
  \A platform \in DOMAIN FirstDisks : platform # "unix" =>
    \A d \in FirstDisks[platform] : Executable(d[Binary])

\* A plan has been made for the profile.
HasPlan(k) == goos = "unix" /\ pc # "off" /\ (pc = "plan" => k < mem.next)

\* What a profile is to become has its block.
PlansConfigure ==
  \A k \in Indexes : HasPlan(k) =>
    Configures(IF mem.plans[k].changed THEN mem.plans[k].updated ELSE mem.plans[k].snapshot,
               Profiles[k])

\* The profiles that were written, and those that need not be, have their block.
UpdatedSoFar ==
  pc = "update" /\ raced = {} =>
    \A k \in Indexes :
      \/ k < mem.next
      \/ ~mem.plans[k].changed
      \/ write.at = "done" /\ k = FirstOf(Pending(mem.next))
      => Configures(disk[resolve[k]], Profiles[k])

WindowsBinary ==
  /\ goos # "unix" => Executable(disk[Binary]) /\ Executable(before[Binary])
  /\ pc = "configure" => disk[Binary] = Mm

SuccessInv ==
  /\ resolve \in Links
  /\ PlansConfigure /\ UpdatedSoFar /\ WindowsBinary /\ SuccessInstalls

\* A stage that is neither the updates nor an end keeps the plans.
LEMMA StageKeeps ==
  ASSUME SuccessInv, UNCHANGED <<fixed, raced>>, mem'.plans = mem.plans,
         pc \notin {"off", "plan"}, pc' \in {"copy", "roll back", "restore"},
         goos = "unix" \/ disk'[Binary] = disk[Binary] \/ Executable(disk'[Binary])
  PROVE  SuccessInv'
PROOF
<1> USE DEF fixed
<1>1. PlansConfigure' BY DEF SuccessInv, PlansConfigure, HasPlan
<1>2. UpdatedSoFar' BY DEF UpdatedSoFar
<1>3. WindowsBinary'
  BY DEF SuccessInv, WindowsBinary, Executable
<1>4. SuccessInstalls' BY DEF SuccessInstalls
<1> QED BY <1>1, <1>2, <1>3, <1>4 DEF SuccessInv

\* A run that does not succeed promises nothing.
LEMMA FailureEnds ==
  ASSUME SuccessInv, UNCHANGED <<fixed, raced>>, NEW result, result # "ok", Return(result),
         goos = "unix" \/ disk'[Binary] = disk[Binary] \/ Executable(disk'[Binary])
  PROVE  SuccessInv'
PROOF
<1> USE DEF fixed, Return
<1>1. PlansConfigure' BY DEF PlansConfigure, HasPlan
<1>2. UpdatedSoFar' BY DEF UpdatedSoFar
<1>3. WindowsBinary' BY DEF SuccessInv, WindowsBinary, Executable
<1>4. SuccessInstalls' BY DEF SuccessInstalls
<1> QED BY <1>1, <1>2, <1>3, <1>4 DEF SuccessInv

\* The updates go on while no file changes.
LEMMA UpdateGoesOn ==
  ASSUME SuccessInv, UNCHANGED <<fixed, raced, disk, mem, pc, ended, userPath>>,
         write'.at # "done"
  PROVE  SuccessInv'
PROOF
<1> USE DEF fixed
<1>1. PlansConfigure' BY DEF SuccessInv, PlansConfigure, HasPlan
<1>2. UpdatedSoFar' BY DEF SuccessInv, UpdatedSoFar
<1>3. WindowsBinary' BY DEF SuccessInv, WindowsBinary
<1>4. SuccessInstalls' BY DEF SuccessInv, SuccessInstalls, Installed
<1> QED BY <1>1, <1>2, <1>3, <1>4 DEF SuccessInv

\* A plan says where the block is or will be.
LEMMA PlanConfigures ==
  ASSUME NEW file, file # Absent => file \in Contents, ~Incomplete(Data(file)),
         NEW k \in Indexes
  PROVE  LET plan == PlanOf(file, Profiles[k])
         IN  Configures(IF plan.changed THEN plan.updated ELSE plan.snapshot, Profiles[k])
PROOF
<1> DEFINE body == Profiles[k]
<1>1. body \in Bodies /\ Data(file) \in Contents BY DataShape DEF Bodies
<1>2. CASE HasBlock(Data(file), body)
  <2>1. Configures(Data(file), body) BY <1>1, <1>2, HasBlockShape
  <2>2. Data(Data(file)) = Data(file) BY <1>1, DataShape, Shape
  <2>3. Configures(file, body) BY <2>1, <2>2 DEF Configures
  <2>4. PlanOf(file, body).snapshot = file /\ ~PlanOf(file, body).changed
    BY <1>2 DEF PlanOf, NoPlan
  <2> QED BY <2>3, <2>4
<1>3. CASE ~HasBlock(Data(file), body)
  <2>1. Configures(Updated(Data(file), body), body) BY <1>1, UpdatedShape
  <2> QED BY <1>3, <2>1 DEF PlanOf
<1> QED BY <1>2, <1>3

\* A profile is planned.
LEMMA PlanProfileSucceeds ==
  ASSUME InstallInv, SuccessInv, PlanProfile
  PROVE  SuccessInv'
PROOF
<1> DEFINE k == mem.next
<1> DEFINE file == disk[resolve[k]]
<1> DEFINE plan == PlanOf(file, Profiles[k])
<1>1. /\ pc = "plan" /\ k \in Indexes /\ UNCHANGED <<fixed, raced, temps, disk, userPath>>
      /\ mem \in Memory
  BY MemoryTypes, Shape DEF PlanProfile, Control, Running, InstallInv, Stages, Types
<1>2. CASE Return("failed") BY <1>1, <1>2, FailureEnds
<1>3. ASSUME ~Incomplete(Data(file)), UNCHANGED write,
             Go(IF k < Len(Profiles) THEN "plan" ELSE "snapshot",
                [mem EXCEPT !.plans[k] = plan, !.next = k + 1])
      PROVE  SuccessInv'
  <2> USE DEF fixed
  <2>1. /\ pc' = (IF k < Len(Profiles) THEN "plan" ELSE "snapshot")
        /\ mem' = [mem EXCEPT !.plans[k] = plan, !.next = k + 1]
    BY <1>3 DEF Go
  <2>2. resolve[k] \in ProfileFiles /\ (file # Absent => file \in Contents)
    BY <1>1 DEF InstallInv, Types, IsDisk
  <2>3. Configures(IF plan.changed THEN plan.updated ELSE plan.snapshot, Profiles[k])
    BY <1>1, <1>3, <2>2, PlanConfigures
  <2> HIDE DEF plan, file, k
  <2>4. /\ mem'.next = k + 1 /\ mem'.plans[k] = plan
        /\ \A j \in Indexes \ {k} : mem'.plans[j] = mem.plans[j]
    BY <1>1, <2>1 DEF Memory
  <2>5. PlansConfigure'
    <3>1. ASSUME NEW j \in Indexes, HasPlan(j)'
          PROVE  Configures(IF mem'.plans[j].changed THEN mem'.plans[j].updated
                                                     ELSE mem'.plans[j].snapshot, Profiles[j])
      <4>1. CASE j = k BY <2>3, <2>4, <4>1
      <4>2. CASE j # k
        <5>1. j < k BY <1>1, <2>1, <2>4, <3>1, <4>2, Shape DEF HasPlan
        <5>2. HasPlan(j) BY <1>1, <3>1, <5>1 DEF HasPlan, k
        <5> QED BY <2>4, <4>2, <5>2 DEF SuccessInv, PlansConfigure
      <4> QED BY <4>1, <4>2
    <3> QED BY <3>1 DEF PlansConfigure
  <2>6. pc' \in {"plan", "snapshot"} BY <2>1
  <2>7. UpdatedSoFar' BY <2>6 DEF UpdatedSoFar
  <2>8. WindowsBinary' BY <1>1, <2>6 DEF SuccessInv, WindowsBinary
  <2>9. SuccessInstalls' BY <2>6 DEF SuccessInstalls
  <2> QED BY <1>1, <2>5, <2>7, <2>8, <2>9 DEF SuccessInv
<1> QED BY <1>2, <1>3 DEF PlanProfile

\* The profiles that need no update are still what they were planned to be.
LEMMA CopiedSucceeds ==
  ASSUME InstallInv, SuccessInv, pc = "copy", NEW changed, Copied(changed),
         UNCHANGED <<fixed, raced, temps, userPath>>, write'.at = "idle",
         \A f \in ProfileFiles : disk'[f] = disk[f], disk'[Binary] = Mm
  PROVE  SuccessInv'
PROOF
<1> USE DEF fixed
<1>1. /\ pc' = (IF goos = "unix" THEN "update" ELSE "configure") /\ ended' = ended
      /\ mem' = [mem EXCEPT !.changed = changed, !.next = 1]
  BY DEF Copied, Go
<1>2. mem \in Memory /\ ~mem.broken /\ resolve \in [Indexes -> ProfileFiles]
  BY DEF InstallInv, Types, Stages
<1>3. mem'.plans = mem.plans /\ mem'.next = 1 BY <1>1, <1>2 DEF Memory
<1>4. PlansConfigure' BY <1>1, <1>3 DEF SuccessInv, PlansConfigure, HasPlan
<1>5. UpdatedSoFar'
  <2>1. ASSUME goos = "unix", raced = {}, NEW k \in Indexes, ~(k < 1), ~mem.plans[k].changed
        PROVE  Configures(disk'[resolve[k]], Profiles[k])
    <3>1. resolve[k] \in ProfileFiles \ raced BY <1>2, <2>1
    <3>2. disk'[resolve[k]] = before[resolve[k]] BY <1>2, <3>1, Untouched
    <3>3. mem.plans[k].snapshot = before[resolve[k]]
      BY <2>1, <3>1 DEF InstallInv, Snapshots
    <3>4. Configures(mem.plans[k].snapshot, Profiles[k])
      BY <2>1 DEF SuccessInv, PlansConfigure, HasPlan
    <3> QED BY <3>2, <3>3, <3>4
  <2>2. \A k \in Indexes : ~(k < 1) BY Shape
  <2> QED BY <1>1, <1>3, <2>1, <2>2 DEF UpdatedSoFar
<1>6. WindowsBinary'
  <2>1. Executable(Mm) BY DEF Executable, Mm
  <2> QED BY <2>1 DEF SuccessInv, WindowsBinary
<1>7. SuccessInstalls' BY <1>1 DEF SuccessInstalls
<1> QED BY <1>4, <1>5, <1>6, <1>7 DEF SuccessInv

\* The executable is in place, or is being written.
LEMMA CopyExecutableSucceeds ==
  ASSUME InstallInv, SuccessInv, CopyExecutable
  PROVE  SuccessInv'
PROOF
<1> DEFINE file == disk[Binary]
<1>1. /\ pc = "copy" /\ write.at = "idle" /\ UNCHANGED <<fixed, raced, temps, userPath>>
      /\ file \in Binaries \cup {Absent} /\ IsDisk(disk)
  BY DEF CopyExecutable, Control, Running, InstallInv, Types, IsDisk
<1>2. CASE Same(file) /\ (goos = "unix" => file.exec) /\ Copied(FALSE) /\ UNCHANGED <<disk, write>>
  <2>1. file.exec BY <1>2 DEF SuccessInv, WindowsBinary, Executable, Same
  <2>2. file = Mm BY <1>1, <1>2, <2>1, Shape DEF Same, Mm
  <2> QED BY <1>1, <1>2, <2>2, CopiedSucceeds
<1>3. CASE /\ Same(file) /\ disk' = [disk EXCEPT ![Binary].exec = TRUE]
           /\ Copied(TRUE) /\ UNCHANGED write
  <2>1. [file EXCEPT !.exec = TRUE] = Mm BY <1>1, <1>3, Shape DEF Same, Mm, Binaries
  <2>2. disk' = [disk EXCEPT ![Binary] = Mm] BY <1>3, <2>1
  <2>3. disk'[Binary] = Mm /\ \A f \in Files \ {Binary} : disk'[f] = disk[f]
    BY <1>1, <2>2, DiskExcept, Shape
  <2>4. \A f \in ProfileFiles : disk'[f] = disk[f] BY <2>3, Shape
  <2> QED BY <1>1, <1>3, <2>3, <2>4, CopiedSucceeds
<1>4. CASE Call(Binary, Mm, ReplaceFirst)
  BY <1>1, <1>4, StageKeeps DEF Call
<1>5. CASE Return("copy failed") /\ UNCHANGED disk
  BY <1>1, <1>5, FailureEnds
<1> QED BY <1>2, <1>3, <1>4, <1>5 DEF CopyExecutable

\* The call for the executable returns.
LEMMA CopyReturnsSucceeds ==
  ASSUME InstallInv, SuccessInv, CopyReturns
  PROVE  SuccessInv'
PROOF
<1>1. /\ pc = "copy" /\ UNCHANGED <<fixed, raced, temps, userPath, disk>>
  BY DEF CopyReturns
<1>2. CASE write.at = "done"
  <2>1. Copied(TRUE) /\ write'.at = "idle" BY <1>2, NoWriteType DEF CopyReturns
  <2>2. disk[Binary] = Mm BY <1>1, <1>2 DEF InstallInv, BinaryUndone
  <2> QED BY <1>1, <2>1, <2>2, CopiedSucceeds
<1>3. CASE write.at # "done"
  BY <1>1, <1>3, FailureEnds DEF CopyReturns
<1> QED BY <1>2, <1>3

\* A step of a call leaves the disk alone, or it is in the stage's interest.
LEMMA WriteAtomicSucceeds ==
  ASSUME LinkedAlike, InstallInv, SuccessInv, WriteAtomic
  PROVE  SuccessInv'
PROOF
<1> DEFINE k == FirstOf(Pending(mem.next))
<1>1. write.at # "idle" /\ UNCHANGED <<fixed, raced, userPath, pc, mem, ended>>
  BY DEF WriteAtomic, CreateTemp, FillTemp, RemoveOld, Rename, DropTemp, At
<1>2. /\ pc \in {"copy", "update", "roll back", "restore"} /\ write.to \in Files
      /\ write.to = Binary <=> pc \in {"copy", "restore"}
      /\ write.to = Binary => write.data \in Binaries
      /\ write.to # Binary => write.to \in ProfileFiles /\ write.data \in Contents
      /\ IsDisk(disk) /\ resolve \in [Indexes -> ProfileFiles] /\ mem \in Memory
  BY <1>1, CallTypes DEF InstallInv, Types
<1>3. CASE disk' = disk /\ write'.at # "done"
  <2>1. CASE pc = "update" BY <1>1, <1>3, UpdateGoesOn
  <2>2. CASE pc # "update" BY <1>1, <1>2, <1>3, <2>2, StageKeeps
  <2> QED BY <2>1, <2>2
<1>4. CASE RemoveOld /\ disk' = [disk EXCEPT ![write.to] = Absent]
  <2>1. pc = "copy" /\ write.to = Binary
    BY <1>1, <1>4 DEF RemoveOld, At, InstallInv, Calls, ReplaceFirst
  <2>2. disk'[Binary] = Absent BY <1>2, <1>4, <2>1, DiskExcept
  <2> QED BY <1>1, <2>1, <2>2, StageKeeps DEF Executable
<1>5. ASSUME write.at = "rename", disk' = [disk EXCEPT ![write.to] = write.data],
             write' = [write EXCEPT !.at = "done"]
      PROVE  SuccessInv'
  <2>1. /\ disk'[write.to] = write.data
        /\ \A f \in Files \ {write.to} : disk'[f] = disk[f]
    BY <1>2, <1>5, DiskExcept
  <2>2. CASE pc = "copy"
    <3>1. disk'[Binary] = Mm /\ Executable(Mm)
      BY <1>1, <1>2, <2>1, <2>2 DEF InstallInv, Calls, Executable, Mm
    <3> QED BY <1>1, <2>2, <3>1, StageKeeps
  <2>3. CASE pc = "restore"
    <3>1. disk'[Binary] = before[Binary]
      BY <1>1, <1>2, <2>1, <2>3 DEF InstallInv, Calls, Snapshots
    <3>2. goos = "unix" \/ Executable(disk'[Binary]) BY <3>1 DEF SuccessInv, WindowsBinary
    <3> QED BY <1>1, <2>3, <3>2, StageKeeps
  <2>4. CASE pc = "roll back"
    <3>1. goos = "unix" BY <2>4 DEF InstallInv, Stages
    <3> QED BY <1>1, <2>4, <3>1, StageKeeps
  <2>5. CASE pc = "update"
    <3> USE DEF fixed
    <3>1. /\ Pending(mem.next) # {} /\ write.to = resolve[k] /\ goos = "unix"
          /\ write.data = mem.plans[k].updated
      BY <1>1, <2>5 DEF InstallInv, Calls, Stages
    <3>2. k \in Indexes /\ k >= mem.next /\ mem.plans[k].changed
      BY <1>2, <3>1, NextPending
    <3>3. Configures(write.data, Profiles[k])
      BY <2>5, <3>1, <3>2 DEF SuccessInv, PlansConfigure, HasPlan
    <3> HIDE DEF k
    <3>4. \A j \in Indexes : resolve[j] = resolve[k] => Profiles[j] = Profiles[k]
      BY <3>2 DEF LinkedAlike, SuccessInv
    <3>5. \A j \in Indexes : resolve[j] # write.to => disk'[resolve[j]] = disk[resolve[j]]
      BY <1>2, <2>1, Shape
    <3>6. \A j \in Indexes : resolve[j] = write.to => Configures(disk'[resolve[j]], Profiles[j])
      BY <2>1, <3>1, <3>3, <3>4
    <3>7. PlansConfigure' BY <1>1 DEF SuccessInv, PlansConfigure, HasPlan
    <3>8. Pending(mem.next)' = Pending(mem.next) BY <1>1 DEF Pending
    <3>9. UpdatedSoFar'
      <4>1. \A j \in Indexes : j = k => resolve[j] = write.to BY <3>1
      <4>2. ASSUME raced = {}, NEW j \in Indexes, j < mem.next \/ ~mem.plans[j].changed
            PROVE  Configures(disk[resolve[j]], Profiles[j])
        BY <2>5, <4>2 DEF SuccessInv, UpdatedSoFar
      <4> QED BY <1>1, <3>5, <3>6, <3>8, <4>1, <4>2 DEF UpdatedSoFar, k
    <3>10. WindowsBinary' BY <1>1, <2>5, <3>1 DEF WindowsBinary
    <3>11. SuccessInstalls' BY <1>1, <2>5 DEF SuccessInstalls
    <3> QED BY <1>1, <3>7, <3>9, <3>10, <3>11 DEF SuccessInv
  <2> QED BY <1>2, <2>2, <2>3, <2>4, <2>5
<1>6. \/ disk' = disk /\ write'.at # "done"
      \/ RemoveOld /\ disk' = [disk EXCEPT ![write.to] = Absent]
      \/ /\ write.at = "rename" /\ disk' = [disk EXCEPT ![write.to] = write.data]
         /\ write' = [write EXCEPT !.at = "done"]
  <2>1. \A step : write' = [write EXCEPT !.at = step] => write'.at = step
    BY DEF InstallInv, Types
  <2> QED BY <2>1 DEF WriteAtomic, CreateTemp, FillTemp, RemoveOld, Rename, DropTemp, At, Advance
<1> QED BY <1>3, <1>4, <1>5, <1>6

\* The loop ends when no profile is left, or it writes the next one.
LEMMA UpdateProfileSucceeds ==
  ASSUME InstallInv, SuccessInv, UpdateProfile
  PROVE  SuccessInv'
PROOF
<1> DEFINE k == FirstOf(Pending(mem.next))
<1>1. /\ pc = "update" /\ write.at = "idle"
      /\ UNCHANGED <<fixed, raced, temps, userPath>>
  BY DEF UpdateProfile, Control, Running
<1>2. CASE Pending(mem.next) = {} /\ Return("ok") /\ UNCHANGED disk
  <2> USE DEF fixed
  <2>1. pc' = "off" BY <1>2 DEF Return
  <2>2. goos = "unix" /\ disk[Binary] = Mm /\ mem \in Memory
    BY <1>1 DEF InstallInv, Stages, BinaryUndone, Types
  <2>3. ASSUME NEW j \in Indexes PROVE j < mem.next \/ ~mem.plans[j].changed
    <3>1. j \in mem.next..Len(Profiles) => ~mem.plans[j].changed BY <1>2 DEF Pending
    <3> QED BY <2>2, <3>1, MemoryTypes, Shape
  <2>4. raced = {} => \A j \in Indexes : Configures(disk[resolve[j]], Profiles[j])
    BY <1>1, <2>3 DEF SuccessInv, UpdatedSoFar
  <2>5. raced = {} => Installed(disk) BY <2>2, <2>4 DEF Installed
  <2>6. SuccessInstalls'
    <3>1. Installed(disk)' <=> Installed(disk) BY <1>1, <1>2 DEF Installed
    <3>2. goos # "windows" BY <2>2
    <3> QED BY <1>1, <2>5, <3>1, <3>2 DEF SuccessInstalls
  <2>7. PlansConfigure' BY <2>1 DEF PlansConfigure, HasPlan
  <2>8. UpdatedSoFar' BY <2>1 DEF UpdatedSoFar
  <2>9. WindowsBinary' BY <1>1, <2>1, <2>2 DEF WindowsBinary
  <2> QED BY <1>1, <2>6, <2>7, <2>8, <2>9 DEF SuccessInv
<1>3. CASE Call(resolve[k], mem.plans[k].updated, FALSE)
  BY <1>1, <1>3, UpdateGoesOn DEF Call
<1> QED BY <1>2, <1>3 DEF UpdateProfile

\* A profile that was written has its block.
LEMMA UpdateReturnsSucceeds ==
  ASSUME InstallInv, SuccessInv, UpdateReturns
  PROVE  SuccessInv'
PROOF
<1> DEFINE k == FirstOf(Pending(mem.next))
<1> USE DEF fixed
<1>1. /\ pc = "update" /\ write.at \in {"done", "failed"} /\ write' = NoWrite
      /\ UNCHANGED <<fixed, disk, temps, userPath, raced>>
  BY DEF UpdateReturns
<1>2. /\ Pending(mem.next) # {} /\ mem \in Memory /\ goos = "unix"
  BY <1>1 DEF InstallInv, Calls, Types, Stages
<1>3. k \in Indexes /\ k >= mem.next
  BY <1>2, NextPending
<1>4. \A j \in Pending(mem.next) : k <= j
  <2>1. Pending(mem.next) \in SUBSET Nat BY <1>2, MemoryTypes, Shape DEF Pending
  <2> QED BY <1>2, <2>1, FirstOfIsLeast
<1>5. CASE write.at = "done"
  <2>1. pc' = "update" /\ ended' = ended /\ mem' = [mem EXCEPT !.committed = k, !.next = k + 1]
    BY <1>5 DEF UpdateReturns, Go, Committed
  <2>2. mem'.plans = mem.plans /\ mem'.next = k + 1 BY <1>2, <2>1 DEF Memory
  <2>3. PlansConfigure' BY <1>1, <2>1, <2>2 DEF SuccessInv, PlansConfigure, HasPlan
  <2>4. UpdatedSoFar'
    <3>1. ASSUME raced = {}, NEW j \in Indexes, j < k + 1 \/ ~mem.plans[j].changed
          PROVE  Configures(disk[resolve[j]], Profiles[j])
      <4>1. j < mem.next \/ ~mem.plans[j].changed \/ j \in Pending(mem.next)
        BY <1>2, MemoryTypes, Shape DEF Pending
      <4>2. j \in Pending(mem.next) /\ mem.plans[j].changed => j = k
        BY <1>3, <1>4, <3>1, Shape
      <4> QED BY <1>1, <1>5, <3>1, <4>1, <4>2 DEF SuccessInv, UpdatedSoFar
    <3> QED BY <1>1, <2>1, <2>2, <3>1, NoWriteType DEF UpdatedSoFar
  <2>5. WindowsBinary' BY <1>1, <2>1 DEF SuccessInv, WindowsBinary
  <2>6. SuccessInstalls' BY <2>1 DEF SuccessInstalls
  <2> QED BY <1>1, <2>3, <2>4, <2>5, <2>6 DEF SuccessInv
<1>6. CASE write.at # "done"
  <2>1. pc' = "roll back" /\ mem' = mem BY <1>6 DEF UpdateReturns, Go, Rollback
  <2> QED BY <1>1, <2>1, StageKeeps
<1> QED BY <1>5, <1>6

\* The rollback promises nothing.
LEMMA RollbackSucceeds ==
  ASSUME InstallInv, SuccessInv, RollBackProfile \/ RollBackReturns \/ ProfilesRestored
  PROVE  SuccessInv'
PROOF
<1>1. pc = "roll back" /\ UNCHANGED <<fixed, raced>>
  BY DEF RollBackProfile, RollBackReturns, ProfilesRestored, Control, Running
<1>2. goos = "unix" /\ mem \in Memory BY <1>1 DEF InstallInv, Stages, Types
<1>3. pc' \in {"roll back", "restore"} /\ mem'.plans = mem.plans
  BY <1>1, <1>2
     DEF RollBackProfile, RollBackReturns, ProfilesRestored, Restore, Go, Call, Undone, Memory
<1> QED BY <1>1, <1>2, <1>3, StageKeeps

\* PowerShell sets the PATH, with the executable in place.
LEMMA ConfigurePathSucceeds ==
  ASSUME InstallInv, SuccessInv, ConfigurePath
  PROVE  SuccessInv'
PROOF
<1>1. pc = "configure" /\ UNCHANGED <<fixed, raced, temps, disk>>
  BY DEF ConfigurePath, Control, Running
<1>2. CASE userPath' = TRUE /\ Return("ok")
  <2> USE DEF fixed
  <2>1. pc' = "off" BY <1>2 DEF Return
  <2>2. goos # "unix" /\ disk[Binary] = Mm
    BY <1>1 DEF InstallInv, Stages, SuccessInv, WindowsBinary
  <2>3. Installed(disk)' BY <1>1, <2>2 DEF Installed
  <2>4. SuccessInstalls' BY <1>2, <2>3 DEF SuccessInstalls
  <2>5. PlansConfigure' BY <2>1 DEF PlansConfigure, HasPlan
  <2>6. UpdatedSoFar' BY <2>1 DEF UpdatedSoFar
  <2>7. WindowsBinary' BY <1>1, <2>1 DEF SuccessInv, WindowsBinary
  <2> QED BY <1>1, <2>4, <2>5, <2>6, <2>7 DEF SuccessInv
<1>3. CASE Go("restore", mem)
  BY <1>1, <1>3, StageKeeps DEF Go
<1> QED BY <1>2, <1>3 DEF ConfigurePath

\* The binary's restoration ends as a failure.
LEMMA RestorationSucceeds ==
  ASSUME InstallInv, SuccessInv, RestoreBinary \/ RestoreReturns
  PROVE  SuccessInv'
PROOF
<1>1. pc = "restore" /\ UNCHANGED <<fixed, raced>> /\ IsDisk(disk)
  BY DEF RestoreBinary, RestoreReturns, Control, Running, InstallInv, Types
<1>2. ASSUME NEW broken, Return(Failure(broken)),
             disk' = disk \/ disk' = [disk EXCEPT ![Binary] = Absent]
      PROVE  SuccessInv'
  <2>1. Failure(broken) # "ok" BY DEF Failure
  <2>2. disk'[Binary] = disk[Binary] \/ disk'[Binary] = Absent
    BY <1>1, <1>2, DiskExcept, Shape
  <2> QED BY <1>1, <1>2, <2>1, <2>2, FailureEnds DEF Executable
<1>3. CASE Call(Binary, mem.binary, FALSE)
  BY <1>1, <1>3, StageKeeps DEF Call
<1> QED BY <1>2, <1>3 DEF RestoreBinary, RestoreReturns, RemoveFile

\* A line the user appends takes no block away.
LEMMA EditSucceeds ==
  ASSUME InstallInv, SuccessInv, NEW f \in ProfileFiles, Edit(f)
  PROVE  SuccessInv'
PROOF
<1>1. PICK text \in Texts :
        /\ disk' = [disk EXCEPT ![f] = Data(disk[f]) \o <<text, Newline>>]
        /\ before' = [before EXCEPT ![f] = Data(before[f]) \o <<text, Newline>>]
  BY DEF Edit
<1>2. /\ raced' = IF Planned(f) THEN raced \cup {f} ELSE raced
      /\ UNCHANGED <<goos, resolve, temps, userPath, pc, mem, write, ended>>
  BY DEF Edit
<1>3. /\ IsDisk(disk) /\ IsDisk(before) /\ f \in Files /\ f # Binary
      /\ resolve \in [Indexes -> ProfileFiles]
  BY Shape DEF InstallInv, Types
<1>4. /\ disk'[f] = Data(disk[f]) \o <<text, Newline>>
      /\ \A g \in Files \ {f} : disk'[g] = disk[g]
      /\ disk'[Binary] = disk[Binary] /\ before'[Binary] = before[Binary]
  BY <1>1, <1>3, Shape DEF IsDisk, Files
<1>5. ASSUME NEW k \in Indexes, Configures(disk[resolve[k]], Profiles[k])
      PROVE  Configures(disk'[resolve[k]], Profiles[k])
  <2>1. CASE resolve[k] = f
    <3>1. Data(disk[f]) \in Contents /\ Profiles[k] \in Bodies
      BY <1>3, DataShape DEF IsDisk, Bodies
    <3>2. Configures(Data(disk[f]), Profiles[k])
      <4>1. Data(Data(disk[f])) = Data(disk[f]) BY <3>1, DataShape, Shape
      <4> QED BY <1>5, <2>1, <4>1 DEF Configures
    <3>3. Configures(Data(disk[f]) \o <<text, Newline>>, Profiles[k])
      BY <3>1, <3>2, EditShape
    <3> QED BY <1>4, <2>1, <3>3
  <2>2. CASE resolve[k] # f
    <3>1. resolve[k] \in Files \ {f} BY <1>3, <2>2, Shape
    <3> QED BY <1>4, <1>5, <3>1
  <2> QED BY <2>1, <2>2
<1>6. PlansConfigure' BY <1>2 DEF SuccessInv, PlansConfigure, HasPlan
<1>7. UpdatedSoFar'
  <2>1. Pending(mem.next)' = Pending(mem.next) BY <1>2 DEF Pending
  <2>2. raced' = {} => raced = {} BY <1>2
  <2> QED BY <1>2, <1>5, <2>1, <2>2 DEF SuccessInv, UpdatedSoFar
<1>8. WindowsBinary' BY <1>2, <1>4 DEF SuccessInv, WindowsBinary
<1>9. SuccessInstalls'
  <2>1. raced' = {} => raced = {} BY <1>2
  <2>2. Installed(disk) => Installed(disk)' BY <1>2, <1>4, <1>5 DEF Installed
  <2> QED BY <1>2, <2>1, <2>2 DEF SuccessInv, SuccessInstalls
<1> QED BY <1>2, <1>6, <1>7, <1>8, <1>9 DEF SuccessInv

\* The invariant of success is inductive.
LEMMA Next_SuccessInv ==
  ASSUME LinkedAlike, InstallInv, SuccessInv, [Next]_vars
  PROVE  SuccessInv'
PROOF
<1>1. CASE StartInstall
  <2> USE DEF StartInstall
  <2>1. pc' \in {"plan", "snapshot"} /\ mem = Fresh BY <1>1 DEF InstallInv, Stages
  <2>2. (goos = "unix" => pc' = "plan") /\ mem.next = 1 BY <1>1, <2>1 DEF Fresh
  <2>3. \A k \in Indexes : ~(k < 1) BY Shape
  <2>4. PlansConfigure' BY <1>1, <2>2, <2>3 DEF PlansConfigure, HasPlan
  <2>5. UpdatedSoFar' BY <2>1 DEF UpdatedSoFar
  <2>6. WindowsBinary' BY <1>1, <2>1 DEF SuccessInv, WindowsBinary
  <2>7. SuccessInstalls' BY <2>1 DEF SuccessInstalls
  <2> QED BY <1>1, <2>4, <2>5, <2>6, <2>7 DEF SuccessInv
<1>2. CASE SnapshotBinary
  <2>1. pc = "snapshot" /\ UNCHANGED <<fixed, raced, disk>> /\ mem \in Memory
    BY <1>2 DEF SnapshotBinary, Control, Running, InstallInv, Types
  <2>2. CASE Return("failed") BY <2>1, <2>2, FailureEnds
  <2>3. CASE Go("copy", [mem EXCEPT !.binary = disk[Binary]])
    <3>1. pc' = "copy" /\ mem'.plans = mem.plans BY <2>1, <2>3 DEF Go, Memory
    <3> QED BY <2>1, <3>1, StageKeeps
  <2> QED BY <1>2, <2>2, <2>3 DEF SnapshotBinary
<1>3. CASE Install
  BY <1>2, <1>3, PlanProfileSucceeds, CopyExecutableSucceeds, CopyReturnsSucceeds,
     WriteAtomicSucceeds, UpdateProfileSucceeds, UpdateReturnsSucceeds, RollbackSucceeds,
     ConfigurePathSucceeds, RestorationSucceeds
     DEF Install
<1>4. CASE Kill
  <2>1. PICK result \in {"rollback failed", "killed"} : Return(result) BY <1>4 DEF Kill
  <2> QED BY <1>4, <2>1, FailureEnds DEF Kill
<1>5. CASE \E f \in ProfileFiles : Edit(f) BY <1>5, EditSucceeds
<1>6. CASE UNCHANGED vars
  <2> USE <1>6 DEF vars
  <2>1. PlansConfigure' BY DEF SuccessInv, PlansConfigure, HasPlan
  <2>2. UpdatedSoFar' BY DEF SuccessInv, UpdatedSoFar, Pending
  <2>3. WindowsBinary' BY DEF SuccessInv, WindowsBinary
  <2>4. SuccessInstalls' BY DEF SuccessInv, SuccessInstalls, Installed
  <2> QED BY <2>1, <2>2, <2>3, <2>4 DEF SuccessInv
<1> QED BY <1>1, <1>3, <1>4, <1>5, <1>6 DEF Next

\* A run that reports success has put the executable in place and its block in
\* every profile, or the directory on the Windows PATH, whatever was there
\* before, failed earlier or is edited later (installUnix, installWindows).
THEOREM SuccessIsReal ==
  ASSUME LinkedAlike, NoBitOnWindows
  PROVE  Spec => []SuccessInstalls
PROOF
<1>1. Init => InstallInv /\ SuccessInv
  <2> SUFFICES ASSUME Init PROVE SuccessInv BY Init_InstallInv
  <2>1. pc = "off" /\ ended = "never ran" /\ resolve \in Links BY DEF Init
  <2>2. WindowsBinary BY <2>1 DEF Init, WindowsBinary, NoBitOnWindows
  <2>3. PlansConfigure /\ UpdatedSoFar /\ SuccessInstalls
    BY <2>1 DEF PlansConfigure, HasPlan, UpdatedSoFar, SuccessInstalls
  <2> QED BY <2>1, <2>2, <2>3 DEF SuccessInv
<1>2. InstallInv /\ SuccessInv /\ [Next]_vars => InstallInv' /\ SuccessInv'
  BY Next_InstallInv, Next_SuccessInv
<1>3. SuccessInv => SuccessInstalls BY DEF SuccessInv
<1> QED BY <1>1, <1>2, <1>3, PTL DEF Spec

-----------------------------------------------------------------------------
(* One block.                                                              *)

\* No profile has two blocks unless it has half of one, and none gets half.
ProfilesTidy ==
  \A f \in ProfileFiles :
    Tidy(disk[f]) /\ (~Incomplete(Data(before[f])) => Single(Data(disk[f])))

\* What an install may write to a profile has one block.
PlansSingle ==
  \A k \in Indexes : HasPlan(k) =>
    /\ Single(Data(mem.plans[k].snapshot))
    /\ mem.plans[k].changed => Single(mem.plans[k].updated)

BlocksInv == ProfilesTidy /\ PlansSingle

\* Profiles that stay, or become single, stay tidy.
LEMMA TidyKeeps ==
  ASSUME BlocksInv, UNCHANGED <<goos, before>>,
         \A f \in ProfileFiles : disk'[f] = disk[f] \/ Single(Data(disk'[f])),
         \/ pc' = "off"
         \/ mem'.plans = mem.plans /\ pc \notin {"off", "plan"} /\ pc' \notin {"off", "plan"}
  PROVE  BlocksInv'
PROOF
<1>1. ProfilesTidy' BY DEF BlocksInv, ProfilesTidy, Tidy
<1>2. PlansSingle' BY DEF BlocksInv, PlansSingle, HasPlan
<1> QED BY <1>1, <1>2 DEF BlocksInv

\* A step that leaves the profiles alone.
LEMMA ProfilesUntouched ==
  ASSUME InstallInv, BlocksInv, UNCHANGED <<goos, before>>,
         disk' = disk \/ \E x : disk' = [disk EXCEPT ![Binary] = x],
         \/ pc' = "off"
         \/ mem'.plans = mem.plans /\ pc \notin {"off", "plan"} /\ pc' \notin {"off", "plan"}
  PROVE  BlocksInv'
PROOF
<1>1. \A f \in ProfileFiles : disk'[f] = disk[f]
  BY Shape DEF InstallInv, Types, IsDisk
<1> QED BY <1>1, TidyKeeps

\* A plan to change a profile with at most one block leaves it with one.
LEMMA PlanProfileTidy ==
  ASSUME MarkersApart, InstallInv, BlocksInv, PlanProfile
  PROVE  BlocksInv'
PROOF
<1> DEFINE k == mem.next
<1> DEFINE file == disk[resolve[k]]
<1> DEFINE plan == PlanOf(file, Profiles[k])
<1>1. /\ pc = "plan" /\ k \in Indexes /\ UNCHANGED <<fixed, raced, temps, disk, userPath>>
      /\ mem \in Memory
  BY MemoryTypes, Shape DEF PlanProfile, Control, Running, InstallInv, Stages, Types
<1>2. CASE Return("failed") BY <1>1, <1>2, ProfilesUntouched DEF Return, fixed
<1>3. ASSUME ~Incomplete(Data(file)),
             Go(IF k < Len(Profiles) THEN "plan" ELSE "snapshot",
                [mem EXCEPT !.plans[k] = plan, !.next = k + 1])
      PROVE  BlocksInv'
  <2> USE DEF fixed
  <2>1. /\ pc' = (IF k < Len(Profiles) THEN "plan" ELSE "snapshot")
        /\ mem' = [mem EXCEPT !.plans[k] = plan, !.next = k + 1]
    BY <1>3 DEF Go
  <2>2. /\ resolve[k] \in ProfileFiles /\ (file # Absent => file \in Contents)
        /\ Profiles[k] \in Bodies
    BY <1>1 DEF InstallInv, Types, IsDisk, Bodies
  <2>3. Data(file) \in Contents /\ Single(Data(file))
    BY <1>3, <2>2, DataShape DEF BlocksInv, ProfilesTidy, Tidy
  <2>4. Single(Updated(Data(file), Profiles[k]))
    BY <1>3, <2>2, <2>3, UpdatedShape
  <2>5. Single(Data(plan.snapshot)) /\ (plan.changed => Single(plan.updated))
    BY <2>3, <2>4 DEF PlanOf, NoPlan
  <2> HIDE DEF plan, file, k
  <2>6. /\ mem'.next = k + 1 /\ mem'.plans[k] = plan
        /\ \A j \in Indexes \ {k} : mem'.plans[j] = mem.plans[j]
    BY <1>1, <2>1 DEF Memory
  <2>7. PlansSingle'
    <3>1. ASSUME NEW j \in Indexes, HasPlan(j)'
          PROVE  /\ Single(Data(mem'.plans[j].snapshot))
                 /\ mem'.plans[j].changed => Single(mem'.plans[j].updated)
      <4>1. CASE j = k BY <2>5, <2>6, <4>1
      <4>2. CASE j # k
        <5>1. j < k BY <1>1, <2>1, <2>6, <3>1, <4>2, Shape DEF HasPlan
        <5>2. HasPlan(j) BY <1>1, <3>1, <5>1 DEF HasPlan, k
        <5> QED BY <2>6, <4>2, <5>2 DEF BlocksInv, PlansSingle
      <4> QED BY <4>1, <4>2
    <3> QED BY <3>1 DEF PlansSingle
  <2>8. ProfilesTidy' BY <1>1 DEF BlocksInv, ProfilesTidy
  <2> QED BY <2>7, <2>8 DEF BlocksInv
<1> QED BY <1>2, <1>3 DEF PlanProfile

\* What a call puts into a profile has one block.
LEMMA WriteAtomicTidy ==
  ASSUME InstallInv, BlocksInv, WriteAtomic
  PROVE  BlocksInv'
PROOF
<1> DEFINE k == FirstOf(Pending(mem.next))
<1>1. write.at # "idle" /\ UNCHANGED <<fixed, raced, userPath, pc, mem, ended>>
  BY DEF WriteAtomic, CreateTemp, FillTemp, RemoveOld, Rename, DropTemp, At
<1>2. /\ pc \in {"copy", "update", "roll back", "restore"} /\ write.to \in Files
      /\ write.to = Binary <=> pc \in {"copy", "restore"}
      /\ write.to = Binary => write.data \in Binaries
      /\ write.to # Binary => write.to \in ProfileFiles /\ write.data \in Contents
      /\ IsDisk(disk) /\ mem \in Memory
  BY <1>1, CallTypes DEF InstallInv, Types
<1>3. CASE disk' = disk
  BY <1>1, <1>2, <1>3, ProfilesUntouched DEF fixed
<1>4. CASE write.to = Binary /\ \E x : disk' = [disk EXCEPT ![write.to] = x]
  BY <1>1, <1>2, <1>4, ProfilesUntouched DEF fixed
<1>5. CASE write.to # Binary /\ disk' = [disk EXCEPT ![write.to] = write.data]
  <2>1. /\ disk'[write.to] = write.data
        /\ \A f \in Files \ {write.to} : disk'[f] = disk[f]
    BY <1>2, <1>5, DiskExcept
  <2>2. Single(write.data)
    <3>1. CASE pc = "update"
      <4>1. /\ Pending(mem.next) # {} /\ goos = "unix" /\ write.data = mem.plans[k].updated
        BY <1>1, <3>1 DEF InstallInv, Calls, Stages
      <4>2. k \in Indexes /\ mem.plans[k].changed BY <1>2, <4>1, NextPending
      <4> QED BY <3>1, <4>1, <4>2 DEF BlocksInv, PlansSingle, HasPlan
    <3>2. CASE pc = "roll back"
      <4> DEFINE j == mem.committed
      <4>1. j > 0 /\ goos = "unix" /\ write.data = mem.plans[j].snapshot
        BY <1>1, <3>2 DEF InstallInv, Calls, Stages
      <4>2. j \in Indexes BY <1>2, <4>1, MemoryTypes
      <4>3. Data(write.data) = write.data BY <1>2, <1>5, DataShape, Shape
      <4> QED BY <3>2, <4>1, <4>2, <4>3 DEF BlocksInv, PlansSingle, HasPlan
    <3> QED BY <1>2, <1>5, <3>1, <3>2
  <2>3. Data(write.data) = write.data BY <1>2, <1>5, DataShape, Shape
  <2>4. \A f \in ProfileFiles : disk'[f] = disk[f] \/ Single(Data(disk'[f]))
    BY <2>1, <2>2, <2>3, Shape
  <2> QED BY <1>1, <1>2, <2>4, TidyKeeps DEF fixed
<1>6. \/ disk' = disk
      \/ RemoveOld /\ disk' = [disk EXCEPT ![write.to] = Absent]
      \/ disk' = [disk EXCEPT ![write.to] = write.data]
  BY DEF WriteAtomic, CreateTemp, FillTemp, RemoveOld, Rename, DropTemp
<1>7. RemoveOld => write.to = Binary
  BY <1>1 DEF RemoveOld, At, InstallInv, Calls, ReplaceFirst
<1> QED BY <1>3, <1>4, <1>5, <1>6, <1>7

\* A file that the rollback removes has no block.
LEMMA RollBackProfileTidy ==
  ASSUME InstallInv, BlocksInv, RollBackProfile
  PROVE  BlocksInv'
PROOF
<1> DEFINE file == resolve[mem.committed]
<1>1. pc = "roll back" /\ UNCHANGED fixed /\ mem \in Memory /\ IsDisk(disk)
  BY DEF RollBackProfile, Control, Running, InstallInv, Types
<1>2. pc' = "roll back" /\ mem'.plans = mem.plans
  BY <1>1 DEF RollBackProfile, Restore, Go, Call, Undone, Memory
<1>3. disk' = disk \/ disk' = [disk EXCEPT ![file] = Absent]
  BY DEF RollBackProfile, Restore, RemoveFile, Call
<1>4. Single(Data(Absent)) BY DataShape
<1>5. \A f \in ProfileFiles : disk'[f] = disk[f] \/ Single(Data(disk'[f]))
  BY <1>1, <1>3, <1>4, Shape DEF IsDisk
<1> QED BY <1>1, <1>2, <1>5, TidyKeeps DEF fixed

\* A user's line is no marker.
LEMMA EditTidy ==
  ASSUME MarkersApart, InstallInv, BlocksInv, NEW f \in ProfileFiles, Edit(f)
  PROVE  BlocksInv'
PROOF
<1>1. PICK text \in Texts :
        /\ disk' = [disk EXCEPT ![f] = Data(disk[f]) \o <<text, Newline>>]
        /\ before' = [before EXCEPT ![f] = Data(before[f]) \o <<text, Newline>>]
  BY DEF Edit
<1>2. UNCHANGED <<goos, pc, mem>> BY DEF Edit
<1>3. IsDisk(disk) /\ IsDisk(before) /\ f \in Files BY Shape DEF InstallInv, Types
<1>4. /\ disk'[f] = Data(disk[f]) \o <<text, Newline>>
      /\ before'[f] = Data(before[f]) \o <<text, Newline>>
      /\ \A g \in Files \ {f} : disk'[g] = disk[g] /\ before'[g] = before[g]
  BY <1>1, <1>3 DEF IsDisk
<1>5. Data(disk[f]) \in Contents /\ Data(before[f]) \in Contents
  BY <1>3, DataShape DEF IsDisk
<1> DEFINE all == disk'[f]
<1>6. /\ all \in Contents /\ (Single(Data(disk[f])) => Single(all))
      /\ (Incomplete(Data(disk[f])) => Incomplete(all))
  BY <1>4, <1>5, EditShape
<1>7. /\ before'[f] \in Contents
      /\ (Incomplete(Data(before[f])) => Incomplete(before'[f]))
  BY <1>4, <1>5, EditShape
<1>8. Data(all) = all /\ Data(before'[f]) = before'[f] BY <1>6, <1>7, DataShape, Shape
<1>9. ProfilesTidy'
  <2>1. ASSUME NEW g \in ProfileFiles
        PROVE  Tidy(disk'[g]) /\ (~Incomplete(Data(before'[g])) => Single(Data(disk'[g])))
    <3>1. CASE g = f BY <1>6, <1>7, <1>8, <3>1 DEF BlocksInv, ProfilesTidy, Tidy
    <3>2. CASE g # f
      <4>1. g \in Files \ {f} BY <3>2, Shape
      <4> QED BY <1>4, <4>1 DEF BlocksInv, ProfilesTidy
    <3> QED BY <3>1, <3>2
  <2> QED BY <2>1 DEF ProfilesTidy, Tidy
<1>10. PlansSingle' BY <1>2 DEF BlocksInv, PlansSingle, HasPlan
<1> QED BY <1>9, <1>10 DEF BlocksInv

\* The invariant of blocks is inductive.
LEMMA Next_BlocksInv ==
  ASSUME MarkersApart, InstallInv, BlocksInv, [Next]_vars
  PROVE  BlocksInv'
PROOF
<1>0. mem \in Memory BY DEF InstallInv, Types
<1>1. CASE StartInstall
  <2> USE DEF StartInstall
  <2>1. mem = Fresh BY <1>1 DEF InstallInv, Stages
  <2>2. (goos = "unix" => pc' = "plan") /\ mem.next = 1 BY <1>1, <2>1 DEF Fresh
  <2>3. \A k \in Indexes : ~(k < 1) BY Shape
  <2>4. PlansSingle' BY <1>1, <2>2, <2>3 DEF PlansSingle, HasPlan
  <2>5. ProfilesTidy' BY <1>1 DEF BlocksInv, ProfilesTidy, Tidy
  <2> QED BY <2>4, <2>5 DEF BlocksInv
<1>2. CASE SnapshotBinary \/ CopyReturns \/ UpdateProfile \/ UpdateReturns \/ RollBackReturns
             \/ ProfilesRestored \/ ConfigurePath \/ RestoreReturns
  <2>1. pc \notin {"off", "plan"} /\ UNCHANGED <<fixed, disk>>
    BY <1>2
       DEF SnapshotBinary, CopyReturns, UpdateProfile, UpdateReturns, RollBackReturns,
           ProfilesRestored, ConfigurePath, RestoreReturns, Control, Running, Return, Call
  <2>2. pc' = "off" \/ (mem'.plans = mem.plans /\ pc' # "plan")
    BY <1>0, <1>2, <2>1
       DEF SnapshotBinary, CopyReturns, UpdateProfile, UpdateReturns, RollBackReturns,
           ProfilesRestored, ConfigurePath, RestoreReturns, Return, Call, Go, Copied, Committed,
           Undone, Rollback, Memory
  <2> QED BY <2>1, <2>2, ProfilesUntouched DEF fixed
<1>3. CASE CopyExecutable \/ RestoreBinary
  <2>1. pc \notin {"off", "plan"} /\ UNCHANGED fixed
    BY <1>3 DEF CopyExecutable, RestoreBinary, Control, Running
  <2>2. pc' = "off" \/ (mem'.plans = mem.plans /\ pc' # "plan")
    BY <1>0, <1>3, <2>1 DEF CopyExecutable, RestoreBinary, Return, Call, Go, Copied, Memory
  <2>3. disk' = disk \/ \E x : disk' = [disk EXCEPT ![Binary] = x]
    BY <1>3 DEF CopyExecutable, RestoreBinary, RemoveFile, Call, Copied
  <2> QED BY <2>1, <2>2, <2>3, ProfilesUntouched DEF fixed
<1>4. CASE Install
  BY <1>2, <1>3, <1>4, PlanProfileTidy, WriteAtomicTidy, RollBackProfileTidy DEF Install
<1>5. CASE Kill
  BY <1>5, ProfilesUntouched DEF Kill, Return, fixed
<1>6. CASE \E f \in ProfileFiles : Edit(f) BY <1>6, EditTidy
<1>7. CASE UNCHANGED vars
  BY <1>7 DEF vars, BlocksInv, ProfilesTidy, PlansSingle, HasPlan, Tidy
<1> QED BY <1>1, <1>4, <1>5, <1>6, <1>7 DEF Next

\* A disk no installer has touched.
LEMMA Init_BlocksInv ==
  ASSUME OneBlockAtFirst, Init
  PROVE  BlocksInv
BY DEF Init, OneBlockAtFirst, BlocksInv, ProfilesTidy, PlansSingle, HasPlan, Tidy

\* However runs fail, die and follow one another, no profile that had at most
\* one block gets a second one or half of one (planProfileBlock).
THEOREM BlocksAreUnique ==
  ASSUME MarkersApart, OneBlockAtFirst
  PROVE  Spec => []OneBlock
PROOF
<1>1. Init => InstallInv /\ BlocksInv BY Init_InstallInv, Init_BlocksInv
<1>2. InstallInv /\ BlocksInv /\ [Next]_vars => InstallInv' /\ BlocksInv'
  BY Next_InstallInv, Next_BlocksInv
<1>3. InstallInv /\ BlocksInv => OneBlock
  <2> SUFFICES ASSUME InstallInv, BlocksInv, NEW f \in ProfileFiles,
                      ~Incomplete(Data(before[f]))
               PROVE  LET data == Data(disk[f])
                          count(token) == Cardinality({i \in DOMAIN data : data[i] = token})
                      IN  count(Start) <= 1 /\ count(End) = count(Start)
    BY DEF OneBlock
  <2>1. Single(Data(disk[f])) BY DEF BlocksInv, ProfilesTidy
  <2>2. Data(disk[f]) \in Contents BY DataShape DEF InstallInv, Types, IsDisk
  <2> QED BY <2>1, <2>2, SingleCounts
<1> QED BY <1>1, <1>2, <1>3, PTL DEF Spec

-----------------------------------------------------------------------------
(* A second run.                                                           *)

\* A run that has found everything installed, and changed nothing.
Idle ==
  /\ disk = before /\ write.at = "idle" /\ ~mem.changed
  /\ pc \in {"plan", "snapshot", "copy", "update", "configure", "restore"}
  /\ \A k \in Indexes : HasPlan(k) => ~mem.plans[k].changed

IdleInv == edits \in Nat /\ (pc # "off" /\ Installed(before) => Idle)

\* The block is found by the plan.
LEMMA InstalledIsPlanned ==
  ASSUME InstallInv, BlocksInv, goos = "unix", Installed(before), disk = before,
         NEW k \in Indexes, ~Incomplete(Data(disk[resolve[k]]))
  PROVE  ~PlanOf(disk[resolve[k]], Profiles[k]).changed
PROOF
<1> DEFINE file == disk[resolve[k]]
<1>1. resolve[k] \in ProfileFiles /\ (file # Absent => file \in Contents) /\ Profiles[k] \in Bodies
  BY DEF InstallInv, Types, IsDisk, Bodies
<1>2. Single(Data(file)) BY <1>1 DEF BlocksInv, ProfilesTidy, Tidy
<1>3. Data(file) \in Contents BY <1>1, DataShape
<1>4. Configures(file, Profiles[k]) BY DEF Installed
<1>5. Data(Data(file)) = Data(file) BY <1>3, DataShape, Shape
<1>6. Configures(Data(file), Profiles[k]) BY <1>4, <1>5 DEF Configures
<1>7. HasBlock(Data(file), Profiles[k]) BY <1>1, <1>2, <1>3, <1>6, HasBlockShape
<1> QED BY <1>7 DEF PlanOf, NoPlan

\* A step of an idle run changes no file, and the run stays idle or ends.
LEMMA IdleStep ==
  ASSUME InstallInv, BlocksInv, Installed(before), pc # "off", Idle, Install \/ Kill
  PROVE  /\ disk' = disk /\ temps' = temps
         /\ UNCHANGED <<fixed>> /\ (pc' = "off" \/ Idle')
PROOF
<1> USE DEF fixed
<1>0. /\ mem \in Memory /\ write.at = "idle" /\ ~mem.changed /\ disk = before
      /\ pc \in {"plan", "snapshot", "copy", "update", "configure", "restore"}
      /\ disk[Binary] = Mm
  BY DEF InstallInv, Types, Idle, Installed
<1>1. CASE PlanProfile
  <2> DEFINE k == mem.next
  <2> DEFINE plan == PlanOf(disk[resolve[k]], Profiles[k])
  <2>1. /\ pc = "plan" /\ k \in Indexes /\ UNCHANGED <<fixed, raced, temps, disk>>
        /\ goos = "unix"
    BY <1>0, <1>1, MemoryTypes, Shape DEF PlanProfile, Control, Running, InstallInv, Stages
  <2>2. CASE Return("failed") BY <2>1, <2>2 DEF Return
  <2>3. ASSUME ~Incomplete(Data(disk[resolve[k]])), UNCHANGED write,
               Go(IF k < Len(Profiles) THEN "plan" ELSE "snapshot",
                  [mem EXCEPT !.plans[k] = plan, !.next = k + 1])
        PROVE  Idle'
    <3>1. /\ pc' = (IF k < Len(Profiles) THEN "plan" ELSE "snapshot")
          /\ mem' = [mem EXCEPT !.plans[k] = plan, !.next = k + 1]
      BY <2>3 DEF Go
    <3>2. ~plan.changed BY <1>0, <2>1, <2>3, InstalledIsPlanned
    <3> HIDE DEF plan, k
    <3>3. /\ mem'.next = k + 1 /\ mem'.plans[k] = plan /\ mem'.changed = mem.changed
          /\ \A j \in Indexes \ {k} : mem'.plans[j] = mem.plans[j]
      BY <1>0, <2>1, <3>1 DEF Memory
    <3>4. ASSUME NEW j \in Indexes, HasPlan(j)' PROVE ~mem'.plans[j].changed
      <4>1. CASE j = k BY <3>2, <3>3, <4>1
      <4>2. CASE j # k
        <5>1. j < k BY <2>1, <3>1, <3>3, <3>4, <4>2, Shape DEF HasPlan
        <5>2. HasPlan(j) BY <2>1, <5>1 DEF HasPlan, k
        <5> QED BY <3>3, <4>2, <5>2 DEF Idle
      <4> QED BY <4>1, <4>2
    <3>5. pc' \in {"plan", "snapshot"} BY <3>1
    <3> QED BY <1>0, <2>1, <2>3, <3>3, <3>4, <3>5 DEF Idle
  <2> QED BY <1>1, <2>1, <2>2, <2>3 DEF PlanProfile
<1>2. ASSUME pc # "plan", mem'.plans = mem.plans, ~mem'.changed, write'.at = "idle",
             UNCHANGED <<fixed, disk>>, pc' \in {"copy", "update", "configure", "restore"}
      PROVE  Idle'
  BY <1>0, <1>2 DEF Idle, HasPlan
<1>3. CASE SnapshotBinary
  <2>1. UNCHANGED <<fixed, temps, disk>> /\ pc = "snapshot"
    BY <1>3 DEF SnapshotBinary, Control, Running
  <2>2. CASE Return("failed") BY <2>1, <2>2 DEF Return
  <2>3. CASE Go("copy", [mem EXCEPT !.binary = disk[Binary]]) /\ UNCHANGED write
    <3>1. pc' = "copy" /\ mem'.plans = mem.plans /\ mem'.changed = mem.changed
      BY <1>0, <2>3 DEF Go, Memory
    <3> QED BY <1>0, <1>2, <2>1, <2>3, <3>1
  <2> QED BY <1>3, <2>2, <2>3 DEF SnapshotBinary
<1>4. CASE CopyExecutable
  <2>1. UNCHANGED <<fixed, temps>> /\ pc = "copy" BY <1>4 DEF CopyExecutable, Control, Running
  <2>2. Same(disk[Binary]) /\ disk[Binary].exec
    <3>1. Mm # Absent BY Shape
    <3> QED BY <1>0, <3>1 DEF Same, Mm
  <2>3. CASE Return("copy failed") /\ UNCHANGED disk BY <2>1, <2>3 DEF Return
  <2>4. CASE Copied(FALSE) /\ UNCHANGED <<disk, write>>
    <3>1. pc' \in {"update", "configure"} /\ mem'.plans = mem.plans /\ ~mem'.changed
      BY <1>0, <2>4 DEF Copied, Go, Memory
    <3> QED BY <1>0, <1>2, <2>1, <2>4, <3>1
  <2> QED BY <1>4, <2>2, <2>3, <2>4 DEF CopyExecutable
<1>5. CASE UpdateProfile
  <2>1. UNCHANGED <<fixed, temps>> /\ pc = "update" BY <1>5 DEF UpdateProfile, Control, Running
  <2>2. goos = "unix" BY <2>1 DEF InstallInv, Stages
  <2>3. \A k \in Indexes : ~mem.plans[k].changed BY <2>1, <2>2 DEF Idle, HasPlan
  <2>4. Pending(mem.next) = {} BY <1>0, <2>3, MemoryTypes, Shape DEF Pending
  <2> QED BY <1>5, <2>1, <2>4 DEF UpdateProfile, Return
<1>6. CASE ConfigurePath
  <2>1. UNCHANGED <<fixed, temps, disk>> /\ pc = "configure"
    BY <1>6 DEF ConfigurePath, Control, Running
  <2>2. CASE Return("ok") BY <2>1, <2>2 DEF Return
  <2>3. CASE Go("restore", mem) /\ UNCHANGED write
    <3>1. pc' = "restore" /\ mem' = mem BY <2>3 DEF Go
    <3> QED BY <1>0, <1>2, <2>1, <2>3, <3>1
  <2> QED BY <1>6, <2>2, <2>3 DEF ConfigurePath
<1>7. CASE RestoreBinary
  BY <1>0, <1>7 DEF RestoreBinary, Control, Running, Return
<1>8. CASE Kill
  BY <1>8 DEF Kill, Return
<1>9. /\ ~WriteAtomic /\ ~CopyReturns /\ ~UpdateReturns /\ ~RollBackReturns /\ ~RestoreReturns
      /\ ~RollBackProfile /\ ~ProfilesRestored
  BY <1>0
     DEF WriteAtomic, CreateTemp, FillTemp, RemoveOld, Rename, DropTemp, At, CopyReturns,
         UpdateReturns, RollBackReturns, RestoreReturns, RollBackProfile, ProfilesRestored,
         Control, Running
<1> QED BY <1>1, <1>3, <1>4, <1>5, <1>6, <1>7, <1>8, <1>9 DEF Install

\* A user's line installs nothing.
LEMMA EditInstallsNothing ==
  ASSUME MarkersApart, InstallInv, IdleInv, NEW f \in ProfileFiles, Edit(f)
  PROVE  IdleInv' /\ edits' # edits
PROOF
<1>1. PICK text \in Texts :
        /\ disk' = [disk EXCEPT ![f] = Data(disk[f]) \o <<text, Newline>>]
        /\ before' = [before EXCEPT ![f] = Data(before[f]) \o <<text, Newline>>]
  BY DEF Edit
<1>2. UNCHANGED <<goos, resolve, pc, mem, write>> /\ edits' = edits + 1 BY DEF Edit
<1>3. edits' \in Nat /\ edits' # edits BY <1>2 DEF IdleInv
<1>4. /\ IsDisk(before) /\ f \in Files /\ f # Binary /\ resolve \in [Indexes -> ProfileFiles]
  BY Shape DEF InstallInv, Types
<1>5. /\ before'[f] = Data(before[f]) \o <<text, Newline>>
      /\ \A g \in Files \ {f} : before'[g] = before[g]
      /\ before'[Binary] = before[Binary]
  BY <1>1, <1>4, Shape DEF IsDisk
<1>6. ASSUME NEW k \in Indexes, Configures(before'[resolve[k]], Profiles[k])
      PROVE  Configures(before[resolve[k]], Profiles[k])
  <2>1. CASE resolve[k] = f
    <3>1. Data(before[f]) \in Contents /\ Profiles[k] \in Bodies
      BY <1>4, DataShape DEF IsDisk, Bodies
    <3>2. Configures(Data(before[f]) \o <<text, Newline>>, Profiles[k])
      BY <1>5, <1>6, <2>1
    <3>3. Configures(Data(before[f]), Profiles[k]) BY <3>1, <3>2, EditShape
    <3>4. Data(Data(before[f])) = Data(before[f]) BY <3>1, DataShape, Shape
    <3> QED BY <2>1, <3>3, <3>4 DEF Configures
  <2>2. CASE resolve[k] # f
    <3>1. resolve[k] \in Files \ {f} BY <1>4, <2>2, Shape
    <3> QED BY <1>5, <1>6, <3>1
  <2> QED BY <2>1, <2>2
<1>7. Installed(before)' => Installed(before) BY <1>2, <1>5, <1>6 DEF Installed
<1>8. Idle => Idle' BY <1>1, <1>2 DEF Idle, HasPlan
<1> QED BY <1>2, <1>3, <1>7, <1>8 DEF IdleInv

\* The invariant of a run that has nothing to do is inductive.
LEMMA Next_IdleInv ==
  ASSUME MarkersApart, InstallInv, BlocksInv, IdleInv, [Next]_vars
  PROVE  /\ IdleInv'
         /\ pc # "off" /\ Installed(before) /\ edits' = edits => disk' = disk /\ temps' = temps
PROOF
<1>1. CASE StartInstall
  <2> USE DEF StartInstall
  <2>1. mem = Fresh /\ write.at = "idle" BY <1>1 DEF InstallInv, Stages, Calls
  <2>2. /\ (goos = "unix" => pc' = "plan") /\ pc' \in {"plan", "snapshot"}
        /\ mem.next = 1 /\ ~mem.changed
    BY <1>1, <2>1 DEF Fresh
  <2>3. \A k \in Indexes : ~(k < 1) BY Shape
  <2>4. Idle' BY <1>1, <2>1, <2>2, <2>3 DEF Idle, HasPlan
  <2> QED BY <1>1, <2>4 DEF IdleInv
<1>2. CASE Install \/ Kill
  <2>1. /\ UNCHANGED fixed
        /\ pc # "off"
    <3>1. CASE Kill BY <3>1 DEF Kill
    <3>2. CASE Install
      BY <3>2, CallTypes
         DEF Install, PlanProfile, SnapshotBinary, CopyExecutable, CopyReturns, WriteAtomic,
             CreateTemp, FillTemp, RemoveOld, Rename, DropTemp, At, UpdateProfile, UpdateReturns,
             RollBackProfile, RollBackReturns, ProfilesRestored, ConfigurePath, RestoreBinary,
             RestoreReturns, Control, Running
    <3> QED BY <1>2, <3>1, <3>2
  <2>2. Installed(before)' <=> Installed(before) BY <2>1 DEF fixed, Installed
  <2>3. Installed(before) =>
          /\ disk' = disk /\ temps' = temps
          /\ (pc' = "off" \/ Idle')
    BY <1>2, <2>1, IdleStep DEF IdleInv
  <2> QED BY <2>1, <2>2, <2>3 DEF IdleInv, fixed
<1>3. CASE \E f \in ProfileFiles : Edit(f) BY <1>3, EditInstallsNothing
<1>4. CASE UNCHANGED vars
  BY <1>4 DEF vars, IdleInv, Idle, Installed, HasPlan
<1> QED BY <1>1, <1>2, <1>3, <1>4 DEF Next

\* The install is idempotent: a run that finds the executable and every block
\* in place changes no file and makes no temporary one, whether it ends well,
\* fails or is killed (README.md:594).
THEOREM InstallIsIdempotent ==
  ASSUME MarkersApart, OneBlockAtFirst
  PROVE  Spec => RerunChangesNothing
PROOF
<1>1. Init => InstallInv /\ BlocksInv /\ IdleInv
  <2>1. Init => IdleInv
    <3>1. Init => edits = 0 /\ pc = "off" BY DEF Init
    <3> QED BY <3>1 DEF IdleInv
  <2> QED BY <2>1, Init_InstallInv, Init_BlocksInv
<1>2. InstallInv /\ BlocksInv /\ IdleInv /\ [Next]_vars => InstallInv' /\ BlocksInv' /\ IdleInv'
  BY Next_InstallInv, Next_BlocksInv, Next_IdleInv
<1>3. InstallInv /\ BlocksInv /\ IdleInv /\ [Next]_vars =>
        [pc # "off" /\ Installed(before) /\ edits' = edits
         => disk' = disk /\ temps' = temps]_vars
  BY Next_IdleInv
<1> QED BY <1>1, <1>2, <1>3, PTL DEF Spec, RerunChangesNothing

-----------------------------------------------------------------------------
(* The user's text.                                                        *)

\* Newlines are not among what users write.
LinesApart == Newline \notin Texts

\* The function TextsOf defines, for the first m tokens.
TextsUpTo(g, data, m) ==
  g = [n \in 0..m |->
         IF n = 0 THEN <<>>
         ELSE IF data[n] \in Texts THEN Append(g[n - 1], data[n]) ELSE g[n - 1]]

\* Some function satisfies the equation, so the recursive definition is sound.
LEMMA TextsExist ==
  ASSUME NEW data
  PROVE  \A m \in Nat : \E g : TextsUpTo(g, data, m)
PROOF
<1> DEFINE Bad == {m \in Nat : ~\E g : TextsUpTo(g, data, m)}
<1> SUFFICES ASSUME Bad # {} PROVE FALSE
  OBVIOUS
<1>1. PICK m \in Bad : \A k \in Bad : m <= k
  <2>1. Bad \in SUBSET Nat OBVIOUS
  <2> QED BY <2>1, FirstOfIsLeast
<1>2. CASE m = 0
  <2>1. TextsUpTo([n \in 0..0 |-> <<>>], data, 0) BY DEF TextsUpTo
  <2> QED BY <1>1, <1>2, <2>1
<1>3. CASE m # 0
  <2>1. m \in Nat /\ m - 1 \in Nat /\ m - 1 \notin Bad BY <1>1, <1>3
  <2>2. PICK g : TextsUpTo(g, data, m - 1) BY <2>1
  <2> DEFINE last == IF data[m] \in Texts THEN Append(g[m - 1], data[m]) ELSE g[m - 1]
  <2> DEFINE f == [n \in 0..m |-> IF n = m THEN last ELSE g[n]]
  <2>3. \A n \in 0..(m - 1) :
          g[n] = IF n = 0 THEN <<>>
                 ELSE IF data[n] \in Texts THEN Append(g[n - 1], data[n]) ELSE g[n - 1]
    BY <2>2 DEF TextsUpTo
  <2> HIDE DEF last
  <2>4. \A n \in 0..(m - 1) : f[n] = g[n] BY <2>1
  <2>5. ASSUME NEW n \in 0..m
        PROVE  f[n] = IF n = 0 THEN <<>>
                      ELSE IF data[n] \in Texts THEN Append(f[n - 1], data[n]) ELSE f[n - 1]
    <3>1. CASE n = m
      <4>1. m - 1 \in 0..(m - 1) /\ n # 0 BY <1>3, <2>1, <3>1
      <4>2. f[n] = last /\ f[n - 1] = g[m - 1] BY <2>4, <3>1, <4>1
      <4> QED BY <3>1, <4>1, <4>2 DEF last
    <3>2. CASE n # m
      <4>1. n \in 0..(m - 1) /\ (n # 0 => n - 1 \in 0..(m - 1)) BY <2>1, <3>2
      <4> QED BY <2>3, <2>4, <4>1
    <3> QED BY <3>1, <3>2
  <2>6. TextsUpTo(f, data, m)
    <3> DEFINE h == [n \in 0..m |-> IF n = 0 THEN <<>>
                       ELSE IF data[n] \in Texts THEN Append(f[n - 1], data[n]) ELSE f[n - 1]]
    <3>1. f = h BY <2>5
    <3> QED BY <3>1 DEF TextsUpTo
  <2> QED BY <1>1, <2>6
<1> QED BY <1>2, <1>3

\* What has the same first tokens has the same texts among them.
LEMMA TextsAgree ==
  ASSUME NEW m \in Nat, NEW n \in Nat, NEW g, NEW h, NEW a, NEW b,
         TextsUpTo(g, a, m), TextsUpTo(h, b, n), m <= n,
         \A i \in 1..m : a[i] = b[i]
  PROVE  \A i \in 0..m : g[i] = h[i]
PROOF
<1> DEFINE Bad == {i \in 0..m : g[i] # h[i]}
<1> SUFFICES ASSUME Bad # {} PROVE FALSE
  OBVIOUS
<1>1. PICK i \in Bad : \A k \in Bad : i <= k
  <2>1. Bad \in SUBSET Nat OBVIOUS
  <2> QED BY <2>1, FirstOfIsLeast
<1>2. i \in 0..m /\ i \in 0..n BY <1>1
<1>3. g[i] = IF i = 0 THEN <<>>
             ELSE IF a[i] \in Texts THEN Append(g[i - 1], a[i]) ELSE g[i - 1]
  BY <1>2 DEF TextsUpTo
<1>4. h[i] = IF i = 0 THEN <<>>
             ELSE IF b[i] \in Texts THEN Append(h[i - 1], b[i]) ELSE h[i - 1]
  BY <1>2 DEF TextsUpTo
<1>5. i # 0 => i \in 1..m /\ i - 1 \in 0..m /\ i - 1 \notin Bad BY <1>1, <1>2
<1>6. g[i] = h[i] BY <1>3, <1>4, <1>5
<1> QED BY <1>1, <1>6

\* A token behind contents adds itself to the texts if it is one.
LEMMA TextsOfLonger ==
  ASSUME NEW data \in Contents, NEW all \in Contents, Len(all) = Len(data) + 1,
         \A i \in 1..Len(data) : all[i] = data[i]
  PROVE  TextsOf(all) = IF all[Len(all)] \in Texts THEN Append(TextsOf(data), all[Len(all)])
                        ELSE TextsOf(data)
PROOF
<1> DEFINE m == Len(data)
           n == Len(all)
<1> DEFINE g == CHOOSE g : TextsUpTo(g, data, m)
           h == CHOOSE h : TextsUpTo(h, all, n)
<1>1. m \in Nat /\ n \in Nat /\ n = m + 1 BY ContentsShape
<1>2. TextsUpTo(g, data, m) /\ TextsUpTo(h, all, n) BY <1>1, TextsExist
<1>3. TextsOf(data) = g[m] /\ TextsOf(all) = h[n] BY DEF TextsOf, TextsUpTo
<1> HIDE DEF g, h, m, n
<1>4. g[m] = h[m]
  <2>1. \A i \in 1..m : data[i] = all[i] BY DEF m
  <2>2. m <= n /\ m \in 0..m BY <1>1
  <2>3. \A i \in 0..m : g[i] = h[i] BY <1>1, <1>2, <2>1, <2>2, TextsAgree
  <2> QED BY <2>2, <2>3
<1>5. n \in 0..n /\ n # 0 /\ n - 1 = m BY <1>1
<1>6. h[n] = IF all[n] \in Texts THEN Append(h[m], all[n]) ELSE h[m]
  BY <1>2, <1>5 DEF TextsUpTo
<1> QED BY <1>3, <1>4, <1>6 DEF n

\* One token more, and its text if it is one.
LEMMA TextsOfTail ==
  ASSUME NEW data \in Contents, NEW x \in Texts \cup Bodies \cup {Start, End, Newline}
  PROVE  /\ data \o <<x>> \in Contents
         /\ TextsOf(data \o <<x>>) = IF x \in Texts THEN Append(TextsOf(data), x) ELSE TextsOf(data)
PROOF
<1> DEFINE all == data \o <<x>>
<1>1. <<x>> \in Contents /\ Len(<<x>>) = 1 /\ <<x>>[1] = x BY DEF Contents
<1>2. /\ all \in Contents /\ Len(all) = Len(data) + 1 /\ Len(data) \in Nat
      /\ \A i \in 1..Len(data) : all[i] = data[i]
      /\ all[Len(data) + 1] = x
  <2>1. <<x>> \in Contents BY <1>1
  <2>2. /\ all \in Contents /\ Len(all) = Len(data) + Len(<<x>>) /\ Len(data) \in Nat
        /\ \A i \in 1..Len(data) : all[i] = data[i]
        /\ \A i \in 1..Len(<<x>>) : all[Len(data) + i] = <<x>>[i]
    BY <2>1, ConcatShape
  <2>3. 1 \in 1..Len(<<x>>) BY <1>1
  <2> QED BY <1>1, <2>2, <2>3
<1> HIDE DEF all
<1>3. all[Len(all)] = x BY <1>2
<1>4. TextsOf(all) = IF all[Len(all)] \in Texts THEN Append(TextsOf(data), all[Len(all)])
                     ELSE TextsOf(data)
  BY <1>2, TextsOfLonger
<1>5. TextsOf(all) = IF x \in Texts THEN Append(TextsOf(data), x) ELSE TextsOf(data)
  BY <1>3, <1>4
<1> QED BY <1>2, <1>5 DEF all

\* Sequences of two parts, part by part.
LEMMA ConcatParts ==
  ASSUME NEW a \in Contents, NEW b \in Contents
  PROVE  /\ \A n \in 0..Len(a) : SubSeq(a \o b, 1, n) = SubSeq(a, 1, n)
         /\ \A n \in (Len(a) + 1)..(Len(a) + Len(b) + 1) :
              SubSeq(a \o b, n, Len(a) + Len(b)) = SubSeq(b, n - Len(a), Len(b))
         /\ \A n \in 1..(Len(a) + 1) :
              SubSeq(a \o b, n, Len(a) + Len(b)) = SubSeq(a, n, Len(a)) \o b
PROOF
<1> DEFINE all == a \o b
<1> DEFINE la == Len(a)
           lb == Len(b)
           T == Texts \cup Bodies \cup {Start, End, Newline}
<1>1. /\ all \in Contents /\ Len(all) = la + lb /\ la \in Nat /\ lb \in Nat
      /\ \A i \in 1..la : all[i] = a[i]
      /\ \A i \in 1..lb : all[la + i] = b[i]
  BY ConcatShape
<1>2. /\ \A i \in 1..la : a[i] \in T
      /\ \A i \in 1..lb : b[i] \in T
      /\ \A i \in 1..(la + lb) : all[i] \in T
  BY <1>1, ContentsShape
<1> HIDE DEF all, la, lb, T
<1>3. ASSUME NEW n \in 0..la PROVE SubSeq(all, 1, n) = SubSeq(a, 1, n)
  <2>1. n \in Int /\ \A i \in 1..n : i \in 1..la /\ i \in 1..(la + lb) BY <1>1
  <2>2. \A i \in 1..n : all[i] \in T /\ a[i] \in T BY <1>2, <2>1
  <2> DEFINE p == SubSeq(all, 1, n)
             q == SubSeq(a, 1, n)
  <2>3. /\ p \in Seq(T) /\ Len(p) = IF 1 <= n THEN n - 1 + 1 ELSE 0
        /\ \A i \in 1..(n - 1 + 1) : p[i] = all[1 + i - 1]
    BY <2>1, <2>2, SubSeqProperties
  <2>4. /\ q \in Seq(T) /\ Len(q) = IF 1 <= n THEN n - 1 + 1 ELSE 0
        /\ \A i \in 1..(n - 1 + 1) : q[i] = a[1 + i - 1]
    BY <2>1, <2>2, SubSeqProperties
  <2> HIDE DEF p, q
  <2>5. \A i \in 1..n : i \in 1..(n - 1 + 1) /\ 1 + i - 1 = i /\ all[i] = a[i] BY <1>1, <2>1
  <2>6. Len(p) = n /\ Len(q) = n BY <2>3, <2>4
  <2>7. \A i \in 1..Len(p) : p[i] = q[i] BY <2>3, <2>4, <2>5, <2>6
  <2>8. p = q BY <2>3, <2>4, <2>6, <2>7, SeqEqual
  <2> QED BY <2>8 DEF p, q
<1>4. ASSUME NEW n \in (la + 1)..(la + lb + 1)
      PROVE  SubSeq(all, n, la + lb) = SubSeq(b, n - la, lb)
  <2>1. /\ n \in Int /\ la + lb \in Int /\ n - la \in Int /\ lb \in Int
        /\ \A i \in n..(la + lb) : i \in 1..(la + lb)
        /\ \A i \in (n - la)..lb : i \in 1..lb
    BY <1>1
  <2>2. /\ \A i \in n..(la + lb) : all[i] \in T
        /\ \A i \in (n - la)..lb : b[i] \in T
    BY <1>2, <2>1
  <2> DEFINE p == SubSeq(all, n, la + lb)
             q == SubSeq(b, n - la, lb)
  <2>3. /\ p \in Seq(T) /\ Len(p) = IF n <= la + lb THEN (la + lb) - n + 1 ELSE 0
        /\ \A i \in 1..((la + lb) - n + 1) : p[i] = all[n + i - 1]
    BY <2>1, <2>2, SubSeqProperties
  <2>4. /\ q \in Seq(T) /\ Len(q) = IF n - la <= lb THEN lb - (n - la) + 1 ELSE 0
        /\ \A i \in 1..(lb - (n - la) + 1) : q[i] = b[(n - la) + i - 1]
    BY <2>1, <2>2, SubSeqProperties
  <2> HIDE DEF p, q
  <2>5. Len(p) = (la + lb) - n + 1 /\ Len(q) = (la + lb) - n + 1 BY <1>1, <2>3, <2>4
  <2>6. ASSUME NEW i \in 1..((la + lb) - n + 1) PROVE p[i] = q[i]
    <3>1. (n - la) + i - 1 \in 1..lb /\ la + ((n - la) + i - 1) = n + i - 1
          /\ i \in 1..(lb - (n - la) + 1)
      BY <1>1
    <3>2. all[la + ((n - la) + i - 1)] = b[(n - la) + i - 1] BY <1>1, <3>1
    <3> QED BY <2>3, <2>4, <3>1, <3>2
  <2>7. \A i \in 1..Len(p) : p[i] = q[i] BY <2>5, <2>6
  <2>8. p = q BY <2>3, <2>4, <2>5, <2>7, SeqEqual
  <2> QED BY <2>8 DEF p, q
<1>5. ASSUME NEW n \in 1..(la + 1)
      PROVE  SubSeq(all, n, la + lb) = SubSeq(a, n, la) \o b
  <2>1. /\ n \in Int /\ la + lb \in Int /\ la \in Int
        /\ \A i \in n..(la + lb) : i \in 1..(la + lb)
        /\ \A i \in n..la : i \in 1..la
    BY <1>1
  <2>2. /\ \A i \in n..(la + lb) : all[i] \in T
        /\ \A i \in n..la : a[i] \in T
    BY <1>2, <2>1
  <2> DEFINE p == SubSeq(all, n, la + lb)
             q == SubSeq(a, n, la)
             r == q \o b
  <2>3. /\ p \in Seq(T) /\ Len(p) = IF n <= la + lb THEN (la + lb) - n + 1 ELSE 0
        /\ \A i \in 1..((la + lb) - n + 1) : p[i] = all[n + i - 1]
    BY <2>1, <2>2, SubSeqProperties
  <2>4. /\ q \in Seq(T) /\ Len(q) = IF n <= la THEN la - n + 1 ELSE 0
        /\ \A i \in 1..(la - n + 1) : q[i] = a[n + i - 1]
    BY <2>1, <2>2, SubSeqProperties
  <2>5. Len(q) = la - n + 1 BY <1>1, <2>4
  <2>6. q \in Contents BY <2>4 DEF Contents, T
  <2> HIDE DEF p, q
  <2>7. /\ r \in Contents /\ Len(r) = Len(q) + lb
        /\ \A i \in 1..Len(q) : r[i] = q[i]
        /\ \A i \in 1..lb : r[Len(q) + i] = b[i]
    BY <2>6, ConcatShape DEF lb
  <2> HIDE DEF r
  <2>8. Len(p) = (la + lb) - n + 1 /\ Len(r) = (la + lb) - n + 1 BY SMTT(40), <1>1, <2>3, <2>5, <2>7
  <2>9. ASSUME NEW i \in 1..((la + lb) - n + 1) PROVE p[i] = r[i]
    <3>1. CASE i <= la - n + 1
      <4>1. i \in 1..(la - n + 1) /\ n + i - 1 \in 1..la BY <1>1, <3>1
      <4> QED BY <1>1, <2>3, <2>4, <2>5, <2>7, <4>1
    <3>2. CASE ~(i <= la - n + 1)
      <4> DEFINE j == i - (la - n + 1)
      <4>1. j \in 1..lb /\ (la - n + 1) + j = i /\ la + j = n + i - 1 BY <1>1, <3>2
      <4>2. all[la + j] = b[j] /\ r[Len(q) + j] = b[j] BY <1>1, <2>7, <4>1
      <4> QED BY <2>3, <2>5, <4>1, <4>2
    <3> QED BY <3>1, <3>2
  <2>10. \A i \in 1..Len(p) : p[i] = r[i] BY <2>8, <2>9
  <2>11. p = r BY <2>3, <2>7, <2>8, <2>10, SeqEqual DEF Contents, T
  <2> QED BY <2>11 DEF p, q, r
<1> QED BY <1>3, <1>4, <1>5 DEF all, la, lb

\* What is around a block is what is outside, if no marker is before it.
LEMMA OutsideOfBlock ==
  ASSUME MarkersApart, NEW pre \in Contents, NEW post \in Contents, NEW body \in Bodies,
         NoMarks(pre)
  PROVE  LET data == (pre \o Block(body)) \o post
         IN  data \in Contents /\ Outside(data) = pre \o post
PROOF
<1> DEFINE block == Block(body)
<1> DEFINE front == pre \o block
<1> DEFINE data  == front \o post
<1> DEFINE s == Len(pre) + 1
<1>1. /\ block \in Contents /\ Len(block) = 3
      /\ block[1] = Start /\ block[2] = body /\ block[3] = End
  BY DEF Block, Contents
<1> HIDE DEF block
<1>2. /\ front \in Contents /\ Len(front) = Len(pre) + 3 /\ Len(pre) \in Nat
      /\ \A i \in 1..Len(pre) : front[i] = pre[i]
      /\ \A i \in 1..3 : front[Len(pre) + i] = block[i]
  <2>1. block \in Contents /\ Len(block) = 3 BY <1>1
  <2>2. /\ front \in Contents /\ Len(front) = Len(pre) + Len(block) /\ Len(pre) \in Nat
        /\ \A i \in 1..Len(pre) : front[i] = pre[i]
        /\ \A i \in 1..Len(block) : front[Len(pre) + i] = block[i]
    BY <2>1, ConcatShape
  <2> QED BY <2>1, <2>2
<1>3. \A n \in 0..Len(pre) : SubSeq(front, 1, n) = SubSeq(pre, 1, n)
  BY <1>1, ConcatParts
<1> HIDE DEF front
<1>4. /\ data \in Contents /\ Len(data) = Len(front) + Len(post) /\ Len(post) \in Nat
      /\ \A i \in 1..Len(front) : data[i] = front[i]
      /\ \A n \in 0..Len(front) : SubSeq(data, 1, n) = SubSeq(front, 1, n)
      /\ \A n \in (Len(front) + 1)..(Len(front) + Len(post) + 1) :
           SubSeq(data, n, Len(front) + Len(post)) = SubSeq(post, n - Len(front), Len(post))
  BY <1>2, ConcatShape, ConcatParts
<1> HIDE DEF data
<1>5. /\ s \in 1..Len(data) /\ s + 2 \in 1..Len(data)
      /\ s \in 1..Len(front) /\ s + 1 \in 1..Len(front) /\ s + 2 \in 1..Len(front)
      /\ s + 1 = Len(pre) + 2 /\ s + 2 = Len(pre) + 3
      /\ \A i \in 1..(s + 1) : i \in 1..Len(pre) \/ i = s \/ i = s + 1
      /\ \A i \in 1..Len(pre) : i \in 1..Len(front)
  BY <1>2, <1>4
<1>6. data[s] = Start /\ data[s + 1] = body /\ data[s + 2] = End
  BY <1>1, <1>2, <1>4, <1>5
<1>7. body # Start /\ body # End /\ Start # End BY DEF MarkersApart, Start, End
<1>8. \A i \in 1..(s + 1) : data[i] # End /\ (data[i] = Start => i = s)
  BY <1>2, <1>4, <1>5, <1>6, <1>7 DEF NoMarks
<1> DEFINE f == First(data, Start)
           e == First(data, End)
<1>9. /\ 0 < f /\ f <= s /\ 0 < e /\ e <= s + 2
      /\ f \in 0..Len(data) /\ e \in 0..Len(data)
      /\ (f > 0 => data[f] = Start) /\ (e > 0 => data[e] = End)
  BY <1>4, <1>5, <1>6, FirstToken
<1> HIDE DEF f, e
<1>10. f = s
  <2>1. f \in 1..(s + 1) /\ data[f] = Start BY <1>2, <1>9
  <2> QED BY <1>8, <2>1
<1>11. e = s + 2
  <2>1. e \in 1..(s + 1) \/ e = s + 2 BY <1>2, <1>9
  <2> QED BY <1>8, <1>9, <2>1
<1>12. ~Incomplete(data)
  <2>1. f > 0 /\ e > 0 /\ ~(e < f) BY <1>2, <1>9, <1>10, <1>11
  <2> QED BY <2>1 DEF Incomplete, f, e
<1>13. f # 0 BY <1>2, <1>10
<1>14. Outside(data) = SubSeq(data, 1, f - 1) \o SubSeq(data, e + 1, Len(data))
  BY <1>12, <1>13 DEF Outside, f, e
<1>15. f - 1 = Len(pre) /\ e + 1 = Len(front) + 1 BY <1>2, <1>10, <1>11
<1>16. SubSeq(data, 1, f - 1) = pre
  <2>1. Len(pre) \in 0..Len(front) /\ Len(pre) \in 0..Len(pre) BY <1>2
  <2>2. SubSeq(data, 1, Len(pre)) = SubSeq(pre, 1, Len(pre)) BY <1>3, <1>4, <2>1
  <2>3. SubSeq(pre, 1, Len(pre)) = pre BY SubSeqFull DEF Contents
  <2> QED BY <1>15, <2>2, <2>3
<1>17. SubSeq(data, e + 1, Len(data)) = post
  <2>1. /\ Len(front) + 1 \in (Len(front) + 1)..(Len(front) + Len(post) + 1)
        /\ (Len(front) + 1) - Len(front) = 1
    BY <1>2, <1>4
  <2>2. SubSeq(data, Len(front) + 1, Len(front) + Len(post)) = SubSeq(post, 1, Len(post))
    BY <1>4, <2>1
  <2>3. SubSeq(post, 1, Len(post)) = post BY SubSeqFull DEF Contents
  <2> QED BY <1>4, <1>15, <2>2, <2>3
<1>18. Outside(data) = pre \o post BY <1>14, <1>16, <1>17
<1> QED BY <1>4, <1>18 DEF data, front, block

\* A token and a newline behind contents.
LEMMA TextsOfLine ==
  ASSUME LinesApart, NEW data \in Contents, NEW x \in Texts \cup {Newline}
  PROVE  /\ data \o <<x, Newline>> \in Contents
         /\ TextsOf(data \o <<x, Newline>>) =
              IF x \in Texts THEN Append(TextsOf(data), x) ELSE TextsOf(data)
PROOF
<1> DEFINE T == Texts \cup Bodies \cup {Start, End, Newline}
<1> DEFINE one == data \o <<x>>
           two == one \o <<Newline>>
<1>1. <<x>> \in Seq(T) /\ <<Newline>> \in Seq(T) /\ data \in Seq(T) BY DEF Contents
<1>2. <<x>> \o <<Newline>> = <<x, Newline>>
  <2> DEFINE c == <<x>> \o <<Newline>>
             d == <<x, Newline>>
  <2>1. /\ Len(<<x>>) = 1 /\ <<x>>[1] = x /\ Len(<<Newline>>) = 1 /\ <<Newline>>[1] = Newline
        /\ d \in Seq(T) /\ Len(d) = 2 /\ d[1] = x /\ d[2] = Newline
    OBVIOUS
  <2>2. /\ c \in Seq(T) /\ Len(c) = Len(<<x>>) + Len(<<Newline>>)
        /\ \A i \in 1 .. Len(<<x>>) + Len(<<Newline>>) :
             c[i] = IF i <= Len(<<x>>) THEN <<x>>[i] ELSE <<Newline>>[i - Len(<<x>>)]
    BY <1>1, ConcatProperties
  <2> HIDE DEF c, d
  <2>3. Len(c) = 2 /\ c[1] = x /\ c[2] = Newline BY <2>1, <2>2
  <2>4. \A i \in 1..Len(c) : c[i] = d[i] BY <2>1, <2>3
  <2>5. c = d BY <2>1, <2>2, <2>3, <2>4, SeqEqual
  <2> QED BY <2>5 DEF c, d
<1>3. two = data \o (<<x>> \o <<Newline>>) BY <1>1, ConcatAssociative
<1>4. two = data \o <<x, Newline>> BY <1>2, <1>3
<1>5. /\ one \in Contents
      /\ TextsOf(one) = IF x \in Texts THEN Append(TextsOf(data), x) ELSE TextsOf(data)
  BY TextsOfTail
<1> HIDE DEF one
<1>6. two \in Contents /\ TextsOf(two) = TextsOf(one)
  BY <1>5, TextsOfTail DEF LinesApart
<1> HIDE DEF two
<1> QED BY <1>4, <1>5, <1>6

\* planProfileBlock keeps the user's text.
LEMMA UpdatedText ==
  ASSUME MarkersApart, LinesApart, NEW data \in Contents, ~Incomplete(data), NEW body \in Bodies
  PROVE  TextsOf(Outside(Updated(data, body))) = TextsOf(Outside(data))
PROOF
<1> DEFINE s == First(data, Start)
           e == First(data, End)
<1>1. /\ Len(data) \in Nat /\ s \in 0..Len(data) /\ e \in 0..Len(data)
      /\ \A i \in 1..Len(data) : data[i] = Start => 0 < s /\ s <= i
      /\ \A i \in 1..Len(data) : data[i] = End => 0 < e /\ e <= i
  BY ContentsShape, FirstToken
<1>2. (s > 0 <=> e > 0) /\ (s > 0 => ~(e < s)) BY DEF Incomplete
<1>3. CASE s > 0
  <2> DEFINE pre  == SubSeq(data, 1, s - 1)
             post == SubSeq(data, e + 1, Len(data))
  <2>1. /\ 1 \in 1..(Len(data) + 1) /\ s - 1 \in 0..Len(data)
        /\ e + 1 \in 1..(Len(data) + 1) /\ Len(data) \in 0..Len(data)
    BY <1>1, <1>3
  <2>2. \A i \in 1..(s - 1) : data[i] # Start /\ data[i] # End
    <3> SUFFICES ASSUME NEW i \in 1..(s - 1) PROVE data[i] # Start /\ data[i] # End
      OBVIOUS
    <3>1. i \in 1..Len(data) /\ ~(s <= i) /\ ~(e <= i) BY <1>1, <1>2, <1>3
    <3> QED BY <1>1, <3>1
  <2>3. pre \in Contents /\ post \in Contents /\ NoMarks(pre)
    BY <2>1, <2>2, PartShape
  <2>4. Updated(data, body) = (pre \o Block(body)) \o post
    BY <1>3 DEF Updated, Replaced
  <2>5. s # 0 BY <1>1, <1>3
  <2>6. Outside(data) = pre \o post BY <2>5 DEF Outside
  <2> HIDE DEF pre, post
  <2>7. Outside((pre \o Block(body)) \o post) = pre \o post BY <2>3, OutsideOfBlock
  <2> QED BY <2>4, <2>6, <2>7, Zenon
<1>4. CASE ~(s > 0)
  <2>1. s = 0 BY <1>1, <1>4
  <2>2. NoMarks(data) BY <1>1, <1>2, <1>4 DEF NoMarks
  <2>3. Outside(data) = data BY <2>1 DEF Outside
  <2>4. Updated(data, body) = Appended(data, body) BY <1>4 DEF Updated
  <2>5. <<Newline>> \in Contents BY DEF Contents
  <2>6. \E pre \in Contents :
          /\ NoMarks(pre) /\ TextsOf(pre) = TextsOf(data)
          /\ Updated(data, body) = (pre \o Block(body)) \o <<Newline>>
    <3>1. /\ data \o <<Newline>> \in Contents
          /\ TextsOf(data \o <<Newline>>) = TextsOf(data)
      BY TextsOfTail DEF LinesApart
    <3>2. /\ data \o <<Newline, Newline>> \in Contents
          /\ TextsOf(data \o <<Newline, Newline>>) = TextsOf(data)
      BY TextsOfLine DEF LinesApart
    <3>3. Newline # Start /\ Newline # End BY DEF Newline, Start, End
    <3>4. ASSUME NEW tail \in {<<Newline>>, <<Newline, Newline>>} PROVE NoMarks(data \o tail)
      <4>1. tail \in Contents /\ \A i \in 1..Len(tail) : tail[i] = Newline
        <5>1. CASE tail = <<Newline>> BY <5>1 DEF Contents
        <5>2. CASE tail = <<Newline, Newline>> BY <5>2 DEF Contents
        <5> QED BY <5>1, <5>2
      <4>2. /\ data \o tail \in Contents /\ Len(data \o tail) = Len(data) + Len(tail)
            /\ Len(tail) \in Nat
            /\ \A i \in 1..Len(data) : (data \o tail)[i] = data[i]
            /\ \A i \in 1..Len(tail) : (data \o tail)[Len(data) + i] = tail[i]
        BY <4>1, ConcatShape
      <4> DEFINE all == data \o tail
      <4> HIDE DEF all
      <4>3. ASSUME NEW i \in 1..Len(all) PROVE all[i] # Start /\ all[i] # End
        <5>1. i \in 1..Len(data) \/ \E j \in 1..Len(tail) : i = Len(data) + j
          BY SMTT(40), <1>1, <4>2, ConcatIndex DEF all
        <5> QED BY <2>2, <3>3, <4>1, <4>2, <5>1 DEF NoMarks, all
      <4> QED BY <4>3 DEF NoMarks, all
    <3>5. \/ data = <<>> /\ Updated(data, body) = (<<>> \o Block(body)) \o <<Newline>>
          \/ Updated(data, body) = ((data \o <<Newline>>) \o Block(body)) \o <<Newline>>
          \/ Updated(data, body) = ((data \o <<Newline, Newline>>) \o Block(body)) \o <<Newline>>
      BY <2>4 DEF Appended
    <3> QED BY <2>2, <3>1, <3>2, <3>4, <3>5
  <2>7. PICK pre \in Contents :
          /\ NoMarks(pre) /\ TextsOf(pre) = TextsOf(data)
          /\ Updated(data, body) = (pre \o Block(body)) \o <<Newline>>
    BY <2>6
  <2>8. Outside((pre \o Block(body)) \o <<Newline>>) = pre \o <<Newline>>
    BY <2>5, <2>7, OutsideOfBlock
  <2>9. TextsOf(pre \o <<Newline>>) = TextsOf(pre) BY TextsOfTail DEF LinesApart
  <2>10. Outside(Updated(data, body)) = pre \o <<Newline>> BY <2>7, <2>8, Zenon
  <2> QED BY <2>3, <2>7, <2>9, <2>10
<1> QED BY <1>3, <1>4

\* A user's line is added to the user's text.
LEMMA EditedText ==
  ASSUME MarkersApart, LinesApart, NEW data \in Contents, NEW text \in Texts
  PROVE  TextsOf(Outside(data \o <<text, Newline>>)) = Append(TextsOf(Outside(data)), text)
PROOF
<1> DEFINE tail == <<text, Newline>>
           all == data \o tail
           s == First(data, Start)
           e == First(data, End)
           T == Texts \cup Bodies \cup {Start, End, Newline}
<1>1. tail \in Contents /\ Len(tail) = 2 BY DEF Contents
<1>2. /\ all \in Contents
      /\ First(all, Start) = s /\ First(all, End) = e
      /\ Incomplete(all) <=> Incomplete(data)
  BY EditShape
<1>3. Len(data) \in Nat /\ s \in 0..Len(data) /\ e \in 0..Len(data)
  BY ContentsShape, FirstToken
<1>4. /\ Len(all) = Len(data) + Len(tail)
      /\ \A n \in 0..Len(data) : SubSeq(all, 1, n) = SubSeq(data, 1, n)
      /\ \A n \in 1..(Len(data) + 1) :
           SubSeq(all, n, Len(data) + Len(tail)) = SubSeq(data, n, Len(data)) \o tail
  BY <1>1, ConcatShape, ConcatParts
<1> HIDE DEF tail, all, s, e
<1>5. Outside(data) \in Contents /\ Outside(all) = Outside(data) \o tail
  <2>1. CASE s = 0 \/ Incomplete(data)
    <3>1. Outside(data) = data /\ Outside(all) = all BY <1>2, <2>1 DEF Outside, s
    <3> QED BY <3>1 DEF all
  <2>2. CASE ~(s = 0 \/ Incomplete(data))
    <3> DEFINE pre  == SubSeq(data, 1, s - 1)
               post == SubSeq(data, e + 1, Len(data))
    <3>1. Outside(data) = pre \o post BY <2>2 DEF Outside, s, e
    <3>2. Outside(all) = SubSeq(all, 1, s - 1) \o SubSeq(all, e + 1, Len(all))
      BY <1>2, <2>2 DEF Outside
    <3>3. /\ 1 \in 1..(Len(data) + 1) /\ s - 1 \in 0..Len(data)
          /\ e + 1 \in 1..(Len(data) + 1) /\ Len(data) \in 0..Len(data)
      BY <1>3, <2>2
    <3>4. SubSeq(all, 1, s - 1) = pre /\ SubSeq(all, e + 1, Len(all)) = post \o tail
      BY <1>4, <3>3
    <3>5. pre \in Contents /\ post \in Contents BY <3>3, PartShape
    <3> HIDE DEF pre, post
    <3>6. pre \o (post \o tail) = (pre \o post) \o tail
      <4>1. pre \in Seq(T) /\ post \in Seq(T) /\ tail \in Seq(T) BY <1>1, <3>5 DEF Contents
      <4> HIDE DEF T
      <4> QED BY SMTT(40), <4>1, ConcatAssociative
    <3>7. pre \o post \in Contents BY <3>5, ConcatShape
    <3> QED BY <3>1, <3>2, <3>4, <3>6, <3>7
  <2> QED BY <2>1, <2>2
<1>6. TextsOf(Outside(data) \o tail) = Append(TextsOf(Outside(data)), text)
  BY <1>5, TextsOfLine DEF tail
<1> QED BY <1>5, <1>6 DEF all, tail

\* The user's text is where the user put it, and in what an install may write.
ProfilesKept ==
  \A f \in ProfileFiles \ raced : UserText(disk[f]) = own[f]

PlansKept ==
  \A k \in Indexes : HasPlan(k) /\ resolve[k] \notin raced =>
    /\ UserText(mem.plans[k].snapshot) = own[resolve[k]]
    /\ mem.plans[k].changed => UserText(mem.plans[k].updated) = own[resolve[k]]

TextInv == own = [f \in ProfileFiles |-> own[f]] /\ ProfilesKept /\ PlansKept

\* Profiles that stay, or get their user's text, keep it.
LEMMA TextKeeps ==
  ASSUME TextInv, UNCHANGED <<goos, resolve, raced, own>>,
         \A f \in ProfileFiles \ raced : disk'[f] = disk[f] \/ UserText(disk'[f]) = own[f],
         \/ pc' = "off"
         \/ mem'.plans = mem.plans /\ pc \notin {"off", "plan"} /\ pc' \notin {"off", "plan"}
  PROVE  TextInv'
PROOF
<1>1. ProfilesKept'
  <2>1. \A f \in ProfileFiles \ raced : UserText(disk'[f]) = own[f]
    BY DEF TextInv, ProfilesKept
  <2> QED BY <2>1 DEF ProfilesKept
<1>2. PlansKept' BY DEF TextInv, PlansKept, HasPlan
<1> QED BY <1>1, <1>2 DEF TextInv

\* A step that leaves the profiles alone.
LEMMA TextUntouched ==
  ASSUME InstallInv, TextInv, UNCHANGED <<goos, resolve, raced, own>>,
         disk' = disk \/ \E x : disk' = [disk EXCEPT ![Binary] = x],
         \/ pc' = "off"
         \/ mem'.plans = mem.plans /\ pc \notin {"off", "plan"} /\ pc' \notin {"off", "plan"}
  PROVE  TextInv'
PROOF
<1>1. \A f \in ProfileFiles : disk'[f] = disk[f]
  BY Shape DEF InstallInv, Types, IsDisk
<1> QED BY <1>1, TextKeeps

\* What a plan would write has the user's text.
LEMMA PlanProfileText ==
  ASSUME MarkersApart, LinesApart, InstallInv, TextInv, PlanProfile
  PROVE  TextInv'
PROOF
<1> DEFINE k == mem.next
<1> DEFINE file == disk[resolve[k]]
<1> DEFINE plan == PlanOf(file, Profiles[k])
<1>1. /\ pc = "plan" /\ k \in Indexes /\ UNCHANGED <<fixed, raced, temps, disk, userPath>>
      /\ mem \in Memory
  BY MemoryTypes, Shape DEF PlanProfile, Control, Running, InstallInv, Stages, Types
<1>2. CASE Return("failed") BY <1>1, <1>2, TextUntouched DEF Return, fixed
<1>3. ASSUME ~Incomplete(Data(file)),
             Go(IF k < Len(Profiles) THEN "plan" ELSE "snapshot",
                [mem EXCEPT !.plans[k] = plan, !.next = k + 1])
      PROVE  TextInv'
  <2> USE DEF fixed
  <2>1. /\ pc' = (IF k < Len(Profiles) THEN "plan" ELSE "snapshot")
        /\ mem' = [mem EXCEPT !.plans[k] = plan, !.next = k + 1]
    BY <1>3 DEF Go
  <2>2. /\ resolve[k] \in ProfileFiles /\ (file # Absent => file \in Contents)
        /\ Profiles[k] \in Bodies
    BY <1>1 DEF InstallInv, Types, IsDisk, Bodies
  <2>3. Data(file) \in Contents BY <2>2, DataShape
  <2>4. Updated(Data(file), Profiles[k]) \in Contents BY <1>3, <2>2, <2>3, UpdatedType
  <2>5. Data(Updated(Data(file), Profiles[k])) = Updated(Data(file), Profiles[k])
    BY <2>4, DataShape, Shape
  <2>6. UserText(Updated(Data(file), Profiles[k])) = UserText(file)
    BY <1>3, <2>2, <2>3, <2>5, UpdatedText DEF UserText
  <2>7. resolve[k] \notin raced => UserText(file) = own[resolve[k]]
    BY <2>2 DEF TextInv, ProfilesKept
  <2>8. plan.snapshot = file
        /\ (plan.changed => plan.updated = Updated(Data(file), Profiles[k]))
    BY DEF PlanOf, NoPlan
  <2> HIDE DEF plan, file, k
  <2>9. /\ mem'.next = k + 1 /\ mem'.plans[k] = plan
        /\ \A j \in Indexes \ {k} : mem'.plans[j] = mem.plans[j]
    BY <1>1, <2>1 DEF Memory
  <2>10. ASSUME NEW j \in Indexes, HasPlan(j)', resolve[j] \notin raced
         PROVE  /\ UserText(mem'.plans[j].snapshot) = own[resolve[j]]
                /\ mem'.plans[j].changed => UserText(mem'.plans[j].updated) = own[resolve[j]]
    <3>1. CASE j = k BY <2>6, <2>7, <2>8, <2>9, <2>10, <3>1
    <3>2. CASE j # k
      <4>1. j < k BY <1>1, <2>1, <2>9, <2>10, <3>2, Shape DEF HasPlan
      <4>2. HasPlan(j) BY <1>1, <2>10, <4>1 DEF HasPlan, k
      <4> QED BY <2>9, <2>10, <3>2, <4>2 DEF TextInv, PlansKept
    <3> QED BY <3>1, <3>2
  <2>11. PlansKept' BY <1>1, <2>10 DEF PlansKept
  <2>12. ProfilesKept' BY <1>1 DEF TextInv, ProfilesKept
  <2> QED BY <1>1, <2>11, <2>12 DEF TextInv
<1> QED BY <1>2, <1>3 DEF PlanProfile

\* What a call puts into a profile has the user's text.
LEMMA WriteAtomicText ==
  ASSUME InstallInv, TextInv, WriteAtomic
  PROVE  TextInv'
PROOF
<1> DEFINE k == FirstOf(Pending(mem.next))
<1>1. write.at # "idle" /\ UNCHANGED <<fixed, raced, userPath, pc, mem, ended>>
  BY DEF WriteAtomic, CreateTemp, FillTemp, RemoveOld, Rename, DropTemp, At
<1>2. /\ pc \in {"copy", "update", "roll back", "restore"} /\ write.to \in Files
      /\ write.to = Binary <=> pc \in {"copy", "restore"}
      /\ write.to = Binary => write.data \in Binaries
      /\ write.to # Binary => write.to \in ProfileFiles /\ write.data \in Contents
      /\ IsDisk(disk) /\ mem \in Memory
  BY <1>1, CallTypes DEF InstallInv, Types
<1>3. CASE disk' = disk
  BY <1>1, <1>2, <1>3, TextUntouched DEF fixed
<1>4. CASE write.to = Binary /\ \E x : disk' = [disk EXCEPT ![write.to] = x]
  BY <1>1, <1>2, <1>4, TextUntouched DEF fixed
<1>5. CASE write.to # Binary /\ disk' = [disk EXCEPT ![write.to] = write.data]
  <2>1. /\ disk'[write.to] = write.data
        /\ \A f \in Files \ {write.to} : disk'[f] = disk[f]
    BY <1>2, <1>5, DiskExcept
  <2>2. write.to \notin raced => UserText(write.data) = own[write.to]
    <3>1. CASE pc = "update"
      <4>1. /\ Pending(mem.next) # {} /\ goos = "unix" /\ write.data = mem.plans[k].updated
            /\ write.to = resolve[k]
        BY <1>1, <3>1 DEF InstallInv, Calls, Stages
      <4>2. k \in Indexes /\ mem.plans[k].changed BY <1>2, <4>1, NextPending
      <4> QED BY <3>1, <4>1, <4>2 DEF TextInv, PlansKept, HasPlan
    <3>2. CASE pc = "roll back"
      <4> DEFINE j == mem.committed
      <4>1. /\ j > 0 /\ goos = "unix" /\ write.data = mem.plans[j].snapshot
            /\ write.to = resolve[j]
        BY <1>1, <3>2 DEF InstallInv, Calls, Stages
      <4>2. j \in Indexes BY <1>2, <4>1, MemoryTypes
      <4> QED BY <3>2, <4>1, <4>2 DEF TextInv, PlansKept, HasPlan
    <3> QED BY <1>2, <1>5, <3>1, <3>2
  <2>3. \A f \in ProfileFiles \ raced : disk'[f] = disk[f] \/ UserText(disk'[f]) = own[f]
    BY <2>1, <2>2, Shape
  <2> QED BY <1>1, <1>2, <2>3, TextKeeps DEF fixed
<1>6. \/ disk' = disk
      \/ RemoveOld /\ disk' = [disk EXCEPT ![write.to] = Absent]
      \/ disk' = [disk EXCEPT ![write.to] = write.data]
  BY DEF WriteAtomic, CreateTemp, FillTemp, RemoveOld, Rename, DropTemp
<1>7. RemoveOld => write.to = Binary
  BY <1>1 DEF RemoveOld, At, InstallInv, Calls, ReplaceFirst
<1> QED BY <1>3, <1>4, <1>5, <1>6, <1>7

\* A file that the rollback removes had no text of the user's.
LEMMA RollBackProfileText ==
  ASSUME InstallInv, TextInv, RollBackProfile
  PROVE  TextInv'
PROOF
<1> DEFINE k == mem.committed
<1>1. /\ pc = "roll back" /\ UNCHANGED <<fixed, raced>> /\ mem \in Memory /\ IsDisk(disk)
      /\ k > 0 /\ goos = "unix"
  BY DEF RollBackProfile, Control, Running, InstallInv, Types, Stages
<1>2. pc' = "roll back" /\ mem'.plans = mem.plans
  BY <1>1 DEF RollBackProfile, Restore, Go, Call, Undone, Memory
<1>3. \/ disk' = disk
      \/ mem.plans[k].snapshot = Absent /\ disk' = [disk EXCEPT ![resolve[k]] = Absent]
  BY DEF RollBackProfile, Restore, RemoveFile, Call
<1>4. k \in Indexes BY <1>1, MemoryTypes
<1>5. resolve[k] \notin raced /\ mem.plans[k].snapshot = Absent =>
        UserText(Absent) = own[resolve[k]]
  BY <1>1, <1>4 DEF TextInv, PlansKept, HasPlan
<1>6. \A f \in ProfileFiles \ raced : disk'[f] = disk[f] \/ UserText(disk'[f]) = own[f]
  BY <1>1, <1>3, <1>5, Shape DEF IsDisk
<1> QED BY <1>1, <1>2, <1>6, TextKeeps DEF fixed

\* A line of the user's becomes part of the user's text.
LEMMA EditText ==
  ASSUME MarkersApart, LinesApart, InstallInv, TextInv, NEW f \in ProfileFiles, Edit(f)
  PROVE  TextInv'
PROOF
<1>1. PICK text \in Texts :
        /\ disk' = [disk EXCEPT ![f] = Data(disk[f]) \o <<text, Newline>>]
        /\ own' = [own EXCEPT ![f] = Append(own[f], text)]
  BY DEF Edit
<1>2. /\ UNCHANGED <<goos, resolve, pc, mem>>
      /\ raced' = IF Planned(f) THEN raced \cup {f} ELSE raced
  BY DEF Edit
<1>3. IsDisk(disk) /\ f \in Files BY Shape DEF InstallInv, Types
<1>4. /\ disk'[f] = Data(disk[f]) \o <<text, Newline>> /\ own'[f] = Append(own[f], text)
      /\ \A g \in ProfileFiles \ {f} : disk'[g] = disk[g] /\ own'[g] = own[g]
      /\ own' = [g \in ProfileFiles |-> own'[g]]
  BY <1>1, <1>3, Shape DEF IsDisk, TextInv
<1>5. Data(disk[f]) \in Contents BY <1>3, DataShape DEF IsDisk
<1>6. disk'[f] \in Contents BY <1>4, <1>5, EditShape
<1>7. Data(disk'[f]) = disk'[f] BY <1>6, DataShape, Shape
<1>8. UserText(disk'[f]) = Append(UserText(disk[f]), text)
  BY <1>4, <1>5, <1>7, EditedText DEF UserText
<1>9. ASSUME NEW g \in ProfileFiles, g \notin raced' PROVE UserText(disk'[g]) = own'[g]
  <2>1. g \notin raced BY <1>2, <1>9
  <2>2. UserText(disk[g]) = own[g] BY <2>1 DEF TextInv, ProfilesKept
  <2>3. CASE g = f BY <1>4, <1>8, <2>2, <2>3
  <2>4. CASE g # f BY <1>4, <2>2, <2>4
  <2> QED BY <2>3, <2>4
<1>10. ProfilesKept' BY <1>9 DEF ProfilesKept
<1>11. ASSUME NEW k \in Indexes, HasPlan(k), resolve[k] \notin raced'
       PROVE  own'[resolve[k]] = own[resolve[k]] /\ resolve[k] \notin raced
  <2>1. resolve[k] # f
    <3>1. resolve[k] = f => Planned(f) BY <1>11 DEF HasPlan, Planned
    <3> QED BY <1>2, <1>11, <3>1
  <2>2. resolve[k] \in ProfileFiles \ {f} BY <2>1 DEF InstallInv, Types
  <2> QED BY <1>2, <1>4, <1>11, <2>2
<1>12. PlansKept' BY <1>2, <1>11 DEF TextInv, PlansKept, HasPlan
<1> QED BY <1>4, <1>10, <1>12 DEF TextInv

\* The invariant of the user's text is inductive.
LEMMA Next_TextInv ==
  ASSUME MarkersApart, LinesApart, InstallInv, TextInv, [Next]_vars
  PROVE  TextInv'
PROOF
<1>0. mem \in Memory BY DEF InstallInv, Types
<1>1. CASE StartInstall
  <2> USE DEF StartInstall
  <2>1. mem = Fresh BY <1>1 DEF InstallInv, Stages
  <2>2. (goos = "unix" => pc' = "plan") /\ mem.next = 1 BY <1>1, <2>1 DEF Fresh
  <2>3. \A k \in Indexes : ~(k < 1) BY Shape
  <2>4. PlansKept' BY <1>1, <2>2, <2>3 DEF PlansKept, HasPlan
  <2>5. ProfilesKept' BY <1>1 DEF TextInv, ProfilesKept
  <2> QED BY <1>1, <2>4, <2>5 DEF TextInv
<1>2. CASE SnapshotBinary \/ CopyReturns \/ UpdateProfile \/ UpdateReturns \/ RollBackReturns
             \/ ProfilesRestored \/ ConfigurePath \/ RestoreReturns
  <2>1. pc \notin {"off", "plan"} /\ UNCHANGED <<fixed, raced, disk>>
    BY <1>2
       DEF SnapshotBinary, CopyReturns, UpdateProfile, UpdateReturns, RollBackReturns,
           ProfilesRestored, ConfigurePath, RestoreReturns, Control, Running, Return, Call
  <2>2. pc' = "off" \/ (mem'.plans = mem.plans /\ pc' # "plan")
    BY <1>0, <1>2, <2>1
       DEF SnapshotBinary, CopyReturns, UpdateProfile, UpdateReturns, RollBackReturns,
           ProfilesRestored, ConfigurePath, RestoreReturns, Return, Call, Go, Copied, Committed,
           Undone, Rollback, Memory
  <2>3. UNCHANGED <<goos, resolve, raced, own>> BY <2>1 DEF fixed
  <2>4. \/ pc' = "off"
        \/ mem'.plans = mem.plans /\ pc \notin {"off", "plan"} /\ pc' \notin {"off", "plan"}
    BY <2>1, <2>2
  <2> QED BY <2>1, <2>3, <2>4, TextUntouched
<1>3. CASE CopyExecutable \/ RestoreBinary
  <2>1. pc \notin {"off", "plan"} /\ UNCHANGED <<fixed, raced>>
    BY <1>3 DEF CopyExecutable, RestoreBinary, Control, Running
  <2>2. pc' = "off" \/ (mem'.plans = mem.plans /\ pc' # "plan")
    BY <1>0, <1>3, <2>1 DEF CopyExecutable, RestoreBinary, Return, Call, Go, Copied, Memory
  <2>3. disk' = disk \/ \E x : disk' = [disk EXCEPT ![Binary] = x]
    BY <1>3 DEF CopyExecutable, RestoreBinary, RemoveFile, Call, Copied
  <2>4. UNCHANGED <<goos, resolve, raced, own>> BY <2>1 DEF fixed
  <2>5. \/ pc' = "off"
        \/ mem'.plans = mem.plans /\ pc \notin {"off", "plan"} /\ pc' \notin {"off", "plan"}
    BY <2>1, <2>2
  <2> QED BY <2>3, <2>4, <2>5, TextUntouched
<1>4. CASE Install
  BY <1>2, <1>3, <1>4, PlanProfileText, WriteAtomicText, RollBackProfileText DEF Install
<1>5. CASE Kill
  BY <1>5, TextUntouched DEF Kill, Return, fixed
<1>6. CASE \E f \in ProfileFiles : Edit(f) BY <1>6, EditText
<1>7. CASE UNCHANGED vars
  BY <1>7 DEF vars, TextInv, ProfilesKept, PlansKept, HasPlan
<1> QED BY <1>1, <1>4, <1>5, <1>6, <1>7 DEF Next

\* No line of the user's is lost, doubled or moved by any number of installs
\* that succeed, fail, are rolled back or die, unless it was written while an
\* install held a snapshot of the profile (planProfileBlock, restoreSnapshot).
THEOREM UserTextIsKept ==
  ASSUME MarkersApart, LinesApart
  PROVE  Spec => []UserTextKept
PROOF
<1>1. Init => InstallInv /\ TextInv
  <2>1. Init => TextInv
    BY DEF Init, TextInv, ProfilesKept, PlansKept, HasPlan
  <2> QED BY <2>1, Init_InstallInv
<1>2. InstallInv /\ TextInv /\ [Next]_vars => InstallInv' /\ TextInv'
  BY Next_InstallInv, Next_TextInv
<1>3. TextInv => UserTextKept BY DEF TextInv, ProfilesKept, UserTextKept
<1> QED BY <1>1, <1>2, <1>3, PTL DEF Spec

==============================================================================
