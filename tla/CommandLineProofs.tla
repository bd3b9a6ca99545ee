-------------------------- MODULE CommandLineProofs --------------------------
(***************************************************************************)
(* Result files are whole, an exit status tells the result, and a process  *)
(* that serves a stream keeps the promises of module Stream, for any       *)
(* number of verifoxx processes, command lines, files and streams.         *)
(***************************************************************************)
EXTENDS CommandLine, StreamProofs

Stages ==
  {"off", "flags", "policy", "stream", "requests", "evidence", "evaluate", "print",
   "make directory", "create", "encode", "clean up", "close", "chmod", "rename",
   "saved", "remove", "left", "exited", "killed"}
Statuses == {"running", "killed", "success", "failure", "usage"}

Ended == {"left", "exited", "killed"}

\* Where a process may have a temporary file on the disk.
Partial == {"encode", "clean up"}
Whole   == {"close", "chmod", "rename"}
Keeping == Partial \cup Whole \cup {"remove", "left", "killed"}

Writers == Processes \cup {Earlier}
Files   == [by : Writers, whole : BOOLEAN] \cup {Nothing}

MainTypes ==
  /\ at \in [Processes -> Stages] /\ status \in [Processes -> Statuses]
  /\ disk \in [Paths -> Files] /\ temps \in [TempNames -> Files]
  /\ temp \in [Processes -> TempNames \cup {Nothing}]
  /\ stdout \in [Processes -> Files] /\ written \in SUBSET Processes
  /\ exit \in {"running", "success", "failure"}

\* The status of a process follows from where it is.
Staged(p) ==
  /\ status[p] = "running" <=> at[p] \notin Ended
  /\ status[p] = "killed" <=> at[p] = "killed"
  /\ at[p] = "left" => status[p] = "failure"
  /\ at[p] = "stream" => command[p].stream
  /\ at[p] = "off" <=> ~Runs(p)

\* The temporary file of a process that is writing is where it put it, whole
\* once Encode has returned.
Holds(p) ==
  /\ at[p] \in Partial => temp[p] \in TempNames /\ temps[temp[p]] = Part(p)
  /\ at[p] \in Whole   => temp[p] \in TempNames /\ temps[temp[p]] = Result(p)
  /\ at[p] = "remove"  => temp[p] \in TempNames /\ temps[temp[p]] \in {Part(p), Result(p)}

\* A temporary file belongs to the one process that created it.
Owned(t) ==
  temps[t] # Nothing =>
    LET p == temps[t].by
    IN  p \in Processes /\ temp[p] = t /\ at[p] \in Keeping

\* Where a process may be once its result is out.
Told(p) ==
  /\ p \in written =>
       /\ at[p] \in {"saved", "exited", "killed"}
       /\ at[p] = "exited" => status[p] = "success"
  /\ at[p] = "saved" => p \in written
  /\ stdout[p] = Result(p) => at[p] = "exited" /\ status[p] = "success"
  /\ status[p] = "success" /\ ~command[p].stream =>
       p \in written \/ stdout[p] = Result(p)

MainInv ==
  /\ MainTypes
  /\ \A p \in Processes : Staged(p) /\ Holds(p) /\ Told(p)
  /\ \A t \in TempNames : Owned(t)
  /\ ResultsWhole

-----------------------------------------------------------------------------
(* Steps.                                                                  *)

\* A step of one process: the others stay where they are.
Moved(p, s, r) ==
  at' = [at EXCEPT ![p] = s] /\ status' = [status EXCEPT ![p] = r]

\* Where a process that touches no file may go.
Allowed(p, s, r) ==
  /\ s \in Stages /\ r \in Statuses /\ s # "off" /\ at[p] \notin Ended \cup {"off"}
  /\ r = "running" <=> s \notin Ended
  /\ r = "killed" <=> s = "killed"
  /\ s = "left" => r = "failure"
  /\ s = "stream" => command[p].stream
  /\ s \in Partial => at[p] \in Partial
  /\ s \in Whole => at[p] \in Whole
  /\ s = "remove" => at[p] \in Partial \cup Whole
  /\ at[p] \in Keeping => s \in Keeping
  /\ s = "saved" => at[p] = "saved"
  /\ at[p] = "saved" => s = "killed" \/ (s = "exited" /\ r = "success")
  /\ r = "success" /\ ~command[p].stream => at[p] = "saved"

\* Such a step keeps the invariant.
LEMMA MoveKeeps ==
  ASSUME MainInv, NEW p \in Processes, NEW s, NEW r,
         Allowed(p, s, r), Moved(p, s, r), UNCHANGED <<command, files>>,
         exit' \in {"running", "success", "failure"}
  PROVE  MainInv'
PROOF
<1> USE DEF MainInv, files
<1>1. MainTypes'
  BY DEF MainTypes, Moved, Allowed
<1>2. ASSUME NEW q \in Processes PROVE Staged(q)' /\ Holds(q)' /\ Told(q)'
  <2>1. Staged(q) /\ Holds(q) /\ Told(q) OBVIOUS
  <2>2. CASE q # p
    <3>1. at'[q] = at[q] /\ status'[q] = status[q]
      BY <2>2 DEF MainTypes, Moved
    <3> QED BY <2>1, <3>1 DEF Staged, Runs, Holds, Told, Part, Result
  <2>3. CASE q = p
    <3>1. at'[q] = s /\ status'[q] = r
      BY <2>3 DEF MainTypes, Moved
    <3>2. Staged(q)'
      BY <2>1, <2>3, <3>1 DEF Staged, Runs, Allowed
    <3>3. Holds(q)'
      BY <2>1, <2>3, <3>1 DEF Holds, Allowed, Part, Result, Partial, Whole
    <3>4. Told(q)'
      BY <2>1, <2>3, <3>1 DEF Told, Allowed, Result, Ended
    <3> QED BY <3>2, <3>3, <3>4
  <2> QED BY <2>2, <2>3
<1>3. ASSUME NEW t \in TempNames PROVE Owned(t)'
  <2> DEFINE q == temps[t].by
  <2>1. Owned(t) OBVIOUS
  <2>2. q \in Processes => (at'[q] = at[q] \/ (q = p /\ at'[q] = s))
    BY DEF MainTypes, Moved
  <2> QED BY <2>1, <2>2 DEF Owned, Allowed
<1>4. ResultsWhole'
  BY DEF ResultsWhole, WritesFile, Runs
<1> QED BY <1>1, <1>2, <1>3, <1>4

\* Nothing is no file, and a part is no result.
LEMMA FileTypes ==
  ASSUME NEW p \in Processes
  PROVE  /\ Nothing \in Files
         /\ Part(p) \in Files /\ Part(p) # Nothing /\ Part(p).by = p
         /\ Result(p) \in Files /\ Result(p) # Nothing /\ Result(p).by = p
         /\ Part(p) # Result(p) /\ ~Part(p).whole /\ Result(p).whole
PROOF
<1>1. Part(p) \in [by : Writers, whole : BOOLEAN] /\ Result(p) \in [by : Writers, whole : BOOLEAN]
  BY DEF Part, Result, Writers
<1>2. Nothing \notin [by : Writers, whole : BOOLEAN]
  BY CommandLineAssumption DEF Writers
<1>3. Part(p).by = p /\ Result(p).by = p /\ ~Part(p).whole /\ Result(p).whole
  BY DEF Part, Result
<1>4. Part(p) # Result(p) BY <1>3
<1> QED BY <1>1, <1>2, <1>3, <1>4 DEF Files

\* A step of another process changes none of its own marks, and not its file.
LEMMA BystanderKeeps ==
  ASSUME MainInv, NEW p \in Processes, NEW q \in Processes, q # p, NEW s, NEW r,
         Moved(p, s, r), UNCHANGED command,
         temp'[q] = temp[q], stdout'[q] = stdout[q], q \in written' <=> q \in written,
         temp[q] \in TempNames /\ temps[temp[q]] # Nothing /\ temps[temp[q]].by = q =>
           temps'[temp[q]] = temps[temp[q]]
  PROVE  Staged(q)' /\ Holds(q)' /\ Told(q)'
PROOF
<1>1. at'[q] = at[q] /\ status'[q] = status[q]
  BY DEF MainInv, MainTypes, Moved
<1>2. Staged(q) /\ Holds(q) /\ Told(q)
  BY DEF MainInv
<1>3. Part(q) # Nothing /\ Result(q) # Nothing /\ Part(q).by = q /\ Result(q).by = q
  BY FileTypes
<1>4. Staged(q)' BY <1>1, <1>2 DEF Staged, Runs
<1>5. Holds(q)' BY <1>1, <1>2, <1>3 DEF Holds, Part, Result
<1>6. Told(q)' BY <1>1, <1>2 DEF Told, Result
<1> QED BY <1>4, <1>5, <1>6

\* A result on stdout, or a part of it.
LEMMA PrintResultKeeps ==
  ASSUME MainInv, NEW p \in Processes, PrintResult(p)
  PROVE  MainInv'
PROOF
<1> USE DEF MainInv, PrintResult, In
<1>1. PICK output \in {Nothing, Part(p), Result(p)}, r \in {"success", "failure"} :
        /\ stdout' = [stdout EXCEPT ![p] = output] /\ Moved(p, "exited", r)
        /\ r = "success" <=> output = Result(p)
  <2>1. Result(p) # Part(p) /\ Result(p) # Nothing
    BY FileTypes
  <2> QED BY <2>1, Zenon DEF Exit, Error, Moved
<1>2. Part(p) \in Files /\ Result(p) \in Files /\ Nothing \in Files
  BY FileTypes
<1>3. at[p] = "print" /\ at'[p] = "exited" /\ status'[p] = r /\ stdout'[p] = output
  BY <1>1 DEF MainTypes, Moved
<1>4. MainTypes'
  BY <1>1, <1>2 DEF MainTypes, Moved, Stages, Statuses, vars
<1>5. ASSUME NEW q \in Processes PROVE Staged(q)' /\ Holds(q)' /\ Told(q)'
  <2>1. CASE q # p
    BY <1>1, <2>1, BystanderKeeps DEF MainTypes
  <2>2. CASE q = p
    BY <1>1, <1>3, <2>2 DEF Staged, Runs, Holds, Told, Ended, Partial, Whole, Result
  <2> QED BY <2>1, <2>2
<1>6. ASSUME NEW t \in TempNames PROVE Owned(t)'
  BY <1>1, <1>3 DEF Owned, MainTypes, Moved, Keeping, Partial, Whole
<1>7. ResultsWhole'
  BY DEF ResultsWhole, WritesFile, Runs
<1> QED BY <1>4, <1>5, <1>6, <1>7

\* A new temporary file takes a name no file has.
LEMMA CreateTemporaryKeeps ==
  ASSUME MainInv, NEW p \in Processes, CreateTemporary(p)
  PROVE  MainInv'
PROOF
<1> USE DEF MainInv, CreateTemporary, In
<1>1. CASE UNCHANGED <<temps, temp>> /\ Error(p)
  <2>1. at[p] = "create" /\ Moved(p, "exited", "failure")
    BY <1>1 DEF Error, Exit, Moved
  <2>2. Allowed(p, "exited", "failure")
    BY <2>1 DEF Allowed, Stages, Statuses, Ended, Keeping, Partial, Whole
  <2> QED BY <1>1, <2>1, <2>2, MoveKeeps DEF files, MainTypes, vars
<1>2. ASSUME NEW t \in TempNames, FreeName(t), temps' = [temps EXCEPT ![t] = Part(p)],
             temp' = [temp EXCEPT ![p] = t], Goto(p, "encode")
      PROVE  MainInv'
  <2>1. at[p] = "create" /\ status[p] = "running"
    BY DEF Staged, Runs, Ended
  <2>2. Moved(p, "encode", "running")
    BY <1>2, <2>1 DEF Goto, Moved, MainTypes
  <2>3. Part(p) \in Files /\ Part(p) # Nothing /\ Part(p).by = p
    BY FileTypes
  <2>4. at'[p] = "encode" /\ status'[p] = "running" /\ temp'[p] = t /\ temps'[t] = Part(p)
    BY <1>2, <2>2 DEF MainTypes, Moved
  <2>5. MainTypes'
    BY <1>2, <2>2, <2>3 DEF MainTypes, Moved, Stages, Statuses, vars
  <2>6. ASSUME NEW q \in Processes PROVE Staged(q)' /\ Holds(q)' /\ Told(q)'
    <3>1. CASE q # p
      BY <1>2, <2>2, <3>1, BystanderKeeps DEF MainTypes, FreeName
    <3>2. CASE q = p
      BY <2>1, <2>4, <3>2 DEF Staged, Runs, Holds, Told, Ended, Partial, Whole, Part, Result
    <3> QED BY <3>1, <3>2
  <2>7. ASSUME NEW u \in TempNames PROVE Owned(u)'
    <3>1. CASE u = t
      BY ZenonT(60), <2>3, <2>4, <3>1 DEF Owned, Keeping, Partial
    <3>2. CASE u # t
      <4>1. temps'[u] = temps[u] BY <1>2, <3>2 DEF MainTypes
      <4>2. temps[u] # Nothing => temps[u].by # p
        BY <2>1 DEF Owned, Keeping, Partial, Whole
      <4>3. temps[u] # Nothing =>
              temp'[temps[u].by] = temp[temps[u].by] /\ at'[temps[u].by] = at[temps[u].by]
        BY <1>2, <2>2, <4>2 DEF MainTypes, Moved, Owned
      <4> QED BY <4>1, <4>3 DEF Owned
    <3> QED BY <3>1, <3>2
  <2>8. ResultsWhole'
    BY DEF ResultsWhole, WritesFile, Runs
  <2> QED BY <2>5, <2>6, <2>7, <2>8
<1> QED BY <1>1, <1>2

\* Encode writes the file the process created.
LEMMA EncodeResultsKeeps ==
  ASSUME MainInv, NEW p \in Processes, EncodeResults(p)
  PROVE  MainInv'
PROOF
<1> USE DEF MainInv, EncodeResults, In
<1> DEFINE t == temp[p]
<1>1. /\ at[p] = "encode" /\ status[p] = "running"
      /\ t \in TempNames /\ temps[t] = Part(p)
  BY DEF Staged, Runs, Ended, Holds, Partial
<1>2. CASE UNCHANGED temps /\ Goto(p, "clean up")
  <2>1. Moved(p, "clean up", "running")
    BY <1>1, <1>2 DEF Goto, Moved, MainTypes
  <2>2. Allowed(p, "clean up", "running")
    BY <1>1 DEF Allowed, Stages, Statuses, Ended, Keeping, Partial, Whole
  <2> QED BY <1>2, <2>1, <2>2, MoveKeeps DEF files, MainTypes, vars
<1>3. ASSUME temps' = [temps EXCEPT ![t] = Result(p)], Goto(p, "close")
      PROVE  MainInv'
  <2>1. Moved(p, "close", "running")
    BY <1>1, <1>3 DEF Goto, Moved, MainTypes
  <2>2. at'[p] = "close" /\ status'[p] = "running" /\ temps'[t] = Result(p)
    BY <1>1, <1>3, <2>1 DEF MainTypes, Moved
  <2>3. MainTypes'
    BY <1>3, <2>1, FileTypes DEF MainTypes, Moved, Stages, Statuses, vars
  <2>4. ASSUME NEW q \in Processes PROVE Staged(q)' /\ Holds(q)' /\ Told(q)'
    <3>1. CASE q # p
      <4>1. temps[t].by = p BY <1>1, FileTypes
      <4>2. temp[q] \in TempNames /\ temps[temp[q]] # Nothing /\ temps[temp[q]].by = q =>
              temps'[temp[q]] = temps[temp[q]]
        <5>1. \A u \in TempNames : u # t => temps'[u] = temps[u]
          BY <1>3 DEF MainTypes
        <5> QED BY <3>1, <4>1, <5>1
      <4> QED BY <2>1, <3>1, <4>2, BystanderKeeps
    <3>2. CASE q = p
      BY <1>1, <2>2, <3>2 DEF Staged, Runs, Holds, Told, Ended, Partial, Whole, Result
    <3> QED BY <3>1, <3>2
  <2>5. ASSUME NEW u \in TempNames PROVE Owned(u)'
    <3>1. CASE u = t
      <4>1. temps'[u] = Result(p) /\ temps'[u].by = p /\ temp'[p] = u
        BY <1>1, <2>2, <3>1, FileTypes
      <4> QED BY <2>2, <4>1 DEF Owned, Keeping, Whole
    <3>2. CASE u # t
      <4>1. temps'[u] = temps[u] BY <1>3, <3>2 DEF MainTypes
      <4>2. temps[u] # Nothing => temps[u].by # p
        BY <3>2 DEF Owned
      <4>3. temps[u] # Nothing => at'[temps[u].by] = at[temps[u].by]
        BY <2>1, <4>2 DEF MainTypes, Moved, Owned
      <4> QED BY <4>1, <4>3 DEF Owned
    <3> QED BY <3>1, <3>2
  <2>6. ResultsWhole'
    BY DEF ResultsWhole, WritesFile, Runs
  <2> QED BY <2>3, <2>4, <2>5, <2>6
<1> QED BY <1>2, <1>3

\* ResultsWhole of one path.
WholeAt(path) ==
  disk[path] # Nothing =>
    /\ disk[path].whole
    /\ disk[path].by # Earlier =>
         LET p == disk[path].by
         IN  WritesFile(p) /\ command[p].output = path /\ p \in written

\* The rename puts a whole result of this process in place of the old one.
LEMMA RenameTemporaryKeeps ==
  ASSUME MainInv, NEW p \in Processes, RenameTemporary(p)
  PROVE  MainInv'
PROOF
<1> USE DEF MainInv, RenameTemporary, In
<1> DEFINE t == temp[p]
<1>1. /\ at[p] = "rename" /\ status[p] = "running" /\ Runs(p)
      /\ t \in TempNames /\ temps[t] = Result(p)
  BY DEF Staged, Runs, Ended, Holds, Whole
<1>2. CASE UNCHANGED <<disk, temps, written>> /\ Failed(p)
  <2>1. Moved(p, "remove", "running")
    BY <1>1, <1>2 DEF Failed, Goto, Moved, MainTypes
  <2>2. Allowed(p, "remove", "running")
    BY <1>1 DEF Allowed, Stages, Statuses, Ended, Keeping, Partial, Whole
  <2> QED BY <1>2, <2>1, <2>2, MoveKeeps DEF files, MainTypes, vars
<1>3. ASSUME Replace(p), written' = written \cup {p}, Goto(p, "saved")
      PROVE  MainInv'
  <2>1. Moved(p, "saved", "running")
    BY <1>1, <1>3 DEF Goto, Moved, MainTypes
  <2>2. at'[p] = "saved" /\ status'[p] = "running" /\ temps'[t] = Nothing
    BY <1>1, <1>3, <2>1 DEF MainTypes, Moved, Replace
  <2>3. /\ disk' = [disk EXCEPT ![command[p].output] = Result(p)]
        /\ temps' = [temps EXCEPT ![t] = Nothing]
    BY <1>1, <1>3 DEF Replace
  <2>4. MainTypes'
    BY <1>3, <2>1, <2>3, FileTypes DEF MainTypes, Moved, Stages, Statuses, vars
  <2>5. ASSUME NEW q \in Processes PROVE Staged(q)' /\ Holds(q)' /\ Told(q)'
    <3>1. CASE q # p
      <4>1. temp[q] \in TempNames /\ temps[temp[q]] # Nothing /\ temps[temp[q]].by = q =>
              temps'[temp[q]] = temps[temp[q]]
        BY <1>1, <2>3, <3>1, FileTypes DEF MainTypes
      <4>2. q \in written' <=> q \in written
        BY <1>3, <3>1
      <4> QED BY <2>1, <3>1, <4>1, <4>2, BystanderKeeps
    <3>2. CASE q = p
      BY <1>1, <1>3, <2>2, <3>2 DEF Staged, Runs, Holds, Told, Ended, Partial, Whole, Result
    <3> QED BY <3>1, <3>2
  <2>6. ASSUME NEW u \in TempNames PROVE Owned(u)'
    <3>1. CASE u = t
      BY <2>2, <3>1 DEF Owned
    <3>2. CASE u # t
      <4>1. temps'[u] = temps[u] BY <2>3, <3>2 DEF MainTypes
      <4>2. temps[u] # Nothing => temps[u].by # p
        BY <3>2 DEF Owned
      <4>3. temps[u] # Nothing => at'[temps[u].by] = at[temps[u].by]
        BY <2>1, <4>2 DEF MainTypes, Moved, Owned
      <4> QED BY <4>1, <4>3 DEF Owned
    <3> QED BY <3>1, <3>2
  <2>7. ResultsWhole'
    <3>1. ASSUME NEW path \in Paths PROVE WholeAt(path)'
      <4>1. CASE path = command[p].output
        <5>1. disk'[path] = Result(p) BY <2>3, <4>1 DEF MainTypes
        <5>2. /\ command' = command /\ command[p].output \in Paths
              /\ command[p] # Nothing /\ p \in written'
          BY <1>1, <1>3, <4>1 DEF Runs
        <5>3. disk'[path].whole /\ disk'[path].by = p
          BY <5>1, FileTypes
        <5> QED BY <4>1, <5>2, <5>3 DEF WholeAt, WritesFile, Runs
      <4>2. CASE path # command[p].output
        <5>1. disk'[path] = disk[path] BY <2>3, <4>2 DEF MainTypes
        <5>2. WholeAt(path) BY DEF ResultsWhole, WholeAt
        <5> QED BY <1>3, <5>1, <5>2 DEF WholeAt, WritesFile, Runs
      <4> QED BY <4>1, <4>2
    <3> QED BY <3>1 DEF ResultsWhole, WholeAt
  <2> QED BY <2>4, <2>5, <2>6, <2>7
<1> QED BY <1>2, <1>3

\* A process removes its own file, or fails and leaves it.
LEMMA RemoveTemporaryKeeps ==
  ASSUME MainInv, NEW p \in Processes, RemoveTemporary(p)
  PROVE  MainInv'
PROOF
<1> USE DEF MainInv, RemoveTemporary, In
<1> DEFINE t == temp[p]
<1>1. at[p] = "remove" /\ t \in TempNames /\ temps[t] \in {Part(p), Result(p)}
  BY DEF Holds
<1>2. CASE UNCHANGED temps /\ Moved(p, "left", "failure")
  <2>1. Allowed(p, "left", "failure")
    BY <1>1 DEF Allowed, Stages, Statuses, Ended, Keeping, Partial, Whole
  <2> QED BY <1>2, <2>1, MoveKeeps DEF files, MainTypes, vars
<1>3. ASSUME temps' = [temps EXCEPT ![t] = Nothing], Error(p)
      PROVE  MainInv'
  <2>1. Moved(p, "exited", "failure")
    BY <1>3 DEF Error, Exit, Moved
  <2>2. at'[p] = "exited" /\ status'[p] = "failure" /\ temps'[t] = Nothing
    BY <1>1, <1>3, <2>1 DEF MainTypes, Moved
  <2>3. MainTypes'
    BY <1>3, <2>1, FileTypes DEF MainTypes, Moved, Stages, Statuses, vars
  <2>4. ASSUME NEW q \in Processes PROVE Staged(q)' /\ Holds(q)' /\ Told(q)'
    <3>1. CASE q # p
      <4>1. temp[q] \in TempNames /\ temps[temp[q]] # Nothing /\ temps[temp[q]].by = q =>
              temps'[temp[q]] = temps[temp[q]]
        BY <1>1, <1>3, <3>1, FileTypes DEF MainTypes
      <4> QED BY <2>1, <3>1, <4>1, BystanderKeeps
    <3>2. CASE q = p
      BY <1>1, <2>2, <3>2 DEF Staged, Runs, Holds, Told, Ended, Partial, Whole, Result
    <3> QED BY <3>1, <3>2
  <2>5. ASSUME NEW u \in TempNames PROVE Owned(u)'
    <3>1. CASE u = t
      BY <2>2, <3>1 DEF Owned
    <3>2. CASE u # t
      <4>1. temps'[u] = temps[u] BY <1>3, <3>2 DEF MainTypes
      <4>2. temps[u] # Nothing => temps[u].by # p
        BY <3>2 DEF Owned
      <4>3. temps[u] # Nothing => at'[temps[u].by] = at[temps[u].by]
        BY <2>1, <4>2 DEF MainTypes, Moved, Owned
      <4> QED BY <4>1, <4>3 DEF Owned
    <3> QED BY <3>1, <3>2
  <2>6. ResultsWhole'
    BY DEF ResultsWhole, WritesFile, Runs
  <2> QED BY <2>3, <2>4, <2>5, <2>6
<1> QED BY <1>2, <1>3 DEF Moved

\* Serving a frame moves no process.
LEMMA ServeKeeps ==
  ASSUME MainInv, NEW p \in Processes, Serve(p) \/ TransportFails(p)
  PROVE  MainInv'
PROOF
<1>1. exit' \in {"running", "success", "failure"}
  BY DEF MainInv, MainTypes, Serve, TransportFails, Progress, ReadHeader, CheckSize, ReadPayload,
         EndOfInput, Decode, Evaluate, Encode, Write, ReadFails, WriteFails, Stop
<1>2. UNCHANGED mainVars
  BY DEF Serve, TransportFails
<1> QED BY <1>1, <1>2
        DEF mainVars, files, MainInv, MainTypes, Staged, Runs, Holds, Owned, Told, ResultsWhole,
            WritesFile, Part, Result

\* The steps that touch no file.
LEMMA QuietStepKeeps ==
  ASSUME MainInv, NEW p \in Processes,
         \/ ParseFlags(p) \/ LoadPolicy(p) \/ StreamReturns(p)
         \/ LoadRequests(p) \/ LoadEvidence(p) \/ EvaluateOnce(p)
         \/ MakeDirectory(p) \/ CleanUp(p) \/ CloseTemporary(p) \/ Chmod(p) \/ Saved(p)
         \/ Kill(p)
  PROVE  MainInv'
PROOF
<1>0. at[p] \notin Ended => status[p] = "running"
  BY DEF MainInv, Staged, Runs
<1>1. UNCHANGED <<command, files>> /\ exit' \in {"running", "success", "failure"}
  BY DEF MainInv, MainTypes, vars, In, ParseFlags, LoadPolicy, StreamReturns, LoadRequests,
         LoadEvidence, EvaluateOnce, MakeDirectory, CleanUp, CloseTemporary, Chmod, Saved, Kill
<1> SUFFICES \E s \in Stages, r \in Statuses : Allowed(p, s, r) /\ Moved(p, s, r)
  BY <1>1, MoveKeeps
<1> USE DEF In, Goto, Exit, Error, Failed, Moved
<1>2. ASSUME at[p] \notin Ended, NEW s, Goto(p, s)
      PROVE  Moved(p, s, "running")
  BY <1>0, <1>2 DEF MainInv, MainTypes
<1>3. CASE ParseFlags(p)
  BY <1>2, <1>3 DEF ParseFlags, Allowed, Stages, Statuses, Ended, Keeping, Partial, Whole
<1>4. CASE LoadPolicy(p)
  BY <1>2, <1>4 DEF LoadPolicy, Allowed, Stages, Statuses, Ended, Keeping, Partial, Whole
<1>5. CASE StreamReturns(p)
  BY <1>2, <1>5 DEF StreamReturns, Allowed, Stages, Statuses, Ended, Keeping, Partial, Whole,
                    MainInv, MainTypes, Staged, Runs
<1>6. CASE LoadRequests(p)
  BY <1>2, <1>6 DEF LoadRequests, Allowed, Stages, Statuses, Ended, Keeping, Partial, Whole
<1>7. CASE LoadEvidence(p)
  BY <1>2, <1>7 DEF LoadEvidence, Allowed, Stages, Statuses, Ended, Keeping, Partial, Whole
<1>8. CASE EvaluateOnce(p)
  BY <1>2, <1>8 DEF EvaluateOnce, Allowed, Stages, Statuses, Ended, Keeping, Partial, Whole
<1>9. CASE MakeDirectory(p)
  BY <1>2, <1>9 DEF MakeDirectory, Allowed, Stages, Statuses, Ended, Keeping, Partial, Whole
<1>10. CASE CleanUp(p)
  BY <1>2, <1>10 DEF CleanUp, Allowed, Stages, Statuses, Ended, Keeping, Partial, Whole
<1>11. CASE CloseTemporary(p)
  BY <1>2, <1>11 DEF CloseTemporary, Allowed, Stages, Statuses, Ended, Keeping, Partial, Whole
<1>12. CASE Chmod(p)
  BY <1>2, <1>12 DEF Chmod, Allowed, Stages, Statuses, Ended, Keeping, Partial, Whole
<1>13. CASE Saved(p)
  BY <1>2, <1>13 DEF Saved, Allowed, Stages, Statuses, Ended, Keeping, Partial, Whole
<1>14. CASE Kill(p)
  <2>1. at[p] \notin Ended /\ at[p] # "off"
    BY <1>14 DEF Kill, MainInv, Staged, Runs
  <2>2. Allowed(p, "killed", "killed")
    BY <2>1 DEF Allowed, Stages, Statuses, Ended, Keeping, Partial, Whole
  <2>3. Moved(p, "killed", "killed") BY <1>14 DEF Kill
  <2> QED BY <2>2, <2>3 DEF Stages, Statuses
<1> QED BY <1>3, <1>4, <1>5, <1>6, <1>7, <1>8, <1>9, <1>10, <1>11, <1>12, <1>13, <1>14

-----------------------------------------------------------------------------
(* Theorems.                                                               *)

\* Before any process starts no temporary file exists.
LEMMA MainInit_MainInv == MainInit => MainInv
PROOF
<1> SUFFICES ASSUME MainInit PROVE MainInv
  OBVIOUS
<1> USE DEF MainInit
<1>1. MainTypes
  <2>1. Result(Earlier) \in Files /\ Nothing \in Files
    BY DEF Files, Writers, Result
  <2>2. at \in [Processes -> Stages]
    BY DEF Stages
  <2>3. status \in [Processes -> Statuses]
    BY DEF Statuses
  <2> QED BY <2>1, <2>2, <2>3 DEF MainTypes, Init
<1>2. ASSUME NEW p \in Processes PROVE Staged(p) /\ Holds(p) /\ Told(p)
  <2>1. Result(p) # Nothing BY FileTypes
  <2> QED BY <2>1 DEF Staged, Runs, Holds, Told, Ended, Partial, Whole
<1>3. ASSUME NEW t \in TempNames PROVE Owned(t)
  BY DEF Owned
<1>4. ResultsWhole
  BY DEF ResultsWhole, Result
<1> QED BY <1>1, <1>2, <1>3, <1>4 DEF MainInv

\* The invariant is inductive: a process's step leaves the others' names alone.
LEMMA MainNext_MainInv == MainInv /\ [MainNext]_allVars => MainInv'
PROOF
<1>1. ASSUME MainInv, UNCHANGED allVars PROVE MainInv'
  BY <1>1
     DEF allVars, mainVars, vars, files, MainInv, MainTypes, Staged, Runs, Holds, Owned, Told,
         ResultsWhole, WritesFile, Part, Result
<1>2. ASSUME MainInv, NEW p \in Processes, Step(p) \/ Serve(p) \/ TransportFails(p) \/ Kill(p)
      PROVE  MainInv'
  <2>1. CASE PrintResult(p) BY <1>2, <2>1, PrintResultKeeps
  <2>2. CASE CreateTemporary(p) BY <1>2, <2>2, CreateTemporaryKeeps
  <2>3. CASE EncodeResults(p) BY <1>2, <2>3, EncodeResultsKeeps
  <2>4. CASE RenameTemporary(p) BY <1>2, <2>4, RenameTemporaryKeeps
  <2>5. CASE RemoveTemporary(p) BY <1>2, <2>5, RemoveTemporaryKeeps
  <2>6. CASE Serve(p) \/ TransportFails(p) BY <1>2, <2>6, ServeKeeps
  <2> QED BY <1>2, <2>1, <2>2, <2>3, <2>4, <2>5, <2>6, QuietStepKeeps DEF Step, WriteResults
<1> QED BY <1>1, <1>2 DEF MainNext

\* The typing of the processes and their files, and where each process's
\* temporary file is, hold in every state.
THEOREM ProcessesKeepFiles == MainSpec => []MainInv
PROOF
<1>1. MainInit => MainInv BY MainInit_MainInv
<1>2. MainInv /\ [MainNext]_allVars => MainInv' BY MainNext_MainInv
<1> QED BY <1>1, <1>2, PTL DEF MainSpec

\* A result file is never partial and never the work of a process that does not
\* name it, whatever fails, dies or runs at the same time (WriteResults).
THEOREM ResultsAreWhole == MainSpec => []ResultsWhole
PROOF
<1>1. MainInv => ResultsWhole BY DEF MainInv
<1> QED BY <1>1, ProcessesKeepFiles, PTL

\* The exit status of a one-shot process says whether its result is out, and no
\* temporary file of it stays unless its removal failed (runWithInput).
THEOREM StatusTellsResult == MainSpec => []ExitTellsResult
PROOF
<1>1. MainInv => ExitTellsResult
  <2> SUFFICES ASSUME MainInv, NEW p \in Processes, Runs(p), ~command[p].stream,
                      status[p] \notin {"running", "killed"}
               PROVE  /\ status[p] = "success" <=> p \in written \/ stdout[p] = Result(p)
                      /\ at[p] = "exited" =>
                           \A t \in TempNames : temps[t] = Nothing \/ temps[t].by # p
    BY DEF ExitTellsResult
  <2>1. Staged(p) /\ Told(p) /\ \A t \in TempNames : Owned(t)
    BY DEF MainInv
  <2>2. status[p] = "success" <=> p \in written \/ stdout[p] = Result(p)
    BY <2>1 DEF Staged, Runs, Told, Ended
  <2>3. at[p] = "exited" => \A t \in TempNames : temps[t] = Nothing \/ temps[t].by # p
    BY <2>1 DEF Owned, Keeping, Partial, Whole
  <2> QED BY <2>2, <2>3
<1> QED BY <1>1, ProcessesKeepFiles, PTL

-----------------------------------------------------------------------------
(* The stream a process serves.                                            *)

\* A step of a process is a step of the stream, or leaves it alone.
LEMMA MainStepServes == [MainNext]_allVars => [Next]_vars
PROOF
<1>1. ASSUME UNCHANGED allVars PROVE UNCHANGED vars
  BY <1>1 DEF allVars
<1>2. ASSUME NEW p \in Processes, Serve(p) \/ TransportFails(p) PROVE Next
  BY <1>2 DEF Serve, TransportFails, Next
<1>3. ASSUME NEW p \in Processes, Step(p) \/ Kill(p) PROVE UNCHANGED vars
  BY <1>3
     DEF Step, Kill, In, ParseFlags, LoadPolicy, StreamReturns, LoadRequests, LoadEvidence,
         EvaluateOnce, PrintResult, WriteResults, MakeDirectory, CreateTemporary, EncodeResults,
         CleanUp, CloseTemporary, Chmod, RenameTemporary, Saved, RemoveTemporary
<1> QED BY <1>1, <1>2, <1>3 DEF MainNext

\* Whatever a verifoxx process does, the stream on its stdin and stdout behaves
\* as module Stream says (runStream is all that touches it).
THEOREM ProcessServesStream == MainSpec => Init /\ [][Next]_vars
PROOF
<1>1. MainInit => Init
  BY DEF MainInit
<1> QED BY <1>1, MainStepServes, PTL DEF MainSpec

\* It keeps its place in the input and ends cleanly only between frames.
THEOREM ProcessEndsCleanly == MainSpec => []TypeOK /\ []CleanExitAnswersAll
PROOF
<1>1. Init => PlaceInv BY InitPlace
<1>2. PlaceInv /\ [Next]_vars => PlaceInv' BY NextPlace
<1>3. PlaceInv => TypeOK /\ CleanExitAnswersAll
  BY DEF PlaceInv, TypeOK, IsSlice
<1> QED BY <1>1, <1>2, <1>3, ProcessServesStream, PTL

\* It answers each frame as if no other had come, and only the transport and
\* the limits stop it, while no document names an array twice, nor a request
\* in it its evidence_ids.
THEOREM ProcessAnswersFrames ==
  ASSUME NamedOnce
  PROVE  MainSpec => []AnswersItsFrame /\ []OnlyTransportStops
PROOF
<1>1. Init => PlaceInv /\ AnswerInv BY InitPlace, InitAnswer
<1>2. PlaceInv /\ AnswerInv /\ [Next]_vars => PlaceInv' /\ AnswerInv' BY NextPlace, NextAnswer
<1>3. AnswerInv => AnswersItsFrame /\ OnlyTransportStops BY DEF AnswerInv
<1> QED BY <1>1, <1>2, <1>3, ProcessServesStream, PTL
=============================================================================
