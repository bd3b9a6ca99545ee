---------------------------- MODULE CommandLine -----------------------------
(***************************************************************************)
(* cmd/verifoxx/main.go and WriteResults: verifoxx processes, each started *)
(* on its own arguments, side by side in one directory.                    *)
(*                                                                         *)
(* A process is refused by its flags, serves the stream of module Stream,  *)
(* or evaluates one pack and writes the result to stdout or to a file.     *)
(* Several processes may write the same file.  Any call that reaches the   *)
(* file system may fail, and a process may be killed between two of them.  *)
(* A result is known by the process that computed it.                      *)
(***************************************************************************)
EXTENDS Stream

CONSTANTS
  Processes,
  Paths,         \* the result files processes may name
  TempNames,     \* names of .verifoxx-*.tmp files
  Nothing,       \* no file, no output, no process
  Earlier,       \* whoever wrote a result before
  Commands       \* [processes -> arguments and the files they name, or Nothing]

ASSUME CommandLineAssumption ==
  /\ IsFiniteSet(Processes) /\ Earlier \notin Processes
  /\ Cardinality(TempNames) >= Cardinality(Processes)
  /\ "-" \notin Paths
  /\ Nothing \notin TempNames
  /\ Nothing \notin [by : Processes \cup {Earlier}, whole : BOOLEAN]
  /\ \A c \in Commands :
       Cardinality({p \in Processes : c[p] # Nothing /\ c[p].stream}) <= 1

VARIABLES
  command,   \* the command line of each process
  at,        \* where each process is
  status,    \* "running", "killed", or exit status 0, 1 or 2: "success", "failure", "usage"
  disk,      \* the result files
  temps,     \* the temporary files
  temp,      \* the name each process got for its temporary file
  stdout,    \* what each process wrote to stdout
  written    \* the processes that have replaced a result file

files    == <<disk, temps, temp, stdout, written>>
mainVars == <<command, at, status, files>>

\* A result file, or the part of it that has been written.
Result(p) == [by |-> p, whole |-> TRUE]
Part(p)   == [by |-> p, whole |-> FALSE]

Runs(p) == command[p] # Nothing

MainInit ==
  /\ Init
  /\ command \in Commands
  /\ (\A p \in Processes : Runs(p) => ~command[p].stream) => input.frames = <<>>
  /\ at = [p \in Processes |-> IF Runs(p) THEN "flags" ELSE "off"]
  /\ status = [p \in Processes |-> "running"]
  /\ disk \in [Paths -> {Nothing, Result(Earlier)}]
  /\ temps = [t \in TempNames |-> Nothing]
  /\ temp = [p \in Processes |-> Nothing] /\ stdout = [p \in Processes |-> Nothing]
  /\ written = {}

-----------------------------------------------------------------------------
(* runWithInput.                                                           *)

In(p, stage) == at[p] = stage /\ UNCHANGED <<command, vars>>

Goto(p, stage) == at' = [at EXCEPT ![p] = stage] /\ UNCHANGED status

Exit(p, result) ==
  at' = [at EXCEPT ![p] = "exited"] /\ status' = [status EXCEPT ![p] = result]

\* A system call fails: a message on stderr and "failure".
Error(p) == Exit(p, "failure")

\* --stream takes no other flag but --policy.
Misused(arguments) ==
  arguments.flags = "bad" \/ (arguments.stream /\ arguments.given # {})

ParseFlags(p) ==
  /\ In(p, "flags") /\ UNCHANGED files
  /\ IF Misused(command[p]) THEN Exit(p, "usage") ELSE Goto(p, "policy")

\* LoadPolicy and engine.Compile.
LoadPolicy(p) ==
  /\ In(p, "policy") /\ UNCHANGED files
  /\ \/ command[p].policy = "valid"
        /\ Goto(p, IF command[p].stream THEN "stream" ELSE "requests")
     \/ Error(p)

\* DecodeRequests and DecodeEvidence: rows in a slice of their own.
Loaded(file) == Contents(DecodeArray(NilSlice, file))

\* MaxInputRecords is the builder's limit too.
Accepted(file) == Len(Loaded(file)) <= MaxRecords /\ Identified(Loaded(file))

LoadRequests(p) ==
  /\ In(p, "requests") /\ UNCHANGED files
  /\ \/ Accepted(command[p].requests) /\ Goto(p, "evidence")
     \/ Error(p)

LoadEvidence(p) ==
  /\ In(p, "evidence") /\ UNCHANGED files
  /\ \/ Accepted(command[p].evidence) /\ Goto(p, "evaluate")
     \/ Error(p)

\* The builder also refuses what no file shows alone: references.
Evaluated(arguments) == Answer(Loaded(arguments.requests), Loaded(arguments.evidence)).ok

EvaluateOnce(p) ==
  /\ In(p, "evaluate") /\ UNCHANGED files
  /\ IF ~Evaluated(command[p]) THEN Error(p)
     ELSE Goto(p, IF command[p].output = "-" THEN "print" ELSE "make directory")

PrintResult(p) ==
  /\ In(p, "print") /\ UNCHANGED <<disk, temps, temp, written>>
  /\ \/ stdout' = [stdout EXCEPT ![p] = Result(p)] /\ Exit(p, "success")
     \/ \E output \in {Nothing, Part(p)} :
          stdout' = [stdout EXCEPT ![p] = output] /\ Error(p)

-----------------------------------------------------------------------------
(* WriteResults.                                                           *)

MakeDirectory(p) ==
  /\ In(p, "make directory") /\ UNCHANGED files
  /\ Goto(p, "create") \/ Error(p)

\* A mutant: the name is chosen without asking whether the file exists.
AnyName(t) == TRUE

FreeName(t) == temps[t] = Nothing

CreateTemporary(p) ==
  /\ In(p, "create") /\ UNCHANGED <<disk, stdout, written>>
  /\ \/ \E t \in TempNames :
          /\ FreeName(t)
          /\ temps' = [temps EXCEPT ![t] = Part(p)]
          /\ temp' = [temp EXCEPT ![p] = t]
          /\ Goto(p, "encode")
     \/ UNCHANGED <<temps, temp>> /\ Error(p)

\* A mutant: the temporary file is not removed.
Abandoned(p) == Error(p)

Failed(p) == Goto(p, "remove")

\* The file grows until Encode returns.
EncodeResults(p) ==
  /\ In(p, "encode") /\ UNCHANGED <<disk, temp, stdout, written>>
  /\ \/ temps' = [temps EXCEPT ![temp[p]] = Result(p)] /\ Goto(p, "close")
     \/ UNCHANGED temps /\ Goto(p, "clean up")

\* cleanup closes before it removes and ignores both errors.
CleanUp(p) == In(p, "clean up") /\ UNCHANGED files /\ Goto(p, "remove")

CloseTemporary(p) ==
  /\ In(p, "close") /\ UNCHANGED files
  /\ Goto(p, "chmod") \/ Failed(p)

Chmod(p) ==
  /\ In(p, "chmod") /\ UNCHANGED files
  /\ Goto(p, "rename") \/ Failed(p)

Replace(p) ==
  /\ disk' = [disk EXCEPT ![command[p].output] = temps[temp[p]]]
  /\ temps' = [temps EXCEPT ![temp[p]] = Nothing]

RenameTemporary(p) ==
  /\ In(p, "rename") /\ UNCHANGED <<temp, stdout>>
  /\ \/ /\ temps[temp[p]] # Nothing
        /\ Replace(p) /\ written' = written \cup {p} /\ Goto(p, "saved")
     \/ UNCHANGED <<disk, temps, written>> /\ Failed(p)

Saved(p) == In(p, "saved") /\ UNCHANGED files /\ Exit(p, "success")

\* The error of this removal is ignored: "left" is a process that has failed
\* and could not remove its file.
RemoveTemporary(p) ==
  /\ In(p, "remove") /\ UNCHANGED <<disk, temp, stdout, written>>
  /\ \/ temps' = [temps EXCEPT ![temp[p]] = Nothing] /\ Error(p)
     \/ UNCHANGED temps
        /\ at' = [at EXCEPT ![p] = "left"] /\ status' = [status EXCEPT ![p] = "failure"]

-----------------------------------------------------------------------------
(* --stream, and the process's death.                                      *)

Serve(p) == at[p] = "stream" /\ Progress /\ UNCHANGED mainVars

TransportFails(p) ==
  at[p] = "stream" /\ (ReadFails \/ WriteFails) /\ UNCHANGED mainVars

StreamReturns(p) ==
  /\ In(p, "stream") /\ exit # "running" /\ UNCHANGED files
  /\ Exit(p, exit)

\* A stream that is killed leaves nothing behind, and is left out.
Kill(p) ==
  /\ Runs(p) /\ ~command[p].stream /\ status[p] = "running"
  /\ at' = [at EXCEPT ![p] = "killed"] /\ status' = [status EXCEPT ![p] = "killed"]
  /\ UNCHANGED <<command, vars, files>>

-----------------------------------------------------------------------------
WriteResults(p) ==
  \/ MakeDirectory(p) \/ CreateTemporary(p) \/ EncodeResults(p) \/ CleanUp(p)
  \/ CloseTemporary(p) \/ Chmod(p) \/ RenameTemporary(p) \/ Saved(p) \/ RemoveTemporary(p)

Step(p) ==
  \/ ParseFlags(p) \/ LoadPolicy(p) \/ StreamReturns(p)
  \/ LoadRequests(p) \/ LoadEvidence(p) \/ EvaluateOnce(p) \/ PrintResult(p) \/ WriteResults(p)

MainNext == \E p \in Processes : Step(p) \/ Serve(p) \/ TransportFails(p) \/ Kill(p)

allVars == <<mainVars, vars>>

\* A process that may run does, each on its own; a stream's peer keeps sending
\* until it closes, and takes what is written.  No call has to fail.
MainSpec ==
  /\ MainInit /\ [][MainNext]_allVars
  /\ \A p \in Processes : WF_allVars(Step(p)) /\ WF_allVars(Serve(p))

-----------------------------------------------------------------------------
(* What the command line promises.                                         *)

WritesFile(p) == Runs(p) /\ command[p].output \in Paths

\* At every moment, whoever fails or dies and whatever runs beside it, a
\* result file is the one that was there or one whole result of a process that
\* names the file (README: "The rename makes replacement atomic").
ResultsWhole ==
  \A path \in Paths : disk[path] # Nothing =>
    /\ disk[path].whole
    /\ disk[path].by # Earlier =>
         LET p == disk[path].by
         IN  WritesFile(p) /\ command[p].output = path /\ p \in written

\* Status 0 means that the result of this process is on stdout or replaced the
\* result file, any other status that it did not and that its temporary file is
\* gone, unless that could not be removed (output_test.go:270 fails one call at
\* a time, for one process).
ExitTellsResult ==
  \A p \in Processes :
    Runs(p) /\ ~command[p].stream /\ status[p] \notin {"running", "killed"} =>
      /\ status[p] = "success" <=> p \in written \/ stdout[p] = Result(p)
      /\ at[p] = "exited" => \A t \in TempNames : temps[t] = Nothing \/ temps[t].by # p

\* Every process ends: a stream once its peer has closed.
ProgramEnds == <>(\A p \in Processes : Runs(p) => status[p] # "running")
=============================================================================
