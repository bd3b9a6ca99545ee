# verifoxx in TLA+

Verifoxx evaluates requests against a compiled policy: every request of a pack,
with the evidence records it names, becomes one decision (Approve, Reject,
Revise, Escalate), the requirements and evidence it rests on, a rationale and,
for a Revise, remediations. This directory holds TLA+ models of the program,
the TLC runs that check them and theorems about them checked by TLAPS. Line
numbers are those of the repository this directory documents; `PROJECT.json`
maps every definition to its source.

## Inventory

| Component | State it keeps | Operations | Hard behaviour |
|---|---|---|---|
| Vocabulary (`internal/schema`) | none | IDs, precedence | - |
| Policy AST (`internal/ast`) | none | `Policy.Validate` | limits shared by all expressions of a policy |
| Compiler (`internal/compile`), program (`internal/program`) | interner, catalogues, columns; then immutable | `Compile`, `Program.Validate` | ranges opened around a recursion, narrowing to `uint16` |
| Batch builder (`internal/eval/builder.go`) | the batch's columns and bitplanes, two ID maps, all reused | `BuildInto` | stale bits after a longer pack, IDs of a refused one, sentinels |
| Kernels (`internal/eval/scalar.go`, `evidence.go`) | truth and reason planes, reused | one loop per opcode | planes written apart must agree; conflict sets both truth bits; empty batch |
| Row resolution (`internal/eval/executor.go`, `internal/result`) | numeric columns with CSR tails, reused | `EvaluateInto`, `resolveRow` | rank ties, capacity contract, range bookkeeping |
| Materialization (`internal/adapters/jsonio/output.go`) | the output pack, reused | `MaterializeInto`, `EncodeResults`, `WriteResults` | validation of ranges, in-place rewrite, atomic replacement of a file |
| Session (`internal/engine`) | all of the storage above | `Evaluate` | the whole pipeline over any sequence of packs |
| Framed stream (`internal/adapters/framed`, `cmd/verifoxx/stream.go`) | read buffer, decoded input, response buffer | read, decode, evaluate, encode, write | short reads and writes, reused decode storage, which errors answer and which stop |
| Command line (`cmd/verifoxx/main.go`, `WriteResults`) | result files, temporary files | one-shot, `--stream` | failures and kills between calls, two processes and one result file |
| Go installer (`scripts/install-go.sh`) | lock directory, stage, backup, destination | acquire, recover, stage, swap, clean up | concurrent installers, SIGKILL anywhere, INT/TERM between commands, PID reuse |
| `mm` installer (`cmd/mm/install.go`) | binary, five profiles | plan, copy, write, roll back | partial failure, Windows replacement, concurrent edits |
| Scripts (doctor, menu, demos) | none | wrap other commands | - |

Components meet by calls: `cmd/verifoxx` compiles a policy into an immutable
`Engine`, makes a private `Session` of it and calls `Session.Evaluate`, which
calls `Builder.BuildInto`, grows the context and result storage, calls
`Evaluator.EvaluateInto` (all instructions over all rows, then each row) and
`MaterializeInto`, and returns a pointer to the session's own output. Sessions
share nothing mutable. The installers and scripts share only the file system.

What makes each correct: the *evaluator* - the answer is a function of the
policy and the pack alone; no finding of a row outranks its decision and the
decision's driver is a finding of that row; nothing is approved that no
requirement governs. *Session storage* - never stale, never out of capacity,
never inconsistent enough to fail. The *compiler* - the program says what the
policy says, whatever is compiled later, and is one the evaluator was written
for. The *stream* - one response per
frame, in order, whole or the stream ends. The *command line* - a result file is whole
and its exit status true. The *installers* - one toolchain install at a time, a
working copy before implies a working copy after, and a shell profile keeps its
user's text.


## Modules

| Module | Models | Extends |
|---|---|---|
| `Schema` | reasons, outcomes, rank, driver kinds (`internal/schema`) | - |
| `Program` | the compiled program and the packs, as constants with the guarantees of `Policy.Validate`, `Compile` and `Program.Validate` as assumptions | `Schema` |
| `Batch` | `BuildInto`: what is refused, what its ID maps hold, how columns are resized and cleared, edges, field bits, evidence flags, symbols | `Program` |
| `Kernels` | one operator per opcode: which rows get which reason, and the truth bits that go with it | `Batch` |
| `Session` | the state machine of `Session.Evaluate` over reused storage | `Kernels` |
| `SessionProperties` | the type invariant and the properties of the session | `Session` |
| `Decision` | what a request's answer is (`Decide`), said of source text alone, without symbols, planes, columns or cursors | `Program` |
| `Service` | the abstract specification: a pack is refused as a whole or answered in one step, row by row, each a function of the pack | - |
| `SessionContract` | which packs are acceptable, and the refinement mapping from session to `Service` | `SessionProperties`, `Decision` |
| `MCSession` | policies and packs for TLC | `SessionContract` |
| `SessionProofs`, `StorageProofs` | theorems about the session | `SessionProperties` |
| `ContractProofs` | the session implements `Service` | `StorageProofs`, `SessionContract` |
| `StreamProofs` | theorems about the stream | `Stream` |
| `CommandLineProofs` | theorems about verifoxx processes | `CommandLine`, `StreamProofs` |
| `MMInstallProofs` | theorems about `mm --install`: what it does to the disk and what it makes of the profiles | `MMInstall` |
| `InstallGo` | `scripts/install-go.sh` run by several processes | - |
| `InstallGoProofs` | theorems about `install-go.sh` | `InstallGo` |
| `Policy` | a policy as written: its expressions, `Policy.Validate`, the limits of the decoder | `Schema` |
| `Compiler`, `MCCompiler` | `Compile`, step by step, and `Program.Validate`; instantiates `Program` | `Policy` |
| `CompilerProofs` | theorems about the compiler | `Compiler` |
| `Stream`, `MCStream` | `verifoxx --stream`: frame codec, JSON codec, the loop | - |
| `CommandLine`, `MCCommandLine` | verifoxx processes from their arguments to their exit status, `WriteResults` | `Stream` |
| `MMInstall`, `MCMMInstall` | `mm --install` on Unix and Windows | - |

### The session

`Session` has variables for the storage the worker keeps: the builder's two ID
maps (`scratch`), the batch, the planes `positive`, `negative` and `reasons`
with the row count they were made for (`contextRows`), the numeric columns
with their CSR tails (`reqOffsets`/`reqIds`, `evOffsets`/`evRefs`,
`remOffsets`/`remIds`), the `capacity` of each column, the `output` pack with
the cells beyond its length (`spare`), and the loop cursors. Nothing is reset
between calls except what the code resets. A refused pack leaves in the maps
the IDs entered before the error (`MapsAfter`), as in the code, so that a
`clear` left out would be seen in the answer to a later pack. The six slices of
a result are the parts of its cell: `materializeRowInto` empties all of them
before it fills any.
`Evaluate` is cut at its loops: `BuildInto` or `RejectInput`, `EnsureCapacity`,
the checks of `EvaluateInto`, one step per instruction, per row, per evidence
edge (the loop over issues and the loop over the records used are separate, each
with its own exit), per requirement and per clause, then one step for each row
materialized.
The internal checks are conjuncts of the step that makes them, and a check that
fails ends the call with `internal_error`, so that "it never fails" can be said
and checked: `CheckShapes` has the capacity of all result columns
(`CheckCapacity`), the shape of the planes and request columns
(`EvaluateInstructions`) and the lengths, ranges and indexes of the evidence
columns (`validateEvidenceBatch`); `BeginMaterialize` has `Program.Validate`
(`ValidProgram`), the lengths against the pack and `validateOutputCSR`;
`Materializable` has each check of `materializeRowInto` and `materializeDriver`:
the outcome, requirement, record and remediation IDs, the remediation's action,
the driver with its edge and the position of that edge in the request, and the
explanation. Left out are the checks for nil arguments, which a session never
passes, and those that a product of sizes overflows an `int`
(`engine.go:87-94`, `executor.go:33-39`, `builder.go:91`), which the default
limits exclude; `ValidProgram` leaves out what the representation implies, the
lengths of parallel columns and the byte ranges of `SymbolText`.

Abstractions: a symbol is its string and `NoSymbol` the ID 0; a bitplane is the
set of rows whose bit is set, so 64-row words and the tail mask are not seen;
rationale texts are reduced to what they name. Parallel arrays are functions.
Limits that the code takes from `uint32` are `MaxRows`, `MaxEvidence`,
`MaxEdges`.

`Decision` says what a request's answer is: what each instruction means for the
texts of the request and of the records it refers to, which findings the request
has and in which order they break ties, which of them is decisive. `Service`
takes a pack, refuses it or answers it with `Decide` of each request, and keeps
nothing. `Implements` says that a session is such a service: `BuildInto` is
`Ask`, `RejectInput` is `Refuse`, `Return` is `Answer`, and everything between is
stuttering. The mapping hides the storage but not the pack: it is pending while
`Evaluate` runs, and between calls the caller holds the last output.

### The installer

`InstallGo` gives every command of the script that touches a path other
processes use a step of its own: `mkdir` of the lock, writing the PID, reading
it, `kill -0`, the rename that captures a stale lock, the look at what was
captured, the test and the move that restore it, the recovery sweeps, the stage,
the two moves of the swap and the three steps of `cleanup`. Shell variables are
`mem[p]`. `Kill` is SIGKILL between any two commands; `Interrupt` is a trapped
INT or TERM, which bash runs after the current command. `mv` onto a directory
that exists moves into it, as the command does. Downloads either deliver a good
toolchain or fail. Symlink refusals, `--dry-run` and the choice of archive end
the script before the lock and are left out.

### The stream

`Stream` counts bytes and describes payloads by what they say. `ReadHeader` and
`ReadPayload` take any part of what has arrived; `Write` and `WriteFails` any
part of what is offered; `ReadFails` is a source that fails. The decoder's
storage is the sequence of cells of each slice with its length, because
`encoding/json` decodes over cells that lie beyond the length
(`DecodeArray`, an external definition: the behaviour of the standard library
this code relies on and the `resetInput` it contains guards against). A cell
of `requests` or `evidence` holds the texts of a record and, for a request, the
slice of its `evidence_ids`, which is storage of the same kind one level down:
`ResetCell` clears it within its own length and keeps it, `DecodeRefs` decodes
over it, and an element `null` keeps what was there. An object may name a key
several times at either level. The session is a function of the pack here:
`Answer` is the builder's refusal (limits, IDs and references that are empty or
untrimmed, repeated IDs) or the pack that is answered;
`SessionContract!Implements` is why it may be. `StreamAssumption` says what an
input is: a sequence of frames, each with a length and a document of arrays, and
some number of its bytes that arrive.

### The compiler

The expressions of a policy are one table of nodes, parents before children, as
`validateExpression` visits them. The recursion of `compileExpression` is the
variable `stack`: a frame holds a node and the instructions its children have
become (`operands`), `Descend` is the call for the next child and `Emit`
everything after the loop. A record in a sequence stands for the entries that
the code appends to parallel columns; the flat columns that ranges point into
(`operands`, `setValues`, `clauseIDs`, `clauseKinds`, `clauseRemediations`) are
sequences of their own, and starts count from zero as in the code. A `uint16`
conversion is a remainder: `Count` where the number of nodes bounds what is
counted, `TextID` where only the size of the document does. The latter is
`Size`, a lower bound of the bytes: a remediation or an explanation costs at
least one, so with a limit below the width no ID wraps, as 1 MiB of JSON cannot
hold 65,536 of either (a remediation takes over 50 bytes, and an explanation
comes with the mapping of its clause).

`emitted` is a history variable: the instruction each node became. The
properties read the program as the evaluator and the materializer do, through
ranges and IDs (`Meaning`, `ClauseMeaning`), and compare with the source at
every step, so an entry that shifts a range already opened shows at once.

`Program` states what the session assumes of a program. `Compiler` instantiates
it with the compiled columns (`Engine`), and `FitsTheEngine` says that each
assumption on code, clauses, requirements and remediations holds, also that each
clause is listed by one requirement, once, which the session's
`Program.Validate` checks again: the session's theorems thus speak of the
programs that the compiler delivers.

### The command line

`CommandLine` extends `Stream`: a process reads its flags, loads, and either
serves the stream, whose steps are those of `Stream`, or evaluates once, with
the same `Identified` and `Answer`. `WriteResults` has one step per call of the
file system; each may fail, and `cleanup`'s errors are ignored as in the code.
`Kill` is SIGKILL between any two steps. A result is known by the process that
computed it, and a file that is still being written is a `Part`. `os.CreateTemp`
is a choice of a name no file has (`FreeName`).

### `mm --install`

`MMInstall` has one step for each file the installer reads and one for each
call by which `writeReaderAtomic` changes a directory, so `write` is that call's
program counter and `pc` that of `installUnix` or `installWindows`; `mem` holds
the plans, the snapshots and `committed`. `rollbackUnixInstall` and
`restoreSnapshot` are steps too, and each can fail. Contents are sequences of
tokens: the two markers, block bodies, newlines and the user's text, which is
what `planProfileBlock` tells apart. `resolve` is `profileWritePath`: two
profiles may be links to one file. The user edits profiles between any two
steps; an edit made while an install holds a snapshot of the file is noted in
`raced`, because the code overwrites it. `before` is what the disk would be
without the last run. A run that is killed after one of its undo steps failed
ends as `rollback failed`: it can promise no more than one that lived on. `reloadNeeded` only chooses a message and is left out.

## Runs

| Run | Question | Bounds |
|---|---|---|
| `decide` | Is each decision right, with its reason, driver, requirements, evidence and remediations? | one request, 4 x 4 field values, 7 reference lists, 7 x 3 records, a policy with all opcodes, two levels of conjunction, three clauses, every outcome |
| `reuse` | Does anything of one pack reach another? Does a check of the code ever refuse? | any sequence of seventeen packs: none, one and two rows, missing records, every outcome, five refused packs |
| `install` | Exclusion, survival of the toolchain, live locks, success, termination | two processes, one SIGKILL |
| `install_interrupted` | Exclusion and cleanup after INT and TERM | two processes, two signals |
| `install_crowd` | (violation) exclusion | three processes, a stale lock, no signal |
| `install_killed` | (violation) takeover of a dead holder's lock | one process, one SIGKILL |
| `install_lost` | (violation) survival of the toolchain | one process, one INT |
| `verifoxx` | Is every frame answered, alone, in order, and what may stop the stream? Are result files whole and exit statuses true? Does every process end? | one process that serves any of the streams below, or two that write the same result, or one for each other use of the command line; failing calls and kills anywhere; two temporary names |
| `stream_twice` | (violation) independence of frames | a document that names `requests` twice, or a request that names `evidence_ids` twice, followed by any frame |
| `mm` | Does success install and failure restore; does the user's text survive; is a block unique, the binary always there, the second run a no-op; does each run end? | three profiles, two of which may be one file, in eight first states; five first binaries; two runs, three faults (failing calls or a kill), one edit |
| `compile` | Does the program say what the policy says, pass `Program.Validate`, and fit the engine? | 3 applicabilities x 5 assertions x one or two clauses or requirements, with each operator, nesting to the depth limit, repeated texts, kinds and remediations, sets one short of the `uint16` limit; 45 policies at or past a guard |
| `compile_wide` | (violation) sets of any size | sets of 2^16 and 2^16 + 1 values, with 14 for 2^16 |

Why these bounds are enough to mean something. In `decide` the rows of a batch
do not interact except through offsets, so one row reaches every combination of
findings; both kinds of evidence, repeated references and the reference to an
unknown record are there. In `reuse` two rows are the least that let one row's
range be shifted by another's, and packs both shrink and grow, which is what
makes storage stale; packs are refused before, within and after the IDs are
entered, and a pack that names a missing record follows one that had it, which
is what makes the ID maps stale; the state space is finite although sequences are not,
since all that survives a call is the storage. In `install` one kill reaches
every recovery path with the other process as the one that recovers. In
`verifoxx` the streams are all sequences of up to two of fifteen kinds of frame
cut at every byte, and triples that end in a frame that leaves out a field, a
list or a reference, with limits of two bytes, three records, two results and
three references: two frames are the least that let one disturb the other,
and the third makes the disturbance visible after a frame that was refused. Two
writers of one file reach every interleaving of their calls; a third would only
repeat what the second does. A killed stream is left out: it leaves nothing.
In `mm` two runs are what idempotence is about, and three faults are a failure,
a failure in its rollback and a kill after that. In `compile` the limits are small (13 nodes, width 14
for counts; 15 units of text, width 16 for IDs) so that policies at them, and one
past, are compiled; that a set is shorter than the width is a bound of the run,
not of the code, and `compile_wide` drops it.

Every property of a passing run has a mutant in `PROJECT.json`: a definition of
the model changed as a plausible bug would change the code (a column not
cleared, a strict comparison made weak, a lock not looked at again, a length
reset without its cells), under which TLC finds the property violated.

## Fairness

- Session: weak fairness of `Evaluate`'s steps. They are one goroutine's
  straight-line code without waiting. That a caller submits again is not
  assumed, nor needed: `EvaluateReturns` is about calls that were made.
- Installer: weak fairness of each process's `Acquire`, a shell going from one
  command to the next. Nothing is assumed of the steps under the lock, where a
  download may hang, so no claim is made that an install ends; `AcquireEnds`
  holds without it because contenders refuse rather than wait.
- verifoxx: weak fairness of each process's own steps (`Step`) and of the stream
  it serves (`Serve`): a file-system call returns, and the stream's peer goes on
  sending until it closes and takes what is written to it. `ReadFails`,
  `WriteFails` and `Kill` are outside it, so no property relies on a failure;
  where a step may succeed or fail, either may happen.
- Compiler: weak fairness of `Compile`, one goroutine's straight-line code; no
  run states a liveness property of it.
- `mm`: weak fairness of the installer's steps but for the PowerShell process,
  which may never return; `InstallEnds` says that a run ends or is there.

## Proofs

The theorems hold for all constants that satisfy the assumptions each module
names: every program and set of packs (`Program`, `Batch`, `Session`), every set
of inputs and limits (`Stream`), of processes and commands (`CommandLine`), of
profiles, links, first disks and bounds (`MMInstall`), of processes and signals
(`InstallGo`), of policies and decoder limits (`Compiler`). `PROJECT.json` lists them.

1. `TypeCorrect`: `Spec => []TypeOK`. `TypeOK` is inductive; the work is that
   each column has the shape of *this* batch after `EnsureCapacity`, whatever
   shape the last one left.
2. `PlanesAgree`: `[]ReasonMatchesTruth`. A kernel adds rows to its planes, so
   the property is inductive only with `PlanesInv`, which says that the planes
   of an instruction that has not run are empty. Lemmas about the kernels show that each
   opcode yields exactly one reason.
3. `ConjunctionsSettle`: `[]SettledOperandSettlesAll`. `ConjunctionInv` says that
   a conjunction that has run still holds the intersection of its operands'
   planes, which it does because operands precede their consumers
   (`CodeAssumption`) and no plane is written twice. With `PlanesInv`, a row
   whose operand is false or in conflict is settled by the truth bits, so the
   list of priorities never decides it.
4. `DecisionsCover` and `DriversAreFindings`: `[]NoFindingOutranksDecision` and
   `[]DriverIsAFinding`. Both speak of finished rows and are not inductive.
   `DecisionInv` adds what the winner has covered in the row under way: the
   issues and the edges before the cursor, then the requirements and clauses
   before theirs, and that the row's range of requirements is non-empty exactly
   if one applied, on which the finding "nothing applicable" depends. One lemma
   per step of `resolveRow`.

5. `RowsOwnTheirRanges`, `ColumnsStayWithinCapacity`, `NoEvaluationFails` and
   `ApprovalsAreEarned` (`StorageProofs`) rest on one invariant, `StorageInv`. Its
   parts need each other: that the lengths appended so far stay below what
   `Ensure` reserved follows from counting what each row may still append
   (`Reserved`, with the cursors of the row under way); that the offsets of one
   row are the ends of the row before (`Linked`) from the order of the appends;
   and that no internal check refuses from both, with `ProgramIsValid` (the
   program is the one that was validated) and lemmas that a finding has what
   `materializeDriver` asks of a driver (`FindingMaterializes`) and a row what
   `materializeRowInto` asks (`RowMaterializes`). That the ID maps do not matter is
   `BuildForgets`: whatever they held, the batch is that of empty maps.
   `OutputEarned` carries what a finished row says over to the output pack, which
   the caller reads later.
6. `ProcessesKeepFiles`, `ResultsAreWhole` and `StatusTellsResult`
   (`CommandLineProofs`). A temporary name is owned: between `create` and
   `remove` the file under it is the work of one process, which is at a step
   that says how much of it is written (`MainInv`). So what the rename puts in
   place is whole, for any number of processes and names.
7. `InstallTypes`, `FailedInstallsRestore`, `BinaryIsNeverMissing` and
   `BlocksHaveTheirBinary` (`MMInstallProofs`) rest on `InstallInv`: the call in
   progress is the one its stage makes; a snapshot is what would be there without
   the run; and a profile nobody else edited differs from that only where the
   rollback will look (`Touched`).
8. `SuccessIsReal`, `BlocksAreUnique`, `InstallIsIdempotent` and `UserTextIsKept`
   (also in `MMInstallProofs`), each from an invariant of its own on top of `InstallInv`, and
   lemmas about `planProfileBlock` (`UpdatedShape`, `HasBlockShape`, `EditShape`): a
   profile it has updated has the block, and has it once if it had it at most once.
   `SuccessInv` says which profiles have their block at each turn of the update
   loop, `BlocksInv` that whatever a call may write has one block, `IdleInv` that a
   run that found everything in place has planned no change, and `TextInv` that
   every profile, and every content a plan may still write to it (the update and the
   snapshot), has the text its user wrote, unless it was edited under the run. The text outside the block is a recursive function of the
   content; that an update of the block leaves it alone (`UpdatedText`) is proved
   from the least position at which two such functions differ (`TextsAgree`). They
   need what the code cannot check, each as a named hypothesis: `LinkedAlike`, that
   profiles which are links to one file have the same block (the second of two
   different blocks would replace the first); `MarkersApart`, that users do not
   write the marker lines themselves; `LinesApart`, that a line of text is not a
   newline; `OneBlockAtFirst`, that no profile starts with two blocks, of which the
   code looks at the first; and `NoBitOnWindows`, that a file there has no execute
   bit to lack. The constants of the run `mm` satisfy all of them.
9. `StreamTypes` and `CleanExits` from `PlaceInv`, which says where in the input
   the reader is and how many responses are out. `FramesAreAlone` is about the
   reused slices: `AnswerInv` says that the cells behind a slice's length are
   clear between frames, in their texts and in the whole storage of their
   `evidence_ids`, and that those within it are clear behind the length of
   theirs (`Clear`); so `resetInput` leaves nothing (`ResetBlanks`), and decoding
   a frame into what it leaves shows what decoding it into nil slices does. This
   takes `NamedOnce`, that no document names an array twice, nor a request its
   `evidence_ids`; the run `stream_twice` shows what happens when one does.
   `ProcessServesStream` shows that a verifoxx process does to the stream what
   `Stream` says and nothing else, so `ProcessEndsCleanly` and
   `ProcessAnswersFrames` hold of the program.
10. `NothingIsLeft` (`InstallGoProofs`): `[]NoLeftovers`, for any number of
   processes that contend, are interrupted and are killed, although exclusion may
   fail between them. `CleanInv` says why that does not matter: a process makes
   only what it has noted to clear (`Remembered`), others take from it but never
   add, and what `cleanup` skips is a backup it reported. The hypothesis
   `MaxStarts = 1` says that no PID is used twice; a process that is killed and
   one that gets its PID afterwards and fails early do leave the first one's stage
   (TLC finds it with `MaxStarts = 2`).

   The other properties of the script fail for three processes (`install_crowd`),
   so they are theorems about two (`TwoProcesses`, and again `MaxStarts = 1`), with
   any number of signals at any step where TLC checks one. `InstallsAreSerialized`
   and `SuccessIsInstalled` are `[]OneInstaller` and `SuccessInstalls` for every
   kind of signal. `Serial` says it of the pair: a process inside the lock
   (`Inside`) has it at its place, or the other has renamed it and is still to
   look at it and put it back (`Returning`), or has ended; in none of these cases
   is the other inside too. `SwapInv` adds that who installs still holds the lock it made
   and finds the destination as it left it. `ToolchainIsNeverLost` and
   `LiveLockIsNeverDeleted` are `ToolchainSurvives` and `LiveLockKept` where
   processes are killed but not interrupted (`"INT" \notin Signals`), and for both
   that is needed: an INT between `mv` and `had_backup=1` loses the toolchain
   (`install_lost`), one between capturing a lock and looking at it deletes a
   live one. `BackupInv` says that a backup exists only after the process
   has noted what it moved, and that none is cleared while nothing is at the
   destination; `ClaimInv` that a renamed lock goes to a free path, is remembered as
   captured only until it has been put back or found stale, and finds the place of a
   live one free when it is put back. `MaxStarts = 1` is needed here as well:
   after a restoration failed, a later run with the same PID takes the preserved
   backup for its own.
11. `TypeCorrect`, `ExpressionsSay`, `ClausesSay`, `Validated` and `EngineFits`
   (`CompilerProofs`) rest on `CompilerInv`, four parts that need each other.
   `Placed` says where `Compile` is in the policy. `Tree` says that the frames of
   `compileExpression` are a path of one tree, that a node below a finished one is
   finished, and that every instruction belongs to one node (`Owned`), so the
   children of a node have smaller IDs. `Translation` says what each column holds:
   the catalogues are without repetition, a row's range was opened and closed
   around its own entries, and every node, clause, remediation and requirement
   passed so far is said by its row (`Rowed`). Columns only grow, so what a row
   said of its range it says for ever: one lemma per kind of append shows that the
   earlier rows keep their meaning. `Listing` relates a clause's kinds of evidence
   to the instructions of its assertion; that they come out in the order of first
   use follows from the order of IDs within a tree. `Judged` says that
   `Program.Validate` passed what is compiled. TLC checks the properties rather
   than `CompilerInv`, parts of which choose from unbounded sets.
   `ExpressionsSay` and `Validated` have the hypothesis `SetsFit`, that no `in`
   lists as many values as its `uint16` count can hold; without it they are false
   (`compile_wide`). `ClausesSay` and `EngineFits` need no hypothesis: whatever
   `Compile` returns satisfies the assumptions of `Program`, so the theorems about
   the session hold of what the compiler delivers.

12. `SessionImplements` (`ContractProofs`): `Spec => Implements`. On top of the
   invariants of 1 to 5 it takes `ContractInv`, whose parts follow the pipeline.
   `PlanesMean`: the one reason that a run instruction holds on a row is what
   `Decide` makes it mean. For a field this needs that symbols are interned
   strings and the vocabulary's bits are right; for evidence, that edges are the
   request's references resolved by ID (`EdgeOwner`, `RecordIndexMeans`) and that
   the kernel's classes, tested in turn, are the states from worst to best; for a
   conjunction, that intersecting and uniting truth bits and then searching the
   priority list is `AllMeaning`. `Meaning` is a recursive function; that it has
   a value at all is proved from the least instruction where it would not
   (`MeaningExists`). `RowSettles`: the winner of the row under way is the first of
   the highest-ranked findings met so far, where `Place` says how far `resolveRow`
   has come in the order that breaks ties; `DriversSettle` says it of finished
   rows. Each step of `resolveRow` meets at most one finding (`StepMeets`) or none
   (`StepKeeps`). `UsesColumn`: the evidence column names, in order, the places
   where the request first mentions a required record. `Answered`: rows that are
   materialized are answers. A list in a given order is determined by its members
   (`InOrderLists`), which turns the columns into the sets `Decide` speaks of.
   Last, `AcceptableIsBuildable` shows that builder and contract refuse the same
   packs, whatever the ID maps held: a pack has as many edges as mentions
   (`MentionsCounted`, a bijection).

Only model-checked are the liveness properties `EvaluateReturns`, `AcquireEnds`,
`ProgramEnds` and `InstallEnds`, which are out of the prover's reach. Every other
property of a passing run is a theorem, under the hypotheses named above.

## Findings

- *A long set.* `uint16(len(expr.Values))` (`compiler.go:103`) wraps. The
  requester's vocabulary is open, and 65,537 requesters fit into a policy of
  1 MiB: it compiles to a program that tests the first value alone. With 65,536
  values the count is zero and `Compile` reports an invalid program.
- *Three installers.* The rename at `install-go.sh:212` takes the lock that is
  there, not the one whose PID was read. While a live lock is away a third
  process can make its own, and two install at once. Two processes that
  each run once cannot, with no lock or a stale one at first
  (`InstallsAreSerialized`).
- *Killed before the PID.* A SIGKILL between `mkdir` and the PID leaves a lock
  that later runs refuse as unreadable; the comment above the recovery says the
  next run removes it.
- *Lost toolchain.* An INT or TERM between `mv "$dest" "$backup"` and
  `had_backup=1` makes `cleanup` delete the backup instead of restoring it.
- *A repeated key.* `resetInput` clears only the cells within the current
  length. A document that names `requests` twice, the second time with fewer
  rows, leaves cells beyond it, and a later frame that omits a field is
  answered with the old one. One level down, a request that names
  `evidence_ids` twice leaves references behind the length of its list, and a
  later `["x", null]` shows the old one, where a fresh process refuses the
  request. `stream_twice` has inputs of both kinds (`RequestsTwice`, `RefsTwice`)
  and stops at the first violation; with either kind alone TLC finds one too. This rests on `encoding/json` (its v1 semantics)
  accepting repeated names and decoding array elements over what the slice's
  capacity already holds.

Seen while exploring and listed as hazards: `clauseEvidenceDetail` names the
first kind of the clause whichever instruction failed (`output.go:301`), so a
clause with two kinds reports as missing one that was supplied; no document says
which kind it should be, and every clause of the bundled policy has at most one.
`mm` on Windows removes the old executable before it renames the new one, and a
copy that fails in between is not rolled back. And a contender interrupted
between capturing a lock and looking at it deletes the lock in `cleanup`, live
or not (`install-go.sh:164`), so `LiveLockKept` is checked under SIGKILL only.

## Not modelled

- JSON syntax, encoding and decoding: `encoding/json` does them. A file that does
  not parse is a load that fails; what a decoder leaves in reused storage is
  modelled in `Stream`.
- The launcher of `mm` (`findProject`, `makefileDefinesMenu`, `executeMake`): it
  walks up to a Makefile and runs make, keeps no state and changes no file.
- 64-row words and their tail mask (`truth.go`): only rows of the batch are ever
  read and `all` starts from the planes of an operand, whose tail bits are clear,
  so a set of rows is what a plane is. The byte offsets of `SymbolText`.
- The wrapper scripts: sequences of other commands, with no state of their own.
