------------------------------ MODULE Session -------------------------------
(***************************************************************************)
(* engine.Session: one sequential worker that evaluates one pack after     *)
(* another through private storage it reuses - the batch, the bitplanes,   *)
(* the numeric result columns and the output pack - and hands its caller   *)
(* a pointer to that output.                                               *)
(*                                                                         *)
(* Session.Evaluate is cut at its loops: one step builds the batch, one    *)
(* runs each instruction, one each edge, requirement and clause of each    *)
(* row, and one materializes each row.                                     *)
(***************************************************************************)
EXTENDS Kernels

CONSTANT EnvironmentField   \* schema.FieldEnvironment
ASSUME EnvironmentAssumption == EnvironmentField \in Fields

VARIABLES
  pc,          \* where Evaluate is
  status,      \* what the last Evaluate returned
  pack,        \* its arguments
  scratch,     \* session.builder's two ID maps
  batch,       \* session.batch
  positive, negative, reasons,   \* session.context, one entry per instruction
  contextRows, \* session.context.Rows
  ip,          \* EvaluateInstructions' index
  row,         \* the row being resolved or materialized
  edge,        \* resolveRow's edge, in both of its loops over the edges
  requirement, \* resolveRow's requirementIndex + 1
  clause,      \* position in the requirement's clauses
  winner,      \* resolveRow's winner* locals
  drivers, issueIds,             \* session.numeric: one entry per row
  reqOffsets, reqIds, evOffsets, evRefs, remOffsets, remIds,   \* its CSR columns
  capacity,    \* cap() of every column of session.numeric
  output,      \* session.output.Results
  spare        \* its cells between its length and its capacity

context == <<positive, negative, reasons>>
cursors == <<ip, row, edge, requirement, clause, winner>>
columns == <<drivers, issueIds, reqOffsets, reqIds, evOffsets, evRefs, remOffsets, remIds>>
numeric == <<columns, capacity>>
kept    == <<scratch, contextRows, spare>>   \* touched by one action or two
vars    == <<pc, status, pack, batch, context, cursors, numeric, output, kept>>

Rows == 1..batch.rows

NoDriver ==
  [outcome |-> OutcomeApprove, kind |-> "none", requirement |-> 0,
   clause |-> 0, reason |-> ReasonSatisfied, field |-> 0, edge |-> 0]

\* A zeroed row of the result columns.
ZeroDriver == [NoDriver EXCEPT !.outcome = 0, !.reason = 0]
ZeroResult ==
  [id |-> NoSymbol, decision |-> 0, requirements |-> <<>>, evidence |-> <<>>,
   driver |-> [kind |-> "none", clause |-> 0, reason |-> 0, field |-> 0, missing |-> NoSymbol],
   detail |-> [kind |-> NoSymbol, about |-> NoSymbol], remediation |-> <<>>]

\* The result columns whose capacity CheckCapacity looks at; "drivers" stands
\* for the seven columns of a row's driver.
NumericColumns ==
  {"drivers", "issueIds", "reqOffsets", "evOffsets", "remOffsets",
   "requirements", "evidence", "remediations"}

Init ==
  /\ pc = "idle" /\ status = "none"
  /\ pack = [requests |-> <<>>, evidence |-> <<>>]
  /\ scratch = EmptyMaps
  /\ batch = EmptyBatch /\ contextRows = 0
  /\ positive = <<>> /\ negative = <<>> /\ reasons = <<>>
  /\ ip = 1 /\ row = 1 /\ edge = 1 /\ requirement = 1 /\ clause = 1
  /\ winner = NoDriver
  /\ drivers = <<>> /\ issueIds = <<>>
  /\ reqOffsets = <<>> /\ evOffsets = <<>> /\ remOffsets = <<>>
  /\ reqIds = <<>> /\ evRefs = <<>> /\ remIds = <<>>
  /\ capacity = [column \in NumericColumns |-> 0]
  /\ output = <<>> /\ spare = <<>>

-----------------------------------------------------------------------------
(* Session.Evaluate: BuildInto, then the two Ensure calls.                 *)

\* BuildInto rejects the pack: an InputError.  The batch stays as it was, but
\* the maps hold what was entered before the error.
RejectInput(p) ==
  /\ pc = "idle"
  /\ ~Buildable(scratch, p.requests, p.evidence)
  /\ pack' = p
  /\ scratch' = MapsAfter(scratch, p.requests, p.evidence)
  /\ status' = "input_error"
  /\ UNCHANGED <<pc, batch, context, cursors, numeric, output, contextRows, spare>>

BuildInto(p) ==
  /\ pc = "idle"
  /\ Buildable(scratch, p.requests, p.evidence)
  /\ pack' = p
  /\ scratch' = MapsAfter(scratch, p.requests, p.evidence)
  /\ batch' = BuildBatch(batch, scratch', p.requests, p.evidence)
  /\ status' = "none"
  /\ pc' = "built"
  /\ UNCHANGED <<context, cursors, numeric, output, contextRows, spare>>

\* A mutant: storage sized once and never grown.
GrownOnce(have, need) == IF have = 0 THEN need ELSE have

\* Storage is replaced only when its capacity is too small.
Grown(have, need) == IF have < need THEN need ELSE have

\* A mutant: room for the requirements of one row.
NeededForOneRow ==
  [drivers |-> batch.rows, issueIds |-> batch.rows, reqOffsets |-> batch.rows + 1,
   evOffsets |-> batch.rows + 1, remOffsets |-> batch.rows + 1,
   requirements |-> Len(Requirements), evidence |-> Len(batch.refs),
   remediations |-> batch.rows * Remediations]

\* What the columns come to hold, and the last three may.
Needed ==
  [drivers |-> batch.rows, issueIds |-> batch.rows, reqOffsets |-> batch.rows + 1,
   evOffsets |-> batch.rows + 1, remOffsets |-> batch.rows + 1,
   requirements |-> batch.rows * Len(Requirements), evidence |-> Len(batch.refs),
   remediations |-> batch.rows * Remediations]

\* Context.Ensure and result.Batch.Ensure.
EnsureCapacity ==
  /\ pc = "built"
  /\ positive' = ResizeClear(positive, Instructions, {})
  /\ negative' = ResizeClear(negative, Instructions, {})
  /\ reasons'  = ResizeClear(reasons, Instructions, [reason \in Reasons |-> {}])
  /\ contextRows' = batch.rows
  /\ capacity' = [column \in DOMAIN capacity |-> Grown(capacity[column], Needed[column])]
  /\ drivers'    = ResizeClear(drivers, Rows, ZeroDriver)
  /\ issueIds'   = ResizeClear(issueIds, Rows, 0)
  /\ reqOffsets' = ResizeClear(reqOffsets, 1..(batch.rows + 1), 0)
  /\ evOffsets'  = ResizeClear(evOffsets, 1..(batch.rows + 1), 0)
  /\ remOffsets' = ResizeClear(remOffsets, 1..(batch.rows + 1), 0)
  /\ reqIds' = <<>> /\ evRefs' = <<>> /\ remIds' = <<>>
  /\ pc' = "ensured"
  /\ UNCHANGED <<status, pack, batch, cursors, output, scratch, spare>>

Fail ==
  /\ pc' = "idle" /\ status' = "internal_error"

\* The planes belong to this program and this batch.
ValidContext ==
  /\ contextRows = batch.rows
  /\ DOMAIN positive = Instructions /\ DOMAIN negative = Instructions
  /\ DOMAIN reasons = Instructions
  /\ \A i \in Instructions : DOMAIN reasons[i] = Reasons

\* EvaluateInto up to its first instruction: CheckCapacity, the shape checks
\* of EvaluateInstructions, and only then its clears.
CheckShapes ==
  /\ pc = "ensured"
  /\ IF /\ \A column \in DOMAIN capacity : capacity[column] >= Needed[column]
        /\ ValidContext
        /\ ValidRequestBatch(batch)
        /\ ValidEvidenceBatch(batch)
       THEN /\ positive' = ResizeClear(positive, Instructions, {})
            /\ negative' = ResizeClear(negative, Instructions, {})
            /\ reasons'  = ResizeClear(reasons, Instructions, [reason \in Reasons |-> {}])
            /\ pc' = "execute" /\ ip' = 1 /\ UNCHANGED status
       ELSE Fail /\ UNCHANGED <<context, ip>>
  /\ UNCHANGED <<pack, batch, row, edge, requirement, clause, winner, numeric, output, kept>>

-----------------------------------------------------------------------------
(* EvaluateInstructions: one instruction over every row.                   *)

\* setReason for every row.
WithReasons(found) ==
  [reasons EXCEPT ![ip] =
     [reason \in Reasons |-> @[reason] \cup {r \in Rows : found[r] = reason}]]

RowsWith(found, wanted) == {r \in Rows : found[r] \in wanted}

Executing(ops) ==
  /\ pc = "execute" /\ batch.rows > 0
  /\ ip \in Instructions /\ Code[ip].op \in ops

Executed ==
  /\ ip' = ip + 1
  /\ UNCHANGED <<pc, status, pack, batch, row, edge, requirement, clause, winner, numeric, output, kept>>

ExecuteField ==
  LET found == [r \in Rows |-> FieldReason(batch, Code[ip], r)]
  IN  /\ Executing({"equal", "in"})
      /\ positive' = [positive EXCEPT ![ip] = @ \cup RowsWith(found, {ReasonSatisfied})]
      /\ negative' = [negative EXCEPT ![ip] = @ \cup RowsWith(found, {ReasonFalse})]
      /\ reasons' = WithReasons(found)
      /\ Executed

\* Conflict sets both truth planes; no other evidence state sets the negative.
ExecuteEvidence ==
  LET found == [r \in Rows |-> EvidenceReason(batch, Code[ip], r)]
  IN  /\ Executing({"evidence_matches"})
      /\ positive' = [positive EXCEPT ![ip] =
                        @ \cup RowsWith(found, {ReasonSatisfied, ReasonConflict})]
      /\ negative' = [negative EXCEPT ![ip] = @ \cup RowsWith(found, {ReasonConflict})]
      /\ reasons' = WithReasons(found)
      /\ Executed

\* The words of the operands are intersected and united; the tail mask
\* leaves only rows of the batch.
ExecuteAll ==
  LET operands == Code[ip].operands
      pos   == {r \in Rows : \A o \in operands : r \in positive[o]}
      neg   == {r \in Rows : \E o \in operands : r \in negative[o]}
      found == [r \in Rows |-> AllReason(pos, neg, reasons, operands, r)]
  IN  /\ Executing({"all"})
      /\ positive' = [positive EXCEPT ![ip] = pos]
      /\ negative' = [negative EXCEPT ![ip] = neg]
      /\ reasons' = WithReasons(found)
      /\ Executed

\* A mutant: an empty batch is not recognised as done.
RanOutOfCode == ip > Len(Code)

\* EvaluateInstructions returns at once on an empty batch.
InstructionsDone == ip > Len(Code) \/ batch.rows = 0

\* dst.Reset prepares the columns.
ResetResults ==
  /\ pc = "execute" /\ InstructionsDone
  /\ drivers'    = ResizeClear(drivers, Rows, ZeroDriver)
  /\ issueIds'   = ResizeClear(issueIds, Rows, 0)
  /\ reqOffsets' = ResizeClear(reqOffsets, 1..(batch.rows + 1), 0)
  /\ evOffsets'  = ResizeClear(evOffsets, 1..(batch.rows + 1), 0)
  /\ remOffsets' = ResizeClear(remOffsets, 1..(batch.rows + 1), 0)
  /\ reqIds' = <<>> /\ evRefs' = <<>> /\ remIds' = <<>>
  /\ row' = 1
  /\ pc' = "row"
  /\ UNCHANGED <<status, pack, batch, context, ip, edge, requirement, clause, winner, capacity, output, kept>>

-----------------------------------------------------------------------------
(* resolveRow.                                                             *)

\* Mutants: the last finding of a rank wins; the first finding of all wins.
OutranksOrTies(outcome) == Rank(outcome) >= Rank(winner.outcome)
OutranksOnlyApproval(outcome) == winner.kind = "none" /\ outcome # OutcomeApprove

\* A finding replaces the winner only at a strictly higher rank.
Outranks(outcome) == Rank(outcome) > Rank(winner.outcome)

\* The semantic check: the first field with an issue, and no later one.
ResolveSemantics ==
  LET issues == batch.issues[row]
      field  == CHOOSE f \in issues : \A g \in issues : f <= g
  IN  /\ pc = "row" /\ row \in Rows
      /\ winner' =
           IF issues # {} /\ Rank(OutcomeEscalate) > Rank(NoDriver.outcome)
             THEN [NoDriver EXCEPT
                     !.outcome = OutcomeEscalate, !.kind = "semantic", !.field = field,
                     !.reason  = IF row \in batch.present[field] THEN ReasonUnclear
                                                                 ELSE ReasonMissing]
             ELSE NoDriver
      /\ edge' = batch.offsets[row]
      /\ pc' = "edges"
      /\ UNCHANGED <<status, pack, batch, context, ip, row, requirement, clause, numeric, output, kept>>

\* A sentinel edge is a missing reference.
ResolveEdge ==
  /\ pc = "edges" /\ edge \in RowEdges(batch, row)
  /\ winner' =
       IF batch.refs[edge] = 0 /\ Outranks(OutcomeEscalate)
         THEN [winner EXCEPT !.outcome = OutcomeEscalate, !.kind = "missing_reference",
                             !.reason = ReasonMissing, !.edge = edge]
         ELSE winner
  /\ edge' = edge + 1
  /\ UNCHANGED <<pc, status, pack, batch, context, ip, row, requirement, clause, numeric, output, kept>>

BeginRequirements ==
  /\ pc = "edges" /\ edge \notin RowEdges(batch, row)
  /\ reqOffsets' = [reqOffsets EXCEPT ![row] = Len(reqIds)]
  /\ requirement' = 1
  /\ pc' = "requirements"
  /\ UNCHANGED <<status, pack, batch, context, ip, row, edge, clause, winner, drivers, issueIds,
                 reqIds, evOffsets, evRefs, remOffsets, remIds, capacity, output, kept>>

\* Positive and not negative at the applicability root.
Applicable(q, r) ==
  r \in positive[Requirements[q].root] /\ r \notin negative[Requirements[q].root]

SelectRequirement ==
  /\ pc = "requirements" /\ requirement \in DOMAIN Requirements
  /\ IF Applicable(requirement, row)
       THEN /\ reqIds' = Append(reqIds, requirement)
            /\ clause' = 1 /\ pc' = "clauses"
            /\ UNCHANGED requirement
       ELSE /\ requirement' = requirement + 1
            /\ UNCHANGED <<reqIds, clause, pc>>
  /\ UNCHANGED <<status, pack, batch, context, ip, row, edge, winner, drivers, issueIds,
                 reqOffsets, evOffsets, evRefs, remOffsets, remIds, capacity, output, kept>>

\* The reason a clause's assertion has on a row, and what the clause makes of it.
ClauseReason(c, r)  == InstructionReason(reasons, Clauses[c].root, r)
ClauseOutcome(c, r) == Clauses[c].resolution[ClauseReason(c, r)]

ResolveClause ==
  LET c == Requirements[requirement].clauses[clause]
      outcome == ClauseOutcome(c, row)
  IN  /\ pc = "clauses" /\ clause \in DOMAIN Requirements[requirement].clauses
      /\ winner' =
           IF Outranks(outcome)
             THEN [outcome |-> outcome, kind |-> "clause", requirement |-> requirement,
                   clause |-> c, reason |-> ClauseReason(c, row), field |-> 0, edge |-> 0]
             ELSE winner
      /\ clause' = clause + 1
      /\ UNCHANGED <<pc, status, pack, batch, context, ip, row, edge, requirement, numeric, output, kept>>

NextRequirement ==
  /\ pc = "clauses" /\ clause \notin DOMAIN Requirements[requirement].clauses
  /\ requirement' = requirement + 1
  /\ pc' = "requirements"
  /\ UNCHANGED <<status, pack, batch, context, ip, row, edge, clause, winner, numeric, output, kept>>

\* The requirement IDs this row has appended.
AppliedIds == SubSeq(reqIds, reqOffsets[row] + 1, Len(reqIds))

\* A mutant: nothing to check is nothing to object to.
NoneApplicableApproves == winner

\* A row no requirement applies to escalates.
NoneApplicableWinner ==
  IF AppliedIds = <<>> /\ Outranks(OutcomeEscalate)
    THEN [winner EXCEPT !.outcome = OutcomeEscalate, !.kind = "no_applicable",
                        !.reason = ReasonUnverifiable]
    ELSE winner

FinishRequirements ==
  /\ pc = "requirements" /\ requirement \notin DOMAIN Requirements
  /\ reqOffsets' = [reqOffsets EXCEPT ![row + 1] = Len(reqIds)]
  /\ winner' = NoneApplicableWinner
  /\ evOffsets' = [evOffsets EXCEPT ![row] = Len(evRefs)]
  /\ edge' = batch.offsets[row]
  /\ pc' = "evidence"
  /\ UNCHANGED <<status, pack, batch, context, ip, row, requirement, clause, drivers, issueIds,
                 reqIds, evRefs, remOffsets, remIds, capacity, output, kept>>

\* evidenceRequiredForRow: some clause of an applied requirement wants its kind.
RequiredForRow(ref) ==
  \E j \in DOMAIN AppliedIds :
    \E k \in DOMAIN Requirements[AppliedIds[j]].clauses :
      LET kinds == Clauses[Requirements[AppliedIds[j]].clauses[k]].kinds
      IN  \E m \in DOMAIN kinds : kinds[m] = batch.kinds[ref]

\* A mutant: the scan for duplicates starts one record late.
DuplicateButFirst(ref) == \E k \in (evOffsets[row] + 2)..Len(evRefs) : evRefs[k] = ref

\* The row has appended this record already.
Duplicate(ref) == \E k \in (evOffsets[row] + 1)..Len(evRefs) : evRefs[k] = ref

\* Existing required records in edge order, each once.
ResolveEvidence ==
  LET ref == batch.refs[edge]
  IN  /\ pc = "evidence" /\ edge \in RowEdges(batch, row)
      /\ evRefs' = IF ref # 0 /\ RequiredForRow(ref) /\ ~Duplicate(ref)
                     THEN Append(evRefs, ref) ELSE evRefs
      /\ edge' = edge + 1
      /\ UNCHANGED <<pc, status, pack, batch, context, ip, row, requirement, clause, winner,
                     drivers, issueIds, reqOffsets, reqIds, evOffsets, remOffsets, remIds,
                     capacity, output, kept>>

RemediationsOf(w) ==
  IF w.outcome = OutcomeRevise /\ w.kind = "clause" THEN Clauses[w.clause].remediations ELSE <<>>

FinishRow ==
  /\ pc = "evidence" /\ edge \notin RowEdges(batch, row)
  /\ evOffsets' = [evOffsets EXCEPT ![row + 1] = Len(evRefs)]
  /\ remIds' = remIds \o RemediationsOf(winner)
  /\ remOffsets' = [remOffsets EXCEPT ![row] = Len(remIds), ![row + 1] = Len(remIds')]
  /\ drivers' = [drivers EXCEPT ![row] = winner]
  /\ issueIds' = [issueIds EXCEPT ![row] =
                    IF winner.outcome # OutcomeApprove THEN winner.reason ELSE @]
  /\ row' = row + 1
  /\ pc' = "row"
  /\ UNCHANGED <<status, pack, batch, context, ip, edge, requirement, clause, winner, reqOffsets,
                 reqIds, evRefs, capacity, output, kept>>

-----------------------------------------------------------------------------
(* MaterializeInto: the numeric row as the caller reads it.                *)

\* validateOutputCSR.
ValidRanges(offsets, ids) ==
  /\ DOMAIN offsets = 1..(batch.rows + 1)
  /\ \A r \in 1..(batch.rows + 1) : offsets[r] \in 0..Len(ids)
  /\ \A r \in Rows : offsets[r] <= offsets[r + 1]
  /\ offsets[batch.rows + 1] = Len(ids)

RangeOf(offsets, ids, r) == SubSeq(ids, offsets[r] + 1, offsets[r + 1])

\* resizeResults: the cells are kept, also those beyond a shorter length, and
\* only a capacity that is too small brings new ones.
ResizeResults ==
  LET cells == DOMAIN output \cup DOMAIN spare
      cell(r) == IF r \in DOMAIN output THEN output[r] ELSE spare[r]
  IN  IF Rows \subseteq cells
        THEN /\ output' = [r \in Rows |-> cell(r)]
             /\ spare'  = [r \in cells \ Rows |-> cell(r)]
        ELSE /\ output' = [r \in Rows |-> ZeroResult]
             /\ spare'  = [r \in {} |-> ZeroResult]

BeginMaterialize ==
  /\ pc = "row" /\ row \notin Rows
  /\ IF /\ ValidProgram
        /\ Len(pack.requests) = batch.rows
        /\ Len(pack.evidence) = Len(batch.kinds)
        /\ DOMAIN drivers = Rows /\ DOMAIN issueIds = Rows
        /\ ValidRanges(reqOffsets, reqIds)
        /\ ValidRanges(evOffsets, evRefs)
        /\ ValidRanges(remOffsets, remIds)
       THEN /\ ResizeResults
            /\ row' = 1 /\ pc' = "materialize" /\ UNCHANGED status
       ELSE Fail /\ UNCHANGED <<output, spare, row>>
  /\ UNCHANGED <<pack, batch, context, ip, edge, requirement, clause, winner, numeric, scratch,
                 contextRows>>

\* materializeDriver accepts the driver.
DriverMaterializes(d, r) ==
  CASE d.kind = "none"              -> d.outcome = OutcomeApprove
    [] d.kind = "semantic"          -> d.field \in Fields
    [] d.kind = "missing_reference" ->
         /\ d.edge \in RowEdges(batch, r)
         /\ d.edge - batch.offsets[r] + 1 \in DOMAIN pack.requests[r].refs
    [] d.kind = "no_applicable"     -> TRUE
    [] d.kind = "clause"            -> /\ d.clause \in DOMAIN Clauses
                                       /\ d.reason \in Clauses[d.clause].explained
    [] OTHER                        -> FALSE

Holds(ids, wanted) == \A k \in DOMAIN ids : ids[k] \in wanted

\* Every check of materializeRowInto on the numeric row.
Materializable(r) ==
  /\ drivers[r].outcome \in Outcomes
  /\ Holds(RangeOf(reqOffsets, reqIds, r), DOMAIN Requirements)
  /\ Holds(RangeOf(evOffsets, evRefs, r), DOMAIN pack.evidence)
  /\ DriverMaterializes(drivers[r], r)
  /\ Holds(RangeOf(remOffsets, remIds, r),
           {m \in 1..Remediations : Action[m] \in RemediationActions})

\* The rationale names the driver, and a missing reference by its source ID.
DriverText(d, r) ==
  [kind    |-> d.kind, clause |-> d.clause, reason |-> d.reason, field |-> d.field,
   missing |-> IF d.kind = "missing_reference"
                 THEN pack.requests[r].refs[d.edge - batch.offsets[r] + 1]
                 ELSE NoSymbol]

\* instructionUsesField.
UsesField(field) ==
  LET uses[i \in Instructions] ==
        IF Code[i].op \in {"equal", "in"} THEN Code[i].field = field
        ELSE Code[i].op = "all" /\ \E o \in Code[i].operands : uses[o]
  IN  uses

NoDetail == [kind |-> NoSymbol, about |-> NoSymbol]

\* clauseEvidenceDetail: what the result says about the clause's evidence.
EvidenceDetail(c, reason) ==
  LET about == <<"", "", "missing", "invalid", "stale", "unclear", "unverifiable", "conflicting">>
      kinds == Clauses[c].kinds
  IN  IF kinds = <<>> THEN NoDetail
      ELSE IF reason = ReasonFalse /\ UsesField(EnvironmentField)[Clauses[c].root]
        THEN [kind |-> kinds[1], about |-> "environment"]
      ELSE IF about[reason] = "" THEN NoDetail
      ELSE [kind |-> kinds[1], about |-> about[reason]]

\* materializeRowInto, for a row it accepts: every slice of the cell's old
\* result is emptied before it is filled.
RowResult(r) ==
  LET d == drivers[r]
      used == RangeOf(evOffsets, evRefs, r)
  IN  [id           |-> pack.requests[r].id,
       decision     |-> d.outcome,
       requirements |-> RangeOf(reqOffsets, reqIds, r),
       evidence     |-> [k \in DOMAIN used |-> pack.evidence[used[k]].id],
       driver       |-> DriverText(d, r),
       detail       |-> IF d.kind = "clause" THEN EvidenceDetail(d.clause, d.reason) ELSE NoDetail,
       remediation  |-> RangeOf(remOffsets, remIds, r)]

\* A row refused half-way leaves a half-filled cell, which nobody is given
\* and the next pack's row overwrites; the model keeps the old cell.
MaterializeRow ==
  /\ pc = "materialize" /\ row \in Rows
  /\ IF Materializable(row)
       THEN /\ output' = [output EXCEPT ![row] = RowResult(row)]
            /\ row' = row + 1
            /\ UNCHANGED <<pc, status>>
       ELSE Fail /\ UNCHANGED <<output, row>>
  /\ UNCHANGED <<pack, batch, context, ip, edge, requirement, clause, winner, numeric, kept>>

Return ==
  /\ pc = "materialize" /\ row \notin Rows
  /\ status' = "ok" /\ pc' = "idle"
  /\ UNCHANGED <<pack, batch, context, cursors, numeric, output, kept>>

-----------------------------------------------------------------------------
Submit == pc = "idle" /\ \E p \in Packs : RejectInput(p) \/ BuildInto(p)

ResolveRow ==
  \/ ResolveSemantics \/ ResolveEdge \/ BeginRequirements \/ SelectRequirement
  \/ ResolveClause \/ NextRequirement \/ FinishRequirements \/ ResolveEvidence \/ FinishRow

Evaluate ==
  \/ EnsureCapacity \/ CheckShapes
  \/ ExecuteField \/ ExecuteEvidence \/ ExecuteAll
  \/ ResetResults \/ ResolveRow
  \/ BeginMaterialize \/ MaterializeRow \/ Return

Next == Submit \/ Evaluate

\* Evaluate runs to its end once called; the caller need not call again.
Spec == Init /\ [][Next]_vars /\ WF_vars(Evaluate)
=============================================================================
