------------------------- MODULE SessionProperties --------------------------
(***************************************************************************)
(* What must hold of a session at every step of Evaluate.                  *)
(***************************************************************************)
EXTENDS Session

ResolvingPcs == {"row", "edges", "requirements", "clauses", "evidence"}
CheckedPcs   == {"execute", "materialize"} \cup ResolvingPcs
Pcs          == {"idle", "built", "ensured"} \cup CheckedPcs

Planes == [Instructions -> SUBSET Rows]

Winners ==
  [outcome : Outcomes, kind : DriverKinds, requirement : Nat, clause : Nat,
   reason : Reasons, field : 0..FieldCount, edge : Nat]
Drivers == Winners \cup {ZeroDriver}

\* The columns the builder shapes by the pack.
BatchTypeOK ==
  /\ batch.rows \in Nat
  /\ batch.values \in [Fields \X Rows -> Symbols \cup {NoSymbol}]
  /\ batch.present \in [Fields -> SUBSET Rows]
  /\ batch.valid \in [Fields -> SUBSET Rows]
  /\ batch.issues \in [Rows -> SUBSET Fields]

ContextTypeOK ==
  /\ positive \in Planes /\ negative \in Planes
  /\ reasons \in [Instructions -> [Reasons -> SUBSET Rows]]

ColumnsTypeOK ==
  /\ drivers \in [Rows -> Drivers]
  /\ reqIds \in Seq(DOMAIN Requirements)
  /\ reqOffsets \in [1..(batch.rows + 1) -> Nat]

\* The type invariant: the columns, planes and cursors have the shape the
\* kernels index them with, whatever pack was evaluated before.
TypeOK ==
  /\ pc \in Pcs
  /\ status \in {"none", "ok", "input_error", "internal_error"}
  /\ pc # "idle" => BatchTypeOK
  /\ pc \notin {"idle", "built"} => ContextTypeOK /\ ColumnsTypeOK
  /\ pc \in CheckedPcs => ValidEvidenceBatch(batch)
  /\ {ip, row, edge, requirement, clause} \subseteq Nat \ {0}
  /\ pc \in {"edges", "requirements", "clauses", "evidence"} => row \in Rows
  /\ pc = "clauses" => requirement \in DOMAIN Requirements
  /\ winner \in Winners

-----------------------------------------------------------------------------
(* Truth planes.                                                           *)

\* Instructions that have run over the current batch.
HasRun(i) == \/ pc = "execute" /\ i < ip
             \/ pc \in ResolvingPcs \cup {"materialize"}

HeldReasons(i, r) == {reason \in Reasons : r \in reasons[i][reason]}

\* Row r has one reason at instruction i, and its truth bits.
OneReason(i, r) ==
  \E reason \in Reasons :
    /\ HeldReasons(i, r) = {reason}
    /\ r \in positive[i] <=> reason \in {ReasonSatisfied, ReasonConflict}
    /\ r \in negative[i] <=> reason \in {ReasonFalse, ReasonConflict}

\* An instruction that has run left every row with one reason, and the truth
\* bits of that reason: scalar.go and evidence.go write the three planes
\* separately, and resolveRow reads the reasons of clauses but the truth bits
\* of applicability roots.
ReasonMatchesTruth ==
  \A i \in Instructions : HasRun(i) => \A r \in Rows : OneReason(i, r)

\* evaluateAll: an operand that is false or in conflict settles the
\* conjunction, so a row it leaves open never holds one, although the code's
\* priority list looks for a conflict first.
SettledOperandSettlesAll ==
  \A i \in Instructions : HasRun(i) /\ Code[i].op = "all" => \A r \in Rows :
    \A o \in Code[i].operands :
      /\ r \in reasons[o][ReasonFalse] => HeldReasons(i, r) = {ReasonFalse}
      /\ r \in reasons[o][ReasonConflict] =>
           HeldReasons(i, r) \subseteq {ReasonFalse, ReasonConflict}

-----------------------------------------------------------------------------
(* Decisions.                                                              *)

\* Rows resolveRow has finished for the current batch.
Decided(r) == \/ pc \in ResolvingPcs /\ r < row
              \/ pc = "materialize"

HasMissingReference(r) == \E e \in RowEdges(batch, r) : batch.refs[e] = 0
NoneApplicable(r) == \A q \in DOMAIN Requirements : ~Applicable(q, r)

Covers(d, outcome) == Rank(d.outcome) >= Rank(outcome)

CoversClauses(d, q, r) ==
  \A k \in DOMAIN Requirements[q].clauses :
    Covers(d, ClauseOutcome(Requirements[q].clauses[k], r))

\* No finding of a decided row outranks its decision: a semantic issue, a
\* missing reference or the lack of a governing requirement escalates at
\* least, and every clause of every applicable requirement counts (README:
\* "The evaluator checks every applicable clause, then chooses the
\* highest-ranked finding").
NoFindingOutranksDecision ==
  \A r \in Rows : Decided(r) =>
    /\ batch.issues[r] # {} \/ HasMissingReference(r) \/ NoneApplicable(r)
         => Covers(drivers[r], OutcomeEscalate)
    /\ \A q \in DOMAIN Requirements : Applicable(q, r) => CoversClauses(drivers[r], q, r)

\* The driver d names a finding row r really has, with its outcome and reason.
IsFinding(d, r) ==
  \/ d.kind = "none" /\ d.outcome = OutcomeApprove
  \/ /\ d.kind = "semantic" /\ d.outcome = OutcomeEscalate
     /\ d.field \in batch.issues[r]
  \/ /\ d.kind = "missing_reference" /\ d.outcome = OutcomeEscalate
     /\ batch.issues[r] = {}
     /\ d.edge \in RowEdges(batch, r) /\ batch.refs[d.edge] = 0
  \/ d.kind = "no_applicable" /\ d.outcome = OutcomeEscalate /\ NoneApplicable(r)
  \/ /\ d.kind = "clause" /\ d.outcome # OutcomeApprove
     /\ d.requirement \in DOMAIN Requirements /\ Applicable(d.requirement, r)
     /\ \E k \in DOMAIN Requirements[d.requirement].clauses :
          Requirements[d.requirement].clauses[k] = d.clause
     /\ d.reason = ClauseReason(d.clause, r)
     /\ d.outcome = ClauseOutcome(d.clause, r)

\* And the decision is no worse than its driver says: the driver names a
\* finding the row really has, and only an approval has none.
DriverIsAFinding == \A r \in Rows : Decided(r) => IsFinding(drivers[r], r)

\* An approval the caller reads was earned by the pack it was asked about:
\* every field of that request is in its vocabulary, every evidence reference
\* names a record of that pack, and some requirement governs the request.
ApprovalIsEarned ==
  pc = "idle" /\ status = "ok" =>
    /\ DOMAIN output = DOMAIN pack.requests
    /\ \A r \in DOMAIN output : output[r].decision = OutcomeApprove =>
         LET q == pack.requests[r]
         IN  /\ \A f \in Fields : q.fields[f] \in ValidValues[f]
             /\ \A j \in DOMAIN q.refs :
                  \E k \in DOMAIN pack.evidence : pack.evidence[k].id = q.refs[j]
             /\ output[r].requirements # <<>>

-----------------------------------------------------------------------------
(* Storage.                                                                *)

\* The CSR columns fit what Ensure reserved, so the appends of resolveRow
\* never grow them (architecture.md: "EvaluateInto does not grow storage").
WithinCapacity ==
  pc \in CheckedPcs =>
    /\ Len(reqIds) <= capacity.requirements
    /\ Len(evRefs) <= capacity.evidence
    /\ Len(remIds) <= capacity.remediations

Increasing(seq) == \A j, k \in DOMAIN seq : j < k => seq[j] < seq[k]
Distinct(seq)   == \A j, k \in DOMAIN seq : j # k => seq[j] # seq[k]

\* A Revise carries the remediations of its driving clause, at least one of
\* them, and no other decision carries any (README, "remediation").
ReviseIsActionable(r) ==
  LET given == RangeOf(remOffsets, remIds, r)
  IN  /\ given # <<>> <=> drivers[r].outcome = OutcomeRevise
      /\ given # <<>> => given = Clauses[drivers[r].clause].remediations

RangesSound(r) ==
  LET applied == RangeOf(reqOffsets, reqIds, r)
      used    == RangeOf(evOffsets, evRefs, r)
  IN  /\ Increasing(applied)
      /\ {applied[k] : k \in DOMAIN applied} = {q \in DOMAIN Requirements : Applicable(q, r)}
      /\ Distinct(used)
      /\ \A k \in DOMAIN used :
           used[k] # 0 /\ \E e \in RowEdges(batch, r) : batch.refs[e] = used[k]
      /\ ReviseIsActionable(r)

\* Every decided row owns the ranges between its offsets: requirements in
\* policy order, each record it used once, used records all attached, and
\* what the caller can do about a Revise.
RowRangesSound == \A r \in Rows : Decided(r) => RangesSound(r)

\* No pack the builder accepts makes the evaluator or the materializer fail:
\* their checks of the program, capacities, columns, ranges, IDs, drivers and
\* explanations are all satisfied.
EvaluateNeverFails == status # "internal_error"

\* Every call returns.
EvaluateReturns == pc # "idle" ~> pc = "idle"
=============================================================================
