------------------------------ MODULE Kernels -------------------------------
(***************************************************************************)
(* The scalar kernels of internal/eval/scalar.go and evidence.go: what one *)
(* instruction finds on one row of a batch.                                *)
(***************************************************************************)
EXTENDS Batch

\* evaluateEqual and evaluateIn differ only in what they compare with.
Matches(ins, value) ==
  IF ins.op = "equal" THEN value = ins.value ELSE value \in ins.set

FieldReason(b, ins, r) ==
  IF r \notin b.present[ins.field] THEN ReasonMissing
  ELSE IF r \notin b.valid[ins.field] THEN ReasonUnclear
  ELSE IF Matches(ins, b.values[<<ins.field, r>>]) THEN ReasonSatisfied
  ELSE ReasonFalse

\* classifyEvidenceQualifiers: a wanted qualifier that is there and differs
\* is wrong, whatever else is absent; an absent one is unclear.
QualifierClass(b, k, want) ==
  LET Wanted == {q \in Qualifiers : want[q] # NoSymbol}
      Given  == Wanted \cap b.qualified[k]
  IN  IF \E q \in Given : b.qualifiers[k][q] # want[q] THEN "wrong"
      ELSE IF Given # Wanted THEN "unclear"
      ELSE "satisfied"

\* The state of one record: its flags first, its qualifiers if it has none.
RecordClass(b, k, want) ==
  IF "conflict" \in b.flags[k] THEN "conflict"
  ELSE IF "stale" \in b.flags[k] THEN "stale"
  ELSE IF "revoked" \in b.flags[k] THEN "revoked"
  ELSE QualifierClass(b, k, want)

\* The records of the wanted kind on the row's edges; sentinels are skipped.
AttachedRecords(b, kind, r) ==
  {k \in DOMAIN b.kinds :
     b.kinds[k] = kind /\ \E e \in RowEdges(b, r) : b.refs[e] = k}

\* evaluateEvidence: the classes met on the row, reduced to one reason.
EvidenceReason(b, ins, r) ==
  LET met == {RecordClass(b, k, ins.want) : k \in AttachedRecords(b, ins.kind, r)}
  IN  IF "conflict" \in met THEN ReasonConflict
      ELSE IF "stale" \in met THEN ReasonStale
      ELSE IF "revoked" \in met THEN ReasonInvalidEvidence
      ELSE IF "unclear" \in met THEN ReasonUnclear
      ELSE IF "satisfied" \in met THEN ReasonSatisfied
      ELSE IF "wrong" \in met THEN ReasonInvalidEvidence
      ELSE ReasonMissing

\* evaluateAll's fixed order for a row no operand settles.
AllPriority ==
  <<ReasonConflict, ReasonStale, ReasonInvalidEvidence, ReasonUnclear,
    ReasonMissing, ReasonUnverifiable>>

\* The first reason of the order some operand has on the row.
UnsettledReason(reasons, operands, r) ==
  LET held == {p \in DOMAIN AllPriority :
                 \E o \in operands : r \in reasons[o][AllPriority[p]]}
  IN  IF held = {} THEN ReasonUnverifiable
      ELSE AllPriority[CHOOSE p \in held : \A q \in held : p <= q]

\* Mutants: a conflict read as false; a conflict read as true.
AllReasonNegativeFirst(pos, neg, reasons, operands, r) ==
  IF r \in neg THEN ReasonFalse
  ELSE IF r \in pos THEN ReasonSatisfied
  ELSE UnsettledReason(reasons, operands, r)
AllReasonPositiveFirst(pos, neg, reasons, operands, r) ==
  IF r \in pos THEN ReasonSatisfied
  ELSE IF r \in neg THEN ReasonFalse
  ELSE UnsettledReason(reasons, operands, r)

AllReason(pos, neg, reasons, operands, r) ==
  IF r \in pos /\ r \in neg THEN ReasonConflict
  ELSE IF r \in neg THEN ReasonFalse
  ELSE IF r \in pos THEN ReasonSatisfied
  ELSE UnsettledReason(reasons, operands, r)

\* instructionReason: the first reason plane of the instruction with the row.
InstructionReason(reasons, i, r) ==
  LET held == {reason \in Reasons : r \in reasons[i][reason]}
  IN  IF held = {} THEN ReasonUnverifiable
      ELSE CHOOSE reason \in held : \A other \in held : reason <= other
=============================================================================
