------------------------------ MODULE Decision ------------------------------
(***************************************************************************)
(* What a pack's answer is, said of source text and of nothing else: no    *)
(* symbols, columns, bitplanes, edges or cursors.  A row is decided from   *)
(* its own request and the pack's evidence alone.                          *)
(***************************************************************************)
EXTENDS Program, FiniteSetsExt

IdsOf(seq) == {seq[k].id : k \in DOMAIN seq}

\* The members of a set of numbers, least first.
InOrder(S) ==
  CHOOSE s \in [1..Cardinality(S) -> S] : \A j, k \in DOMAIN s : j < k => s[j] < s[k]

-----------------------------------------------------------------------------
(* What an expression means for one request.                               *)

FieldMeaning(text, f, wanted) ==
  IF text = NoSymbol THEN ReasonMissing
  ELSE IF text \notin ValidValues[f] THEN ReasonUnclear
  ELSE IF text \in wanted THEN ReasonSatisfied ELSE ReasonFalse

\* Evidence states from worst to best, with the reason each one gives.
EvidenceOrder == <<"conflict", "stale", "revoked", "incomplete", "qualified", "wrong">>
EvidenceMeaning ==
  <<ReasonConflict, ReasonStale, ReasonInvalidEvidence, ReasonUnclear,
    ReasonSatisfied, ReasonInvalidEvidence>>

InState(record, want, state) ==
  LET text == record.qualifiers
      Wanted == {q \in Qualifiers : want[q] # NoSymbol}
  IN  CASE state = "conflict" ->
             \/ "conflicting" \in {text["status"], text["timestamp_state"]}
             \/ record.reviewerState = "one_valid_one_revoked"
        [] state = "stale"      -> text["timestamp_state"] = "stale"
        [] state = "revoked"    -> text["status"] \in {"revoked", "expired"}
                                   \/ record.reviewerState = "revoked"
        [] state = "incomplete" ->
             /\ \E q \in Wanted : text[q] = NoSymbol
             /\ \A q \in Wanted : text[q] \in {NoSymbol, want[q]}
        [] state = "qualified"  -> \A q \in Wanted : text[q] = want[q]
        [] state = "wrong"      -> TRUE

\* The evidence of the pack the request refers to.
Attached(q, evidence) ==
  {k \in DOMAIN evidence : \E j \in DOMAIN q.refs : q.refs[j] = evidence[k].id}

StateOf(record, want) ==
  Min({s \in DOMAIN EvidenceOrder : InState(record, want, EvidenceOrder[s])})

EvidenceVerdict(q, evidence, ins) ==
  LET states == {StateOf(evidence[k], ins.want) :
                   k \in {k \in Attached(q, evidence) : evidence[k].type = ins.kind}}
  IN  IF states = {} THEN ReasonMissing
      ELSE EvidenceMeaning[Min(states)]

\* Reasons that leave a conjunction open, most telling first.
OpenReasons ==
  <<ReasonStale, ReasonInvalidEvidence, ReasonUnclear, ReasonMissing, ReasonUnverifiable>>

\* A conjunction: one operand that is false settles it, one that conflicts
\* does too, unless every other operand holds; otherwise the most telling
\* reason of the open operands.
AllMeaning(found) ==
  IF found = {ReasonSatisfied} THEN ReasonSatisfied
  ELSE IF ReasonConflict \in found /\ found \subseteq {ReasonSatisfied, ReasonConflict} THEN ReasonConflict
  ELSE IF found \cap {ReasonFalse, ReasonConflict} # {} THEN ReasonFalse
  ELSE OpenReasons[Min({p \in DOMAIN OpenReasons : OpenReasons[p] \in found})]

OperandsOf(ins) == IF ins.op = "all" THEN ins.operands ELSE {}

\* What an instruction means, given what its operands mean.
InstructionMeaning(q, evidence, ins, operands) ==
  CASE ins.op = "equal" -> FieldMeaning(q.fields[ins.field], ins.field, {ins.value})
    [] ins.op = "in"    -> FieldMeaning(q.fields[ins.field], ins.field, ins.set)
    [] ins.op = "evidence_matches" -> EvidenceVerdict(q, evidence, ins)
    [] ins.op = "all"   -> AllMeaning(operands)

Meaning(q, evidence) ==
  LET meaning[i \in Instructions] ==
        InstructionMeaning(q, evidence, Code[i], {meaning[o] : o \in OperandsOf(Code[i])})
  IN  meaning

-----------------------------------------------------------------------------
(* The findings of a request, each at its place in the order that breaks   *)
(* ties: fields, references, clauses in policy order, no requirement.      *)

Finding(at, outcome, kind, c, reason, f, id) ==
  [at      |-> at,
   outcome |-> outcome,
   driver  |-> [kind |-> kind, clause |-> c, reason |-> reason, field |-> f, missing |-> id]]

FieldFinding(q, f) ==
  Finding(<<1, f, 0>>, OutcomeEscalate, "semantic", 0,
          IF q.fields[f] = NoSymbol THEN ReasonMissing ELSE ReasonUnclear, f, NoSymbol)

FieldFindings(q) == {FieldFinding(q, f) : f \in {f \in Fields : q.fields[f] \notin ValidValues[f]}}

ReferenceFinding(q, j) ==
  Finding(<<2, j, 0>>, OutcomeEscalate, "missing_reference", 0, ReasonMissing, 0, q.refs[j])

ReferenceFindings(q, evidence) ==
  {ReferenceFinding(q, j) : j \in {j \in DOMAIN q.refs : q.refs[j] \notin IdsOf(evidence)}}

\* The requirements whose applicability holds.
InForce(meaning) == {k \in DOMAIN Requirements : meaning[Requirements[k].root] = ReasonSatisfied}

ClauseFinding(meaning, k, j) ==
  LET c == Requirements[k].clauses[j]
      reason == meaning[Clauses[c].root]
  IN  Finding(<<3, k, j>>, Clauses[c].resolution[reason], "clause", c, reason, 0, NoSymbol)

ClauseFindings(meaning) ==
  UNION {{ClauseFinding(meaning, k, j) : j \in DOMAIN Requirements[k].clauses} : k \in InForce(meaning)}

NoneInForce == Finding(<<4, 0, 0>>, OutcomeEscalate, "no_applicable", 0, ReasonUnverifiable, 0, NoSymbol)

Findings(q, evidence, meaning) ==
  FieldFindings(q) \cup ReferenceFindings(q, evidence) \cup ClauseFindings(meaning)
    \cup (IF InForce(meaning) = {} THEN {NoneInForce} ELSE {})

Before(a, b) ==
  \/ a[1] < b[1]
  \/ a[1] = b[1] /\ a[2] < b[2]
  \/ a[1] = b[1] /\ a[2] = b[2] /\ a[3] < b[3]

\* No other finding ranks higher, and none of its rank comes before it.
Leads(f, findings) ==
  \A g \in findings \ {f} :
    \/ Rank(g.outcome) < Rank(f.outcome)
    \/ Rank(g.outcome) = Rank(f.outcome) /\ Before(f.at, g.at)

Approval == Finding(<<0, 0, 0>>, OutcomeApprove, "none", 0, ReasonSatisfied, 0, NoSymbol)

\* The first finding of the highest rank; with none above Approve, approval.
Decisive(findings) ==
  IF \A f \in findings : f.outcome = OutcomeApprove THEN Approval
  ELSE CHOOSE f \in findings : Leads(f, findings)

-----------------------------------------------------------------------------
(* The answer.                                                             *)

\* Some clause in force asks for the kind.
Required(kind, meaning) ==
  \E k \in InForce(meaning) : \E j \in DOMAIN Requirements[k].clauses :
    LET kinds == Clauses[Requirements[k].clauses[j]].kinds
    IN  \E m \in DOMAIN kinds : kinds[m] = kind

\* Where the request first mentions a record that is required.
FirstMentions(q, evidence, meaning) ==
  {j \in DOMAIN q.refs :
     /\ \E k \in DOMAIN evidence :
          evidence[k].id = q.refs[j] /\ Required(evidence[k].type, meaning)
     /\ \A i \in 1..(j - 1) : q.refs[i] # q.refs[j]}

Decide(q, evidence) ==
  LET meaning == Meaning(q, evidence)
      found == Decisive(Findings(q, evidence, meaning))
      used == InOrder(FirstMentions(q, evidence, meaning))
  IN  [id           |-> q.id,
       decision     |-> found.outcome,
       requirements |-> InOrder(InForce(meaning)),
       evidence     |-> [k \in DOMAIN used |-> q.refs[used[k]]],
       driver       |-> found.driver,
       remediation  |-> IF found.outcome = OutcomeRevise
                          THEN Clauses[found.driver.clause].remediations ELSE <<>>]
=============================================================================
