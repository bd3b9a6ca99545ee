------------------------------- MODULE Policy --------------------------------
(***************************************************************************)
(* A policy as its author writes it (internal/ast), what DecodePolicy      *)
(* admits (internal/adapters/jsonio/decode.go), and Policy.Validate.       *)
(*                                                                         *)
(* The expressions of a policy are one table of nodes in the order         *)
(* validateExpression visits them: a node comes before its children.       *)
(***************************************************************************)
EXTENDS Schema, Integers, FiniteSets, SequencesExt

CONSTANTS
  Texts,            \* the strings of a policy, NoSymbol among them
  LongTexts,        \* those beyond MaxExplanationBytes and MaxTextBytes
  Trim,             \* strings.TrimSpace
  FieldNames,       \* the request fields' names, in the order of their IDs
  ValidFieldValues, \* schema.ValidFieldValue: field ID -> its values; for the requester
                    \* every trimmed text but the empty one
  EvidenceKinds,    \* schema.ValidEvidenceKind
  QualifierNames,   \* the optional strings of an EvidencePredicate, in order
  MaxDepth,         \* ast.MaxExpressionDepth
  MaxNodes,         \* ast.MaxExpressionNodes
  MaxPolicyBytes    \* jsonio.MaxPolicyBytes, in units of Size

\* schema.LookupField: the field's ID, 0 for an unknown name.
LookupField(name) == SelectInSeq(FieldNames, LAMBDA f : f = name)
ValidFieldValue(name, value) ==
  LookupField(name) > 0 /\ value \in ValidFieldValues[LookupField(name)]

Blank(text) == Trim[text] = NoSymbol

\* What encoding/json decodes a document to.
Evidences    == [kind : Texts, qualifiers : [Range(QualifierNames) -> Texts]]
Expressions  == [op : STRING, field : Texts, value : Texts, values : Seq(Texts),
                 children : Seq(Nat), evidence : Evidences]
Remedies     == [action : STRING, description : Texts, evidenceKind : Texts,
                 field : Texts, value : Texts]
ClauseSource == [id : Texts, assertion : Nat, resolution : [Reasons -> Nat],
                 explanations : [Reasons -> Texts], remediations : Seq(Remedies)]
AskSource    == [id : Texts, applicability : Nat, clauses : Seq(ClauseSource)]
Documents    == [name : Texts, version : Texts, nodes : Seq(Expressions),
                 requirements : Seq(AskSource)]

NoEvidence == [kind |-> NoSymbol, qualifiers |-> [q \in Range(QualifierNames) |-> NoSymbol]]
Operators  == {"all", "equal", "in", "evidence_matches"}

Nodes(p) == DOMAIN p.nodes

\* Each expression is owned by a requirement, as its applicability (k = 0), or
\* by its clause k.
RootAt(p, r, k) ==
  IF k = 0 THEN p.requirements[r].applicability ELSE p.requirements[r].clauses[k].assertion
Owners(p) ==
  UNION {{<<r, k>> : k \in 0..Len(p.requirements[r].clauses)} : r \in DOMAIN p.requirements}
Roots(p) == {RootAt(p, o[1], o[2]) : o \in Owners(p)}
Parents(p, n) == {m \in Nodes(p) : n \in Range(p.nodes[m].children)}

\* Expressions hold their children by value: every child belongs to one parent,
\* and comes after it; a root to one owner.
IsTree(p) ==
  /\ Roots(p) \subseteq Nodes(p)
  /\ \A o, u \in Owners(p) : RootAt(p, o[1], o[2]) = RootAt(p, u[1], u[2]) => o = u
  /\ \A n \in Nodes(p) :
       /\ IsInjective(p.nodes[n].children) /\ Range(p.nodes[n].children) \subseteq Nodes(p)
       /\ \A m \in Parents(p, n) : m < n
       /\ IF n \in Roots(p) THEN Parents(p, n) = {} ELSE \E m \in Nodes(p) : Parents(p, n) = {m}

\* The depth of a node, and the root of its expression.
Depth(p) ==
  LET depth[n \in Nodes(p)] ==
        IF n \in Roots(p) THEN 1 ELSE 1 + depth[CHOOSE m \in Parents(p, n) : TRUE]
  IN  depth
RootOf(p) ==
  LET root[n \in Nodes(p)] ==
        IF n \in Roots(p) THEN n ELSE root[CHOOSE m \in Parents(p, n) : TRUE]
  IN  root

AllClauses(p) == UNION {Range(q.clauses) : q \in Range(p.requirements)}

-----------------------------------------------------------------------------
(* validateExpression.                                                     *)

\* A mutant: a conjunction of nothing is admitted.
AnyAll(node) ==
  node.field = NoSymbol /\ node.value = NoSymbol /\ node.values = <<>>
  /\ node.evidence = NoEvidence

ValidAll(node) ==
  /\ node.children # <<>>
  /\ node.field = NoSymbol /\ node.value = NoSymbol /\ node.values = <<>>
  /\ node.evidence = NoEvidence

ValidEqual(node) ==
  /\ ~Blank(node.value) /\ ValidFieldValue(node.field, node.value)
  /\ node.values = <<>> /\ node.children = <<>> /\ node.evidence = NoEvidence

ValidIn(node) ==
  /\ LookupField(node.field) > 0 /\ node.values # <<>> /\ IsInjective(node.values)
  /\ \A v \in Range(node.values) : ~Blank(v) /\ ValidFieldValue(node.field, v)
  /\ node.value = NoSymbol /\ node.children = <<>> /\ node.evidence = NoEvidence

ValidEvidenceMatches(node, allowEvidence) ==
  /\ allowEvidence
  /\ ~Blank(node.evidence.kind) /\ node.evidence.kind \in EvidenceKinds
  /\ node.field = NoSymbol /\ node.value = NoSymbol
  /\ node.values = <<>> /\ node.children = <<>>

ValidNode(node, allowEvidence) ==
  \/ node.op = "all" /\ ValidAll(node)
  \/ node.op = "equal" /\ ValidEqual(node)
  \/ node.op = "in" /\ ValidIn(node)
  \/ node.op = "evidence_matches" /\ ValidEvidenceMatches(node, allowEvidence)

\* A mutant: expressions of any number of nodes.
AnyCount(p) == TRUE
CountLimited(p) == Len(p.nodes) <= MaxNodes

\* Evidence is only allowed in the assertion of a clause.
ValidExpressions(p) ==
  LET assertions == {c.assertion : c \in AllClauses(p)}
  IN  /\ CountLimited(p)
      /\ \A n \in Nodes(p) :
           Depth(p)[n] <= MaxDepth /\ ValidNode(p.nodes[n], RootOf(p)[n] \in assertions)

-----------------------------------------------------------------------------
(* validateClauseResolution and validateRemediation.                       *)

AddsEvidence(m) ==
  /\ m.action = "add_evidence" /\ ~Blank(m.evidenceKind) /\ m.evidenceKind \in EvidenceKinds
  /\ m.field = NoSymbol /\ m.value = NoSymbol

SetsField(m) ==
  /\ m.action = "set_field" /\ ~Blank(m.value) /\ ValidFieldValue(m.field, m.value)
  /\ m.evidenceKind = NoSymbol

ValidRemediation(m) == m.description \notin LongTexts /\ (AddsEvidence(m) \/ SetsField(m))

Revises(c) == \E r \in Reasons : c.resolution[r] = OutcomeRevise

\* A mutant: Revise needs no remediation.
RemediationOptional(c) == ~Revises(c) => c.remediations = <<>>

RemediationMatches(c) == Revises(c) <=> c.remediations # <<>>
Explained(c) ==
  \A r \in Reasons : c.resolution[r] # OutcomeApprove => ~Blank(c.explanations[r])

ValidResolution(c) ==
  /\ \A r \in Reasons : c.resolution[r] \in Outcomes
  /\ Range(c.explanations) \cap LongTexts = {} /\ Explained(c)
  /\ RemediationMatches(c)
  /\ \A m \in Range(c.remediations) : ValidRemediation(m)

\* IDs are compared trimmed, and clause IDs across the whole policy.
ValidIds(ids) == (\A id \in Range(ids) : ~Blank(id)) /\ IsInjective([k \in DOMAIN ids |-> Trim[ids[k]]])

ClauseIds(p) ==
  FlattenSeq([r \in DOMAIN p.requirements |->
                [k \in DOMAIN p.requirements[r].clauses |-> p.requirements[r].clauses[k].id]])

\* Policy.Validate.
ValidPolicy(p) ==
  /\ ~Blank(p.name) /\ ~Blank(p.version) /\ p.requirements # <<>>
  /\ \A q \in Range(p.requirements) : q.clauses # <<>>
  /\ ValidIds([r \in DOMAIN p.requirements |-> p.requirements[r].id])
  /\ ValidIds(ClauseIds(p))
  /\ ValidExpressions(p)
  /\ \A c \in AllClauses(p) : ValidResolution(c)

\* The clauses in the order of the document.
SourceClauses(p) == FlattenSeq([r \in DOMAIN p.requirements |-> p.requirements[r].clauses])

\* A lower bound of the policy's length in bytes: what the text IDs count.
Cost(c) == Len(c.remediations) + Cardinality(Range(c.explanations))
CostUpTo(clauses) ==
  LET cost[k \in 0..Len(clauses)] == IF k = 0 THEN 0 ELSE cost[k - 1] + Cost(clauses[k]) IN cost
Size(p) == CostUpTo(SourceClauses(p))[Len(SourceClauses(p))]

\* A mutant: documents of any length.
AdmittedAnySize(p) == ValidPolicy(p)

\* DecodePolicy admits a document within its limit that is valid.
Admitted(p) == Size(p) <= MaxPolicyBytes /\ ValidPolicy(p)
=============================================================================
