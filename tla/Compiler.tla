------------------------------ MODULE Compiler -------------------------------
(***************************************************************************)
(* internal/compile: a policy becomes a program of columns and ranges.     *)
(*                                                                         *)
(* One step per requirement, per clause and per expression node.  The      *)
(* recursion of compileExpression is a stack of frames: an expression and  *)
(* the instructions its children have become so far.  A row of a record    *)
(* sequence stands for the entries the code appends to parallel columns;   *)
(* starts count from zero, as in the code, and IDs from one.               *)
(***************************************************************************)
EXTENDS Policy

CONSTANTS
  Sources,     \* the documents DecodePolicy may be given
  CountLimit,  \* 2^16, for counts of nodes and of the values of an `in`
  TextLimit    \* 2^16, for IDs that only MaxPolicyBytes bounds

VARIABLES
  policy,   \* the source
  stage,    \* where Compile is
  prog,     \* compiler.program and the interner
  stack,    \* the frames of compileExpression
  root,     \* what the outermost compileExpression returned, 0 before
  clauseKinds,  \* clauseEvidenceKinds, which an applicability has none of
  requirement, clause,   \* i and j
  emitted   \* the instruction each node has become

vars == <<policy, stage, prog, stack, root, clauseKinds, requirement, clause, emitted>>

NoProgram ==
  [symbols |-> <<>>, code |-> <<>>, operands |-> <<>>, setValues |-> <<>>, specs |-> <<>>,
   kinds |-> <<>>, requirements |-> <<>>, clauseIDs |-> <<>>, clauses |-> <<>>,
   clauseKinds |-> <<>>, clauseRemediations |-> <<>>, remediations |-> <<>>,
   explanations |-> <<>>]

ASSUME CompilerAssumption ==
  /\ NoSymbol \in Texts /\ Trim \in [Texts -> Texts] /\ Trim[NoSymbol] = NoSymbol
  /\ {MaxNodes, CountLimit, MaxPolicyBytes, TextLimit} \subseteq Nat
  /\ MaxNodes < CountLimit /\ MaxPolicyBytes < TextLimit
  /\ FieldNames \in Seq(Texts) /\ QualifierNames \in Seq(STRING)
  /\ IsFiniteSet(EvidenceKinds) /\ Cardinality(EvidenceKinds) < CountLimit
  /\ Sources \subseteq Documents /\ \A p \in Sources : IsTree(p)

\* The conversions to uint16.  MaxNodes bounds what Count counts, but for the
\* values of an `in` over the requester, whose vocabulary is open: nothing but
\* MaxPolicyBytes bounds them, and that allows more than CountLimit.
Count(n)  == n % CountLimit
TextID(n) == n % TextLimit

\* The count entries of a column from start on.
Slice(column, start, count) == SubSeq(column, start + 1, start + count)

-----------------------------------------------------------------------------
(* The interner and the catalogues that hold each entry once.              *)

Index(s, x) == SelectInSeq(s, LAMBDA e : e = x)

Intern(p, text) ==
  IF text = NoSymbol \/ text \in Range(p.symbols) THEN p
  ELSE [p EXCEPT !.symbols = Append(@, text)]

Symbol(p, text) == Index(p.symbols, text)
InternAll(p, texts) ==
  LET upTo[k \in 0..Len(texts)] == IF k = 0 THEN p ELSE Intern(upTo[k - 1], texts[k])
  IN  upTo[Len(texts)]

\* evidenceKind and explanationID.
WithKind(p, name) ==
  LET q == Intern(p, name)
  IN  IF Symbol(p, name) > 0 /\ Symbol(p, name) \in Range(p.kinds) THEN p
      ELSE [q EXCEPT !.kinds = Append(@, Symbol(q, name))]
KindID(p, name) == Count(Index(p.kinds, Symbol(p, name)))

WithExplanation(p, text) ==
  LET q == Intern(p, text)
  IN  IF text = NoSymbol \/ (Symbol(p, text) > 0 /\ Symbol(p, text) \in Range(p.explanations)) THEN p
      ELSE [q EXCEPT !.explanations = Append(@, Symbol(q, text))]
ExplanationID(p, text) ==
  IF text = NoSymbol THEN 0 ELSE TextID(Index(p.explanations, Symbol(p, text)))
ExplainAll(p, texts) ==
  LET upTo[k \in 0..Len(texts)] == IF k = 0 THEN p ELSE WithExplanation(upTo[k - 1], texts[k])
  IN  upTo[Len(texts)]

-----------------------------------------------------------------------------
(* compileExpression, after its children: the instruction of a node.       *)

NoInstruction ==
  [op |-> "invalid", field |-> 0, value |-> 0, operandStart |-> 0, operandCount |-> 0,
   setStart |-> 0, setCount |-> 0, spec |-> 0]

Wanted(evidence) == [k \in DOMAIN QualifierNames |-> evidence.qualifiers[QualifierNames[k]]]

\* What the switch appends before the instruction itself.
WithPayload(p, node) ==
  CASE node.op = "equal" -> Intern(p, node.value)
    [] node.op = "in" ->
         LET q == InternAll(p, node.values)
         IN  [q EXCEPT !.setValues =
                @ \o [k \in DOMAIN node.values |-> Symbol(q, node.values[k])]]
    [] node.op = "evidence_matches" ->
         LET q == InternAll(WithKind(p, node.evidence.kind), Wanted(node.evidence))
         IN  [q EXCEPT !.specs = Append(@,
                [kind  |-> KindID(q, node.evidence.kind),
                 wants |-> [n \in DOMAIN node.evidence.qualifiers |->
                              Symbol(q, node.evidence.qualifiers[n])]])]
    [] OTHER -> p

Instruction(p, q, node, ids) ==
  [NoInstruction EXCEPT
     !.op = node.op,
     !.field = IF node.op \in {"equal", "in"} THEN LookupField(node.field) ELSE 0,
     !.value = IF node.op = "equal" THEN Symbol(q, node.value) ELSE 0,
     !.operandStart = Len(q.operands), !.operandCount = Count(Len(ids)),
     !.setStart = Len(p.setValues),
     !.setCount = IF node.op = "in" THEN Count(Len(node.values)) ELSE 0,
     !.spec = IF node.op = "evidence_matches" THEN Count(Len(q.specs)) ELSE 0]

WithInstruction(p, node, ids) ==
  LET q == WithPayload(p, node)
  IN  [q EXCEPT !.operands = @ \o ids, !.code = Append(@, Instruction(p, q, node, ids))]

\* appendUniqueEvidenceKind.
NoteKind(kinds, kind) == IF kind \in Range(kinds) THEN kinds ELSE Append(kinds, kind)

Top   == stack[Len(stack)]
Below == SubSeq(stack, 1, Len(stack) - 1)
Frame(n) == [node |-> n, ids |-> <<>>]

\* A mutant: the last child's instruction becomes the first operand.
Prepended(ids, id) == <<id>> \o ids
Returned(ids, id)  == Append(ids, id)

Expressing == stage \in {"applicability", "assertion"} /\ stack # <<>>
Children   == policy.nodes[Top.node].children

\* The call for the next child.
Descend ==
  /\ Expressing /\ Len(Top.ids) < Len(Children)
  /\ stack' = Append(stack, Frame(Children[Len(Top.ids) + 1]))
  /\ UNCHANGED <<policy, stage, prog, root, clauseKinds, requirement, clause, emitted>>

\* Every child has its instruction: this node gets its own and returns.
Emit ==
  LET node == policy.nodes[Top.node]
      p    == WithInstruction(prog, node, Top.ids)
      id   == Len(p.code)
  IN  /\ Expressing /\ Len(Top.ids) = Len(Children)
      /\ prog' = p
      /\ emitted' = [emitted EXCEPT ![Top.node] = id]
      /\ clauseKinds' = IF node.op = "evidence_matches" /\ stage = "assertion"
                        THEN NoteKind(clauseKinds, KindID(p, node.evidence.kind))
                        ELSE clauseKinds
      /\ IF Below = <<>> THEN root' = id /\ stack' = <<>>
         ELSE /\ stack' = [Below EXCEPT ![Len(Below)].ids = Returned(@, id)]
              /\ UNCHANGED root
      /\ UNCHANGED <<policy, stage, requirement, clause>>

\* The outermost call of compileExpression.
Express(n) == stack' = <<Frame(n)>> /\ root' = 0 /\ clauseKinds' = <<>>

-----------------------------------------------------------------------------
(* Compile.                                                                *)

Init ==
  /\ policy \in Sources
  /\ stage = "decode" /\ prog = NoProgram
  /\ stack = <<>> /\ root = 0 /\ clauseKinds = <<>>
  /\ requirement = 1 /\ clause = 1
  /\ emitted = [n \in Nodes(policy) |-> 0]

control == <<stack, root, clauseKinds, requirement, clause, emitted>>

Decode ==
  /\ stage = "decode"
  /\ stage' = IF Admitted(policy) THEN "validate" ELSE "refused"
  /\ UNCHANGED <<policy, prog, control>>

\* Compile does not rely on the decoder's validation.
Validate ==
  /\ stage = "validate"
  /\ stage' = IF ValidPolicy(policy) THEN "requirement" ELSE "refused"
  /\ UNCHANGED <<policy, prog, control>>

Requirement == policy.requirements[requirement]
Clause      == Requirement.clauses[clause]

BeginRequirement ==
  /\ stage = "requirement" /\ requirement <= Len(policy.requirements)
  /\ prog' = Intern(prog, Requirement.id)
  /\ Express(Requirement.applicability)
  /\ stage' = "applicability"
  /\ UNCHANGED <<policy, requirement, clause, emitted>>

EndApplicability ==
  /\ stage = "applicability" /\ stack = <<>>
  /\ prog' = [prog EXCEPT !.requirements = Append(@,
                [symbol |-> Symbol(prog, Requirement.id), root |-> root,
                 clauseStart |-> Len(prog.clauseIDs),
                 clauseCount |-> Count(Len(Requirement.clauses))])]
  /\ stage' = "clause" /\ clause' = 1
  /\ UNCHANGED <<policy, stack, root, clauseKinds, requirement, emitted>>

BeginClause ==
  /\ stage = "clause" /\ clause <= Len(Requirement.clauses)
  /\ prog' = Intern([prog EXCEPT !.clauseIDs = Append(@, Count(Len(prog.clauses) + 1))],
                    Clause.id)
  /\ Express(Clause.assertion)
  /\ stage' = "assertion"
  /\ UNCHANGED <<policy, requirement, clause, emitted>>

\* compileRemediation.
WithRemediation(p, m) ==
  LET d == WithExplanation(p, m.description)
      q == IF m.action = "add_evidence" THEN WithKind(d, m.evidenceKind) ELSE Intern(d, m.value)
      spec == [action |-> m.action, description |-> ExplanationID(q, m.description),
               kind   |-> IF m.action = "add_evidence" THEN KindID(q, m.evidenceKind) ELSE 0,
               field  |-> IF m.action = "add_evidence" THEN 0 ELSE LookupField(m.field),
               value  |-> IF m.action = "add_evidence" THEN 0 ELSE Symbol(q, m.value)]
  IN  [q EXCEPT !.remediations = Append(@, spec),
                !.clauseRemediations = Append(@, TextID(Len(q.remediations) + 1))]

RemedyAll(p, ms) ==
  LET upTo[k \in 0..Len(ms)] == IF k = 0 THEN p ELSE WithRemediation(upTo[k - 1], ms[k])
  IN  upTo[Len(ms)]

\* What is left of the loop's body after the assertion.
WithClause(p, c, assertion, kinds) ==
  LET q == RemedyAll(ExplainAll(p, c.explanations), c.remediations)
      row == [symbol |-> Symbol(p, c.id), root |-> assertion,
              kindStart |-> Len(p.clauseKinds), kindCount |-> Count(Len(kinds)),
              outcomes |-> c.resolution,
              explanations |-> [r \in Reasons |-> ExplanationID(q, c.explanations[r])],
              remediationStart |-> Len(p.clauseRemediations),
              remediationCount |-> TextID(Len(c.remediations))]
  IN  [q EXCEPT !.clauses = Append(@, row), !.clauseKinds = @ \o kinds]

EndClause ==
  /\ stage = "assertion" /\ stack = <<>>
  /\ prog' = WithClause(prog, Clause, root, clauseKinds)
  /\ stage' = "clause" /\ clause' = clause + 1
  /\ UNCHANGED <<policy, stack, root, clauseKinds, requirement, emitted>>

EndRequirement ==
  /\ stage = "clause" /\ clause > Len(Requirement.clauses)
  /\ stage' = "requirement" /\ requirement' = requirement + 1
  /\ UNCHANGED <<policy, prog, stack, root, clauseKinds, clause, emitted>>

-----------------------------------------------------------------------------
(* Program.Validate (internal/program/validate.go).                        *)

ValidID(id, column)         == id \in 1..Len(column)
ValidRange(start, count, column) == start + count <= Len(column)

ValidInstruction(p, i) ==
  LET ins == p.code[i]
      operands == Slice(p.operands, ins.operandStart, ins.operandCount)
  IN  /\ ValidRange(ins.operandStart, ins.operandCount, p.operands)
      /\ ValidRange(ins.setStart, ins.setCount, p.setValues)
      /\ \/ /\ ins.op = "equal"
            /\ ValidID(ins.field, FieldNames) /\ ValidID(ins.value, p.symbols)
            /\ ins.operandCount = 0 /\ ins.setCount = 0 /\ ins.spec = 0
         \/ /\ ins.op = "in"
            /\ ValidID(ins.field, FieldNames) /\ ins.setCount > 0
            /\ \A s \in Range(Slice(p.setValues, ins.setStart, ins.setCount)) :
                 ValidID(s, p.symbols)
            /\ ins.operandCount = 0 /\ ins.value = 0 /\ ins.spec = 0
         \/ /\ ins.op = "evidence_matches"
            /\ ValidID(ins.spec, p.specs)
            /\ ins.operandCount = 0 /\ ins.setCount = 0 /\ ins.field = 0 /\ ins.value = 0
         \/ /\ ins.op = "all"
            /\ ins.operandCount > 0
            /\ \A o \in Range(operands) : o \in 1..(i - 1)
            /\ ins.setCount = 0 /\ ins.field = 0 /\ ins.value = 0 /\ ins.spec = 0

ValidSpec(p, spec) ==
  /\ ValidID(spec.kind, p.kinds)
  /\ \A n \in DOMAIN spec.wants : spec.wants[n] \in 0..Len(p.symbols)

ClausesOf(p, q) == Slice(p.clauseIDs, q.clauseStart, q.clauseCount)

\* Every clause belongs to one requirement.
ValidRequirements(p) ==
  /\ p.requirements # <<>> /\ p.clauses # <<>>
  /\ \A q \in Range(p.requirements) :
       /\ ValidID(q.symbol, p.symbols) /\ ValidID(q.root, p.code)
       /\ ValidRange(q.clauseStart, q.clauseCount, p.clauseIDs)
       /\ \A c \in Range(ClausesOf(p, q)) : ValidID(c, p.clauses)
  /\ LET owned == FlattenSeq([r \in DOMAIN p.requirements |-> ClausesOf(p, p.requirements[r])])
     IN  IsInjective(owned) /\ Range(owned) = DOMAIN p.clauses

ValidClause(p, c) ==
  /\ ValidID(c.symbol, p.symbols) /\ ValidID(c.root, p.code)
  /\ ValidRange(c.remediationStart, c.remediationCount, p.clauseRemediations)
  /\ ValidRange(c.kindStart, c.kindCount, p.clauseKinds)
  /\ \A r \in Reasons :
       /\ c.outcomes[r] \in Outcomes
       /\ \/ ValidID(c.explanations[r], p.explanations)
          \/ c.explanations[r] = 0 /\ c.outcomes[r] = OutcomeApprove

ValidRemediationSpec(p, m) ==
  /\ m.description \in 0..Len(p.explanations)
  /\ \/ m.action = "add_evidence" /\ ValidID(m.kind, p.kinds) /\ m.field = 0 /\ m.value = 0
     \/ /\ m.action = "set_field" /\ m.kind = 0
        /\ ValidID(m.field, FieldNames) /\ ValidID(m.value, p.symbols)

ValidProgram(p) ==
  /\ p.code # <<>> /\ p.symbols # <<>> /\ NoSymbol \notin Range(p.symbols)
  /\ \A i \in DOMAIN p.code : ValidInstruction(p, i)
  /\ \A spec \in Range(p.specs) : ValidSpec(p, spec)
  /\ \A s \in Range(p.kinds) \cup Range(p.explanations) : ValidID(s, p.symbols)
  /\ ValidRequirements(p)
  /\ \A c \in Range(p.clauses) : ValidClause(p, c)
  /\ \A id \in Range(p.clauseRemediations) : ValidID(id, p.remediations)
  /\ \A id \in Range(p.clauseKinds) : ValidID(id, p.kinds)
  /\ \A m \in Range(p.remediations) : ValidRemediationSpec(p, m)
  /\ IsInjective(OutcomePrecedence) /\ Range(OutcomePrecedence) = Outcomes

\* freeze lays the symbols end to end; then the program is validated.
Finish ==
  /\ stage = "requirement" /\ requirement > Len(policy.requirements)
  /\ stage' = IF ValidProgram(prog) THEN "compiled" ELSE "invalid program"
  /\ UNCHANGED <<policy, prog, control>>

Compile ==
  \/ Decode \/ Validate \/ BeginRequirement \/ EndApplicability
  \/ BeginClause \/ EndClause \/ EndRequirement \/ Descend \/ Emit \/ Finish

Ended == stage \in {"compiled", "refused", "invalid program"}

Next == Compile \/ (Ended /\ UNCHANGED vars)
Spec == Init /\ [][Next]_vars /\ WF_vars(Compile)

-----------------------------------------------------------------------------
(* What the compiler promises.                                             *)

\* The type invariant: the frames are a path of the policy's tree, each with
\* the instructions of its first children.
TypeOK ==
  /\ stage \in {"decode", "validate", "refused", "requirement", "applicability", "clause",
                "assertion", "compiled", "invalid program"}
  /\ requirement \in 1..(Len(policy.requirements) + 1) /\ clause \in Nat \ {0}
  /\ root \in 0..Len(prog.code)
  /\ emitted \in [Nodes(policy) -> 0..Len(prog.code)]
  /\ \A k \in DOMAIN stack :
       LET children == policy.nodes[stack[k].node].children
           done     == Len(stack[k].ids)
       IN  /\ done <= Len(children)
           /\ stack[k].ids = [j \in 1..done |-> emitted[children[j]]]
           /\ k < Len(stack) => done < Len(children) /\ stack[k + 1].node = children[done + 1]

Text(p, id) == IF id = 0 THEN NoSymbol ELSE p.symbols[id]
TextsOf(p, ids) == [k \in DOMAIN ids |-> Text(p, ids[k])]

\* What an instruction says, read through its ranges and IDs.
Meaning(p, i) ==
  LET ins == p.code[i]
  IN  [op       |-> ins.op,
       field    |-> IF ins.field = 0 THEN NoSymbol ELSE FieldNames[ins.field],
       value    |-> Text(p, ins.value),
       values   |-> TextsOf(p, Slice(p.setValues, ins.setStart, ins.setCount)),
       children |-> Slice(p.operands, ins.operandStart, ins.operandCount),
       evidence |-> IF ins.spec = 0 THEN NoEvidence
                    ELSE [kind |-> Text(p, p.kinds[p.specs[ins.spec].kind]),
                          qualifiers |-> TextsOf(p, p.specs[ins.spec].wants)]]

\* The evaluator compares texts by their IDs: equal IDs for equal texts.
SymbolsAreTexts == IsInjective(prog.symbols) /\ NoSymbol \notin Range(prog.symbols)

\* Whatever is compiled after it, the instruction of an expression goes on
\* saying what the policy says, with its children's instructions as operands:
\* no range is shifted, no count wraps, and no symbol stands for two texts.
\* It holds while no `in` lists CountLimit values (SetsKept is about those).
ExpressionsKept ==
  /\ SymbolsAreTexts
  /\ \A n \in {m \in Nodes(policy) : emitted[m] # 0} :
       Meaning(prog, emitted[n]) =
         [policy.nodes[n] EXCEPT !.children = [k \in DOMAIN @ |-> emitted[@[k]]]]

\* A compiled `in` tests the values the policy lists, all of them (README.md:258:
\* "Request field belongs to a non-empty unique set").
SetsKept ==
  stage = "compiled" =>
    \A n \in Nodes(policy) :
      policy.nodes[n].op = "in" => Meaning(prog, emitted[n]).values = policy.nodes[n].values

RemediationMeaning(p, id) ==
  LET m == p.remediations[id]
  IN  [action       |-> m.action,
       description  |-> IF m.description = 0 THEN NoSymbol
                        ELSE Text(p, p.explanations[m.description]),
       evidenceKind |-> IF m.kind = 0 THEN NoSymbol ELSE Text(p, p.kinds[m.kind]),
       field        |-> IF m.field = 0 THEN NoSymbol ELSE FieldNames[m.field],
       value        |-> Text(p, m.value)]

ClauseMeaning(p, c) ==
  LET ids == Slice(p.clauseRemediations, c.remediationStart, c.remediationCount)
  IN  [id           |-> Text(p, c.symbol),
       assertion    |-> c.root,
       resolution   |-> c.outcomes,
       explanations |-> [r \in Reasons |-> IF c.explanations[r] = 0 THEN NoSymbol
                                           ELSE Text(p, p.explanations[c.explanations[r]])],
       remediations |-> [k \in DOMAIN ids |-> RemediationMeaning(p, ids[k])]]

KindsOf(p, c) ==
  LET ids == Slice(p.clauseKinds, c.kindStart, c.kindCount)
  IN  [j \in DOMAIN ids |-> Text(p, p.kinds[ids[j]])]

\* The kinds a clause is listed under, from which a result names the missing
\* evidence, are those of its assertion, each once, in the order of their
\* first instructions.
EvidenceNodes(n) ==
  {m \in Nodes(policy) : RootOf(policy)[m] = n /\ policy.nodes[m].op = "evidence_matches"}
KindOf(n) == policy.nodes[n].evidence.kind

ClauseKindsExact ==
  \A k \in DOMAIN prog.clauses :
    LET nodes    == EvidenceNodes(SourceClauses(policy)[k].assertion)
        first(x) == Min({emitted[n] : n \in {m \in nodes : KindOf(m) = x}})
        kinds    == KindsOf(prog, prog.clauses[k])
    IN  /\ Range(kinds) = {KindOf(n) : n \in nodes}
        /\ \A i, j \in DOMAIN kinds : i < j => first(kinds[i]) < first(kinds[j])

\* Each clause keeps its outcomes, explanations, remediations and kinds of
\* evidence under its requirement, read through the ranges the result package
\* reads them by.
ClausesKept ==
  /\ \A k \in DOMAIN prog.clauses :
       ClauseMeaning(prog, prog.clauses[k]) = [SourceClauses(policy)[k] EXCEPT !.assertion = emitted[@]]
  /\ stage = "compiled" =>
       \A r \in DOMAIN policy.requirements :
         LET q == prog.requirements[r]
             s == policy.requirements[r]
         IN  /\ Text(prog, q.symbol) = s.id /\ q.root = emitted[s.applicability]
             /\ [k \in DOMAIN ClausesOf(prog, q) |->
                   ClauseMeaning(prog, prog.clauses[ClausesOf(prog, q)[k]])]
                = [k \in DOMAIN s.clauses |-> [s.clauses[k] EXCEPT !.assertion = emitted[@]]]
  /\ ClauseKindsExact

\* Program.Validate is a check of the compiler: no admitted policy fails it
\* (Compile would return a diagnostic at path "program"), but one with an `in`
\* of a multiple of CountLimit values.
NeverInvalid == stage # "invalid program"

\* The session model's view of a compiled program.
EngineInstruction(ins) ==
  CASE ins.op = "equal" -> [op |-> "equal", field |-> ins.field, value |-> Text(prog, ins.value)]
    [] ins.op = "in" ->
         [op |-> "in", field |-> ins.field,
          set |-> Range(TextsOf(prog, Slice(prog.setValues, ins.setStart, ins.setCount)))]
    [] ins.op = "evidence_matches" ->
         [op   |-> "evidence_matches",
          kind |-> Text(prog, prog.kinds[prog.specs[ins.spec].kind]),
          want |-> TextsOf(prog, prog.specs[ins.spec].wants)]
    [] OTHER ->
         [op |-> "all", operands |-> Range(Slice(prog.operands, ins.operandStart, ins.operandCount))]

EngineClause(c) ==
  [root |-> c.root, resolution |-> c.outcomes,
   explained |-> {r \in Reasons : c.explanations[r] # 0},
   kinds |-> KindsOf(prog, c),
   remediations |-> Slice(prog.clauseRemediations, c.remediationStart, c.remediationCount)]

Engine == INSTANCE Program WITH
  FieldCount <- Len(FieldNames), ValidValues <- ValidFieldValues,
  Symbols <- Range(prog.symbols), Kinds <- {Text(prog, s) : s \in Range(prog.kinds)},
  Qualifiers <- Range(QualifierNames),
  Code <- [i \in DOMAIN prog.code |-> EngineInstruction(prog.code[i])],
  Clauses <- [c \in DOMAIN prog.clauses |-> EngineClause(prog.clauses[c])],
  Requirements <- [r \in DOMAIN prog.requirements |->
                     [root |-> prog.requirements[r].root,
                      clauses |-> ClausesOf(prog, prog.requirements[r])]],
  Remediations <- Len(prog.remediations),
  Action <- [m \in DOMAIN prog.remediations |-> prog.remediations[m].action], Strings <- Texts, Ids <- Texts \ {NoSymbol},
  Packs <- {}

\* The interface to the engine: whatever was admitted, the compiled program
\* is one the session model assumes (CodeAssumption, ClauseAssumption,
\* RequirementAssumption and CatalogueAssumption of module Program), beyond
\* what Program.Validate tests: an `in` is satisfiable, and a clause has
\* remediations exactly when some reason resolves to Revise.
FitsTheEngine ==
  stage = "compiled" =>
    /\ \A i \in DOMAIN prog.code : Engine!IsInstruction(EngineInstruction(prog.code[i]), i)
    /\ \A c \in Range(prog.clauses) : Engine!IsClause(EngineClause(c))
    /\ \A r \in DOMAIN prog.requirements :
         Engine!IsRequirement([root |-> prog.requirements[r].root,
                               clauses |-> ClausesOf(prog, prog.requirements[r])])
    /\ Engine!OwnedOnce
    /\ Engine!ValidCatalogue
=============================================================================
