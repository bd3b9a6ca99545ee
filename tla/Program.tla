------------------------------ MODULE Program -------------------------------
(***************************************************************************)
(* The immutable compiled program (internal/program) and the input packs   *)
(* it is asked about (internal/input).                                     *)
(*                                                                         *)
(* The parallel arrays and CSR ranges of program.Program are records here: *)
(* Code[i] holds the payload columns of instruction i, Requirements[q] and *)
(* Clauses[c] the ranges they own.  A symbol ID stands for its text, so a  *)
(* symbol is the interned string and NoSymbol is ID 0.                     *)
(***************************************************************************)
EXTENDS Schema, FiniteSets

CONSTANTS
  FieldCount,    \* number of request fields (seven in the code)
  ValidValues,   \* schema.ValidFieldValue: field -> its closed vocabulary
  Symbols,       \* the strings the program interned
  Kinds,         \* the evidence kinds the program names
  Qualifiers,    \* the qualifier columns of an evidence record
  Code,          \* the instructions, operands before their consumers
  Requirements,  \* [root |-> instruction, clauses |-> sequence of clauses]
  Clauses,       \* [root, resolution, explained, kinds, remediations]
  Remediations,  \* the remediation catalogue's IDs are 1..Remediations
  Action,        \* the action of each remediation
  Strings,       \* every string a request or an evidence record may carry
  Ids,           \* well-formed IDs: non-empty and trimmed
  Packs          \* the input packs a caller may submit

Fields       == 1..FieldCount
Instructions == 1..Len(Code)

IsSequence(s) == s \in Seq({s[k] : k \in DOMAIN s})

IsInstruction(ins, i) ==
  \/ /\ ins.op = "equal"
     /\ ins.field \in Fields
     /\ ins.value \in Symbols
  \/ /\ ins.op = "in"
     /\ ins.field \in Fields
     /\ ins.set \in SUBSET Symbols /\ ins.set # {}
  \/ /\ ins.op = "evidence_matches"
     /\ ins.kind \in Kinds
     /\ ins.want \in [Qualifiers -> Symbols \cup {NoSymbol}]
  \/ /\ ins.op = "all"
     /\ ins.operands \in SUBSET (1..(i - 1)) /\ ins.operands # {}

\* `explained` holds the reasons with an explanation: all that do not approve.
ValidClause(c) ==
  /\ c.root \in Instructions
  /\ c.resolution \in [Reasons -> Outcomes]
  /\ \A r \in Reasons : c.resolution[r] # OutcomeApprove => r \in c.explained
  /\ c.kinds \in Seq(Kinds)
  /\ c.remediations \in Seq(1..Remediations)

ValidRequirement(q) == q.root \in Instructions /\ q.clauses \in Seq(DOMAIN Clauses)

\* Every clause belongs to one requirement, at one place of its list.
OwnedOnce ==
  LET places == UNION {{q} \X DOMAIN Requirements[q].clauses : q \in DOMAIN Requirements}
      at(p)  == Requirements[p[1]].clauses[p[2]]
  IN  \A c \in DOMAIN Clauses : \E p \in places : \A o \in places : at(o) = c <=> o = p

RemediationActions == {"add_evidence", "set_field"}
ValidCatalogue == \A m \in 1..Remediations : Action[m] \in RemediationActions

\* Program.Validate, on the columns this model keeps.
ValidProgram ==
  /\ Code # <<>> /\ \A i \in Instructions : IsInstruction(Code[i], i)
  /\ Requirements # <<>> /\ \A q \in DOMAIN Requirements : ValidRequirement(Requirements[q])
  /\ Clauses # <<>> /\ \A c \in DOMAIN Clauses : ValidClause(Clauses[c])
  /\ OwnedOnce
  /\ ValidCatalogue

\* Policy.Validate asks more: a clause has remediations exactly when some
\* reason resolves to Revise, every remediation is one clause's, and no
\* requirement is without clauses.
IsClause(c) ==
  /\ ValidClause(c)
  /\ Len(c.remediations) <= Remediations
  /\ c.remediations # <<>>
       <=> \E r \in Reasons : c.resolution[r] = OutcomeRevise

IsRequirement(q) == ValidRequirement(q) /\ q.clauses # <<>>

IsRequest(q) == q.fields \in [Fields -> Strings] /\ IsSequence(q.refs)

IsEvidence(e) ==
  /\ e.type \in Strings
  /\ e.qualifiers \in [Qualifiers -> Strings]
  /\ e.reviewerState \in Strings

IsPack(p) ==
  /\ IsSequence(p.requests) /\ \A k \in DOMAIN p.requests : IsRequest(p.requests[k])
  /\ IsSequence(p.evidence) /\ \A k \in DOMAIN p.evidence : IsEvidence(p.evidence[k])

\* What Policy.Validate, Compile and Program.Validate guarantee together.
ASSUME VocabularyAssumption ==
  /\ FieldCount \in Nat \ {0}
  /\ ValidValues \in [Fields -> SUBSET (Strings \ {NoSymbol})]
  /\ Symbols \subseteq Strings \ {NoSymbol}
  /\ Kinds \subseteq Symbols
  /\ {"status", "timestamp_state"} \subseteq Qualifiers
  /\ Remediations \in Nat
ASSUME CodeAssumption ==
  /\ IsSequence(Code) /\ Code # <<>>
  /\ \A i \in Instructions : IsInstruction(Code[i], i)
ASSUME ClauseAssumption ==
  /\ IsSequence(Clauses)
  /\ \A c \in DOMAIN Clauses : IsClause(Clauses[c])
ASSUME RequirementAssumption ==
  /\ IsSequence(Requirements) /\ Requirements # <<>>
  /\ \A q \in DOMAIN Requirements : IsRequirement(Requirements[q])
  /\ OwnedOnce
ASSUME CatalogueAssumption == ValidCatalogue
ASSUME PackAssumption == \A p \in Packs : IsPack(p)
=============================================================================
