------------------------------- MODULE Schema -------------------------------
(***************************************************************************)
(* The numeric vocabulary of internal/schema and internal/result: reasons, *)
(* outcomes, driver kinds, evidence flags, and the ranks the compiler      *)
(* gives the outcomes.  IDs start at 1 because 0 is the invalid ID of      *)
(* every domain.                                                           *)
(***************************************************************************)
EXTENDS Naturals, Sequences

\* schema.ReasonID.
ReasonSatisfied       == 1
ReasonFalse           == 2
ReasonMissing         == 3
ReasonInvalidEvidence == 4
ReasonStale           == 5
ReasonUnclear         == 6
ReasonUnverifiable    == 7
ReasonConflict        == 8
ReasonCount           == 8
Reasons               == 1..ReasonCount

\* schema.OutcomeID.
OutcomeApprove  == 1
OutcomeReject   == 2
OutcomeRevise   == 3
OutcomeEscalate == 4
OutcomeCount    == 4
Outcomes        == 1..OutcomeCount

\* The rank compile.Compile gives each outcome: Reject > Escalate > Revise >
\* Approve.
OutcomePrecedence == <<1, 4, 2, 3>>
Rank(outcome)     == OutcomePrecedence[outcome]

\* result.DriverKind.
DriverKinds ==
  {"none", "clause", "semantic", "missing_reference", "no_applicable"}

\* eval.EvidenceFlag*.
EvidenceFlags == {"conflict", "stale", "revoked"}

\* The empty string, which the interner maps to symbol 0; no symbol.
NoSymbol == ""
=============================================================================
