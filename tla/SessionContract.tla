-------------------------- MODULE SessionContract ---------------------------
(***************************************************************************)
(* A session is the service its caller is promised.                        *)
(***************************************************************************)
EXTENDS SessionProperties, Decision

\* Every place where a request names a record.
Mentions(requests) == UNION {{k} \X DOMAIN requests[k].refs : k \in DOMAIN requests}

Unique(seq) == \A j, k \in DOMAIN seq : seq[j].id = seq[k].id => j = k

\* BuildInto's contract on IDs, references and sizes.
Acceptable(p) ==
  /\ Len(p.requests) <= MaxRows /\ Len(p.evidence) <= MaxEvidence
  /\ Cardinality(Mentions(p.requests)) <= MaxEdges
  /\ IdsOf(p.requests) \cup IdsOf(p.evidence) \subseteq Ids
  /\ \A m \in Mentions(p.requests) : p.requests[m[1]].refs[m[2]] \in Ids
  /\ Unique(p.requests) /\ Unique(p.evidence)

\* The part of a materialized row the contract speaks of.
Promised(result) ==
  [id           |-> result.id,
   decision     |-> result.decision,
   requirements |-> result.requirements,
   evidence     |-> result.evidence,
   driver       |-> result.driver,
   remediation  |-> result.remediation]

\* While Evaluate runs, the pack is pending and nothing has been returned;
\* between calls the caller holds the output of the last one if it succeeded,
\* and knows which pack was refused if it was.
Asked == IF pc = "idle" THEN [requests |-> <<>>, evidence |-> <<>>, pending |-> FALSE]
         ELSE [requests |-> pack.requests, evidence |-> pack.evidence, pending |-> TRUE]

Replied == [status  |-> status,
            refused |-> IF pc = "idle" /\ status = "input_error" THEN <<pack>> ELSE <<>>,
            results |-> IF pc = "idle" /\ status = "ok"
                          THEN [r \in DOMAIN output |-> Promised(output[r])] ELSE <<>>]

Contract == INSTANCE Service WITH asked <- Asked, reply <- Replied

\* The session implements the contract: every answer is the one Decide gives
\* for the pack alone, however the storage was left by the packs before it.
Implements == Contract!Spec
=============================================================================
