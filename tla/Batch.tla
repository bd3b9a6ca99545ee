------------------------------- MODULE Batch --------------------------------
(***************************************************************************)
(* eval.Builder and eval.Batch: the columnar batch a session rebuilds for  *)
(* every pack.  A bitplane over rows is the set of the rows whose bit is   *)
(* set.  Column storage and the builder's two ID maps are reused, so every *)
(* column is resized and cleared before it is filled, and the maps are     *)
(* cleared before they are read.  Rows and edges are numbered from 1.      *)
(***************************************************************************)
EXTENDS Program

CONSTANTS MaxRows, MaxEvidence, MaxEdges   \* eval.Limits

ASSUME LimitsAssumption ==
  MaxRows \in Nat /\ MaxEvidence \in Nat /\ MaxEdges \in Nat

\* A mutant: the cells that were there are kept.
ResizeKeep(col, dom, zero) == [k \in dom |-> IF k \in DOMAIN col THEN col[k] ELSE zero]

\* resizeClear: storage `col` resized to the indices `dom`, every cell zero.
ResizeClear(col, dom, zero) == [k \in dom |-> zero]

EmptyBatch ==
  [rows |-> 0, values |-> <<>>, present |-> <<>>, valid |-> <<>>,
   issues |-> <<>>, kinds |-> <<>>, qualifiers |-> <<>>,
   qualified |-> <<>>, flags |-> <<>>, offsets |-> <<>>, refs |-> <<>>]

\* EvidenceRefOffsets: edges of row r are EdgeStart(r) .. EdgeStart(r + 1) - 1.
EdgeStarts(requests) ==
  LET start[r \in 1..(Len(requests) + 1)] ==
        IF r = 1 THEN 1 ELSE start[r - 1] + Len(requests[r - 1].refs)
  IN  start

EdgeCount(requests) == EdgeStarts(requests)[Len(requests) + 1] - 1

\* Builder.requestIDs and Builder.evidenceByID.
EmptyMaps == [requestIDs |-> {}, evidenceByID |-> <<>>]

\* Mutants: neither map is cleared; only that of the requests is.
KeepMaps(maps) == maps
KeepEvidence(maps) == [maps EXCEPT !.requestIDs = {}]

\* The maps are cleared once the pack's sizes are accepted.
ClearMaps(maps) == EmptyMaps

\* An ID is entered when it is well formed and the map does not hold it yet.
Enters(known, seq, k) ==
  seq[k].id \in Ids \ known /\ \A j \in 1..(k - 1) : seq[j].id # seq[k].id

\* The loop over the requests goes on after request k.
RequestPasses(maps, requests, k) ==
  /\ Enters(maps.requestIDs, requests, k)
  /\ EdgeStarts(requests)[k + 1] - 1 <= MaxEdges
  /\ \A j \in DOMAIN requests[k].refs : requests[k].refs[j] \in Ids

RequestsPass(maps, requests) == \A k \in DOMAIN requests : RequestPasses(maps, requests, k)

Fits(requests, evidence) == Len(requests) <= MaxRows /\ Len(evidence) <= MaxEvidence

\* BuildInto's validation, all of it before the destination is touched.
Buildable(maps, requests, evidence) ==
  LET cleared == ClearMaps(maps)
  IN  /\ Fits(requests, evidence)
      /\ RequestsPass(cleared, requests)
      /\ \A k \in DOMAIN evidence : Enters(DOMAIN cleared.evidenceByID, evidence, k)

\* The maps BuildInto leaves: every ID up to the one it refuses, if it
\* refuses one.  A pack that does not fit leaves them as they were.
MapsAfter(maps, requests, evidence) ==
  LET cleared == ClearMaps(maps)
      visited == {k \in DOMAIN requests : \A j \in 1..(k - 1) : RequestPasses(cleared, requests, j)}
      entered == {k \in visited : Enters(cleared.requestIDs, requests, k)}
      indexed == {k \in DOMAIN evidence :
                    /\ RequestsPass(cleared, requests)
                    /\ \A j \in 1..k : Enters(DOMAIN cleared.evidenceByID, evidence, j)}
  IN  IF ~Fits(requests, evidence) THEN maps
      ELSE [requestIDs   |-> cleared.requestIDs \cup {requests[k].id : k \in entered},
            evidenceByID |->
              [id \in DOMAIN cleared.evidenceByID \cup {evidence[k].id : k \in indexed} |->
                 IF id \in DOMAIN cleared.evidenceByID THEN cleared.evidenceByID[id]
                 ELSE CHOOSE k \in indexed : evidence[k].id = id]]

\* evidenceByID[id]: the index of the record, Go's zero for an ID it lacks.
LookUp(maps, id) == IF id \in DOMAIN maps.evidenceByID THEN maps.evidenceByID[id] ELSE 0

\* One sentinel or record index per evidence_ids entry, in request order.
EdgeRefs(maps, requests) ==
  LET start == EdgeStarts(requests)
      owner(e) == CHOOSE r \in DOMAIN requests : start[r] <= e /\ e < start[r + 1]
  IN  [e \in 1..EdgeCount(requests) |->
         LookUp(maps, requests[owner(e)].refs[e - start[owner(e)] + 1])]

\* setRequestField: the value is both there and in the field's vocabulary.
SemanticallyValid(request, f) == request.fields[f] \in ValidValues[f] \ {NoSymbol}

\* setEvidence: the state flags of one record.
StateFlags(record) ==
  LET status    == record.qualifiers["status"]
      timestamp == record.qualifiers["timestamp_state"]
  IN  {flag \in EvidenceFlags :
         \/ /\ flag = "conflict"
            /\ \/ status = "conflicting" \/ timestamp = "conflicting"
               \/ record.reviewerState = "one_valid_one_revoked"
         \/ flag = "stale" /\ timestamp = "stale"
         \/ /\ flag = "revoked"
            /\ status \in {"revoked", "expired"} \/ record.reviewerState = "revoked"}

\* Text resolved to a symbol; an unknown text leaves the cleared cell alone.
Resolved(text, known, cell) == IF text \in known THEN text ELSE cell

\* BuildInto from the first resizeClear on, over the storage of `old` and with
\* the maps it has filled.
BuildBatch(old, maps, requests, evidence) ==
  LET Rows       == DOMAIN requests
      Records    == DOMAIN evidence
      values     == ResizeClear(old.values, Fields \X Rows, NoSymbol)
      present    == ResizeClear(old.present, Fields, {})
      valid      == ResizeClear(old.valid, Fields, {})
      issues     == ResizeClear(old.issues, Rows, {})
      kinds      == ResizeClear(old.kinds, Records, NoSymbol)
      qualifiers == ResizeClear(old.qualifiers, Records, [q \in Qualifiers |-> NoSymbol])
      qualified  == ResizeClear(old.qualified, Records, {})
      flags      == ResizeClear(old.flags, Records, {})
  IN  [rows       |-> Len(requests),
       values     |-> [c \in Fields \X Rows |->
                         Resolved(requests[c[2]].fields[c[1]], Symbols, values[c])],
       present    |-> [f \in Fields |->
                         present[f] \cup {r \in Rows : requests[r].fields[f] # NoSymbol}],
       valid      |-> [f \in Fields |->
                         valid[f] \cup {r \in Rows : SemanticallyValid(requests[r], f)}],
       issues     |-> [r \in Rows |->
                         issues[r] \cup {f \in Fields : ~SemanticallyValid(requests[r], f)}],
       kinds      |-> [k \in Records |-> Resolved(evidence[k].type, Kinds, kinds[k])],
       qualifiers |-> [k \in Records |-> [q \in Qualifiers |->
                         Resolved(evidence[k].qualifiers[q], Symbols, qualifiers[k][q])]],
       qualified  |-> [k \in Records |-> qualified[k] \cup
                         {q \in Qualifiers : evidence[k].qualifiers[q] # NoSymbol}],
       flags      |-> [k \in Records |-> flags[k] \cup StateFlags(evidence[k])],
       offsets    |-> EdgeStarts(requests),
       refs       |-> EdgeRefs(maps, requests)]

\* EvaluateInstructions: the request columns have the declared shape.
ValidRequestBatch(b) ==
  /\ DOMAIN b.values = Fields \X (1..b.rows)
  /\ DOMAIN b.present = Fields /\ DOMAIN b.valid = Fields
  /\ DOMAIN b.issues = 1..b.rows

\* validateEvidenceBatch: the evidence columns are equally long; the CSR ranges
\* are monotonic, cover the edges and name records that exist.
ValidEvidenceBatch(b) ==
  /\ DOMAIN b.qualifiers = DOMAIN b.kinds /\ DOMAIN b.qualified = DOMAIN b.kinds
  /\ DOMAIN b.flags = DOMAIN b.kinds
  /\ DOMAIN b.offsets = 1..(b.rows + 1)
  /\ \A r \in 1..(b.rows + 1) : b.offsets[r] \in 1..(Len(b.refs) + 1)
  /\ \A r \in 1..b.rows : b.offsets[r] <= b.offsets[r + 1]
  /\ b.offsets[b.rows + 1] = Len(b.refs) + 1
  /\ \A e \in DOMAIN b.refs : b.refs[e] \in 0..Len(b.kinds)

RowEdges(b, r) == b.offsets[r]..(b.offsets[r + 1] - 1)
=============================================================================
