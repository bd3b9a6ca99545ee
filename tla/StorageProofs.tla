---------------------------- MODULE StorageProofs ----------------------------
(***************************************************************************)
(* The session's result columns never outgrow what Ensure reserved, every  *)
(* row's ranges hold what the row found, no check of the evaluator or the  *)
(* materializer ever fails, and an approval the caller reads was earned by *)
(* the pack it asked about.                                                *)
(***************************************************************************)
EXTENDS SessionProofs

-----------------------------------------------------------------------------
(* Ranges of a growing column.                                             *)

\* The IDs after position a and up to position b.
LEMMA Slice ==
  ASSUME NEW ids \in Seq(Nat), NEW a \in Nat, NEW b \in Nat, a <= b, b <= Len(ids)
  PROVE  /\ SubSeq(ids, a + 1, b) \in Seq(Nat)
         /\ Len(SubSeq(ids, a + 1, b)) = b - a
         /\ DOMAIN SubSeq(ids, a + 1, b) = 1..(b - a)
         /\ SubSeq(ids, a + 1, b) = [i \in 1..(b - a) |-> ids[a + i]]
PROOF
<1> DEFINE part == SubSeq(ids, a + 1, b)
<1>1. \A i \in (a + 1)..b : ids[i] \in Nat
  BY LenProperties, ElementOfSeq
<1>2. /\ part \in Seq(Nat) /\ Len(part) = IF a + 1 <= b THEN b - (a + 1) + 1 ELSE 0
      /\ \A i \in 1..(b - (a + 1) + 1) : part[i] = ids[(a + 1) + i - 1]
  BY <1>1, SubSeqProperties
<1>3. Len(part) = b - a /\ b - (a + 1) + 1 = b - a /\ \A i \in 1..(b - a) : (a + 1) + i - 1 = a + i
  BY <1>2
<1>4. \A i \in 1..(b - a) : part[i] = ids[a + i]
  BY <1>2, <1>3
<1>5. part \in [1..(b - a) -> Nat]
  BY <1>2, <1>3, LenProperties
<1> QED BY <1>2, <1>3, <1>4, <1>5

\* A range within the IDs keeps its contents when more IDs follow.
LEMMA RangeKept ==
  ASSUME NEW ids \in Seq(Nat), NEW more \in Seq(Nat),
         Len(ids) <= Len(more), \A i \in 1..Len(ids) : more[i] = ids[i],
         NEW a \in Nat, NEW b \in Nat, a <= b, b <= Len(ids)
  PROVE  SubSeq(more, a + 1, b) = SubSeq(ids, a + 1, b)
PROOF
<1>1. Len(ids) \in Nat /\ Len(more) \in Nat /\ b <= Len(more)
  BY LenProperties
<1>2. \A i \in 1..(b - a) : a + i \in 1..Len(ids)
  BY <1>1
<1> QED BY <1>1, <1>2, Slice

\* The range still open after position a.
Open(ids, a) == SubSeq(ids, a + 1, Len(ids))

\* Nothing is in an open range of no length.
LEMMA OpenEmpty ==
  ASSUME NEW ids \in Seq(Nat)
  PROVE  Open(ids, Len(ids)) = <<>>
PROOF
<1>1. Len(ids) \in Nat
  BY LenProperties
<1>2. Len(ids) < Len(ids) + 1 /\ Len(ids) \in Int /\ Len(ids) + 1 \in Int
  BY <1>1
<1> QED BY <1>2, SubSeqEmpty DEF Open

\* What the open range holds.
LEMMA OpenSlice ==
  ASSUME NEW ids \in Seq(Nat), NEW a \in Nat, a <= Len(ids)
  PROVE  /\ Open(ids, a) \in Seq(Nat) /\ Len(Open(ids, a)) = Len(ids) - a
         /\ Open(ids, a) = [i \in 1..(Len(ids) - a) |-> ids[a + i]]
PROOF
<1>1. Len(ids) \in Nat /\ Len(ids) <= Len(ids)
  BY LenProperties
<1> QED BY <1>1, Slice DEF Open

\* The open range grows with the IDs.
LEMMA OpenGrows ==
  ASSUME NEW ids \in Seq(Nat), NEW id \in Nat, NEW a \in Nat, a <= Len(ids)
  PROVE  /\ Open(ids, a) \in Seq(Nat) /\ Len(Open(ids, a)) \in Nat
         /\ DOMAIN Open(ids, a) = 1..Len(Open(ids, a))
         /\ DOMAIN Open(Append(ids, id), a) = 1..(Len(Open(ids, a)) + 1)
         /\ \A k \in 1..Len(Open(ids, a)) : Open(Append(ids, id), a)[k] = Open(ids, a)[k]
         /\ Open(Append(ids, id), a)[Len(Open(ids, a)) + 1] = id
PROOF
<1> DEFINE more == Append(ids, id)
           old == SubSeq(ids, a + 1, Len(ids))
           new == SubSeq(more, a + 1, Len(more))
<1>1. /\ more \in Seq(Nat) /\ Len(more) = Len(ids) + 1 /\ Len(ids) \in Nat
      /\ \A i \in 1..Len(ids) : more[i] = ids[i]
      /\ more[Len(ids) + 1] = id
  BY AppendProperties, LenProperties
<1> HIDE DEF more
<1>2. /\ old \in Seq(Nat) /\ Len(old) = Len(ids) - a /\ DOMAIN old = 1..(Len(ids) - a)
      /\ old = [i \in 1..(Len(ids) - a) |-> ids[a + i]]
  BY SMTT(40), <1>1, Slice
<1>3. /\ new \in Seq(Nat) /\ Len(new) = Len(more) - a /\ DOMAIN new = 1..(Len(more) - a)
      /\ new = [i \in 1..(Len(more) - a) |-> more[a + i]]
  BY SMTT(40), <1>1, Slice
<1> HIDE DEF old, new
<1>4. Len(new) = Len(old) + 1 /\ Len(old) \in Nat /\ Len(more) - a = Len(old) + 1
  BY <1>1, <1>2, <1>3
<1>5. \A k \in 1..Len(old) : new[k] = old[k]
  <2> SUFFICES ASSUME NEW k \in 1..Len(old) PROVE new[k] = old[k]
    OBVIOUS
  <2>1. k \in 1..(Len(ids) - a) /\ k \in 1..(Len(more) - a) /\ a + k \in 1..Len(ids)
    BY <1>1, <1>2, <1>4
  <2> QED BY <1>1, <1>2, <1>3, <2>1
<1>6. new[Len(old) + 1] = id
  <2>1. Len(old) + 1 \in 1..(Len(more) - a) /\ a + (Len(old) + 1) = Len(ids) + 1
    BY <1>1, <1>2, <1>4
  <2> QED BY <1>1, <1>3, <2>1
<1> QED BY <1>2, <1>3, <1>4, <1>5, <1>6 DEF old, new, more, Open

\* The IDs appended at the end are the range after what was there.
LEMMA RangeOfTail ==
  ASSUME NEW ids \in Seq(Nat), NEW tail \in Seq(Nat)
  PROVE  Open(ids \o tail, Len(ids)) = tail
PROOF
<1>1. /\ ids \o tail \in Seq(Nat) /\ Len(ids \o tail) = Len(ids) + Len(tail)
      /\ \A i \in 1..(Len(ids) + Len(tail)) :
           (ids \o tail)[i] = IF i <= Len(ids) THEN ids[i] ELSE tail[i - Len(ids)]
      /\ Len(ids) \in Nat /\ Len(tail) \in Nat /\ tail \in [1..Len(tail) -> Nat]
  BY ConcatProperties, LenProperties
<1> DEFINE whole == ids \o tail
           n == Len(ids)
<1> HIDE DEF whole
<1>2. SubSeq(whole, n + 1, Len(whole)) = [i \in 1..(Len(whole) - n) |-> whole[n + i]]
  BY <1>1, Slice DEF whole
<1>3. Len(whole) - n = Len(tail)
  BY <1>1 DEF whole
<1>4. \A i \in 1..Len(tail) : whole[n + i] = tail[i]
  <2> SUFFICES ASSUME NEW i \in 1..Len(tail) PROVE whole[n + i] = tail[i]
    OBVIOUS
  <2>1. n + i \in 1..(n + Len(tail)) /\ ~(n + i <= n) /\ (n + i) - n = i
    BY <1>1
  <2> QED BY <1>1, <2>1 DEF whole
<1> QED BY <1>1, <1>2, <1>3, <1>4 DEF whole, Open

-----------------------------------------------------------------------------
(* The batch and the pack, and what was reserved for it.                   *)

\* From the build on, the batch is what the builder makes of the pack.
Linked ==
  pc # "idle" \/ status = "ok" =>
    /\ pack \in Packs /\ Buildable(EmptyMaps, pack.requests, pack.evidence)
    /\ batch = BatchOf(pack.requests, pack.evidence)

\* Ensure reserved what the rows may come to need.
Reserved ==
  /\ capacity \in [NumericColumns -> Nat]
  /\ pc \notin {"idle", "built"} =>
       /\ \A column \in DOMAIN capacity : capacity[column] >= Needed[column]
       /\ contextRows = batch.rows

\* The shape of a batch that is linked to its pack.
LEMMA BatchOfPack ==
  ASSUME Linked, pc # "idle" \/ status = "ok"
  PROVE  /\ pack \in Packs
         /\ IsSequence(pack.requests) /\ IsSequence(pack.evidence)
         /\ batch.rows = Len(pack.requests) /\ batch.rows \in Nat /\ DOMAIN pack.requests = Rows
         /\ batch.issues \in [Rows -> SUBSET Fields]
         /\ ValidRequestBatch(batch) /\ ValidEvidenceBatch(batch)
         /\ Len(batch.kinds) = Len(pack.evidence)
         /\ Len(batch.refs) \in Nat /\ batch.refs \in [1..Len(batch.refs) -> Nat]
PROOF
<1> DEFINE maps == MapsAfter(EmptyMaps, pack.requests, pack.evidence)
<1>1. /\ pack \in Packs /\ Buildable(EmptyMaps, pack.requests, pack.evidence)
      /\ batch = BuildBatch(EmptyBatch, maps, pack.requests, pack.evidence)
  BY DEF Linked, BatchOf
<1>2. /\ IsSequence(pack.requests) /\ IsSequence(pack.evidence)
      /\ \A k \in DOMAIN pack.requests : IsSequence(pack.requests[k].refs)
  BY <1>1, PackAssumption DEF IsPack, IsRequest
<1>3. batch.rows = Len(pack.requests) /\ Len(pack.requests) \in Nat
      /\ DOMAIN pack.requests = 1..Len(pack.requests)
  BY <1>1, <1>2, SequenceDomain DEF BuildBatch
<1>7. \A id : LookUp(maps, id) = RecordIndex(pack.evidence, id)
  BY <1>1, <1>2, LookUpFinds
<1> HIDE DEF maps
<1>4. /\ ValidRequestBatch(batch) /\ ValidEvidenceBatch(batch)
      /\ Len(batch.kinds) = Len(pack.evidence)
      /\ Len(batch.refs) = EdgeCount(pack.requests)
  BY <1>1, <1>2, <1>7, BuildBatchValid
<1>5. EdgeCount(pack.requests) \in Nat /\ batch.refs \in [1..EdgeCount(pack.requests) -> Nat]
  <2>1. batch.refs = EdgeRefs(maps, pack.requests)
    BY <1>1 DEF BuildBatch
  <2>2. EdgeRefs(maps, pack.requests)
          \in [1..EdgeCount(pack.requests) -> 0..Len(pack.evidence)]
    BY <1>2, <1>7, EdgeRefsShape
  <2>3. Len(pack.evidence) \in Nat /\ EdgeCount(pack.requests) \in Nat
    BY <1>2, SequenceDomain, EdgeStartsShape
  <2> QED BY <2>1, <2>2, <2>3
<1>6. batch.issues \in [1..batch.rows -> SUBSET Fields]
  BY <1>1, <1>2, BuildBatchType
<1> QED BY <1>1, <1>2, <1>3, <1>4, <1>5, <1>6 DEF Rows

\* The edges of a row are the references of its request, resolved.
LEMMA EdgesOfPack ==
  ASSUME Linked, pc # "idle" \/ status = "ok"
  PROVE  /\ batch.offsets = EdgeStarts(pack.requests)
         /\ \A k \in DOMAIN pack.requests : IsSequence(pack.requests[k].refs)
         /\ \A k \in 1..Len(pack.requests) :
              \A x \in EdgeStarts(pack.requests)[k]..(EdgeStarts(pack.requests)[k + 1] - 1) :
                /\ x \in 1..EdgeCount(pack.requests)
                /\ x - EdgeStarts(pack.requests)[k] + 1 \in DOMAIN pack.requests[k].refs
                /\ batch.refs[x] =
                     RecordIndex(pack.evidence,
                                 pack.requests[k].refs[x - EdgeStarts(pack.requests)[k] + 1])
PROOF
<1> DEFINE maps == MapsAfter(EmptyMaps, pack.requests, pack.evidence)
<1>1. /\ pack \in Packs /\ Buildable(EmptyMaps, pack.requests, pack.evidence)
      /\ batch = BuildBatch(EmptyBatch, maps, pack.requests, pack.evidence)
  BY DEF Linked, BatchOf
<1>2. /\ IsSequence(pack.requests) /\ IsSequence(pack.evidence)
      /\ \A k \in DOMAIN pack.requests : IsSequence(pack.requests[k].refs)
  BY <1>1, PackAssumption DEF IsPack, IsRequest
<1>3. \A id : LookUp(maps, id) = RecordIndex(pack.evidence, id)
  BY <1>1, <1>2, LookUpFinds
<1> HIDE DEF maps
<1>4. batch.offsets = EdgeStarts(pack.requests) /\ batch.refs = EdgeRefs(maps, pack.requests)
  BY <1>1 DEF BuildBatch
<1> QED BY <1>2, <1>3, <1>4, EdgeRefsShape

\* The builder clears what it reuses, so nothing of the batch before it, or of
\* the maps before it, shows.
LEMMA BuildForgets ==
  ASSUME NEW old, NEW maps, NEW requests, NEW evidence, Buildable(maps, requests, evidence)
  PROVE  BuildBatch(old, MapsAfter(maps, requests, evidence), requests, evidence)
           = BatchOf(requests, evidence)
PROOF
<1>1. MapsAfter(maps, requests, evidence) = MapsAfter(EmptyMaps, requests, evidence)
  BY MapsForget
<1> QED BY <1>1 DEF BatchOf, BuildBatch, ResizeClear

\* Nothing is linked or reserved before the first call.
LEMMA InitLinked == Init => Linked /\ Reserved
PROOF
<1> SUFFICES ASSUME Init PROVE Linked /\ Reserved
  OBVIOUS
<1>1. Linked
  BY DEF Init, Linked
<1>2. capacity \in [NumericColumns -> Nat]
  BY DEF Init
<1> QED BY <1>1, <1>2 DEF Init, Reserved

\* Steps after the build keep the pack and the batch.
LEMMA LinkedFrame ==
  ASSUME Linked, Reserved, UNCHANGED <<pack, batch, capacity, contextRows>>, pc # "idle",
         pc' \notin {"idle", "built"} => pc \notin {"idle", "built"}
  PROVE  Linked' /\ Reserved'
BY DEF Linked, Reserved, Needed

\* Only the builder writes the batch, and only Ensure the reservation it sets.
LEMMA NextLinked == Linked /\ Reserved /\ [Next]_vars => Linked' /\ Reserved'
PROOF
<1> SUFFICES ASSUME Linked, Reserved, [Next]_vars PROVE Linked' /\ Reserved'
  OBVIOUS
<1>1. ASSUME NEW p \in Packs, RejectInput(p) PROVE Linked' /\ Reserved'
  BY <1>1 DEF RejectInput, numeric, Linked, Reserved
<1>2. ASSUME NEW p \in Packs, BuildInto(p) PROVE Linked' /\ Reserved'
  <2>1. Linked'
    BY <1>2, BuildForgets, MapsForget DEF BuildInto, Linked
  <2> QED BY <1>2, <2>1 DEF BuildInto, numeric, Reserved
<1>3. CASE EnsureCapacity
  <2>1. /\ pc = "built" /\ UNCHANGED <<pack, batch>> /\ pc' = "ensured"
        /\ contextRows' = batch.rows
    BY <1>3 DEF EnsureCapacity
  <2>2. Linked' /\ batch.rows \in Nat /\ Len(batch.refs) \in Nat
    BY <2>1, BatchOfPack DEF Linked
  <2>3. Needed \in [NumericColumns -> Nat]
    <3>1. Len(Requirements) \in Nat /\ Remediations \in Nat
      BY ProgramShape, VocabularyAssumption
    <3>2. batch.rows * Len(Requirements) \in Nat /\ batch.rows * Remediations \in Nat
      BY <2>2, <3>1
    <3>3. DOMAIN Needed = NumericColumns
      BY DEF Needed, NumericColumns
    <3>4. PICK p, q : p = batch.rows * Len(Requirements) /\ q = batch.rows * Remediations
      OBVIOUS
    <3>5. Needed = [drivers |-> batch.rows, issueIds |-> batch.rows, reqOffsets |-> batch.rows + 1,
                    evOffsets |-> batch.rows + 1, remOffsets |-> batch.rows + 1,
                    requirements |-> p, evidence |-> Len(batch.refs), remediations |-> q]
      BY <3>4 DEF Needed
    <3>6. \A column \in NumericColumns : Needed[column] \in Nat
      BY <2>2, <3>2, <3>4, <3>5 DEF NumericColumns
    <3>7. Needed = [column \in NumericColumns |-> Needed[column]]
      BY <3>3, <3>5
    <3> QED BY <3>6, <3>7
  <2>4. capacity' = [column \in NumericColumns |->
                       Grown(capacity[column], Needed[column])]
    BY <1>3 DEF EnsureCapacity, Reserved
  <2>5. \A have, need \in Nat : Grown(have, need) \in Nat /\ Grown(have, need) >= need
    BY DEF Grown
  <2>6. \A column \in NumericColumns :
          capacity[column] \in Nat /\ Needed[column] \in Nat
    BY <2>3 DEF Reserved
  <2>7. /\ capacity' \in [NumericColumns -> Nat]
        /\ \A column \in NumericColumns :
             capacity'[column] >= Needed[column]
    BY <2>4, <2>5, <2>6
  <2>8. Needed' = Needed
    BY <2>1 DEF Needed
  <2> QED BY <2>1, <2>2, <2>7, <2>8 DEF Reserved
<1>4. CASE \/ CheckShapes \/ ExecuteField \/ ExecuteEvidence \/ ExecuteAll \/ ResetResults
  BY <1>4, LinkedFrame
  DEF CheckShapes, Fail, ExecuteField, ExecuteEvidence, ExecuteAll, Executing, Executed,
      ResetResults, numeric, kept
<1>5. CASE ResolveRow
  BY <1>5, LinkedFrame
  DEF ResolveRow, ResolveSemantics, ResolveEdge, BeginRequirements, SelectRequirement,
      ResolveClause, NextRequirement, FinishRequirements, ResolveEvidence, FinishRow, numeric, kept
<1>6. CASE BeginMaterialize \/ MaterializeRow \/ Return
  BY <1>6, LinkedFrame DEF BeginMaterialize, MaterializeRow, Return, Fail, numeric, kept
<1>7. CASE UNCHANGED vars
  BY <1>7 DEF vars, numeric, kept, Linked, Reserved, Needed
<1> QED BY <1>1, <1>2, <1>3, <1>4, <1>5, <1>6, <1>7 DEF Next, Submit, Evaluate

\* The session's batch is the pack's, and its capacity suffices for it.
LEMMA StorageLinked == Spec => [](Linked /\ Reserved)
BY InitLinked, NextLinked, PTL DEF Spec

-----------------------------------------------------------------------------
(* Cursors and ranges.                                                     *)

Writing == pc \in ResolvingPcs \cup {"materialize"}

\* Rows before the frontier have their results.
Frontier == IF pc = "materialize" THEN batch.rows + 1 ELSE row

\* The cursors stay inside the batch and the row.
CursorsInside ==
  /\ pc \in ResolvingPcs => row \in 1..(batch.rows + 1)
  /\ pc = "requirements" => requirement <= Len(Requirements) + 1
  /\ pc = "clauses" => requirement \in DOMAIN Requirements
  /\ pc = "evidence" => /\ requirement \notin DOMAIN Requirements
                        /\ batch.offsets[row] <= edge /\ edge <= batch.offsets[row + 1]

\* Offsets of n rows that ascend over the first k entries, inside the IDs.
Ascends(offsets, ids, n, k) ==
  /\ offsets \in [1..(n + 1) -> Nat]
  /\ \A r \in 1..k : offsets[r] <= Len(ids)
  /\ \A r \in 1..(k - 1) : offsets[r] <= offsets[r + 1]

\* IDs and more of them after those.
Continues(more, ids) ==
  Len(ids) <= Len(more) /\ \A i \in 1..Len(ids) : more[i] = ids[i]

\* IDs appended to a column leave the ranges of finished rows alone.
LEMMA IdsGrow ==
  ASSUME NEW n \in Nat, NEW k \in 1..(n + 1), NEW ids \in Seq(Nat), NEW more \in Seq(Nat),
         Continues(more, ids),
         NEW offsets, Ascends(offsets, ids, n, k)
  PROVE  /\ Ascends(offsets, more, n, k)
         /\ \A r \in 1..n : r < k => RangeOf(offsets, more, r) = RangeOf(offsets, ids, r)
PROOF
<1> USE DEF Continues
<1>1. Len(ids) \in Nat /\ Len(more) \in Nat /\ offsets \in [1..(n + 1) -> Nat]
  BY LenProperties DEF Ascends
<1>2. Ascends(offsets, more, n, k)
  <2> SUFFICES ASSUME NEW r \in 1..k PROVE offsets[r] <= Len(more)
    BY DEF Ascends
  <2>1. r \in 1..(n + 1) /\ offsets[r] <= Len(ids)
    BY DEF Ascends
  <2> QED BY <1>1, <2>1
<1>3. ASSUME NEW r \in 1..n, r < k PROVE RangeOf(offsets, more, r) = RangeOf(offsets, ids, r)
  <2>1. r \in 1..(k - 1) /\ r + 1 \in 1..k /\ r \in 1..(n + 1) /\ r + 1 \in 1..(n + 1)
    BY <1>3
  <2>2. offsets[r] \in Nat /\ offsets[r + 1] \in Nat
    BY <1>1, <2>1
  <2>3. offsets[r] <= offsets[r + 1] /\ offsets[r + 1] <= Len(ids)
    BY <2>1 DEF Ascends
  <2>4. PICK a \in Nat, b \in Nat : a = offsets[r] /\ b = offsets[r + 1]
    BY <2>2
  <2>5. a <= b /\ b <= Len(ids)
    BY <2>3, <2>4
  <2>6. SubSeq(more, a + 1, b) = SubSeq(ids, a + 1, b)
    BY <2>5, RangeKept
  <2> QED BY <2>4, <2>6 DEF RangeOf
<1> QED BY <1>2, <1>3

\* Row k is closed at the end of the IDs.
Closes(closed, offsets, ids, n, k) ==
  /\ closed \in [1..(n + 1) -> Nat]
  /\ \A r \in 1..k : closed[r] = offsets[r]
  /\ closed[k + 1] = Len(ids)

\* Closing a row leaves the ranges before it alone.
LEMMA RowCloses ==
  ASSUME NEW n \in Nat, NEW k \in 1..n, NEW ids \in Seq(Nat),
         NEW offsets, Ascends(offsets, ids, n, k),
         NEW closed, Closes(closed, offsets, ids, n, k)
  PROVE  /\ Ascends(closed, ids, n, k + 1)
         /\ \A r \in 1..n : r < k => RangeOf(closed, ids, r) = RangeOf(offsets, ids, r)
         /\ RangeOf(closed, ids, k) = Open(ids, offsets[k])
PROOF
<1> USE DEF Closes
<1>1. Len(ids) \in Nat /\ offsets \in [1..(n + 1) -> Nat]
  BY LenProperties DEF Ascends
<1>2. \A r \in 1..(k + 1) : closed[r] <= Len(ids)
  <2> SUFFICES ASSUME NEW r \in 1..(k + 1) PROVE closed[r] <= Len(ids)
    OBVIOUS
  <2>1. CASE r = k + 1
    BY <1>1, <2>1
  <2>2. CASE r # k + 1
    <3>1. r \in 1..k
      BY <2>2
    <3> QED BY <3>1 DEF Ascends
  <2> QED BY <2>1, <2>2
<1>3. \A r \in 1..k : closed[r] <= closed[r + 1]
  <2> SUFFICES ASSUME NEW r \in 1..k PROVE closed[r] <= closed[r + 1]
    OBVIOUS
  <2>1. CASE r = k
    <3>1. k \in 1..(k + 1)
      OBVIOUS
    <3> QED BY <1>2, <2>1, <3>1
  <2>2. CASE r # k
    <3>1. r \in 1..(k - 1) /\ r + 1 \in 1..k
      BY <2>2
    <3> QED BY <3>1 DEF Ascends
  <2> QED BY <2>1, <2>2
<1>4. Ascends(closed, ids, n, k + 1)
  <2>1. (k + 1) - 1 = k
    OBVIOUS
  <2> QED BY <1>2, <1>3, <2>1 DEF Ascends
<1>5. \A r \in 1..n : r < k => RangeOf(closed, ids, r) = RangeOf(offsets, ids, r)
  <2> SUFFICES ASSUME NEW r \in 1..n, r < k PROVE RangeOf(closed, ids, r) = RangeOf(offsets, ids, r)
    OBVIOUS
  <2>1. r \in 1..k /\ r + 1 \in 1..k
    OBVIOUS
  <2> QED BY <2>1 DEF RangeOf
<1>6. RangeOf(closed, ids, k) = Open(ids, offsets[k])
  <2>1. k \in 1..k
    OBVIOUS
  <2> QED BY <2>1 DEF RangeOf, Open
<1> QED BY <1>4, <1>5, <1>6

\* The frontier is a row, or one past the last.
LEMMA FrontierRange ==
  ASSUME TypeOK, CursorsInside, Writing
  PROVE  /\ batch.rows \in Nat /\ Frontier \in 1..(batch.rows + 1)
         /\ pc \in {"edges", "requirements", "clauses", "evidence"} =>
              row \in 1..batch.rows /\ Frontier = row
         /\ pc # "materialize" => Frontier = row
         /\ ValidEvidenceBatch(batch)
         /\ \A r \in 1..(batch.rows + 1) : batch.offsets[r] \in Nat \ {0}
PROOF
<1>1. BatchTypeOK /\ ValidEvidenceBatch(batch)
  BY DEF Writing, TypeOK, CheckedPcs, ResolvingPcs
<1>2. batch.rows \in Nat
  BY <1>1 DEF BatchTypeOK
<1>3. \A r \in 1..(batch.rows + 1) : batch.offsets[r] \in Nat \ {0}
  BY <1>1 DEF ValidEvidenceBatch
<1>4. Frontier \in 1..(batch.rows + 1)
  <2>1. CASE pc = "materialize"
    BY <1>2, <2>1 DEF Frontier
  <2>2. CASE pc # "materialize"
    BY <2>2 DEF Frontier, CursorsInside, Writing
  <2> QED BY <2>1, <2>2
<1>5. pc \in {"edges", "requirements", "clauses", "evidence"} =>
        row \in 1..batch.rows /\ Frontier = row
  BY DEF TypeOK, Rows, Frontier
<1> QED BY <1>1, <1>2, <1>3, <1>4, <1>5 DEF Frontier

\* No cursor is in use before the first call.
LEMMA InitCursors == Init => CursorsInside
BY DEF Init, CursorsInside, ResolvingPcs

\* Every step leaves its cursors within what they run over.
LEMMA NextCursors == TypeOK /\ CursorsInside /\ [Next]_vars => CursorsInside'
PROOF
<1> SUFFICES ASSUME TypeOK, CursorsInside, [Next]_vars PROVE CursorsInside'
  OBVIOUS
<1>1. CASE Submit
  BY <1>1 DEF Submit, RejectInput, BuildInto, CursorsInside, ResolvingPcs
<1>2. CASE \/ EnsureCapacity \/ CheckShapes \/ ExecuteField \/ ExecuteEvidence \/ ExecuteAll
           \/ BeginMaterialize \/ MaterializeRow \/ Return
  BY <1>2
  DEF EnsureCapacity, CheckShapes, Fail, ExecuteField, ExecuteEvidence, ExecuteAll, Executing,
      Executed, BeginMaterialize, MaterializeRow, Return, CursorsInside, ResolvingPcs
<1>3. CASE ResetResults
  <2>1. pc' = "row" /\ row' = 1 /\ batch' = batch /\ batch.rows \in Nat
    BY <1>3 DEF ResetResults, TypeOK, BatchTypeOK
  <2> QED BY <2>1 DEF CursorsInside
<1>4. CASE ResolveSemantics \/ ResolveEdge
  <2>1. pc \in ResolvingPcs /\ pc' = "edges" /\ UNCHANGED <<batch, row>>
    BY <1>4 DEF ResolveSemantics, ResolveEdge, ResolvingPcs
  <2> QED BY <2>1 DEF CursorsInside
<1>5. CASE BeginRequirements
  <2>1. pc \in ResolvingPcs /\ pc' = "requirements" /\ UNCHANGED <<batch, row>> /\ requirement' = 1
    BY <1>5 DEF BeginRequirements, ResolvingPcs
  <2> QED BY <2>1, ProgramShape DEF CursorsInside
<1>6. CASE SelectRequirement
  <2>1. /\ pc = "requirements" /\ UNCHANGED <<batch, row>> /\ requirement \in DOMAIN Requirements
        /\ \/ pc' = "clauses" /\ requirement' = requirement
           \/ pc' = "requirements" /\ requirement' = requirement + 1
    BY <1>6 DEF SelectRequirement
  <2>2. requirement + 1 <= Len(Requirements) + 1
    BY <2>1, ProgramShape
  <2> QED BY <2>1, <2>2 DEF CursorsInside, ResolvingPcs
<1>7. CASE ResolveClause
  BY <1>7 DEF ResolveClause, CursorsInside, ResolvingPcs
<1>8. CASE NextRequirement
  <2>1. /\ pc = "clauses" /\ UNCHANGED <<batch, row>> /\ pc' = "requirements"
        /\ requirement' = requirement + 1
    BY <1>8 DEF NextRequirement
  <2>2. requirement + 1 <= Len(Requirements) + 1
    BY <2>1, ProgramShape DEF CursorsInside
  <2> QED BY <2>1, <2>2 DEF CursorsInside, ResolvingPcs
<1>9. CASE FinishRequirements
  <2>1. /\ pc = "requirements" /\ UNCHANGED <<batch, row, requirement>> /\ pc' = "evidence"
        /\ requirement \notin DOMAIN Requirements /\ edge' = batch.offsets[row]
    BY <1>9 DEF FinishRequirements
  <2>2. row \in Rows /\ BatchTypeOK /\ ValidEvidenceBatch(batch)
    BY <2>1 DEF TypeOK, CheckedPcs, ResolvingPcs
  <2>3. row \in 1..batch.rows /\ row \in 1..(batch.rows + 1) /\ row + 1 \in 1..(batch.rows + 1)
    BY <2>2 DEF Rows, BatchTypeOK
  <2>4. batch.offsets[row] <= batch.offsets[row + 1] /\ batch.offsets[row] \in Nat
    BY <2>2, <2>3 DEF ValidEvidenceBatch
  <2> QED BY <2>1, <2>3, <2>4 DEF CursorsInside
<1>10. CASE ResolveEvidence
  <2>1. /\ pc = "evidence" /\ UNCHANGED <<pc, batch, row, requirement>>
        /\ edge \in RowEdges(batch, row) /\ edge' = edge + 1
    BY <1>10 DEF ResolveEvidence
  <2>2. batch.offsets[row] \in Nat /\ batch.offsets[row + 1] \in Nat
    BY <2>1, RowEdgesType DEF TypeOK, ResolvingPcs
  <2>3. batch.offsets[row] <= edge + 1 /\ edge + 1 <= batch.offsets[row + 1]
    BY <2>1, <2>2 DEF RowEdges
  <2> QED BY <2>1, <2>3 DEF CursorsInside
<1>11. CASE FinishRow
  <2>1. pc = "evidence" /\ UNCHANGED batch /\ pc' = "row" /\ row' = row + 1
    BY <1>11 DEF FinishRow
  <2>2. row \in Rows /\ BatchTypeOK
    BY <2>1 DEF TypeOK
  <2>3. row + 1 \in 1..(batch.rows + 1)
    BY <2>2 DEF Rows, BatchTypeOK
  <2> QED BY <2>1, <2>3 DEF CursorsInside
<1>12. CASE UNCHANGED vars
  BY <1>12 DEF vars, cursors, CursorsInside
<1> QED BY <1>1, <1>2, <1>3, <1>4, <1>5, <1>6, <1>7, <1>8, <1>9, <1>10, <1>11, <1>12
        DEF Next, Evaluate, ResolveRow

-----------------------------------------------------------------------------
(* The evidence column.                                                    *)

\* Records attached to row r of batch b, each once.
IsUsed(used, b, r) ==
  /\ Distinct(used)
  /\ \A k \in DOMAIN used : used[k] # 0 /\ \E e \in RowEdges(b, r) : b.refs[e] = used[k]

\* The records the current row has appended.
UsedRefs == Open(evRefs, evOffsets[row])

\* Finished rows own their records; the row being resolved has appended at
\* most one per edge it has visited.
EvidenceColumn ==
  Writing =>
    /\ evRefs \in Seq(Nat)
    /\ Ascends(evOffsets, evRefs, batch.rows, Frontier)
    /\ pc # "evidence" => /\ evOffsets[Frontier] = Len(evRefs)
                          /\ Len(evRefs) < batch.offsets[Frontier]
    /\ pc = "evidence" => Len(evRefs) < edge /\ IsUsed(UsedRefs, batch, row)
    /\ \A r \in Rows : r < Frontier => IsUsed(RangeOf(evOffsets, evRefs, r), batch, r)

\* Steps that touch neither the column nor the frontier.
LEMMA EvidenceFrame ==
  ASSUME EvidenceColumn, Writing, UNCHANGED <<batch, evRefs, evOffsets>>, Frontier' = Frontier,
         pc # "evidence", pc' # "evidence"
  PROVE  EvidenceColumn'
BY DEF EvidenceColumn, IsUsed, Rows

\* One more record keeps the row's records attached and distinct.
LEMMA UsedGrows ==
  ASSUME NEW used, NEW more, NEW n \in Nat, DOMAIN used = 1..n, DOMAIN more = 1..(n + 1),
         \A k \in 1..n : more[k] = used[k], \A k \in 1..n : used[k] # more[n + 1],
         NEW b, NEW r, IsUsed(used, b, r), \E e \in RowEdges(b, r) : b.refs[e] = more[n + 1],
         more[n + 1] # 0
  PROVE  IsUsed(more, b, r)
PROOF
<1>1. \A k \in DOMAIN more : k \in 1..n \/ k = n + 1
  OBVIOUS
<1>2. \A k \in DOMAIN more : more[k] # 0 /\ \E e \in RowEdges(b, r) : b.refs[e] = more[k]
  BY <1>1 DEF IsUsed
<1>3. Distinct(more)
  <2>1. \A j, k \in 1..n : j # k => more[j] # more[k]
    BY DEF IsUsed, Distinct
  <2> QED BY <1>1, <2>1 DEF Distinct
<1> QED BY <1>2, <1>3 DEF IsUsed

\* The evidence column of a fresh result: no records, all offsets zero.
LEMMA EvidenceStarts ==
  ASSUME TypeOK, ResetResults
  PROVE  EvidenceColumn'
PROOF
<1>1. /\ pc' = "row" /\ row' = 1 /\ batch' = batch /\ evRefs' = <<>>
      /\ evOffsets' = [k \in 1..(batch.rows + 1) |-> 0]
      /\ ValidEvidenceBatch(batch) /\ batch.rows \in Nat
  BY DEF ResetResults, ResizeClear, TypeOK, BatchTypeOK, CheckedPcs
<1>2. Frontier' = 1 /\ 1 \in 1..(batch.rows + 1) /\ Rows' \subseteq Nat \ {0}
  BY <1>1 DEF Frontier, Rows
<1>3. Ascends(evOffsets, evRefs, batch.rows, Frontier)' /\ evOffsets'[1] = Len(evRefs')
  BY <1>1, <1>2 DEF Ascends
<1>4. Len(evRefs') < batch.offsets[1]
  BY <1>1, <1>2 DEF ValidEvidenceBatch
<1>5. evRefs' \in Seq(Nat) /\ \A r \in Rows' : ~(r < 1)
  BY <1>1, <1>2
<1> QED BY <1>1, <1>2, <1>3, <1>4, <1>5 DEF EvidenceColumn

\* A row's range of records opens where the last one ended.
LEMMA EvidenceBegins ==
  ASSUME TypeOK, CursorsInside, EvidenceColumn, FinishRequirements
  PROVE  EvidenceColumn'
PROOF
<1>1. /\ pc = "requirements" /\ pc' = "evidence" /\ UNCHANGED <<batch, row, evRefs>>
      /\ evOffsets' = [evOffsets EXCEPT ![row] = Len(evRefs)] /\ edge' = batch.offsets[row]
  BY DEF FinishRequirements
<1>2. Writing /\ Frontier = row /\ Frontier' = row
  BY <1>1 DEF Writing, ResolvingPcs, Frontier
<1>3. /\ evRefs \in Seq(Nat) /\ Ascends(evOffsets, evRefs, batch.rows, row)
      /\ evOffsets[row] = Len(evRefs) /\ Len(evRefs) < batch.offsets[row]
      /\ \A r \in Rows : r < row => IsUsed(RangeOf(evOffsets, evRefs, r), batch, r)
  BY <1>1, <1>2 DEF EvidenceColumn
<1>4. evOffsets' = evOffsets
  BY <1>1, <1>3 DEF Ascends
<1>5. UsedRefs' = <<>>
  BY <1>1, <1>3, <1>4, OpenEmpty DEF UsedRefs
<1>6. IsUsed(UsedRefs, batch, row)'
  BY <1>5 DEF IsUsed, Distinct
<1>7. \A r \in Rows' : r < row => IsUsed(RangeOf(evOffsets, evRefs, r), batch, r)'
  <2>1. Rows' = Rows
    BY <1>1 DEF Rows
  <2> QED BY <1>1, <1>3, <1>4, <2>1
<1> QED BY <1>1, <1>2, <1>3, <1>4, <1>6, <1>7 DEF EvidenceColumn

\* An edge adds its record at most once, and at most one record per edge.
LEMMA EvidenceAppends ==
  ASSUME TypeOK, Linked, CursorsInside, EvidenceColumn, ResolveEvidence
  PROVE  EvidenceColumn'
PROOF
<1> DEFINE ref == batch.refs[edge]
<1>1. /\ pc = "evidence" /\ pc' = "evidence" /\ UNCHANGED <<batch, row, evOffsets>>
      /\ edge' = edge + 1 /\ edge \in RowEdges(batch, row)
      /\ \/ evRefs' = evRefs
         \/ evRefs' = Append(evRefs, ref) /\ ref # 0 /\ ~Duplicate(ref)
  BY DEF ResolveEvidence
<1>2. Writing /\ Writing' /\ Frontier = row /\ Frontier' = row
  BY <1>1 DEF Writing, ResolvingPcs, Frontier
<1>3. /\ batch.rows \in Nat /\ row \in 1..batch.rows /\ ValidEvidenceBatch(batch)
      /\ row \in 1..(batch.rows + 1) /\ row + 1 \in 1..(batch.rows + 1)
      /\ \A r \in 1..(batch.rows + 1) : batch.offsets[r] \in Nat \ {0}
  BY <1>1, <1>2, FrontierRange
<1>4. /\ evRefs \in Seq(Nat) /\ Ascends(evOffsets, evRefs, batch.rows, row)
      /\ Len(evRefs) < edge /\ IsUsed(UsedRefs, batch, row)
      /\ \A r \in Rows : r < row => IsUsed(RangeOf(evOffsets, evRefs, r), batch, r)
  BY <1>1, <1>2 DEF EvidenceColumn
<1>5. edge \in Nat /\ Len(evRefs) \in Nat /\ ref \in Nat
  <2>1. /\ batch.offsets[row] \in Nat \ {0} /\ batch.offsets[row + 1] \in Nat
        /\ batch.offsets[row + 1] <= Len(batch.refs) + 1 /\ Len(batch.refs) \in Nat
        /\ batch.refs \in [1..Len(batch.refs) -> Nat]
    <3>1. Len(batch.refs) \in Nat /\ batch.refs \in [1..Len(batch.refs) -> Nat]
      BY <1>1, BatchOfPack
    <3>2. batch.offsets[row + 1] \in 1..(Len(batch.refs) + 1)
      BY <1>3 DEF ValidEvidenceBatch
    <3> QED BY <1>3, <3>1, <3>2
  <2>2. edge \in 1..Len(batch.refs)
    BY <1>1, <2>1 DEF RowEdges
  <2> QED BY <1>4, <2>1, <2>2, LenProperties
<1>6. CASE evRefs' = evRefs
  <2>1. Len(evRefs') < edge' /\ UsedRefs' = UsedRefs
    BY <1>1, <1>4, <1>5, <1>6 DEF UsedRefs
  <2>2. \A r \in Rows' : r < row => IsUsed(RangeOf(evOffsets, evRefs, r), batch, r)'
    BY <1>1, <1>4, <1>6 DEF Rows
  <2>3. IsUsed(UsedRefs, batch, row)'
    BY <1>1, <1>4, <2>1
  <2> QED BY <1>1, <1>2, <1>4, <1>6, <2>1, <2>2, <2>3 DEF EvidenceColumn
<1>7. CASE evRefs' = Append(evRefs, ref) /\ ref # 0 /\ ~Duplicate(ref)
  <2>1. PICK more : more = Append(evRefs, ref)
    OBVIOUS
  <2>2. PICK a : a = evOffsets[row]
    OBVIOUS
  <2>3. /\ more \in Seq(Nat) /\ Len(more) = Len(evRefs) + 1 /\ Len(evRefs) <= Len(more)
        /\ \A i \in 1..Len(evRefs) : more[i] = evRefs[i]
    BY <1>4, <1>5, <2>1, AppendProperties
  <2>4. a \in Nat /\ a <= Len(evRefs)
    <3>1. row \in 1..row
      BY <1>3
    <3> QED BY <1>3, <1>4, <2>2, <3>1 DEF Ascends
  <2>5. UsedRefs = Open(evRefs, a) /\ UsedRefs' = Open(more, a) /\ evRefs' = more
    BY <1>1, <1>7, <2>1, <2>2 DEF UsedRefs
  <2>6. PICK n : n = Len(UsedRefs)
    OBVIOUS
  <2>7. /\ n \in Nat /\ DOMAIN UsedRefs = 1..n /\ DOMAIN Open(more, a) = 1..(n + 1)
        /\ \A k \in 1..n : Open(more, a)[k] = UsedRefs[k]
        /\ Open(more, a)[n + 1] = ref
    <3>1. /\ Len(Open(evRefs, a)) \in Nat /\ DOMAIN Open(evRefs, a) = 1..Len(Open(evRefs, a))
          /\ DOMAIN Open(Append(evRefs, ref), a) = 1..(Len(Open(evRefs, a)) + 1)
          /\ \A k \in 1..Len(Open(evRefs, a)) :
                Open(Append(evRefs, ref), a)[k] = Open(evRefs, a)[k]
          /\ Open(Append(evRefs, ref), a)[Len(Open(evRefs, a)) + 1] = ref
      BY SMTT(40), <1>4, <1>5, <2>4, OpenGrows
    <3>2. n = Len(Open(evRefs, a)) /\ UsedRefs = Open(evRefs, a) BY <2>5, <2>6
    <3> QED BY <2>1, <3>1, <3>2
  <2>8. \A k \in 1..n : UsedRefs[k] # ref
    <3> SUFFICES ASSUME NEW k \in 1..n PROVE UsedRefs[k] # ref
      OBVIOUS
    <3>1. n = Len(evRefs) - a /\ UsedRefs = [i \in 1..(Len(evRefs) - a) |-> evRefs[a + i]]
      BY <1>4, <2>4, <2>5, <2>6, OpenSlice
    <3>2. UsedRefs[k] = evRefs[a + k] /\ a + k \in (a + 1)..Len(evRefs)
      BY <1>5, <2>4, <3>1
    <3> QED BY <1>7, <2>2, <3>2 DEF Duplicate
  <2>9. IsUsed(UsedRefs', batch, row)
    <3>1. \A k \in 1..n : UsedRefs[k] # Open(more, a)[n + 1]
      BY <2>7, <2>8
    <3>2. \E e \in RowEdges(batch, row) : batch.refs[e] = Open(more, a)[n + 1]
      BY <1>1, <2>7
    <3>3. Open(more, a)[n + 1] # 0
      BY <1>7, <2>7
    <3> QED BY <1>4, <2>5, <2>7, <3>1, <3>2, <3>3, UsedGrows
  <2>10. /\ Ascends(evOffsets, more, batch.rows, row)
         /\ \A r \in 1..batch.rows : r < row =>
              RangeOf(evOffsets, more, r) = RangeOf(evOffsets, evRefs, r)
    <3>1. PICK m, k : m = batch.rows /\ k = row
      OBVIOUS
    <3>2. /\ m \in Nat /\ k \in 1..(m + 1) /\ Ascends(evOffsets, evRefs, m, k)
          /\ evRefs \in Seq(Nat) /\ more \in Seq(Nat) /\ Continues(more, evRefs)
      BY <1>3, <1>4, <2>3, <3>1 DEF Continues
    <3>3. /\ Ascends(evOffsets, more, m, k)
          /\ \A r \in 1..m : r < k => RangeOf(evOffsets, more, r) = RangeOf(evOffsets, evRefs, r)
      BY <3>2, IdsGrow
    <3> QED BY <3>1, <3>3
  <2>11. \A r \in Rows' : r < row => IsUsed(RangeOf(evOffsets, evRefs, r), batch, r)'
    BY <1>1, <1>4, <2>5, <2>10 DEF Rows
  <2>12. evRefs' \in Seq(Nat) /\ Len(evRefs') < edge'
    BY <1>1, <1>4, <1>5, <2>3, <2>5
  <2>13. Ascends(evOffsets', evRefs', batch'.rows, Frontier')
    BY <1>1, <1>2, <2>5, <2>10
  <2> QED BY <1>1, <1>2, <2>9, <2>11, <2>12, <2>13 DEF EvidenceColumn
<1> QED BY <1>1, <1>6, <1>7

\* Finishing a row closes its range, and the next opens there.
LEMMA EvidenceCloses ==
  ASSUME TypeOK, CursorsInside, EvidenceColumn, FinishRow
  PROVE  EvidenceColumn'
PROOF
<1>1. /\ pc = "evidence" /\ pc' = "row" /\ UNCHANGED <<batch, evRefs>> /\ row' = row + 1
      /\ evOffsets' = [evOffsets EXCEPT ![row + 1] = Len(evRefs)]
      /\ edge \notin RowEdges(batch, row)
  BY DEF FinishRow
<1>2. Writing /\ Frontier = row /\ Frontier' = row + 1
  BY <1>1 DEF Writing, ResolvingPcs, Frontier
<1>3. /\ batch.rows \in Nat /\ row \in 1..batch.rows
      /\ row + 1 \in 1..(batch.rows + 1)
      /\ batch.offsets[row + 1] \in Nat
  BY <1>1, <1>2, FrontierRange
<1>4. /\ evRefs \in Seq(Nat) /\ Ascends(evOffsets, evRefs, batch.rows, row)
      /\ Len(evRefs) < edge /\ IsUsed(UsedRefs, batch, row)
      /\ \A r \in Rows : r < row => IsUsed(RangeOf(evOffsets, evRefs, r), batch, r)
  BY <1>1, <1>2 DEF EvidenceColumn
<1>5. Len(evRefs) \in Nat /\ edge \in Nat
  BY <1>4, LenProperties DEF TypeOK
<1>6. /\ evOffsets' \in [1..(batch.rows + 1) -> Nat]
      /\ \A r \in 1..row : evOffsets'[r] = evOffsets[r]
      /\ evOffsets'[row + 1] = Len(evRefs)
  <2>1. evOffsets \in [1..(batch.rows + 1) -> Nat]
    BY <1>4 DEF Ascends
  <2>2. \A r \in 1..row : r \in 1..(batch.rows + 1) /\ r # row + 1
    BY <1>3
  <2> QED BY <1>1, <1>3, <1>5, <2>1, <2>2
<1>7. /\ Ascends(evOffsets', evRefs, batch.rows, row + 1)
      /\ \A r \in 1..batch.rows : r < row =>
           RangeOf(evOffsets', evRefs, r) = RangeOf(evOffsets, evRefs, r)
      /\ RangeOf(evOffsets', evRefs, row) = UsedRefs
  <2>1. PICK m, k, closed : m = batch.rows /\ k = row /\ closed = evOffsets'
    OBVIOUS
  <2>2. m \in Nat /\ k \in 1..m /\ Ascends(evOffsets, evRefs, m, k) /\ evRefs \in Seq(Nat)
    BY <1>3, <1>4, <2>1
  <2>3. Closes(closed, evOffsets, evRefs, m, k)
    BY <1>3, <1>4, <1>6, <2>1 DEF Closes
  <2>4. /\ Ascends(closed, evRefs, m, k + 1)
        /\ \A r \in 1..m : r < k => RangeOf(closed, evRefs, r) = RangeOf(evOffsets, evRefs, r)
        /\ RangeOf(closed, evRefs, k) = Open(evRefs, evOffsets[k])
    BY <2>2, <2>3, RowCloses
  <2> QED BY <2>1, <2>4 DEF UsedRefs
<1>8. Len(evRefs) < batch.offsets[row + 1]
  BY <1>1, <1>3, <1>4, <1>5 DEF CursorsInside
<1>9. \A r \in Rows' : r < row + 1 => IsUsed(RangeOf(evOffsets, evRefs, r), batch, r)'
  <2> SUFFICES ASSUME NEW r \in 1..batch.rows, r < row + 1
               PROVE  IsUsed(RangeOf(evOffsets', evRefs, r), batch, r)
    BY <1>1 DEF Rows
  <2>1. CASE r = row
    BY <1>4, <1>7, <2>1
  <2>2. CASE r # row
    <3>1. r < row
      BY <1>3, <2>2
    <3> QED BY <1>4, <1>7, <3>1 DEF Rows
  <2> QED BY <2>1, <2>2
<1> QED BY <1>1, <1>2, <1>4, <1>6, <1>7, <1>8, <1>9 DEF EvidenceColumn

\* Every step keeps the column of records.
LEMMA NextEvidenceColumn ==
  TypeOK /\ Linked /\ CursorsInside /\ EvidenceColumn /\ [Next]_vars => EvidenceColumn'
PROOF
<1> SUFFICES ASSUME TypeOK, Linked, CursorsInside, EvidenceColumn, [Next]_vars
             PROVE  EvidenceColumn'
  OBVIOUS
<1>1. CASE \/ Submit \/ EnsureCapacity \/ CheckShapes
           \/ ExecuteField \/ ExecuteEvidence \/ ExecuteAll \/ Return
  <2>1. ~Writing'
    BY <1>1
    DEF Submit, RejectInput, BuildInto, EnsureCapacity, CheckShapes, Fail, ExecuteField,
        ExecuteEvidence, ExecuteAll, Executing, Executed, Return, Writing, ResolvingPcs
  <2> QED BY <2>1 DEF EvidenceColumn
<1>2. CASE \/ ResolveSemantics \/ ResolveEdge \/ BeginRequirements \/ SelectRequirement
           \/ ResolveClause \/ NextRequirement
  BY <1>2, EvidenceFrame
  DEF ResolveSemantics, ResolveEdge, BeginRequirements, SelectRequirement, ResolveClause,
      NextRequirement, numeric, columns, Writing, ResolvingPcs, Frontier
<1>3. CASE BeginMaterialize
  <2>1. CASE pc' = "idle"
    BY <2>1 DEF EvidenceColumn, Writing, ResolvingPcs
  <2>2. CASE pc' = "materialize"
    <3>1. pc = "row" /\ row \notin Rows /\ UNCHANGED <<batch, evRefs, evOffsets>> /\ Writing
      BY <1>3 DEF BeginMaterialize, numeric, columns, Writing, ResolvingPcs
    <3>2. row = batch.rows + 1
      BY <3>1, FrontierRange DEF Frontier, Rows
    <3> QED BY <2>2, <3>1, <3>2, EvidenceFrame DEF Frontier
  <2> QED BY <1>3, <2>1, <2>2 DEF BeginMaterialize, Fail
<1>4. CASE MaterializeRow
  <2>1. CASE pc' = "idle"
    BY <2>1 DEF EvidenceColumn, Writing, ResolvingPcs
  <2>2. CASE pc' = "materialize"
    BY <1>4, <2>2, EvidenceFrame DEF MaterializeRow, numeric, columns, Writing, Frontier
  <2> QED BY <1>4, <2>1, <2>2 DEF MaterializeRow, Fail
<1>5. CASE UNCHANGED vars
  BY <1>5 DEF vars, cursors, numeric, columns, EvidenceColumn, Writing, Frontier, IsUsed, UsedRefs,
              Rows
<1> QED BY <1>1, <1>2, <1>3, <1>4, <1>5, EvidenceStarts, EvidenceBegins, EvidenceAppends,
           EvidenceCloses
        DEF Next, Evaluate, ResolveRow

-----------------------------------------------------------------------------
(* The requirement column.                                                 *)

\* The sequence lists the members of a set of naturals upwards.
Lists(ids, wanted) == Increasing(ids) /\ {ids[k] : k \in DOMAIN ids} = wanted

\* The requirements that apply to row r, and those of them before a bound.
Governing(r) == {q \in DOMAIN Requirements : Applicable(q, r)}
GoverningBelow(r, bound) == {q \in Governing(r) : q < bound}

\* Rows before this one have their requirements.
Listed == IF pc = "evidence" THEN row + 1 ELSE Frontier

\* Requirements before this one have been selected for the current row.
Reach == IF pc = "clauses" THEN requirement + 1 ELSE requirement

\* Finished rows list the requirements that apply to them; the row being
\* resolved lists those it has reached.
RequirementsColumn ==
  Writing =>
    /\ reqIds \in Seq(Nat)
    /\ Ascends(reqOffsets, reqIds, batch.rows, Listed)
    /\ pc \notin {"requirements", "clauses"} =>
         reqOffsets[Listed] = Len(reqIds) /\ Len(reqIds) <= (Listed - 1) * Len(Requirements)
    /\ pc \in {"requirements", "clauses"} =>
         /\ Len(reqIds) <= (row - 1) * Len(Requirements) + (Reach - 1)
         /\ Lists(Open(reqIds, reqOffsets[row]), GoverningBelow(row, Reach))
    /\ \A r \in Rows : r < Listed => Lists(RangeOf(reqOffsets, reqIds, r), Governing(r))

\* What governs a row only depends on the planes.
LEMMA GoverningFrame ==
  ASSUME UNCHANGED context
  PROVE  /\ \A r : Governing(r)' = Governing(r)
         /\ \A r, bound : GoverningBelow(r, bound)' = GoverningBelow(r, bound)
BY DEF context, Governing, GoverningBelow, Applicable

\* Steps that touch neither the column nor what it has reached.
LEMMA RequirementsStay ==
  ASSUME RequirementsColumn, Writing, UNCHANGED <<batch, context, reqIds, reqOffsets>>,
         Listed' = Listed,
         \/ pc \notin {"requirements", "clauses"} /\ pc' \notin {"requirements", "clauses"}
         \/ /\ pc \in {"requirements", "clauses"} /\ pc' \in {"requirements", "clauses"}
            /\ row' = row /\ Reach' = Reach
  PROVE  RequirementsColumn'
PROOF
<1>1. Rows' = Rows
  BY DEF Rows
<1>2. \A r \in Rows' : r < Listed' => Lists(RangeOf(reqOffsets', reqIds', r), Governing(r)')
  BY <1>1, GoverningFrame DEF RequirementsColumn
<1>3. Ascends(reqOffsets, reqIds, batch.rows, Listed)'
  BY DEF RequirementsColumn
<1>4. CASE pc \notin {"requirements", "clauses"} /\ pc' \notin {"requirements", "clauses"}
  BY <1>2, <1>3, <1>4 DEF RequirementsColumn
<1>5. CASE /\ pc \in {"requirements", "clauses"} /\ pc' \in {"requirements", "clauses"}
           /\ row' = row /\ Reach' = Reach
  <2>1. Lists(Open(reqIds', reqOffsets'[row']), GoverningBelow(row', Reach'))
    BY <1>5 DEF RequirementsColumn
  <2>2. GoverningBelow(row', Reach') = GoverningBelow(row, Reach)'
    BY <1>5, GoverningFrame
  <2>3. Len(reqIds') <= (row' - 1) * Len(Requirements) + (Reach' - 1)
    BY <1>5 DEF RequirementsColumn
  <2> QED BY <1>2, <1>3, <1>5, <2>1, <2>2, <2>3 DEF RequirementsColumn
<1> QED BY <1>4, <1>5

\* A larger member goes at the end of the list.
LEMMA ListGrows ==
  ASSUME NEW ids, NEW more, NEW n \in Nat, DOMAIN ids = 1..n, DOMAIN more = 1..(n + 1),
         \A k \in 1..n : more[k] = ids[k],
         NEW wanted \in SUBSET Nat, NEW id \in Nat, more[n + 1] = id,
         Lists(ids, wanted), \A q \in wanted : q < id
  PROVE  Lists(more, wanted \cup {id})
PROOF
<1>1. \A k \in DOMAIN more : k \in 1..n \/ k = n + 1
  OBVIOUS
<1>2. \A k \in 1..n : ids[k] \in wanted
  BY DEF Lists
<1>3. Increasing(more)
  <2> SUFFICES ASSUME NEW j \in 1..(n + 1), NEW k \in 1..(n + 1), j < k
               PROVE  more[j] < more[k]
    BY DEF Increasing
  <2>1. j \in 1..n
    OBVIOUS
  <2>2. CASE k = n + 1
    BY <1>2, <2>1, <2>2
  <2>3. CASE k # n + 1
    <3>1. k \in 1..n
      BY <2>3
    <3> QED BY <2>1, <3>1 DEF Lists, Increasing
  <2> QED BY <2>2, <2>3
<1>4. {more[k] : k \in DOMAIN more} = wanted \cup {id}
  <2>1. {more[k] : k \in DOMAIN more} = {more[k] : k \in 1..n} \cup {more[n + 1]}
    OBVIOUS
  <2>2. {more[k] : k \in 1..n} = {ids[k] : k \in DOMAIN ids}
    OBVIOUS
  <2> QED BY <2>1, <2>2 DEF Lists
<1> QED BY <1>3, <1>4 DEF Lists

\* The requirement column of a fresh result: no IDs, all offsets zero.
LEMMA RequirementsStart ==
  ASSUME TypeOK, ResetResults
  PROVE  RequirementsColumn'
PROOF
<1>1. /\ pc' = "row" /\ row' = 1 /\ batch' = batch /\ reqIds' = <<>>
      /\ reqOffsets' = [k \in 1..(batch.rows + 1) |-> 0]
      /\ batch.rows \in Nat
  BY DEF ResetResults, ResizeClear, TypeOK, BatchTypeOK, CheckedPcs
<1>2. Listed' = 1 /\ 1 \in 1..(batch.rows + 1) /\ Rows' \subseteq Nat \ {0}
  BY <1>1 DEF Listed, Frontier, Rows
<1>3. Ascends(reqOffsets', reqIds', batch'.rows, Listed') /\ reqOffsets'[1] = Len(reqIds')
  BY <1>1, <1>2 DEF Ascends
<1>4. Len(reqIds') <= (Listed' - 1) * Len(Requirements)
  <2>1. (1 - 1) * Len(Requirements) = 0
    BY ProgramShape
  <2> QED BY <1>1, <1>2, <2>1
<1>5. reqIds' \in Seq(Nat) /\ \A r \in Rows' : ~(r < 1)
  BY <1>1, <1>2
<1> QED BY <1>1, <1>2, <1>3, <1>4, <1>5 DEF RequirementsColumn

\* The row starts its list where the column ends.
LEMMA RequirementsBegin ==
  ASSUME TypeOK, CursorsInside, RequirementsColumn, BeginRequirements
  PROVE  RequirementsColumn'
PROOF
<1>1. /\ pc = "edges" /\ pc' = "requirements" /\ requirement' = 1
      /\ UNCHANGED <<batch, row, reqIds, context>>
      /\ reqOffsets' = [reqOffsets EXCEPT ![row] = Len(reqIds)]
  BY DEF BeginRequirements
<1>2. Writing /\ Listed = row /\ Listed' = row /\ Reach' = 1
  BY <1>1 DEF Writing, ResolvingPcs, Listed, Frontier, Reach
<1>3. /\ reqIds \in Seq(Nat) /\ Ascends(reqOffsets, reqIds, batch.rows, row)
      /\ reqOffsets[row] = Len(reqIds) /\ Len(reqIds) <= (row - 1) * Len(Requirements)
      /\ \A r \in Rows : r < row => Lists(RangeOf(reqOffsets, reqIds, r), Governing(r))
  BY <1>1, <1>2 DEF RequirementsColumn
<1>4. reqOffsets' = reqOffsets
  BY <1>1, <1>3 DEF Ascends
<1>5. Open(reqIds, reqOffsets[row]) = <<>>
  BY <1>3, OpenEmpty
<1>6. \A q \in DOMAIN Requirements : ~(q < 1)
  BY ProgramShape
<1>7. GoverningBelow(row, Reach)' = {}
  BY <1>2, <1>6 DEF GoverningBelow, Governing
<1>8. Lists(<<>>, {})
  BY DEF Lists, Increasing
<1>9. Len(reqIds') <= (row' - 1) * Len(Requirements) + (Reach' - 1)
  <2>1. PICK n : n = (row - 1) * Len(Requirements)
    OBVIOUS
  <2>2. row \in Nat /\ Len(Requirements) \in Nat
    BY ProgramShape DEF TypeOK
  <2>3. n \in Int
    BY <2>1, <2>2
  <2>4. Len(reqIds) <= n + (1 - 1)
    BY <1>3, <2>1, <2>3, LenProperties
  <2> QED BY <1>1, <1>2, <2>1, <2>4
<1>10. \A r \in Rows' : r < row => Lists(RangeOf(reqOffsets', reqIds', r), Governing(r)')
  BY <1>1, <1>3, <1>4, GoverningFrame DEF Rows
<1> QED BY <1>1, <1>2, <1>3, <1>4, <1>5, <1>7, <1>8, <1>9, <1>10 DEF RequirementsColumn

\* A requirement that does not apply is passed over.
LEMMA RequirementsSkip ==
  ASSUME TypeOK, RequirementsColumn, SelectRequirement, ~Applicable(requirement, row)
  PROVE  RequirementsColumn'
PROOF
<1>1. /\ pc = "requirements" /\ pc' = "requirements" /\ requirement' = requirement + 1
      /\ UNCHANGED <<batch, row, reqIds, reqOffsets, context>>
  BY DEF SelectRequirement
<1>2. Writing /\ Listed = row /\ Listed' = row /\ Reach = requirement /\ Reach' = requirement + 1
  BY <1>1 DEF Writing, ResolvingPcs, Listed, Frontier, Reach
<1>3. /\ reqIds \in Seq(Nat) /\ Ascends(reqOffsets, reqIds, batch.rows, row)
      /\ Len(reqIds) <= (row - 1) * Len(Requirements) + (requirement - 1)
      /\ Lists(Open(reqIds, reqOffsets[row]), GoverningBelow(row, requirement))
      /\ \A r \in Rows : r < row => Lists(RangeOf(reqOffsets, reqIds, r), Governing(r))
  BY <1>1, <1>2 DEF RequirementsColumn
<1>4. requirement \in Nat /\ row \in Nat /\ Len(Requirements) \in Nat /\ Len(reqIds) \in Nat
      /\ DOMAIN Requirements \subseteq Nat
  BY <1>3, ProgramShape, LenProperties DEF TypeOK
<1>5. GoverningBelow(row, requirement + 1) = GoverningBelow(row, requirement)
  BY <1>4 DEF GoverningBelow, Governing
<1>6. Len(reqIds') <= (row' - 1) * Len(Requirements) + (Reach' - 1)
  <2>1. PICK n : n = (row - 1) * Len(Requirements)
    OBVIOUS
  <2>2. n \in Int
    BY <1>4, <2>1
  <2>3. Len(reqIds) <= n + ((requirement + 1) - 1)
    BY <1>3, <1>4, <2>1, <2>2
  <2> QED BY <1>1, <1>2, <2>1, <2>3
<1>7. \A r \in Rows' : r < row => Lists(RangeOf(reqOffsets', reqIds', r), Governing(r)')
  BY <1>1, <1>3, GoverningFrame DEF Rows
<1>8. GoverningBelow(row', Reach') = GoverningBelow(row, requirement)
  BY <1>1, <1>2, <1>5
<1>9. GoverningBelow(row, Reach)' = GoverningBelow(row, requirement)
  BY <1>1, <1>8 DEF GoverningBelow, Governing, Applicable, context
<1> QED BY <1>1, <1>2, <1>3, <1>6, <1>7, <1>9 DEF RequirementsColumn

\* A requirement that applies is appended to the row's list.
LEMMA RequirementsAppend ==
  ASSUME TypeOK, CursorsInside, RequirementsColumn, SelectRequirement,
         Applicable(requirement, row)
  PROVE  RequirementsColumn'
PROOF
<1>1. /\ pc = "requirements" /\ pc' = "clauses" /\ requirement' = requirement
      /\ requirement \in DOMAIN Requirements
      /\ reqIds' = Append(reqIds, requirement)
      /\ UNCHANGED <<batch, row, reqOffsets, context>>
  BY DEF SelectRequirement
<1>2. Writing /\ Listed = row /\ Listed' = row /\ Reach = requirement /\ Reach' = requirement + 1
  BY <1>1 DEF Writing, ResolvingPcs, Listed, Frontier, Reach
<1>3. /\ reqIds \in Seq(Nat) /\ Ascends(reqOffsets, reqIds, batch.rows, row)
      /\ Len(reqIds) <= (row - 1) * Len(Requirements) + (requirement - 1)
      /\ Lists(Open(reqIds, reqOffsets[row]), GoverningBelow(row, requirement))
      /\ \A r \in Rows : r < row => Lists(RangeOf(reqOffsets, reqIds, r), Governing(r))
  BY <1>1, <1>2 DEF RequirementsColumn
<1>4. requirement \in Nat /\ row \in Nat /\ Len(Requirements) \in Nat /\ Len(reqIds) \in Nat
      /\ DOMAIN Requirements \subseteq Nat
  BY <1>3, ProgramShape, LenProperties DEF TypeOK
<1>5. batch.rows \in Nat /\ row \in 1..batch.rows /\ row \in 1..(batch.rows + 1)
  BY <1>1, <1>2, FrontierRange
<1>6. PICK more, a, m, k : /\ more = Append(reqIds, requirement) /\ a = reqOffsets[row]
                           /\ m = batch.rows /\ k = row
  OBVIOUS
<1>7. /\ more \in Seq(Nat) /\ Len(more) = Len(reqIds) + 1 /\ Len(reqIds) <= Len(more)
      /\ \A i \in 1..Len(reqIds) : more[i] = reqIds[i]
  BY <1>3, <1>4, <1>6, AppendProperties
<1>8. a \in Nat /\ a <= Len(reqIds)
  <2>1. row \in 1..row
    BY <1>5
  <2> QED BY <1>3, <1>5, <1>6, <2>1 DEF Ascends
<1>9. PICK old, n : old = Open(reqIds, a) /\ n = Len(old)
  OBVIOUS
<1>10. /\ n \in Nat /\ DOMAIN old = 1..n /\ DOMAIN Open(more, a) = 1..(n + 1)
       /\ \A j \in 1..n : Open(more, a)[j] = old[j]
       /\ Open(more, a)[n + 1] = requirement
  BY SMTT(40), <1>3, <1>4, <1>6, <1>8, <1>9, OpenGrows
<1>11. Lists(Open(more, a), GoverningBelow(row, requirement + 1))
  <2> DEFINE wanted == GoverningBelow(row, requirement)
  <2>1. /\ wanted \in SUBSET Nat /\ \A q \in wanted : q < requirement
        /\ GoverningBelow(row, requirement + 1) = wanted \cup {requirement}
    BY <1>1, <1>4 DEF GoverningBelow, Governing
  <2>2. Lists(old, wanted)
    BY <1>3, <1>6, <1>9
  <2> HIDE DEF wanted
  <2>3. PICK new : new = Open(more, a)
    OBVIOUS
  <2>4. Lists(new, wanted \cup {requirement})
    BY <1>4, <1>10, <2>1, <2>2, <2>3, ListGrows
  <2> QED BY <2>1, <2>3, <2>4
<1>12. /\ Ascends(reqOffsets, more, batch.rows, row)
       /\ \A r \in 1..batch.rows : r < row =>
            RangeOf(reqOffsets, more, r) = RangeOf(reqOffsets, reqIds, r)
  <2>1. /\ m \in Nat /\ k \in 1..(m + 1) /\ Ascends(reqOffsets, reqIds, m, k)
        /\ reqIds \in Seq(Nat) /\ more \in Seq(Nat) /\ Continues(more, reqIds)
    BY <1>3, <1>5, <1>6, <1>7 DEF Continues
  <2>2. /\ Ascends(reqOffsets, more, m, k)
        /\ \A r \in 1..m : r < k => RangeOf(reqOffsets, more, r) = RangeOf(reqOffsets, reqIds, r)
    BY <2>1, IdsGrow
  <2> QED BY <1>6, <2>2
<1>13. Len(reqIds') <= (row' - 1) * Len(Requirements) + (Reach' - 1)
  <2>1. PICK p : p = (row - 1) * Len(Requirements)
    OBVIOUS
  <2>2. p \in Int
    BY <1>4, <2>1
  <2>3. Len(reqIds) + 1 <= p + ((requirement + 1) - 1)
    BY <1>3, <1>4, <2>1, <2>2
  <2> QED BY <1>1, <1>2, <1>6, <1>7, <2>1, <2>3
<1>14. \A r \in Rows' : r < row => Lists(RangeOf(reqOffsets', reqIds', r), Governing(r)')
  <2>1. Rows' = Rows /\ \A r \in Rows : r \in 1..batch.rows
    BY <1>1 DEF Rows
  <2> QED BY <1>1, <1>3, <1>6, <1>12, <2>1, GoverningFrame
<1>15. GoverningBelow(row, Reach)' = GoverningBelow(row, requirement + 1)
  BY <1>1, <1>2 DEF GoverningBelow, Governing, Applicable, context
<1>16. /\ reqIds' = more /\ reqOffsets'[row'] = a /\ reqIds' \in Seq(Nat)
       /\ Ascends(reqOffsets', reqIds', batch'.rows, Listed')
  BY <1>1, <1>2, <1>6, <1>7, <1>12
<1>17. Lists(Open(reqIds', reqOffsets'[row']), GoverningBelow(row, Reach)')
  BY <1>11, <1>15, <1>16
<1> QED BY <1>1, <1>2, <1>13, <1>14, <1>16, <1>17 DEF RequirementsColumn

\* The row closes its list, and has met every requirement.
LEMMA RequirementsClose ==
  ASSUME TypeOK, CursorsInside, RequirementsColumn, FinishRequirements
  PROVE  RequirementsColumn'
PROOF
<1>1. /\ pc = "requirements" /\ pc' = "evidence" /\ requirement \notin DOMAIN Requirements
      /\ UNCHANGED <<batch, row, reqIds, context>>
      /\ reqOffsets' = [reqOffsets EXCEPT ![row + 1] = Len(reqIds)]
  BY DEF FinishRequirements
<1>2. Writing /\ Listed = row /\ Listed' = row + 1 /\ Reach = requirement
  BY <1>1 DEF Writing, ResolvingPcs, Listed, Frontier, Reach
<1>3. /\ reqIds \in Seq(Nat) /\ Ascends(reqOffsets, reqIds, batch.rows, row)
      /\ Len(reqIds) <= (row - 1) * Len(Requirements) + (requirement - 1)
      /\ Lists(Open(reqIds, reqOffsets[row]), GoverningBelow(row, requirement))
      /\ \A r \in Rows : r < row => Lists(RangeOf(reqOffsets, reqIds, r), Governing(r))
  BY <1>1, <1>2 DEF RequirementsColumn
<1>4. /\ batch.rows \in Nat /\ row \in 1..batch.rows /\ row + 1 \in 1..(batch.rows + 1)
      /\ Len(reqIds) \in Nat
  BY <1>1, <1>2, <1>3, FrontierRange, LenProperties
<1>5. requirement \in Nat /\ requirement = Len(Requirements) + 1
      /\ \A q \in DOMAIN Requirements : q < requirement
  BY <1>1, ProgramShape DEF TypeOK, CursorsInside
<1>6. GoverningBelow(row, requirement) = Governing(row)
  BY <1>5 DEF GoverningBelow, Governing
<1>7. PICK m, k, closed : m = batch.rows /\ k = row /\ closed = reqOffsets'
  OBVIOUS
<1>8. /\ m \in Nat /\ k \in 1..m /\ Ascends(reqOffsets, reqIds, m, k) /\ reqIds \in Seq(Nat)
      /\ Closes(closed, reqOffsets, reqIds, m, k)
  <2>1. reqOffsets \in [1..(batch.rows + 1) -> Nat]
    BY <1>3 DEF Ascends
  <2>2. \A r \in 1..row : r \in 1..(batch.rows + 1) /\ r # row + 1
    BY <1>4
  <2> QED BY <1>1, <1>3, <1>4, <1>7, <2>1, <2>2 DEF Closes
<1>9. /\ Ascends(closed, reqIds, m, k + 1)
      /\ \A r \in 1..m : r < k => RangeOf(closed, reqIds, r) = RangeOf(reqOffsets, reqIds, r)
      /\ RangeOf(closed, reqIds, k) = Open(reqIds, reqOffsets[k])
  BY <1>8, RowCloses
<1>10. \A r \in Rows' : r < row + 1 => Lists(RangeOf(reqOffsets', reqIds', r), Governing(r)')
  <2> SUFFICES ASSUME NEW r \in 1..batch.rows, r < row + 1
               PROVE  Lists(RangeOf(closed, reqIds, r), Governing(r))
    BY <1>1, <1>7, GoverningFrame DEF Rows
  <2>1. CASE r = row
    BY <1>3, <1>6, <1>7, <1>9, <2>1
  <2>2. CASE r # row
    <3>1. r < row
      BY <1>4, <2>2
    <3> QED BY <1>3, <1>7, <1>9, <3>1 DEF Rows
  <2> QED BY <2>1, <2>2
<1>11. Len(reqIds) <= ((row + 1) - 1) * Len(Requirements)
  <2>1. PICK n : n = Len(Requirements)
    OBVIOUS
  <2>2. n \in Nat /\ row \in Nat
    BY <1>4, <2>1, ProgramShape
  <2>3. (row - 1) * n + ((n + 1) - 1) = ((row + 1) - 1) * n
    BY <2>2
  <2> QED BY <1>3, <1>5, <2>1, <2>3
<1> QED BY <1>1, <1>2, <1>3, <1>7, <1>8, <1>9, <1>10, <1>11 DEF RequirementsColumn, Closes

\* Every step keeps the column of requirements.
LEMMA NextRequirementsColumn ==
  TypeOK /\ CursorsInside /\ RequirementsColumn /\ [Next]_vars => RequirementsColumn'
PROOF
<1> SUFFICES ASSUME TypeOK, CursorsInside, RequirementsColumn, [Next]_vars
             PROVE  RequirementsColumn'
  OBVIOUS
<1>1. CASE \/ Submit \/ EnsureCapacity \/ CheckShapes
           \/ ExecuteField \/ ExecuteEvidence \/ ExecuteAll \/ Return
  <2>1. ~Writing'
    BY <1>1
    DEF Submit, RejectInput, BuildInto, EnsureCapacity, CheckShapes, Fail, ExecuteField,
        ExecuteEvidence, ExecuteAll, Executing, Executed, Return, Writing, ResolvingPcs
  <2> QED BY <2>1 DEF RequirementsColumn
<1>2. CASE \/ ResolveSemantics \/ ResolveEdge \/ ResolveClause \/ NextRequirement
           \/ ResolveEvidence
  BY <1>2, RequirementsStay
  DEF ResolveSemantics, ResolveEdge, ResolveClause, NextRequirement, ResolveEvidence,
      numeric, columns, Writing, ResolvingPcs, Listed, Frontier, Reach
<1>3. CASE FinishRow
  <2>1. /\ pc = "evidence" /\ pc' = "row" /\ row' = row + 1
        /\ UNCHANGED <<batch, context, reqIds, reqOffsets>>
    BY <1>3 DEF FinishRow
  <2> QED BY <2>1, RequirementsStay DEF Writing, ResolvingPcs, Listed, Frontier
<1>4. CASE BeginMaterialize
  <2>1. CASE pc' = "idle"
    BY <2>1 DEF RequirementsColumn, Writing, ResolvingPcs
  <2>2. CASE pc' = "materialize"
    <3>1. /\ pc = "row" /\ row \notin Rows /\ Writing
          /\ UNCHANGED <<batch, context, reqIds, reqOffsets>>
      BY <1>4 DEF BeginMaterialize, numeric, columns, Writing, ResolvingPcs
    <3>2. row = batch.rows + 1
      BY <3>1, FrontierRange DEF Frontier, Rows
    <3> QED BY <2>2, <3>1, <3>2, RequirementsStay DEF Listed, Frontier
  <2> QED BY <1>4, <2>1, <2>2 DEF BeginMaterialize, Fail
<1>5. CASE MaterializeRow
  <2>1. CASE pc' = "idle"
    BY <2>1 DEF RequirementsColumn, Writing, ResolvingPcs
  <2>2. CASE pc' = "materialize"
    BY <1>5, <2>2, RequirementsStay DEF MaterializeRow, numeric, columns, Writing, Listed, Frontier
  <2> QED BY <1>5, <2>1, <2>2 DEF MaterializeRow, Fail
<1>6. CASE UNCHANGED vars
  <2>1. UNCHANGED <<batch, context, reqIds, reqOffsets, pc, row, requirement>>
    BY <1>6 DEF vars, cursors, numeric, columns
  <2>2. CASE Writing
    BY <2>1, <2>2, RequirementsStay DEF Listed, Frontier, Reach
  <2>3. CASE ~Writing
    BY <2>1, <2>3 DEF RequirementsColumn, Writing
  <2> QED BY <2>2, <2>3
<1>7. CASE SelectRequirement
  BY <1>7, RequirementsSkip, RequirementsAppend
<1> QED BY <1>1, <1>2, <1>3, <1>4, <1>5, <1>6, <1>7, RequirementsStart, RequirementsBegin,
           RequirementsClose
        DEF Next, Evaluate, ResolveRow

-----------------------------------------------------------------------------
(* The remediation column.                                                 *)

\* Finished rows own the remediations of their drivers.
RemediationsColumn ==
  Writing =>
    /\ remIds \in Seq(Nat)
    /\ Ascends(remOffsets, remIds, batch.rows, Frontier)
    /\ remOffsets[Frontier] = Len(remIds) /\ Len(remIds) <= (Frontier - 1) * Remediations
    /\ \A r \in Rows : r < Frontier =>
         RangeOf(remOffsets, remIds, r) = RemediationsOf(drivers[r])

\* Steps that touch neither the column nor a driver.
LEMMA RemediationsStay ==
  ASSUME RemediationsColumn, Writing, Frontier' = Frontier,
         UNCHANGED <<batch, drivers, remIds, remOffsets>>
  PROVE  RemediationsColumn'
BY DEF RemediationsColumn, Rows

\* A finding's remediations are those of its clause.
LEMMA RemediationsType ==
  ASSUME NEW d, NEW r, IsFinding(d, r)
  PROVE  /\ RemediationsOf(d) \in Seq(1..Remediations)
         /\ RemediationsOf(d) \in Seq(Nat) /\ Len(RemediationsOf(d)) <= Remediations
PROOF
<1>1. Remediations \in Nat
  BY VocabularyAssumption
<1>2. CASE ~(d.outcome = OutcomeRevise /\ d.kind = "clause")
  <2>1. RemediationsOf(d) = <<>>
    BY <1>2 DEF RemediationsOf
  <2>2. <<>> \in Seq(1..Remediations) /\ <<>> \in Seq(Nat)
    OBVIOUS
  <2> QED BY <1>1, <2>1, <2>2
<1>3. CASE d.outcome = OutcomeRevise /\ d.kind = "clause"
  <2>1. PICK k \in DOMAIN Requirements[d.requirement].clauses :
          Requirements[d.requirement].clauses[k] = d.clause
    BY <1>3 DEF IsFinding
  <2>2. Requirements[d.requirement].clauses \in Seq(DOMAIN Clauses)
    BY <1>3, ProgramShape DEF IsFinding
  <2>3. d.clause \in DOMAIN Clauses
    BY <2>1, <2>2
  <2>4. /\ Clauses[d.clause].remediations \in Seq(1..Remediations)
        /\ Len(Clauses[d.clause].remediations) <= Remediations
    BY <2>3, ClauseAssumption DEF IsClause, ValidClause
  <2>5. Clauses[d.clause].remediations \in Seq(Nat)
    BY <1>1, <2>4
  <2> QED BY <1>3, <2>4, <2>5 DEF RemediationsOf
<1> QED BY <1>2, <1>3

\* The remediation column of a fresh result: no IDs, all offsets zero.
LEMMA RemediationsStart ==
  ASSUME TypeOK, ResetResults
  PROVE  RemediationsColumn'
PROOF
<1>1. /\ pc' = "row" /\ row' = 1 /\ batch' = batch /\ remIds' = <<>>
      /\ remOffsets' = [k \in 1..(batch.rows + 1) |-> 0]
      /\ batch.rows \in Nat
  BY DEF ResetResults, ResizeClear, TypeOK, BatchTypeOK, CheckedPcs
<1>2. Frontier' = 1 /\ 1 \in 1..(batch.rows + 1) /\ Rows' \subseteq Nat \ {0}
  BY <1>1 DEF Frontier, Rows
<1>3. Ascends(remOffsets', remIds', batch'.rows, Frontier') /\ remOffsets'[1] = Len(remIds')
  BY <1>1, <1>2 DEF Ascends
<1>4. Len(remIds') <= (Frontier' - 1) * Remediations
  <2>1. (1 - 1) * Remediations = 0
    BY VocabularyAssumption
  <2> QED BY <1>1, <1>2, <2>1
<1>5. remIds' \in Seq(Nat) /\ \A r \in Rows' : ~(r < 1)
  BY <1>1, <1>2
<1> QED BY <1>1, <1>2, <1>3, <1>4, <1>5 DEF RemediationsColumn

\* A finished row appends the remediations of its driver.
LEMMA RemediationsClose ==
  ASSUME TypeOK, CursorsInside, DecisionInv, RemediationsColumn, FinishRow
  PROVE  RemediationsColumn'
PROOF
<1>1. /\ pc = "evidence" /\ pc' = "row" /\ UNCHANGED batch /\ row' = row + 1
      /\ remIds' = remIds \o RemediationsOf(winner)
      /\ remOffsets' = [remOffsets EXCEPT ![row] = Len(remIds), ![row + 1] = Len(remIds')]
      /\ drivers' = [drivers EXCEPT ![row] = winner]
  BY DEF FinishRow
<1>2. Writing /\ Frontier = row /\ Frontier' = row + 1
  BY <1>1 DEF Writing, ResolvingPcs, Frontier
<1>3. /\ remIds \in Seq(Nat) /\ Ascends(remOffsets, remIds, batch.rows, row)
      /\ remOffsets[row] = Len(remIds) /\ Len(remIds) <= (row - 1) * Remediations
      /\ \A r \in Rows : r < row => RangeOf(remOffsets, remIds, r) = RemediationsOf(drivers[r])
  BY <1>1, <1>2 DEF RemediationsColumn
<1>4. /\ batch.rows \in Nat /\ row \in 1..batch.rows /\ row \in 1..(batch.rows + 1)
      /\ row + 1 \in 1..(batch.rows + 1)
  BY <1>1, <1>2, FrontierRange
<1>5. PICK tail, more, m, k, closed :
        /\ tail = RemediationsOf(winner) /\ more = remIds'
        /\ m = batch.rows /\ k = row /\ closed = remOffsets'
  OBVIOUS
<1>6. tail \in Seq(Nat) /\ Len(tail) <= Remediations /\ more = remIds \o tail
  <2>1. IsFinding(winner, row)
    BY <1>1 DEF DecisionInv
  <2> QED BY <1>1, <1>5, <2>1, RemediationsType
<1>7. /\ more \in Seq(Nat) /\ Len(more) = Len(remIds) + Len(tail)
      /\ \A i \in 1..Len(remIds) : more[i] = remIds[i]
      /\ Len(remIds) \in Nat /\ Len(tail) \in Nat /\ Len(more) \in Nat
      /\ Len(remIds) <= Len(more)
  <2>1. more \in Seq(Nat) /\ Len(more) = Len(remIds) + Len(tail)
        /\ \A i \in 1..(Len(remIds) + Len(tail)) :
             more[i] = IF i <= Len(remIds) THEN remIds[i] ELSE tail[i - Len(remIds)]
    BY <1>3, <1>6, ConcatProperties
  <2>2. Len(remIds) \in Nat /\ Len(tail) \in Nat
    BY <1>3, <1>6, LenProperties
  <2> QED BY <2>1, <2>2
<1>8. /\ m \in Nat /\ k \in 1..m /\ k \in 1..(m + 1) /\ remIds \in Seq(Nat)
      /\ Ascends(remOffsets, remIds, m, k)
  BY <1>3, <1>4, <1>5
<1>9. /\ Ascends(remOffsets, more, m, k)
      /\ \A r \in 1..m : r < k => RangeOf(remOffsets, more, r) = RangeOf(remOffsets, remIds, r)
  <2>1. Continues(more, remIds)
    BY <1>7 DEF Continues
  <2> QED BY <1>7, <1>8, <2>1, IdsGrow
<1>10. Closes(closed, remOffsets, more, m, k)
  <2>1. remOffsets \in [1..(batch.rows + 1) -> Nat]
    BY <1>3 DEF Ascends
  <2>2. \A r \in 1..row : r \in 1..(batch.rows + 1) /\ r # row + 1
    BY <1>4
  <2>3. closed = [remOffsets EXCEPT ![row] = Len(remIds), ![row + 1] = Len(more)]
    BY <1>1, <1>5
  <2>4. [remOffsets EXCEPT ![row] = Len(remIds)] = remOffsets
    BY <1>3, <2>1
  <2>5. closed = [remOffsets EXCEPT ![row + 1] = Len(more)]
    BY <2>3, <2>4
  <2> QED BY <1>4, <1>5, <1>7, <2>1, <2>2, <2>5 DEF Closes
<1>11. /\ Ascends(closed, more, m, k + 1)
       /\ \A r \in 1..m : r < k => RangeOf(closed, more, r) = RangeOf(remOffsets, more, r)
       /\ RangeOf(closed, more, k) = Open(more, remOffsets[k])
  BY <1>7, <1>8, <1>9, <1>10, RowCloses
<1>12. Open(more, remOffsets[k]) = tail
  BY <1>3, <1>5, <1>6, RangeOfTail
<1>13. \A r \in 1..batch.rows : r < row + 1 =>
         RangeOf(closed, more, r) = RemediationsOf(drivers'[r])
  <2> SUFFICES ASSUME NEW r \in 1..batch.rows, r < row + 1
               PROVE  RangeOf(closed, more, r) = RemediationsOf(drivers'[r])
    OBVIOUS
  <2>1. drivers \in [1..batch.rows -> Drivers]
    BY <1>1 DEF TypeOK, ColumnsTypeOK, Rows
  <2>2. CASE r = row
    BY <1>1, <1>4, <1>5, <1>11, <1>12, <2>1, <2>2
  <2>3. CASE r # row
    <3>1. r < row
      BY <1>4, <2>3
    <3>2. drivers'[r] = drivers[r]
      BY <1>1, <2>1, <2>3
    <3> QED BY <1>3, <1>5, <1>9, <1>11, <3>1, <3>2 DEF Rows
  <2> QED BY <2>2, <2>3
<1>14. Len(more) <= ((row + 1) - 1) * Remediations
  <2>1. PICK n : n = Remediations
    OBVIOUS
  <2>2. n \in Nat /\ row \in Nat
    BY <1>4, <2>1, VocabularyAssumption
  <2>3. (row - 1) * n + n = ((row + 1) - 1) * n
    BY <2>2
  <2>4. PICK p : p = (row - 1) * n
    OBVIOUS
  <2>5. p \in Int
    BY <2>2, <2>4
  <2>6. Len(more) <= p + n
    BY <1>3, <1>6, <1>7, <2>1, <2>2, <2>4, <2>5
  <2> QED BY <2>1, <2>3, <2>4, <2>6
<1>15. closed[row + 1] = Len(more)
  BY <1>5, <1>10 DEF Closes
<1> QED BY <1>1, <1>2, <1>5, <1>7, <1>11, <1>13, <1>14, <1>15 DEF RemediationsColumn, Rows

\* Every step keeps the column of remediations.
LEMMA NextRemediationsColumn ==
  TypeOK /\ CursorsInside /\ DecisionInv /\ RemediationsColumn /\ [Next]_vars => RemediationsColumn'
PROOF
<1> SUFFICES ASSUME TypeOK, CursorsInside, DecisionInv, RemediationsColumn, [Next]_vars
             PROVE  RemediationsColumn'
  OBVIOUS
<1>1. CASE \/ Submit \/ EnsureCapacity \/ CheckShapes
           \/ ExecuteField \/ ExecuteEvidence \/ ExecuteAll \/ Return
  <2>1. ~Writing'
    BY <1>1
    DEF Submit, RejectInput, BuildInto, EnsureCapacity, CheckShapes, Fail, ExecuteField,
        ExecuteEvidence, ExecuteAll, Executing, Executed, Return, Writing, ResolvingPcs
  <2> QED BY <2>1 DEF RemediationsColumn
<1>2. CASE \/ ResolveSemantics \/ ResolveEdge \/ BeginRequirements \/ SelectRequirement
           \/ ResolveClause \/ NextRequirement \/ FinishRequirements \/ ResolveEvidence
  BY <1>2, RemediationsStay
  DEF ResolveSemantics, ResolveEdge, BeginRequirements, SelectRequirement, ResolveClause,
      NextRequirement, FinishRequirements, ResolveEvidence,
      numeric, columns, Writing, ResolvingPcs, Frontier
<1>3. CASE BeginMaterialize
  <2>1. CASE pc' = "idle"
    BY <2>1 DEF RemediationsColumn, Writing, ResolvingPcs
  <2>2. CASE pc' = "materialize"
    <3>1. /\ pc = "row" /\ row \notin Rows /\ Writing
          /\ UNCHANGED <<batch, drivers, remIds, remOffsets>>
      BY <1>3 DEF BeginMaterialize, numeric, columns, Writing, ResolvingPcs
    <3>2. row = batch.rows + 1
      BY <3>1, FrontierRange DEF Frontier, Rows
    <3> QED BY <2>2, <3>1, <3>2, RemediationsStay DEF Frontier
  <2> QED BY <1>3, <2>1, <2>2 DEF BeginMaterialize, Fail
<1>4. CASE MaterializeRow
  <2>1. CASE pc' = "idle"
    BY <2>1 DEF RemediationsColumn, Writing, ResolvingPcs
  <2>2. CASE pc' = "materialize"
    BY <1>4, <2>2, RemediationsStay DEF MaterializeRow, numeric, columns, Writing, Frontier
  <2> QED BY <1>4, <2>1, <2>2 DEF MaterializeRow, Fail
<1>5. CASE UNCHANGED vars
  <2>1. UNCHANGED <<batch, drivers, remIds, remOffsets, pc, row>>
    BY <1>5 DEF vars, cursors, numeric, columns
  <2> QED BY <2>1 DEF RemediationsColumn, Writing, Frontier, Rows
<1> QED BY <1>1, <1>2, <1>3, <1>4, <1>5, RemediationsStart, RemediationsClose
        DEF Next, Evaluate, ResolveRow

-----------------------------------------------------------------------------
(* The checks of EvaluateInto and MaterializeInto.                         *)

\* The columns no row has written to yet.
ColumnsPrepared ==
  /\ pc \notin {"idle", "built"} => DOMAIN issueIds = Rows
  /\ pc \in {"ensured", "execute"} => reqIds = <<>> /\ evRefs = <<>> /\ remIds = <<>>

\* The columns stay as Ensure left them until the result is reset.
LEMMA NextPrepared == ColumnsPrepared /\ [Next]_vars => ColumnsPrepared'
PROOF
<1> SUFFICES ASSUME ColumnsPrepared, [Next]_vars PROVE ColumnsPrepared'
  OBVIOUS
<1>1. CASE Submit \/ EnsureCapacity \/ CheckShapes \/ ResetResults
  BY <1>1
  DEF Submit, RejectInput, BuildInto, EnsureCapacity, CheckShapes, ResetResults, Fail, ResizeClear,
      ColumnsPrepared, Rows, numeric, columns
<1>2. CASE ExecuteField \/ ExecuteEvidence \/ ExecuteAll
  BY <1>2 DEF ExecuteField, ExecuteEvidence, ExecuteAll, Executing, Executed, numeric, columns,
              ColumnsPrepared, Rows
<1>3. CASE ResolveRow
  <2>1. /\ batch' = batch /\ DOMAIN issueIds' = DOMAIN issueIds
        /\ pc \notin {"idle", "built"} /\ pc' \notin {"idle", "built", "ensured", "execute"}
    BY <1>3 DEF ResolveRow, ResolveSemantics, ResolveEdge, BeginRequirements, SelectRequirement,
                ResolveClause, NextRequirement, FinishRequirements, ResolveEvidence, FinishRow,
                numeric, columns
  <2> QED BY <2>1 DEF ColumnsPrepared, Rows
<1>4. CASE BeginMaterialize \/ MaterializeRow \/ Return
  BY <1>4 DEF BeginMaterialize, MaterializeRow, Return, Fail, numeric, columns, ColumnsPrepared, Rows
<1>5. CASE UNCHANGED vars
  BY <1>5 DEF vars, numeric, columns, ColumnsPrepared, Rows
<1> QED BY <1>1, <1>2, <1>3, <1>4, <1>5 DEF Next, Evaluate

\* validateOutputCSR accepts a column all rows have closed.
LEMMA ClosedColumn ==
  ASSUME batch.rows \in Nat, NEW ids \in Seq(Nat), NEW offsets,
         Ascends(offsets, ids, batch.rows, batch.rows + 1), offsets[batch.rows + 1] = Len(ids)
  PROVE  ValidRanges(offsets, ids)
PROOF
<1>1. offsets \in [1..(batch.rows + 1) -> Nat] /\ Len(ids) \in Nat
  BY LenProperties DEF Ascends
<1>2. \A r \in 1..(batch.rows + 1) : offsets[r] \in 0..Len(ids)
  BY SMTT(40), <1>1 DEF Ascends
<1>3. \A r \in Rows : offsets[r] <= offsets[r + 1]
  <2>1. (batch.rows + 1) - 1 = batch.rows
    OBVIOUS
  <2> QED BY <2>1 DEF Ascends, Rows
<1> QED BY <1>1, <1>2, <1>3 DEF ValidRanges

\* materializeDriver accepts every finding.
LEMMA FindingMaterializes ==
  ASSUME TypeOK, Linked, pc # "idle", NEW r \in Rows, NEW d, IsFinding(d, r)
  PROVE  d.outcome \in Outcomes /\ DriverMaterializes(d, r)
PROOF
<1>1. batch.issues[r] \in SUBSET Fields
  BY DEF TypeOK, BatchTypeOK
<1>2. OutcomeApprove \in Outcomes /\ OutcomeEscalate \in Outcomes
  BY DEF Outcomes, OutcomeCount, OutcomeApprove, OutcomeEscalate
<1>3. CASE d.kind \notin {"clause", "missing_reference"}
  BY <1>1, <1>2, <1>3 DEF IsFinding, DriverMaterializes
<1>4. CASE d.kind = "missing_reference"
  <2>1. d.outcome = OutcomeEscalate /\ d.edge \in RowEdges(batch, r)
    BY <1>4 DEF IsFinding
  <2>2. r \in 1..Len(pack.requests)
    BY BatchOfPack DEF Rows
  <2>3. d.edge \in EdgeStarts(pack.requests)[r]..(EdgeStarts(pack.requests)[r + 1] - 1)
    BY <2>1, EdgesOfPack DEF RowEdges
  <2>4. d.edge - batch.offsets[r] + 1 \in DOMAIN pack.requests[r].refs
    BY <2>2, <2>3, EdgesOfPack
  <2> QED BY <1>2, <1>4, <2>1, <2>4 DEF DriverMaterializes
<1>5. CASE d.kind = "clause"
  <2>1. /\ d.outcome # OutcomeApprove /\ d.requirement \in DOMAIN Requirements
        /\ d.reason = ClauseReason(d.clause, r) /\ d.outcome = ClauseOutcome(d.clause, r)
        /\ \E k \in DOMAIN Requirements[d.requirement].clauses :
             Requirements[d.requirement].clauses[k] = d.clause
    BY <1>5 DEF IsFinding
  <2>2. Requirements[d.requirement].clauses \in Seq(DOMAIN Clauses)
    BY <2>1, ProgramShape
  <2>3. d.clause \in DOMAIN Clauses
    BY <2>1, <2>2
  <2>4. d.reason \in Reasons /\ d.outcome \in Outcomes
    BY <2>1, <2>3, ClauseOutcomeType, InstructionReasonRange DEF ClauseReason
  <2>5. Clauses[d.clause].resolution[d.reason] # OutcomeApprove
    BY <2>1 DEF ClauseOutcome
  <2>6. d.reason \in Clauses[d.clause].explained
    BY <2>3, <2>4, <2>5, ClauseAssumption DEF IsClause, ValidClause
  <2> QED BY <1>5, <2>3, <2>4, <2>6 DEF DriverMaterializes
<1> QED BY <1>3, <1>4, <1>5

\* A row's ranges hold the program's requirements and remediations and the
\* pack's records, so materializeRowInto accepts all of it.
LEMMA RowMaterializes ==
  ASSUME TypeOK, Linked, CursorsInside, DecisionInv, EvidenceColumn, RequirementsColumn,
         RemediationsColumn, pc = "materialize", row \in Rows
  PROVE  Materializable(row)
PROOF
<1>1. Writing /\ Decided(row) /\ pc # "idle"
  BY DEF Writing, Decided
<1>2. /\ row \in 1..batch.rows /\ batch.rows \in Nat /\ row < Frontier /\ row < Listed
      /\ ValidEvidenceBatch(batch)
  BY <1>1, FrontierRange DEF Rows, Frontier, Listed
<1>3. IsFinding(drivers[row], row)
  BY <1>1 DEF DecisionInv, DriverIsAFinding
<1>4. drivers[row].outcome \in Outcomes /\ DriverMaterializes(drivers[row], row)
  BY <1>1, <1>3, FindingMaterializes
<1>5. Holds(RangeOf(reqOffsets, reqIds, row), DOMAIN Requirements)
  <2>1. Lists(RangeOf(reqOffsets, reqIds, row), Governing(row))
    BY <1>1, <1>2 DEF RequirementsColumn
  <2> QED BY <2>1 DEF Lists, Governing, Holds
<1>6. Holds(RangeOf(evOffsets, evRefs, row), DOMAIN pack.evidence)
  <2> DEFINE used == RangeOf(evOffsets, evRefs, row)
  <2>1. IsUsed(used, batch, row)
    BY <1>1, <1>2 DEF EvidenceColumn
  <2> HIDE DEF used
  <2>2. /\ Len(batch.kinds) = Len(pack.evidence) /\ Len(pack.evidence) \in Nat
        /\ DOMAIN pack.evidence = 1..Len(pack.evidence)
        /\ batch.refs \in [1..Len(batch.refs) -> Nat] /\ Len(batch.refs) \in Nat
    BY <1>1, BatchOfPack, SequenceDomain
  <2>3. ASSUME NEW k \in DOMAIN used PROVE used[k] \in DOMAIN pack.evidence
    <3>1. PICK e \in RowEdges(batch, row) : batch.refs[e] = used[k]
      BY <2>1 DEF IsUsed
    <3>2. row \in 1..(batch.rows + 1) /\ row + 1 \in 1..(batch.rows + 1)
      BY <1>2
    <3>3. /\ batch.offsets[row] \in 1..(Len(batch.refs) + 1)
          /\ batch.offsets[row + 1] \in 1..(Len(batch.refs) + 1)
      BY <1>2, <3>2 DEF ValidEvidenceBatch
    <3>4. e \in DOMAIN batch.refs
      BY <2>2, <3>1, <3>3 DEF RowEdges
    <3>5. used[k] \in 0..Len(pack.evidence) /\ used[k] # 0
      BY <1>2, <2>1, <2>2, <3>1, <3>4 DEF ValidEvidenceBatch, IsUsed
    <3> QED BY <2>2, <3>5
  <2> QED BY <2>3 DEF Holds, used
<1>7. Holds(RangeOf(remOffsets, remIds, row),
            {m \in 1..Remediations : Action[m] \in RemediationActions})
  <2>1. RangeOf(remOffsets, remIds, row) = RemediationsOf(drivers[row])
    BY <1>1, <1>2 DEF RemediationsColumn
  <2>2. RemediationsOf(drivers[row]) \in Seq(1..Remediations)
    BY <1>3, RemediationsType
  <2>3. \A m \in 1..Remediations : Action[m] \in RemediationActions
    BY CatalogueAssumption DEF ValidCatalogue
  <2>4. ASSUME NEW S, NEW ids \in Seq(S), NEW k \in DOMAIN ids PROVE ids[k] \in S
    BY LenProperties, ElementOfSeq
  <2>5. \A k \in DOMAIN RemediationsOf(drivers[row]) : RemediationsOf(drivers[row])[k] \in 1..Remediations
    BY <2>2, <2>4
  <2> QED BY <2>1, <2>3, <2>5 DEF Holds
<1> QED BY <1>4, <1>5, <1>6, <1>7 DEF Materializable

\* Program.Validate accepts the program of a session.
LEMMA ProgramIsValid == ValidProgram
PROOF
<1>1. \A q \in DOMAIN Requirements : ValidRequirement(Requirements[q]) /\ Requirements[q].clauses # <<>>
  BY RequirementAssumption DEF IsRequirement
<1>2. \A c \in DOMAIN Clauses : ValidClause(Clauses[c])
  BY ClauseAssumption DEF IsClause
<1>3. Clauses # <<>>
  <2>1. 1 \in DOMAIN Requirements
    BY RequirementAssumption, ProgramShape DEF IsSequence
  <2>2. Requirements[1].clauses \in Seq(DOMAIN Clauses) /\ Requirements[1].clauses # <<>>
    BY <1>1, <2>1 DEF ValidRequirement
  <2>3. Requirements[1].clauses[1] \in DOMAIN Clauses
    BY <2>2
  <2> QED BY <2>3
<1> QED BY <1>1, <1>2, <1>3, CodeAssumption, RequirementAssumption, CatalogueAssumption
        DEF ValidProgram

\* No step fails: the checks find what the columns, the batch and the drivers
\* are known to be.
LEMMA NextNeverFails ==
  ASSUME TypeOK, Linked, Reserved, CursorsInside, DecisionInv, EvidenceColumn, RequirementsColumn,
         RemediationsColumn, ColumnsPrepared, EvaluateNeverFails, [Next]_vars
  PROVE  EvaluateNeverFails'
PROOF
<1>1. CASE CheckShapes
  <2>1. /\ pc = "ensured" /\ ValidRequestBatch(batch) /\ ValidEvidenceBatch(batch)
        /\ \A column \in DOMAIN capacity : capacity[column] >= Needed[column]
        /\ contextRows = batch.rows
    BY <1>1, BatchOfPack DEF CheckShapes, Reserved
  <2>2. ValidContext
    BY <2>1 DEF ValidContext, TypeOK, ContextTypeOK, Planes
  <2> QED BY <1>1, <2>1, <2>2 DEF CheckShapes, Fail, EvaluateNeverFails
<1>2. CASE BeginMaterialize
  <2>1. pc = "row" /\ row \notin Rows /\ Writing
    BY <1>2 DEF BeginMaterialize, Writing, ResolvingPcs
  <2>2. batch.rows \in Nat /\ Frontier = batch.rows + 1 /\ Listed = batch.rows + 1
    BY <2>1, FrontierRange DEF Frontier, Listed, Rows
  <2>3. Len(pack.requests) = batch.rows /\ Len(pack.evidence) = Len(batch.kinds)
    BY <2>1, BatchOfPack
  <2>4. DOMAIN drivers = Rows /\ DOMAIN issueIds = Rows
    BY <2>1 DEF TypeOK, ColumnsTypeOK, ColumnsPrepared
  <2>5. ValidRanges(reqOffsets, reqIds)
    <3>1. /\ reqIds \in Seq(Nat) /\ Ascends(reqOffsets, reqIds, batch.rows, batch.rows + 1)
          /\ reqOffsets[batch.rows + 1] = Len(reqIds)
      BY <2>1, <2>2 DEF RequirementsColumn
    <3> QED BY <2>2, <3>1, ClosedColumn
  <2>6. ValidRanges(evOffsets, evRefs)
    <3>1. /\ evRefs \in Seq(Nat) /\ Ascends(evOffsets, evRefs, batch.rows, batch.rows + 1)
          /\ evOffsets[batch.rows + 1] = Len(evRefs)
      BY <2>1, <2>2 DEF EvidenceColumn
    <3> QED BY <2>2, <3>1, ClosedColumn
  <2>7. ValidRanges(remOffsets, remIds)
    <3>1. /\ remIds \in Seq(Nat) /\ Ascends(remOffsets, remIds, batch.rows, batch.rows + 1)
          /\ remOffsets[batch.rows + 1] = Len(remIds)
      BY <2>1, <2>2 DEF RemediationsColumn
    <3> QED BY <2>2, <3>1, ClosedColumn
  <2> QED BY <1>2, <2>3, <2>4, <2>5, <2>6, <2>7, ProgramIsValid
          DEF BeginMaterialize, EvaluateNeverFails
<1>3. CASE MaterializeRow
  <2>1. pc = "materialize" /\ row \in Rows
    BY <1>3 DEF MaterializeRow
  <2>2. Materializable(row)
    BY <2>1, RowMaterializes
  <2> QED BY <1>3, <2>2 DEF MaterializeRow, EvaluateNeverFails
<1>4. CASE ~(CheckShapes \/ BeginMaterialize \/ MaterializeRow)
  BY <1>4
  DEF Next, Submit, Evaluate, RejectInput, BuildInto, EnsureCapacity, ExecuteField,
      ExecuteEvidence, ExecuteAll, Executing, Executed, ResetResults, ResolveRow,
      ResolveSemantics, ResolveEdge, BeginRequirements, SelectRequirement, ResolveClause,
      NextRequirement, FinishRequirements, ResolveEvidence, FinishRow, Return, vars,
      EvaluateNeverFails
<1> QED BY <1>1, <1>2, <1>3, <1>4

-----------------------------------------------------------------------------
(* What the caller reads.                                                  *)

\* Rows of the output that the caller reads, or will.
Returned(r) == \/ pc = "materialize" /\ r < row
               \/ pc = "idle" /\ status = "ok"

\* What an approval of request q of pack p, reported as the result, rests on.
EarnedBy(result, p, r) ==
  result.decision = OutcomeApprove =>
    /\ \A f \in Fields : p.requests[r].fields[f] \in ValidValues[f]
    /\ \A j \in DOMAIN p.requests[r].refs :
         \E k \in DOMAIN p.evidence : p.evidence[k].id = p.requests[r].refs[j]
    /\ result.requirements # <<>>

OutputEarned ==
  /\ pc = "materialize" \/ (pc = "idle" /\ status = "ok") => DOMAIN output = DOMAIN pack.requests
  /\ \A r \in DOMAIN pack.requests : Returned(r) => EarnedBy(output[r], pack, r)

\* A row without semantic issues has its fields in their vocabularies, and a
\* row without sentinel edges names only records of the pack.
LEMMA CleanRow ==
  ASSUME Linked, pc # "idle", NEW r \in Rows, batch.issues[r] = {}, ~HasMissingReference(r)
  PROVE  /\ \A f \in Fields : pack.requests[r].fields[f] \in ValidValues[f]
         /\ \A j \in DOMAIN pack.requests[r].refs :
              \E k \in DOMAIN pack.evidence : pack.evidence[k].id = pack.requests[r].refs[j]
PROOF
<1>1. /\ pack \in Packs /\ batch = BatchOf(pack.requests, pack.evidence)
      /\ IsSequence(pack.requests) /\ IsSequence(pack.evidence)
      /\ DOMAIN pack.requests = Rows /\ batch.rows = Len(pack.requests) /\ batch.rows \in Nat
  BY BatchOfPack DEF Linked
<1>2. \A k \in DOMAIN pack.requests : IsSequence(pack.requests[k].refs)
  BY <1>1, PackAssumption DEF IsPack, IsRequest
<1>3. ASSUME NEW f \in Fields PROVE pack.requests[r].fields[f] \in ValidValues[f]
  <2>1. batch.issues[r] = {} \cup {g \in Fields : ~SemanticallyValid(pack.requests[r], g)}
    BY <1>1 DEF BatchOf, BuildBatch, ResizeClear
  <2>2. SemanticallyValid(pack.requests[r], f)
    BY <2>1
  <2> QED BY <2>2 DEF SemanticallyValid
<1>4. ASSUME NEW j \in DOMAIN pack.requests[r].refs
      PROVE  \E k \in DOMAIN pack.evidence : pack.evidence[k].id = pack.requests[r].refs[j]
  <2> DEFINE start == EdgeStarts(pack.requests)
             n == Len(pack.requests)
             e == start[r] + j - 1
  <2>1. batch.offsets = start
    BY EdgesOfPack
  <2>2. /\ start \in [1..(n + 1) -> Nat \ {0}]
        /\ \A k \in 1..n : start[k + 1] = start[k] + Len(pack.requests[k].refs)
    BY <1>1, <1>2, EdgeStartsShape
  <2>3. r \in 1..n /\ r \in 1..(n + 1) /\ r + 1 \in 1..(n + 1)
    BY <1>1 DEF Rows
  <2>4. j \in 1..Len(pack.requests[r].refs) /\ Len(pack.requests[r].refs) \in Nat
    BY <1>1, <1>2, SequenceDomain
  <2>5. \A k \in 1..n : \A x \in start[k]..(start[k + 1] - 1) :
          batch.refs[x] = RecordIndex(pack.evidence, pack.requests[k].refs[x - start[k] + 1])
    BY EdgesOfPack
  <2> HIDE DEF start
  <2>6. PICK a, b : a = start[r] /\ b = start[r + 1]
    OBVIOUS
  <2>7. a \in Nat \ {0} /\ b = a + Len(pack.requests[r].refs)
    BY <2>2, <2>3, <2>6
  <2>8. e \in start[r]..(start[r + 1] - 1) /\ e - start[r] + 1 = j
    <3>1. e = a + j - 1 BY <2>6
    <3> HIDE DEF e
    <3>2. e \in a..(b - 1) /\ e - a + 1 = j BY SMTT(40), <2>4, <2>7, <3>1
    <3> QED BY <2>6, <3>2
  <2>9. batch.refs[e] = RecordIndex(pack.evidence, pack.requests[r].refs[j])
    BY <2>3, <2>5, <2>8
  <2>10. e \in RowEdges(batch, r)
    BY <2>1, <2>8 DEF RowEdges
  <2>11. RecordIndex(pack.evidence, pack.requests[r].refs[j]) # 0
    BY <2>9, <2>10 DEF HasMissingReference
  <2> QED BY <2>11 DEF RecordIndex
<1> QED BY <1>3, <1>4

\* A row approved has nothing against it, and a requirement that governs it.
LEMMA ApprovedRow ==
  ASSUME TypeOK, Linked, CursorsInside, DecisionInv, RequirementsColumn, MaterializeRow,
         drivers[row].outcome = OutcomeApprove
  PROVE  EarnedBy(RowResult(row), pack, row)
PROOF
<1>1. pc = "materialize" /\ row \in Rows /\ Writing
  BY DEF MaterializeRow, Writing
<1>2. ~Covers(drivers[row], OutcomeEscalate)
  BY DEF Covers, Rank, OutcomePrecedence, OutcomeApprove, OutcomeEscalate
<1>3. batch.issues[row] = {} /\ ~HasMissingReference(row) /\ ~NoneApplicable(row)
  BY <1>1, <1>2 DEF DecisionInv, NoFindingOutranksDecision, Decided
<1>4. RangeOf(reqOffsets, reqIds, row) # <<>>
  <2>1. batch.rows \in Nat /\ Listed = batch.rows + 1
    BY <1>1, FrontierRange DEF Listed, Frontier
  <2>2. row < Listed
    BY <1>1, <2>1 DEF Rows
  <2>3. Lists(RangeOf(reqOffsets, reqIds, row), Governing(row))
    BY <1>1, <2>2 DEF RequirementsColumn
  <2>4. Governing(row) # {}
    BY <1>3 DEF NoneApplicable, Governing
  <2> QED BY <2>3, <2>4 DEF Lists
<1>5. RowResult(row).requirements = RangeOf(reqOffsets, reqIds, row)
  BY DEF RowResult
<1> QED BY <1>1, <1>3, <1>4, <1>5, CleanRow DEF EarnedBy

\* A step that materializes a row earns its approval; the others keep the output.
LEMMA NextEarned ==
  ASSUME TypeOK, Linked, CursorsInside, DecisionInv, RequirementsColumn, OutputEarned, [Next]_vars
  PROVE  OutputEarned'
PROOF
<1>1. CASE Submit
  BY <1>1 DEF Submit, RejectInput, BuildInto, OutputEarned, Returned
<1>2. CASE BeginMaterialize
  <2>1. CASE pc' = "idle"
    BY <1>2, <2>1 DEF BeginMaterialize, Fail, OutputEarned, Returned
  <2>2. CASE pc' = "materialize"
    <3>1. /\ pc = "row" /\ row' = 1 /\ pack' = pack
          /\ DOMAIN output' = Rows
      BY <1>2, <2>2 DEF BeginMaterialize, ResizeResults, Fail
    <3>2. DOMAIN pack.requests = Rows /\ batch.rows \in Nat
      BY <3>1, BatchOfPack
    <3>3. \A r \in Rows : ~(r < 1)
      BY <3>2 DEF Rows
    <3> QED BY <2>2, <3>1, <3>2, <3>3 DEF OutputEarned, Returned
  <2> QED BY <1>2, <2>1, <2>2 DEF BeginMaterialize, Fail
<1>3. CASE MaterializeRow
  <2>1. CASE pc' = "idle"
    BY <1>3, <2>1 DEF MaterializeRow, Fail, OutputEarned, Returned
  <2>2. CASE pc' = "materialize"
    <3>1. /\ pc = "materialize" /\ row' = row + 1 /\ pack' = pack /\ row \in Rows
          /\ output' = [output EXCEPT ![row] = RowResult(row)]
      BY <1>3, <2>2 DEF MaterializeRow, Fail
    <3>2. DOMAIN pack.requests = Rows /\ batch.rows \in Nat /\ DOMAIN output = Rows
      BY <3>1, BatchOfPack DEF OutputEarned
    <3>3. RowResult(row).decision = drivers[row].outcome
      BY DEF RowResult
    <3>4. EarnedBy(output'[row], pack, row)
      <4>1. output'[row] = RowResult(row)
        BY <3>1, <3>2
      <4>2. CASE drivers[row].outcome = OutcomeApprove
        BY <1>3, <4>1, <4>2, ApprovedRow
      <4>3. CASE drivers[row].outcome # OutcomeApprove
        BY <3>3, <4>1, <4>3 DEF EarnedBy
      <4> QED BY <4>2, <4>3
    <3>5. ASSUME NEW r \in Rows, r < row + 1, r # row PROVE EarnedBy(output'[r], pack, r)
      <4>1. r < row /\ output'[r] = output[r]
        BY <3>1, <3>2, <3>5 DEF Rows
      <4> QED BY <3>1, <3>2, <4>1 DEF OutputEarned, Returned
    <3>6. \A r \in Rows : r < row + 1 => EarnedBy(output'[r], pack, r)
      BY <3>4, <3>5
    <3>7. DOMAIN output' = DOMAIN pack'.requests
      BY <3>1, <3>2
    <3> QED BY <2>2, <3>1, <3>2, <3>6, <3>7 DEF OutputEarned, Returned
  <2> QED BY <1>3, <2>1, <2>2 DEF MaterializeRow, Fail
<1>4. CASE Return
  <2>1. /\ pc = "materialize" /\ row \notin Rows /\ pc' = "idle" /\ status' = "ok"
        /\ UNCHANGED <<pack, output>>
    BY <1>4 DEF Return
  <2>2. DOMAIN pack.requests = Rows /\ batch.rows \in Nat /\ row \in Nat \ {0}
    BY <2>1, BatchOfPack DEF TypeOK
  <2>3. \A r \in Rows : r < row
    BY <2>1, <2>2 DEF Rows
  <2> QED BY <2>1, <2>2, <2>3 DEF OutputEarned, Returned
<1>5. CASE \/ EnsureCapacity \/ CheckShapes \/ ExecuteField \/ ExecuteEvidence \/ ExecuteAll
           \/ ResetResults \/ ResolveRow
  <2>1. pc' # "materialize" /\ ~(pc' = "idle" /\ status' = "ok")
    BY <1>5
    DEF EnsureCapacity, CheckShapes, Fail, ExecuteField, ExecuteEvidence, ExecuteAll, Executing,
        Executed, ResetResults, ResolveRow, ResolveSemantics, ResolveEdge, BeginRequirements,
        SelectRequirement, ResolveClause, NextRequirement, FinishRequirements, ResolveEvidence,
        FinishRow
  <2> QED BY <2>1 DEF OutputEarned, Returned
<1>6. CASE UNCHANGED vars
  BY <1>6 DEF vars, cursors, OutputEarned, Returned
<1> QED BY <1>1, <1>2, <1>3, <1>4, <1>5, <1>6 DEF Next, Evaluate

-----------------------------------------------------------------------------
(* The invariant, and what follows from it.                                *)

\* The batch is the pack's and fits its reservation; the columns hold what the
\* finished rows found; the returned rows rest on the pack; nothing failed.
StorageInv ==
  /\ Linked /\ Reserved /\ CursorsInside
  /\ RequirementsColumn /\ EvidenceColumn /\ RemediationsColumn /\ ColumnsPrepared
  /\ OutputEarned /\ EvaluateNeverFails

\* The invariant holds of a session that was never called.
LEMMA InitStorageInv == Init => StorageInv
PROOF
<1> SUFFICES ASSUME Init PROVE StorageInv
  OBVIOUS
<1>1. pc = "idle" /\ status = "none"
  BY DEF Init
<1>2. /\ RequirementsColumn /\ EvidenceColumn /\ RemediationsColumn /\ ColumnsPrepared
      /\ OutputEarned /\ EvaluateNeverFails
  BY <1>1 DEF RequirementsColumn, EvidenceColumn, RemediationsColumn, ColumnsPrepared, Writing,
              ResolvingPcs, OutputEarned, Returned, EvaluateNeverFails
<1> QED BY <1>2, InitLinked, InitCursors DEF StorageInv

\* The invariant is inductive on top of the types and the decisions.
LEMMA NextStorageInv == TypeOK /\ DecisionInv /\ StorageInv /\ [Next]_vars => StorageInv'
BY NextLinked, NextCursors, NextRequirementsColumn, NextEvidenceColumn, NextRemediationsColumn,
   NextPrepared, NextEarned, NextNeverFails
DEF StorageInv

\* The invariant holds whatever packs are submitted in whatever order.
LEMMA StorageCorrect == Spec => []StorageInv
BY TypeCorrect, DecisionsCorrect, InitStorageInv, NextStorageInv, PTL DEF Spec

\* More rows need more room.
LEMMA RowsMonotone ==
  ASSUME NEW a \in Nat, NEW b \in Nat, NEW n \in Nat, a <= b
  PROVE  a * n <= b * n
PROOF
<1>1. PICK c \in Nat : b = a + c
  <2>1. b - a \in Nat /\ b = a + (b - a)
    OBVIOUS
  <2> QED BY <2>1
<1>2. b * n = a * n + c * n /\ a * n \in Nat /\ c * n \in Nat
  BY <1>1
<1> QED BY <1>2

\* The columns stay within what Ensure computed for the batch.
LEMMA ColumnsFit ==
  ASSUME TypeOK, StorageInv, pc \in CheckedPcs
  PROVE  /\ Len(reqIds) <= Needed.requirements
         /\ Len(evRefs) <= Needed.evidence
         /\ Len(remIds) <= Needed.remediations
PROOF
<1> DEFINE n == Len(Requirements)
           m == Remediations
<1>1. Linked /\ CursorsInside /\ RequirementsColumn /\ EvidenceColumn /\ RemediationsColumn
      /\ ColumnsPrepared
  BY DEF StorageInv
<1>2. /\ n \in Nat /\ m \in Nat /\ pc # "idle"
      /\ Needed.requirements = batch.rows * n /\ Needed.evidence = Len(batch.refs)
      /\ Needed.remediations = batch.rows * m
  BY ProgramShape, VocabularyAssumption DEF Needed, CheckedPcs, ResolvingPcs
<1>3. batch.rows \in Nat /\ Len(batch.refs) \in Nat
  BY <1>1, <1>2, BatchOfPack
<1> HIDE DEF n, m
<1>4. CASE pc = "execute"
  <2>1. Len(reqIds) = 0 /\ Len(evRefs) = 0 /\ Len(remIds) = 0
    BY <1>1, <1>4 DEF ColumnsPrepared
  <2>2. batch.rows * n \in Nat /\ batch.rows * m \in Nat
    BY <1>2, <1>3
  <2> QED BY <1>2, <1>3, <2>1, <2>2
<1>5. CASE Writing
  <2>1. /\ Frontier \in 1..(batch.rows + 1) /\ ValidEvidenceBatch(batch)
        /\ pc \in {"edges", "requirements", "clauses", "evidence"} =>
             row \in 1..batch.rows /\ Frontier = row
    BY <1>1, <1>5, FrontierRange
  <2>2. reqIds \in Seq(Nat) /\ evRefs \in Seq(Nat) /\ remIds \in Seq(Nat)
    BY <1>1, <1>5 DEF RequirementsColumn, EvidenceColumn, RemediationsColumn
  <2>3. Len(reqIds) \in Nat /\ Len(evRefs) \in Nat /\ Len(remIds) \in Nat
    BY <2>2, LenProperties
  <2>4. Len(remIds) <= batch.rows * m
    <3>1. Len(remIds) <= (Frontier - 1) * m
      BY <1>1, <1>5 DEF RemediationsColumn, m
    <3>2. PICK a \in Nat : a = Frontier - 1 /\ a <= batch.rows
      BY <1>3, <2>1
    <3>3. a * m <= batch.rows * m /\ a * m \in Nat /\ batch.rows * m \in Nat
      BY <1>2, <1>3, <3>2, RowsMonotone
    <3>4. Len(remIds) <= a * m
      BY <3>1, <3>2
    <3> QED BY <2>3, <3>3, <3>4
  <2>5. Len(evRefs) <= Len(batch.refs)
    <3>1. \A r \in 1..(batch.rows + 1) : batch.offsets[r] \in 1..(Len(batch.refs) + 1)
      BY <2>1 DEF ValidEvidenceBatch
    <3>2. CASE pc = "evidence"
      <4>1. row + 1 \in 1..(batch.rows + 1)
        BY <1>3, <2>1, <3>2
      <4>2. /\ Len(evRefs) < edge /\ edge <= batch.offsets[row + 1] /\ edge \in Nat
            /\ batch.offsets[row + 1] \in 1..(Len(batch.refs) + 1)
        BY <1>1, <1>5, <3>1, <3>2, <4>1 DEF EvidenceColumn, CursorsInside, TypeOK
      <4> QED BY <1>3, <2>3, <4>2
    <3>3. CASE pc # "evidence"
      <4>1. Len(evRefs) < batch.offsets[Frontier]
        BY <1>1, <1>5, <3>3 DEF EvidenceColumn
      <4>2. batch.offsets[Frontier] \in 1..(Len(batch.refs) + 1)
        BY <2>1, <3>1
      <4> QED BY <1>3, <2>3, <4>1, <4>2
    <3> QED BY <3>2, <3>3
  <2>6. Len(reqIds) <= batch.rows * n
    <3>1. CASE pc \notin {"requirements", "clauses"}
      <4>1. PICK a \in Nat : a = Listed - 1 /\ a <= batch.rows
        BY <1>3, <2>1, <3>1 DEF Listed
      <4>2. Len(reqIds) <= (Listed - 1) * n
        BY <1>1, <1>5, <3>1 DEF RequirementsColumn, n
      <4>3. a * n <= batch.rows * n /\ a * n \in Nat /\ batch.rows * n \in Nat
        BY <1>2, <1>3, <4>1, RowsMonotone
      <4>4. Len(reqIds) <= a * n
        BY <4>1, <4>2
      <4> QED BY <2>3, <4>3, <4>4
    <3>2. CASE pc \in {"requirements", "clauses"}
      <4>1. /\ Len(reqIds) <= (row - 1) * n + (Reach - 1)
            /\ row \in 1..batch.rows
        BY <1>1, <1>5, <2>1, <3>2 DEF RequirementsColumn, n
      <4>2. Reach \in Nat /\ Reach - 1 <= n
        BY <1>1, <1>2, <3>2, ProgramShape DEF CursorsInside, Reach, TypeOK, n
      <4>3. (row - 1) * n + n = row * n /\ (row - 1) * n \in Nat /\ row * n \in Nat
        <5>1. row \in Nat /\ row - 1 \in Nat
          BY <4>1
        <5> QED BY <1>2, <5>1
      <4>4. row * n <= batch.rows * n /\ batch.rows * n \in Nat
        <5>1. row \in Nat /\ row <= batch.rows
          BY <1>3, <4>1
        <5>2. row * n <= batch.rows * n
          BY <1>2, <1>3, <5>1, RowsMonotone
        <5> QED BY <1>2, <1>3, <5>2
      <4>5. PICK a : a = (row - 1) * n
        OBVIOUS
      <4>6. Len(reqIds) <= a + (Reach - 1) /\ a + n = row * n /\ a \in Nat
        BY <4>1, <4>3, <4>5
      <4>7. Len(reqIds) <= a + n
        BY <1>2, <2>3, <4>2, <4>6
      <4>8. PICK b, c : b = row * n /\ c = batch.rows * n
        OBVIOUS
      <4> QED BY <2>3, <4>3, <4>4, <4>6, <4>7, <4>8
    <3> QED BY <3>1, <3>2
  <2> QED BY <1>2, <2>4, <2>5, <2>6
<1> QED BY <1>4, <1>5 DEF Writing, CheckedPcs

\* resolveRow never grows the storage Ensure reserved, whatever the policy and
\* the packs evaluated before.
THEOREM ColumnsStayWithinCapacity == Spec => []WithinCapacity
PROOF
<1>1. ASSUME TypeOK, StorageInv, pc \in CheckedPcs
      PROVE  /\ Len(reqIds) <= capacity.requirements
             /\ Len(evRefs) <= capacity.evidence
             /\ Len(remIds) <= capacity.remediations
  <2>1. /\ Len(reqIds) <= Needed.requirements
        /\ Len(evRefs) <= Needed.evidence
        /\ Len(remIds) <= Needed.remediations
    BY <1>1, ColumnsFit
  <2>2. Reserved /\ Linked /\ pc \notin {"idle", "built"}
    BY <1>1 DEF StorageInv, CheckedPcs, ResolvingPcs
  <2>3. /\ capacity.requirements \in Nat /\ capacity.evidence \in Nat /\ capacity.remediations \in Nat
        /\ capacity["requirements"] >= Needed["requirements"]
        /\ capacity["evidence"] >= Needed["evidence"]
        /\ capacity["remediations"] >= Needed["remediations"]
    BY <2>2 DEF Reserved, NumericColumns
  <2>4. Needed.requirements \in Nat /\ Needed.evidence \in Nat /\ Needed.remediations \in Nat
    <3>1. batch.rows \in Nat /\ Len(batch.refs) \in Nat
      BY <2>2, BatchOfPack
    <3>2. batch.rows * Len(Requirements) \in Nat /\ batch.rows * Remediations \in Nat
      BY <3>1, ProgramShape, VocabularyAssumption
    <3> QED BY <3>1, <3>2 DEF Needed
  <2>5. Len(reqIds) \in Nat /\ Len(evRefs) \in Nat /\ Len(remIds) \in Nat
    <3>1. reqIds \in Seq(Nat) /\ evRefs \in Seq(Nat) /\ remIds \in Seq(Nat)
      <4>1. CASE pc = "execute"
        BY <1>1, <4>1 DEF StorageInv, ColumnsPrepared
      <4>2. CASE Writing
        BY <1>1, <4>2
        DEF StorageInv, RequirementsColumn, EvidenceColumn, RemediationsColumn
      <4> QED BY <1>1, <4>1, <4>2 DEF Writing, CheckedPcs
    <3> QED BY <3>1, LenProperties
  <2> QED BY <2>1, <2>3, <2>4, <2>5
<1>2. TypeOK /\ StorageInv => WithinCapacity
  BY <1>1 DEF WithinCapacity
<1> QED BY <1>2, TypeCorrect, StorageCorrect, PTL

\* A Revise, and only a Revise, carries remediations: those of its clause.
LEMMA RevisesAreActionable ==
  ASSUME NEW r, IsFinding(drivers[r], r),
         RangeOf(remOffsets, remIds, r) = RemediationsOf(drivers[r])
  PROVE  ReviseIsActionable(r)
PROOF
<1> DEFINE d == drivers[r]
<1>1. CASE d.outcome # OutcomeRevise
  BY <1>1 DEF ReviseIsActionable, RemediationsOf
<1>2. CASE d.outcome = OutcomeRevise
  <2>1. d.kind = "clause"
    BY <1>2 DEF IsFinding, OutcomeRevise, OutcomeApprove, OutcomeEscalate
  <2>2. /\ d.requirement \in DOMAIN Requirements
        /\ d.reason = ClauseReason(d.clause, r) /\ d.outcome = ClauseOutcome(d.clause, r)
        /\ \E k \in DOMAIN Requirements[d.requirement].clauses :
             Requirements[d.requirement].clauses[k] = d.clause
    BY <2>1 DEF IsFinding
  <2>3. Requirements[d.requirement].clauses \in Seq(DOMAIN Clauses)
    BY <2>2, ProgramShape
  <2>4. d.clause \in DOMAIN Clauses
    BY <2>2, <2>3
  <2>5. d.reason \in Reasons /\ Clauses[d.clause].resolution[d.reason] = OutcomeRevise
    BY <1>2, <2>2, <2>4, ClauseOutcomeType DEF ClauseOutcome
  <2>6. Clauses[d.clause].remediations # <<>>
    BY <2>4, <2>5, ClauseAssumption DEF IsClause
  <2> QED BY <1>2, <2>1, <2>6 DEF ReviseIsActionable, RemediationsOf
<1> QED BY <1>1, <1>2

\* Every finished row owns the requirements that apply to it in policy order,
\* each attached record it used once, and the remediations of a Revise.
THEOREM RowsOwnTheirRanges == Spec => []RowRangesSound
PROOF
<1>1. ASSUME TypeOK, DecisionInv, StorageInv, NEW r \in Rows, Decided(r)
      PROVE  RangesSound(r)
  <2>1. /\ Writing /\ CursorsInside
        /\ RequirementsColumn /\ EvidenceColumn /\ RemediationsColumn
    BY <1>1 DEF StorageInv, Decided, Writing
  <2>2. batch.rows \in Nat /\ r \in 1..batch.rows
    BY <1>1, <2>1, FrontierRange DEF Rows
  <2>3. r < Frontier /\ r < Listed
    BY <1>1, <2>2 DEF Decided, Frontier, Listed, ResolvingPcs, TypeOK
  <2>4. Lists(RangeOf(reqOffsets, reqIds, r), Governing(r))
    BY <2>1, <2>3 DEF RequirementsColumn
  <2>5. IsUsed(RangeOf(evOffsets, evRefs, r), batch, r)
    BY <2>1, <2>3 DEF EvidenceColumn
  <2>6. ReviseIsActionable(r)
    <3>1. IsFinding(drivers[r], r)
      BY <1>1 DEF DecisionInv, DriverIsAFinding
    <3>2. RangeOf(remOffsets, remIds, r) = RemediationsOf(drivers[r])
      BY <2>1, <2>3 DEF RemediationsColumn
    <3> QED BY <3>1, <3>2, RevisesAreActionable
  <2> QED BY <2>4, <2>5, <2>6 DEF RangesSound, Lists, Governing, IsUsed
<1>2. TypeOK /\ DecisionInv /\ StorageInv => RowRangesSound
  BY <1>1 DEF RowRangesSound
<1> QED BY <1>2, TypeCorrect, DecisionsCorrect, StorageCorrect, PTL

\* No pack the builder accepts makes the evaluator or the materializer fail.
THEOREM NoEvaluationFails == Spec => []EvaluateNeverFails
PROOF
<1>1. StorageInv => EvaluateNeverFails
  BY DEF StorageInv
<1> QED BY <1>1, StorageCorrect, PTL

\* An approval the caller reads was earned by the pack it was asked about.
THEOREM ApprovalsAreEarned == Spec => []ApprovalIsEarned
PROOF
<1>1. ASSUME OutputEarned PROVE ApprovalIsEarned
  <2> SUFFICES ASSUME pc = "idle", status = "ok"
               PROVE  /\ DOMAIN output = DOMAIN pack.requests
                      /\ \A r \in DOMAIN output : EarnedBy(output[r], pack, r)
    BY DEF ApprovalIsEarned, EarnedBy
  <2> QED BY <1>1 DEF OutputEarned, Returned
<1>2. StorageInv => ApprovalIsEarned
  BY <1>1 DEF StorageInv
<1> QED BY <1>2, StorageCorrect, PTL
=============================================================================
