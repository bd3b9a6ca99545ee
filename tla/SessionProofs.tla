---------------------------- MODULE SessionProofs ---------------------------
(***************************************************************************)
(* What the kernels return and what the builder leaves in a batch; then    *)
(* the session's type invariant, the agreement of its truth and reason     *)
(* planes, and the rank of its decisions, for every program, every set of  *)
(* packs and every limit.                                                  *)
(***************************************************************************)
EXTENDS SessionProperties, SequenceTheorems, WellFoundedInduction, TLAPS

-----------------------------------------------------------------------------
(* The kernels and the builder.                                            *)

\* A nonempty set of naturals has a least element, so the choices of the
\* first field, reason or operand are defined.
LEMMA LeastExists ==
  ASSUME NEW S \in SUBSET Nat, S # {}
  PROVE  \E x \in S : \A y \in S : x <= y
PROOF
<1>1. IsWellFoundedOn(OpToRel(<, Nat), Nat)
  BY NatLessThanWellFounded
<1>2. PICK x \in S : \A y \in S : ~(<<y, x>> \in OpToRel(<, Nat))
  BY <1>1, WFMin, Zenon
<1>3. ASSUME NEW y \in S PROVE x <= y
  <2>1. OpToRel(<, Nat) = {ss \in Nat \X Nat : ss[1] < ss[2]}
    BY DEF OpToRel
  <2>2. ~(y < x)
    BY <1>2, <2>1
  <2> QED BY <2>2
<1> QED BY <1>3

\* The field kernels find one of four reasons.
LEMMA FieldReasonRange ==
  ASSUME NEW b, NEW ins, NEW r
  PROVE  FieldReason(b, ins, r) \in
           {ReasonSatisfied, ReasonFalse, ReasonMissing, ReasonUnclear}
BY DEF FieldReason

\* The evidence kernel never finds a record false.
LEMMA EvidenceReasonRange ==
  ASSUME NEW b, NEW ins, NEW r
  PROVE  EvidenceReason(b, ins, r) \in Reasons \ {ReasonFalse}
BY DEF EvidenceReason, Reasons, ReasonCount, ReasonSatisfied, ReasonFalse, ReasonMissing,
       ReasonInvalidEvidence, ReasonStale, ReasonUnclear, ReasonUnverifiable, ReasonConflict

\* The priority list only holds reasons that settle nothing, but for the
\* conflict at its head.
LEMMA PriorityRange ==
  /\ DOMAIN AllPriority = 1..6
  /\ \A p \in 1..6 : AllPriority[p] \in Reasons \ {ReasonSatisfied, ReasonFalse}
BY DEF AllPriority, Reasons, ReasonCount, ReasonSatisfied, ReasonFalse, ReasonMissing,
       ReasonInvalidEvidence, ReasonStale, ReasonUnclear, ReasonUnverifiable, ReasonConflict

\* A conjunction left open has an open reason, and a conflict only if an
\* operand has one.
LEMMA UnsettledReasonRange ==
  ASSUME NEW planes, NEW operands, NEW r
  PROVE  LET found == UnsettledReason(planes, operands, r) IN
         /\ found \in Reasons \ {ReasonSatisfied, ReasonFalse}
         /\ found = ReasonConflict =>
              \E o \in operands : r \in planes[o][ReasonConflict]
PROOF
<1> DEFINE held == {p \in DOMAIN AllPriority :
                      \E o \in operands : r \in planes[o][AllPriority[p]]}
<1> HIDE DEF held
<1>1. UnsettledReason(planes, operands, r) =
        IF held = {} THEN ReasonUnverifiable
        ELSE AllPriority[CHOOSE p \in held : \A q \in held : p <= q]
  BY DEF UnsettledReason, held
<1>2. CASE held = {}
  BY <1>1, <1>2 DEF Reasons, ReasonCount, ReasonSatisfied, ReasonFalse, ReasonUnverifiable,
                    ReasonConflict
<1>3. CASE held # {}
  <2>1. held \in SUBSET Nat
    BY PriorityRange DEF held
  <2>2. PICK p \in held : p = CHOOSE s \in held : \A t \in held : s <= t
    BY <1>3, <2>1, LeastExists, Zenon
  <2>3. /\ p \in 1..6
        /\ \E o \in operands : r \in planes[o][AllPriority[p]]
    BY PriorityRange, <2>2 DEF held
  <2> QED BY <1>1, <1>3, <2>2, <2>3, PriorityRange
<1> QED BY <1>2, <1>3

\* The reason read back for a row is a reason, and the only one if the row
\* has just one.
LEMMA InstructionReasonRange ==
  ASSUME NEW planes, NEW i, NEW r
  PROVE  /\ InstructionReason(planes, i, r) \in Reasons
         /\ \A reason \in Reasons :
              {x \in Reasons : r \in planes[i][x]} = {reason}
                => InstructionReason(planes, i, r) = reason
PROOF
<1> DEFINE held == {x \in Reasons : r \in planes[i][x]}
<1> HIDE DEF held
<1>1. InstructionReason(planes, i, r) =
        IF held = {} THEN ReasonUnverifiable
        ELSE CHOOSE reason \in held : \A other \in held : reason <= other
  BY DEF InstructionReason, held
<1>2. CASE held = {}
  BY <1>1, <1>2 DEF Reasons, ReasonCount, ReasonUnverifiable, held
<1>3. CASE held # {}
  <2>1. held \in SUBSET Nat /\ held \subseteq Reasons
    BY DEF held, Reasons
  <2>2. (CHOOSE reason \in held : \A other \in held : reason <= other) \in held
    BY <1>3, <2>1, LeastExists, Zenon
  <2> QED BY <1>1, <1>3, <2>1, <2>2 DEF held
<1> QED BY <1>2, <1>3

-----------------------------------------------------------------------------
(* What the builder leaves in a batch.                                     *)

\* A sequence of the packs is a function on 1..Len.
LEMMA SequenceDomain ==
  ASSUME NEW s, IsSequence(s)
  PROVE  Len(s) \in Nat /\ DOMAIN s = 1..Len(s)
BY DEF IsSequence

\* The equation of EdgeStarts, for the first m requests.
StartsAt(start, requests, m) ==
  start = [r \in 1..(m + 1) |-> IF r = 1 THEN 1 ELSE start[r - 1] + Len(requests[r - 1].refs)]

\* Some offsets satisfy the equation, so the recursive definition is sound.
LEMMA StartsExist ==
  ASSUME NEW requests
  PROVE  \A m \in Nat : \E start : StartsAt(start, requests, m)
PROOF
<1> DEFINE Bad == {m \in Nat : ~\E start : StartsAt(start, requests, m)}
<1> SUFFICES ASSUME Bad # {} PROVE FALSE
  OBVIOUS
<1>1. PICK m \in Bad : \A k \in Bad : m <= k
  BY LeastExists
<1>2. CASE m = 0
  <2>1. StartsAt([r \in 1..1 |-> 1], requests, 0)
    BY DEF StartsAt
  <2> QED BY <1>1, <1>2, <2>1
<1>3. CASE m # 0
  <2>1. m - 1 \in Nat /\ m - 1 \notin Bad
    BY <1>1, <1>3
  <2>2. PICK g : StartsAt(g, requests, m - 1)
    BY <2>1
  <2> DEFINE f == [r \in 1..(m + 1) |->
                     IF r = m + 1 THEN g[m] + Len(requests[m].refs) ELSE g[r]]
  <2>3. DOMAIN g = 1..m /\ \A r \in 1..m :
          g[r] = IF r = 1 THEN 1 ELSE g[r - 1] + Len(requests[r - 1].refs)
    BY <1>1, <2>1, <2>2 DEF StartsAt
  <2>4. ASSUME NEW r \in 1..(m + 1)
        PROVE  f[r] = IF r = 1 THEN 1 ELSE f[r - 1] + Len(requests[r - 1].refs)
    <3>1. CASE r = m + 1
      <4>1. r - 1 = m /\ m \in 1..(m + 1) /\ m # m + 1 /\ r # 1
        BY <1>1, <1>3, <3>1
      <4> QED BY <3>1, <4>1
    <3>2. CASE r # m + 1
      <4>1. r \in 1..m /\ r - 1 # m + 1 /\ (r = 1 \/ r - 1 \in 1..(m + 1))
        BY <1>1, <3>2
      <4> QED BY <2>3, <3>2, <4>1
    <3> QED BY <3>1, <3>2
  <2>5. StartsAt(f, requests, m)
    <3> DEFINE h == [r \in 1..(m + 1) |-> IF r = 1 THEN 1 ELSE f[r - 1] + Len(requests[r - 1].refs)]
    <3>1. f = h
      BY <2>4
    <3> QED BY <3>1 DEF StartsAt
  <2> QED BY <1>1, <2>5
<1> QED BY <1>2, <1>3

\* Each row's edges begin where those of the row before it end.
LEMMA EdgeStartsShape ==
  ASSUME NEW requests, IsSequence(requests),
         \A k \in DOMAIN requests : IsSequence(requests[k].refs)
  PROVE  LET start == EdgeStarts(requests)
             n == Len(requests)
         IN  /\ start \in [1..(n + 1) -> Nat \ {0}]
             /\ start[1] = 1
             /\ \A r \in 1..n : start[r + 1] = start[r] + Len(requests[r].refs)
             /\ \A r \in 1..n : start[r] <= start[r + 1]
             /\ EdgeCount(requests) \in Nat /\ start[n + 1] = EdgeCount(requests) + 1
PROOF
<1> DEFINE start == EdgeStarts(requests)
           n == Len(requests)
<1>1. n \in Nat /\ DOMAIN requests = 1..n
  BY SequenceDomain
<1>2. StartsAt(start, requests, n)
  <2>1. \E s : StartsAt(s, requests, n)
    BY <1>1, StartsExist
  <2> QED BY <2>1 DEF EdgeStarts, StartsAt
<1> HIDE DEF start
<1>3. DOMAIN start = 1..(n + 1) /\ start[1] = 1
  BY <1>1, <1>2 DEF StartsAt
<1>4. \A r \in 1..n : start[r + 1] = start[r] + Len(requests[r].refs)
  <2> SUFFICES ASSUME NEW r \in 1..n PROVE start[r + 1] = start[r] + Len(requests[r].refs)
    OBVIOUS
  <2>1. r + 1 \in 1..(n + 1) /\ r + 1 # 1 /\ (r + 1) - 1 = r
    BY <1>1
  <2> QED BY <1>2, <2>1 DEF StartsAt
<1>5. \A r \in 1..n : Len(requests[r].refs) \in Nat
  BY <1>1, SequenceDomain
<1>6. \A r \in 1..(n + 1) : start[r] \in Nat \ {0}
  <2> DEFINE Bad == {r \in 1..(n + 1) : start[r] \notin Nat \ {0}}
  <2> SUFFICES ASSUME Bad # {} PROVE FALSE
    OBVIOUS
  <2>1. PICK r \in Bad : \A k \in Bad : r <= k
    <3>1. Bad \in SUBSET Nat
      BY <1>1
    <3> QED BY <3>1, LeastExists
  <2>2. r # 1 /\ r - 1 \in 1..n /\ (r - 1) + 1 = r
    BY <1>1, <1>3, <2>1
  <2>3. start[r - 1] \in Nat \ {0}
    BY <1>1, <2>1, <2>2
  <2>4. start[r] = start[r - 1] + Len(requests[r - 1].refs) /\ Len(requests[r - 1].refs) \in Nat
    BY <1>4, <1>5, <2>2, Zenon
  <2>5. start[r] \in Nat \ {0}
    BY <2>3, <2>4
  <2> QED BY <2>1, <2>5
<1>7. start \in [1..(n + 1) -> Nat \ {0}]
  <2>1. start = [r \in 1..(n + 1) |-> start[r]]
    BY <1>2, <1>3 DEF StartsAt
  <2> QED BY <1>6, <2>1
<1>8. \A r \in 1..n : start[r] <= start[r + 1]
  <2> SUFFICES ASSUME NEW r \in 1..n PROVE start[r] <= start[r + 1]
    OBVIOUS
  <2>1. r \in 1..(n + 1)
    BY <1>1
  <2>2. start[r] \in Nat /\ Len(requests[r].refs) \in Nat
    BY <1>5, <1>6, <2>1
  <2>3. start[r + 1] = start[r] + Len(requests[r].refs)
    BY <1>4
  <2> QED BY <2>2, <2>3
<1>9. start[n + 1] \in Nat \ {0}
  BY <1>1, <1>6
<1>10. EdgeCount(requests) = start[n + 1] - 1
  BY DEF EdgeCount, start
<1>11. EdgeCount(requests) \in Nat /\ start[n + 1] = EdgeCount(requests) + 1
  BY <1>9, <1>10
<1> QED BY <1>3, <1>4, <1>7, <1>8, <1>11 DEF start

\* Offsets that grow from each row to the next grow from any row to a later one.
LEMMA StartsGrow ==
  ASSUME NEW n \in Nat, NEW start \in [1..(n + 1) -> Nat],
         \A r \in 1..n : start[r] <= start[r + 1]
  PROVE  \A r, s \in 1..(n + 1) : r <= s => start[r] <= start[s]
PROOF
<1> SUFFICES ASSUME NEW r \in 1..(n + 1), NEW last \in 1..(n + 1), r <= last
             PROVE  start[r] <= start[last]
  OBVIOUS
<1> DEFINE Bad == {s \in 1..(n + 1) : r <= s /\ ~(start[r] <= start[s])}
<1> SUFFICES ASSUME Bad # {} PROVE FALSE
  OBVIOUS
<1>1. PICK s \in Bad : \A k \in Bad : s <= k
  <2>1. Bad \in SUBSET Nat
    OBVIOUS
  <2> QED BY <2>1, LeastExists
<1>2. s # r
  <2>1. start[r] \in Nat
    OBVIOUS
  <2> QED BY <1>1, <2>1
<1>3. s - 1 \in 1..n /\ s - 1 \in 1..(n + 1) /\ r <= s - 1 /\ ~(s <= s - 1) /\ (s - 1) + 1 = s
  BY <1>1, <1>2
<1>4. start[r] <= start[s - 1]
  BY <1>1, <1>3
<1>5. start[s - 1] <= start[s]
  BY <1>3
<1>6. start[r] \in Nat /\ start[s - 1] \in Nat /\ start[s] \in Nat
  BY <1>1, <1>3
<1> QED BY <1>1, <1>4, <1>5, <1>6

\* Every edge belongs to one row.
LEMMA EdgeOwner ==
  ASSUME NEW n \in Nat, NEW start \in [1..(n + 1) -> Nat], start[1] = 1,
         \A r \in 1..n : start[r] <= start[r + 1],
         NEW e \in 1..(start[n + 1] - 1)
  PROVE  /\ \E r \in 1..n : start[r] <= e /\ e < start[r + 1]
         /\ \A r, s \in 1..n : start[r] <= e /\ e < start[r + 1] /\ start[s] <= e /\ e < start[s + 1]
              => r = s
PROOF
<1>1. e \in Nat /\ 1 <= e /\ e < start[n + 1]
  <2>1. start[n + 1] \in Nat
    OBVIOUS
  <2> QED BY <2>1
<1>2. \E r \in 1..n : start[r] <= e /\ e < start[r + 1]
  <2> DEFINE Later == {r \in 1..(n + 1) : e < start[r]}
  <2>1. n + 1 \in Later /\ Later \in SUBSET Nat
    BY <1>1
  <2>2. PICK r \in Later : \A k \in Later : r <= k
    BY <2>1, LeastExists
  <2>3. r # 1
    BY <1>1, <2>2
  <2>4. r - 1 \in 1..n /\ r - 1 \in 1..(n + 1) /\ ~(r <= r - 1) /\ (r - 1) + 1 = r
    BY <2>2, <2>3
  <2>5. ~(e < start[r - 1]) /\ start[r - 1] \in Nat
    BY <2>2, <2>4
  <2>6. start[r - 1] <= e
    BY <1>1, <2>5
  <2> QED BY <2>2, <2>4, <2>6
<1>3. ASSUME NEW r \in 1..n, NEW s \in 1..n, r < s, e < start[r + 1], start[s] <= e PROVE FALSE
  <2>1. r + 1 \in 1..(n + 1) /\ s \in 1..(n + 1) /\ r + 1 <= s
    BY <1>3
  <2>2. start[r + 1] <= start[s]
    BY <2>1, StartsGrow
  <2>3. start[r + 1] \in Nat /\ start[s] \in Nat
    BY <2>1
  <2> QED BY <1>1, <1>3, <2>2, <2>3
<1>4. \A r, s \in 1..n : r = s \/ r < s \/ s < r
  OBVIOUS
<1> QED BY <1>2, <1>3, <1>4

\* No two entries have the same ID.
DistinctIds(seq) == \A j, k \in DOMAIN seq : j # k => seq[j].id # seq[k].id

\* The record with this ID, 0 if there is none: what a look-up should find.
RecordIndex(evidence, id) ==
  IF \E k \in DOMAIN evidence : evidence[k].id = id
    THEN CHOOSE k \in DOMAIN evidence : evidence[k].id = id
    ELSE 0

\* The batch of a pack built by a builder that has built nothing before.
BatchOf(requests, evidence) ==
  BuildBatch(EmptyBatch, MapsAfter(EmptyMaps, requests, evidence), requests, evidence)

\* The IDs of a sequence enter an empty map one after the other exactly when
\* they are well formed and no two are the same.
LEMMA AllEnter ==
  ASSUME NEW seq, IsSequence(seq)
  PROVE  (\A k \in DOMAIN seq : Enters({}, seq, k))
           <=> DistinctIds(seq) /\ \A k \in DOMAIN seq : seq[k].id \in Ids
PROOF
<1>1. DOMAIN seq = 1..Len(seq) /\ Len(seq) \in Nat
  BY SequenceDomain
<1>2. ASSUME \A k \in DOMAIN seq : Enters({}, seq, k)
      PROVE  DistinctIds(seq) /\ \A k \in DOMAIN seq : seq[k].id \in Ids
  <2>1. ASSUME NEW j \in DOMAIN seq, NEW k \in DOMAIN seq, j < k PROVE seq[j].id # seq[k].id
    BY <1>1, <1>2, <2>1 DEF Enters
  <2>2. DistinctIds(seq)
    <3> SUFFICES ASSUME NEW j \in DOMAIN seq, NEW k \in DOMAIN seq, j # k
                 PROVE  seq[j].id # seq[k].id
      BY DEF DistinctIds
    <3>1. j < k \/ k < j
      BY <1>1
    <3> QED BY <2>1, <3>1
  <2> QED BY <1>2, <2>2 DEF Enters
<1>3. ASSUME DistinctIds(seq), \A k \in DOMAIN seq : seq[k].id \in Ids, NEW k \in DOMAIN seq
      PROVE  Enters({}, seq, k)
  BY <1>1, <1>3 DEF DistinctIds, Enters
<1> QED BY <1>2, <1>3

\* What BuildInto accepts, whatever its maps held before.
LEMMA BuildableMeans ==
  ASSUME NEW maps, NEW requests, IsSequence(requests),
         \A k \in DOMAIN requests : IsSequence(requests[k].refs),
         NEW evidence, IsSequence(evidence)
  PROVE  Buildable(maps, requests, evidence) <=>
           /\ Fits(requests, evidence) /\ EdgeCount(requests) <= MaxEdges
           /\ \A k \in DOMAIN requests :
                /\ requests[k].id \in Ids
                /\ \A j \in DOMAIN requests[k].refs : requests[k].refs[j] \in Ids
           /\ \A k \in DOMAIN evidence : evidence[k].id \in Ids
           /\ DistinctIds(requests) /\ DistinctIds(evidence)
PROOF
<1> DEFINE start == EdgeStarts(requests)
           n == Len(requests)
<1>1. DOMAIN requests = 1..n /\ n \in Nat
  BY SequenceDomain
<1>2. /\ start \in [1..(n + 1) -> Nat] /\ start[1] = 1
      /\ \A r \in 1..n : start[r] <= start[r + 1]
      /\ EdgeCount(requests) \in Nat /\ start[n + 1] = EdgeCount(requests) + 1
  BY EdgeStartsShape
<1> HIDE DEF start, n
<1>3. EdgeCount(requests) <= MaxEdges
        <=> \A k \in DOMAIN requests : start[k + 1] - 1 <= MaxEdges
  <2>1. ASSUME EdgeCount(requests) <= MaxEdges, NEW k \in 1..n PROVE start[k + 1] - 1 <= MaxEdges
    <3>1. k + 1 \in 1..(n + 1) /\ n + 1 \in 1..(n + 1) /\ k + 1 <= n + 1
      BY <1>1
    <3>2. start[k + 1] <= start[n + 1] /\ start[k + 1] \in Nat
      BY <1>1, <1>2, <3>1, StartsGrow
    <3> QED BY <1>2, <2>1, <3>2, LimitsAssumption
  <2>2. ASSUME \A k \in 1..n : start[k + 1] - 1 <= MaxEdges PROVE EdgeCount(requests) <= MaxEdges
    <3>1. CASE n = 0
      BY <1>2, <3>1, LimitsAssumption
    <3>2. CASE n # 0
      <4>1. n \in 1..n
        BY <1>1, <3>2
      <4> QED BY <1>2, <2>2, <4>1
    <3> QED BY <3>1, <3>2
  <2> QED BY <1>1, <2>1, <2>2
<1>4. ClearMaps(maps).requestIDs = {} /\ DOMAIN ClearMaps(maps).evidenceByID = {}
  BY DEF ClearMaps, EmptyMaps
<1>5. Buildable(maps, requests, evidence) <=>
        /\ Fits(requests, evidence)
        /\ \A k \in DOMAIN requests : Enters({}, requests, k)
        /\ \A k \in DOMAIN requests : start[k + 1] - 1 <= MaxEdges
        /\ \A k \in DOMAIN requests :
             \A j \in DOMAIN requests[k].refs : requests[k].refs[j] \in Ids
        /\ \A k \in DOMAIN evidence : Enters({}, evidence, k)
  BY <1>4, Zenon DEF Buildable, RequestsPass, RequestPasses, start
<1>6. /\ (\A k \in DOMAIN requests : Enters({}, requests, k))
           <=> DistinctIds(requests) /\ \A k \in DOMAIN requests : requests[k].id \in Ids
      /\ (\A k \in DOMAIN evidence : Enters({}, evidence, k))
           <=> DistinctIds(evidence) /\ \A k \in DOMAIN evidence : evidence[k].id \in Ids
  BY AllEnter
<1> QED BY <1>3, <1>5, <1>6, Zenon

\* The maps of earlier packs, or of a pack refused half-way, decide nothing.
LEMMA MapsForget ==
  ASSUME NEW maps, NEW requests, NEW evidence
  PROVE  /\ Buildable(maps, requests, evidence) <=> Buildable(EmptyMaps, requests, evidence)
         /\ Buildable(maps, requests, evidence) =>
              MapsAfter(maps, requests, evidence) = MapsAfter(EmptyMaps, requests, evidence)
BY DEF Buildable, MapsAfter, ClearMaps

\* In a pack that is accepted an ID is looked up among the pack's own records.
LEMMA LookUpFinds ==
  ASSUME NEW maps, NEW requests, NEW evidence, IsSequence(evidence),
         Buildable(maps, requests, evidence), NEW id
  PROVE  LookUp(MapsAfter(maps, requests, evidence), id) = RecordIndex(evidence, id)
PROOF
<1> DEFINE after == MapsAfter(maps, requests, evidence)
           indexed == {k \in DOMAIN evidence :
                         /\ RequestsPass(ClearMaps(maps), requests)
                         /\ \A j \in 1..k : Enters(DOMAIN ClearMaps(maps).evidenceByID, evidence, j)}
<1>1. DOMAIN evidence = 1..Len(evidence) /\ Len(evidence) \in Nat
  BY SequenceDomain
<1>2. DOMAIN ClearMaps(maps).evidenceByID = {}
  BY DEF ClearMaps, EmptyMaps
<1>3. indexed = DOMAIN evidence
  <2>1. /\ RequestsPass(ClearMaps(maps), requests)
        /\ \A k \in DOMAIN evidence : Enters(DOMAIN ClearMaps(maps).evidenceByID, evidence, k)
    BY DEF Buildable
  <2>2. \A k \in DOMAIN evidence : 1..k \subseteq DOMAIN evidence
    BY <1>1
  <2> QED BY <2>1, <2>2
<1> HIDE DEF indexed
<1>4. after.evidenceByID =
        [x \in DOMAIN ClearMaps(maps).evidenceByID \cup {evidence[k].id : k \in indexed} |->
           IF x \in DOMAIN ClearMaps(maps).evidenceByID THEN ClearMaps(maps).evidenceByID[x]
           ELSE CHOOSE k \in indexed : evidence[k].id = x]
  BY DEF Buildable, MapsAfter, indexed
<1>5. after.evidenceByID = [x \in {evidence[k].id : k \in DOMAIN evidence} |->
                              CHOOSE k \in DOMAIN evidence : evidence[k].id = x]
  BY <1>2, <1>3, <1>4
<1> HIDE DEF after
<1>6. CASE \E k \in DOMAIN evidence : evidence[k].id = id
  BY <1>5, <1>6 DEF LookUp, RecordIndex, after
<1>7. CASE ~\E k \in DOMAIN evidence : evidence[k].id = id
  BY <1>5, <1>7 DEF LookUp, RecordIndex, after
<1> QED BY <1>6, <1>7

\* A reference resolves to a record of the pack with its ID, or to none.
LEMMA RecordIndexRange ==
  ASSUME NEW evidence, IsSequence(evidence), NEW id
  PROVE  RecordIndex(evidence, id) \in 0..Len(evidence)
PROOF
<1>1. DOMAIN evidence = 1..Len(evidence) /\ Len(evidence) \in Nat
  BY SequenceDomain
<1> QED BY <1>1 DEF RecordIndex

\* The edges of a row are its evidence_ids, in order, each resolved against
\* the pack's evidence.
LEMMA EdgeRefsShape ==
  ASSUME NEW requests, IsSequence(requests),
         \A k \in DOMAIN requests : IsSequence(requests[k].refs),
         NEW evidence, IsSequence(evidence),
         NEW maps, \A id : LookUp(maps, id) = RecordIndex(evidence, id)
  PROVE  LET start == EdgeStarts(requests)
             refs == EdgeRefs(maps, requests)
         IN  /\ refs \in [1..EdgeCount(requests) -> 0..Len(evidence)]
             /\ \A r \in 1..Len(requests) : \A e \in start[r]..(start[r + 1] - 1) :
                  /\ e \in 1..EdgeCount(requests)
                  /\ e - start[r] + 1 \in DOMAIN requests[r].refs
                  /\ refs[e] = RecordIndex(evidence, requests[r].refs[e - start[r] + 1])
PROOF
<1> DEFINE start == EdgeStarts(requests)
           refs == EdgeRefs(maps, requests)
           n == Len(requests)
           owner(e) == CHOOSE r \in DOMAIN requests : start[r] <= e /\ e < start[r + 1]
<1>1. n \in Nat /\ DOMAIN requests = 1..n
  BY SequenceDomain
<1>2. refs = [e \in 1..EdgeCount(requests) |->
                RecordIndex(evidence, requests[owner(e)].refs[e - start[owner(e)] + 1])]
  BY DEF EdgeRefs
<1>3. /\ start \in [1..(n + 1) -> Nat] /\ start[1] = 1
      /\ \A r \in 1..n : start[r] <= start[r + 1] /\ start[r + 1] = start[r] + Len(requests[r].refs)
      /\ EdgeCount(requests) \in Nat /\ start[n + 1] = EdgeCount(requests) + 1
  BY EdgeStartsShape
<1> HIDE DEF start, refs, n
<1>4. refs \in [1..EdgeCount(requests) -> 0..Len(evidence)]
  BY <1>2, RecordIndexRange
<1>5. ASSUME NEW r \in 1..n, NEW e \in start[r]..(start[r + 1] - 1)
      PROVE  /\ e \in 1..EdgeCount(requests)
             /\ e - start[r] + 1 \in DOMAIN requests[r].refs
             /\ refs[e] = RecordIndex(evidence, requests[r].refs[e - start[r] + 1])
  <2>1. r \in 1..(n + 1) /\ r + 1 \in 1..(n + 1) /\ 1 \in 1..(n + 1) /\ n + 1 \in 1..(n + 1)
    BY <1>1
  <2>2. start[r] \in Nat /\ start[r + 1] \in Nat
    BY <1>3, <2>1
  <2>3. start[1] <= start[r] /\ start[r + 1] <= start[n + 1]
    <3>1. 1 <= r /\ r + 1 <= n + 1
      BY <1>1
    <3> QED BY <1>1, <1>3, <2>1, <3>1, StartsGrow
  <2>4. e \in Nat /\ start[r] <= e /\ e < start[r + 1]
    BY <2>2
  <2>5. e \in 1..EdgeCount(requests)
    BY <1>3, <2>2, <2>3, <2>4
  <2>6. owner(e) = r
    <3>1. e \in 1..(start[n + 1] - 1)
      BY <1>3, <2>5
    <3>2. \A s \in 1..n : start[s] <= e /\ e < start[s + 1] => s = r
      BY <1>1, <1>3, <2>4, <3>1, EdgeOwner
    <3> QED BY <1>1, <2>4, <3>2
  <2>7. DOMAIN requests[r].refs = 1..Len(requests[r].refs) /\ Len(requests[r].refs) \in Nat
    BY <1>1, SequenceDomain
  <2>8. e - start[r] + 1 \in DOMAIN requests[r].refs
    <3>1. start[r + 1] = start[r] + Len(requests[r].refs)
      BY <1>3
    <3> QED BY SMTT(40), <2>2, <2>4, <2>7, <3>1
  <2> QED BY <1>2, <2>5, <2>6, <2>8
<1> QED BY <1>4, <1>5 DEF start, refs, n

\* The evidence columns the builder leaves pass the evaluator's checks.
LEMMA BuildBatchValid ==
  ASSUME NEW old, NEW requests, NEW evidence, IsSequence(requests), IsSequence(evidence),
         \A k \in DOMAIN requests : IsSequence(requests[k].refs),
         NEW maps, \A id : LookUp(maps, id) = RecordIndex(evidence, id)
  PROVE  LET b == BuildBatch(old, maps, requests, evidence)
         IN  ValidRequestBatch(b) /\ ValidEvidenceBatch(b)
             /\ Len(b.kinds) = Len(evidence) /\ Len(b.refs) = EdgeCount(requests)
PROOF
<1> DEFINE b == BuildBatch(old, maps, requests, evidence)
           n == Len(requests)
<1>1. n \in Nat /\ Len(evidence) \in Nat /\ DOMAIN evidence = 1..Len(evidence)
  BY SequenceDomain
<1>8. ValidRequestBatch(b)
  <2>1. DOMAIN requests = 1..n
    BY SequenceDomain
  <2> QED BY <2>1 DEF BuildBatch, ResizeClear, ValidRequestBatch
<1>9. /\ DOMAIN b.qualifiers = DOMAIN b.kinds /\ DOMAIN b.qualified = DOMAIN b.kinds
      /\ DOMAIN b.flags = DOMAIN b.kinds
  BY DEF BuildBatch, ResizeClear
<1>2. b.rows = n /\ b.offsets = EdgeStarts(requests) /\ b.refs = EdgeRefs(maps, requests)
      /\ b.kinds \in [1..Len(evidence) -> {b.kinds[k] : k \in 1..Len(evidence)}]
  BY <1>1 DEF BuildBatch
<1> HIDE DEF b
<1>3. /\ b.offsets \in [1..(n + 1) -> Nat \ {0}] /\ b.offsets[1] = 1
      /\ \A r \in 1..n : b.offsets[r] <= b.offsets[r + 1]
      /\ EdgeCount(requests) \in Nat /\ b.offsets[n + 1] = EdgeCount(requests) + 1
  BY <1>2, EdgeStartsShape
<1>4. b.refs \in [1..EdgeCount(requests) -> 0..Len(evidence)]
  BY <1>2, EdgeRefsShape
<1>5. Len(b.refs) = EdgeCount(requests) /\ Len(b.kinds) = Len(evidence)
  BY <1>1, <1>2, <1>3, <1>4
<1>6. \A r \in 1..(n + 1) : b.offsets[r] \in 1..(Len(b.refs) + 1)
  <2> SUFFICES ASSUME NEW r \in 1..(n + 1) PROVE b.offsets[r] \in 1..(EdgeCount(requests) + 1)
    BY <1>5
  <2>1. r <= n + 1 /\ n + 1 \in 1..(n + 1)
    BY <1>1
  <2>2. b.offsets[r] <= b.offsets[n + 1]
    BY <1>1, <1>3, <2>1, StartsGrow
  <2>3. b.offsets[r] \in Nat \ {0}
    BY <1>3
  <2> QED BY <1>3, <2>2, <2>3
<1>7. \A e \in DOMAIN b.refs : b.refs[e] \in 0..Len(b.kinds)
  BY <1>4, <1>5
<1> QED BY <1>2, <1>3, <1>5, <1>6, <1>7, <1>8, <1>9 DEF ValidEvidenceBatch, b

-----------------------------------------------------------------------------
(* Types.                                                                  *)

\* What the constants say of the program's sequences.
LEMMA ProgramShape ==
  /\ Len(Code) \in Nat /\ Instructions \subseteq Nat \ {0}
  /\ Fields \subseteq Nat \ {0}
  /\ Len(Requirements) \in Nat /\ DOMAIN Requirements = 1..Len(Requirements)
  /\ Len(Clauses) \in Nat /\ DOMAIN Clauses = 1..Len(Clauses)
  /\ \A q \in DOMAIN Requirements :
       /\ Requirements[q].clauses \in Seq(DOMAIN Clauses)
       /\ Requirements[q].root \in Instructions
  /\ \A c \in DOMAIN Clauses :
       /\ Clauses[c].root \in Instructions
       /\ Clauses[c].resolution \in [Reasons -> Outcomes]
PROOF
<1>1. IsSequence(Code) /\ IsSequence(Requirements) /\ IsSequence(Clauses)
  BY CodeAssumption, RequirementAssumption, ClauseAssumption
<1>2. \A q \in DOMAIN Requirements : IsRequirement(Requirements[q])
  BY RequirementAssumption
<1>3. \A c \in DOMAIN Clauses : IsClause(Clauses[c])
  BY ClauseAssumption
<1> QED BY <1>1, <1>2, <1>3, SequenceDomain
        DEF Instructions, Fields, IsRequirement, ValidRequirement, IsClause, ValidClause

\* The builder shapes a batch by the pack.
LEMMA BuildBatchType ==
  ASSUME NEW old, NEW maps, NEW requests, NEW evidence, IsSequence(requests)
  PROVE  LET b == BuildBatch(old, maps, requests, evidence)
             R == 1..b.rows
         IN  /\ b.rows \in Nat
             /\ b.values \in [Fields \X R -> Symbols \cup {NoSymbol}]
             /\ b.present \in [Fields -> SUBSET R]
             /\ b.valid \in [Fields -> SUBSET R]
             /\ b.issues \in [R -> SUBSET Fields]
PROOF
<1> DEFINE b == BuildBatch(old, maps, requests, evidence)
<1> DEFINE R == 1..b.rows
<1>1. b.rows = Len(requests) /\ Len(requests) \in Nat /\ DOMAIN requests = R
  BY SequenceDomain DEF BuildBatch
<1>2. b.values \in [Fields \X R -> Symbols \cup {NoSymbol}]
  BY <1>1 DEF BuildBatch, ResizeClear, Resolved
<1>3. b.present \in [Fields -> SUBSET R] /\ b.valid \in [Fields -> SUBSET R]
  BY <1>1 DEF BuildBatch, ResizeClear
<1>4. b.issues \in [R -> SUBSET Fields]
  BY <1>1 DEF BuildBatch, ResizeClear
<1> QED BY <1>1, <1>2, <1>3, <1>4

-----------------------------------------------------------------------------
(* Type correctness.                                                       *)

\* The winner a finding of the clause loop installs is well typed.
LEMMA ClauseOutcomeType ==
  ASSUME NEW c \in DOMAIN Clauses, NEW r
  PROVE  ClauseReason(c, r) \in Reasons /\ ClauseOutcome(c, r) \in Outcomes
BY InstructionReasonRange, ProgramShape DEF ClauseReason, ClauseOutcome

\* The first field with an issue is a field with an issue.
LEMMA FirstIssue ==
  ASSUME NEW issues \in SUBSET Fields, issues # {}
  PROVE  (CHOOSE f \in issues : \A g \in issues : f <= g) \in issues
PROOF
<1>1. \E f \in issues : \A g \in issues : f <= g
  BY LeastExists, ProgramShape
<1> QED BY <1>1

\* The winner of a row without findings, and its driver, are of their types.
LEMMA NoDriverType == NoDriver \in Winners /\ ZeroDriver \in Drivers
PROOF
<1>1. NoDriver \in Winners
  BY VocabularyAssumption
  DEF NoDriver, Winners, Outcomes, OutcomeCount, OutcomeApprove, Reasons, ReasonCount,
      ReasonSatisfied, DriverKinds
<1> QED BY <1>1 DEF Drivers

\* The escalations resolveRow builds from the winner so far.
LEMMA EscalationType ==
  ASSUME NEW w \in Winners, NEW reason \in {ReasonMissing, ReasonUnclear, ReasonUnverifiable}
  PROVE  /\ \A f \in Fields :
              [w EXCEPT !.outcome = OutcomeEscalate, !.kind = "semantic", !.field = f,
                        !.reason = reason] \in Winners
         /\ \A e \in Nat :
              [w EXCEPT !.outcome = OutcomeEscalate, !.kind = "missing_reference",
                        !.reason = reason, !.edge = e] \in Winners
         /\ [w EXCEPT !.outcome = OutcomeEscalate, !.kind = "no_applicable",
                      !.reason = reason] \in Winners
PROOF
<1>1. OutcomeEscalate \in Outcomes /\ reason \in Reasons
  BY DEF Outcomes, OutcomeCount, OutcomeEscalate, Reasons, ReasonCount, ReasonMissing,
         ReasonUnclear, ReasonUnverifiable
<1>2. {"semantic", "missing_reference", "no_applicable"} \subseteq DriverKinds
  BY DEF DriverKinds
<1>3. Fields \subseteq 0..FieldCount
  BY VocabularyAssumption DEF Fields
<1> QED BY <1>1, <1>2, <1>3 DEF Winners

\* The storage of a new session is well typed.
LEMMA InitTypeOK == Init => TypeOK
BY NoDriverType DEF Init, TypeOK, Pcs, CheckedPcs, ResolvingPcs

\* A step that leaves the batch, the planes and the columns alone leaves
\* their shape alone.
LEMMA BatchFrame ==
  batch' = batch => /\ Rows' = Rows
                    /\ BatchTypeOK' <=> BatchTypeOK
                    /\ ValidEvidenceBatch(batch)' <=> ValidEvidenceBatch(batch)
BY DEF Rows, BatchTypeOK

\* The planes keep their type when neither they nor the batch change.
LEMMA ContextFrame ==
  batch' = batch /\ UNCHANGED context => (ContextTypeOK' <=> ContextTypeOK)
BY DEF Rows, ContextTypeOK, context, Planes

\* The columns keep their type when they do not change.
LEMMA ColumnsFrame ==
  batch' = batch /\ UNCHANGED <<drivers, reqIds, reqOffsets>>
    => (ColumnsTypeOK' <=> ColumnsTypeOK)
BY DEF Rows, ColumnsTypeOK

\* A kernel that finds a reason for every row leaves well-typed planes.
LEMMA WithReasonsType ==
  ASSUME ContextTypeOK, NEW found
  PROVE  WithReasons(found) \in [Instructions -> [Reasons -> SUBSET Rows]]
BY DEF ContextTypeOK, WithReasons

\* Each action in turn; the columns an action leaves alone keep their type.
LEMMA NextTypeOK == TypeOK /\ [Next]_vars => TypeOK'
PROOF
<1> SUFFICES ASSUME TypeOK, [Next]_vars PROVE TypeOK'
  OBVIOUS
<1> USE DEF Pcs, CheckedPcs, ResolvingPcs
<1>1. ASSUME NEW p \in Packs, RejectInput(p) PROVE TypeOK'
  BY <1>1, BatchFrame, ContextFrame, ColumnsFrame
  DEF RejectInput, TypeOK, cursors, numeric, columns
<1>2. ASSUME NEW p \in Packs, BuildInto(p) PROVE TypeOK'
  <2>1. IsSequence(p.requests)
    BY PackAssumption DEF IsPack
  <2>2. BatchTypeOK'
    BY <1>2, <2>1, BuildBatchType DEF BuildInto, BatchTypeOK, Rows
  <2> QED BY <1>2, <2>2 DEF BuildInto, TypeOK, cursors
<1>3. CASE EnsureCapacity
  <2>1. ContextTypeOK'
    BY <1>3 DEF EnsureCapacity, ContextTypeOK, ResizeClear, Rows, Planes
  <2>2. ColumnsTypeOK'
    BY <1>3, NoDriverType DEF EnsureCapacity, ColumnsTypeOK, ResizeClear, Rows
  <2> QED BY <1>3, <2>1, <2>2, BatchFrame DEF EnsureCapacity, TypeOK, cursors
<1>4. CASE CheckShapes
  <2>1. ContextTypeOK'
    <3>1. CASE UNCHANGED context
      BY <1>4, <3>1, ContextFrame DEF CheckShapes, TypeOK
    <3>2. CASE ~UNCHANGED context
      BY <1>4, <3>2 DEF CheckShapes, ContextTypeOK, ResizeClear, Rows, Planes
    <3> QED BY <3>1, <3>2
  <2> QED BY <1>4, <2>1, BatchFrame, ColumnsFrame
          DEF CheckShapes, Fail, TypeOK, numeric, columns
<1>5. CASE ExecuteField
  <2>1. ip \in Instructions /\ ContextTypeOK
    BY <1>5 DEF ExecuteField, Executing, TypeOK
  <2>2. ContextTypeOK'
    BY <1>5, <2>1, BatchFrame, WithReasonsType
    DEF ExecuteField, Executed, ContextTypeOK, Planes, RowsWith, Rows
  <2> QED BY <1>5, <2>2, BatchFrame, ColumnsFrame
          DEF ExecuteField, Executing, Executed, TypeOK, numeric, columns
<1>6. CASE ExecuteEvidence
  <2>1. ip \in Instructions /\ ContextTypeOK
    BY <1>6 DEF ExecuteEvidence, Executing, TypeOK
  <2>2. ContextTypeOK'
    BY <1>6, <2>1, BatchFrame, WithReasonsType
    DEF ExecuteEvidence, Executed, ContextTypeOK, Planes, RowsWith, Rows
  <2> QED BY <1>6, <2>2, BatchFrame, ColumnsFrame
          DEF ExecuteEvidence, Executing, Executed, TypeOK, numeric, columns
<1>7. CASE ExecuteAll
  <2>1. ip \in Instructions /\ ContextTypeOK
    BY <1>7 DEF ExecuteAll, Executing, TypeOK
  <2>2. ContextTypeOK'
    BY <1>7, <2>1, BatchFrame, WithReasonsType
    DEF ExecuteAll, Executed, ContextTypeOK, Planes, Rows
  <2> QED BY <1>7, <2>2, BatchFrame, ColumnsFrame
          DEF ExecuteAll, Executing, Executed, TypeOK, numeric, columns
<1>8. CASE ResetResults
  <2>1. ColumnsTypeOK'
    BY <1>8, NoDriverType DEF ResetResults, ColumnsTypeOK, ResizeClear, Rows
  <2> QED BY <1>8, <2>1, BatchFrame, ContextFrame DEF ResetResults, TypeOK
<1>9. CASE ResolveSemantics
  <2>1. row \in Rows /\ batch.issues[row] \in SUBSET Fields
    BY SMTT(40), <1>9 DEF ResolveSemantics, TypeOK, BatchTypeOK
  <2>2. winner' \in Winners
    BY <1>9, <2>1, FirstIssue, NoDriverType, EscalationType DEF ResolveSemantics
  <2>3. edge' \in Nat \ {0}
    <3>1. ValidEvidenceBatch(batch) /\ BatchTypeOK
      BY <1>9 DEF ResolveSemantics, TypeOK
    <3>2. row \in 1..(batch.rows + 1)
      BY <2>1, <3>1 DEF BatchTypeOK, Rows
    <3>3. batch.offsets[row] \in 1..(Len(batch.refs) + 1)
      BY <3>1, <3>2 DEF ValidEvidenceBatch
    <3> QED BY <1>9, <3>3 DEF ResolveSemantics
  <2> QED BY <1>9, <2>1, <2>2, <2>3, BatchFrame, ContextFrame, ColumnsFrame
          DEF ResolveSemantics, TypeOK, numeric, columns
<1>10. CASE ResolveEdge
  <2>1. winner' \in Winners
    BY <1>10, EscalationType DEF ResolveEdge, TypeOK
  <2> QED BY SMTT(40), <1>10, <2>1, BatchFrame, ContextFrame, ColumnsFrame
          DEF ResolveEdge, TypeOK, numeric, columns
<1>11. CASE BeginRequirements
  <2>1. ColumnsTypeOK'
    <3>1. ColumnsTypeOK /\ Len(reqIds) \in Nat
      BY <1>11 DEF BeginRequirements, TypeOK, ColumnsTypeOK
    <3> QED BY <1>11, <3>1, BatchFrame DEF BeginRequirements, ColumnsTypeOK
  <2> QED BY <1>11, <2>1, BatchFrame, ContextFrame DEF BeginRequirements, TypeOK
<1>12. CASE SelectRequirement
  <2>1. ColumnsTypeOK'
    <3>1. ColumnsTypeOK /\ requirement \in DOMAIN Requirements
      BY <1>12 DEF SelectRequirement, TypeOK
    <3>2. reqIds' \in Seq(DOMAIN Requirements)
      BY SMTT(40), <1>12, <3>1 DEF SelectRequirement, ColumnsTypeOK
    <3> QED BY <1>12, <3>1, <3>2, BatchFrame DEF SelectRequirement, ColumnsTypeOK
  <2> QED BY <1>12, <2>1, BatchFrame, ContextFrame DEF SelectRequirement, TypeOK
<1>13. CASE ResolveClause
  <2>1. requirement \in DOMAIN Requirements /\ clause \in DOMAIN Requirements[requirement].clauses
    BY <1>13 DEF ResolveClause, TypeOK
  <2>2. Requirements[requirement].clauses[clause] \in DOMAIN Clauses
    BY <2>1, ProgramShape
  <2>3. winner' \in Winners
    <3> DEFINE c == Requirements[requirement].clauses[clause]
    <3>1. ClauseReason(c, row) \in Reasons /\ ClauseOutcome(c, row) \in Outcomes
      BY <2>2, ClauseOutcomeType
    <3>2. c \in Nat /\ requirement \in Nat /\ 0 \in 0..FieldCount /\ "clause" \in DriverKinds
      BY <2>1, <2>2, ProgramShape, VocabularyAssumption DEF DriverKinds
    <3>3. winner \in Winners
      BY DEF TypeOK
    <3> QED BY <1>13, <3>1, <3>2, <3>3 DEF ResolveClause, Winners
  <2> QED BY <1>13, <2>3, BatchFrame, ContextFrame, ColumnsFrame
          DEF ResolveClause, TypeOK, numeric, columns
<1>14. CASE NextRequirement
  BY <1>14, BatchFrame, ContextFrame, ColumnsFrame DEF NextRequirement, TypeOK, numeric, columns
<1>15. CASE FinishRequirements
  <2>1. winner' \in Winners
    BY <1>15, EscalationType DEF FinishRequirements, TypeOK, NoneApplicableWinner
  <2>2. ColumnsTypeOK'
    <3>1. ColumnsTypeOK /\ Len(reqIds) \in Nat
      BY <1>15 DEF FinishRequirements, TypeOK, ColumnsTypeOK
    <3> QED BY <1>15, <3>1, BatchFrame DEF FinishRequirements, ColumnsTypeOK
  <2>3. edge' \in Nat \ {0} /\ row \in Rows
    <3>1. ValidEvidenceBatch(batch) /\ BatchTypeOK /\ row \in Rows
      BY <1>15 DEF FinishRequirements, TypeOK
    <3>2. row \in 1..(batch.rows + 1)
      BY <3>1 DEF BatchTypeOK, Rows
    <3>3. batch.offsets[row] \in 1..(Len(batch.refs) + 1)
      BY <3>1, <3>2 DEF ValidEvidenceBatch
    <3> QED BY <1>15, <3>1, <3>3 DEF FinishRequirements
  <2> QED BY <1>15, <2>1, <2>2, <2>3, BatchFrame, ContextFrame DEF FinishRequirements, TypeOK
<1>16. CASE ResolveEvidence
  BY <1>16, BatchFrame, ContextFrame, ColumnsFrame DEF ResolveEvidence, TypeOK
<1>17. CASE FinishRow
  <2>1. ColumnsTypeOK'
    <3>1. ColumnsTypeOK /\ winner \in Winners
      BY <1>17 DEF FinishRow, TypeOK
    <3>2. drivers' \in [Rows -> Drivers]
      BY <1>17, <3>1 DEF FinishRow, ColumnsTypeOK, Drivers
    <3> QED BY <1>17, <3>1, <3>2, BatchFrame DEF FinishRow, ColumnsTypeOK
  <2> QED BY <1>17, <2>1, BatchFrame, ContextFrame DEF FinishRow, TypeOK
<1>18. CASE BeginMaterialize
  BY <1>18, BatchFrame, ContextFrame, ColumnsFrame
  DEF BeginMaterialize, Fail, TypeOK, numeric, columns
<1>19. CASE MaterializeRow
  BY <1>19, BatchFrame, ContextFrame, ColumnsFrame
  DEF MaterializeRow, Fail, TypeOK, numeric, columns
<1>20. CASE Return
  BY <1>20, BatchFrame, ContextFrame, ColumnsFrame
  DEF Return, TypeOK, cursors, numeric, columns
<1>21. CASE UNCHANGED vars
  BY <1>21, BatchFrame, ContextFrame, ColumnsFrame
  DEF vars, TypeOK, cursors, numeric, columns
<1> QED BY <1>1, <1>2, <1>3, <1>4, <1>5, <1>6, <1>7, <1>8, <1>9, <1>10, <1>11, <1>12,
           <1>13, <1>14, <1>15, <1>16, <1>17, <1>18, <1>19, <1>20, <1>21
        DEF Next, Submit, Evaluate, ResolveRow

\* TypeOK holds in every reachable state of a session: whatever packs it is
\* given, in whatever order, its reused columns keep the shape of the pack.
THEOREM TypeCorrect == Spec => []TypeOK
BY InitTypeOK, NextTypeOK, PTL DEF Spec

-----------------------------------------------------------------------------
(* Truth and reason planes.                                                *)

Fresh(i) ==
  positive[i] = {} /\ negative[i] = {} /\ \A reason \in Reasons : reasons[i][reason] = {}

\* ReasonMatchesTruth is not inductive: a kernel adds to its planes, so they
\* must be empty until it runs.
PlanesInv ==
  /\ ReasonMatchesTruth
  /\ pc \in {"ensured", "execute"} => \A i \in Instructions : HasRun(i) \/ Fresh(i)

\* A kernel that gives every row one reason, and the truth bits of that
\* reason, in empty planes.
LEMMA KernelStep ==
  ASSUME ContextTypeOK, batch' = batch, NEW i \in Instructions, i = ip, Fresh(i),
         NEW found, \A r \in Rows : found[r] \in Reasons,
         reasons' = WithReasons(found),
         positive'[i] = RowsWith(found, {ReasonSatisfied, ReasonConflict}),
         negative'[i] = RowsWith(found, {ReasonFalse, ReasonConflict})
  PROVE  /\ \A r \in Rows : OneReason(i, r)'
         /\ \A j \in Instructions \ {i} : reasons'[j] = reasons[j]
PROOF
<1>1. \A reason \in Reasons : reasons'[i][reason] = {r \in Rows : found[r] = reason}
  BY DEF ContextTypeOK, WithReasons, Fresh
<1>2. ASSUME NEW r \in Rows PROVE OneReason(i, r)'
  <2>1. HeldReasons(i, r)' = {found[r]}
    BY <1>1, <1>2 DEF HeldReasons
  <2>2. r \in positive'[i] <=> found[r] \in {ReasonSatisfied, ReasonConflict}
    BY <1>2 DEF RowsWith
  <2>3. r \in negative'[i] <=> found[r] \in {ReasonFalse, ReasonConflict}
    BY <1>2 DEF RowsWith
  <2>4. found[r] \in Reasons
    BY <1>2
  <2> QED BY <2>1, <2>2, <2>3, <2>4, Zenon DEF OneReason
<1>3. \A j \in Instructions \ {i} : reasons'[j] = reasons[j]
  BY DEF ContextTypeOK, WithReasons
<1> QED BY <1>2, <1>3

\* The operands of a conjunction come before it.
LEMMA OperandsBefore ==
  ASSUME NEW i \in Instructions, Code[i].op = "all"
  PROVE  Code[i].operands \subseteq 1..(i - 1)
BY CodeAssumption DEF IsInstruction

\* A conjunction's reason agrees with its truth bits.  The case that could
\* fail is the open one: its priority list begins with a conflict, but an
\* operand in conflict has set the negative plane.
LEMMA ConjunctionReason ==
  ASSUME TypeOK, PlanesInv, pc = "execute", ip \in Instructions, Code[ip].op = "all",
         NEW pos, pos = {r \in Rows : \A o \in Code[ip].operands : r \in positive[o]},
         NEW neg, neg = {r \in Rows : \E o \in Code[ip].operands : r \in negative[o]},
         NEW r \in Rows
  PROVE  LET found == AllReason(pos, neg, reasons, Code[ip].operands, r) IN
         /\ found \in Reasons
         /\ r \in pos <=> found \in {ReasonSatisfied, ReasonConflict}
         /\ r \in neg <=> found \in {ReasonFalse, ReasonConflict}
PROOF
<1> DEFINE operands == Code[ip].operands
<1>1. r \notin neg => UnsettledReason(reasons, operands, r) # ReasonConflict
  <2> SUFFICES ASSUME NEW o \in operands, r \in reasons[o][ReasonConflict]
               PROVE  r \in neg
    BY UnsettledReasonRange
  <2>1. o \in Instructions /\ HasRun(o)
    BY OperandsBefore, ProgramShape DEF HasRun, Instructions
  <2>2. PICK reason \in Reasons :
          /\ HeldReasons(o, r) = {reason}
          /\ r \in negative[o] <=> reason \in {ReasonFalse, ReasonConflict}
    BY <2>1 DEF PlanesInv, ReasonMatchesTruth, OneReason
  <2>3. ReasonConflict \in HeldReasons(o, r)
    BY DEF HeldReasons, Reasons, ReasonCount, ReasonConflict
  <2> QED BY <2>2, <2>3
<1>2. UnsettledReason(reasons, operands, r) \in Reasons \ {ReasonSatisfied, ReasonFalse}
  BY UnsettledReasonRange
<1> HIDE DEF operands
<1> QED BY <1>1, <1>2 DEF AllReason, Reasons, ReasonCount, ReasonSatisfied, ReasonFalse,
                          ReasonConflict, operands

\* Steps that touch no plane and start no instruction.
LEMMA PlanesFrame ==
  ASSUME PlanesInv, UNCHANGED <<batch, context>>, pc' \notin {"ensured", "execute"},
         \A i \in Instructions : HasRun(i)' => HasRun(i) \/ Rows = {}
  PROVE  PlanesInv'
BY DEF PlanesInv, ReasonMatchesTruth, OneReason, HeldReasons, Rows, context

\* An instruction writes the planes of its own node only.
LEMMA ExecutePlanesInv ==
  ASSUME TypeOK, PlanesInv, ExecuteField \/ ExecuteEvidence \/ ExecuteAll
  PROVE  PlanesInv'
PROOF
<1>1. /\ pc = "execute" /\ pc' = "execute" /\ ip \in Instructions /\ ip' = ip + 1
      /\ batch' = batch /\ Rows' = Rows /\ ip \in Nat
  BY ProgramShape DEF ExecuteField, ExecuteEvidence, ExecuteAll, Executing, Executed, Rows
<1>2. PICK i \in Instructions : i = ip
  BY <1>1
<1>3. ContextTypeOK /\ Fresh(i)
  BY <1>1, <1>2 DEF TypeOK, PlanesInv, HasRun, ResolvingPcs
<1>4. \A j \in Instructions : HasRun(j)' <=> HasRun(j) \/ j = i
  <2>1. \A j : (HasRun(j) <=> j < ip) /\ (HasRun(j)' <=> j < ip + 1)
    BY <1>1 DEF HasRun, ResolvingPcs
  <2>2. \A j \in Instructions : j < ip + 1 <=> j < ip \/ j = ip
    <3>1. Instructions \subseteq Nat /\ ip \in Nat
      BY <1>1, ProgramShape
    <3>2. \A j, n \in Nat : j < n + 1 <=> j < n \/ j = n
      OBVIOUS
    <3> QED BY <3>1, <3>2, Zenon
  <2> QED BY <1>2, <2>1, <2>2
<1>5. /\ \A r \in Rows : OneReason(i, r)'
      /\ \A j \in Instructions \ {i} :
           reasons'[j] = reasons[j] /\ positive'[j] = positive[j] /\ negative'[j] = negative[j]
  <2>1. CASE ExecuteField
    <3> DEFINE found == [r \in Rows |-> FieldReason(batch, Code[ip], r)]
    <3>1. \A r \in Rows : found[r] \in {ReasonSatisfied, ReasonFalse, ReasonMissing, ReasonUnclear}
      BY FieldReasonRange
    <3>2. /\ reasons' = WithReasons(found)
          /\ positive' = [positive EXCEPT ![ip] = @ \cup RowsWith(found, {ReasonSatisfied})]
          /\ negative' = [negative EXCEPT ![ip] = @ \cup RowsWith(found, {ReasonFalse})]
      BY <2>1 DEF ExecuteField
    <3> HIDE DEF found
    <3>3. /\ positive'[i] = RowsWith(found, {ReasonSatisfied, ReasonConflict})
          /\ negative'[i] = RowsWith(found, {ReasonFalse, ReasonConflict})
      BY <1>1, <1>2, <1>3, <3>1, <3>2
      DEF Fresh, RowsWith, ContextTypeOK, Planes, ReasonSatisfied, ReasonFalse, ReasonMissing,
          ReasonUnclear, ReasonConflict
    <3>4. \A r \in Rows : found[r] \in Reasons
      BY <3>1 DEF Reasons, ReasonCount, ReasonSatisfied, ReasonFalse, ReasonMissing, ReasonUnclear
    <3> QED BY <1>1, <1>2, <1>3, <3>2, <3>3, <3>4, KernelStep DEF ContextTypeOK, Planes
  <2>2. CASE ExecuteEvidence
    <3> DEFINE found == [r \in Rows |-> EvidenceReason(batch, Code[ip], r)]
    <3>1. \A r \in Rows : found[r] \in Reasons \ {ReasonFalse}
      BY EvidenceReasonRange
    <3>2. /\ reasons' = WithReasons(found)
          /\ positive' = [positive EXCEPT ![ip] =
                            @ \cup RowsWith(found, {ReasonSatisfied, ReasonConflict})]
          /\ negative' = [negative EXCEPT ![ip] = @ \cup RowsWith(found, {ReasonConflict})]
      BY <2>2 DEF ExecuteEvidence
    <3> HIDE DEF found
    <3>3. /\ positive'[i] = RowsWith(found, {ReasonSatisfied, ReasonConflict})
          /\ negative'[i] = RowsWith(found, {ReasonFalse, ReasonConflict})
      BY <1>1, <1>2, <1>3, <3>1, <3>2 DEF Fresh, RowsWith, ContextTypeOK, Planes
    <3> QED BY <1>1, <1>2, <1>3, <3>1, <3>2, <3>3, KernelStep DEF ContextTypeOK, Planes
  <2>3. CASE ExecuteAll
    <3> DEFINE pos == {r \in Rows : \A o \in Code[ip].operands : r \in positive[o]}
               neg == {r \in Rows : \E o \in Code[ip].operands : r \in negative[o]}
               found == [r \in Rows |-> AllReason(pos, neg, reasons, Code[ip].operands, r)]
    <3>1. Code[ip].op = "all"
      BY <2>3 DEF ExecuteAll, Executing
    <3>2. \A r \in Rows : /\ found[r] \in Reasons
                          /\ r \in pos <=> found[r] \in {ReasonSatisfied, ReasonConflict}
                          /\ r \in neg <=> found[r] \in {ReasonFalse, ReasonConflict}
      BY <1>1, <3>1, ConjunctionReason
    <3>3. /\ reasons' = WithReasons(found)
          /\ positive' = [positive EXCEPT ![ip] = pos]
          /\ negative' = [negative EXCEPT ![ip] = neg]
      BY <2>3 DEF ExecuteAll
    <3>4. pos \subseteq Rows /\ neg \subseteq Rows
      OBVIOUS
    <3> HIDE DEF found, pos, neg
    <3>5. /\ positive'[i] = RowsWith(found, {ReasonSatisfied, ReasonConflict})
          /\ negative'[i] = RowsWith(found, {ReasonFalse, ReasonConflict})
      BY <1>1, <1>2, <1>3, <3>2, <3>3, <3>4 DEF RowsWith, ContextTypeOK, Planes
    <3> QED BY <1>1, <1>2, <1>3, <3>2, <3>3, <3>5, KernelStep DEF ContextTypeOK, Planes
  <2> QED BY <2>1, <2>2, <2>3
<1>6. ReasonMatchesTruth'
  <2> SUFFICES ASSUME NEW j \in Instructions, HasRun(j)', NEW r \in Rows PROVE OneReason(j, r)'
    BY <1>1 DEF ReasonMatchesTruth
  <2>1. CASE j = i
    BY <1>5, <2>1
  <2>2. CASE j # i
    BY <1>4, <1>5, <2>2 DEF PlanesInv, ReasonMatchesTruth, OneReason, HeldReasons
  <2> QED BY <2>1, <2>2
<1>7. \A j \in Instructions : HasRun(j)' \/ Fresh(j)'
  BY <1>1, <1>4, <1>5 DEF PlanesInv, Fresh
<1> QED BY <1>1, <1>6, <1>7 DEF PlanesInv

\* No plane is written before the first call.
LEMMA InitPlanesInv == Init => PlanesInv
BY DEF Init, PlanesInv, ReasonMatchesTruth, HasRun, ResolvingPcs

\* The invariant is inductive on top of the types.
LEMMA NextPlanesInv == TypeOK /\ PlanesInv /\ [Next]_vars => PlanesInv'
PROOF
<1> SUFFICES ASSUME TypeOK, PlanesInv, [Next]_vars PROVE PlanesInv'
  OBVIOUS
<1> USE DEF ResolvingPcs
<1>1. ASSUME NEW p \in Packs, RejectInput(p) PROVE PlanesInv'
  BY <1>1, PlanesFrame DEF RejectInput, HasRun
<1>2. ASSUME NEW p \in Packs, BuildInto(p) PROVE PlanesInv'
  BY <1>2 DEF BuildInto, PlanesInv, ReasonMatchesTruth, HasRun
<1>3. CASE EnsureCapacity
  <2>1. \A i \in Instructions : Fresh(i)'
    BY <1>3 DEF EnsureCapacity, Fresh, ResizeClear
  <2> QED BY <1>3, <2>1 DEF EnsureCapacity, PlanesInv, ReasonMatchesTruth, HasRun
<1>4. CASE CheckShapes
  <2>1. \A i \in Instructions : Fresh(i)'
    <3>1. CASE UNCHANGED context
      BY <1>4, <3>1 DEF CheckShapes, PlanesInv, HasRun, Fresh, context
    <3>2. CASE ~UNCHANGED context
      BY <1>4, <3>2 DEF CheckShapes, Fresh, ResizeClear
    <3> QED BY <3>1, <3>2
  <2>2. \A i \in Instructions : ~HasRun(i)'
    BY <1>4, ProgramShape DEF CheckShapes, Fail, HasRun
  <2> QED BY <2>1, <2>2 DEF PlanesInv, ReasonMatchesTruth
<1>5. CASE ExecuteField \/ ExecuteEvidence \/ ExecuteAll
  BY <1>5, ExecutePlanesInv
<1>6. CASE ResetResults
  <2>1. pc = "execute" /\ (ip > Len(Code) \/ batch.rows = 0) /\ ip \in Nat
    BY <1>6 DEF ResetResults, InstructionsDone, TypeOK
  <2>2. \A i \in Instructions : HasRun(i) \/ Rows = {}
    BY <2>1, ProgramShape DEF HasRun, Instructions, Rows
  <2> QED BY <1>6, <2>2, PlanesFrame DEF ResetResults
<1>7. CASE ResolveRow
  BY <1>7, PlanesFrame
  DEF ResolveRow, ResolveSemantics, ResolveEdge, BeginRequirements, SelectRequirement,
      ResolveClause, NextRequirement, FinishRequirements, ResolveEvidence, FinishRow, HasRun
<1>8. CASE BeginMaterialize \/ MaterializeRow \/ Return
  BY <1>8, PlanesFrame DEF BeginMaterialize, MaterializeRow, Return, Fail, HasRun
<1>9. CASE UNCHANGED vars
  BY <1>9 DEF vars, context, cursors, PlanesInv, ReasonMatchesTruth, OneReason, HeldReasons,
              HasRun, Fresh, Rows
<1> QED BY <1>1, <1>2, <1>3, <1>4, <1>5, <1>6, <1>7, <1>8, <1>9 DEF Next, Submit, Evaluate

\* The invariant holds in every reachable state.
LEMMA PlanesCorrect == Spec => []PlanesInv
BY TypeCorrect, InitPlanesInv, NextPlanesInv, PTL DEF Spec

\* Every instruction that has run gives every row exactly one reason, and
\* the truth bits agree with it: applicability, which reads the truth bits,
\* and clauses, which read the reasons, never see different results.
THEOREM PlanesAgree == Spec => []ReasonMatchesTruth
PROOF
<1>1. PlanesInv => ReasonMatchesTruth
  BY DEF PlanesInv
<1> QED BY <1>1, PlanesCorrect, PTL

-----------------------------------------------------------------------------
(* Conjunctions.                                                           *)

IntersectsOperands(i) ==
  /\ positive[i] = {r \in Rows : \A o \in Code[i].operands : r \in positive[o]}
  /\ negative[i] = {r \in Rows : \E o \in Code[i].operands : r \in negative[o]}

\* A conjunction that has run still holds the planes of its operands: they
\* come before it, and no kernel writes to a plane twice.
ConjunctionInv ==
  \A i \in Instructions : HasRun(i) /\ Code[i].op = "all" => IntersectsOperands(i)

\* Conjunctions stay settled while no plane changes.
LEMMA ConjunctionFrame ==
  ASSUME ContextTypeOK, ConjunctionInv, UNCHANGED <<batch, context>>,
         \A i \in Instructions : HasRun(i)' => HasRun(i) \/ Rows = {}
  PROVE  ConjunctionInv'
PROOF
<1> SUFFICES ASSUME NEW i \in Instructions, HasRun(i)', Code[i].op = "all"
             PROVE  IntersectsOperands(i)'
  BY DEF ConjunctionInv
<1>1. CASE HasRun(i)
  BY <1>1 DEF ConjunctionInv, IntersectsOperands, Rows, context
<1>2. CASE Rows = {}
  BY <1>2 DEF ContextTypeOK, Planes, IntersectsOperands, Rows, context
<1> QED BY <1>1, <1>2

\* An instruction settles its node and disturbs no conjunction before it.
LEMMA ExecuteConjunctionInv ==
  ASSUME TypeOK, ConjunctionInv, ExecuteField \/ ExecuteEvidence \/ ExecuteAll
  PROVE  ConjunctionInv'
PROOF
<1>1. /\ pc = "execute" /\ pc' = "execute" /\ ip \in Instructions /\ ip' = ip + 1
      /\ batch' = batch /\ Rows' = Rows
  BY DEF ExecuteField, ExecuteEvidence, ExecuteAll, Executing, Executed, Rows
<1>2. PICK i \in Instructions : i = ip
  BY <1>1
<1>3. ContextTypeOK
  BY <1>1 DEF TypeOK
<1>4. \A j \in Instructions : HasRun(j)' <=> HasRun(j) \/ j = i
  <2>1. \A j : (HasRun(j) <=> j < ip) /\ (HasRun(j)' <=> j < ip + 1)
    BY <1>1 DEF HasRun, ResolvingPcs
  <2>2. \A j \in Instructions : j < ip + 1 <=> j < ip \/ j = ip
    <3>1. Instructions \subseteq Nat /\ ip \in Nat
      BY <1>1, ProgramShape
    <3>2. \A j, n \in Nat : j < n + 1 <=> j < n \/ j = n
      OBVIOUS
    <3> QED BY <3>1, <3>2, Zenon
  <2> QED BY <1>2, <2>1, <2>2
<1>5. \A j \in Instructions \ {i} : positive'[j] = positive[j] /\ negative'[j] = negative[j]
  BY <1>2, <1>3 DEF ExecuteField, ExecuteEvidence, ExecuteAll, ContextTypeOK, Planes
<1> SUFFICES ASSUME NEW j \in Instructions, HasRun(j)', Code[j].op = "all"
             PROVE  IntersectsOperands(j)'
  BY DEF ConjunctionInv
<1>6. \A o \in Code[j].operands : o \in Instructions \ {i}
  <2>1. j <= i
    BY <1>1, <1>2, <1>4, ProgramShape DEF HasRun, ResolvingPcs
  <2> QED BY <2>1, OperandsBefore, ProgramShape DEF Instructions
<1>7. CASE j = i
  <2>1. ExecuteAll
    BY <1>2, <1>7 DEF ExecuteField, ExecuteEvidence, Executing
  <2>2. /\ positive'[i] = {r \in Rows : \A o \in Code[i].operands : r \in positive[o]}
        /\ negative'[i] = {r \in Rows : \E o \in Code[i].operands : r \in negative[o]}
    BY <1>2, <1>3, <2>1 DEF ExecuteAll, ContextTypeOK, Planes
  <2> QED BY <1>1, <1>5, <1>6, <1>7, <2>2 DEF IntersectsOperands
<1>8. CASE j # i
  <2>1. IntersectsOperands(j)
    BY <1>4, <1>8 DEF ConjunctionInv
  <2> QED BY <1>1, <1>5, <1>6, <1>8, <2>1 DEF IntersectsOperands
<1> QED BY <1>7, <1>8

\* The invariant is inductive on top of the types and the planes.
LEMMA NextConjunctionInv == TypeOK /\ ConjunctionInv /\ [Next]_vars => ConjunctionInv'
PROOF
<1> SUFFICES ASSUME TypeOK, ConjunctionInv, [Next]_vars PROVE ConjunctionInv'
  OBVIOUS
<1> USE DEF ResolvingPcs
<1>1. ASSUME NEW p \in Packs, RejectInput(p) \/ BuildInto(p) PROVE ConjunctionInv'
  BY <1>1 DEF RejectInput, BuildInto, ConjunctionInv, HasRun
<1>2. CASE EnsureCapacity
  BY <1>2 DEF EnsureCapacity, ConjunctionInv, HasRun
<1>3. CASE CheckShapes
  BY <1>3, ProgramShape DEF CheckShapes, Fail, ConjunctionInv, HasRun
<1>4. CASE ExecuteField \/ ExecuteEvidence \/ ExecuteAll
  BY <1>4, ExecuteConjunctionInv
<1>5. CASE ResetResults
  <2>1. pc = "execute" /\ (ip > Len(Code) \/ batch.rows = 0) /\ ip \in Nat /\ ContextTypeOK
    BY <1>5 DEF ResetResults, InstructionsDone, TypeOK
  <2>2. \A i \in Instructions : HasRun(i) \/ Rows = {}
    BY <2>1, ProgramShape DEF HasRun, Instructions, Rows
  <2> QED BY <1>5, <2>1, <2>2, ConjunctionFrame DEF ResetResults
<1>6. CASE ResolveRow \/ BeginMaterialize \/ MaterializeRow \/ Return
  <2>1. ContextTypeOK /\ pc # "idle"
    BY <1>6
    DEF ResolveRow, ResolveSemantics, ResolveEdge, BeginRequirements, SelectRequirement,
        ResolveClause, NextRequirement, FinishRequirements, ResolveEvidence, FinishRow,
        BeginMaterialize, MaterializeRow, Return, TypeOK
  <2> QED BY <1>6, <2>1, ConjunctionFrame
          DEF ResolveRow, ResolveSemantics, ResolveEdge, BeginRequirements, SelectRequirement,
              ResolveClause, NextRequirement, FinishRequirements, ResolveEvidence, FinishRow,
              BeginMaterialize, MaterializeRow, Return, Fail, HasRun
<1>7. CASE UNCHANGED vars
  BY <1>7 DEF vars, context, cursors, ConjunctionInv, IntersectsOperands, HasRun, Rows
<1> QED BY <1>1, <1>2, <1>3, <1>4, <1>5, <1>6, <1>7 DEF Next, Submit, Evaluate

\* A false operand makes its conjunction false, and one in conflict settles it.
LEMMA SettledByPlanes ==
  ASSUME TypeOK, ReasonMatchesTruth, ConjunctionInv
  PROVE  SettledOperandSettlesAll
PROOF
<1> SUFFICES ASSUME NEW i \in Instructions, HasRun(i), Code[i].op = "all", NEW r \in Rows,
                    NEW o \in Code[i].operands
             PROVE  /\ r \in reasons[o][ReasonFalse] => HeldReasons(i, r) = {ReasonFalse}
                    /\ r \in reasons[o][ReasonConflict] =>
                         HeldReasons(i, r) \subseteq {ReasonFalse, ReasonConflict}
  BY DEF SettledOperandSettlesAll
<1>1. o \in Instructions /\ HasRun(o)
  BY OperandsBefore, ProgramShape DEF HasRun, Instructions, TypeOK
<1>2. OneReason(i, r) /\ OneReason(o, r) /\ IntersectsOperands(i)
  BY <1>1 DEF ReasonMatchesTruth, ConjunctionInv
<1>3. {ReasonSatisfied, ReasonFalse, ReasonConflict} \subseteq Reasons
      /\ ReasonSatisfied # ReasonFalse /\ ReasonFalse # ReasonConflict
  BY DEF Reasons, ReasonCount, ReasonSatisfied, ReasonFalse, ReasonConflict
<1>4. ASSUME r \in reasons[o][ReasonFalse] PROVE HeldReasons(i, r) = {ReasonFalse}
  <2>1. r \in negative[o] /\ r \notin positive[o]
    BY <1>2, <1>3, <1>4 DEF OneReason, HeldReasons
  <2>2. r \in negative[i] /\ r \notin positive[i]
    BY <1>2, <2>1 DEF IntersectsOperands
  <2> QED BY <1>2, <2>2 DEF OneReason
<1>5. ASSUME r \in reasons[o][ReasonConflict]
      PROVE  HeldReasons(i, r) \subseteq {ReasonFalse, ReasonConflict}
  <2>1. r \in negative[o]
    BY <1>2, <1>3, <1>5 DEF OneReason, HeldReasons
  <2>2. r \in negative[i]
    BY <1>2, <2>1 DEF IntersectsOperands
  <2> QED BY <1>2, <2>2 DEF OneReason
<1> QED BY <1>4, <1>5

\* No conjunction stays open over an operand that is false or in conflict.
THEOREM ConjunctionsSettle == Spec => []SettledOperandSettlesAll
PROOF
<1>1. Init => ConjunctionInv
  BY DEF Init, ConjunctionInv, HasRun, ResolvingPcs
<1>2. Spec => []ConjunctionInv
  BY <1>1, TypeCorrect, NextConjunctionInv, PTL DEF Spec
<1> QED BY <1>2, SettledByPlanes, TypeCorrect, PlanesAgree, PTL

-----------------------------------------------------------------------------
(* Every decision of the session is the rank of some finding of its row,   *)
(* and no finding of the row outranks it.                                  *)

CoversEdges(d, r, bound) ==
  \A e \in RowEdges(batch, r) : e < bound /\ batch.refs[e] = 0 => Covers(d, OutcomeEscalate)

CoversIssues(d, r) == batch.issues[r] # {} => Covers(d, OutcomeEscalate)

CoversRequirements(d, r, bound) ==
  \A q \in DOMAIN Requirements : q < bound /\ Applicable(q, r) => CoversClauses(d, q, r)

SomeApplicable(r, bound) == \E q \in DOMAIN Requirements : q < bound /\ Applicable(q, r)

\* The winner covers the row's issues and the edges before the current one.
EdgesInv ==
  /\ batch.offsets[row] <= edge
  /\ CoversIssues(winner, row) /\ CoversEdges(winner, row, edge)
  /\ IsFinding(winner, row)

\* It covers every edge and every requirement before the current one, and
\* the row has appended a requirement if one of those applied.
RequirementsInv ==
  /\ CoversIssues(winner, row)
  /\ HasMissingReference(row) => Covers(winner, OutcomeEscalate)
  /\ CoversRequirements(winner, row, requirement)
  /\ IsFinding(winner, row)
  /\ reqOffsets[row] <= Len(reqIds)

\* It covers every finding of the row.
CoversRow(d, r) ==
  /\ batch.issues[r] # {} \/ HasMissingReference(r) \/ NoneApplicable(r)
       => Covers(d, OutcomeEscalate)
  /\ \A q \in DOMAIN Requirements : Applicable(q, r) => CoversClauses(d, q, r)

\* DriverIsAFinding and NoFindingOutranksDecision speak of finished rows; what
\* the winner has covered at each point of the current row makes them inductive.
DecisionInv ==
  /\ pc = "edges" => EdgesInv
  /\ pc \in {"requirements", "clauses"} => RequirementsInv
  /\ pc = "requirements" =>
       (reqOffsets[row] < Len(reqIds) <=> SomeApplicable(row, requirement))
  /\ pc = "clauses" =>
       /\ Applicable(requirement, row) /\ reqOffsets[row] < Len(reqIds)
       /\ \A k \in DOMAIN Requirements[requirement].clauses :
            k < clause => Covers(winner, ClauseOutcome(Requirements[requirement].clauses[k], row))
  /\ pc = "evidence" => CoversRow(winner, row) /\ IsFinding(winner, row)
  /\ NoFindingOutranksDecision
  /\ DriverIsAFinding

\* Ranks are numbers, and a finding of a higher rank keeps what was covered.
LEMMA RankType == \A outcome \in Outcomes : Rank(outcome) \in Nat
BY DEF Rank, OutcomePrecedence, Outcomes, OutcomeCount

\* While nothing but the winner and the cursors move, a row has the findings
\* it had.
LEMMA FindingsFrame ==
  ASSUME UNCHANGED <<batch, context>>
  PROVE  /\ Rows' = Rows
         /\ \A r : HasMissingReference(r)' <=> HasMissingReference(r)
         /\ \A r : NoneApplicable(r)' <=> NoneApplicable(r)
         /\ \A q, r : Applicable(q, r)' <=> Applicable(q, r)
         /\ \A c, r : ClauseOutcome(c, r)' = ClauseOutcome(c, r)
         /\ \A c, r : ClauseReason(c, r)' = ClauseReason(c, r)
         /\ \A d, q, r : CoversClauses(d, q, r)' <=> CoversClauses(d, q, r)
         /\ \A d, r : IsFinding(d, r)' <=> IsFinding(d, r)
BY DEF Rows, HasMissingReference, NoneApplicable, Applicable, ClauseOutcome, ClauseReason, context,
       CoversClauses, IsFinding

\* Rows decided before a step that touches no result stay decided as they were.
LEMMA DecidedFrame ==
  ASSUME DecisionInv, UNCHANGED <<batch, context, drivers>>,
         \A r \in Rows : Decided(r)' => Decided(r)
  PROVE  NoFindingOutranksDecision' /\ DriverIsAFinding'
BY FindingsFrame
DEF DecisionInv, NoFindingOutranksDecision, DriverIsAFinding, Covers

\* The edges of a row are naturals.
LEMMA RowEdgesType ==
  ASSUME TypeOK, pc \in ResolvingPcs, NEW r \in Rows
  PROVE  /\ batch.offsets[r] \in Nat /\ batch.offsets[r + 1] \in Nat
         /\ \A e \in RowEdges(batch, r) : e \in Nat
PROOF
<1>1. ValidEvidenceBatch(batch) /\ BatchTypeOK
  BY DEF TypeOK, CheckedPcs, ResolvingPcs
<1>2. r \in 1..(batch.rows + 1) /\ r + 1 \in 1..(batch.rows + 1)
  BY <1>1 DEF BatchTypeOK, Rows
<1>3. batch.offsets[r] \in Nat /\ batch.offsets[r + 1] \in Nat
  BY <1>1, <1>2 DEF ValidEvidenceBatch
<1> QED BY <1>3 DEF RowEdges

\* Reporting an unknown field makes the winner cover it.
LEMMA SemanticsStep ==
  ASSUME TypeOK, DecisionInv, ResolveSemantics
  PROVE  DecisionInv'
PROOF
<1>1. /\ pc = "row" /\ pc' = "edges" /\ row \in Rows /\ row' = row
      /\ UNCHANGED <<batch, context, drivers>> /\ edge' = batch.offsets[row]
  BY DEF ResolveSemantics, numeric, columns
<1>2. batch.issues[row] \in SUBSET Fields
  BY <1>1 DEF TypeOK, BatchTypeOK
<1>3. \/ batch.issues[row] = {} /\ winner' = NoDriver
      \/ /\ winner'.outcome = OutcomeEscalate /\ winner'.kind = "semantic"
         /\ winner'.field \in batch.issues[row]
  BY <1>1, <1>2, FirstIssue
  DEF ResolveSemantics, NoDriver, Rank, OutcomePrecedence, OutcomeEscalate, OutcomeApprove
<1>4. CoversIssues(winner, row)' /\ IsFinding(winner, row)'
  BY <1>1, <1>3, RankType
  DEF CoversIssues, Covers, IsFinding, NoDriver, Outcomes, OutcomeCount, OutcomeEscalate,
      OutcomeApprove
<1>5. batch.offsets[row] \in Nat /\ CoversEdges(winner, row, edge)'
  BY <1>1, RowEdgesType DEF ResolvingPcs, CoversEdges, RowEdges
<1>6. EdgesInv'
  BY <1>1, <1>4, <1>5 DEF EdgesInv
<1>7. NoFindingOutranksDecision' /\ DriverIsAFinding'
  BY <1>1, DecidedFrame DEF Decided, ResolvingPcs
<1> QED BY <1>1, <1>6, <1>7 DEF DecisionInv

\* The winner after an escalation that only wins where it outranks.
LEMMA WinnerGrows ==
  ASSUME winner \in Winners, winner' \in Winners,
         winner' = winner \/ Outranks(winner'.outcome)
  PROVE  \A outcome \in Outcomes : Covers(winner, outcome) => Covers(winner', outcome)
PROOF
<1>1. Rank(winner.outcome) \in Nat /\ Rank(winner'.outcome) \in Nat
  BY RankType DEF Winners
<1> QED BY <1>1, RankType DEF Covers, Outranks

\* An edge to a missing record makes the winner cover it; the cursor moves past it.
LEMMA EdgeStep ==
  ASSUME TypeOK, TypeOK', DecisionInv, ResolveEdge
  PROVE  DecisionInv'
PROOF
<1>1. /\ pc = "edges" /\ pc' = "edges" /\ row \in Rows /\ row' = row
      /\ edge \in RowEdges(batch, row) /\ edge' = edge + 1
      /\ UNCHANGED <<batch, context, drivers>>
  BY DEF ResolveEdge, TypeOK, numeric, columns
<1>2. /\ winner \in Winners /\ winner' \in Winners /\ edge \in Nat
      /\ batch.offsets[row] \in Nat /\ \A e \in RowEdges(batch, row) : e \in Nat
  BY <1>1, RowEdgesType DEF TypeOK, ResolvingPcs
<1>3. \/ winner' = winner /\ (batch.refs[edge] = 0 => ~Outranks(OutcomeEscalate))
      \/ /\ batch.refs[edge] = 0 /\ Outranks(OutcomeEscalate)
         /\ winner'.outcome = OutcomeEscalate /\ winner'.kind = "missing_reference"
         /\ winner'.edge = edge
  BY <1>2 DEF ResolveEdge, Winners
<1>4. OutcomeEscalate \in Outcomes
  BY DEF Outcomes, OutcomeCount, OutcomeEscalate
<1>5. \A outcome \in Outcomes : Covers(winner, outcome) => Covers(winner', outcome)
  BY <1>2, <1>3, WinnerGrows
<1>6. batch.refs[edge] = 0 => Covers(winner', OutcomeEscalate)
  BY <1>2, <1>3, <1>4, RankType DEF Covers, Outranks, Winners
<1>7. EdgesInv
  BY <1>1 DEF DecisionInv
<1>8. CoversIssues(winner, row)'
  BY <1>1, <1>4, <1>5, <1>7 DEF EdgesInv, CoversIssues, Covers
<1>9. CoversEdges(winner, row, edge)'
  BY <1>1, <1>2, <1>4, <1>5, <1>6, <1>7 DEF EdgesInv, CoversEdges, Covers, RowEdges
<1>10. IsFinding(winner, row)'
  <2>1. CASE winner' = winner
    BY <1>1, <1>7, <2>1, FindingsFrame DEF EdgesInv
  <2>2. CASE winner' # winner
    <3>1. batch.issues[row] = {}
      BY <1>2, <1>3, <1>4, <1>7, <2>2, RankType
      DEF EdgesInv, CoversIssues, Covers, Outranks, Winners
    <3> QED BY <1>1, <1>3, <2>2, <3>1 DEF IsFinding, RowEdges
  <2> QED BY <2>1, <2>2
<1>11. EdgesInv'
  BY <1>1, <1>2, <1>7, <1>8, <1>9, <1>10 DEF EdgesInv
<1>12. NoFindingOutranksDecision' /\ DriverIsAFinding'
  BY <1>1, DecidedFrame DEF Decided, ResolvingPcs
<1> QED BY <1>1, <1>11, <1>12 DEF DecisionInv

\* When the edges are done, every missing reference of the row is covered.
LEMMA BeginRequirementsStep ==
  ASSUME TypeOK, DecisionInv, BeginRequirements
  PROVE  DecisionInv'
PROOF
<1>1. /\ pc = "edges" /\ pc' = "requirements" /\ row \in Rows /\ row' = row
      /\ edge \notin RowEdges(batch, row) /\ edge' = edge /\ winner' = winner
      /\ reqIds' = reqIds /\ requirement' = 1
      /\ UNCHANGED <<batch, context, drivers>>
  BY DEF BeginRequirements, TypeOK
<1>2. /\ batch.offsets[row] \in Nat /\ batch.offsets[row + 1] \in Nat
      /\ \A e \in RowEdges(batch, row) : e \in Nat
      /\ edge \in Nat
  BY <1>1, RowEdgesType DEF TypeOK, ResolvingPcs
<1>3. EdgesInv
  BY <1>1 DEF DecisionInv
<1>4. \A e \in RowEdges(batch, row) : e < edge
  BY <1>1, <1>2, <1>3 DEF EdgesInv, RowEdges
<1>5. HasMissingReference(row) => Covers(winner, OutcomeEscalate)
  BY <1>3, <1>4 DEF EdgesInv, CoversEdges, HasMissingReference
<1>6. reqOffsets'[row] = Len(reqIds) /\ Len(reqIds) \in Nat
  BY <1>1 DEF BeginRequirements, TypeOK, ColumnsTypeOK, BatchTypeOK, Rows
<1>7. CoversIssues(winner, row)' /\ CoversRequirements(winner, row, requirement)'
  BY <1>1, <1>3, ProgramShape DEF EdgesInv, CoversIssues, Covers, CoversRequirements
<1>8. IsFinding(winner, row)'
  BY <1>1, <1>3, FindingsFrame DEF EdgesInv
<1>9. (HasMissingReference(row) => Covers(winner, OutcomeEscalate))'
  BY <1>1, <1>5, FindingsFrame DEF Covers
<1>10. RequirementsInv'
  BY <1>1, <1>6, <1>7, <1>8, <1>9 DEF RequirementsInv
<1>11. ~SomeApplicable(row, requirement)'
  BY <1>1, ProgramShape DEF SomeApplicable
<1>12. NoFindingOutranksDecision' /\ DriverIsAFinding'
  BY <1>1, DecidedFrame DEF Decided, ResolvingPcs
<1> QED BY <1>1, <1>6, <1>10, <1>11, <1>12 DEF DecisionInv

\* What the clause loops carry from step to step while the winner stays.
LEMMA RequirementsFrame ==
  ASSUME RequirementsInv, row \in Rows, UNCHANGED <<batch, context, winner, row, reqOffsets>>,
         Len(reqIds') >= Len(reqIds), Len(reqIds) \in Nat, Len(reqIds') \in Nat,
         reqOffsets[row] \in Nat,
         CoversRequirements(winner, row, requirement')
  PROVE  RequirementsInv'
PROOF
<1>1. CoversIssues(winner, row)'
  BY DEF RequirementsInv, CoversIssues, Covers
<1>2. CoversRequirements(winner, row, requirement)'
  BY FindingsFrame DEF CoversRequirements
<1>3. IsFinding(winner, row)' /\ (HasMissingReference(row) => Covers(winner, OutcomeEscalate))'
  BY FindingsFrame DEF RequirementsInv, Covers
<1> QED BY <1>1, <1>2, <1>3 DEF RequirementsInv

\* A requirement is selected or passed over, or, at the end, the row's finding is settled.
LEMMA SelectStep ==
  ASSUME TypeOK, TypeOK', DecisionInv, SelectRequirement
  PROVE  DecisionInv'
PROOF
<1>1. /\ pc = "requirements" /\ requirement \in DOMAIN Requirements /\ row \in Rows
      /\ UNCHANGED <<batch, context, winner, row, reqOffsets, drivers>>
  BY DEF SelectRequirement, TypeOK
<1>2. /\ reqIds \in Seq(DOMAIN Requirements) /\ reqOffsets[row] \in Nat
      /\ requirement \in Nat /\ DOMAIN Requirements \subseteq Nat
  <2>1. ColumnsTypeOK /\ BatchTypeOK /\ requirement \in Nat
    BY <1>1 DEF TypeOK
  <2>2. row \in 1..(batch.rows + 1)
    BY <1>1, <2>1 DEF BatchTypeOK, Rows
  <2> QED BY <2>1, <2>2, ProgramShape DEF ColumnsTypeOK
<1>3. /\ RequirementsInv
      /\ reqOffsets[row] < Len(reqIds) <=> SomeApplicable(row, requirement)
  BY <1>1 DEF DecisionInv
<1>4. NoFindingOutranksDecision' /\ DriverIsAFinding'
  <2>1. pc' \in {"requirements", "clauses"}
    BY <1>1 DEF SelectRequirement
  <2> QED BY <1>1, <2>1, DecidedFrame DEF Decided, ResolvingPcs
<1>5. CASE Applicable(requirement, row)
  <2>1. /\ pc' = "clauses" /\ requirement' = requirement /\ clause' = 1
        /\ reqIds' = Append(reqIds, requirement)
    BY <1>5 DEF SelectRequirement
  <2>2. Len(reqIds') = Len(reqIds) + 1 /\ Len(reqIds) \in Nat
    BY <1>1, <1>2, <2>1
  <2>3. RequirementsInv'
    BY <1>1, <1>2, <1>3, <2>1, <2>2, RequirementsFrame DEF RequirementsInv
  <2>4. Applicable(requirement, row)'
    BY <1>1, <1>5, <2>1, FindingsFrame
  <2>5. \A k \in DOMAIN Requirements[requirement].clauses : ~(k < 1)
    BY <1>1, ProgramShape
  <2>6. reqOffsets'[row'] < Len(reqIds')
    BY <1>1, <1>2, <1>3, <2>2 DEF RequirementsInv
  <2> QED BY <1>4, <2>1, <2>3, <2>4, <2>5, <2>6 DEF DecisionInv
<1>6. CASE ~Applicable(requirement, row)
  <2>1. /\ pc' = "requirements" /\ requirement' = requirement + 1 /\ reqIds' = reqIds
    BY <1>1, <1>6 DEF SelectRequirement
  <2>2. \A q \in DOMAIN Requirements :
          q < requirement + 1 /\ Applicable(q, row) <=> q < requirement /\ Applicable(q, row)
    BY <1>2, <1>6
  <2>3. CoversRequirements(winner, row, requirement')
    BY <1>3, <2>1, <2>2 DEF RequirementsInv, CoversRequirements
  <2>4. RequirementsInv'
    BY <1>1, <1>2, <1>3, <2>1, <2>3, RequirementsFrame
  <2>5. SomeApplicable(row, requirement)' <=> SomeApplicable(row, requirement)
    BY <1>1, <2>1, <2>2, FindingsFrame DEF SomeApplicable
  <2> QED BY <1>1, <1>3, <1>4, <2>1, <2>4, <2>5 DEF DecisionInv
<1> QED BY <1>5, <1>6

\* A clause that failed makes the winner cover its finding.
LEMMA ClauseStep ==
  ASSUME TypeOK, TypeOK', DecisionInv, ResolveClause
  PROVE  DecisionInv'
PROOF
<1> DEFINE c == Requirements[requirement].clauses[clause]
<1>1. /\ pc = "clauses" /\ pc' = "clauses" /\ row \in Rows
      /\ requirement \in DOMAIN Requirements /\ clause \in DOMAIN Requirements[requirement].clauses
      /\ UNCHANGED <<batch, context, row, requirement, reqIds, reqOffsets, drivers>>
      /\ clause' = clause + 1
  BY DEF ResolveClause, TypeOK, numeric, columns
<1>2. c \in DOMAIN Clauses /\ clause \in Nat
  <2>1. Requirements[requirement].clauses \in Seq(DOMAIN Clauses)
    BY <1>1, ProgramShape
  <2> QED BY <1>1, <2>1 DEF TypeOK
<1>3. ClauseOutcome(c, row) \in Outcomes /\ winner \in Winners /\ winner' \in Winners
  BY <1>2, ClauseOutcomeType DEF TypeOK
<1>4. \/ winner' = winner /\ ~Outranks(ClauseOutcome(c, row))
      \/ /\ Outranks(ClauseOutcome(c, row))
         /\ winner' = [outcome |-> ClauseOutcome(c, row), kind |-> "clause",
                       requirement |-> requirement, clause |-> c,
                       reason |-> ClauseReason(c, row), field |-> 0, edge |-> 0]
  BY DEF ResolveClause
<1>5. \A outcome \in Outcomes : Covers(winner, outcome) => Covers(winner', outcome)
  BY <1>3, <1>4, WinnerGrows
<1>6. Covers(winner', ClauseOutcome(c, row))
  BY <1>3, <1>4, RankType DEF Covers, Outranks, Winners
<1>7. /\ RequirementsInv /\ Applicable(requirement, row) /\ reqOffsets[row] < Len(reqIds)
      /\ \A k \in DOMAIN Requirements[requirement].clauses :
           k < clause => Covers(winner, ClauseOutcome(Requirements[requirement].clauses[k], row))
  BY <1>1 DEF DecisionInv
<1>8. \A q \in DOMAIN Requirements, k \in Nat :
        k \in DOMAIN Requirements[q].clauses =>
          ClauseOutcome(Requirements[q].clauses[k], row) \in Outcomes
  <2> SUFFICES ASSUME NEW q \in DOMAIN Requirements, NEW k \in Nat,
                      k \in DOMAIN Requirements[q].clauses
               PROVE  ClauseOutcome(Requirements[q].clauses[k], row) \in Outcomes
    OBVIOUS
  <2>1. Requirements[q].clauses \in Seq(DOMAIN Clauses)
    BY ProgramShape
  <2>2. Requirements[q].clauses[k] \in DOMAIN Clauses
    BY <2>1
  <2> QED BY <2>2, ClauseOutcomeType
<1>9. \A q \in DOMAIN Requirements : \A k \in DOMAIN Requirements[q].clauses : k \in Nat
  BY ProgramShape
<1>10. OutcomeEscalate \in Outcomes
  BY DEF Outcomes, OutcomeCount, OutcomeEscalate
<1>11. CoversIssues(winner, row)' /\ (HasMissingReference(row) => Covers(winner, OutcomeEscalate))'
  BY <1>1, <1>5, <1>7, <1>10, FindingsFrame DEF RequirementsInv, CoversIssues, Covers
<1>12. CoversRequirements(winner, row, requirement)'
  <2>1. CoversRequirements(winner', row, requirement)
    BY <1>5, <1>7, <1>8, <1>9 DEF RequirementsInv, CoversRequirements, CoversClauses
  <2> QED BY <1>1, <2>1, FindingsFrame DEF CoversRequirements
<1>13. \A k \in DOMAIN Requirements[requirement].clauses :
         k < clause + 1 => Covers(winner', ClauseOutcome(Requirements[requirement].clauses[k], row))
  <2> SUFFICES ASSUME NEW k \in DOMAIN Requirements[requirement].clauses, k < clause + 1
               PROVE  Covers(winner', ClauseOutcome(Requirements[requirement].clauses[k], row))
    OBVIOUS
  <2>1. k \in Nat
    BY <1>1, <1>9
  <2>2. CASE k = clause
    BY <1>6, <2>2
  <2>3. CASE k < clause
    BY <1>1, <1>5, <1>7, <1>8, <2>1, <2>3
  <2> QED BY <1>2, <2>1, <2>2, <2>3
<1>14. IsFinding(winner, row)'
  <2>1. IsFinding(winner', row)
    <3>1. CASE winner' = winner
      BY <1>7, <3>1 DEF RequirementsInv
    <3>2. CASE Outranks(ClauseOutcome(c, row))
      <4>1. ClauseOutcome(c, row) # OutcomeApprove
        BY <1>3, <3>2 DEF Outranks, Winners, Rank, OutcomePrecedence, OutcomeApprove, Outcomes,
                          OutcomeCount
      <4> QED BY <1>1, <1>4, <1>7, <3>2, <4>1 DEF IsFinding
    <3> QED BY <1>4, <3>1, <3>2
  <2> QED BY <1>1, <2>1, FindingsFrame
<1>15. RequirementsInv'
  BY <1>1, <1>7, <1>11, <1>12, <1>14 DEF RequirementsInv
<1>16. (\A k \in DOMAIN Requirements[requirement].clauses :
          k < clause => Covers(winner, ClauseOutcome(Requirements[requirement].clauses[k], row)))'
  BY <1>1, <1>13, FindingsFrame DEF Covers
<1>17. Applicable(requirement, row)'
  BY <1>1, <1>7, FindingsFrame
<1>18. NoFindingOutranksDecision' /\ DriverIsAFinding'
  BY <1>1, DecidedFrame DEF Decided, ResolvingPcs
<1> QED BY <1>1, <1>7, <1>15, <1>16, <1>17, <1>18 DEF DecisionInv

\* When the clauses of a requirement are done, all its findings are covered.
LEMMA NextRequirementStep ==
  ASSUME TypeOK, DecisionInv, NextRequirement
  PROVE  DecisionInv'
PROOF
<1>1. /\ pc = "clauses" /\ pc' = "requirements" /\ row \in Rows
      /\ requirement \in DOMAIN Requirements /\ clause \notin DOMAIN Requirements[requirement].clauses
      /\ UNCHANGED <<batch, context, winner, row, reqIds, reqOffsets, drivers>>
      /\ requirement' = requirement + 1
  BY DEF NextRequirement, TypeOK, numeric, columns
<1>2. /\ ColumnsTypeOK /\ BatchTypeOK /\ clause \in Nat \ {0}
      /\ requirement \in Nat /\ DOMAIN Requirements \subseteq Nat
  BY <1>1, ProgramShape DEF TypeOK
<1>3. reqIds \in Seq(DOMAIN Requirements) /\ reqOffsets[row] \in Nat
  <2>1. row \in 1..(batch.rows + 1)
    BY <1>1, <1>2 DEF BatchTypeOK, Rows
  <2> QED BY <1>2, <2>1 DEF ColumnsTypeOK
<1>4. /\ RequirementsInv /\ Applicable(requirement, row) /\ reqOffsets[row] < Len(reqIds)
      /\ \A k \in DOMAIN Requirements[requirement].clauses :
           k < clause => Covers(winner, ClauseOutcome(Requirements[requirement].clauses[k], row))
  BY <1>1 DEF DecisionInv
<1>5. CoversClauses(winner, requirement, row)
  <2>1. Requirements[requirement].clauses \in Seq(DOMAIN Clauses)
    BY <1>1, ProgramShape
  <2>2. \A k \in DOMAIN Requirements[requirement].clauses : k < clause
    BY <1>1, <1>2, <2>1
  <2> QED BY <1>4, <2>2 DEF CoversClauses
<1>6. CoversRequirements(winner, row, requirement')
  BY <1>1, <1>2, <1>4, <1>5 DEF RequirementsInv, CoversRequirements
<1>7. RequirementsInv'
  BY <1>1, <1>3, <1>4, <1>6, RequirementsFrame
<1>8. SomeApplicable(row, requirement)'
  <2>1. SomeApplicable(row, requirement + 1)
    BY <1>1, <1>2, <1>4 DEF SomeApplicable
  <2> QED BY <1>1, <2>1, FindingsFrame DEF SomeApplicable
<1>9. NoFindingOutranksDecision' /\ DriverIsAFinding'
  BY <1>1, DecidedFrame DEF Decided, ResolvingPcs
<1> QED BY <1>1, <1>4, <1>7, <1>8, <1>9 DEF DecisionInv

\* The winner of a finished row covers everything, the lack of a governing
\* requirement included.
LEMMA FinishRequirementsStep ==
  ASSUME TypeOK, TypeOK', DecisionInv, FinishRequirements
  PROVE  DecisionInv'
PROOF
<1>1. /\ pc = "requirements" /\ pc' = "evidence" /\ row \in Rows /\ row' = row
      /\ requirement \notin DOMAIN Requirements
      /\ UNCHANGED <<batch, context, drivers>>
      /\ winner' = NoneApplicableWinner
  BY DEF FinishRequirements, TypeOK
<1>2. /\ ColumnsTypeOK /\ BatchTypeOK /\ requirement \in Nat \ {0}
      /\ winner \in Winners /\ winner' \in Winners
  BY <1>1 DEF TypeOK
<1>3. /\ reqIds \in Seq(DOMAIN Requirements) /\ reqOffsets[row] \in Nat
  <2>1. row \in 1..(batch.rows + 1)
    BY <1>1, <1>2 DEF BatchTypeOK, Rows
  <2> QED BY <1>2, <2>1 DEF ColumnsTypeOK
<1>4. /\ RequirementsInv
      /\ reqOffsets[row] < Len(reqIds) <=> SomeApplicable(row, requirement)
  BY <1>1 DEF DecisionInv
<1>5. \A q \in DOMAIN Requirements : q < requirement
  BY <1>1, <1>2, ProgramShape
<1>6. NoneApplicable(row) <=> AppliedIds = <<>>
  <2>1. SomeApplicable(row, requirement) <=> ~NoneApplicable(row)
    BY <1>5 DEF SomeApplicable, NoneApplicable
  <2>2. AppliedIds = <<>> <=> ~(reqOffsets[row] < Len(reqIds))
    <3> DEFINE first == reqOffsets[row] + 1
               last == Len(reqIds)
    <3>1. first \in Int /\ last \in Int /\ \A i \in first..last : reqIds[i] \in DOMAIN Requirements
      BY <1>3
    <3>2. Len(AppliedIds) = IF first <= last THEN last - first + 1 ELSE 0
      BY <3>1, SubSeqProperties DEF AppliedIds
    <3>3. last < first => AppliedIds = <<>>
      BY <3>1, SubSeqEmpty DEF AppliedIds
    <3> QED BY <1>3, <3>1, <3>2, <3>3
  <2> QED BY <1>4, <2>1, <2>2
<1>7. \/ winner' = winner /\ (NoneApplicable(row) => ~Outranks(OutcomeEscalate))
      \/ /\ NoneApplicable(row) /\ Outranks(OutcomeEscalate)
         /\ winner'.outcome = OutcomeEscalate /\ winner'.kind = "no_applicable"
  BY <1>1, <1>2, <1>6 DEF NoneApplicableWinner, Winners
<1>8. OutcomeEscalate \in Outcomes
  BY DEF Outcomes, OutcomeCount, OutcomeEscalate
<1>9. \A outcome \in Outcomes : Covers(winner, outcome) => Covers(winner', outcome)
  BY <1>2, <1>7, WinnerGrows
<1>10. NoneApplicable(row) => Covers(winner', OutcomeEscalate)
  BY <1>2, <1>7, <1>8, RankType DEF Covers, Outranks, Winners
<1>11. batch.issues[row] # {} \/ HasMissingReference(row) \/ NoneApplicable(row)
         => Covers(winner', OutcomeEscalate)
  BY <1>4, <1>8, <1>9, <1>10 DEF RequirementsInv, CoversIssues
<1>12. \A q \in DOMAIN Requirements : Applicable(q, row) => CoversClauses(winner', q, row)
  <2> SUFFICES ASSUME NEW q \in DOMAIN Requirements, Applicable(q, row),
                      NEW k \in DOMAIN Requirements[q].clauses
               PROVE  Covers(winner', ClauseOutcome(Requirements[q].clauses[k], row))
    BY DEF CoversClauses
  <2>1. Covers(winner, ClauseOutcome(Requirements[q].clauses[k], row))
    BY <1>4, <1>5 DEF RequirementsInv, CoversRequirements, CoversClauses
  <2>2. Requirements[q].clauses \in Seq(DOMAIN Clauses)
    BY ProgramShape
  <2>3. ClauseOutcome(Requirements[q].clauses[k], row) \in Outcomes
    BY <2>2, ClauseOutcomeType
  <2> QED BY <1>9, <2>1, <2>3
<1>13. IsFinding(winner', row)
  BY <1>4, <1>7 DEF RequirementsInv, IsFinding
<1>14. CoversRow(winner, row)' /\ IsFinding(winner, row)'
  BY <1>1, <1>11, <1>12, <1>13, FindingsFrame DEF CoversRow, Covers
<1>15. NoFindingOutranksDecision' /\ DriverIsAFinding'
  BY <1>1, DecidedFrame DEF Decided, ResolvingPcs
<1> QED BY <1>1, <1>14, <1>15 DEF DecisionInv

\* Collecting the row's evidence moves nothing a decision depends on.
LEMMA EvidenceStep ==
  ASSUME TypeOK, DecisionInv, ResolveEvidence
  PROVE  DecisionInv'
PROOF
<1>1. /\ pc = "evidence" /\ pc' = "evidence"
      /\ UNCHANGED <<batch, context, drivers, winner, row>>
  BY DEF ResolveEvidence
<1>2. CoversRow(winner, row) /\ IsFinding(winner, row)
  BY <1>1 DEF DecisionInv
<1>3. CoversRow(winner, row)' /\ IsFinding(winner, row)'
  BY <1>1, <1>2, FindingsFrame DEF CoversRow, Covers
<1>4. NoFindingOutranksDecision' /\ DriverIsAFinding'
  BY <1>1, DecidedFrame DEF Decided, ResolvingPcs
<1> QED BY <1>1, <1>3, <1>4 DEF DecisionInv

\* The row keeps the winner as its driver.
LEMMA FinishStep ==
  ASSUME TypeOK, DecisionInv, FinishRow
  PROVE  DecisionInv'
PROOF
<1>1. /\ pc = "evidence" /\ pc' = "row" /\ row \in Rows /\ row' = row + 1
      /\ UNCHANGED <<batch, context>>
      /\ drivers' = [drivers EXCEPT ![row] = winner]
  BY DEF FinishRow, TypeOK
<1>2. BatchTypeOK /\ drivers \in [Rows -> Drivers]
  BY <1>1 DEF TypeOK, ColumnsTypeOK
<1>3. CoversRow(winner, row) /\ IsFinding(winner, row)
  BY <1>1 DEF DecisionInv
<1>4. \A r \in Rows : /\ Decided(r)' <=> Decided(r) \/ r = row
                      /\ drivers'[r] = IF r = row THEN winner ELSE drivers[r]
  <2>1. \A r \in Rows : r \in Nat /\ row \in Nat
    BY <1>1, <1>2 DEF Rows, BatchTypeOK
  <2> QED BY <1>1, <1>2, <2>1 DEF Decided, ResolvingPcs
<1>5. NoFindingOutranksDecision'
  <2> SUFFICES ASSUME NEW r \in Rows, Decided(r)' PROVE CoversRow(drivers'[r], r)
    BY <1>1, FindingsFrame DEF NoFindingOutranksDecision, CoversRow, Covers
  <2> QED BY <1>3, <1>4 DEF DecisionInv, NoFindingOutranksDecision, CoversRow
<1>6. DriverIsAFinding'
  <2>1. \A r \in Rows : Decided(r)' => IsFinding(drivers'[r], r)
    BY <1>3, <1>4 DEF DecisionInv, DriverIsAFinding
  <2> QED BY <1>1, <2>1, FindingsFrame DEF DriverIsAFinding
<1> QED BY <1>1, <1>5, <1>6 DEF DecisionInv

\* Nothing is decided before the first call.
LEMMA InitDecisionInv == Init => DecisionInv
BY DEF Init, DecisionInv, NoFindingOutranksDecision, DriverIsAFinding, Decided, ResolvingPcs

\* The invariant is inductive on top of the types.
LEMMA NextDecisionInv == TypeOK /\ TypeOK' /\ DecisionInv /\ [Next]_vars => DecisionInv'
PROOF
<1> SUFFICES ASSUME TypeOK, TypeOK', DecisionInv, [Next]_vars PROVE DecisionInv'
  OBVIOUS
<1>1. ASSUME NEW p \in Packs, RejectInput(p) \/ BuildInto(p) PROVE DecisionInv'
  BY <1>1 DEF RejectInput, BuildInto, DecisionInv, NoFindingOutranksDecision, DriverIsAFinding,
              Decided, ResolvingPcs
<1>2. CASE \/ EnsureCapacity \/ CheckShapes
           \/ ExecuteField \/ ExecuteEvidence \/ ExecuteAll
  BY <1>2
  DEF EnsureCapacity, CheckShapes, Fail, ExecuteField, ExecuteEvidence, ExecuteAll, Executing,
      Executed, DecisionInv, NoFindingOutranksDecision, DriverIsAFinding, Decided, ResolvingPcs
<1>3. CASE ResetResults
  <2>1. pc' = "row" /\ row' = 1 /\ Rows' \subseteq Nat \ {0}
    BY <1>3 DEF ResetResults, Rows, TypeOK, BatchTypeOK
  <2>2. \A r \in Rows' : ~Decided(r)'
    BY <2>1 DEF Decided
  <2> QED BY <2>1, <2>2 DEF DecisionInv, NoFindingOutranksDecision, DriverIsAFinding
<1>4. CASE ResolveRow
  BY <1>4, SemanticsStep, EdgeStep, BeginRequirementsStep, SelectStep, ClauseStep,
     NextRequirementStep, FinishRequirementsStep, EvidenceStep, FinishStep DEF ResolveRow
<1>5. CASE BeginMaterialize \/ MaterializeRow
  <2>1. UNCHANGED <<batch, context, drivers>> /\ pc' \in {"materialize", "idle"}
    BY <1>5 DEF BeginMaterialize, MaterializeRow, Fail, numeric, columns
  <2>2. \A r \in Rows : Decided(r)' => Decided(r)
    BY SMTT(40), <1>5
       DEF BeginMaterialize, MaterializeRow, Fail, Decided, ResolvingPcs, TypeOK, BatchTypeOK, Rows
  <2> QED BY <2>1, <2>2, DecidedFrame DEF DecisionInv
<1>6. CASE Return
  BY <1>6 DEF Return, DecisionInv, NoFindingOutranksDecision, DriverIsAFinding, Decided, ResolvingPcs
<1>7. CASE UNCHANGED vars
  <2>1. /\ UNCHANGED <<pc, batch, positive, negative, reasons, row, edge, requirement, clause>>
        /\ UNCHANGED <<winner, drivers, reqOffsets, reqIds>>
    BY <1>7 DEF vars, context, cursors, numeric, columns
  <2> QED BY <2>1
  DEF DecisionInv, EdgesInv, RequirementsInv, CoversIssues, CoversRow,
      CoversEdges, CoversRequirements, CoversClauses, SomeApplicable, NoFindingOutranksDecision,
      DriverIsAFinding, Decided, Covers, Rows, HasMissingReference, NoneApplicable, Applicable,
      ClauseOutcome, ClauseReason, IsFinding
<1> QED BY <1>1, <1>2, <1>3, <1>4, <1>5, <1>6, <1>7 DEF Next, Submit, Evaluate

\* The invariant holds in every reachable state.
LEMMA DecisionsCorrect == Spec => []DecisionInv
BY TypeCorrect, InitDecisionInv, NextDecisionInv, PTL DEF Spec

\* No semantic issue, missing reference or clause of an applicable requirement
\* of a decided row outranks the row's decision, in any policy and any pack.
THEOREM DecisionsCover == Spec => []NoFindingOutranksDecision
PROOF
<1>1. DecisionInv => NoFindingOutranksDecision
  BY DEF DecisionInv
<1> QED BY <1>1, DecisionsCorrect, PTL

\* The driver a decided row reports is a finding the row has.
THEOREM DriversAreFindings == Spec => []DriverIsAFinding
PROOF
<1>1. DecisionInv => DriverIsAFinding
  BY DEF DecisionInv
<1> QED BY <1>1, DecisionsCorrect, PTL
=============================================================================
