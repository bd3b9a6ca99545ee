--------------------------- MODULE ContractProofs ---------------------------
(***************************************************************************)
(* The session implements its contract: for every program, every set of    *)
(* packs and every limit, what a caller reads is what Decide says of the   *)
(* pack alone.                                                             *)
(***************************************************************************)
EXTENDS StorageProofs, SessionContract, FiniteSetTheorems, FunctionTheorems

-----------------------------------------------------------------------------
(* A set of numbers has one list that is in order.                         *)

\* Two lists in order with the same members are the same.
LEMMA OneOrder ==
  ASSUME NEW n \in Nat, NEW s \in [1..n -> Nat], NEW t \in [1..n -> Nat],
         Increasing(s), Increasing(t),
         \A k \in 1..n : \E j \in 1..n : s[j] = t[k],
         \A k \in 1..n : \E j \in 1..n : t[j] = s[k]
  PROVE  s = t
PROOF
<1> DEFINE differ == {k \in 1..n : s[k] # t[k]}
<1> SUFFICES ASSUME s # t PROVE FALSE
  OBVIOUS
<1>1. differ # {}
  <2>1. s = [k \in 1..n |-> s[k]] /\ t = [k \in 1..n |-> t[k]]
    OBVIOUS
  <2>2. \E k \in 1..n : s[k] # t[k]
    BY <2>1, Zenon
  <2> QED BY <2>2
<1>2. PICK i \in differ : \A k \in differ : i <= k
  <2>1. differ \in SUBSET Nat
    OBVIOUS
  <2> HIDE DEF differ
  <2> QED BY <1>1, <2>1, LeastExists
<1>3. /\ i \in 1..n /\ s[i] # t[i] /\ \A k \in 1..n : k < i => s[k] = t[k]
  BY <1>2
<1>4. PICK j \in 1..n : s[j] = t[i]
  BY <1>3
<1>5. PICK k \in 1..n : t[k] = s[i]
  BY <1>3
<1>6. CASE j < i
  <2>1. t[j] < t[i] /\ s[j] = t[j]
    BY <1>3, <1>6 DEF Increasing
  <2> QED BY <1>4, <2>1
<1>7. CASE k < i
  <2>1. s[k] < s[i] /\ s[k] = t[k]
    BY <1>3, <1>7 DEF Increasing
  <2> QED BY <1>5, <2>1
<1>8. CASE i < j /\ i < k
  <2>1. s[i] < s[j] /\ t[i] < t[k]
    BY <1>3, <1>8 DEF Increasing
  <2>2. s[i] < t[i] /\ t[i] < s[i]
    BY <1>4, <1>5, <2>1
  <2>3. s[i] \in Nat /\ t[i] \in Nat
    BY <1>3
  <2> QED BY <2>2, <2>3
<1>9. i # j /\ i # k
  BY <1>3, <1>4, <1>5
<1> QED BY <1>3, <1>6, <1>7, <1>8, <1>9

\* InOrder(S) is the list of S that is in order.
LEMMA InOrderLists ==
  ASSUME NEW s \in Seq(Nat), NEW S, Lists(s, S)
  PROVE  InOrder(S) = s
PROOF
<1> DEFINE n == Len(s)
<1>1. n \in Nat /\ DOMAIN s = 1..n /\ s \in [1..n -> Nat]
  OBVIOUS
<1>2. Increasing(s) /\ S = {s[k] : k \in 1..n}
  BY <1>1 DEF Lists
<1>3. s \in [1..n -> S] /\ S \subseteq Nat
  BY <1>1, <1>2
<1>4. s \in Bijection(1..n, S)
  <2>1. \A j, k \in 1..n : s[j] = s[k] => j = k
    <3> SUFFICES ASSUME NEW j \in 1..n, NEW k \in 1..n, s[j] = s[k], j # k PROVE FALSE
      OBVIOUS
    <3>1. CASE j < k
      BY <1>1, <1>2, <3>1 DEF Increasing
    <3>2. CASE k < j
      BY <1>1, <1>2, <3>2 DEF Increasing
    <3> QED BY <3>1, <3>2
  <2>2. \A x \in S : \E k \in 1..n : s[k] = x
    BY <1>2
  <2> QED BY <1>3, <2>1, <2>2 DEF Bijection, Injection, Surjection, IsInjective
<1>5. Cardinality(S) = n /\ IsFiniteSet(S)
  <2>1. ExistsBijection(1..n, S)
    BY <1>4 DEF ExistsBijection
  <2> QED BY <1>1, <2>1, FS_CountingElements, FS_NatBijection
<1>6. ASSUME NEW t \in [1..n -> S], \A j, k \in 1..n : j < k => t[j] < t[k]
      PROVE  t = s
  <2>1. Increasing(t) /\ t \in [1..n -> Nat]
    BY <1>3, <1>6 DEF Increasing
  <2>2. t \in Injection(1..n, S)
    <3>1. \A j, k \in 1..n : t[j] = t[k] => j = k
      <4> SUFFICES ASSUME NEW j \in 1..n, NEW k \in 1..n, t[j] = t[k], j # k PROVE FALSE
        OBVIOUS
      <4>1. CASE j < k
        BY <1>6, <2>1, <4>1
      <4>2. CASE k < j
        BY <1>6, <2>1, <4>2
      <4> QED BY <4>1, <4>2
    <3> QED BY <1>6, <3>1 DEF Injection, IsInjective
  <2>3. t \in Surjection(1..n, S)
    <3>1. IsFiniteSet(1..n) /\ Cardinality(1..n) = n
      <4> HIDE DEF n
      <4>1. IsFiniteSet(1..n) /\ Cardinality(1..n) = IF 1 > n THEN 0 ELSE n - 1 + 1
        BY <1>1, FS_Interval
      <4> QED BY <1>1, <4>1
    <3> QED BY <1>5, <2>2, <3>1, FS_Injection
  <2>4. \A x \in S : \E j \in 1..n : t[j] = x
    BY <2>3 DEF Surjection
  <2>5. \A k \in 1..n : s[k] \in S /\ t[k] \in S
    BY <1>3, <1>6
  <2>6. /\ \A k \in 1..n : \E j \in 1..n : s[j] = t[k]
        /\ \A k \in 1..n : \E j \in 1..n : t[j] = s[k]
    BY <1>2, <2>4, <2>5
  <2> QED BY <1>1, <1>2, <2>1, <2>6, OneOrder
<1>7. InOrder(S) = CHOOSE t \in [1..n -> S] : \A j, k \in 1..n : j < k => t[j] < t[k]
  BY <1>5 DEF InOrder
<1>8. s \in [1..n -> S] /\ \A j, k \in 1..n : j < k => s[j] < s[k]
  BY <1>1, <1>2, <1>3 DEF Increasing
<1> QED BY <1>6, <1>7, <1>8

-----------------------------------------------------------------------------
(* The decisive finding.                                                   *)

\* A place in the order that breaks ties, and findings that have one.
IsPlace(at) == at[1] \in Nat /\ at[2] \in Nat /\ at[3] \in Nat

Placed(findings) == \A f \in findings : f.outcome \in Outcomes /\ IsPlace(f.at)

\* The winner w of row r is what the findings decide.
Settles(w, findings, r) ==
  IF \A f \in findings : f.outcome = OutcomeApprove THEN w = NoDriver
  ELSE \E f \in findings :
         Leads(f, findings) /\ w.outcome = f.outcome /\ DriverText(w, r) = f.driver

\* Outcomes have distinct ranks, approval the lowest.
LEMMA OutcomeRanks ==
  /\ \A outcome \in Outcomes : Rank(outcome) \in 1..4
  /\ \A a, b \in Outcomes : Rank(a) = Rank(b) => a = b
  /\ Rank(OutcomeApprove) = 1 /\ Rank(OutcomeRevise) = 2 /\ Rank(OutcomeEscalate) = 3
  /\ OutcomeApprove \in Outcomes /\ OutcomeRevise \in Outcomes /\ OutcomeEscalate \in Outcomes
PROOF
<1>1. Outcomes = {1, 2, 3, 4}
  BY DEF Outcomes, OutcomeCount
<1> QED
  BY <1>1 DEF Rank, OutcomePrecedence, OutcomeApprove, OutcomeRevise, OutcomeEscalate

\* At most one finding leads.
LEMMA OneLeads ==
  ASSUME NEW findings, Placed(findings), NEW f \in findings, NEW g \in findings,
         Leads(f, findings), Leads(g, findings)
  PROVE  f = g
PROOF
<1> SUFFICES ASSUME f # g PROVE FALSE
  OBVIOUS
<1>1. Rank(f.outcome) \in Nat /\ Rank(g.outcome) \in Nat
  BY OutcomeRanks DEF Placed
<1>2. /\ Rank(g.outcome) < Rank(f.outcome)
           \/ (Rank(g.outcome) = Rank(f.outcome) /\ Before(f.at, g.at))
      /\ Rank(f.outcome) < Rank(g.outcome)
           \/ (Rank(f.outcome) = Rank(g.outcome) /\ Before(g.at, f.at))
  BY DEF Leads
<1>3. Before(f.at, g.at) /\ Before(g.at, f.at)
  BY <1>1, <1>2
<1>4. IsPlace(f.at) /\ IsPlace(g.at)
  BY DEF Placed
<1> QED BY <1>3, <1>4 DEF Before, IsPlace

\* A winner the findings settle is their decisive finding.
LEMMA SettledDecides ==
  ASSUME NEW findings, Placed(findings), NEW w, NEW r, Settles(w, findings, r)
  PROVE  w.outcome = Decisive(findings).outcome /\ DriverText(w, r) = Decisive(findings).driver
PROOF
<1>1. CASE \A f \in findings : f.outcome = OutcomeApprove
  <2>1. w = NoDriver /\ Decisive(findings) = Approval
    BY <1>1 DEF Settles, Decisive
  <2> QED BY <2>1 DEF NoDriver, Approval, Finding, DriverText
<1>2. CASE ~ \A f \in findings : f.outcome = OutcomeApprove
  <2>1. PICK f \in findings :
          Leads(f, findings) /\ w.outcome = f.outcome /\ DriverText(w, r) = f.driver
    BY <1>2 DEF Settles
  <2>2. \A g \in findings : Leads(g, findings) => g = f
    BY <2>1, OneLeads
  <2>3. Decisive(findings) = f
    BY <1>2, <2>1, <2>2 DEF Decisive
  <2> QED BY <2>1, <2>3
<1> QED BY <1>1, <1>2

\* A later finding takes over exactly when it outranks the winner.
LEMMA FindingFollows ==
  ASSUME NEW findings, Placed(findings), NEW w, NEW r, Settles(w, findings, r),
         NEW g, g.outcome \in Outcomes, \A f \in findings : Before(f.at, g.at), NEW v,
         Rank(g.outcome) > Rank(w.outcome) => v.outcome = g.outcome /\ DriverText(v, r) = g.driver,
         ~(Rank(g.outcome) > Rank(w.outcome)) => v = w
  PROVE  Settles(v, findings \cup {g}, r)
PROOF
<1> DEFINE more == findings \cup {g}
<1>1. /\ \A f \in more : Rank(f.outcome) \in 1..4
      /\ \A f \in more : f.outcome # OutcomeApprove => Rank(f.outcome) > 1
      /\ Rank(OutcomeApprove) = 1
  <2>1. \A f \in more : f.outcome \in Outcomes
    BY DEF Placed
  <2>2. \A outcome \in Outcomes : outcome # OutcomeApprove => Rank(outcome) > 1
    BY OutcomeRanks
  <2> QED BY <2>1, <2>2, OutcomeRanks
<1>2. CASE \A f \in findings : f.outcome = OutcomeApprove
  <2>1. w = NoDriver /\ Rank(w.outcome) = 1
    BY <1>1, <1>2 DEF Settles, NoDriver
  <2>2. CASE g.outcome = OutcomeApprove
    BY <1>1, <1>2, <2>1, <2>2 DEF Settles
  <2>3. CASE g.outcome # OutcomeApprove
    <3>1. \A f \in more \ {g} : Rank(f.outcome) < Rank(g.outcome)
      BY <1>1, <1>2, <2>3
    <3>2. Leads(g, more) /\ g \in more
      BY <3>1 DEF Leads
    <3>3. v.outcome = g.outcome /\ DriverText(v, r) = g.driver
      BY <1>1, <2>1, <2>3
    <3> QED BY <2>3, <3>2, <3>3 DEF Settles
  <2> QED BY <2>2, <2>3
<1>3. CASE ~ \A f \in findings : f.outcome = OutcomeApprove
  <2>1. PICK f \in findings :
          Leads(f, findings) /\ w.outcome = f.outcome /\ DriverText(w, r) = f.driver
    BY <1>3 DEF Settles
  <2>2. ~ \A h \in more : h.outcome = OutcomeApprove
    BY <1>3
  <2>3. CASE Rank(g.outcome) > Rank(w.outcome)
    <3>1. \A h \in more \ {g} : Rank(h.outcome) <= Rank(f.outcome)
      <4> SUFFICES ASSUME NEW h \in findings PROVE Rank(h.outcome) <= Rank(f.outcome)
        OBVIOUS
      <4>1. Rank(h.outcome) \in 1..4 /\ Rank(f.outcome) \in 1..4
        BY <1>1
      <4> QED BY <2>1, <4>1 DEF Leads
    <3>2. Leads(g, more) /\ g \in more
      <4>1. \A h \in more \ {g} : Rank(h.outcome) < Rank(g.outcome)
        BY <1>1, <2>1, <2>3, <3>1
      <4> QED BY <4>1 DEF Leads
    <3>3. v.outcome = g.outcome /\ DriverText(v, r) = g.driver
      BY <2>3
    <3> QED BY <2>2, <3>2, <3>3 DEF Settles
  <2>4. CASE ~(Rank(g.outcome) > Rank(w.outcome))
    <3>1. Rank(g.outcome) < Rank(f.outcome)
            \/ (Rank(g.outcome) = Rank(f.outcome) /\ Before(f.at, g.at))
      BY <1>1, <2>1, <2>4
    <3>2. Leads(f, more) /\ f \in more
      BY <2>1, <3>1 DEF Leads
    <3>3. v.outcome = f.outcome /\ DriverText(v, r) = f.driver
      BY <2>1, <2>4
    <3> QED BY <2>2, <3>2, <3>3 DEF Settles
  <2> QED BY <2>3, <2>4
<1> QED BY <1>2, <1>3

\* A winner that only approves is none, and it ranks as a finding does.
LEMMA WinnerIsFinding ==
  ASSUME NEW findings, Placed(findings), NEW w, NEW r, Settles(w, findings, r)
  PROVE  /\ w.outcome = OutcomeApprove => w = NoDriver
         /\ w = NoDriver \/ \E f \in findings : w.outcome = f.outcome
PROOF
<1>1. CASE \A f \in findings : f.outcome = OutcomeApprove
  BY <1>1 DEF Settles
<1>2. CASE ~ \A f \in findings : f.outcome = OutcomeApprove
  <2>1. PICK f \in findings : Leads(f, findings) /\ w.outcome = f.outcome
    BY <1>2 DEF Settles
  <2>2. PICK g \in findings : g.outcome # OutcomeApprove
    BY <1>2
  <2>3. \A h \in findings : h.outcome \in Outcomes
    BY DEF Placed
  <2>4. Rank(f.outcome) \in 1..4 /\ Rank(g.outcome) \in 1..4 /\ Rank(g.outcome) # 1
    BY <2>2, <2>3, OutcomeRanks
  <2>5. f.outcome # OutcomeApprove
    BY <2>1, <2>2, <2>4, OutcomeRanks DEF Leads
  <2> QED BY <2>1, <2>5
<1> QED BY <1>1, <1>2

-----------------------------------------------------------------------------
(* The meaning of the program's expressions.                               *)

\* The equation of Meaning at instruction i.
Means(meaning, q, evidence, i) ==
  InstructionMeaning(q, evidence, Code[i], {meaning[o] : o \in OperandsOf(Code[i])})

\* An instruction's meaning depends on the instructions before it.
LEMMA MeaningIsLocal ==
  ASSUME NEW one, NEW other, NEW q, NEW evidence, NEW i \in Instructions,
         \A o \in Instructions : o < i => one[o] = other[o]
  PROVE  Means(one, q, evidence, i) = Means(other, q, evidence, i)
PROOF
<1>1. \A o \in OperandsOf(Code[i]) : o \in Instructions /\ o < i
  <2>1. OperandsOf(Code[i]) \subseteq 1..(i - 1)
    BY OperandsBefore DEF OperandsOf
  <2>2. \A o \in 1..(i - 1) : o \in Instructions /\ o < i
    BY ProgramShape DEF Instructions
  <2> QED BY <2>1, <2>2
<1>2. {one[o] : o \in OperandsOf(Code[i])} = {other[o] : o \in OperandsOf(Code[i])}
  BY <1>1
<1> QED BY <1>2 DEF Means

\* The equation holds of the first n instructions.
MeansUpTo(meaning, q, evidence, n) ==
  /\ meaning = [i \in Instructions |-> meaning[i]]
  /\ \A i \in Instructions : i <= n => meaning[i] = Means(meaning, q, evidence, i)

\* Every prefix of the program has a meaning.
LEMMA MeaningExists ==
  ASSUME NEW q, NEW evidence
  PROVE  \A n \in Nat : \E meaning : MeansUpTo(meaning, q, evidence, n)
PROOF
<1> DEFINE without == {n \in Nat : ~ \E meaning : MeansUpTo(meaning, q, evidence, n)}
<1>1. SUFFICES ASSUME without # {} PROVE FALSE
  OBVIOUS
<1>2. PICK n \in without : \A k \in without : n <= k
  <2>1. without \in SUBSET Nat
    OBVIOUS
  <2> HIDE DEF without
  <2> QED BY <1>1, <2>1, LeastExists
<1>3. n \in Nat /\ ~ \E meaning : MeansUpTo(meaning, q, evidence, n)
  BY <1>2
<1>4. Instructions \subseteq Nat \ {0}
  BY ProgramShape
<1>5. n # 0
  <2>1. ASSUME n = 0 PROVE MeansUpTo([i \in Instructions |-> 0], q, evidence, n)
    BY <1>4, <2>1 DEF MeansUpTo
  <2> QED BY <1>3, <2>1
<1>6. PICK before : MeansUpTo(before, q, evidence, n - 1)
  <2>1. n - 1 \in Nat /\ ~(n <= n - 1)
    BY <1>3, <1>5
  <2> QED BY <1>2, <2>1
<1>7. CASE n \notin Instructions
  <2>1. \A i \in Instructions : i <= n => i <= n - 1
    BY <1>3, <1>4, <1>7
  <2>2. MeansUpTo(before, q, evidence, n)
    BY <1>6, <2>1 DEF MeansUpTo
  <2> QED BY <1>3, <2>2
<1>8. CASE n \in Instructions
  <2> DEFINE meaning == [i \in Instructions |->
                           IF i = n THEN Means(before, q, evidence, n) ELSE before[i]]
  <2>1. \A i \in Instructions : i <= n - 1 <=> i <= n /\ i # n
    BY <1>3, <1>4
  <2>2. ASSUME NEW i \in Instructions, i <= n
        PROVE  Means(meaning, q, evidence, i) = Means(before, q, evidence, i)
    <3>1. \A o \in Instructions : o < i => o # n
      BY <1>3, <1>4, <2>2
    <3>2. \A o \in Instructions : o < i => meaning[o] = before[o]
      BY <3>1
    <3> HIDE DEF meaning
    <3> QED BY <3>2, MeaningIsLocal
  <2>3. ASSUME NEW i \in Instructions, i <= n
        PROVE  meaning[i] = Means(before, q, evidence, i)
    <3>1. CASE i = n
      BY <3>1
    <3>2. CASE i # n
      BY <1>6, <2>1, <2>3, <3>2 DEF MeansUpTo
    <3> QED BY <3>1, <3>2
  <2>4. meaning = [i \in Instructions |-> meaning[i]]
    OBVIOUS
  <2> HIDE DEF meaning
  <2>5. MeansUpTo(meaning, q, evidence, n)
    BY <2>2, <2>3, <2>4 DEF MeansUpTo
  <2> QED BY <1>3, <2>5
<1> QED BY <1>7, <1>8

\* So the whole program has the meaning Decision gives it by recursion.
LEMMA MeaningUnfolds ==
  ASSUME NEW q, NEW evidence
  PROVE  \A i \in Instructions :
           Meaning(q, evidence)[i] = Means(Meaning(q, evidence), q, evidence, i)
PROOF
<1> DEFINE Whole(m) == m = [i \in Instructions |-> InstructionMeaning(q, evidence, Code[i],
                                                  {m[o] : o \in OperandsOf(Code[i])})]
<1>1. PICK meaning : MeansUpTo(meaning, q, evidence, Len(Code))
  BY MeaningExists, ProgramShape
<1>2. Whole(meaning)
  <2>1. \A i \in Instructions : i <= Len(Code)
    BY ProgramShape DEF Instructions
  <2>2. \A i \in Instructions : meaning[i] = Means(meaning, q, evidence, i)
    BY <1>1, <2>1 DEF MeansUpTo
  <2>3. meaning = [i \in Instructions |-> meaning[i]]
    BY <1>1 DEF MeansUpTo
  <2> QED BY <2>2, <2>3 DEF Means
<1>3. Meaning(q, evidence) = CHOOSE m : Whole(m)
  BY Zenon DEF Meaning
<1>4. Whole(Meaning(q, evidence))
  <2> HIDE DEF Whole
  <2> QED BY <1>2, <1>3
<1>5. PICK m : m = Meaning(q, evidence)
  OBVIOUS
<1>6. Whole(m)
  BY <1>4, <1>5
<1>7. \A i \in Instructions : m[i] = Means(m, q, evidence, i)
  BY <1>6 DEF Means
<1> QED BY <1>5, <1>7

-----------------------------------------------------------------------------
(* The batch, read back as the pack it was built from.                     *)

\* A pack that is evaluated passed the builder's validation.
LEMMA RecordsOfPackDistinct ==
  ASSUME Linked, pc # "idle"
  PROVE  IsSequence(pack.evidence) /\ DistinctIds(pack.evidence)
PROOF
<1>1. pack \in Packs /\ Buildable(EmptyMaps, pack.requests, pack.evidence)
  BY DEF Linked
<1>2. /\ IsSequence(pack.requests) /\ IsSequence(pack.evidence)
      /\ \A k \in DOMAIN pack.requests : IsSequence(pack.requests[k].refs)
  BY <1>1, PackAssumption DEF IsPack, IsRequest
<1> QED BY <1>1, <1>2, BuildableMeans

\* With distinct IDs an index is the record's, and no index means no record.
LEMMA RecordIndexMeans ==
  ASSUME NEW evidence, IsSequence(evidence), DistinctIds(evidence), NEW id
  PROVE  /\ RecordIndex(evidence, id) = 0 <=> \A k \in DOMAIN evidence : evidence[k].id # id
         /\ \A k \in DOMAIN evidence : RecordIndex(evidence, id) = k <=> evidence[k].id = id
PROOF
<1>1. 0 \notin DOMAIN evidence
  BY SequenceDomain
<1>2. \A j, k \in DOMAIN evidence : evidence[j].id = evidence[k].id => j = k
  BY DEF DistinctIds
<1>3. CASE \E k \in DOMAIN evidence : evidence[k].id = id
  <2>1. /\ RecordIndex(evidence, id) \in DOMAIN evidence
        /\ evidence[RecordIndex(evidence, id)].id = id
    BY <1>3 DEF RecordIndex
  <2> QED BY <1>1, <1>2, <1>3, <2>1
<1>4. CASE ~ \E k \in DOMAIN evidence : evidence[k].id = id
  BY <1>1, <1>4 DEF RecordIndex
<1> QED BY <1>3, <1>4

\* The field columns.
LEMMA FieldsOfPack ==
  ASSUME Linked, pc # "idle", NEW r \in Rows, NEW f \in Fields,
         NEW text, text = pack.requests[r].fields[f]
  PROVE  /\ r \in batch.present[f] <=> text # NoSymbol
         /\ r \in batch.valid[f] <=> text \in ValidValues[f]
         /\ f \in batch.issues[r] <=> text \notin ValidValues[f]
         /\ \A symbol \in Symbols : batch.values[<<f, r>>] = symbol <=> text = symbol
         /\ batch.values[<<f, r>>] \in Symbols => batch.values[<<f, r>>] = text
PROOF
<1>1. /\ batch = BatchOf(pack.requests, pack.evidence)
      /\ DOMAIN pack.requests = Rows
  BY BatchOfPack DEF Linked
<1>2. SemanticallyValid(pack.requests[r], f) <=> text \in ValidValues[f]
  BY VocabularyAssumption DEF SemanticallyValid
<1>3. r \in batch.present[f] <=> text # NoSymbol
  <2>1. batch.present[f] = {} \cup {x \in Rows : pack.requests[x].fields[f] # NoSymbol}
    BY <1>1 DEF BatchOf, BuildBatch, ResizeClear
  <2> QED BY <2>1
<1>4. r \in batch.valid[f] <=> text \in ValidValues[f]
  <2>1. batch.valid[f] = {} \cup {x \in Rows : SemanticallyValid(pack.requests[x], f)}
    BY <1>1 DEF BatchOf, BuildBatch, ResizeClear
  <2> QED BY <1>2, <2>1
<1>5. f \in batch.issues[r] <=> text \notin ValidValues[f]
  <2>1. batch.issues[r] = {} \cup {g \in Fields : ~SemanticallyValid(pack.requests[r], g)}
    BY <1>1 DEF BatchOf, BuildBatch, ResizeClear
  <2> QED BY <1>2, <2>1
<1>6. batch.values[<<f, r>>] = IF text \in Symbols THEN text ELSE NoSymbol
  <2>1. batch.values = [c \in Fields \X Rows |->
           Resolved(pack.requests[c[2]].fields[c[1]], Symbols,
                    [k \in Fields \X Rows |-> NoSymbol][c])]
    BY <1>1 DEF BatchOf, BuildBatch, ResizeClear
  <2>2. <<f, r>> \in Fields \X Rows
    OBVIOUS
  <2> QED BY <2>1, <2>2 DEF Resolved
<1>7. NoSymbol \notin Symbols
  BY VocabularyAssumption
<1> QED BY <1>3, <1>4, <1>5, <1>6, <1>7

\* The builder's issues and present planes say what the request's fields hold.
LEMMA IssuesOfPack ==
  ASSUME Linked, pc # "idle", NEW r \in Rows
  PROVE  \A f \in Fields :
           /\ f \in batch.issues[r] <=> pack.requests[r].fields[f] \notin ValidValues[f]
           /\ r \in batch.present[f] <=> pack.requests[r].fields[f] # NoSymbol
PROOF
<1> SUFFICES ASSUME NEW f \in Fields
             PROVE  /\ f \in batch.issues[r] <=> pack.requests[r].fields[f] \notin ValidValues[f]
                    /\ r \in batch.present[f] <=> pack.requests[r].fields[f] # NoSymbol
  OBVIOUS
<1> DEFINE text == pack.requests[r].fields[f]
<1>1. /\ r \in batch.present[f] <=> text # NoSymbol
      /\ f \in batch.issues[r] <=> text \notin ValidValues[f]
      /\ \A symbol \in Symbols : batch.values[<<f, r>>] = symbol <=> text = symbol
  BY FieldsOfPack
<1> QED BY <1>1

\* The columns of the evidence records.
LEMMA RecordsOfPack ==
  ASSUME Linked, pc # "idle"
  PROVE  /\ DOMAIN batch.kinds = DOMAIN pack.evidence
         /\ \A k \in DOMAIN pack.evidence :
              /\ \A kind \in Kinds : batch.kinds[k] = kind <=> pack.evidence[k].type = kind
              /\ batch.flags[k] = StateFlags(pack.evidence[k])
              /\ \A q \in Qualifiers : LET text == pack.evidence[k].qualifiers[q] IN
                   /\ q \in batch.qualified[k] <=> text # NoSymbol
                   /\ \A symbol \in Symbols : batch.qualifiers[k][q] = symbol <=> text = symbol
PROOF
<1>1. batch = BatchOf(pack.requests, pack.evidence)
  BY DEF Linked
<1>2. NoSymbol \notin Symbols /\ NoSymbol \notin Kinds
  BY VocabularyAssumption
<1>3. batch.kinds = [k \in DOMAIN pack.evidence |->
                       Resolved(pack.evidence[k].type, Kinds,
                                [x \in DOMAIN pack.evidence |-> NoSymbol][k])]
  BY <1>1 DEF BatchOf, BuildBatch, ResizeClear
<1> SUFFICES ASSUME NEW k \in DOMAIN pack.evidence
             PROVE  /\ \A kind \in Kinds : batch.kinds[k] = kind <=> pack.evidence[k].type = kind
                    /\ batch.flags[k] = StateFlags(pack.evidence[k])
                    /\ \A q \in Qualifiers : LET text == pack.evidence[k].qualifiers[q] IN
                         /\ q \in batch.qualified[k] <=> text # NoSymbol
                         /\ \A symbol \in Symbols : batch.qualifiers[k][q] = symbol <=> text = symbol
  BY <1>3
<1>4. batch.kinds[k] = IF pack.evidence[k].type \in Kinds THEN pack.evidence[k].type ELSE NoSymbol
  BY <1>3 DEF Resolved
<1>5. batch.flags[k] = {} \cup StateFlags(pack.evidence[k])
  BY <1>1 DEF BatchOf, BuildBatch, ResizeClear
<1>6. batch.qualified[k] = {} \cup {q \in Qualifiers : pack.evidence[k].qualifiers[q] # NoSymbol}
  BY <1>1 DEF BatchOf, BuildBatch, ResizeClear
<1>7. batch.qualifiers[k] = [q \in Qualifiers |->
                               Resolved(pack.evidence[k].qualifiers[q], Symbols,
                                        [x \in Qualifiers |-> NoSymbol][q])]
  BY <1>1 DEF BatchOf, BuildBatch, ResizeClear
<1>8. \A q \in Qualifiers : batch.qualifiers[k][q] =
        IF pack.evidence[k].qualifiers[q] \in Symbols THEN pack.evidence[k].qualifiers[q]
        ELSE NoSymbol
  BY <1>7 DEF Resolved
<1> QED BY <1>2, <1>4, <1>5, <1>6, <1>8

\* The edges of a row are its references in order.
LEMMA RowEdgesOfPack ==
  ASSUME Linked, pc # "idle", NEW r \in Rows, NEW refs, refs = pack.requests[r].refs
  PROVE  /\ Len(refs) \in Nat /\ DOMAIN refs = 1..Len(refs)
         /\ batch.offsets[r] \in Nat \ {0}
         /\ batch.offsets[r + 1] = batch.offsets[r] + Len(refs)
         /\ RowEdges(batch, r) = batch.offsets[r]..(batch.offsets[r] + Len(refs) - 1)
         /\ \A e \in RowEdges(batch, r) :
              batch.refs[e] = RecordIndex(pack.evidence, refs[e - batch.offsets[r] + 1])
PROOF
<1> DEFINE start == EdgeStarts(pack.requests)
           n == Len(pack.requests)
<1>1. /\ IsSequence(pack.requests) /\ IsSequence(pack.evidence)
      /\ DOMAIN pack.requests = Rows /\ batch.rows = n /\ n \in Nat
  BY BatchOfPack
<1>2. \A k \in DOMAIN pack.requests : IsSequence(pack.requests[k].refs)
  BY EdgesOfPack
<1>3. batch.offsets = start
  BY EdgesOfPack
<1>4. /\ start \in [1..(n + 1) -> Nat \ {0}]
      /\ \A k \in 1..n : start[k + 1] = start[k] + Len(pack.requests[k].refs)
  BY <1>1, <1>2, EdgeStartsShape
<1>5. r \in 1..n /\ r \in 1..(n + 1)
  BY <1>1 DEF Rows
<1>6. Len(refs) \in Nat /\ DOMAIN refs = 1..Len(refs)
  BY <1>1, <1>2, SequenceDomain
<1>7. \A k \in 1..n : \A x \in start[k]..(start[k + 1] - 1) :
        batch.refs[x] = RecordIndex(pack.evidence, pack.requests[k].refs[x - start[k] + 1])
  BY EdgesOfPack
<1> HIDE DEF start, n
<1>8. start[r] \in Nat \ {0} /\ start[r + 1] = start[r] + Len(refs)
  BY <1>4, <1>5
<1>9. RowEdges(batch, r) = start[r]..(start[r + 1] - 1)
  BY <1>3 DEF RowEdges
<1>10. \A x \in RowEdges(batch, r) : batch.refs[x] = RecordIndex(pack.evidence, refs[x - start[r] + 1])
  BY <1>5, <1>7, <1>9
<1>11. RowEdges(batch, r) = start[r]..(start[r] + Len(refs) - 1)
  BY <1>8, <1>9
<1> QED BY <1>3, <1>6, <1>8, <1>10, <1>11, Zenon

-----------------------------------------------------------------------------
(* What the kernels find is what the instructions mean.                    *)

\* evaluateEqual and evaluateIn.
LEMMA FieldMeans ==
  ASSUME Linked, pc # "idle", NEW r \in Rows, NEW i \in Instructions,
         Code[i].op \in {"equal", "in"}, NEW evidence, NEW operands
  PROVE  FieldReason(batch, Code[i], r)
           = InstructionMeaning(pack.requests[r], evidence, Code[i], operands)
PROOF
<1> DEFINE ins == Code[i]
           f == ins.field
           text == pack.requests[r].fields[f]
           wanted == IF ins.op = "equal" THEN {ins.value} ELSE ins.set
<1>1. f \in Fields /\ wanted \subseteq Symbols
  BY CodeAssumption DEF IsInstruction
<1>2. /\ r \in batch.present[f] <=> text # NoSymbol
      /\ r \in batch.valid[f] <=> text \in ValidValues[f]
      /\ \A symbol \in Symbols : batch.values[<<f, r>>] = symbol <=> text = symbol
  BY <1>1, FieldsOfPack
<1>3. Matches(ins, batch.values[<<f, r>>]) <=> batch.values[<<f, r>>] \in wanted
  BY DEF Matches
<1>4. batch.values[<<f, r>>] \in wanted <=> text \in wanted
  BY <1>1, <1>2
<1>5. InstructionMeaning(pack.requests[r], evidence, ins, operands) = FieldMeaning(text, f, wanted)
  BY DEF InstructionMeaning
<1>6. FieldReason(batch, ins, r) =
        IF text = NoSymbol THEN ReasonMissing
        ELSE IF text \notin ValidValues[f] THEN ReasonUnclear
        ELSE IF text \in wanted THEN ReasonSatisfied ELSE ReasonFalse
  BY <1>2, <1>3, <1>4 DEF FieldReason
<1> QED BY <1>5, <1>6 DEF FieldMeaning

\* The class the kernel gives a record in each state of EvidenceOrder.
StateClasses == <<"conflict", "stale", "revoked", "unclear", "satisfied", "wrong">>

\* The least of a set of state numbers.
LEMMA LeastState ==
  ASSUME NEW S \in SUBSET (1..6), S # {}
  PROVE  Min(S) \in S /\ \A s \in S : Min(S) <= s
PROOF
<1>1. PICK x \in S : \A y \in S : x <= y
  BY LeastExists
<1> QED BY <1>1 DEF Min

\* classifyEvidence: a record's class is the worst state it is in.
LEMMA StateMeans ==
  ASSUME Linked, pc # "idle", NEW k \in DOMAIN pack.evidence,
         NEW want \in [Qualifiers -> Symbols \cup {NoSymbol}]
  PROVE  /\ StateOf(pack.evidence[k], want) \in 1..6
         /\ RecordClass(batch, k, want) = StateClasses[StateOf(pack.evidence[k], want)]
PROOF
<1> DEFINE record == pack.evidence[k]
           states == {s \in DOMAIN EvidenceOrder : InState(record, want, EvidenceOrder[s])}
           wanted == {q \in Qualifiers : want[q] # NoSymbol}
           text == record.qualifiers
           given == wanted \cap batch.qualified[k]
<1>1. /\ batch.flags[k] = StateFlags(record)
      /\ \A q \in Qualifiers : q \in batch.qualified[k] <=> text[q] # NoSymbol
      /\ \A q \in Qualifiers : \A symbol \in Symbols :
           batch.qualifiers[k][q] = symbol <=> text[q] = symbol
  BY RecordsOfPack
<1>2. \A q \in wanted : want[q] \in Symbols /\ want[q] # NoSymbol
  OBVIOUS
<1>3. /\ "conflict" \in batch.flags[k] <=> InState(record, want, "conflict")
      /\ "stale" \in batch.flags[k] <=> InState(record, want, "stale")
      /\ "revoked" \in batch.flags[k] <=> InState(record, want, "revoked")
  BY <1>1 DEF StateFlags, InState, EvidenceFlags
<1>4. (\E q \in given : batch.qualifiers[k][q] # want[q])
        <=> \E q \in wanted : text[q] \notin {NoSymbol, want[q]}
  BY <1>1, <1>2
<1>5. given # wanted <=> \E q \in wanted : text[q] = NoSymbol
  BY <1>1
<1>6. /\ InState(record, want, "incomplete") <=>
           /\ \E q \in wanted : text[q] = NoSymbol
           /\ \A q \in wanted : text[q] \in {NoSymbol, want[q]}
      /\ InState(record, want, "qualified") <=> \A q \in wanted : text[q] = want[q]
      /\ InState(record, want, "wrong")
  BY DEF InState
<1>7. QualifierClass(batch, k, want) =
        IF \E q \in wanted : text[q] \notin {NoSymbol, want[q]} THEN "wrong"
        ELSE IF \E q \in wanted : text[q] = NoSymbol THEN "unclear" ELSE "satisfied"
  BY <1>4, <1>5 DEF QualifierClass
<1>8. QualifierClass(batch, k, want) =
        IF InState(record, want, "incomplete") THEN "unclear"
        ELSE IF InState(record, want, "qualified") THEN "satisfied" ELSE "wrong"
  BY <1>2, <1>6, <1>7
<1>9. RecordClass(batch, k, want) =
        IF InState(record, want, "conflict") THEN "conflict"
        ELSE IF InState(record, want, "stale") THEN "stale"
        ELSE IF InState(record, want, "revoked") THEN "revoked"
        ELSE IF InState(record, want, "incomplete") THEN "unclear"
        ELSE IF InState(record, want, "qualified") THEN "satisfied" ELSE "wrong"
  BY <1>3, <1>8 DEF RecordClass
<1>10. /\ 1 \in states <=> InState(record, want, "conflict")
       /\ 2 \in states <=> InState(record, want, "stale")
       /\ 3 \in states <=> InState(record, want, "revoked")
       /\ 4 \in states <=> InState(record, want, "incomplete")
       /\ 5 \in states <=> InState(record, want, "qualified")
       /\ 6 \in states /\ states \in SUBSET (1..6)
  BY <1>6 DEF EvidenceOrder
<1>11. StateOf(record, want) = Min(states)
  BY DEF StateOf
<1> HIDE DEF states, record
<1>12. PICK least : least = Min(states) /\ least \in states /\ \A s \in states : least <= s
  BY <1>10, LeastState
<1>13. least \in 1..6 /\ RecordClass(batch, k, want) = StateClasses[least]
  BY <1>9, <1>10, <1>12 DEF StateClasses
<1> QED BY <1>11, <1>12, <1>13 DEF record

\* The edges of a row lead to the records its request refers to.
LEMMA AttachedMeans ==
  ASSUME Linked, pc # "idle", NEW r \in Rows, NEW k \in DOMAIN pack.evidence
  PROVE  (\E e \in RowEdges(batch, r) : batch.refs[e] = k)
           <=> k \in Attached(pack.requests[r], pack.evidence)
PROOF
<1> DEFINE refs == pack.requests[r].refs
           start == batch.offsets[r]
<1>1. /\ Len(refs) \in Nat /\ DOMAIN refs = 1..Len(refs) /\ start \in Nat
      /\ RowEdges(batch, r) = start..(start + Len(refs) - 1)
      /\ \A e \in RowEdges(batch, r) :
           batch.refs[e] = RecordIndex(pack.evidence, refs[e - start + 1])
  BY RowEdgesOfPack
<1>2. \A id : RecordIndex(pack.evidence, id) = k <=> pack.evidence[k].id = id
  <2>1. IsSequence(pack.evidence) /\ DistinctIds(pack.evidence)
    BY RecordsOfPackDistinct
  <2> QED BY <2>1, RecordIndexMeans
<1> HIDE DEF refs, start
<1>3. ASSUME NEW e \in RowEdges(batch, r), batch.refs[e] = k
      PROVE  \E j \in DOMAIN refs : refs[j] = pack.evidence[k].id
  <2>1. e - start + 1 \in DOMAIN refs
    BY <1>1
  <2>2. RecordIndex(pack.evidence, refs[e - start + 1]) = k
    BY <1>1, <1>3
  <2> QED BY <1>2, <2>1, <2>2
<1>4. ASSUME NEW j \in DOMAIN refs, refs[j] = pack.evidence[k].id
      PROVE  \E e \in RowEdges(batch, r) : batch.refs[e] = k
  <2>1. start + j - 1 \in RowEdges(batch, r) /\ (start + j - 1) - start + 1 = j
    BY <1>1
  <2>2. batch.refs[start + j - 1] = RecordIndex(pack.evidence, refs[j])
    BY <1>1, <2>1
  <2> QED BY <1>2, <1>4, <2>1, <2>2
<1>5. k \in Attached(pack.requests[r], pack.evidence)
        <=> \E j \in DOMAIN refs : refs[j] = pack.evidence[k].id
  BY DEF Attached, refs
<1> QED BY <1>3, <1>4, <1>5

\* Over every state that occurs, the worst decides.
LEMMA WorstStateDecides ==
  ASSUME NEW states \in SUBSET (1..6), NEW met, met = {StateClasses[s] : s \in states}
  PROVE  (IF "conflict" \in met THEN ReasonConflict
          ELSE IF "stale" \in met THEN ReasonStale
          ELSE IF "revoked" \in met THEN ReasonInvalidEvidence
          ELSE IF "unclear" \in met THEN ReasonUnclear
          ELSE IF "satisfied" \in met THEN ReasonSatisfied
          ELSE IF "wrong" \in met THEN ReasonInvalidEvidence
          ELSE ReasonMissing)
         = IF states = {} THEN ReasonMissing ELSE EvidenceMeaning[Min(states)]
PROOF
<1>1. /\ "conflict" \in met <=> 1 \in states
      /\ "stale" \in met <=> 2 \in states
      /\ "revoked" \in met <=> 3 \in states
      /\ "unclear" \in met <=> 4 \in states
      /\ "satisfied" \in met <=> 5 \in states
      /\ "wrong" \in met <=> 6 \in states
  <2>1. /\ StateClasses[1] = "conflict" /\ StateClasses[2] = "stale" /\ StateClasses[3] = "revoked"
        /\ StateClasses[4] = "unclear" /\ StateClasses[5] = "satisfied" /\ StateClasses[6] = "wrong"
    BY DEF StateClasses
  <2>2. \A s \in states : s = 1 \/ s = 2 \/ s = 3 \/ s = 4 \/ s = 5 \/ s = 6
    OBVIOUS
  <2>3. \A class : class \in met <=> \E s \in states : StateClasses[s] = class
    OBVIOUS
  <2> HIDE DEF StateClasses
  <2> QED BY <2>1, <2>2, <2>3
<1>2. CASE states = {}
  BY <1>1, <1>2
<1>3. CASE states # {}
  <2>1. PICK least : least = Min(states) /\ least \in states /\ \A s \in states : least <= s
    BY <1>3, LeastState
  <2> QED BY <1>1, <1>3, <2>1 DEF EvidenceMeaning
<1> QED BY <1>2, <1>3

\* evaluateEvidence.
LEMMA EvidenceMeans ==
  ASSUME Linked, pc # "idle", NEW r \in Rows, NEW i \in Instructions,
         Code[i].op = "evidence_matches", NEW operands
  PROVE  EvidenceReason(batch, Code[i], r)
           = InstructionMeaning(pack.requests[r], pack.evidence, Code[i], operands)
PROOF
<1> DEFINE ins == Code[i]
           q == pack.requests[r]
           records == {k \in Attached(q, pack.evidence) : pack.evidence[k].type = ins.kind}
           states == {StateOf(pack.evidence[k], ins.want) : k \in records}
           met == {RecordClass(batch, k, ins.want) : k \in AttachedRecords(batch, ins.kind, r)}
<1>1. ins.kind \in Kinds /\ ins.want \in [Qualifiers -> Symbols \cup {NoSymbol}]
  BY CodeAssumption DEF IsInstruction
<1>2. AttachedRecords(batch, ins.kind, r) = records
  <2>1. DOMAIN batch.kinds = DOMAIN pack.evidence
        /\ \A k \in DOMAIN pack.evidence : batch.kinds[k] = ins.kind <=> pack.evidence[k].type = ins.kind
    BY <1>1, RecordsOfPack
  <2>2. Attached(q, pack.evidence) \subseteq DOMAIN pack.evidence
    BY DEF Attached
  <2> QED BY <2>1, <2>2, AttachedMeans DEF AttachedRecords
<1>3. records \subseteq DOMAIN pack.evidence
  BY DEF Attached
<1>4. \A k \in records : /\ StateOf(pack.evidence[k], ins.want) \in 1..6
                         /\ RecordClass(batch, k, ins.want) = StateClasses[StateOf(pack.evidence[k], ins.want)]
  BY <1>1, <1>3, StateMeans
<1>5. states \in SUBSET (1..6) /\ met = {StateClasses[s] : s \in states}
  BY <1>2, <1>4
<1>6. InstructionMeaning(q, pack.evidence, ins, operands)
        = IF states = {} THEN ReasonMissing ELSE EvidenceMeaning[Min(states)]
  <2>1. InstructionMeaning(q, pack.evidence, ins, operands) = EvidenceVerdict(q, pack.evidence, ins)
    BY DEF InstructionMeaning
  <2> QED BY <2>1 DEF EvidenceVerdict
<1>7. EvidenceReason(batch, ins, r) =
        IF "conflict" \in met THEN ReasonConflict
        ELSE IF "stale" \in met THEN ReasonStale
        ELSE IF "revoked" \in met THEN ReasonInvalidEvidence
        ELSE IF "unclear" \in met THEN ReasonUnclear
        ELSE IF "satisfied" \in met THEN ReasonSatisfied
        ELSE IF "wrong" \in met THEN ReasonInvalidEvidence
        ELSE ReasonMissing
  BY DEF EvidenceReason
<1> HIDE DEF met, states, records
<1> QED BY <1>5, <1>6, <1>7, WorstStateDecides

\* The meanings of the operands.
MeaningsOf(meaning, operands) == {meaning[o] : o \in operands}

\* The planes of the operands, and their intersected truth bits, say of row r
\* what the operands mean.
PlanesSay(meaning, operands, planes, pos, neg, r) ==
  /\ \A o \in operands : meaning[o] \in Reasons
  /\ \A o \in operands : \A reason \in Reasons : r \in planes[o][reason] <=> meaning[o] = reason
  /\ r \in pos <=> \A o \in operands : meaning[o] \in {ReasonSatisfied, ReasonConflict}
  /\ r \in neg <=> \E o \in operands : meaning[o] \in {ReasonFalse, ReasonConflict}

\* evaluateAll: the truth bits of the operands and the priority of what they
\* leave open say what AllMeaning says of the operands' reasons.
LEMMA AllMeans ==
  ASSUME NEW operands, operands # {}, NEW meaning, NEW planes, NEW pos, NEW neg, NEW r,
         PlanesSay(meaning, operands, planes, pos, neg, r)
  PROVE  AllReason(pos, neg, planes, operands, r) = AllMeaning(MeaningsOf(meaning, operands))
PROOF
<1> DEFINE found == MeaningsOf(meaning, operands)
<1>1. /\ found \subseteq Reasons /\ found # {}
      /\ r \in pos <=> found \subseteq {ReasonSatisfied, ReasonConflict}
      /\ r \in neg <=> found \cap {ReasonFalse, ReasonConflict} # {}
      /\ \A reason \in Reasons : (\E o \in operands : r \in planes[o][reason]) <=> reason \in found
  BY DEF MeaningsOf, PlanesSay
<1> HIDE DEF found
<1>2. /\ ReasonSatisfied # ReasonConflict /\ ReasonSatisfied # ReasonFalse /\ ReasonFalse # ReasonConflict
      /\ ReasonConflict \in Reasons /\ ReasonFalse \in Reasons /\ ReasonSatisfied \in Reasons
  BY DEF ReasonSatisfied, ReasonConflict, ReasonFalse, Reasons, ReasonCount
<1>3. CASE r \in pos /\ r \in neg
  <2>1. AllReason(pos, neg, planes, operands, r) = ReasonConflict
    BY <1>3 DEF AllReason
  <2>2. ReasonConflict \in found /\ found \subseteq {ReasonSatisfied, ReasonConflict}
    BY <1>1, <1>2, <1>3
  <2>3. AllMeaning(found) = ReasonConflict
    BY <1>2, <2>2 DEF AllMeaning
  <2> QED BY <2>1, <2>3 DEF found
<1>4. CASE r \in neg /\ r \notin pos
  <2>1. AllReason(pos, neg, planes, operands, r) = ReasonFalse
    BY <1>4 DEF AllReason
  <2>2. found # {ReasonSatisfied} /\ ~(found \subseteq {ReasonSatisfied, ReasonConflict})
        /\ found \cap {ReasonFalse, ReasonConflict} # {}
    BY <1>1, <1>2, <1>4
  <2>3. AllMeaning(found) = ReasonFalse
    BY <2>2 DEF AllMeaning
  <2> QED BY <2>1, <2>3 DEF found
<1>5. CASE r \in pos /\ r \notin neg
  <2>1. AllReason(pos, neg, planes, operands, r) = ReasonSatisfied
    BY <1>5 DEF AllReason
  <2>2. found = {ReasonSatisfied}
    BY <1>1, <1>2, <1>5
  <2>3. AllMeaning(found) = ReasonSatisfied
    BY <2>2 DEF AllMeaning
  <2> QED BY <2>1, <2>3 DEF found
<1>6. CASE r \notin pos /\ r \notin neg
  <2> DEFINE held == {p \in DOMAIN AllPriority :
                        \E o \in operands : r \in planes[o][AllPriority[p]]}
             open == {p \in DOMAIN OpenReasons : OpenReasons[p] \in found}
  <2>1. AllReason(pos, neg, planes, operands, r) = UnsettledReason(planes, operands, r)
    BY <1>6 DEF AllReason
  <2>2. /\ found # {ReasonSatisfied} /\ ~(found \subseteq {ReasonSatisfied, ReasonConflict})
        /\ found \cap {ReasonFalse, ReasonConflict} = {}
    BY <1>1, <1>2, <1>6
  <2>3. AllMeaning(found) = OpenReasons[Min(open)]
    <3>1. ~(ReasonConflict \in found)
      BY <2>2
    <3> QED BY <2>2, <3>1 DEF AllMeaning
  <2>4. /\ DOMAIN AllPriority = 1..6 /\ DOMAIN OpenReasons = 1..5
        /\ AllPriority[1] = ReasonConflict
        /\ \A p \in 1..5 : AllPriority[p + 1] = OpenReasons[p]
        /\ \A p \in 1..6 : AllPriority[p] \in Reasons
        /\ \A x \in Reasons : x \in {ReasonSatisfied, ReasonConflict, ReasonFalse}
                              \/ \E p \in 1..5 : OpenReasons[p] = x
    <3>1. Reasons = {1, 2, 3, 4, 5, 6, 7, 8}
      BY DEF Reasons, ReasonCount
    <3> QED BY <3>1
        DEF AllPriority, OpenReasons, ReasonConflict, ReasonStale, ReasonInvalidEvidence,
            ReasonUnclear, ReasonMissing, ReasonUnverifiable, ReasonSatisfied, ReasonFalse
  <2>5. held = {p \in 1..6 : AllPriority[p] \in found}
    BY <1>1, <2>4
  <2>6. 1 \notin held /\ \A p \in 1..5 : p + 1 \in held <=> p \in open
    <3> HIDE DEF held
    <3>1. open = {p \in 1..5 : OpenReasons[p] \in found}
      BY <2>4
    <3>2. 1 \notin held
      BY <2>2, <2>4, <2>5
    <3>3. \A p \in 1..5 : p + 1 \in 1..6
      OBVIOUS
    <3> QED BY <2>4, <2>5, <3>1, <3>2, <3>3
  <2>7. open # {} /\ open \in SUBSET (1..6) /\ open \subseteq 1..5
    <3>1. PICK x \in found : x \notin {ReasonSatisfied, ReasonConflict, ReasonFalse}
      BY <2>2
    <3>2. PICK p \in 1..5 : OpenReasons[p] = x
      BY <1>1, <2>4, <3>1
    <3>3. \A y \in 1..5 : y \in 1..6
      OBVIOUS
    <3> QED BY <2>4, <3>2, <3>3
  <2>8. PICK least : least = Min(open) /\ least \in open /\ \A p \in open : least <= p
    <3> HIDE DEF open
    <3> QED BY <2>7, LeastState
  <2>9. UnsettledReason(planes, operands, r) =
          IF held = {} THEN ReasonUnverifiable
          ELSE AllPriority[CHOOSE p \in held : \A x \in held : p <= x]
    BY DEF UnsettledReason
  <2>10. held \subseteq 1..6
    BY <2>5
  <2> HIDE DEF held, open
  <2>11. least \in 1..5 /\ least + 1 \in held
    BY <2>6, <2>7, <2>8
  <2>12. \A p \in held : least + 1 <= p
    <3> SUFFICES ASSUME NEW p \in held PROVE least + 1 <= p
      OBVIOUS
    <3>1. p \in 1..6 /\ p # 1
      BY <2>6, <2>10
    <3>2. p - 1 \in 1..5 /\ (p - 1) + 1 = p
      BY <3>1
    <3>3. p - 1 \in open
      BY <2>6, <3>2
    <3>4. least <= p - 1
      BY <2>8, <3>3
    <3> QED BY <2>11, <3>1, <3>4
  <2>13. \A p \in held : (\A x \in held : p <= x) => p = least + 1
    BY <2>10, <2>11, <2>12
  <2>14. (CHOOSE p \in held : \A x \in held : p <= x) = least + 1
    BY <2>11, <2>12, <2>13
  <2>15. UnsettledReason(planes, operands, r) = AllPriority[least + 1]
    BY <2>9, <2>11, <2>14
  <2>16. AllPriority[least + 1] = OpenReasons[least]
    BY <2>4, <2>11
  <2> QED BY <2>1, <2>3, <2>8, <2>15, <2>16 DEF found
<1> QED BY <1>3, <1>4, <1>5, <1>6

-----------------------------------------------------------------------------
(* Every plane holds the meaning of its instruction.                       *)

\* What the instructions mean for row r.
MeaningOf(r) == Meaning(pack.requests[r], pack.evidence)

\* An instruction that has run holds its meaning as its one reason on each row.
PlanesMean ==
  \A i \in Instructions : HasRun(i) => \A r \in Rows : HeldReasons(i, r) = {MeaningOf(r)[i]}

\* Steps that run no instruction.
LEMMA PlanesMeanFrame ==
  ASSUME PlanesMean, UNCHANGED <<pack, batch, reasons>>,
         \A i \in Instructions : HasRun(i)' => HasRun(i) \/ Rows = {}
  PROVE  PlanesMean'
PROOF
<1>1. Rows' = Rows /\ (\A i, r : HeldReasons(i, r)' = HeldReasons(i, r))
      /\ \A r : MeaningOf(r)' = MeaningOf(r)
  BY DEF Rows, HeldReasons, MeaningOf
<1> QED BY <1>1 DEF PlanesMean

\* Each kernel finds the meaning of its instruction.
LEMMA KernelsMean ==
  ASSUME TypeOK, PlanesInv, Linked, PlanesMean,
         pc = "execute", NEW i \in Instructions, i = ip, NEW r \in Rows,
         NEW pos, pos = {x \in Rows : \A o \in Code[i].operands : x \in positive[o]},
         NEW neg, neg = {x \in Rows : \E o \in Code[i].operands : x \in negative[o]}
  PROVE  /\ Code[i].op \in {"equal", "in"} => FieldReason(batch, Code[i], r) = MeaningOf(r)[i]
         /\ Code[i].op = "evidence_matches" => EvidenceReason(batch, Code[i], r) = MeaningOf(r)[i]
         /\ Code[i].op = "all" =>
              AllReason(pos, neg, reasons, Code[i].operands, r) = MeaningOf(r)[i]
PROOF
<1> DEFINE operands == {MeaningOf(r)[o] : o \in OperandsOf(Code[i])}
<1>1. MeaningOf(r)[i] = InstructionMeaning(pack.requests[r], pack.evidence, Code[i], operands)
  <2>1. PICK q, evidence : q = pack.requests[r] /\ evidence = pack.evidence
    OBVIOUS
  <2>2. Meaning(q, evidence)[i] = Means(Meaning(q, evidence), q, evidence, i)
    BY MeaningUnfolds
  <2>3. MeaningOf(r) = Meaning(q, evidence)
    BY <2>1 DEF MeaningOf
  <2> QED BY <2>1, <2>2, <2>3, Zenon DEF Means
<1> HIDE DEF operands
<1>2. CASE Code[i].op \in {"equal", "in"}
  BY <1>1, <1>2, FieldMeans
<1>3. CASE Code[i].op = "evidence_matches"
  BY <1>1, <1>3, EvidenceMeans
<1>4. CASE Code[i].op = "all"
  <2>1. operands = {MeaningOf(r)[o] : o \in Code[i].operands}
    BY <1>4 DEF operands, OperandsOf
  <2>2. MeaningOf(r)[i] = AllMeaning(MeaningsOf(MeaningOf(r), Code[i].operands))
    BY <1>1, <1>4, <2>1 DEF InstructionMeaning, MeaningsOf
  <2>3. Code[i].operands # {} /\ \A o \in Code[i].operands : o \in Instructions /\ HasRun(o)
    <3>1. Code[i].operands \in SUBSET (1..(i - 1)) /\ Code[i].operands # {}
      BY <1>4, CodeAssumption DEF IsInstruction
    <3>2. \A o \in 1..(i - 1) : o \in Instructions /\ o < ip
      BY ProgramShape DEF Instructions
    <3> QED BY <3>1, <3>2 DEF HasRun
  <2>4. \A o \in Code[i].operands : HeldReasons(o, r) = {MeaningOf(r)[o]} /\ OneReason(o, r)
    BY <2>3 DEF PlanesMean, PlanesInv, ReasonMatchesTruth
  <2>5. \A o \in Code[i].operands :
          /\ MeaningOf(r)[o] \in Reasons
          /\ \A reason \in Reasons : r \in reasons[o][reason] <=> MeaningOf(r)[o] = reason
          /\ r \in positive[o] <=> MeaningOf(r)[o] \in {ReasonSatisfied, ReasonConflict}
          /\ r \in negative[o] <=> MeaningOf(r)[o] \in {ReasonFalse, ReasonConflict}
    <3> SUFFICES ASSUME NEW o \in Code[i].operands
                 PROVE  /\ MeaningOf(r)[o] \in Reasons
                        /\ \A reason \in Reasons : r \in reasons[o][reason] <=> MeaningOf(r)[o] = reason
                        /\ r \in positive[o] <=> MeaningOf(r)[o] \in {ReasonSatisfied, ReasonConflict}
                        /\ r \in negative[o] <=> MeaningOf(r)[o] \in {ReasonFalse, ReasonConflict}
      OBVIOUS
    <3>1. HeldReasons(o, r) = {MeaningOf(r)[o]}
      BY <2>4
    <3>2. MeaningOf(r)[o] \in Reasons
          /\ \A reason \in Reasons : r \in reasons[o][reason] <=> MeaningOf(r)[o] = reason
      BY <3>1 DEF HeldReasons
    <3>3. PICK reason \in Reasons :
            /\ HeldReasons(o, r) = {reason}
            /\ r \in positive[o] <=> reason \in {ReasonSatisfied, ReasonConflict}
            /\ r \in negative[o] <=> reason \in {ReasonFalse, ReasonConflict}
      BY <2>4 DEF OneReason
    <3>4. reason = MeaningOf(r)[o]
      BY <3>1, <3>3
    <3> QED BY <3>2, <3>3, <3>4
  <2>6. /\ r \in pos <=> \A o \in Code[i].operands : MeaningOf(r)[o] \in {ReasonSatisfied, ReasonConflict}
        /\ r \in neg <=> \E o \in Code[i].operands : MeaningOf(r)[o] \in {ReasonFalse, ReasonConflict}
    BY <2>5
  <2>7. PICK meaning, ops : meaning = MeaningOf(r) /\ ops = Code[i].operands
    OBVIOUS
  <2>8. ops # {} /\ PlanesSay(meaning, ops, reasons, pos, neg, r)
    BY <2>3, <2>5, <2>6, <2>7, Zenon DEF PlanesSay
  <2>9. AllReason(pos, neg, reasons, ops, r) = AllMeaning(MeaningsOf(meaning, ops))
    BY ONLY <2>8, AllMeans
  <2> QED BY <1>4, <2>2, <2>7, <2>9
<1> QED BY <1>2, <1>3, <1>4

\* Running an instruction leaves its meaning in its planes.
LEMMA ExecutePlanesMean ==
  ASSUME TypeOK, PlanesInv, Linked, PlanesMean,
         ExecuteField \/ ExecuteEvidence \/ ExecuteAll
  PROVE  PlanesMean'
PROOF
<1>1. /\ pc = "execute" /\ pc' = "execute" /\ ip \in Instructions /\ ip' = ip + 1
      /\ pack' = pack /\ batch' = batch /\ Rows' = Rows
  BY DEF ExecuteField, ExecuteEvidence, ExecuteAll, Executing, Executed, Rows
<1>2. PICK i \in Instructions : i = ip
  BY <1>1
<1>3. ContextTypeOK /\ Fresh(i)
  BY <1>1, <1>2, ProgramShape DEF TypeOK, PlanesInv, HasRun, ResolvingPcs
<1>4. \A j \in Instructions : HasRun(j)' <=> HasRun(j) \/ j = i
  <2>1. \A j : (HasRun(j) <=> j < ip) /\ (HasRun(j)' <=> j < ip + 1)
    BY <1>1 DEF HasRun, ResolvingPcs
  <2>2. \A j \in Instructions : j < ip + 1 <=> j < ip \/ j = ip
    <3>1. Instructions \subseteq Nat /\ ip \in Nat
      BY <1>1, ProgramShape
    <3>2. \A j, n \in Nat : j < n + 1 <=> j < n \/ j = n
      OBVIOUS
    <3> QED BY <3>1, <3>2, Zenon
  <2> QED BY <1>2, <2>1, <2>2
<1>5. PICK found : reasons' = WithReasons(found) /\ \A r \in Rows : found[r] = MeaningOf(r)[i]
  <2> DEFINE pos == {r \in Rows : \A o \in Code[i].operands : r \in positive[o]}
             neg == {r \in Rows : \E o \in Code[i].operands : r \in negative[o]}
  <2>1. \A r \in Rows :
          /\ Code[i].op \in {"equal", "in"} => FieldReason(batch, Code[i], r) = MeaningOf(r)[i]
          /\ Code[i].op = "evidence_matches" => EvidenceReason(batch, Code[i], r) = MeaningOf(r)[i]
          /\ Code[i].op = "all" =>
               AllReason(pos, neg, reasons, Code[i].operands, r) = MeaningOf(r)[i]
    BY <1>1, <1>2, KernelsMean
  <2>2. CASE ExecuteField
    <3> DEFINE found == [r \in Rows |-> FieldReason(batch, Code[i], r)]
    <3>1. reasons' = WithReasons(found) /\ Code[i].op \in {"equal", "in"}
      BY <1>2, <2>2 DEF ExecuteField, Executing
    <3>2. \A r \in Rows : found[r] = MeaningOf(r)[i]
      BY <2>1, <3>1
    <3> HIDE DEF found
    <3> QED BY <3>1, <3>2
  <2>3. CASE ExecuteEvidence
    <3> DEFINE found == [r \in Rows |-> EvidenceReason(batch, Code[i], r)]
    <3>1. reasons' = WithReasons(found) /\ Code[i].op = "evidence_matches"
      BY <1>2, <2>3 DEF ExecuteEvidence, Executing
    <3>2. \A r \in Rows : found[r] = MeaningOf(r)[i]
      BY <2>1, <3>1
    <3> HIDE DEF found
    <3> QED BY <3>1, <3>2
  <2>4. CASE ExecuteAll
    <3> DEFINE found == [r \in Rows |-> AllReason(pos, neg, reasons, Code[i].operands, r)]
    <3>1. reasons' = WithReasons(found) /\ Code[i].op = "all"
      BY <1>2, <2>4 DEF ExecuteAll, Executing
    <3> HIDE DEF pos, neg
    <3>2. \A r \in Rows : found[r] = MeaningOf(r)[i]
      BY <2>1, <3>1
    <3> HIDE DEF found
    <3> QED BY <3>1, <3>2
  <2> QED BY <2>2, <2>3, <2>4
<1>6. \A j, r : MeaningOf(r)'[j] = MeaningOf(r)[j]
  BY <1>1 DEF MeaningOf
<1>7. ASSUME NEW r \in Rows PROVE HeldReasons(i, r)' = {MeaningOf(r)'[i]}
  <2>1. \A reason \in Reasons : reasons'[i][reason] = {x \in Rows : found[x] = reason}
    BY <1>2, <1>3, <1>5 DEF ContextTypeOK, WithReasons, Fresh
  <2>2. HeldReasons(i, r)' = {reason \in Reasons : found[r] = reason}
    BY <1>7, <2>1 DEF HeldReasons
  <2>3. found[r] \in Reasons
    <3>1. OneReason(i, r)'
      BY <1>1, <1>4, <1>7, ExecutePlanesInv DEF PlanesInv, ReasonMatchesTruth
    <3>2. PICK reason \in Reasons : HeldReasons(i, r)' = {reason}
      BY <3>1 DEF OneReason
    <3> QED BY <2>2, <3>2
  <2>4. found[r] = MeaningOf(r)[i]
    BY <1>5, <1>7
  <2> QED BY <1>6, <2>2, <2>3, <2>4
<1>8. ASSUME NEW j \in Instructions, j # i, HasRun(j), NEW r \in Rows
      PROVE  HeldReasons(j, r)' = {MeaningOf(r)'[j]}
  <2>1. reasons'[j] = reasons[j]
    BY <1>2, <1>3, <1>5, <1>8 DEF ContextTypeOK, WithReasons
  <2>2. HeldReasons(j, r)' = HeldReasons(j, r)
    BY <2>1 DEF HeldReasons
  <2> QED BY <1>6, <1>8, <2>2 DEF PlanesMean
<1> QED BY <1>1, <1>4, <1>7, <1>8 DEF PlanesMean

\* Every step keeps the planes what the instructions mean.
LEMMA NextPlanesMean ==
  TypeOK /\ PlanesInv /\ Linked /\ PlanesMean /\ [Next]_vars => PlanesMean'
PROOF
<1> SUFFICES ASSUME TypeOK, PlanesInv, Linked, PlanesMean, [Next]_vars
             PROVE  PlanesMean'
  OBVIOUS
<1> USE DEF ResolvingPcs
<1>1. ASSUME NEW p \in Packs, RejectInput(p) \/ BuildInto(p) PROVE PlanesMean'
  BY <1>1 DEF RejectInput, BuildInto, PlanesMean, HasRun
<1>2. CASE EnsureCapacity
  BY <1>2 DEF EnsureCapacity, PlanesMean, HasRun
<1>3. CASE CheckShapes
  BY <1>3, ProgramShape DEF CheckShapes, Fail, PlanesMean, HasRun
<1>4. CASE ExecuteField \/ ExecuteEvidence \/ ExecuteAll
  BY <1>4, ExecutePlanesMean
<1>5. CASE ResetResults
  <2>1. pc = "execute" /\ (ip > Len(Code) \/ batch.rows = 0) /\ ip \in Nat
    BY <1>5 DEF ResetResults, InstructionsDone, TypeOK
  <2>2. \A i \in Instructions : HasRun(i) \/ Rows = {}
    BY <2>1, ProgramShape DEF HasRun, Instructions, Rows
  <2> QED BY <1>5, <2>2, PlanesMeanFrame DEF ResetResults, context
<1>6. CASE ResolveRow \/ BeginMaterialize \/ MaterializeRow \/ Return
  BY <1>6, PlanesMeanFrame
  DEF ResolveRow, ResolveSemantics, ResolveEdge, BeginRequirements, SelectRequirement,
      ResolveClause, NextRequirement, FinishRequirements, ResolveEvidence, FinishRow,
      BeginMaterialize, MaterializeRow, Return, Fail, HasRun, context
<1>7. CASE UNCHANGED vars
  BY <1>7, PlanesMeanFrame DEF vars, context, cursors, HasRun
<1> QED BY <1>1, <1>2, <1>3, <1>4, <1>5, <1>6, <1>7 DEF Next, Submit, Evaluate

\* Once every instruction has run, the evaluator reads meanings.
LEMMA ReadsMeaning ==
  ASSUME PlanesInv, PlanesMean, pc \in ResolvingPcs \cup {"materialize"}, NEW r \in Rows
  PROVE  /\ \A i \in Instructions : MeaningOf(r)[i] \in Reasons
         /\ \A q \in DOMAIN Requirements : Applicable(q, r) <=> q \in InForce(MeaningOf(r))
         /\ \A c \in DOMAIN Clauses : ClauseReason(c, r) = MeaningOf(r)[Clauses[c].root]
PROOF
<1>1. \A i \in Instructions : HeldReasons(i, r) = {MeaningOf(r)[i]} /\ OneReason(i, r)
  BY DEF PlanesMean, PlanesInv, ReasonMatchesTruth, HasRun
<1>2. \A i \in Instructions : MeaningOf(r)[i] \in Reasons
  BY <1>1 DEF HeldReasons
<1>3. ASSUME NEW q \in DOMAIN Requirements
      PROVE  Applicable(q, r) <=> q \in InForce(MeaningOf(r))
  <2>1. PICK i \in Instructions : i = Requirements[q].root
    BY ProgramShape
  <2>2. PICK reason \in Reasons :
          /\ HeldReasons(i, r) = {reason}
          /\ r \in positive[i] <=> reason \in {ReasonSatisfied, ReasonConflict}
          /\ r \in negative[i] <=> reason \in {ReasonFalse, ReasonConflict}
    BY <1>1 DEF OneReason
  <2>3. reason = MeaningOf(r)[i]
    BY <1>1, <2>2
  <2>4. r \in positive[i] /\ r \notin negative[i] <=> reason = ReasonSatisfied
    BY <2>2 DEF ReasonSatisfied, ReasonConflict, ReasonFalse
  <2> QED BY <2>1, <2>3, <2>4 DEF Applicable, InForce
<1>4. ASSUME NEW c \in DOMAIN Clauses PROVE ClauseReason(c, r) = MeaningOf(r)[Clauses[c].root]
  <2>1. PICK i \in Instructions : i = Clauses[c].root
    BY ProgramShape
  <2>2. {x \in Reasons : r \in reasons[i][x]} = {MeaningOf(r)[i]}
    BY <1>1 DEF HeldReasons
  <2>3. InstructionReason(reasons, i, r) = MeaningOf(r)[i]
    BY <1>2, <2>2, InstructionReasonRange
  <2> QED BY <2>1, <2>3 DEF ClauseReason
<1> QED BY <1>2, <1>3, <1>4

-----------------------------------------------------------------------------
(* The winner is always what the findings met so far decide.               *)

\* The findings the contract sees in row r.
FindingsOf(r) == Findings(pack.requests[r], pack.evidence, MeaningOf(r))

\* The findings of row r before a place in the order that breaks ties.
SeenBefore(r, place) == {f \in FindingsOf(r) : Before(f.at, place)}

\* How far resolveRow has come.
Place ==
  IF pc = "edges" THEN <<2, edge - batch.offsets[row] + 1, 0>>
  ELSE IF pc = "requirements" THEN <<3, requirement, 0>>
  ELSE IF pc = "clauses" THEN <<3, requirement, clause>>
  ELSE <<5, 0, 0>>

\* The findings by their source, with their places and outcomes.
IsFieldFinding(f, r) ==
  \E g \in Fields : /\ pack.requests[r].fields[g] \notin ValidValues[g]
                    /\ f = FieldFinding(pack.requests[r], g)
                    /\ f.at = <<1, g, 0>> /\ f.outcome = OutcomeEscalate
IsReferenceFinding(f, r) ==
  \E j \in 1..Len(pack.requests[r].refs) :
    /\ pack.requests[r].refs[j] \notin IdsOf(pack.evidence)
    /\ f = ReferenceFinding(pack.requests[r], j)
    /\ f.at = <<2, j, 0>> /\ f.outcome = OutcomeEscalate
IsClauseFinding(f, r) ==
  \E k \in InForce(MeaningOf(r)) : \E j \in 1..Len(Requirements[k].clauses) :
    /\ f = ClauseFinding(MeaningOf(r), k, j)
    /\ f.at = <<3, k, j>>
    /\ f.outcome = ClauseOutcome(Requirements[k].clauses[j], r)

\* The findings of a row and where they stand.
LEMMA FindingPlaces ==
  ASSUME PlanesInv, PlanesMean, Linked, pc \in ResolvingPcs \cup {"materialize"},
         NEW r \in Rows
  PROVE  /\ \A f \in FindingsOf(r) :
              \/ IsFieldFinding(f, r) \/ IsReferenceFinding(f, r) \/ IsClauseFinding(f, r)
              \/ InForce(MeaningOf(r)) = {} /\ f = NoneInForce
         /\ \A f : IsFieldFinding(f, r) \/ IsReferenceFinding(f, r) \/ IsClauseFinding(f, r)
                     => f \in FindingsOf(r)
         /\ InForce(MeaningOf(r)) = {} => NoneInForce \in FindingsOf(r)
         /\ NoneInForce.at = <<4, 0, 0>> /\ NoneInForce.outcome = OutcomeEscalate
PROOF
<1> DEFINE q == pack.requests[r]
           meaning == MeaningOf(r)
<1>1. DOMAIN q.refs = 1..Len(q.refs)
  BY RowEdgesOfPack DEF ResolvingPcs
<1>2. /\ \A g : FieldFinding(q, g).at = <<1, g, 0>> /\ FieldFinding(q, g).outcome = OutcomeEscalate
      /\ \A j : ReferenceFinding(q, j).at = <<2, j, 0>>
                /\ ReferenceFinding(q, j).outcome = OutcomeEscalate
      /\ NoneInForce.at = <<4, 0, 0>> /\ NoneInForce.outcome = OutcomeEscalate
  BY DEF FieldFinding, ReferenceFinding, NoneInForce, Finding
<1>3. ASSUME NEW k \in InForce(meaning), NEW j \in DOMAIN Requirements[k].clauses
      PROVE  /\ ClauseFinding(meaning, k, j).at = <<3, k, j>>
             /\ ClauseFinding(meaning, k, j).outcome = ClauseOutcome(Requirements[k].clauses[j], r)
  <2>1. PICK c : c = Requirements[k].clauses[j]
    OBVIOUS
  <2>2. c \in DOMAIN Clauses
    BY <2>1, ProgramShape DEF InForce
  <2>3. ClauseReason(c, r) = meaning[Clauses[c].root]
    BY <2>2, ReadsMeaning
  <2> HIDE DEF meaning
  <2> QED BY <2>1, <2>3 DEF ClauseFinding, ClauseOutcome, Finding
<1>4. \A k \in InForce(meaning) : DOMAIN Requirements[k].clauses = 1..Len(Requirements[k].clauses)
  BY ProgramShape DEF InForce
<1>5. FindingsOf(r) = FieldFindings(q) \cup ReferenceFindings(q, pack.evidence)
        \cup ClauseFindings(meaning) \cup (IF InForce(meaning) = {} THEN {NoneInForce} ELSE {})
  BY DEF FindingsOf, Findings
<1>6. \A f : f \in FieldFindings(q) <=> IsFieldFinding(f, r)
  BY <1>2 DEF FieldFindings, IsFieldFinding
<1>7. \A f : f \in ReferenceFindings(q, pack.evidence) <=> IsReferenceFinding(f, r)
  BY <1>1, <1>2 DEF ReferenceFindings, IsReferenceFinding
<1>8. \A f : f \in ClauseFindings(meaning) <=> IsClauseFinding(f, r)
  BY <1>3, <1>4 DEF ClauseFindings, IsClauseFinding
<1> QED BY <1>2, <1>5, <1>6, <1>7, <1>8

\* A requirement's clauses are clauses of the program.
LEMMA ClausesOfRequirement ==
  ASSUME NEW k \in DOMAIN Requirements
  PROVE  /\ k \in Nat \ {0} /\ Len(Requirements[k].clauses) \in Nat
         /\ DOMAIN Requirements[k].clauses = 1..Len(Requirements[k].clauses)
         /\ \A j \in 1..Len(Requirements[k].clauses) :
              j \in Nat \ {0} /\ Requirements[k].clauses[j] \in DOMAIN Clauses
PROOF
<1>1. k \in Nat \ {0} /\ Requirements[k].clauses \in Seq(DOMAIN Clauses)
  BY ProgramShape
<1>2. PICK s \in Seq(DOMAIN Clauses) : s = Requirements[k].clauses
  BY <1>1
<1>3. Len(s) \in Nat /\ DOMAIN s = 1..Len(s) /\ \A j \in 1..Len(s) : s[j] \in DOMAIN Clauses
  OBVIOUS
<1> QED BY <1>1, <1>2, <1>3

\* Every finding has an outcome and a place.
LEMMA FindingsPlaced ==
  ASSUME PlanesInv, PlanesMean, Linked, pc \in ResolvingPcs \cup {"materialize"},
         NEW r \in Rows
  PROVE  Placed(FindingsOf(r)) /\ \A place : Placed(SeenBefore(r, place))
PROOF
<1>1. OutcomeEscalate \in Outcomes /\ Fields \subseteq Nat
  BY OutcomeRanks, ProgramShape
<1>2. ASSUME NEW f, IsClauseFinding(f, r) PROVE f.outcome \in Outcomes /\ IsPlace(f.at)
  <2>1. PICK k \in InForce(MeaningOf(r)) : \E j \in 1..Len(Requirements[k].clauses) :
          /\ f.at = <<3, k, j>>
          /\ f.outcome = ClauseOutcome(Requirements[k].clauses[j], r)
    BY <1>2 DEF IsClauseFinding
  <2>2. PICK j \in 1..Len(Requirements[k].clauses) :
          /\ f.at = <<3, k, j>>
          /\ f.outcome = ClauseOutcome(Requirements[k].clauses[j], r)
    BY <2>1
  <2>3. k \in Nat /\ j \in Nat /\ Requirements[k].clauses[j] \in DOMAIN Clauses
    BY ClausesOfRequirement DEF InForce
  <2> QED BY <2>2, <2>3, ClauseOutcomeType DEF IsPlace
<1>3. \A f : IsFieldFinding(f, r) => f.outcome \in Outcomes /\ IsPlace(f.at)
  BY <1>1 DEF IsFieldFinding, IsPlace
<1>4. \A f : IsReferenceFinding(f, r) => f.outcome \in Outcomes /\ IsPlace(f.at)
  BY <1>1 DEF IsReferenceFinding, IsPlace
<1>5. NoneInForce.outcome \in Outcomes /\ IsPlace(NoneInForce.at)
  BY <1>1, FindingPlaces DEF IsPlace
<1>6. Placed(FindingsOf(r))
  BY <1>2, <1>3, <1>4, <1>5, FindingPlaces DEF Placed
<1> QED BY <1>6 DEF Placed, SeenBefore

\* The winner moves past one finding.
LEMMA WinnerMeets ==
  ASSUME NEW r, Placed(FindingsOf(r)), NEW place, NEW next, NEW w, NEW v,
         Settles(w, SeenBefore(r, place), r), NEW g \in FindingsOf(r),
         \A f \in FindingsOf(r) : Before(f.at, next) <=> Before(f.at, place) \/ f = g,
         \A f \in FindingsOf(r) : Before(f.at, place) => Before(f.at, g.at),
         Rank(g.outcome) > Rank(w.outcome) => v.outcome = g.outcome /\ DriverText(v, r) = g.driver,
         ~(Rank(g.outcome) > Rank(w.outcome)) => v = w
  PROVE  Settles(v, SeenBefore(r, next), r)
PROOF
<1>1. SeenBefore(r, next) = SeenBefore(r, place) \cup {g}
  BY DEF SeenBefore
<1>2. Placed(SeenBefore(r, place)) /\ g.outcome \in Outcomes
      /\ \A f \in SeenBefore(r, place) : Before(f.at, g.at)
  BY DEF SeenBefore, Placed
<1>3. Settles(v, SeenBefore(r, place) \cup {g}, r)
  BY <1>2, FindingFollows
<1> QED BY <1>1, <1>3

\* The winner moves on where there is none.
LEMMA WinnerKeeps ==
  ASSUME NEW r, NEW place, NEW next, NEW w, Settles(w, SeenBefore(r, place), r),
         \A f \in FindingsOf(r) : Before(f.at, next) <=> Before(f.at, place)
  PROVE  Settles(w, SeenBefore(r, next), r)
PROOF
<1>1. SeenBefore(r, next) = SeenBefore(r, place)
  BY DEF SeenBefore
<1> QED BY <1>1

\* The current row's winner and the drivers of the rows before it.
RowSettles ==
  pc \in {"edges", "requirements", "clauses", "evidence"} =>
    Settles(winner, SeenBefore(row, Place), row)
DriversSettle == \A r \in Rows : Decided(r) => Settles(drivers[r], FindingsOf(r), r)

\* What the steps of resolveRow and MaterializeInto rest on.
Ground ==
  /\ TypeOK /\ PlanesInv /\ PlanesMean /\ Linked /\ CursorsInside
  /\ DecisionInv /\ RequirementsColumn

\* What a winner settles depends on the pack and the batch only.
LEMMA SettlesFrame ==
  ASSUME UNCHANGED <<pack, batch>>
  PROVE  /\ \A r : FindingsOf(r)' = FindingsOf(r)
         /\ \A r, place : SeenBefore(r, place)' = SeenBefore(r, place)
         /\ \A w, r : DriverText(w, r)' = DriverText(w, r)
         /\ \A w, findings, r : Settles(w, findings, r)' <=> Settles(w, findings, r)
BY DEF FindingsOf, MeaningOf, SeenBefore, DriverText, Settles

\* RowSettles after a step, stated of the winner and place it leaves.
LEMMA RowSettlesNext ==
  ASSUME UNCHANGED <<pack, batch, row>>, NEW v, v = winner', NEW place, place = Place',
         Settles(v, SeenBefore(row, place), row)
  PROVE  RowSettles'
PROOF
<1>1. PICK r : r = row
  OBVIOUS
<1>2. Settles(v, SeenBefore(r, place), r)
  BY <1>1
<1>3. \A s : SeenBefore(r, s)' = SeenBefore(r, s)
  BY SettlesFrame
<1>4. \A s : Settles(v, s, r)' <=> Settles(v, s, r)
  BY SettlesFrame
<1>5. Settles(winner, SeenBefore(row, Place), row)'
        <=> (\A s : s = SeenBefore(r, place)' => Settles(v, s, r)')
  BY <1>1 DEF Settles, SeenBefore
<1>6. Settles(winner, SeenBefore(row, Place), row)'
  BY <1>2, <1>3, <1>4, <1>5
<1> QED BY <1>6 DEF RowSettles

\* The winner starts as the first semantic issue.
LEMMA SemanticsSettle ==
  ASSUME Ground, ResolveSemantics
  PROVE  RowSettles'
PROOF
<1> DEFINE q == pack.requests[row]
           issues == batch.issues[row]
           field == CHOOSE f \in issues : \A g \in issues : f <= g
           seen == SeenBefore(row, <<2, 1, 0>>)
<1>1. /\ pc = "row" /\ pc' = "edges" /\ row \in Rows /\ edge' = batch.offsets[row]
      /\ UNCHANGED <<pack, batch, row>>
      /\ winner' = IF issues # {} /\ Rank(OutcomeEscalate) > Rank(NoDriver.outcome)
                   THEN [NoDriver EXCEPT
                           !.outcome = OutcomeEscalate, !.kind = "semantic", !.field = field,
                           !.reason  = IF row \in batch.present[field] THEN ReasonUnclear
                                                                       ELSE ReasonMissing]
                   ELSE NoDriver
  BY DEF ResolveSemantics
<1>2. /\ PlanesInv /\ PlanesMean /\ Linked /\ pc \in ResolvingPcs \cup {"materialize"}
      /\ pc # "idle" /\ batch.offsets[row] \in Nat
  BY <1>1, RowEdgesOfPack DEF Ground, ResolvingPcs
<1>3. Place' = <<2, 1, 0>>
  BY <1>1, <1>2 DEF Place
<1>4. \A g \in Fields : /\ g \in issues <=> q.fields[g] \notin ValidValues[g]
                        /\ row \in batch.present[g] <=> q.fields[g] # NoSymbol
  BY <1>1, <1>2, IssuesOfPack
<1>5. issues \subseteq Fields /\ Fields \subseteq Nat
  <2>1. batch.issues \in [Rows -> SUBSET Fields]
    BY <1>2, BatchOfPack
  <2> QED BY <1>1, <2>1, ProgramShape
<1>6. \A f : f \in seen <=> IsFieldFinding(f, row)
  <2>1. /\ \A f : IsReferenceFinding(f, row) => ~Before(f.at, <<2, 1, 0>>)
        /\ \A f : IsClauseFinding(f, row) => ~Before(f.at, <<2, 1, 0>>)
        /\ ~Before(NoneInForce.at, <<2, 1, 0>>)
    BY <1>1, <1>2, FindingPlaces DEF IsReferenceFinding, IsClauseFinding, Before
  <2>2. \A f : IsFieldFinding(f, row) => Before(f.at, <<2, 1, 0>>)
    BY DEF IsFieldFinding, Before
  <2> QED BY <1>1, <1>2, <2>1, <2>2, FindingPlaces DEF SeenBefore
<1>7. Settles(winner', seen, row)
  <2>1. CASE issues = {}
    <3>1. seen = {}
      BY <1>4, <1>6, <2>1 DEF IsFieldFinding
    <3>2. winner' = NoDriver
      BY <1>1, <2>1
    <3> QED BY <3>1, <3>2 DEF Settles
  <2>2. CASE issues # {}
    <3>1. PICK g : g = field /\ g \in issues /\ \A h \in issues : g <= h
      <4>1. \E g \in issues : \A h \in issues : g <= h
        BY <1>5, <2>2, LeastExists
      <4> QED BY <4>1
    <3> DEFINE f == FieldFinding(q, g)
    <3> HIDE DEF field
    <3>2. f.at = <<1, g, 0>> /\ f.outcome = OutcomeEscalate
      BY DEF FieldFinding, Finding
    <3>3. f \in seen
      BY <1>4, <1>5, <1>6, <3>1, <3>2 DEF IsFieldFinding
    <3>4. Leads(f, seen)
      <4> SUFFICES ASSUME NEW h \in seen, h # f
                   PROVE  Rank(h.outcome) = Rank(f.outcome) /\ Before(f.at, h.at)
        BY DEF Leads
      <4>1. PICK x \in Fields : q.fields[x] \notin ValidValues[x] /\ h = FieldFinding(q, x)
                                /\ h.at = <<1, x, 0>> /\ h.outcome = OutcomeEscalate
        BY <1>6 DEF IsFieldFinding
      <4>2. x \in issues /\ x # g
        BY <1>4, <4>1
      <4>3. g < x
        <5>1. g \in Nat /\ x \in Nat /\ g <= x
          BY <1>5, <3>1, <4>2
        <5> QED BY <4>2, <5>1
      <4> QED BY <3>2, <4>1, <4>3 DEF Before
    <3>5. Rank(OutcomeEscalate) > Rank(NoDriver.outcome)
      BY OutcomeRanks DEF NoDriver
    <3>6. winner' = [NoDriver EXCEPT
                       !.outcome = OutcomeEscalate, !.kind = "semantic", !.field = g,
                       !.reason  = IF row \in batch.present[g] THEN ReasonUnclear
                                                               ELSE ReasonMissing]
      BY <1>1, <2>2, <3>1, <3>5
    <3>7. row \in batch.present[g] <=> q.fields[g] # NoSymbol
      BY <1>4, <1>5, <3>1
    <3>8. winner'.outcome = f.outcome /\ DriverText(winner', row) = f.driver
      BY <3>2, <3>6, <3>7 DEF NoDriver, DriverText, FieldFinding, Finding
    <3>9. OutcomeEscalate # OutcomeApprove
      BY DEF OutcomeEscalate, OutcomeApprove
    <3> HIDE DEF f
    <3> QED BY <3>2, <3>3, <3>4, <3>8, <3>9 DEF Settles
  <2> QED BY <2>1, <2>2
<1>8. PICK v : v = winner'
  OBVIOUS
<1>9. PICK place : place = Place'
  OBVIOUS
<1>10. Settles(v, SeenBefore(row, place), row)
  BY <1>3, <1>7, <1>8, <1>9
<1> HIDE DEF q, issues, field, seen
<1> QED BY <1>1, <1>8, <1>9, <1>10, RowSettlesNext

\* Among fields and references a winner is none or an escalation.
LEMMA EscalatesOrNone ==
  ASSUME NEW findings, Placed(findings), \A f \in findings : f.outcome = OutcomeEscalate,
         NEW w, NEW r, Settles(w, findings, r)
  PROVE  Rank(OutcomeEscalate) > Rank(w.outcome) <=> w = NoDriver
PROOF
<1>1. w = NoDriver \/ w.outcome = OutcomeEscalate
  BY WinnerIsFinding
<1>2. NoDriver.outcome = OutcomeApprove
  BY DEF NoDriver
<1> QED BY <1>1, <1>2, OutcomeRanks

\* Where a finding stands says what it is.
LEMMA WhichFinding ==
  ASSUME PlanesInv, PlanesMean, Linked, pc \in ResolvingPcs \cup {"materialize"},
         NEW r \in Rows, NEW f \in FindingsOf(r)
  PROVE  /\ IsPlace(f.at) /\ f.outcome \in Outcomes
         /\ f.at[1] \in 1..4
         /\ f.at[1] # 3 => f.outcome = OutcomeEscalate
         /\ f.at[1] = 2 => /\ f.at[2] \in 1..Len(pack.requests[r].refs)
                           /\ f = ReferenceFinding(pack.requests[r], f.at[2])
                           /\ pack.requests[r].refs[f.at[2]] \notin IdsOf(pack.evidence)
         /\ f.at[1] = 3 => /\ f.at[2] \in InForce(MeaningOf(r))
                           /\ f.at[3] \in 1..Len(Requirements[f.at[2]].clauses)
                           /\ f = ClauseFinding(MeaningOf(r), f.at[2], f.at[3])
         /\ f.at[1] = 4 => InForce(MeaningOf(r)) = {} /\ f = NoneInForce
PROOF
<1>1. IsPlace(f.at) /\ f.outcome \in Outcomes
  BY FindingsPlaced DEF Placed
<1>2. CASE IsFieldFinding(f, r)
  BY <1>1, <1>2 DEF IsFieldFinding
<1>3. CASE IsReferenceFinding(f, r)
  BY <1>1, <1>3 DEF IsReferenceFinding
<1>4. CASE IsClauseFinding(f, r)
  BY <1>1, <1>4 DEF IsClauseFinding
<1>5. CASE InForce(MeaningOf(r)) = {} /\ f = NoneInForce
  BY <1>1, <1>5, FindingPlaces
<1> QED BY <1>2, <1>3, <1>4, <1>5, FindingPlaces

\* The places between two cursors of the same loop.
LEMMA NextItem ==
  ASSUME NEW a, IsPlace(a), NEW m \in Nat, NEW j \in Nat
  PROVE  Before(a, <<m, j + 1, 0>>)
           <=> Before(a, <<m, j, 0>>) \/ (a[1] = m /\ a[2] = j /\ a[3] >= 0)
BY DEF IsPlace, Before

\* A reference that names no record escalates, unless something did before.
LEMMA EdgeSettles ==
  ASSUME Ground, RowSettles, ResolveEdge
  PROVE  RowSettles'
PROOF
<1> DEFINE q == pack.requests[row]
           j == edge - batch.offsets[row] + 1
           place == <<2, j, 0>>
           next == <<2, j + 1, 0>>
           g == ReferenceFinding(q, j)
<1>1. /\ pc = "edges" /\ pc' = "edges" /\ edge \in RowEdges(batch, row) /\ edge' = edge + 1
      /\ UNCHANGED <<pack, batch, row>>
      /\ winner' = IF batch.refs[edge] = 0 /\ Rank(OutcomeEscalate) > Rank(winner.outcome)
                   THEN [winner EXCEPT !.outcome = OutcomeEscalate, !.kind = "missing_reference",
                                       !.reason = ReasonMissing, !.edge = edge]
                   ELSE winner
  BY DEF ResolveEdge, Outranks
<1>2. /\ PlanesInv /\ PlanesMean /\ Linked /\ pc \in ResolvingPcs \cup {"materialize"}
      /\ pc # "idle" /\ row \in Rows
  BY <1>1 DEF Ground, TypeOK, ResolvingPcs
<1>3. PICK refs : refs = q.refs
  OBVIOUS
<1>4. /\ Len(refs) \in Nat /\ DOMAIN refs = 1..Len(refs)
      /\ batch.offsets[row] \in Nat \ {0}
      /\ edge \in batch.offsets[row]..(batch.offsets[row] + Len(refs) - 1)
      /\ batch.refs[edge] = RecordIndex(pack.evidence, refs[j])
  BY <1>1, <1>2, <1>3, RowEdgesOfPack
<1>5. /\ j \in Nat \ {0} /\ j \in 1..Len(refs)
  BY <1>4
<1>6. Place = place /\ Place' = next
  <2>1. Place = place
    BY <1>1 DEF Place
  <2>2. Place' = <<2, (edge + 1) - batch.offsets[row] + 1, 0>>
    BY <1>1 DEF Place
  <2>3. (edge + 1) - batch.offsets[row] + 1 = j + 1
    <3>1. edge \in Int /\ batch.offsets[row] \in Int
      BY <1>4
    <3>2. PICK e \in Int, o \in Int : e = edge /\ o = batch.offsets[row]
      BY <3>1
    <3>3. (e + 1) - o + 1 = (e - o + 1) + 1
      OBVIOUS
    <3> QED BY <3>2, <3>3, Zenon
  <2> QED BY <2>1, <2>2, <2>3, Zenon
<1>7. Settles(winner, SeenBefore(row, place), row)
  BY <1>1, <1>6 DEF RowSettles
<1>8. batch.refs[edge] = 0 <=> refs[j] \notin IdsOf(pack.evidence)
  <2>1. IsSequence(pack.evidence) /\ DistinctIds(pack.evidence)
    BY <1>2, RecordsOfPackDistinct DEF Ground
  <2>2. RecordIndex(pack.evidence, refs[j]) = 0 <=> \A k \in DOMAIN pack.evidence : pack.evidence[k].id # refs[j]
    BY <2>1, RecordIndexMeans
  <2> QED BY <1>4, <2>2 DEF IdsOf
<1>9. g.at = place /\ g.outcome = OutcomeEscalate
      /\ g.driver = [kind |-> "missing_reference", clause |-> 0, reason |-> ReasonMissing,
                     field |-> 0, missing |-> refs[j]]
  BY <1>3 DEF ReferenceFinding, Finding
<1>10. \A f \in FindingsOf(row) :
         /\ IsPlace(f.at)
         /\ Before(f.at, next) <=> Before(f.at, place) \/ (f.at[1] = 2 /\ f.at[2] = j /\ f.at[3] >= 0)
         /\ f.at[1] = 2 => f = ReferenceFinding(q, f.at[2]) /\ q.refs[f.at[2]] \notin IdsOf(pack.evidence)
         /\ f.at[1] # 3 => f.outcome = OutcomeEscalate
  <2> SUFFICES ASSUME NEW f \in FindingsOf(row)
      PROVE
         /\ IsPlace(f.at)
         /\ Before(f.at, next) <=> Before(f.at, place) \/ (f.at[1] = 2 /\ f.at[2] = j /\ f.at[3] >= 0)
         /\ f.at[1] = 2 => f = ReferenceFinding(q, f.at[2]) /\ q.refs[f.at[2]] \notin IdsOf(pack.evidence)
         /\ f.at[1] # 3 => f.outcome = OutcomeEscalate
    OBVIOUS
  <2>1. PICK r \in Rows : r = row
    BY <1>2
  <2>2. /\ IsPlace(f.at)
        /\ f.at[1] = 2 => f = ReferenceFinding(q, f.at[2]) /\ q.refs[f.at[2]] \notin IdsOf(pack.evidence)
        /\ f.at[1] # 3 => f.outcome = OutcomeEscalate
    BY <1>2, <2>1, WhichFinding
  <2>3. PICK a : a = f.at
    OBVIOUS
  <2>4. PICK n \in Nat : n = j
    BY <1>5
  <2>5. Before(a, <<2, n + 1, 0>>)
              <=> Before(a, <<2, n, 0>>) \/ (a[1] = 2 /\ a[2] = n /\ a[3] >= 0)
    BY <2>2, <2>3, NextItem
  <2>6. Before(a, next) <=> Before(a, place) \/ (a[1] = 2 /\ a[2] = j /\ a[3] >= 0)
    BY <2>4, <2>5
  <2> HIDE DEF place, next, q, j
  <2> QED BY <2>2, <2>3, <2>6
<1>11. Placed(FindingsOf(row)) /\ Placed(SeenBefore(row, place))
  BY <1>2, FindingsPlaced
<1>12. Settles(winner', SeenBefore(row, next), row)
  <2>1. CASE batch.refs[edge] # 0
    <3>1. \A f \in FindingsOf(row) : Before(f.at, next) <=> Before(f.at, place)
      BY <1>3, <1>8, <1>10, <2>1
    <3>2. winner' = winner
      BY <1>1, <2>1
    <3> HIDE DEF place, next, g, q, j
    <3> QED BY <1>7, <3>1, <3>2, WinnerKeeps
  <2>2. CASE batch.refs[edge] = 0
    <3>1. g \in FindingsOf(row)
      BY <1>2, <1>3, <1>5, <1>8, <1>9, <2>2, FindingPlaces DEF IsReferenceFinding
    <3>2. \A f \in FindingsOf(row) : Before(f.at, next) <=> Before(f.at, place) \/ f = g
      <4>1. Before(g.at, next)
        BY <1>5, <1>9 DEF Before
      <4> HIDE DEF place, next
      <4> QED BY <1>10, <4>1 DEF IsPlace
    <3>3. Rank(OutcomeEscalate) > Rank(winner.outcome) <=> winner = NoDriver
      <4>1. \A f \in SeenBefore(row, place) : f.outcome = OutcomeEscalate
        BY <1>10 DEF SeenBefore, Before
      <4> HIDE DEF place
      <4> QED BY <1>7, <1>11, <4>1, EscalatesOrNone
    <3>4. ASSUME winner = NoDriver
          PROVE  winner'.outcome = g.outcome /\ DriverText(winner', row) = g.driver
      <4>1. winner' = [NoDriver EXCEPT !.outcome = OutcomeEscalate, !.kind = "missing_reference",
                                       !.reason = ReasonMissing, !.edge = edge]
        BY <1>1, <2>2, <3>3, <3>4
      <4> QED BY <1>3, <1>9, <4>1 DEF DriverText, NoDriver
    <3>5. winner # NoDriver => winner' = winner
      BY <1>1, <3>3
    <3>6. \A f \in FindingsOf(row) : Before(f.at, place) => Before(f.at, g.at)
      BY <1>9
    <3>7. PICK v : v = winner'
      OBVIOUS
    <3>8. PICK x : x = row
      OBVIOUS
    <3>9. g \in FindingsOf(x) /\ Placed(FindingsOf(x)) /\ Settles(winner, SeenBefore(x, place), x)
      BY <3>1, <1>7, <1>11, <3>8
    <3>10. /\ Rank(g.outcome) > Rank(winner.outcome) =>
                v.outcome = g.outcome /\ DriverText(v, x) = g.driver
           /\ ~(Rank(g.outcome) > Rank(winner.outcome)) => v = winner
      BY <1>9, <3>3, <3>4, <3>5, <3>7, <3>8
    <3> HIDE DEF place, next, g
    <3>11. Settles(v, SeenBefore(x, next), x)
      BY <3>2, <3>6, <3>8, <3>9, <3>10, WinnerMeets
    <3> QED BY <3>7, <3>8, <3>11
  <2> QED BY <2>1, <2>2
<1>13. PICK v : v = winner'
  OBVIOUS
<1>14. PICK p : p = Place'
  OBVIOUS
<1>15. Settles(v, SeenBefore(row, p), row)
  BY <1>6, <1>12, <1>13, <1>14
<1> HIDE DEF q, j, place, next, g
<1> QED BY <1>1, <1>13, <1>14, <1>15, RowSettlesNext

\* A step that meets no finding and keeps the winner.
LEMMA StepKeeps ==
  ASSUME RowSettles, pc \in {"edges", "requirements", "clauses", "evidence"},
         UNCHANGED <<pack, batch, row>>, NEW w, w = winner, NEW v, v = winner', v = w,
         NEW place, place = Place, NEW next, next = Place',
         \A f \in FindingsOf(row) : Before(f.at, next) <=> Before(f.at, place)
  PROVE  RowSettles'
PROOF
<1>1. PICK r : r = row
  OBVIOUS
<1>2. Settles(w, SeenBefore(r, place), r)
  BY <1>1 DEF RowSettles
<1>3. Settles(w, SeenBefore(r, next), r)
  BY <1>1, <1>2, WinnerKeeps
<1> QED BY <1>1, <1>3, RowSettlesNext

\* A step that meets one finding.
LEMMA StepMeets ==
  ASSUME RowSettles, pc \in {"edges", "requirements", "clauses", "evidence"},
         UNCHANGED <<pack, batch, row>>, Placed(FindingsOf(row)),
         NEW w, w = winner, NEW v, v = winner',
         NEW place, place = Place, NEW next, next = Place', NEW g \in FindingsOf(row),
         \A f \in FindingsOf(row) : Before(f.at, next) <=> Before(f.at, place) \/ f = g,
         \A f \in FindingsOf(row) : Before(f.at, place) => Before(f.at, g.at),
         Rank(g.outcome) > Rank(w.outcome) => v.outcome = g.outcome /\ DriverText(v, row) = g.driver,
         ~(Rank(g.outcome) > Rank(w.outcome)) => v = w
  PROVE  RowSettles'
PROOF
<1>1. PICK r : r = row
  OBVIOUS
<1>2. Settles(w, SeenBefore(r, place), r)
  BY <1>1 DEF RowSettles
<1>3. Settles(v, SeenBefore(r, next), r)
  BY <1>1, <1>2, WinnerMeets
<1> QED BY <1>1, <1>3, RowSettlesNext

\* What the steps of resolveRow read of the row.
RowGround ==
  /\ PlanesInv /\ PlanesMean /\ Linked /\ pc \in ResolvingPcs \cup {"materialize"}
  /\ pc # "idle" /\ row \in Rows

\* Ground gives RowGround while a row is resolved.
LEMMA RowGrounded ==
  ASSUME Ground, pc \in {"edges", "requirements", "clauses", "evidence"}
  PROVE  RowGround
BY DEF Ground, TypeOK, ResolvingPcs, RowGround

\* After the references come the requirements.
LEMMA BeginSettles ==
  ASSUME Ground, RowSettles, BeginRequirements
  PROVE  RowSettles'
PROOF
<1>1. /\ pc = "edges" /\ pc' = "requirements" /\ edge \notin RowEdges(batch, row)
      /\ UNCHANGED <<pack, batch, row, edge, winner>> /\ requirement' = 1
  BY DEF BeginRequirements
<1>2. RowGround
  BY <1>1, RowGrounded
<1>3. PICK r \in Rows : r = row
  BY <1>2 DEF RowGround
<1>4. PICK refs : refs = pack.requests[r].refs
  OBVIOUS
<1>5. PICK o \in Nat, e \in Nat : o = batch.offsets[r] /\ e = edge
  BY <1>1, <1>2, <1>3, <1>4, RowEdgesOfPack DEF RowGround, Ground, TypeOK
<1>6. /\ Len(refs) \in Nat /\ e \notin o..(o + Len(refs) - 1) /\ o <= e
  BY <1>1, <1>2, <1>3, <1>4, <1>5, RowEdgesOfPack DEF RowGround, Ground, DecisionInv, EdgesInv
<1>7. PICK j \in Nat : j = e - o + 1 /\ j > Len(refs)
  BY <1>6
<1>8. Place = <<2, j, 0>> /\ Place' = <<3, 1, 0>>
  BY <1>1, <1>3, <1>5, <1>7 DEF Place
<1>9. \A f \in FindingsOf(r) : Before(f.at, <<3, 1, 0>>) <=> Before(f.at, <<2, j, 0>>)
  <2> SUFFICES ASSUME NEW f \in FindingsOf(r)
               PROVE  Before(f.at, <<3, 1, 0>>) <=> Before(f.at, <<2, j, 0>>)
    OBVIOUS
  <2>1. /\ IsPlace(f.at) /\ f.at[1] \in 1..4
        /\ f.at[1] = 2 => f.at[2] \in 1..Len(refs)
        /\ f.at[1] = 3 => f.at[2] \in InForce(MeaningOf(r))
    BY <1>2, <1>4, WhichFinding DEF RowGround
  <2>2. f.at[1] = 3 => f.at[2] >= 1
    BY <2>1, ProgramShape DEF InForce
  <2> QED BY <1>6, <1>7, <2>1, <2>2 DEF IsPlace, Before
<1> QED BY <1>1, <1>3, <1>8, <1>9, StepKeeps

\* A requirement in force opens its clauses; another has no finding.
LEMMA SelectSettles ==
  ASSUME Ground, RowSettles, SelectRequirement
  PROVE  RowSettles'
PROOF
<1>1. /\ pc = "requirements" /\ requirement \in DOMAIN Requirements
      /\ UNCHANGED <<pack, batch, row, winner>>
      /\ Applicable(requirement, row) => pc' = "clauses" /\ requirement' = requirement /\ clause' = 1
      /\ ~Applicable(requirement, row) => pc' = pc /\ requirement' = requirement + 1
  BY DEF SelectRequirement
<1>2. RowGround
  BY <1>1, RowGrounded
<1>3. PICK r \in Rows : r = row
  BY <1>2 DEF RowGround
<1>4. PICK k \in Nat \ {0} : k = requirement
  BY <1>1, ProgramShape
<1>5. \A f \in FindingsOf(r) :
        /\ IsPlace(f.at) /\ f.at[1] \in 1..4
        /\ f.at[1] = 3 => /\ f.at[2] \in InForce(MeaningOf(r))
                          /\ f.at[3] >= 1
  <2> SUFFICES ASSUME NEW f \in FindingsOf(r)
               PROVE  /\ IsPlace(f.at) /\ f.at[1] \in 1..4
                      /\ f.at[1] = 3 => f.at[2] \in InForce(MeaningOf(r)) /\ f.at[3] >= 1
    OBVIOUS
  <2> QED BY <1>2, WhichFinding DEF RowGround
<1>6. CASE Applicable(k, r)
  <2>1. Place = <<3, k, 0>> /\ Place' = <<3, k, 1>>
    BY <1>1, <1>3, <1>4, <1>6 DEF Place
  <2>2. \A f \in FindingsOf(r) : Before(f.at, <<3, k, 1>>) <=> Before(f.at, <<3, k, 0>>)
    BY <1>5 DEF IsPlace, Before
  <2> QED BY <1>1, <1>3, <2>1, <2>2, StepKeeps
<1>7. CASE ~Applicable(k, r)
  <2>1. Place = <<3, k, 0>> /\ Place' = <<3, k + 1, 0>>
    BY <1>1, <1>3, <1>4, <1>7 DEF Place
  <2>2. k \notin InForce(MeaningOf(r))
    BY <1>1, <1>2, <1>4, <1>7, ReadsMeaning DEF RowGround
  <2>3. \A f \in FindingsOf(r) : Before(f.at, <<3, k + 1, 0>>) <=> Before(f.at, <<3, k, 0>>)
    BY <1>5, <2>2 DEF IsPlace, Before
  <2> QED BY <1>1, <1>3, <2>1, <2>3, StepKeeps
<1> QED BY <1>6, <1>7

\* A clause's outcome takes over where it outranks the winner.
LEMMA ClauseSettles ==
  ASSUME Ground, RowSettles, ResolveClause
  PROVE  RowSettles'
PROOF
<1>1. PICK c : c = Requirements[requirement].clauses[clause]
  OBVIOUS
<1>2. /\ pc = "clauses" /\ pc' = "clauses" /\ clause \in DOMAIN Requirements[requirement].clauses
      /\ UNCHANGED <<pack, batch, row, requirement>> /\ clause' = clause + 1
      /\ winner' = IF Rank(ClauseOutcome(c, row)) > Rank(winner.outcome)
                   THEN [outcome |-> ClauseOutcome(c, row), kind |-> "clause",
                         requirement |-> requirement, clause |-> c,
                         reason |-> ClauseReason(c, row), field |-> 0, edge |-> 0]
                   ELSE winner
  BY <1>1 DEF ResolveClause, Outranks
<1>3. RowGround
  BY <1>2, RowGrounded
<1>4. PICK r \in Rows : r = row
  BY <1>3 DEF RowGround
<1>5. requirement \in DOMAIN Requirements /\ Applicable(requirement, row)
  BY <1>2 DEF Ground, TypeOK, DecisionInv
<1>6. PICK k \in Nat \ {0} : k = requirement
  BY <1>5, ProgramShape
<1>7. PICK j \in Nat \ {0} : j = clause /\ j \in 1..Len(Requirements[k].clauses)
  BY <1>2, <1>5, <1>6, ClausesOfRequirement
<1>8. /\ k \in InForce(MeaningOf(r)) /\ c \in DOMAIN Clauses
      /\ ClauseReason(c, r) = MeaningOf(r)[Clauses[c].root]
  BY <1>1, <1>3, <1>4, <1>5, <1>6, <1>7, ReadsMeaning, ClausesOfRequirement DEF RowGround
<1> DEFINE g == ClauseFinding(MeaningOf(r), k, j)
<1>9. /\ g.at = <<3, k, j>> /\ g.outcome = ClauseOutcome(c, r)
      /\ g.driver = [kind |-> "clause", clause |-> c, reason |-> ClauseReason(c, r),
                     field |-> 0, missing |-> NoSymbol]
  BY <1>1, <1>6, <1>7, <1>8 DEF ClauseFinding, Finding, ClauseOutcome
<1>10. g \in FindingsOf(r)
  <2>1. IsClauseFinding(g, r)
    BY <1>1, <1>6, <1>7, <1>8, <1>9 DEF IsClauseFinding
  <2> QED BY <1>3, <2>1, FindingPlaces DEF RowGround
<1>11. Place = <<3, k, j>> /\ Place' = <<3, k, j + 1>>
  BY <1>2, <1>6, <1>7 DEF Place
<1>12. \A f \in FindingsOf(r) :
        /\ IsPlace(f.at)
        /\ f.at[1] = 3 => f = ClauseFinding(MeaningOf(r), f.at[2], f.at[3])
  BY <1>3, WhichFinding DEF RowGround
<1>13. \A f \in FindingsOf(r) :
         Before(f.at, <<3, k, j + 1>>) <=> Before(f.at, <<3, k, j>>) \/ f = g
  <2>1. Before(g.at, <<3, k, j + 1>>)
    BY <1>9 DEF Before
  <2>2. ASSUME NEW f \in FindingsOf(r)
        PROVE  Before(f.at, <<3, k, j + 1>>)
                 <=> Before(f.at, <<3, k, j>>) \/ (f.at[1] = 3 /\ f.at[2] = k /\ f.at[3] = j)
    BY <1>12 DEF IsPlace, Before
  <2>3. ASSUME NEW f \in FindingsOf(r), f.at[1] = 3, f.at[2] = k, f.at[3] = j
        PROVE  f = g
    BY <1>12, <2>3
  <2> HIDE DEF g
  <2> QED BY <2>1, <2>2, <2>3
<1>14. /\ Rank(g.outcome) > Rank(winner.outcome)
            => winner'.outcome = g.outcome /\ DriverText(winner', r) = g.driver
       /\ ~(Rank(g.outcome) > Rank(winner.outcome)) => winner' = winner
  <2>1. ASSUME Rank(ClauseOutcome(c, r)) > Rank(winner.outcome)
        PROVE  winner'.outcome = g.outcome /\ DriverText(winner', r) = g.driver
    <3>1. winner' = [outcome |-> ClauseOutcome(c, r), kind |-> "clause",
                     requirement |-> requirement, clause |-> c,
                     reason |-> ClauseReason(c, r), field |-> 0, edge |-> 0]
      BY <1>2, <1>4, <2>1
    <3> HIDE DEF g
    <3> QED BY <1>9, <3>1 DEF DriverText
  <2> HIDE DEF g
  <2> QED BY <1>2, <1>4, <1>9, <2>1
<1>15. Placed(FindingsOf(r)) /\ \A f \in FindingsOf(r) : Before(f.at, <<3, k, j>>) => Before(f.at, g.at)
  BY <1>3, <1>9, FindingsPlaced DEF RowGround
<1>16. PICK w : w = winner
  OBVIOUS
<1>17. PICK v : v = winner'
  OBVIOUS
<1> HIDE DEF g
<1> QED BY <1>2, <1>4, <1>10, <1>11, <1>13, <1>14, <1>15, <1>16, <1>17, StepMeets

\* After a requirement's clauses comes the next requirement.
LEMMA NextRequirementSettles ==
  ASSUME Ground, RowSettles, NextRequirement
  PROVE  RowSettles'
PROOF
<1>1. /\ pc = "clauses" /\ pc' = "requirements"
      /\ clause \notin DOMAIN Requirements[requirement].clauses
      /\ UNCHANGED <<pack, batch, row, winner>> /\ requirement' = requirement + 1
  BY DEF NextRequirement
<1>2. RowGround
  BY <1>1, RowGrounded
<1>3. PICK r \in Rows : r = row
  BY <1>2 DEF RowGround
<1>4. requirement \in DOMAIN Requirements /\ clause \in Nat \ {0}
  BY <1>1 DEF Ground, TypeOK
<1>5. PICK k \in Nat \ {0} : k = requirement
  BY <1>4, ProgramShape
<1>6. PICK j \in Nat \ {0} : j = clause /\ j > Len(Requirements[k].clauses)
  BY <1>1, <1>4, <1>5, ClausesOfRequirement
<1>7. Place = <<3, k, j>> /\ Place' = <<3, k + 1, 0>>
  BY <1>1, <1>5, <1>6 DEF Place
<1>8. \A f \in FindingsOf(r) : Before(f.at, <<3, k + 1, 0>>) <=> Before(f.at, <<3, k, j>>)
  <2> SUFFICES ASSUME NEW f \in FindingsOf(r)
               PROVE  Before(f.at, <<3, k + 1, 0>>) <=> Before(f.at, <<3, k, j>>)
    OBVIOUS
  <2>1. /\ IsPlace(f.at)
        /\ f.at[1] = 3 => f.at[3] \in 1..Len(Requirements[f.at[2]].clauses)
    BY <1>2, WhichFinding DEF RowGround
  <2>2. ~(f.at[1] = 3 /\ f.at[2] = k /\ f.at[3] >= j)
    BY <1>4, <1>5, <1>6, <2>1, ClausesOfRequirement
  <2> QED BY <2>1, <2>2 DEF IsPlace, Before
<1> QED BY <1>1, <1>3, <1>7, <1>8, StepKeeps

\* The row has appended no requirement exactly when none is in force.
LEMMA NoneListed ==
  ASSUME Ground, pc = "requirements", requirement \notin DOMAIN Requirements
  PROVE  AppliedIds = <<>> <=> InForce(MeaningOf(row)) = {}
PROOF
<1>1. RowGround
  BY RowGrounded
<1>2. PICK r \in Rows : r = row
  BY <1>1 DEF RowGround
<1>3. \A q \in DOMAIN Requirements : q < requirement
  BY ProgramShape DEF Ground, TypeOK
<1>4. /\ Lists(AppliedIds, GoverningBelow(r, requirement))
      /\ AppliedIds \in Seq(Nat)
  <2>1. /\ Lists(Open(reqIds, reqOffsets[row]), GoverningBelow(row, Reach)) /\ Writing
        /\ reqIds \in Seq(Nat) /\ Ascends(reqOffsets, reqIds, batch.rows, Listed)
    BY DEF Ground, RequirementsColumn, Writing, ResolvingPcs
  <2>2. Reach = requirement /\ Listed = row
    BY DEF Reach, Listed, Frontier
  <2>3. row \in 1..row
    BY <1>1 DEF Ground, RowGround, TypeOK, BatchTypeOK, Rows
  <2>4. reqOffsets[row] \in Nat /\ reqOffsets[row] <= Len(reqIds)
    <3>1. batch.rows \in Nat /\ row \in 1..batch.rows
      BY <1>1 DEF Ground, RowGround, TypeOK, BatchTypeOK, Rows
    <3>2. PICK n \in Nat, x \in Nat : n = batch.rows /\ x = row
      BY <3>1
    <3>3. x \in 1..n /\ x \in 1..(n + 1) /\ Ascends(reqOffsets, reqIds, n, x)
      BY <2>1, <2>2, <3>1, <3>2
    <3>4. reqOffsets[x] \in Nat /\ reqOffsets[x] <= Len(reqIds)
      BY <2>3, <3>2, <3>3 DEF Ascends
    <3> QED BY <3>2, <3>4
  <2>5. PICK a \in Nat : a = reqOffsets[row] /\ a <= Len(reqIds)
    BY <2>4
  <2>6. Open(reqIds, a) \in Seq(Nat)
    BY <2>1, <2>5, OpenSlice
  <2> QED BY <1>2, <2>1, <2>2, <2>5, <2>6 DEF AppliedIds, Open
<1>5. GoverningBelow(r, requirement) = InForce(MeaningOf(r))
  <2>1. \A q \in DOMAIN Requirements : Applicable(q, r) <=> q \in InForce(MeaningOf(r))
    BY <1>1, ReadsMeaning DEF RowGround
  <2> QED BY <1>3, <2>1 DEF GoverningBelow, Governing, InForce
<1>6. AppliedIds = <<>> <=> {AppliedIds[k] : k \in DOMAIN AppliedIds} = {}
  <2>1. PICK s \in Seq(Nat) : s = AppliedIds
    BY <1>4
  <2>2. s = <<>> <=> {s[k] : k \in DOMAIN s} = {}
    <3>1. DOMAIN s = 1..Len(s) /\ Len(s) \in Nat /\ (s = <<>> <=> Len(s) = 0)
      BY EmptySeq
    <3>2. (1..Len(s) = {}) <=> Len(s) = 0
      <4>1. Len(s) # 0 => 1 \in 1..Len(s)
        BY <3>1
      <4>2. Len(s) = 0 => 1..Len(s) = {}
        OBVIOUS
      <4> QED BY <4>1, <4>2
    <3> QED BY <3>1, <3>2
  <2> QED BY <2>1, <2>2
<1> QED BY <1>2, <1>4, <1>5, <1>6 DEF Lists

\* With no requirement in force, a row that did not escalate does.
LEMMA FinishRequirementsSettles ==
  ASSUME Ground, RowSettles, FinishRequirements
  PROVE  RowSettles'
PROOF
<1>1. /\ pc = "requirements" /\ pc' = "evidence" /\ requirement \notin DOMAIN Requirements
      /\ UNCHANGED <<pack, batch, row>>
      /\ winner' = IF AppliedIds = <<>> /\ Rank(OutcomeEscalate) > Rank(winner.outcome)
                   THEN [winner EXCEPT !.outcome = OutcomeEscalate, !.kind = "no_applicable",
                                       !.reason = ReasonUnverifiable]
                   ELSE winner
  BY DEF FinishRequirements, NoneApplicableWinner, Outranks
<1>2. RowGround
  BY <1>1, RowGrounded
<1>3. PICK r \in Rows : r = row
  BY <1>2 DEF RowGround
<1>4. PICK k \in Nat \ {0} : k = requirement /\ \A q \in DOMAIN Requirements : q < k
  BY <1>1, ProgramShape DEF Ground, TypeOK
<1>5. Place = <<3, k, 0>> /\ Place' = <<5, 0, 0>>
  BY <1>1, <1>4 DEF Place
<1>6. \A f \in FindingsOf(r) :
        /\ IsPlace(f.at) /\ f.at[1] \in 1..4
        /\ f.at[1] # 3 => f.outcome = OutcomeEscalate
        /\ f.at[1] = 3 => f.at[2] \in InForce(MeaningOf(r)) /\ f.at[2] < k
        /\ f.at[1] = 4 => InForce(MeaningOf(r)) = {} /\ f = NoneInForce
  <2> SUFFICES ASSUME NEW f \in FindingsOf(r)
               PROVE
        /\ IsPlace(f.at) /\ f.at[1] \in 1..4
        /\ f.at[1] # 3 => f.outcome = OutcomeEscalate
        /\ f.at[1] = 3 => f.at[2] \in InForce(MeaningOf(r)) /\ f.at[2] < k
        /\ f.at[1] = 4 => InForce(MeaningOf(r)) = {} /\ f = NoneInForce
    OBVIOUS
  <2>1. /\ IsPlace(f.at) /\ f.at[1] \in 1..4
        /\ f.at[1] # 3 => f.outcome = OutcomeEscalate
        /\ f.at[1] = 3 => f.at[2] \in InForce(MeaningOf(r))
        /\ f.at[1] = 4 => InForce(MeaningOf(r)) = {} /\ f = NoneInForce
    BY <1>2, WhichFinding DEF RowGround
  <2> QED BY <1>4, <2>1 DEF InForce
<1>7. PICK w : w = winner
  OBVIOUS
<1>8. PICK v : v = winner'
  OBVIOUS
<1>9. AppliedIds = <<>> <=> InForce(MeaningOf(r)) = {}
  BY <1>1, <1>3, NoneListed
<1>10. CASE InForce(MeaningOf(r)) # {}
  <2>1. \A f \in FindingsOf(r) : Before(f.at, <<5, 0, 0>>) <=> Before(f.at, <<3, k, 0>>)
    BY <1>6, <1>10 DEF IsPlace, Before
  <2>2. v = w
    BY <1>1, <1>7, <1>8, <1>9, <1>10
  <2> QED BY <1>1, <1>3, <1>5, <1>7, <1>8, <2>1, <2>2, StepKeeps
<1>11. CASE InForce(MeaningOf(r)) = {}
  <2>1. /\ NoneInForce \in FindingsOf(r)
        /\ NoneInForce.at = <<4, 0, 0>> /\ NoneInForce.outcome = OutcomeEscalate
        /\ Placed(FindingsOf(r)) /\ Placed(SeenBefore(r, <<3, k, 0>>))
    BY <1>2, <1>11, FindingPlaces, FindingsPlaced DEF RowGround
  <2>2. \A f \in FindingsOf(r) : Before(f.at, <<5, 0, 0>>)
                                   <=> Before(f.at, <<3, k, 0>>) \/ f = NoneInForce
    BY <1>6, <1>11, <2>1 DEF IsPlace, Before
  <2>3. \A f \in FindingsOf(r) : Before(f.at, <<3, k, 0>>) => Before(f.at, NoneInForce.at)
    BY <1>6, <2>1 DEF IsPlace, Before
  <2>4. Rank(OutcomeEscalate) > Rank(w.outcome) <=> w = NoDriver
    <3>1. \A f \in SeenBefore(r, <<3, k, 0>>) : f.outcome = OutcomeEscalate
      BY <1>6, <1>11 DEF SeenBefore
    <3>2. Settles(w, SeenBefore(r, <<3, k, 0>>), r)
      BY <1>1, <1>3, <1>5, <1>7 DEF RowSettles
    <3> QED BY <2>1, <3>1, <3>2, EscalatesOrNone
  <2>5. ASSUME w = NoDriver
        PROVE  v.outcome = OutcomeEscalate /\ DriverText(v, r) = NoneInForce.driver
    <3>1. v = [NoDriver EXCEPT !.outcome = OutcomeEscalate, !.kind = "no_applicable",
                               !.reason = ReasonUnverifiable]
      BY <1>1, <1>7, <1>8, <1>9, <1>11, <2>4, <2>5
    <3> QED BY <3>1 DEF DriverText, NoDriver, NoneInForce, Finding
  <2>6. w # NoDriver => v = w
    BY <1>1, <1>7, <1>8, <2>4
  <2>7. PICK g \in FindingsOf(r) : g = NoneInForce
    BY <2>1
  <2>8. /\ Rank(g.outcome) > Rank(w.outcome) => v.outcome = g.outcome /\ DriverText(v, r) = g.driver
        /\ ~(Rank(g.outcome) > Rank(w.outcome)) => v = w
    BY <2>1, <2>4, <2>5, <2>6, <2>7
  <2>9. /\ \A f \in FindingsOf(r) : Before(f.at, <<5, 0, 0>>) <=> Before(f.at, <<3, k, 0>>) \/ f = g
        /\ \A f \in FindingsOf(r) : Before(f.at, <<3, k, 0>>) => Before(f.at, g.at)
    BY <2>2, <2>3, <2>7, Zenon
  <2>10. PICK place : place = <<3, k, 0>>
    OBVIOUS
  <2>11. PICK next : next = <<5, 0, 0>>
    OBVIOUS
  <2>12. /\ pc \in {"edges", "requirements", "clauses", "evidence"}
         /\ UNCHANGED <<pack, batch, row>> /\ Placed(FindingsOf(row)) /\ g \in FindingsOf(row)
         /\ place = Place /\ next = Place'
    BY <1>1, <1>3, <1>5, <2>1, <2>10, <2>11
  <2>13. /\ \A f \in FindingsOf(row) : Before(f.at, next) <=> Before(f.at, place) \/ f = g
         /\ \A f \in FindingsOf(row) : Before(f.at, place) => Before(f.at, g.at)
         /\ Rank(g.outcome) > Rank(w.outcome)
              => v.outcome = g.outcome /\ DriverText(v, row) = g.driver
    BY <1>3, <2>8, <2>9, <2>10, <2>11
  <2> QED BY <1>7, <1>8, <2>8, <2>12, <2>13, StepMeets
<1> QED BY <1>10, <1>11

\* Collecting evidence decides nothing.
LEMMA EvidenceSettles ==
  ASSUME Ground, RowSettles, ResolveEvidence
  PROVE  RowSettles'
PROOF
<1>1. /\ pc = "evidence" /\ pc' = "evidence" /\ UNCHANGED <<pack, batch, row, winner>>
  BY DEF ResolveEvidence
<1>2. Place = <<5, 0, 0>> /\ Place' = <<5, 0, 0>>
  BY <1>1 DEF Place
<1> QED BY <1>1, <1>2, StepKeeps

\* A finished row has met all its findings, and keeps its winner as its driver.
LEMMA FinishSettles ==
  ASSUME Ground, RowSettles, DriversSettle, FinishRow
  PROVE  DriversSettle'
PROOF
<1>1. /\ pc = "evidence" /\ pc' = "row" /\ row' = row + 1 /\ UNCHANGED <<pack, batch>>
      /\ drivers' = [drivers EXCEPT ![row] = winner]
  BY DEF FinishRow
<1>2. RowGround
  BY <1>1, RowGrounded
<1>3. BatchTypeOK /\ drivers \in [Rows -> Drivers] /\ Rows' = Rows
  BY <1>1 DEF Ground, TypeOK, ColumnsTypeOK, Rows
<1>4. \A r \in Rows : /\ Decided(r)' <=> Decided(r) \/ r = row
                      /\ drivers'[r] = IF r = row THEN winner ELSE drivers[r]
  <2>1. \A r \in Rows : r \in Nat /\ row \in Nat
    BY <1>2, <1>3 DEF Rows, BatchTypeOK, RowGround
  <2> QED BY <1>1, <1>2, <1>3, <2>1 DEF Decided, ResolvingPcs, RowGround
<1>5. Settles(winner, FindingsOf(row), row)
  <2>1. PICK r \in Rows : r = row
    BY <1>2 DEF RowGround
  <2>2. \A f \in FindingsOf(r) : Before(f.at, <<5, 0, 0>>)
    <3> SUFFICES ASSUME NEW f \in FindingsOf(r) PROVE Before(f.at, <<5, 0, 0>>)
      OBVIOUS
    <3>1. f.at[1] \in 1..4
      BY <1>2, WhichFinding DEF RowGround
    <3> QED BY <3>1 DEF Before
  <2>3. SeenBefore(r, <<5, 0, 0>>) = FindingsOf(r)
    BY <2>2 DEF SeenBefore
  <2>4. Place = <<5, 0, 0>>
    BY <1>1 DEF Place
  <2> QED BY <1>1, <2>1, <2>3, <2>4 DEF RowSettles
<1>6. \A r \in Rows : Decided(r)' => Settles(drivers'[r], FindingsOf(r), r)
  BY <1>4, <1>5 DEF DriversSettle
<1>7. \A w, r : Settles(w, FindingsOf(r), r) => Settles(w, FindingsOf(r), r)'
  BY <1>1 DEF FindingsOf, MeaningOf, DriverText, Settles
<1>8. ASSUME NEW r \in Rows, Decided(r)' PROVE Settles(drivers[r], FindingsOf(r), r)'
  <2>1. PICK w : w = drivers'[r]
    OBVIOUS
  <2>2. Settles(w, FindingsOf(r), r)
    BY <1>6, <1>8, <2>1
  <2>3. Settles(w, FindingsOf(r), r)'
    BY <1>7, <2>2
  <2> QED BY <2>1, <2>3 DEF Settles
<1> QED BY <1>3, <1>8 DEF DriversSettle

\* Rows that were decided keep what settled them.
LEMMA DriversFrame ==
  ASSUME DriversSettle, UNCHANGED <<pack, batch, drivers>>,
         \A r \in Rows : Decided(r)' => Decided(r)
  PROVE  DriversSettle'
PROOF
<1>1. Rows' = Rows
  BY DEF Rows
<1>2. \A w, r : Settles(w, FindingsOf(r), r) => Settles(w, FindingsOf(r), r)'
  BY DEF FindingsOf, MeaningOf, DriverText, Settles
<1>3. ASSUME NEW r \in Rows, Decided(r)' PROVE Settles(drivers[r], FindingsOf(r), r)'
  <2>1. PICK w : w = drivers[r]
    OBVIOUS
  <2>2. Settles(w, FindingsOf(r), r)
    BY <1>3, <2>1 DEF DriversSettle
  <2>3. Settles(w, FindingsOf(r), r)'
    BY <1>2, <2>2
  <2> QED BY <2>1, <2>3 DEF Settles
<1> QED BY <1>1, <1>3 DEF DriversSettle

\* At first no row is being resolved and none is decided.
LEMMA InitSettles == Init => RowSettles /\ DriversSettle
BY DEF Init, RowSettles, DriversSettle, Decided, ResolvingPcs

\* Every step keeps the winner of the current row, and the drivers of the
\* rows before it, what their findings decide.
LEMMA NextSettles ==
  Ground /\ RowSettles /\ DriversSettle /\ [Next]_vars => RowSettles' /\ DriversSettle'
PROOF
<1> SUFFICES ASSUME Ground, RowSettles, DriversSettle, [Next]_vars
             PROVE  RowSettles' /\ DriversSettle'
  OBVIOUS
<1>1. CASE \/ Submit \/ EnsureCapacity \/ CheckShapes
           \/ ExecuteField \/ ExecuteEvidence \/ ExecuteAll \/ Return
  <2>1. pc' \notin ResolvingPcs \cup {"materialize"}
    BY <1>1
    DEF Submit, RejectInput, BuildInto, EnsureCapacity, CheckShapes, Fail, ExecuteField,
        ExecuteEvidence, ExecuteAll, Executing, Executed, Return, ResolvingPcs
  <2> QED BY <2>1 DEF RowSettles, DriversSettle, Decided, ResolvingPcs
<1>2. CASE ResetResults
  <2>1. pc' = "row" /\ row' = 1 /\ Rows' \subseteq Nat \ {0}
    BY <1>2 DEF Ground, ResetResults, Rows, TypeOK, BatchTypeOK
  <2>2. \A r \in Rows' : ~Decided(r)'
    BY <2>1 DEF Decided
  <2> QED BY <2>1, <2>2 DEF RowSettles, DriversSettle
<1>3. CASE \/ ResolveSemantics \/ ResolveEdge \/ BeginRequirements \/ SelectRequirement
           \/ ResolveClause \/ NextRequirement \/ FinishRequirements \/ ResolveEvidence
  <2>1. RowSettles'
    BY <1>3, SemanticsSettle, EdgeSettles, BeginSettles, SelectSettles, ClauseSettles,
       NextRequirementSettles, FinishRequirementsSettles, EvidenceSettles
  <2>2. /\ UNCHANGED <<pack, batch, drivers, row>> /\ pc' \in ResolvingPcs /\ pc \in ResolvingPcs
    BY <1>3
    DEF ResolveSemantics, ResolveEdge, BeginRequirements, SelectRequirement, ResolveClause,
        NextRequirement, FinishRequirements, ResolveEvidence, numeric, columns, ResolvingPcs
  <2>3. \A r \in Rows : Decided(r)' => Decided(r)
    BY <2>2 DEF Decided, ResolvingPcs
  <2> QED BY <2>1, <2>2, <2>3, DriversFrame
<1>4. CASE FinishRow
  <2>1. pc' = "row"
    BY <1>4 DEF FinishRow
  <2> QED BY <1>4, <2>1, FinishSettles DEF RowSettles
<1>5. CASE BeginMaterialize \/ MaterializeRow
  <2>1. UNCHANGED <<pack, batch, drivers>> /\ pc' \in {"materialize", "idle"}
    BY <1>5 DEF BeginMaterialize, MaterializeRow, Fail, numeric, columns
  <2>2. \A r \in Rows : Decided(r)' => Decided(r)
    <3>1. CASE BeginMaterialize
      <4>1. pc = "row" /\ row \notin Rows
        BY <3>1 DEF BeginMaterialize
      <4>2. row \in Nat \ {0} /\ batch.rows \in Nat
        BY <4>1 DEF Ground, TypeOK, BatchTypeOK
      <4>3. \A r \in Rows : r < row
        BY <4>1, <4>2 DEF Rows
      <4> QED BY <4>1, <4>3 DEF Decided, ResolvingPcs
    <3>2. CASE MaterializeRow
      BY <3>2 DEF MaterializeRow, Decided
    <3> QED BY <1>5, <3>1, <3>2
  <2> QED BY <2>1, <2>2, DriversFrame DEF RowSettles
<1>6. CASE UNCHANGED vars
  <2>1. UNCHANGED <<pack, batch, drivers, row, pc, winner, edge, requirement, clause>>
    BY <1>6 DEF vars, cursors, numeric, columns
  <2>2. DriversSettle'
    BY <2>1, DriversFrame DEF Decided
  <2>3. RowSettles'
    <3>1. CASE pc \in {"edges", "requirements", "clauses", "evidence"}
      <4>1. Place' = Place
        BY <2>1 DEF Place
      <4>2. PICK place : place = Place
        OBVIOUS
      <4>3. PICK w : w = winner
        OBVIOUS
      <4> QED BY <2>1, <3>1, <4>1, <4>2, <4>3, StepKeeps
    <3>2. CASE pc \notin {"edges", "requirements", "clauses", "evidence"}
      BY <2>1, <3>2 DEF RowSettles
    <3> QED BY <3>1, <3>2
  <2> QED BY <2>2, <2>3
<1> QED BY <1>1, <1>2, <1>3, <1>4, <1>5, <1>6 DEF Next, Evaluate, ResolveRow

-----------------------------------------------------------------------------
(* The evidence a row used is what its request first mentions of it.       *)

\* The records used are those the request mentions at the given places.
Names(used, r, places) ==
  \E js \in Seq(Nat) :
    /\ Lists(js, places) /\ DOMAIN used = 1..Len(js)
    /\ \A k \in 1..Len(js) : used[k] = RecordIndex(pack.evidence, pack.requests[r].refs[js[k]])

\* Where row r first mentions a required record, and those places below a bound.
MentionsOf(r) == FirstMentions(pack.requests[r], pack.evidence, MeaningOf(r))
MentionsBelow(r, bound) == {j \in MentionsOf(r) : j < bound}

\* The evidence column names the first mentions: those met so far of the row
\* that collects, all of them of the rows before it.
UsesColumn ==
  /\ pc = "evidence" => Names(UsedRefs, row, MentionsBelow(row, edge - batch.offsets[row] + 1))
  /\ Writing => \A r \in Rows : r < Frontier =>
       Names(RangeOf(evOffsets, evRefs, r), r, MentionsOf(r))

\* A clause of the requirement asks for the kind.
Wants(k, kind) ==
  \E j \in DOMAIN Requirements[k].clauses :
    LET kinds == Clauses[Requirements[k].clauses[j]].kinds
    IN  \E m \in DOMAIN kinds : kinds[m] = kind

\* A row that is collecting evidence has listed the requirements in force.
LEMMA AllListed ==
  ASSUME Ground, pc = "evidence"
  PROVE  {AppliedIds[k] : k \in DOMAIN AppliedIds} = InForce(MeaningOf(row))
PROOF
<1>1. RowGround
  BY RowGrounded
<1>2. PICK r \in Rows : r = row
  BY <1>1 DEF RowGround
<1>3. /\ reqOffsets[row + 1] = Len(reqIds)
      /\ \A x \in Rows : x < row + 1 => Lists(RangeOf(reqOffsets, reqIds, x), Governing(x))
  BY DEF Ground, RequirementsColumn, Writing, ResolvingPcs, Listed
<1>4. r < row + 1
  BY <1>2 DEF Rows, Ground, TypeOK, BatchTypeOK
<1>5. AppliedIds = RangeOf(reqOffsets, reqIds, r)
  BY <1>2, <1>3 DEF AppliedIds, RangeOf
<1>6. Governing(r) = InForce(MeaningOf(r))
  <2>1. \A q \in DOMAIN Requirements : Applicable(q, r) <=> q \in InForce(MeaningOf(r))
    BY <1>1, ReadsMeaning DEF RowGround
  <2> QED BY <2>1 DEF Governing, InForce
<1> QED BY <1>2, <1>3, <1>4, <1>5, <1>6 DEF Lists

\* evidenceRequiredForRow.
LEMMA RequiredMeans ==
  ASSUME Ground, pc = "evidence", NEW ref \in DOMAIN pack.evidence
  PROVE  RequiredForRow(ref) <=> Required(pack.evidence[ref].type, MeaningOf(row))
PROOF
<1>1. RowGround
  BY RowGrounded
<1> DEFINE applied == AppliedIds
           held == batch.kinds[ref]
           type == pack.evidence[ref].type
<1>2. RequiredForRow(ref) <=> \E j \in DOMAIN applied : Wants(applied[j], held)
  BY DEF RequiredForRow, Wants
<1>3. Required(type, MeaningOf(row)) <=> \E k \in InForce(MeaningOf(row)) : Wants(k, type)
  BY DEF Required, Wants
<1>4. \A k : k \in InForce(MeaningOf(row)) <=> \E j \in DOMAIN applied : applied[j] = k
  BY AllListed
<1>5. \A k \in InForce(MeaningOf(row)) : Wants(k, held) <=> Wants(k, type)
  <2> SUFFICES ASSUME NEW k \in DOMAIN Requirements PROVE Wants(k, held) <=> Wants(k, type)
    BY DEF InForce
  <2>1. \A kind \in Kinds : kind = held <=> kind = type
    BY <1>1, RecordsOfPack DEF RowGround
  <2> SUFFICES ASSUME NEW j \in DOMAIN Requirements[k].clauses,
                      NEW m \in DOMAIN Clauses[Requirements[k].clauses[j]].kinds
               PROVE  Clauses[Requirements[k].clauses[j]].kinds[m] \in Kinds
    <3> HIDE DEF held, type
    <3> QED BY <2>1 DEF Wants
  <2>2. Requirements[k].clauses[j] \in DOMAIN Clauses
    BY ClausesOfRequirement
  <2>3. PICK c \in DOMAIN Clauses : c = Requirements[k].clauses[j]
    BY <2>2
  <2>4. Clauses[c].kinds \in Seq(Kinds)
    BY ClauseAssumption DEF IsClause, ValidClause
  <2>5. PICK s \in Seq(Kinds) : s = Clauses[c].kinds
    BY <2>4
  <2>6. \A i \in DOMAIN s : s[i] \in Kinds
    OBVIOUS
  <2> QED BY <2>3, <2>5, <2>6
<1> HIDE DEF applied, held, type
<1>6. (\E j \in DOMAIN applied : Wants(applied[j], held))
        <=> (\E k \in InForce(MeaningOf(row)) : Wants(k, type))
  BY <1>4, <1>5
<1> QED BY <1>2, <1>3, <1>6 DEF type

\* The places up to the next one.
LEMMA MentionsGrow ==
  ASSUME NEW r \in Rows, NEW j \in Nat, DOMAIN pack.requests[r].refs \subseteq Nat
  PROVE  /\ MentionsBelow(r, j + 1)
              = MentionsBelow(r, j) \cup (IF j \in MentionsOf(r) THEN {j} ELSE {})
         /\ MentionsBelow(r, j) \in SUBSET Nat /\ \A i \in MentionsBelow(r, j) : i < j
BY DEF MentionsBelow, MentionsOf, FirstMentions

\* One more place adds one more record.
LEMMA NamesGrow ==
  ASSUME NEW used, NEW more, NEW n \in Nat, DOMAIN used = 1..n, DOMAIN more = 1..(n + 1),
         \A k \in 1..n : more[k] = used[k], NEW places \in SUBSET Nat, NEW j \in Nat,
         \A i \in places : i < j, NEW r, Names(used, r, places),
         more[n + 1] = RecordIndex(pack.evidence, pack.requests[r].refs[j])
  PROVE  Names(more, r, places \cup {j})
PROOF
<1>1. PICK js \in Seq(Nat) :
        /\ Lists(js, places) /\ DOMAIN used = 1..Len(js)
        /\ \A k \in 1..Len(js) : used[k] = RecordIndex(pack.evidence, pack.requests[r].refs[js[k]])
  BY DEF Names
<1>2. Len(js) = n
  <2>1. Len(js) \in Nat
    OBVIOUS
  <2>2. PICK m \in Nat : m = Len(js) /\ 1..n = 1..m
    BY <1>1, <2>1
  <2>3. n <= m
    <3>1. n > 0 => n \in 1..m
      BY <2>2
    <3> QED BY <3>1
  <2>4. m <= n
    <3>1. m > 0 => m \in 1..n
      BY <2>2
    <3> QED BY <3>1
  <2> QED BY <2>2, <2>3, <2>4
<1>3. PICK ks : ks = Append(js, j)
  OBVIOUS
<1>4. /\ ks \in Seq(Nat) /\ Len(ks) = n + 1 /\ DOMAIN ks = 1..(n + 1) /\ DOMAIN js = 1..n
      /\ \A k \in 1..n : ks[k] = js[k]
      /\ ks[n + 1] = j
  BY <1>2, <1>3, AppendProperties
<1>5. Lists(ks, places \cup {j})
  BY <1>1, <1>4, ListGrows
<1>6. \A k \in 1..(n + 1) : more[k] = RecordIndex(pack.evidence, pack.requests[r].refs[ks[k]])
  <2>1. \A k \in 1..(n + 1) : k \in 1..n \/ k = n + 1
    OBVIOUS
  <2> QED BY <1>1, <1>2, <1>4, <2>1
<1> QED BY <1>4, <1>5, <1>6 DEF Names

\* evidenceAlreadyAdded, in terms of the records the row has appended.
LEMMA DuplicateIsUsed ==
  ASSUME Ground, EvidenceColumn, pc = "evidence", NEW ref
  PROVE  Duplicate(ref) <=> \E k \in DOMAIN UsedRefs : UsedRefs[k] = ref
PROOF
<1>1. RowGround
  BY RowGrounded
<1>2. /\ evRefs \in Seq(Nat) /\ Ascends(evOffsets, evRefs, batch.rows, row)
  BY DEF EvidenceColumn, Writing, ResolvingPcs, Frontier
<1>3. PICK n \in Nat, x \in Nat : n = batch.rows /\ x = row /\ x \in 1..n
  BY <1>1 DEF Ground, RowGround, TypeOK, BatchTypeOK, Rows
<1>4. x \in 1..x /\ x \in 1..(n + 1) /\ Ascends(evOffsets, evRefs, n, x)
  BY <1>2, <1>3
<1>5. PICK a \in Nat : a = evOffsets[x] /\ a <= Len(evRefs)
  BY <1>4 DEF Ascends
<1>6. PICK m \in Nat : m = Len(evRefs)
  BY <1>2, LenProperties
<1>7. UsedRefs = [i \in 1..(m - a) |-> evRefs[a + i]]
  BY <1>2, <1>3, <1>5, <1>6, OpenSlice DEF UsedRefs
<1>8. Duplicate(ref) <=> \E k \in (a + 1)..m : evRefs[k] = ref
  BY <1>3, <1>5, <1>6 DEF Duplicate
<1>9. ASSUME NEW k \in (a + 1)..m PROVE k - a \in 1..(m - a) /\ a + (k - a) = k
  BY <1>5, <1>6
<1>10. ASSUME NEW k \in 1..(m - a) PROVE a + k \in (a + 1)..m
  BY SMTT(40), <1>5, <1>6
<1> QED BY <1>7, <1>8, <1>9, <1>10

\* A record is appended exactly where the request first mentions it, if it is
\* required.
LEMMA AppendsMentions ==
  ASSUME Ground, EvidenceColumn, UsesColumn, pc = "evidence", edge \in RowEdges(batch, row),
         NEW r \in Rows, r = row, NEW j, j = edge - batch.offsets[r] + 1,
         NEW ref, ref = batch.refs[edge]
  PROVE  /\ j \in Nat /\ DOMAIN pack.requests[r].refs \subseteq Nat
         /\ ref = RecordIndex(pack.evidence, pack.requests[r].refs[j])
         /\ j \in MentionsOf(r) <=> ref # 0 /\ RequiredForRow(ref) /\ ~Duplicate(ref)
PROOF
<1>1. RowGround
  BY RowGrounded
<1>2. PICK refs : refs = pack.requests[r].refs
  OBVIOUS
<1>3. PICK records : records = pack.evidence
  OBVIOUS
<1>4. /\ Len(refs) \in Nat /\ DOMAIN refs = 1..Len(refs) /\ j \in 1..Len(refs)
      /\ ref = RecordIndex(records, refs[j])
  <2>1. /\ Len(refs) \in Nat /\ DOMAIN refs = 1..Len(refs)
        /\ batch.offsets[r] \in Nat \ {0}
        /\ edge \in batch.offsets[r]..(batch.offsets[r] + Len(refs) - 1)
        /\ batch.refs[edge] = RecordIndex(pack.evidence, refs[edge - batch.offsets[r] + 1])
    BY <1>1, <1>2, RowEdgesOfPack DEF RowGround
  <2>2. PICK o \in Nat : o = batch.offsets[r]
    BY <2>1
  <2>3. edge - o + 1 \in 1..Len(refs)
    BY SMTT(40), <2>1, <2>2
  <2> QED BY <1>3, <2>1, <2>2, <2>3
<1>5. IsSequence(records) /\ DistinctIds(records)
  BY <1>1, <1>3, RecordsOfPackDistinct DEF Ground, RowGround
<1>6. /\ \A id : RecordIndex(records, id) = 0 <=> \A k \in DOMAIN records : records[k].id # id
      /\ \A id : \A k \in DOMAIN records : RecordIndex(records, id) = k <=> records[k].id = id
  BY <1>5, RecordIndexMeans
<1>7. \A k \in DOMAIN records : k # 0
  BY <1>5 DEF IsSequence
<1>8. PICK meaning : meaning = MeaningOf(r)
  OBVIOUS
<1> DEFINE Asks(i) == \E k \in DOMAIN records :
                        records[k].id = refs[i] /\ Required(records[k].type, meaning)
<1>9. MentionsOf(r) = {i \in DOMAIN refs : Asks(i) /\ \A h \in 1..(i - 1) : refs[h] # refs[i]}
  BY <1>2, <1>3, <1>8 DEF MentionsOf, FirstMentions
<1>10. Asks(j) <=> ref # 0 /\ RequiredForRow(ref)
  <2>1. CASE ref = 0
    BY <1>4, <1>6, <2>1
  <2>2. CASE ref # 0
    <3>1. PICK k \in DOMAIN records : records[k].id = refs[j]
      BY <1>4, <1>6, <2>2
    <3>2. ref = k /\ \A i \in DOMAIN records : records[i].id = refs[j] => i = k
      BY <1>4, <1>6, <3>1
    <3>3. RequiredForRow(ref) <=> Required(records[k].type, meaning)
      BY <1>3, <1>8, <3>2, RequiredMeans
    <3> QED BY <2>2, <3>1, <3>2, <3>3
  <2> QED BY <2>1, <2>2
<1>11. Names(UsedRefs, r, MentionsBelow(r, j))
  BY DEF UsesColumn
<1>12. Duplicate(ref) <=> \E i \in MentionsBelow(r, j) : RecordIndex(records, refs[i]) = ref
  <2>1. PICK used : used = UsedRefs
    OBVIOUS
  <2>2. PICK js \in Seq(Nat) :
          /\ Lists(js, MentionsBelow(r, j)) /\ DOMAIN used = 1..Len(js)
          /\ \A k \in 1..Len(js) : used[k] = RecordIndex(records, refs[js[k]])
    BY <1>2, <1>3, <1>11, <2>1 DEF Names
  <2>3. DOMAIN js = 1..Len(js)
    OBVIOUS
  <2>4. \A i : i \in MentionsBelow(r, j) <=> \E k \in 1..Len(js) : js[k] = i
    BY <2>2, <2>3 DEF Lists
  <2>5. Duplicate(ref) <=> \E k \in DOMAIN used : used[k] = ref
    BY <2>1, DuplicateIsUsed
  <2> QED BY SMTT(40), <2>2, <2>4, <2>5
<1>13. \A i : i \in MentionsBelow(r, j)
                <=> i \in DOMAIN refs /\ i < j /\ Asks(i) /\ \A h \in 1..(i - 1) : refs[h] # refs[i]
  BY <1>9 DEF MentionsBelow
<1>14. ASSUME ref # 0
       PROVE  \A i \in DOMAIN refs : RecordIndex(records, refs[i]) = ref <=> refs[i] = refs[j]
  <2>1. PICK k \in DOMAIN records : records[k].id = refs[j]
    BY <1>4, <1>6, <1>14
  <2>2. ref = k
    BY <1>4, <1>6, <2>1
  <2> QED BY <1>6, <2>1, <2>2
<1>15. ASSUME Asks(j)
       PROVE  (\E i \in MentionsBelow(r, j) : refs[i] = refs[j])
                <=> (\E h \in 1..(j - 1) : refs[h] = refs[j])
  <2>1. ASSUME NEW h \in 1..(j - 1), refs[h] = refs[j]
        PROVE  \E i \in MentionsBelow(r, j) : refs[i] = refs[j]
    <3>1. PICK S : S = {i \in DOMAIN refs : refs[i] = refs[j]}
      OBVIOUS
    <3>2. h \in S /\ S \in SUBSET Nat
      BY <1>4, <2>1, <3>1
    <3>3. PICK i \in S : \A x \in S : i <= x
      BY <3>2, LeastExists
    <3>4. i \in DOMAIN refs /\ refs[i] = refs[j] /\ i <= h /\ i \in Nat
      BY <3>1, <3>2, <3>3
    <3>5. i < j
      BY <1>4, <2>1, <3>4
    <3>6. \A x \in 1..(i - 1) : refs[x] # refs[i]
      <4> SUFFICES ASSUME NEW x \in 1..(i - 1), refs[x] = refs[i] PROVE FALSE
        OBVIOUS
      <4>1. x \in DOMAIN refs /\ x < i
        BY <1>4, <3>4, <3>5
      <4>2. x \in S
        BY <3>1, <3>4, <4>1
      <4> QED BY <1>4, <3>3, <3>4, <4>1, <4>2
    <3>7. Asks(i)
      BY <1>15, <3>4
    <3> HIDE DEF Asks
    <3> QED BY <1>13, <3>4, <3>5, <3>6, <3>7
  <2>2. \A i \in MentionsBelow(r, j) : i \in 1..(j - 1)
    BY <1>4, <1>13
  <2> QED BY <2>1, <2>2
<1> HIDE DEF Asks
<1>16. \A i \in MentionsBelow(r, j) : i \in DOMAIN refs
  BY <1>13
<1>17. j \in MentionsOf(r) <=> Asks(j) /\ ~ \E h \in 1..(j - 1) : refs[h] = refs[j]
  BY <1>4, <1>9
<1>18. j \in MentionsOf(r) <=> ref # 0 /\ RequiredForRow(ref) /\ ~Duplicate(ref)
  BY <1>10, <1>12, <1>14, <1>15, <1>16, <1>17
<1>19. j \in Nat /\ DOMAIN refs \subseteq Nat
  BY <1>4
<1>20. ref = RecordIndex(pack.evidence, refs[j])
  BY <1>3, <1>4
<1> QED BY <1>2, <1>18, <1>19, <1>20

\* What the places name only depends on the pack.
LEMMA NamesFrame ==
  ASSUME UNCHANGED pack
  PROVE  /\ \A r : MentionsOf(r)' = MentionsOf(r)
         /\ \A r, bound : MentionsBelow(r, bound)' = MentionsBelow(r, bound)
         /\ \A used, r, places : Names(used, r, places)' <=> Names(used, r, places)
BY DEF MentionsOf, MeaningOf, MentionsBelow, Names

\* What the ranges of finished rows name after a step.
LEMMA FinishedNames ==
  ASSUME UNCHANGED <<pack, batch>>, NEW n, n = Frontier',
         NEW offsets, offsets = evOffsets', NEW refs, refs = evRefs',
         \A r \in Rows : r < n => Names(RangeOf(offsets, refs, r), r, MentionsOf(r))
  PROVE  (\A r \in Rows : r < Frontier => Names(RangeOf(evOffsets, evRefs, r), r, MentionsOf(r)))'
PROOF
<1>1. \A r : MentionsOf(r)' = MentionsOf(r)
  BY NamesFrame
<1>2. \A used, r, places : Names(used, r, places)' <=> Names(used, r, places)
  BY NamesFrame
<1>4. ASSUME NEW r \in Rows, r < n
      PROVE  Names(RangeOf(evOffsets, evRefs, r), r, MentionsOf(r))'
  <2>1. PICK used : used = RangeOf(offsets, refs, r)
    OBVIOUS
  <2>2. PICK places : places = MentionsOf(r)
    OBVIOUS
  <2>3. Names(used, r, places)'
    BY <1>2, <1>4, <2>1, <2>2
  <2>4. RangeOf(evOffsets, evRefs, r)' = used /\ MentionsOf(r)' = places
    BY <1>1, <2>1, <2>2 DEF RangeOf
  <2> QED BY <2>3, <2>4 DEF Names
<1>5. Rows' = Rows
  BY DEF Rows
<1> QED BY <1>4, <1>5

\* Nothing is named at no place.
LEMMA NothingNamed ==
  ASSUME NEW r
  PROVE  Names(<<>>, r, {})
PROOF
<1>1. PICK js \in Seq(Nat) : js = <<>>
  BY EmptySeq
<1>2. Lists(js, {}) /\ DOMAIN js = 1..Len(js) /\ Len(js) = 0 /\ 1..Len(js) = {}
  BY <1>1 DEF Lists, Increasing
<1> QED BY <1>1, <1>2 DEF Names

\* A row starts to collect its evidence before its first reference.
LEMMA UsesBegin ==
  ASSUME Ground, EvidenceColumn, UsesColumn, FinishRequirements
  PROVE  UsesColumn'
PROOF
<1>1. /\ pc = "requirements" /\ pc' = "evidence" /\ UNCHANGED <<pack, batch, row, evRefs>>
      /\ evOffsets' = [evOffsets EXCEPT ![row] = Len(evRefs)] /\ edge' = batch.offsets[row]
  BY DEF FinishRequirements
<1>2. RowGround
  BY <1>1, RowGrounded
<1>3. Writing /\ Frontier = row /\ Frontier' = row
  BY <1>1 DEF Writing, ResolvingPcs, Frontier
<1>4. /\ evRefs \in Seq(Nat) /\ Ascends(evOffsets, evRefs, batch.rows, row)
      /\ evOffsets[row] = Len(evRefs)
  BY <1>1, <1>3 DEF EvidenceColumn
<1>5. evOffsets' = evOffsets
  BY <1>1, <1>4 DEF Ascends
<1>6. UsedRefs' = <<>>
  BY <1>1, <1>4, <1>5, OpenEmpty DEF UsedRefs
<1>7. PICK r \in Rows : r = row
  BY <1>2 DEF RowGround
<1>8. PICK refs : refs = pack.requests[r].refs
  OBVIOUS
<1>9. DOMAIN refs = 1..Len(refs) /\ Len(refs) \in Nat /\ batch.offsets[r] \in Nat
  BY <1>2, <1>8, RowEdgesOfPack DEF RowGround
<1>10. MentionsBelow(r, 1) = {}
  BY <1>8, <1>9 DEF MentionsBelow, MentionsOf, FirstMentions
<1>11. batch.offsets[r] - batch.offsets[r] + 1 = 1
  BY <1>9
<1>12. Names(UsedRefs, row, MentionsBelow(row, edge - batch.offsets[row] + 1))'
  <2>1. PICK bound : bound = (edge - batch.offsets[row] + 1)'
    OBVIOUS
  <2>2. bound = 1
    BY <1>1, <1>7, <1>11, <2>1
  <2>3. Names(<<>>, r, {})
    BY NothingNamed
  <2>4. MentionsBelow(r, bound)' = {}
    BY <1>1, <1>10, <2>2, NamesFrame
  <2>5. Names(<<>>, r, {})'
    BY <1>1, <2>3, NamesFrame
  <2>6. MentionsBelow(row, edge - batch.offsets[row] + 1)' = MentionsBelow(r, bound)'
    BY <1>1, <1>7, <2>1 DEF MentionsBelow, MentionsOf
  <2> QED BY <1>1, <1>6, <1>7, <2>4, <2>5, <2>6 DEF Names
<1>13. (\A x \in Rows : x < Frontier => Names(RangeOf(evOffsets, evRefs, x), x, MentionsOf(x)))'
  <2>1. row \in Nat
    BY DEF Ground, TypeOK
  <2>2. PICK n : n = row
    OBVIOUS
  <2>3. PICK offsets, ids : offsets = evOffsets /\ ids = evRefs
    OBVIOUS
  <2>4. \A x \in Rows : x < n => Names(RangeOf(offsets, ids, x), x, MentionsOf(x))
    BY <1>3, <2>2, <2>3 DEF UsesColumn
  <2> QED BY <1>1, <1>3, <1>5, <2>2, <2>3, <2>4, FinishedNames
<1> QED BY <1>12, <1>13 DEF UsesColumn

\* An edge adds its record where the request first mentions it.
LEMMA UsesAppend ==
  ASSUME Ground, EvidenceColumn, UsesColumn, ResolveEvidence
  PROVE  UsesColumn'
PROOF
<1>1. PICK ref : ref = batch.refs[edge]
  OBVIOUS
<1>2. /\ pc = "evidence" /\ pc' = "evidence" /\ UNCHANGED <<pack, batch, row, evOffsets>>
      /\ edge' = edge + 1 /\ edge \in RowEdges(batch, row)
      /\ evRefs' = IF ref # 0 /\ RequiredForRow(ref) /\ ~Duplicate(ref)
                     THEN Append(evRefs, ref) ELSE evRefs
  BY <1>1 DEF ResolveEvidence
<1>3. RowGround
  BY <1>2, RowGrounded
<1>4. Writing /\ Writing' /\ Frontier = row /\ Frontier' = row
  BY <1>2 DEF Writing, ResolvingPcs, Frontier
<1>5. PICK r \in Rows : r = row
  BY <1>3 DEF RowGround
<1>6. PICK j : j = edge - batch.offsets[r] + 1
  OBVIOUS
<1>7. /\ j \in Nat /\ DOMAIN pack.requests[r].refs \subseteq Nat
      /\ ref = RecordIndex(pack.evidence, pack.requests[r].refs[j])
      /\ j \in MentionsOf(r) <=> ref # 0 /\ RequiredForRow(ref) /\ ~Duplicate(ref)
  BY <1>1, <1>2, <1>5, <1>6, AppendsMentions
<1>8. /\ MentionsBelow(r, j + 1)
           = MentionsBelow(r, j) \cup (IF j \in MentionsOf(r) THEN {j} ELSE {})
      /\ MentionsBelow(r, j) \in SUBSET Nat /\ \A i \in MentionsBelow(r, j) : i < j
  BY <1>7, MentionsGrow
<1>9. Names(UsedRefs, r, MentionsBelow(r, j))
  BY <1>2, <1>5, <1>6 DEF UsesColumn
<1>10. /\ evRefs \in Seq(Nat) /\ Ascends(evOffsets, evRefs, batch.rows, row)
  BY <1>2, <1>4 DEF EvidenceColumn
<1>11. PICK n \in Nat, x \in Nat : n = batch.rows /\ x = row /\ x \in 1..n
  BY <1>3 DEF Ground, RowGround, TypeOK, BatchTypeOK, Rows
<1>12. x \in 1..x /\ x \in 1..(n + 1) /\ Ascends(evOffsets, evRefs, n, x)
  BY <1>10, <1>11
<1>13. PICK a \in Nat : a = evOffsets[x] /\ a <= Len(evRefs)
  BY <1>12 DEF Ascends
<1>14. (edge + 1) - batch.offsets[r] + 1 = j + 1
  <2>1. batch.offsets[r] \in Nat /\ edge \in Nat
    BY <1>3, RowEdgesOfPack DEF RowGround, Ground, TypeOK
  <2>2. PICK o \in Int, e \in Int : o = batch.offsets[r] /\ e = edge
    BY <2>1
  <2> QED BY <1>6, <2>2
<1>15. PICK more : more = evRefs'
  OBVIOUS
<1>16. PICK old : old = Open(evRefs, a)
  OBVIOUS
<1>17. UsedRefs = old /\ UsedRefs' = Open(more, a)
  BY <1>2, <1>5, <1>11, <1>13, <1>15, <1>16 DEF UsedRefs
<1>18. /\ Names(Open(more, a), r, MentionsBelow(r, j + 1))
       /\ \A y \in Rows : y < row => RangeOf(evOffsets, more, y) = RangeOf(evOffsets, evRefs, y)
  <2>1. CASE j \notin MentionsOf(r)
    <3>1. more = evRefs
      BY <1>2, <1>7, <1>15, <2>1
    <3>2. MentionsBelow(r, j + 1) = MentionsBelow(r, j)
      BY <1>8, <2>1
    <3> QED BY <1>9, <1>16, <1>17, <3>1, <3>2
  <2>2. CASE j \in MentionsOf(r)
    <3>1. more = Append(evRefs, ref) /\ ref # 0
      BY <1>2, <1>7, <1>15, <2>2
    <3>2. ref \in Nat
      <4>1. ref \in DOMAIN pack.evidence
        <5>1. IsSequence(pack.evidence) /\ DistinctIds(pack.evidence)
          BY <1>3, RecordsOfPackDistinct DEF Ground, RowGround
        <5>2. PICK id : id = pack.requests[r].refs[j]
          OBVIOUS
        <5> QED BY <1>7, <3>1, <5>1, <5>2, RecordIndexMeans
      <4> QED BY <1>3, <4>1, BatchOfPack DEF RowGround, IsSequence
    <3>3. PICK m \in Nat : m = Len(old)
      BY <1>10, <1>13, <1>16, OpenSlice, LenProperties
    <3>4. /\ DOMAIN old = 1..m /\ DOMAIN Open(more, a) = 1..(m + 1)
          /\ \A k \in 1..m : Open(more, a)[k] = old[k]
          /\ Open(more, a)[m + 1] = ref
      BY <1>10, <1>13, <1>16, <3>1, <3>2, <3>3, OpenGrows
    <3>5. MentionsBelow(r, j + 1) = MentionsBelow(r, j) \cup {j}
      BY <1>8, <2>2
    <3>6. PICK open : open = Open(more, a)
      OBVIOUS
    <3>7. PICK places : places = MentionsBelow(r, j)
      OBVIOUS
    <3>8. Names(open, r, places \cup {j})
      BY <1>7, <1>8, <1>9, <1>17, <3>4, <3>6, <3>7, NamesGrow
    <3>9. /\ more \in Seq(Nat) /\ Continues(more, evRefs)
      BY <1>10, <3>1, <3>2, AppendProperties, LenProperties DEF Continues
    <3>10. \A y \in 1..n : y < x => RangeOf(evOffsets, more, y) = RangeOf(evOffsets, evRefs, y)
      BY <1>10, <1>12, <3>9, IdsGrow
    <3> QED BY <1>11, <3>5, <3>6, <3>7, <3>8, <3>10 DEF Rows
  <2> QED BY <2>1, <2>2
<1>19. Names(UsedRefs, row, MentionsBelow(row, edge - batch.offsets[row] + 1))'
  <2>1. PICK bound : bound = j + 1
    OBVIOUS
  <2>2. PICK used : used = Open(more, a)
    OBVIOUS
  <2>3. PICK places : places = MentionsBelow(r, bound)
    OBVIOUS
  <2>4. Names(used, r, places)'
    BY <1>2, <1>18, <2>1, <2>2, <2>3, NamesFrame
  <2>5. MentionsBelow(r, bound)' = places
    BY <1>2, <2>3, NamesFrame
  <2>6. (edge - batch.offsets[row] + 1)' = bound
    BY <1>2, <1>5, <1>14, <2>1
  <2>7. MentionsBelow(row, edge - batch.offsets[row] + 1)' = places
    BY <1>2, <1>5, <2>5, <2>6 DEF MentionsBelow, MentionsOf
  <2> QED BY <1>2, <1>5, <1>17, <2>2, <2>4, <2>7 DEF Names
<1>20. (\A y \in Rows : y < Frontier => Names(RangeOf(evOffsets, evRefs, y), y, MentionsOf(y)))'
  <2>1. PICK m, offsets : m = row /\ offsets = evOffsets
    OBVIOUS
  <2>2. \A y \in Rows : y < m => Names(RangeOf(offsets, more, y), y, MentionsOf(y))
    BY <1>4, <1>18, <2>1 DEF UsesColumn
  <2> QED BY <1>2, <1>4, <1>15, <2>1, <2>2, FinishedNames
<1> QED BY <1>19, <1>20 DEF UsesColumn

\* A finished row has met all its references.
LEMMA UsesClose ==
  ASSUME Ground, EvidenceColumn, UsesColumn, FinishRow
  PROVE  UsesColumn'
PROOF
<1>1. /\ pc = "evidence" /\ pc' = "row" /\ UNCHANGED <<pack, batch, evRefs>> /\ row' = row + 1
      /\ evOffsets' = [evOffsets EXCEPT ![row + 1] = Len(evRefs)]
      /\ edge \notin RowEdges(batch, row)
  BY DEF FinishRow
<1>2. RowGround
  BY <1>1, RowGrounded
<1>3. Writing /\ Frontier = row /\ Frontier' = row + 1
  BY <1>1 DEF Writing, ResolvingPcs, Frontier
<1>4. /\ evRefs \in Seq(Nat) /\ Ascends(evOffsets, evRefs, batch.rows, row)
      /\ Len(evRefs) \in Nat
  BY <1>1, <1>3, LenProperties DEF EvidenceColumn
<1>5. PICK n \in Nat, x \in Nat : n = batch.rows /\ x = row /\ x \in 1..n
  BY <1>2 DEF Ground, RowGround, TypeOK, BatchTypeOK, Rows
<1>6. PICK closed : closed = evOffsets'
  OBVIOUS
<1>7. Ascends(evOffsets, evRefs, n, x)
  BY <1>4, <1>5
<1>8. Closes(closed, evOffsets, evRefs, n, x)
  <2>1. evOffsets \in [1..(n + 1) -> Nat]
    BY <1>7 DEF Ascends
  <2>2. \A y \in 1..x : y \in 1..(n + 1) /\ y # x + 1
    BY <1>5
  <2> QED BY <1>1, <1>4, <1>5, <1>6, <2>1, <2>2 DEF Closes
<1>9. /\ \A y \in 1..n : y < x => RangeOf(closed, evRefs, y) = RangeOf(evOffsets, evRefs, y)
      /\ RangeOf(closed, evRefs, x) = Open(evRefs, evOffsets[x])
  BY <1>4, <1>5, <1>7, <1>8, RowCloses
<1>10. PICK r \in Rows : r = row
  BY <1>2 DEF RowGround
<1>11. MentionsBelow(r, edge - batch.offsets[r] + 1) = MentionsOf(r)
  <2>1. PICK refs : refs = pack.requests[r].refs
    OBVIOUS
  <2>2. /\ Len(refs) \in Nat /\ DOMAIN refs = 1..Len(refs) /\ batch.offsets[r] \in Nat
        /\ batch.offsets[r + 1] = batch.offsets[r] + Len(refs)
        /\ edge \notin batch.offsets[r]..(batch.offsets[r] + Len(refs) - 1)
    BY <1>1, <1>2, <1>10, <2>1, RowEdgesOfPack DEF RowGround
  <2>3. batch.offsets[r] <= edge /\ edge \in Nat
    BY <1>1, <1>10 DEF Ground, CursorsInside, TypeOK
  <2>4. PICK o \in Nat, e \in Nat : o = batch.offsets[r] /\ e = edge
    BY <2>2, <2>3
  <2>5. \A i \in DOMAIN refs : i < e - o + 1
    BY SMTT(40), <2>2, <2>3, <2>4
  <2> QED BY <2>1, <2>4, <2>5 DEF MentionsBelow, MentionsOf, FirstMentions
<1>12. Names(Open(evRefs, evOffsets[x]), r, MentionsOf(r))
  BY <1>1, <1>5, <1>10, <1>11 DEF UsesColumn, UsedRefs
<1>13. PICK m, ids : m = row + 1 /\ ids = evRefs
  OBVIOUS
<1>14. \A y \in Rows : y < m => Names(RangeOf(closed, ids, y), y, MentionsOf(y))
  <2> SUFFICES ASSUME NEW y \in 1..n, y < m
               PROVE  Names(RangeOf(closed, ids, y), y, MentionsOf(y))
    BY <1>5 DEF Rows
  <2>1. CASE y = x
    BY <1>5, <1>9, <1>10, <1>12, <1>13, <2>1
  <2>2. CASE y # x
    <3>1. y < x /\ y \in Rows
      BY <1>5, <1>13, <2>2 DEF Rows
    <3> QED BY <1>3, <1>5, <1>9, <1>13, <3>1 DEF UsesColumn
  <2> QED BY <2>1, <2>2
<1>15. (\A y \in Rows : y < Frontier => Names(RangeOf(evOffsets, evRefs, y), y, MentionsOf(y)))'
  BY <1>1, <1>3, <1>6, <1>13, <1>14, FinishedNames
<1> QED BY <1>1, <1>15 DEF UsesColumn

\* Steps that touch neither the column nor the frontier.
LEMMA UsesFrame ==
  ASSUME UsesColumn, Writing, UNCHANGED <<pack, batch, evRefs, evOffsets>>, Frontier' = Frontier,
         pc' # "evidence" \/ UNCHANGED <<pc, row, edge>>
  PROVE  UsesColumn'
PROOF
<1>1. (\A y \in Rows : y < Frontier => Names(RangeOf(evOffsets, evRefs, y), y, MentionsOf(y)))'
  <2>1. PICK n : n = Frontier
    OBVIOUS
  <2>2. PICK offsets, ids : offsets = evOffsets /\ ids = evRefs
    OBVIOUS
  <2>3. \A y \in Rows : y < n => Names(RangeOf(offsets, ids, y), y, MentionsOf(y))
    BY <2>1, <2>2 DEF UsesColumn
  <2> QED BY <2>1, <2>2, <2>3, FinishedNames
<1>2. ASSUME pc' = "evidence"
      PROVE  Names(UsedRefs, row, MentionsBelow(row, edge - batch.offsets[row] + 1))'
  <2>1. UNCHANGED <<pc, row, edge>> /\ pc = "evidence"
    BY <1>2
  <2>2. Names(UsedRefs, row, MentionsBelow(row, edge - batch.offsets[row] + 1))
    BY <2>1 DEF UsesColumn
  <2>3. /\ UsedRefs' = UsedRefs
        /\ MentionsBelow(row, edge - batch.offsets[row] + 1)'
             = MentionsBelow(row, edge - batch.offsets[row] + 1)
    BY <2>1 DEF UsedRefs, MentionsBelow, MentionsOf, MeaningOf
  <2> QED BY <2>1, <2>2, <2>3 DEF Names
<1> QED BY <1>1, <1>2 DEF UsesColumn

\* At first the evidence column says nothing.
LEMMA InitUsesColumn == Init => UsesColumn
BY DEF Init, UsesColumn, Writing, ResolvingPcs

\* Every step keeps the evidence column what the requests mention first.
LEMMA NextUsesColumn ==
  Ground /\ EvidenceColumn /\ UsesColumn /\ [Next]_vars => UsesColumn'
PROOF
<1> SUFFICES ASSUME Ground, EvidenceColumn, UsesColumn, [Next]_vars
             PROVE  UsesColumn'
  OBVIOUS
<1>1. CASE \/ Submit \/ EnsureCapacity \/ CheckShapes
           \/ ExecuteField \/ ExecuteEvidence \/ ExecuteAll \/ Return
  <2>1. ~Writing' /\ pc' # "evidence"
    BY <1>1
    DEF Submit, RejectInput, BuildInto, EnsureCapacity, CheckShapes, Fail, ExecuteField,
        ExecuteEvidence, ExecuteAll, Executing, Executed, Return, Writing, ResolvingPcs
  <2> QED BY <2>1 DEF UsesColumn
<1>2. CASE ResetResults
  <2>1. pc' = "row" /\ row' = 1 /\ Rows' \subseteq Nat \ {0}
    BY <1>2 DEF Ground, ResetResults, Rows, TypeOK, BatchTypeOK
  <2>2. \A r \in Rows' : ~(r < Frontier')
    BY <2>1 DEF Frontier
  <2> QED BY <2>1, <2>2 DEF UsesColumn
<1>3. CASE \/ ResolveSemantics \/ ResolveEdge \/ BeginRequirements \/ SelectRequirement
           \/ ResolveClause \/ NextRequirement
  BY <1>3, UsesFrame
  DEF ResolveSemantics, ResolveEdge, BeginRequirements, SelectRequirement, ResolveClause,
      NextRequirement, numeric, columns, Writing, ResolvingPcs, Frontier
<1>4. CASE BeginMaterialize
  <2>1. CASE pc' = "idle"
    BY <2>1 DEF UsesColumn, Writing, ResolvingPcs
  <2>2. CASE pc' = "materialize"
    <3>1. /\ pc = "row" /\ row \notin Rows /\ UNCHANGED <<pack, batch, evRefs, evOffsets>>
          /\ Writing
      BY <1>4 DEF BeginMaterialize, numeric, columns, Writing, ResolvingPcs
    <3>2. row = batch.rows + 1
      BY <3>1, FrontierRange DEF Ground, Frontier, Rows
    <3> QED BY <2>2, <3>1, <3>2, UsesFrame DEF Frontier
  <2> QED BY <1>4, <2>1, <2>2 DEF BeginMaterialize, Fail
<1>5. CASE MaterializeRow
  <2>1. CASE pc' = "idle"
    BY <2>1 DEF UsesColumn, Writing, ResolvingPcs
  <2>2. CASE pc' = "materialize"
    BY <1>5, <2>2, UsesFrame DEF MaterializeRow, numeric, columns, Writing, Frontier
  <2> QED BY <1>5, <2>1, <2>2 DEF MaterializeRow, Fail
<1>6. CASE UNCHANGED vars
  <2>1. CASE Writing
    BY <1>6, <2>1, UsesFrame DEF vars, cursors, numeric, columns, Frontier
  <2>2. CASE ~Writing
    BY <1>6, <2>2 DEF vars, UsesColumn, Writing, ResolvingPcs
  <2> QED BY <2>1, <2>2
<1> QED BY <1>1, <1>2, <1>3, <1>4, <1>5, <1>6, UsesBegin, UsesAppend, UsesClose
        DEF Next, Evaluate, ResolveRow

-----------------------------------------------------------------------------
(* What the caller reads is what was promised.                             *)

\* A finished row lists the requirements in force.
LEMMA RequirementsAnswer ==
  ASSUME Ground, pc = "materialize", NEW r \in Rows
  PROVE  RangeOf(reqOffsets, reqIds, r) = InOrder(InForce(MeaningOf(r)))
PROOF
<1>1. /\ PlanesInv /\ PlanesMean /\ Linked /\ pc \in ResolvingPcs \cup {"materialize"} /\ Writing
  BY DEF Ground, Writing
<1>2. batch.rows \in Nat /\ Frontier = batch.rows + 1 /\ Listed = batch.rows + 1
  BY <1>1, FrontierRange DEF Ground, Frontier, Listed
<1>3. PICK n \in Nat : n = batch.rows
  BY <1>2
<1>4. r \in 1..n
  BY <1>3 DEF Rows
<1>5. /\ reqIds \in Seq(Nat) /\ Ascends(reqOffsets, reqIds, n, n + 1)
      /\ Lists(RangeOf(reqOffsets, reqIds, r), Governing(r))
  BY <1>1, <1>2, <1>3, <1>4 DEF Ground, RequirementsColumn
<1>6. PICK a \in Nat, b \in Nat : a = reqOffsets[r] /\ b = reqOffsets[r + 1] /\ a <= b /\ b <= Len(reqIds)
  <2>1. r \in 1..(n + 1) /\ r + 1 \in 1..(n + 1) /\ r \in 1..((n + 1) - 1)
    BY <1>4
  <2> QED BY <1>5, <2>1 DEF Ascends
<1>7. PICK s : s = RangeOf(reqOffsets, reqIds, r)
  OBVIOUS
<1>8. s \in Seq(Nat)
  BY <1>5, <1>6, <1>7, Slice DEF RangeOf
<1>9. Governing(r) = InForce(MeaningOf(r))
  <2>1. \A q \in DOMAIN Requirements : Applicable(q, r) <=> q \in InForce(MeaningOf(r))
    BY <1>1, ReadsMeaning
  <2> QED BY <2>1 DEF Governing, InForce
<1> QED BY <1>5, <1>7, <1>8, <1>9, InOrderLists

\* The records it used are those the request first mentions.
LEMMA EvidenceAnswer ==
  ASSUME Ground, UsesColumn, pc = "materialize", NEW r \in Rows,
         NEW used, used = RangeOf(evOffsets, evRefs, r), NEW js, js = InOrder(MentionsOf(r))
  PROVE  [k \in DOMAIN used |-> pack.evidence[used[k]].id]
           = [k \in DOMAIN js |-> pack.requests[r].refs[js[k]]]
PROOF
<1>1. Linked /\ pc # "idle" /\ Writing /\ TypeOK /\ CursorsInside
  BY DEF Ground, Writing
<1>2. r < Frontier
  BY <1>1, FrontierRange DEF Frontier, Rows
<1>3. Names(used, r, MentionsOf(r))
  BY <1>1, <1>2 DEF UsesColumn
<1>4. PICK ks \in Seq(Nat) :
        /\ Lists(ks, MentionsOf(r)) /\ DOMAIN used = 1..Len(ks)
        /\ \A k \in 1..Len(ks) : used[k] = RecordIndex(pack.evidence, pack.requests[r].refs[ks[k]])
  BY <1>3 DEF Names
<1>5. js = ks /\ DOMAIN ks = 1..Len(ks)
  BY <1>4, InOrderLists
<1>6. IsSequence(pack.evidence) /\ DistinctIds(pack.evidence)
  BY <1>1, RecordsOfPackDistinct DEF Ground
<1>7. ASSUME NEW k \in 1..Len(ks)
      PROVE  pack.evidence[used[k]].id = pack.requests[r].refs[ks[k]]
  <2>1. PICK id : id = pack.requests[r].refs[ks[k]]
    OBVIOUS
  <2>2. ks[k] \in MentionsOf(r)
    BY <1>4, <1>5 DEF Lists
  <2>3. PICK i \in DOMAIN pack.evidence : pack.evidence[i].id = id
    BY <2>1, <2>2 DEF MentionsOf, FirstMentions
  <2>4. RecordIndex(pack.evidence, id) = i
    BY <1>6, <2>3, RecordIndexMeans
  <2> QED BY <1>4, <2>1, <2>3, <2>4
<1> QED BY <1>4, <1>5, <1>7

\* A materialized row is the answer to its request.
LEMMA RowAnswers ==
  ASSUME Ground, UsesColumn, RemediationsColumn, DriversSettle,
         pc = "materialize", NEW r \in Rows
  PROVE  Promised(RowResult(r)) = Decide(pack.requests[r], pack.evidence)
PROOF
<1>1. /\ PlanesInv /\ PlanesMean /\ Linked /\ pc \in ResolvingPcs \cup {"materialize"} /\ Writing
      /\ TypeOK /\ CursorsInside
  BY DEF Ground, Writing
<1>2. PICK d : d = drivers[r]
  OBVIOUS
<1>3. PICK found : found = Decisive(FindingsOf(r))
  OBVIOUS
<1>4. d.outcome = found.outcome /\ DriverText(d, r) = found.driver
  <2>1. Placed(FindingsOf(r))
    BY <1>1, FindingsPlaced
  <2>2. Settles(d, FindingsOf(r), r)
    BY <1>2 DEF DriversSettle, Decided
  <2> QED BY <1>3, <2>1, <2>2, SettledDecides
<1>5. RangeOf(reqOffsets, reqIds, r) = InOrder(InForce(MeaningOf(r)))
  BY RequirementsAnswer
<1>6. PICK used : used = RangeOf(evOffsets, evRefs, r)
  OBVIOUS
<1>7. PICK js : js = InOrder(MentionsOf(r))
  OBVIOUS
<1>8. [k \in DOMAIN used |-> pack.evidence[used[k]].id]
        = [k \in DOMAIN js |-> pack.requests[r].refs[js[k]]]
  BY <1>6, <1>7, EvidenceAnswer
<1>9. RangeOf(remOffsets, remIds, r)
        = IF found.outcome = OutcomeRevise THEN Clauses[found.driver.clause].remediations ELSE <<>>
  <2>1. r < Frontier
    BY <1>1, FrontierRange DEF Frontier, Rows
  <2>2. RangeOf(remOffsets, remIds, r) = RemediationsOf(d)
    BY <1>1, <1>2, <2>1 DEF RemediationsColumn
  <2>3. found.driver.clause = d.clause
    <3>1. DriverText(d, r).clause = d.clause
      BY DEF DriverText
    <3> QED BY <1>4, <3>1
  <2>4. d.outcome = OutcomeRevise => d.kind = "clause"
    <3>1. IsFinding(d, r)
      BY <1>2 DEF Ground, DecisionInv, DriverIsAFinding, Decided
    <3> QED BY <3>1 DEF IsFinding, OutcomeRevise, OutcomeApprove, OutcomeEscalate
  <2> QED BY <1>4, <2>2, <2>3, <2>4 DEF RemediationsOf
<1>10. Promised(RowResult(r)) =
         [id           |-> pack.requests[r].id,
          decision     |-> d.outcome,
          requirements |-> RangeOf(reqOffsets, reqIds, r),
          evidence     |-> [k \in DOMAIN used |-> pack.evidence[used[k]].id],
          driver       |-> DriverText(d, r),
          remediation  |-> RangeOf(remOffsets, remIds, r)]
  BY <1>2, <1>6 DEF Promised, RowResult
<1>11. Decide(pack.requests[r], pack.evidence) =
         [id           |-> pack.requests[r].id,
          decision     |-> found.outcome,
          requirements |-> InOrder(InForce(MeaningOf(r))),
          evidence     |-> [k \in DOMAIN js |-> pack.requests[r].refs[js[k]]],
          driver       |-> found.driver,
          remediation  |-> IF found.outcome = OutcomeRevise
                             THEN Clauses[found.driver.clause].remediations ELSE <<>>]
  BY <1>3, <1>7, Zenon DEF Decide, FindingsOf, MeaningOf, MentionsOf
<1> QED BY <1>4, <1>5, <1>8, <1>9, <1>10, <1>11, Zenon

\* Every row the caller reads, or will, is the answer to its request.
Answered ==
  \A r \in DOMAIN pack.requests :
    Returned(r) => Promised(output[r]) = Decide(pack.requests[r], pack.evidence)

\* A step that materializes a row answers it; the others keep the output.
LEMMA NextAnswered ==
  ASSUME Ground, OutputEarned, UsesColumn, RemediationsColumn, DriversSettle, Answered, [Next]_vars
  PROVE  Answered'
PROOF
<1>1. CASE Submit
  BY <1>1 DEF Submit, RejectInput, BuildInto, Answered, Returned
<1>2. CASE BeginMaterialize
  <2>1. CASE pc' = "idle"
    BY <1>2, <2>1 DEF BeginMaterialize, Fail, Answered, Returned
  <2>2. CASE pc' = "materialize"
    <3>1. /\ pc = "row" /\ row' = 1 /\ pack' = pack
      BY <1>2, <2>2 DEF BeginMaterialize, Fail
    <3>2. DOMAIN pack.requests = Rows /\ batch.rows \in Nat
      BY <3>1, BatchOfPack DEF Ground
    <3>3. \A r \in Rows : ~(r < 1)
      BY <3>2 DEF Rows
    <3> QED BY <2>2, <3>1, <3>2, <3>3 DEF Answered, Returned
  <2> QED BY <1>2, <2>1, <2>2 DEF BeginMaterialize, Fail
<1>3. CASE MaterializeRow
  <2>1. CASE pc' = "idle"
    BY <1>3, <2>1 DEF MaterializeRow, Fail, Answered, Returned
  <2>2. CASE pc' = "materialize"
    <3>1. /\ pc = "materialize" /\ row' = row + 1 /\ pack' = pack /\ row \in Rows
          /\ output' = [output EXCEPT ![row] = RowResult(row)]
      BY <1>3, <2>2 DEF MaterializeRow, Fail
    <3>2. DOMAIN pack.requests = Rows /\ batch.rows \in Nat /\ DOMAIN output = Rows
      BY <3>1, BatchOfPack DEF Ground, OutputEarned
    <3>3. PICK out : out = output'
      OBVIOUS
    <3>4. Promised(out[row]) = Decide(pack.requests[row], pack.evidence)
      <4>1. out[row] = RowResult(row)
        BY <3>1, <3>2, <3>3
      <4>2. PICK r \in Rows : r = row
        BY <3>1
      <4> QED BY <3>1, <4>1, <4>2, RowAnswers
    <3>5. ASSUME NEW r \in Rows, r < row + 1, r # row
          PROVE  Promised(out[r]) = Decide(pack.requests[r], pack.evidence)
      <4>1. r < row /\ out[r] = output[r]
        <5>1. r \in Nat /\ row \in Nat
          BY <3>1, <3>2 DEF Rows
        <5> QED BY <3>1, <3>2, <3>3, <3>5, <5>1
      <4> QED BY <3>1, <3>2, <4>1 DEF Answered, Returned
    <3>6. \A r \in Rows : r < row + 1 => Promised(out[r]) = Decide(pack.requests[r], pack.evidence)
      BY <3>4, <3>5
    <3> QED BY <2>2, <3>1, <3>2, <3>3, <3>6 DEF Answered, Returned
  <2> QED BY <1>3, <2>1, <2>2 DEF MaterializeRow, Fail
<1>4. CASE Return
  <2>1. /\ pc = "materialize" /\ row \notin Rows /\ pc' = "idle" /\ status' = "ok"
        /\ UNCHANGED <<pack, output>>
    BY <1>4 DEF Return
  <2>2. DOMAIN pack.requests = Rows /\ batch.rows \in Nat /\ row \in Nat \ {0}
    BY <2>1, BatchOfPack DEF Ground, TypeOK
  <2>3. \A r \in Rows : r < row
    BY <2>1, <2>2 DEF Rows
  <2> QED BY <2>1, <2>2, <2>3 DEF Answered, Returned
<1>5. CASE \/ EnsureCapacity \/ CheckShapes \/ ExecuteField \/ ExecuteEvidence \/ ExecuteAll
           \/ ResetResults \/ ResolveRow
  <2>1. pc' # "materialize" /\ ~(pc' = "idle" /\ status' = "ok")
    BY <1>5
    DEF EnsureCapacity, CheckShapes, Fail, ExecuteField, ExecuteEvidence, ExecuteAll, Executing,
        Executed, ResetResults, ResolveRow, ResolveSemantics, ResolveEdge, BeginRequirements,
        SelectRequirement, ResolveClause, NextRequirement, FinishRequirements, ResolveEvidence,
        FinishRow
  <2> QED BY <2>1 DEF Answered, Returned
<1>6. CASE UNCHANGED vars
  BY <1>6 DEF vars, cursors, Answered, Returned
<1> QED BY <1>1, <1>2, <1>3, <1>4, <1>5, <1>6 DEF Next, Evaluate

-----------------------------------------------------------------------------
(* The packs the contract accepts are those the builder accepts.           *)

\* A pack has as many mentions as the batch has edges: an edge is a mention's
\* place among those of the whole pack.
LEMMA MentionsCounted ==
  ASSUME NEW requests, IsSequence(requests),
         \A k \in DOMAIN requests : IsSequence(requests[k].refs)
  PROVE  Cardinality(Mentions(requests)) = EdgeCount(requests)
PROOF
<1>1. PICK n, start, edges, M :
        /\ n = Len(requests) /\ start = EdgeStarts(requests) /\ edges = EdgeCount(requests)
        /\ M = Mentions(requests)
  OBVIOUS
<1>2. /\ n \in Nat /\ DOMAIN requests = 1..n
      /\ \A k \in 1..n : DOMAIN requests[k].refs = 1..Len(requests[k].refs)
                         /\ Len(requests[k].refs) \in Nat
  BY <1>1, SequenceDomain
<1>3. /\ start \in [1..(n + 1) -> Nat \ {0}] /\ start[1] = 1
      /\ \A k \in 1..n : start[k + 1] = start[k] + Len(requests[k].refs)
      /\ \A k \in 1..n : start[k] <= start[k + 1]
      /\ edges \in Nat /\ start[n + 1] = edges + 1
  BY <1>1, EdgeStartsShape
<1>4. \A m : m \in M <=> \E k \in 1..n : \E j \in 1..Len(requests[k].refs) : m = <<k, j>>
  <2>1. M = UNION {{k} \X (1..Len(requests[k].refs)) : k \in 1..n}
    BY <1>1, <1>2 DEF Mentions
  <2>2. ASSUME NEW m, m \in M
        PROVE  \E k \in 1..n : \E j \in 1..Len(requests[k].refs) : m = <<k, j>>
    <3>1. PICK k \in 1..n : m \in {k} \X (1..Len(requests[k].refs))
      BY <2>1, <2>2
    <3> QED BY <3>1
  <2>3. ASSUME NEW k \in 1..n, NEW j \in 1..Len(requests[k].refs)
        PROVE  <<k, j>> \in M
    <3>1. <<k, j>> \in {k} \X (1..Len(requests[k].refs))
      OBVIOUS
    <3> QED BY <2>1, <3>1
  <2> QED BY <2>2, <2>3
<1> DEFINE g == [m \in M |-> start[m[1]] + m[2] - 1]
<1>5. ASSUME NEW k \in 1..n, NEW j \in 1..Len(requests[k].refs)
      PROVE  /\ <<k, j>> \in M /\ g[<<k, j>>] = start[k] + j - 1
             /\ g[<<k, j>>] \in 1..edges /\ start[k] <= g[<<k, j>>] /\ g[<<k, j>>] < start[k + 1]
  <2>1. <<k, j>> \in M
    BY <1>4
  <2>2. g[<<k, j>>] = start[k] + j - 1
    BY <2>1
  <2>3. k \in 1..(n + 1) /\ k + 1 \in 1..(n + 1) /\ n + 1 \in 1..(n + 1) /\ k + 1 <= n + 1
    BY <1>2
  <2>4. start[k + 1] <= start[n + 1]
    <3>1. start \in [1..(n + 1) -> Nat]
      BY <1>3
    <3> QED BY <1>2, <1>3, <2>3, <3>1, StartsGrow
  <2>5. PICK a \in Nat, b \in Nat, len \in Nat :
          a = start[k] /\ b = start[k + 1] /\ len = Len(requests[k].refs) /\ a # 0
    BY <1>2, <1>3, <2>3
  <2>6. b = a + len /\ b <= edges + 1 /\ j \in 1..len
    BY <1>3, <2>4, <2>5
  <2>7. a + j - 1 \in 1..edges /\ a <= a + j - 1 /\ a + j - 1 < b
    <3>1. edges \in Nat /\ a \in Nat /\ b \in Nat /\ len \in Nat /\ a # 0 /\ j \in Nat /\ 1 <= j /\ j <= len
      BY <1>3, <2>5, <2>6
    <3> QED BY <2>6, <3>1
  <2> QED BY <2>1, <2>2, <2>5, <2>7
<1>6. g \in [M -> 1..edges] /\ DOMAIN g = M
  <2>1. ASSUME NEW m \in M PROVE g[m] \in 1..edges
    <3>1. PICK k \in 1..n : \E j \in 1..Len(requests[k].refs) : m = <<k, j>>
      BY <1>4
    <3>2. PICK j \in 1..Len(requests[k].refs) : m = <<k, j>>
      BY <3>1
    <3> QED BY <1>5, <3>2
  <2> QED BY <2>1
<1> HIDE DEF g
<1>7. ASSUME NEW a \in M, NEW b \in M, g[a] = g[b] PROVE a = b
  <2>1. PICK k \in 1..n : \E j \in 1..Len(requests[k].refs) : a = <<k, j>>
    BY <1>4
  <2>2. PICK j \in 1..Len(requests[k].refs) : a = <<k, j>>
    BY <2>1
  <2>3. PICK l \in 1..n : \E i \in 1..Len(requests[l].refs) : b = <<l, i>>
    BY <1>4
  <2>4. PICK i \in 1..Len(requests[l].refs) : b = <<l, i>>
    BY <2>3
  <2>5. PICK e : e = g[a]
    OBVIOUS
  <2>6. /\ e \in 1..edges /\ e = start[k] + j - 1 /\ start[k] <= e /\ e < start[k + 1]
        /\ e = start[l] + i - 1 /\ start[l] <= e /\ e < start[l + 1]
    BY <1>5, <1>7, <2>2, <2>4, <2>5
  <2>7. k = l
    <3>1. start \in [1..(n + 1) -> Nat] /\ e \in 1..(start[n + 1] - 1)
      BY <1>3, <2>6
    <3> QED BY <1>2, <1>3, <2>6, <3>1, EdgeOwner
  <2>8. i = j
    <3>1. start[k] \in Nat /\ i \in Nat /\ j \in Nat
      <4>1. k \in 1..(n + 1)
        BY <1>2
      <4> QED BY <1>2, <1>3, <4>1
    <3> QED BY <2>6, <2>7, <3>1
  <2> QED BY <2>2, <2>4, <2>7, <2>8
<1>8. ASSUME NEW e \in 1..edges PROVE \E m \in M : g[m] = e
  <2>1. start \in [1..(n + 1) -> Nat] /\ e \in 1..(start[n + 1] - 1)
    BY <1>3
  <2>2. PICK k \in 1..n : start[k] <= e /\ e < start[k + 1]
    BY <1>2, <1>3, <2>1, EdgeOwner
  <2>3. k \in 1..(n + 1)
    BY <1>2
  <2>4. PICK a \in Nat, len \in Nat : a = start[k] /\ len = Len(requests[k].refs)
    BY <1>2, <1>3, <2>3
  <2>5. start[k + 1] = a + len
    BY <1>3, <2>4
  <2>6. e - a + 1 \in 1..len /\ a + (e - a + 1) - 1 = e
    BY SMTT(40), <2>2, <2>4, <2>5
  <2>7. g[<<k, e - a + 1>>] = e /\ <<k, e - a + 1>> \in M
    BY <1>5, <2>4, <2>6
  <2> QED BY <2>7
<1>9. ExistsBijection(M, 1..edges)
  <2>1. g \in Bijection(M, 1..edges)
    BY <1>6, <1>7, <1>8 DEF Bijection, Injection, Surjection, IsInjective
  <2> QED BY <2>1 DEF ExistsBijection
<1>10. ExistsBijection(1..edges, M)
  BY <1>9, Fun_ExistsBijSymmetric
<1> QED BY <1>1, <1>3, <1>10, FS_CountingElements

\* The contract and the builder accept the same packs, whatever the builder's
\* maps held before.
LEMMA AcceptableIsBuildable ==
  ASSUME NEW p \in Packs, NEW maps
  PROVE  Acceptable(p) <=> Buildable(maps, p.requests, p.evidence)
PROOF
<1>1. PICK requests, evidence : requests = p.requests /\ evidence = p.evidence
  OBVIOUS
<1>2. /\ IsSequence(requests) /\ IsSequence(evidence)
      /\ \A k \in DOMAIN requests : IsSequence(requests[k].refs)
  BY <1>1, PackAssumption DEF IsPack, IsRequest
<1>3. Cardinality(Mentions(requests)) = EdgeCount(requests)
  BY <1>2, MentionsCounted
<1>4. (Unique(requests) <=> DistinctIds(requests)) /\ (Unique(evidence) <=> DistinctIds(evidence))
  BY DEF Unique, DistinctIds
<1>5. IdsOf(requests) \cup IdsOf(evidence) \subseteq Ids
        <=> /\ \A k \in DOMAIN requests : requests[k].id \in Ids
            /\ \A k \in DOMAIN evidence : evidence[k].id \in Ids
  BY DEF IdsOf
<1>6. (\A m \in Mentions(requests) : requests[m[1]].refs[m[2]] \in Ids)
        <=> \A k \in DOMAIN requests : \A j \in DOMAIN requests[k].refs : requests[k].refs[j] \in Ids
  <2>1. ASSUME NEW k \in DOMAIN requests, NEW j \in DOMAIN requests[k].refs
        PROVE  <<k, j>> \in Mentions(requests)
    <3>1. <<k, j>> \in {k} \X DOMAIN requests[k].refs
      OBVIOUS
    <3> QED BY <3>1 DEF Mentions
  <2>2. ASSUME NEW m \in Mentions(requests)
        PROVE  m[1] \in DOMAIN requests /\ m[2] \in DOMAIN requests[m[1]].refs
    <3>1. PICK k \in DOMAIN requests : m \in {k} \X DOMAIN requests[k].refs
      BY DEF Mentions
    <3> QED BY <3>1
  <2>3. ASSUME NEW k \in DOMAIN requests, NEW j \in DOMAIN requests[k].refs,
               \A m \in Mentions(requests) : requests[m[1]].refs[m[2]] \in Ids
        PROVE  requests[k].refs[j] \in Ids
    <3>1. PICK m : m = <<k, j>>
      OBVIOUS
    <3>2. m \in Mentions(requests) /\ m[1] = k /\ m[2] = j
      BY <2>1, <3>1
    <3> QED BY <2>3, <3>2
  <2> QED BY <2>2, <2>3
<1>7. Buildable(maps, requests, evidence)
        <=> /\ Len(requests) <= MaxRows /\ Len(evidence) <= MaxEvidence
            /\ EdgeCount(requests) <= MaxEdges
            /\ \A k \in DOMAIN requests : requests[k].id \in Ids
            /\ \A k \in DOMAIN requests : \A j \in DOMAIN requests[k].refs : requests[k].refs[j] \in Ids
            /\ \A k \in DOMAIN evidence : evidence[k].id \in Ids
            /\ DistinctIds(requests) /\ DistinctIds(evidence)
  BY <1>2, BuildableMeans DEF Fits
<1> QED BY <1>1, <1>3, <1>4, <1>5, <1>6, <1>7 DEF Acceptable

-----------------------------------------------------------------------------
(* The refinement.                                                         *)

\* What makes the answers right, on top of the types, the planes, the
\* decisions and the storage.
ContractInv ==
  /\ PlanesMean /\ RowSettles /\ DriversSettle /\ UsesColumn /\ Answered

\* The invariant holds of a session that was never called.
LEMMA InitContractInv == Init => ContractInv
PROOF
<1> SUFFICES ASSUME Init PROVE ContractInv
  OBVIOUS
<1>1. PlanesMean /\ Answered
  BY DEF Init, PlanesMean, HasRun, ResolvingPcs, Answered, Returned
<1> QED BY <1>1, InitSettles, InitUsesColumn DEF ContractInv

\* The invariant is inductive on top of those four.
LEMMA NextContractInv ==
  TypeOK /\ PlanesInv /\ DecisionInv /\ StorageInv /\ ContractInv /\ [Next]_vars => ContractInv'
PROOF
<1> SUFFICES ASSUME TypeOK, PlanesInv, DecisionInv, StorageInv, ContractInv, [Next]_vars
             PROVE  ContractInv'
  OBVIOUS
<1>1. Ground
  BY DEF Ground, StorageInv, ContractInv
<1> QED BY <1>1, NextPlanesMean, NextSettles, NextUsesColumn, NextAnswered
        DEF StorageInv, ContractInv

\* The invariant holds whatever packs are submitted in whatever order.
LEMMA ContractKept == Spec => []ContractInv
BY TypeCorrect, PlanesCorrect, DecisionsCorrect, StorageCorrect, InitContractInv, NextContractInv, PTL
DEF Spec

\* A session that was never called has nothing pending and nothing to read.
LEMMA InitContract == Init => Contract!Init
BY DEF Init, Contract!Init, Contract!NoPack, Contract!Reply, Asked, Replied

\* Every step of the session is one of the contract or invisible to it.
LEMMA NextContract ==
  ASSUME TypeOK, StorageInv, StorageInv', ContractInv', [Next]_vars
  PROVE  [Contract!Next]_<<Asked, Replied>>
PROOF
<1>1. CASE Submit
  <2>1. PICK p \in Packs : RejectInput(p) \/ BuildInto(p)
    BY <1>1 DEF Submit
  <2>2. CASE RejectInput(p)
    <3>1. ~Acceptable(p)
      BY <2>2, AcceptableIsBuildable DEF RejectInput
    <3>2. /\ Asked = Contract!NoPack /\ Asked' = Asked
          /\ Replied' = Contract!Refusal(p)
      BY <2>2 DEF RejectInput, Asked, Replied, Contract!NoPack, Contract!Refusal
    <3> QED BY <3>1, <3>2 DEF Contract!Refuse, Contract!Next
  <2>3. CASE BuildInto(p)
    <3>1. Acceptable(p)
      BY <2>3, AcceptableIsBuildable DEF BuildInto
    <3>2. /\ Asked = Contract!NoPack /\ Asked' = Contract!Pending(p)
          /\ Replied' = Contract!Reply("none", <<>>)
      BY <2>3 DEF BuildInto, Asked, Replied, Contract!NoPack, Contract!Pending, Contract!Reply
    <3> QED BY <3>1, <3>2 DEF Contract!Ask, Contract!Next
  <2> QED BY <2>1, <2>2, <2>3
<1>2. CASE Return
  <2>1. /\ pc = "materialize" /\ pc' = "idle" /\ status' = "ok" /\ UNCHANGED <<pack, output>>
    BY <1>2 DEF Return
  <2>2. PICK requests, evidence, out : requests = pack.requests /\ evidence = pack.evidence /\ out = output
    OBVIOUS
  <2>3. DOMAIN out = DOMAIN requests
    BY <2>1, <2>2 DEF StorageInv, OutputEarned
  <2>4. \A r \in DOMAIN requests : Promised(out[r]) = Decide(requests[r], evidence)
    BY <2>1, <2>2 DEF ContractInv, Answered, Returned
  <2>5. [r \in DOMAIN out |-> Promised(out[r])] = [r \in DOMAIN requests |-> Decide(requests[r], evidence)]
    BY <2>3, <2>4
  <2>6. Replied' = [status |-> "ok", refused |-> <<>>, results |-> [r \in DOMAIN out |-> Promised(out[r])]]
    BY <2>1, <2>2 DEF Replied
  <2>7. /\ Asked = [requests |-> requests, evidence |-> evidence, pending |-> TRUE]
        /\ Asked' = [requests |-> <<>>, evidence |-> <<>>, pending |-> FALSE]
    BY <2>1, <2>2 DEF Asked
  <2>8. Asked # Contract!NoPack
    <3>1. Asked.pending # Contract!NoPack.pending
      BY <2>7 DEF Contract!NoPack
    <3> QED BY <3>1
  <2>9. Asked.requests = requests /\ Asked.evidence = evidence /\ Asked' = Contract!NoPack
    BY <2>7 DEF Contract!NoPack
  <2> QED BY <2>5, <2>6, <2>8, <2>9 DEF Contract!Answer, Contract!Reply, Contract!Next
<1>3. CASE \/ EnsureCapacity \/ CheckShapes \/ ExecuteField \/ ExecuteEvidence \/ ExecuteAll
           \/ ResetResults \/ ResolveRow \/ BeginMaterialize \/ MaterializeRow
  <2>1. status' # "internal_error"
    BY DEF StorageInv, EvaluateNeverFails
  <2>2. pc # "idle" /\ pc' # "idle" /\ UNCHANGED <<pack, status>>
    BY <1>3, <2>1
    DEF EnsureCapacity, CheckShapes, Fail, ExecuteField, ExecuteEvidence, ExecuteAll, Executing,
        Executed, ResetResults, ResolveRow, ResolveSemantics, ResolveEdge, BeginRequirements,
        SelectRequirement, ResolveClause, NextRequirement, FinishRequirements, ResolveEvidence,
        FinishRow, BeginMaterialize, MaterializeRow
  <2> QED BY <2>2 DEF Asked, Replied
<1>4. CASE UNCHANGED vars
  BY <1>4 DEF vars, Asked, Replied
<1> QED BY <1>1, <1>2, <1>3, <1>4 DEF Next, Evaluate

\* Whatever packs a caller submits in whatever order, a session refuses a pack
\* exactly when the contract does and otherwise returns, row by row, what
\* Decide says of that pack alone: the columnar, storage-reusing evaluator of
\* internal/eval and the materializer of internal/adapters/jsonio implement the
\* policy's meaning.
THEOREM SessionImplements == Spec => Implements
PROOF
<1>1. TypeOK /\ StorageInv /\ StorageInv' /\ ContractInv' /\ [Next]_vars
        => [Contract!Next]_<<Asked, Replied>>
  BY NextContract
<1> QED BY <1>1, InitContract, TypeCorrect, StorageCorrect, ContractKept, PTL
        DEF Spec, Implements, Contract!Spec

=============================================================================
