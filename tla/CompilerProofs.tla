--------------------------- MODULE CompilerProofs ----------------------------
(***************************************************************************)
(* Theorems about the compiler (internal/compile), which says of a policy  *)
(* what the engine evaluates.                                              *)
(*                                                                         *)
(* The first part is about the operators on programs: interning, the       *)
(* catalogues, ranges of columns, and what an instruction, a clause or a   *)
(* remediation appended to a program adds to it and leaves alone.  The     *)
(* second is about the trees of a policy and the frames that walk them.    *)
(* The third joins the two in the inductive invariant CompilerInv, and     *)
(* derives each property of module Compiler from it.                       *)
(***************************************************************************)
EXTENDS Compiler, SequenceTheorems, FiniteSetTheorems, WellFoundedInduction, TLAPS

-----------------------------------------------------------------------------
(* Numbers, sequences and slices.                                          *)

\* A set of naturals that is not empty has a least element.
LEMMA LeastExists ==
  ASSUME NEW S \in SUBSET Nat, S # {}
  PROVE  \E x \in S : \A y \in S : x <= y
PROOF
<1>1. IsWellFoundedOn(OpToRel(<, Nat), Nat)
  BY NatLessThanWellFounded
<1>2. PICK x \in S : \A y \in S : ~(<<y, x>> \in OpToRel(<, Nat))
  BY <1>1, WFMin, Zenon
<1>3. OpToRel(<, Nat) = {ss \in Nat \X Nat : ss[1] < ss[2]}
  BY DEF OpToRel
<1>4. ASSUME NEW y \in S PROVE x <= y
  <2>1. ~(y < x) BY <1>2, <1>3
  <2> QED BY <2>1
<1> QED BY <1>4

\* Induction over the numbers up to m, for a property given as the set of
\* the numbers that have it.
LEMMA Upward ==
  ASSUME NEW m \in Nat, NEW T, 0 \in T, \A k \in 1..m : k - 1 \in T => k \in T
  PROVE  \A k \in 0..m : k \in T
PROOF
<1> DEFINE Bad == {k \in 0..m : k \notin T}
<1> SUFFICES ASSUME Bad # {} PROVE FALSE
  OBVIOUS
<1>1. PICK k \in Bad : \A j \in Bad : k <= j
  <2>1. Bad \in SUBSET Nat OBVIOUS
  <2> QED BY <2>1, LeastExists
<1>2. k \in 0..m /\ k \notin T /\ k # 0 BY <1>1
<1>3. k - 1 \in 0..m /\ k \in 1..m BY <1>2
<1>4. k - 1 \notin Bad BY <1>1, <1>3
<1> QED BY <1>2, <1>3, <1>4

\* A function that starts with base and goes on by steps exists, so a
\* definition by recursion has the value it describes.
Runs(g, m, S, base, step) ==
  /\ g \in [0..m -> S] /\ g[0] = base
  /\ \A k \in 1..m : g[k] = step[<<k, g[k - 1]>>]

\* A recursion over 0..m that adds to a sequence one step at a time has a value at each.
LEMMA StepsExist ==
  ASSUME NEW m \in Nat, NEW S, NEW base \in S, NEW step \in [(1..m) \X S -> S]
  PROVE  \E g : Runs(g, m, S, base, step)
PROOF
<1> DEFINE Follows(g, n) ==
      g[0] = base /\ \A k \in 1..n : g[k] = step[<<k, g[k - 1]>>]
<1> DEFINE T == {n \in 0..m : \E g \in [0..n -> S] : Follows(g, n)}
<1>1. 0 \in T
  <2> DEFINE g == [k \in 0..0 |-> base]
  <2>1. g \in [0..0 -> S] OBVIOUS
  <2>2. Follows(g, 0) OBVIOUS
  <2>3. 0 \in 0..m OBVIOUS
  <2> HIDE DEF g, Follows
  <2> QED BY <2>1, <2>2, <2>3
<1>2. ASSUME NEW n \in 1..m, n - 1 \in T PROVE n \in T
  <2>1. n - 1 \in Nat /\ n \in Nat /\ n \in 0..m OBVIOUS
  <2>2. PICK g \in [0..(n - 1) -> S] : Follows(g, n - 1) BY <1>2
  <2> DEFINE h == [k \in 0..n |-> IF k = n THEN step[<<n, g[n - 1]>>] ELSE g[k]]
  <2>3. g[n - 1] \in S /\ <<n, g[n - 1]>> \in (1..m) \X S BY <2>1
  <2>4. step[<<n, g[n - 1]>>] \in S BY <2>3
  <2>5. \A k \in 0..n : k # n => k \in 0..(n - 1) BY <2>1
  <2>6. h \in [0..n -> S] BY <2>4, <2>5
  <2>7. \A k \in 0..(n - 1) : h[k] = g[k] BY <2>1
  <2>8. h[0] = base BY <2>1, <2>2, <2>7
  <2>9. ASSUME NEW k \in 1..n PROVE h[k] = step[<<k, h[k - 1]>>]
    <3>1. k - 1 \in 0..(n - 1) /\ k \in 0..n BY <2>1
    <3>2. CASE k = n BY <2>7, <3>1, <3>2
    <3>3. CASE k # n
      <4>1. k \in 1..(n - 1) /\ k \in 0..(n - 1) BY <2>1, <3>3
      <4> QED BY <2>2, <2>7, <3>1, <4>1
    <3> QED BY <3>2, <3>3
  <2> QED BY <2>1, <2>6, <2>8, <2>9
<1>3. m \in T
  <2> HIDE DEF T
  <2>1. m \in 0..m OBVIOUS
  <2> QED BY <1>1, <1>2, <2>1, Upward
<1> QED BY <1>3 DEF Runs

\* An injective sequence into 1..n is no longer than n, and neither is one
\* whose every number up to its length is hit.
LEMMA Pigeonhole ==
  ASSUME NEW n \in Nat, NEW m \in Nat, NEW f \in [1..m -> 1..n], IsInjective(f)
  PROVE  m <= n
PROOF
<1>1. f \in Injection(1..m, 1..n) BY DEF Injection
<1>2. IsFiniteSet(1..n) /\ Cardinality(1..n) = n /\ Cardinality(1..m) = m BY FS_Interval
<1>3. Cardinality(1..m) <= Cardinality(1..n) BY <1>1, <1>2, FS_Injection
<1> QED BY <1>2, <1>3

\* t goes on where s ends.
Prefix(s, t) == Len(s) <= Len(t) /\ \A k \in 1..Len(s) : t[k] = s[k]

\* What is at an index of a prefix is there in the whole.
LEMMA Within ==
  ASSUME NEW a \in Nat, NEW b \in Nat, a <= b, NEW x \in 1..a
  PROVE  x \in 1..b
OBVIOUS

LEMMA SeqShape ==
  ASSUME NEW S, NEW s \in Seq(S)
  PROVE  /\ Len(s) \in Nat /\ DOMAIN s = 1..Len(s) /\ s \in [1..Len(s) -> S]
         /\ \A k \in 1..Len(s) : s[k] \in S
         /\ Prefix(s, s)
BY LenProperties DEF Prefix

LEMMA PrefixTrans ==
  ASSUME NEW s, NEW t, NEW u, Len(s) \in Nat, Len(t) \in Nat, Len(u) \in Nat,
         Prefix(s, t), Prefix(t, u)
  PROVE  Prefix(s, u)
PROOF
<1>1. ASSUME NEW k \in 1..Len(s) PROVE k \in 1..Len(t) BY DEF Prefix
<1>2. \A k \in 1..Len(s) : u[k] = s[k] BY <1>1 DEF Prefix
<1>3. Len(s) <= Len(u) BY DEF Prefix
<1> QED BY <1>2, <1>3 DEF Prefix

LEMMA RangeIs ==
  ASSUME NEW S, NEW s \in Seq(S)
  PROVE  Range(s) = {s[k] : k \in 1..Len(s)} /\ Range(s) \subseteq S
BY SeqShape DEF Range

LEMMA PrefixRange ==
  ASSUME NEW S, NEW s \in Seq(S), NEW t \in Seq(S), Prefix(s, t)
  PROVE  Range(s) \subseteq Range(t)
PROOF
<1>1. Len(s) \in Nat /\ Len(t) \in Nat BY LenProperties
<1>2. ASSUME NEW k \in 1..Len(s) PROVE k \in 1..Len(t) /\ t[k] = s[k] BY <1>1 DEF Prefix
<1> QED BY <1>2, RangeIs

LEMMA AppendIs ==
  ASSUME NEW S, NEW s \in Seq(S), NEW x \in S
  PROVE  /\ Append(s, x) \in Seq(S) /\ Len(Append(s, x)) = Len(s) + 1 /\ Len(s) \in Nat
         /\ \A k \in 1..Len(s) : Append(s, x)[k] = s[k]
         /\ Append(s, x)[Len(s) + 1] = x
         /\ Prefix(s, Append(s, x))
         /\ Range(Append(s, x)) = Range(s) \cup {x}
PROOF
<1>1. /\ Append(s, x) \in Seq(S) /\ Len(Append(s, x)) = Len(s) + 1 /\ Len(s) \in Nat
      /\ \A k \in 1..Len(s) : Append(s, x)[k] = s[k]
      /\ Append(s, x)[Len(s) + 1] = x
  BY AppendProperties, LenProperties
<1>2. Prefix(s, Append(s, x)) BY <1>1 DEF Prefix
<1> DEFINE t == Append(s, x)
<1>3. Range(t) = {t[k] : k \in 1..Len(t)} BY <1>1, RangeIs
<1>4. Range(s) = {s[k] : k \in 1..Len(s)} BY RangeIs
<1> HIDE DEF t
<1>5. Range(t) = Range(s) \cup {x}
  <2>1. \A k \in 1..(Len(s) + 1) : k \in 1..Len(s) \/ k = Len(s) + 1 BY <1>1
  <2>2. \A k \in 1..Len(s) : k \in 1..(Len(s) + 1) BY <1>1
  <2>3. Len(s) + 1 \in 1..(Len(s) + 1) BY <1>1
  <2> QED BY <1>1, <1>3, <1>4, <2>1, <2>2, <2>3 DEF t
<1> QED BY <1>1, <1>2, <1>5 DEF t

LEMMA ConcatIs ==
  ASSUME NEW S, NEW s \in Seq(S), NEW t \in Seq(S)
  PROVE  /\ s \o t \in Seq(S) /\ Len(s \o t) = Len(s) + Len(t)
         /\ Len(s) \in Nat /\ Len(t) \in Nat
         /\ \A k \in 1..Len(s) : (s \o t)[k] = s[k]
         /\ \A k \in 1..Len(t) : (s \o t)[Len(s) + k] = t[k]
         /\ Prefix(s, s \o t)
         /\ Range(s \o t) = Range(s) \cup Range(t)
PROOF
<1>1. /\ s \o t \in Seq(S) /\ Len(s \o t) = Len(s) + Len(t)
      /\ Len(s) \in Nat /\ Len(t) \in Nat
      /\ \A k \in 1..(Len(s) + Len(t)) :
           (s \o t)[k] = IF k <= Len(s) THEN s[k] ELSE t[k - Len(s)]
  BY ConcatProperties, LenProperties
<1> DEFINE u == s \o t
<1> HIDE DEF u
<1>2. \A k \in 1..Len(s) : k \in 1..Len(u) /\ u[k] = s[k]
  BY <1>1 DEF u
<1>3. \A k \in 1..Len(t) : Len(s) + k \in 1..Len(u) /\ u[Len(s) + k] = t[k]
  <2> TAKE k \in 1..Len(t)
  <2>1. Len(s) + k \in 1..(Len(s) + Len(t)) /\ ~(Len(s) + k <= Len(s)) /\ Len(s) + k - Len(s) = k
    BY <1>1
  <2>2. u[Len(s) + k] = t[Len(s) + k - Len(s)] BY <1>1, <2>1 DEF u
  <2> QED BY <1>1, <2>1, <2>2 DEF u
<1>4. Prefix(s, u) BY <1>1, <1>2 DEF Prefix, u
<1>5. Range(u) = {u[k] : k \in 1..Len(u)} BY <1>1, RangeIs DEF u
<1>6. Range(s) = {s[k] : k \in 1..Len(s)} /\ Range(t) = {t[k] : k \in 1..Len(t)} BY RangeIs
<1>7. \A k \in 1..Len(u) : k \in 1..Len(s) \/ \E j \in 1..Len(t) : k = Len(s) + j
  <2> TAKE k \in 1..Len(u)
  <2>1. CASE k <= Len(s) BY <1>1, <2>1 DEF u
  <2>2. CASE ~(k <= Len(s))
    <3>1. k - Len(s) \in 1..Len(t) /\ k = Len(s) + (k - Len(s)) BY <1>1, <2>2 DEF u
    <3> QED BY <3>1
  <2> QED BY <2>1, <2>2
<1>8. Range(u) = Range(s) \cup Range(t)
  <2>1. ASSUME NEW x \in Range(u) PROVE x \in Range(s) \cup Range(t)
    <3>1. PICK k \in 1..Len(u) : x = u[k] BY <1>5
    <3> QED BY <1>2, <1>3, <1>6, <1>7, <3>1
  <2>2. ASSUME NEW x \in Range(s) PROVE x \in Range(u) BY <1>2, <1>5, <1>6
  <2>3. ASSUME NEW x \in Range(t) PROVE x \in Range(u)
    <3>1. PICK k \in 1..Len(t) : x = t[k] BY <1>6
    <3>2. Len(s) + k \in 1..Len(u) /\ u[Len(s) + k] = x BY <1>3, <3>1
    <3> QED BY <1>5, <3>2
  <2> QED BY <2>1, <2>2, <2>3
<1> QED BY <1>1, <1>2, <1>3, <1>4, <1>8 DEF u

\* A range within a column: what Slice returns.
LEMMA SliceIs ==
  ASSUME NEW S, NEW s \in Seq(S), NEW a \in Nat, NEW n \in Nat, a + n <= Len(s)
  PROVE  /\ Slice(s, a, n) \in Seq(S) /\ Len(Slice(s, a, n)) = n
         /\ DOMAIN Slice(s, a, n) = 1..n
         /\ Slice(s, a, n) = [k \in 1..n |-> s[a + k]]
         /\ \A k \in 1..n : a + k \in 1..Len(s)
PROOF
<1> DEFINE part == SubSeq(s, a + 1, a + n)
<1>0. Len(s) \in Nat BY LenProperties
<1>1. \A i \in (a + 1)..(a + n) : s[i] \in S
  <2> TAKE i \in (a + 1)..(a + n)
  <2>1. i \in 1..Len(s) BY <1>0
  <2> QED BY <2>1, SeqShape
<1>2. /\ part \in Seq(S) /\ Len(part) = IF a + 1 <= a + n THEN a + n - (a + 1) + 1 ELSE 0
      /\ \A i \in 1..(a + n - (a + 1) + 1) : part[i] = s[(a + 1) + i - 1]
  BY SMTT(30), <1>1, SubSeqProperties
<1>3. Len(part) = n /\ a + n - (a + 1) + 1 = n BY <1>2
<1>4. \A i \in 1..n : (a + 1) + i - 1 = a + i OBVIOUS
<1>5. DOMAIN part = 1..n BY <1>2, <1>3, LenProperties
<1>6. \A i \in 1..n : part[i] = s[a + i] BY <1>2, <1>3, <1>4
<1>7. part = [i \in 1..n |-> s[a + i]]
  <2>1. part \in [1..n -> S] BY <1>2, <1>3, LenProperties
  <2> HIDE DEF part
  <2> QED BY <1>6, <2>1
<1> HIDE DEF part
<1>8. Slice(s, a, n) = part BY DEF part, Slice
<1>9. \A k \in 1..n : a + k \in 1..Len(s) BY <1>0
<1> QED BY <1>2, <1>3, <1>5, <1>7, <1>8, <1>9

\* A range stays what it is while the column grows.
LEMMA SliceKept ==
  ASSUME NEW S, NEW s \in Seq(S), NEW t \in Seq(S), Prefix(s, t),
         NEW a \in Nat, NEW n \in Nat, a + n <= Len(s)
  PROVE  a + n <= Len(t) /\ Slice(t, a, n) = Slice(s, a, n)
PROOF
<1>1. Len(s) \in Nat /\ Len(t) \in Nat BY LenProperties
<1>2. a + n <= Len(t) BY <1>1 DEF Prefix
<1>3. Slice(s, a, n) = [k \in 1..n |-> s[a + k]] BY SliceIs
<1>4. Slice(t, a, n) = [k \in 1..n |-> t[a + k]] BY <1>2, SliceIs
<1>5. \A k \in 1..n : t[a + k] = s[a + k]
  <2> TAKE k \in 1..n
  <2>1. a + k \in 1..Len(s) BY <1>1
  <2> QED BY <2>1 DEF Prefix
<1> QED BY <1>2, <1>3, <1>4, <1>5

\* The slice that was appended.
LEMMA SliceOfTail ==
  ASSUME NEW S, NEW s \in Seq(S), NEW t \in Seq(S)
  PROVE  Slice(s \o t, Len(s), Len(t)) = t
PROOF
<1> DEFINE u == s \o t
<1>1. /\ u \in Seq(S) /\ Len(u) = Len(s) + Len(t) /\ Len(s) \in Nat /\ Len(t) \in Nat
      /\ \A k \in 1..Len(t) : u[Len(s) + k] = t[k]
  BY ConcatIs
<1> HIDE DEF u
<1>2. Slice(u, Len(s), Len(t)) = [k \in 1..Len(t) |-> u[Len(s) + k]]
  <2> DEFINE a == Len(s)
             n == Len(t)
  <2>1. a \in Nat /\ n \in Nat /\ u \in Seq(S) /\ a + n <= Len(u) BY <1>1
  <2> HIDE DEF a, n
  <2>2. Slice(u, a, n) = [k \in 1..n |-> u[a + k]] BY <2>1, SliceIs
  <2> QED BY <2>2 DEF a, n
<1>3. t \in [1..Len(t) -> S] BY SeqShape
<1>4. t = [k \in 1..Len(t) |-> u[Len(s) + k]] BY <1>1, <1>3
<1> QED BY <1>2, <1>4 DEF u

\* The interner's and the catalogues' look-up.
LEMMA IndexIs ==
  ASSUME NEW S, NEW s \in Seq(S), NEW x
  PROVE  /\ Index(s, x) \in 0..Len(s) /\ Len(s) \in Nat
         /\ x \in Range(s) => Index(s, x) \in 1..Len(s) /\ s[Index(s, x)] = x
         /\ x \notin Range(s) => Index(s, x) = 0
PROOF
<1> DEFINE I == {i \in 1..Len(s) : s[i] = x}
<1>1. Index(s, x) = IF I # {} THEN Min(I) ELSE 0
  BY DEF Index, SelectInSeq
<1>2. Len(s) \in Nat /\ Range(s) = {s[k] : k \in 1..Len(s)} BY LenProperties, RangeIs
<1>3. I \in SUBSET Nat OBVIOUS
<1>4. I # {} => Min(I) \in I
  <2>1. I # {} => \E i \in I : \A j \in I : i <= j BY <1>3, LeastExists
  <2> QED BY <2>1 DEF Min
<1>5. x \in Range(s) <=> I # {} BY <1>2
<1>6. \A i \in I : i \in 1..Len(s) /\ s[i] = x OBVIOUS
<1> HIDE DEF I
<1> QED BY <1>1, <1>2, <1>4, <1>5, <1>6

\* In a sequence without repetition an entry is found where it is.
LEMMA IndexAt ==
  ASSUME NEW S, NEW s \in Seq(S), IsInjective(s), NEW k \in 1..Len(s)
  PROVE  Index(s, s[k]) = k
PROOF
<1>1. s[k] \in Range(s) BY RangeIs
<1>2. Index(s, s[k]) \in 1..Len(s) /\ s[Index(s, s[k])] = s[k] BY <1>1, IndexIs
<1>3. DOMAIN s = 1..Len(s) BY SeqShape
<1> QED BY <1>2, <1>3 DEF IsInjective

\* Where it is does not change while the sequence grows.
LEMMA IndexKept ==
  ASSUME NEW S, NEW s \in Seq(S), NEW t \in Seq(S), Prefix(s, t), IsInjective(t),
         NEW x \in Range(s)
  PROVE  Index(t, x) = Index(s, x)
PROOF
<1>1. Index(s, x) \in 1..Len(s) /\ s[Index(s, x)] = x /\ Len(s) \in Nat BY IndexIs
<1>2. Len(t) \in Nat BY LenProperties
<1>3. Index(s, x) \in 1..Len(t) /\ t[Index(s, x)] = x BY <1>1, <1>2 DEF Prefix
<1> QED BY <1>3, IndexAt

\* An entry that is new leaves it without repetition.
LEMMA AppendNew ==
  ASSUME NEW S, NEW s \in Seq(S), IsInjective(s), NEW x \in S, x \notin Range(s)
  PROVE  IsInjective(Append(s, x))
PROOF
<1> DEFINE t == Append(s, x)
<1>1. /\ t \in Seq(S) /\ Len(t) = Len(s) + 1 /\ Len(s) \in Nat
      /\ \A k \in 1..Len(s) : t[k] = s[k]
      /\ t[Len(s) + 1] = x
  BY AppendIs
<1> HIDE DEF t
<1>2. DOMAIN t = 1..(Len(s) + 1) /\ DOMAIN s = 1..Len(s) BY <1>1, SeqShape
<1>3. \A k \in 1..(Len(s) + 1) : k \in 1..Len(s) \/ k = Len(s) + 1 BY <1>1
<1>4. \A k \in 1..Len(s) : s[k] # x BY RangeIs
<1>5. ASSUME NEW a \in DOMAIN t, NEW b \in DOMAIN t, t[a] = t[b] PROVE a = b
  BY <1>1, <1>2, <1>3, <1>4, <1>5 DEF IsInjective
<1> QED BY <1>5 DEF IsInjective, t

\* A function over 1..n is a sequence of length n.
LEMMA FunctionIsSeq ==
  ASSUME NEW S, NEW n \in Nat, NEW f \in [1..n -> S]
  PROVE  f \in Seq(S) /\ Len(f) = n
PROOF
<1>1. f \in Seq(S)
  <2>1. Seq(S) = UNION {[1..k -> S] : k \in Nat} BY SeqDef
  <2> QED BY <2>1
<1>2. Len(f) \in Nat /\ DOMAIN f = 1..Len(f) /\ DOMAIN f = 1..n BY <1>1, LenProperties
<1>3. Len(f) = n
  <2>1. CASE n > 0
    <3>1. n \in 1..Len(f) /\ (Len(f) \in 1..n \/ Len(f) = 0) BY <1>2, <2>1
    <3> QED BY <1>2, <3>1
  <2>2. CASE n = 0
    <3>1. ~(1 \in 1..n) BY <2>2
    <3>2. ~(1 \in 1..Len(f)) BY <1>2, <3>1
    <3> QED BY <1>2, <2>2, <3>2
  <2> QED BY <2>1, <2>2
<1> QED BY <1>1, <1>3

-----------------------------------------------------------------------------
(* Programs.                                                               *)

\* The types of the rows and columns of program.Program.
Codes == [op : STRING, field : 0..Len(FieldNames), value : Nat, operandStart : Nat,
          operandCount : Nat, setStart : Nat, setCount : Nat, spec : Nat]
Specs == [kind : Nat, wants : [Range(QualifierNames) -> Nat]]
Asks  == [symbol : Nat, root : Nat, clauseStart : Nat, clauseCount : Nat]
Rules == [symbol : Nat, root : Nat, kindStart : Nat, kindCount : Nat,
          outcomes : [Reasons -> Nat], explanations : [Reasons -> Nat],
          remediationStart : Nat, remediationCount : Nat]
Cures == [action : STRING, description : Nat, kind : Nat, field : 0..Len(FieldNames), value : Nat]

Programs ==
  [symbols : Seq(Texts), code : Seq(Codes), operands : Seq(Nat), setValues : Seq(Nat),
   specs : Seq(Specs), kinds : Seq(Nat), requirements : Seq(Asks), clauseIDs : Seq(Nat),
   clauses : Seq(Rules), clauseKinds : Seq(Nat), clauseRemediations : Seq(Nat),
   remediations : Seq(Cures), explanations : Seq(Nat)]

\* Every column of q goes on where p's ends.
ColumnNames ==
  {"symbols", "code", "operands", "setValues", "specs", "kinds", "requirements", "clauseIDs",
   "clauses", "clauseKinds", "clauseRemediations", "remediations", "explanations"}
Grown(p, q) == \A c \in ColumnNames : Prefix(p[c], q[c])

\* The columns that hold an entry once each, and the others.
SameRows(p, q) ==
  /\ q.specs = p.specs /\ q.setValues = p.setValues /\ q.operands = p.operands
  /\ q.code = p.code /\ q.requirements = p.requirements /\ q.clauseIDs = p.clauseIDs
  /\ q.clauses = p.clauses /\ q.clauseKinds = p.clauseKinds
  /\ q.clauseRemediations = p.clauseRemediations /\ q.remediations = p.remediations

\* The catalogues hold an entry once, and name symbols.
Catalogued(p) ==
  /\ IsInjective(p.symbols) /\ NoSymbol \notin Range(p.symbols)
  /\ IsInjective(p.kinds) /\ IsInjective(p.explanations)
  /\ \A k \in 1..Len(p.kinds) :
       p.kinds[k] \in 1..Len(p.symbols) /\ p.symbols[p.kinds[k]] \in EvidenceKinds
  /\ \A k \in 1..Len(p.explanations) : p.explanations[k] \in 1..Len(p.symbols)

LEMMA Columns ==
  ASSUME NEW p \in Programs
  PROVE  /\ p.symbols \in Seq(Texts) /\ p.code \in Seq(Codes) /\ p.operands \in Seq(Nat)
         /\ p.setValues \in Seq(Nat) /\ p.specs \in Seq(Specs) /\ p.kinds \in Seq(Nat)
         /\ p.requirements \in Seq(Asks) /\ p.clauseIDs \in Seq(Nat) /\ p.clauses \in Seq(Rules)
         /\ p.clauseKinds \in Seq(Nat) /\ p.clauseRemediations \in Seq(Nat)
         /\ p.remediations \in Seq(Cures) /\ p.explanations \in Seq(Nat)
BY DEF Programs

LEMMA Lengths ==
  ASSUME NEW p \in Programs
  PROVE  /\ Len(p.symbols) \in Nat /\ Len(p.code) \in Nat /\ Len(p.operands) \in Nat
         /\ Len(p.setValues) \in Nat /\ Len(p.specs) \in Nat /\ Len(p.kinds) \in Nat
         /\ Len(p.requirements) \in Nat /\ Len(p.clauseIDs) \in Nat /\ Len(p.clauses) \in Nat
         /\ Len(p.clauseKinds) \in Nat /\ Len(p.clauseRemediations) \in Nat
         /\ Len(p.remediations) \in Nat /\ Len(p.explanations) \in Nat
BY Columns, LenProperties

\* One column changes.
LEMMA NewSymbols ==
  ASSUME NEW p \in Programs, NEW c \in Seq(Texts)
  PROVE  LET q == [p EXCEPT !.symbols = c] IN
         q \in Programs /\ q.symbols = c /\ q.kinds = p.kinds /\ q.explanations = p.explanations
           /\ SameRows(p, q)
BY DEF Programs, SameRows
LEMMA NewKinds ==
  ASSUME NEW p \in Programs, NEW c \in Seq(Nat)
  PROVE  LET q == [p EXCEPT !.kinds = c] IN
         q \in Programs /\ q.kinds = c /\ q.symbols = p.symbols /\ q.explanations = p.explanations
           /\ SameRows(p, q)
BY DEF Programs, SameRows
LEMMA NewExplanations ==
  ASSUME NEW p \in Programs, NEW c \in Seq(Nat)
  PROVE  LET q == [p EXCEPT !.explanations = c] IN
         q \in Programs /\ q.explanations = c /\ q.symbols = p.symbols /\ q.kinds = p.kinds
           /\ SameRows(p, q)
BY DEF Programs, SameRows

LEMMA ColumnLengths ==
  ASSUME NEW p \in Programs, NEW c \in ColumnNames
  PROVE  Len(p[c]) \in Nat
PROOF
<1>1. Len(p.symbols) \in Nat BY Lengths
<1> QED BY Lengths DEF ColumnNames

LEMMA GrownIs ==
  ASSUME NEW p, NEW q
  PROVE  Grown(p, q) <=>
           /\ Prefix(p.symbols, q.symbols) /\ Prefix(p.kinds, q.kinds)
           /\ Prefix(p.explanations, q.explanations) /\ Prefix(p.specs, q.specs)
           /\ Prefix(p.setValues, q.setValues) /\ Prefix(p.operands, q.operands)
           /\ Prefix(p.code, q.code) /\ Prefix(p.requirements, q.requirements)
           /\ Prefix(p.clauseIDs, q.clauseIDs) /\ Prefix(p.clauses, q.clauses)
           /\ Prefix(p.clauseKinds, q.clauseKinds)
           /\ Prefix(p.clauseRemediations, q.clauseRemediations)
           /\ Prefix(p.remediations, q.remediations)
BY DEF Grown, ColumnNames

LEMMA GrownTrans ==
  ASSUME NEW p \in Programs, NEW q \in Programs, NEW r \in Programs, Grown(p, q), Grown(q, r)
  PROVE  Grown(p, r)
PROOF
<1>1. SUFFICES ASSUME NEW c \in ColumnNames PROVE Prefix(p[c], r[c])
  BY DEF Grown
<1>2. Len(p[c]) \in Nat /\ Len(q[c]) \in Nat /\ Len(r[c]) \in Nat BY ColumnLengths
<1>3. Prefix(p[c], q[c]) /\ Prefix(q[c], r[c]) BY DEF Grown
<1> QED BY <1>2, <1>3, PrefixTrans

LEMMA GrownSelf ==
  ASSUME NEW p \in Programs
  PROVE  Grown(p, p)
BY ColumnLengths DEF Grown, Prefix

\* Only the catalogues grow.
Wider(p, q) ==
  /\ q \in Programs /\ Catalogued(q) /\ SameRows(p, q)
  /\ Prefix(p.symbols, q.symbols) /\ Prefix(p.kinds, q.kinds)
  /\ Prefix(p.explanations, q.explanations)

LEMMA WiderTrans ==
  ASSUME NEW p \in Programs, NEW q, NEW r, Wider(p, q), Wider(q, r)
  PROVE  Wider(p, r)
PROOF
<1>1. q \in Programs /\ r \in Programs /\ Catalogued(r) BY DEF Wider
<1>2. /\ Prefix(p.symbols, r.symbols) /\ Prefix(p.kinds, r.kinds)
      /\ Prefix(p.explanations, r.explanations)
  BY <1>1, Lengths, PrefixTrans DEF Wider
<1>3. SameRows(p, r) BY DEF Wider, SameRows
<1> QED BY <1>1, <1>2, <1>3 DEF Wider

LEMMA WiderSelf ==
  ASSUME NEW p \in Programs, Catalogued(p)
  PROVE  Wider(p, p)
BY Columns, SeqShape DEF Wider, SameRows

LEMMA WiderGrown ==
  ASSUME NEW p \in Programs, NEW q, Wider(p, q)
  PROVE  Grown(p, q) /\ q \in Programs
PROOF
<1>1. /\ Prefix(p.specs, q.specs) /\ Prefix(p.setValues, q.setValues)
      /\ Prefix(p.operands, q.operands) /\ Prefix(p.code, q.code)
      /\ Prefix(p.requirements, q.requirements)
  BY Columns, SeqShape DEF Wider, SameRows
<1>2. /\ Prefix(p.clauseIDs, q.clauseIDs) /\ Prefix(p.clauses, q.clauses)
      /\ Prefix(p.clauseKinds, q.clauseKinds)
      /\ Prefix(p.clauseRemediations, q.clauseRemediations)
      /\ Prefix(p.remediations, q.remediations)
  BY Columns, SeqShape DEF Wider, SameRows
<1> QED BY <1>1, <1>2, GrownIs DEF Wider

-----------------------------------------------------------------------------
(* Widths, and the catalogues.                                             *)

LEMMA CountIs ==
  ASSUME NEW n \in Nat
  PROVE  n < CountLimit => Count(n) = n
PROOF
<1>1. CountLimit \in Nat BY CompilerAssumption
<1> QED BY <1>1 DEF Count

LEMMA TextIDIs ==
  ASSUME NEW n \in Nat
  PROVE  n <= MaxPolicyBytes => TextID(n) = n
PROOF
<1>1. TextLimit \in Nat /\ MaxPolicyBytes \in Nat /\ MaxPolicyBytes < TextLimit BY CompilerAssumption
<1> QED BY <1>1 DEF TextID

\* The kinds a program names fit their ID.
LEMMA KindsFit ==
  ASSUME NEW p \in Programs, Catalogued(p)
  PROVE  Len(p.kinds) < CountLimit
PROOF
<1> DEFINE f == [k \in 1..Len(p.kinds) |-> p.symbols[p.kinds[k]]]
<1>1. Len(p.kinds) \in Nat /\ Len(p.symbols) \in Nat BY Lengths
<1>2. /\ \A k \in 1..Len(p.kinds) :
           p.kinds[k] \in 1..Len(p.symbols) /\ p.symbols[p.kinds[k]] \in EvidenceKinds
      /\ IsInjective(p.kinds) /\ IsInjective(p.symbols)
      /\ DOMAIN p.kinds = 1..Len(p.kinds) /\ DOMAIN p.symbols = 1..Len(p.symbols)
  BY Columns, SeqShape DEF Catalogued
<1>3. f \in Injection(1..Len(p.kinds), EvidenceKinds)
  <2>1. f \in [1..Len(p.kinds) -> EvidenceKinds] BY <1>2
  <2>2. ASSUME NEW a \in 1..Len(p.kinds), NEW b \in 1..Len(p.kinds), f[a] = f[b] PROVE a = b
    <3>1. p.symbols[p.kinds[a]] = p.symbols[p.kinds[b]] BY <2>2
    <3>2. p.kinds[a] = p.kinds[b] BY <1>2, <3>1 DEF IsInjective
    <3> QED BY <1>2, <3>2 DEF IsInjective
  <2>3. DOMAIN f = 1..Len(p.kinds) OBVIOUS
  <2> HIDE DEF f
  <2> QED BY <2>1, <2>2, <2>3 DEF Injection, IsInjective
<1>4. /\ IsFiniteSet(EvidenceKinds) /\ Cardinality(EvidenceKinds) < CountLimit
      /\ CountLimit \in Nat /\ Cardinality(EvidenceKinds) \in Nat
  BY CompilerAssumption, FS_CardinalityType
<1>5. Cardinality(1..Len(p.kinds)) <= Cardinality(EvidenceKinds)
  <2> HIDE DEF f
  <2> QED BY <1>3, <1>4, FS_Injection
<1>6. Cardinality(1..Len(p.kinds)) = Len(p.kinds) BY SMTT(30), <1>1, FS_Interval
<1> QED BY <1>1, <1>4, <1>5, <1>6

\* What is interned is found, and its ID reads as it.
Known(p, text) == text \in Range(p.symbols) \cup {NoSymbol}

\* An interned text has exactly one symbol ID, from one on, and 0 is the empty text.
LEMMA SymbolIs ==
  ASSUME NEW p \in Programs, Catalogued(p), NEW text, Known(p, text)
  PROVE  /\ Symbol(p, text) \in 0..Len(p.symbols) /\ Text(p, Symbol(p, text)) = text
         /\ Symbol(p, text) \in Nat
         /\ text # NoSymbol => Symbol(p, text) \in 1..Len(p.symbols)
                                 /\ p.symbols[Symbol(p, text)] = text
PROOF
<1>1. p.symbols \in Seq(Texts) /\ NoSymbol \notin Range(p.symbols) BY Columns DEF Catalogued
<1>2. /\ Symbol(p, text) \in 0..Len(p.symbols) /\ Len(p.symbols) \in Nat
      /\ text \in Range(p.symbols) =>
           Symbol(p, text) \in 1..Len(p.symbols) /\ p.symbols[Symbol(p, text)] = text
      /\ text \notin Range(p.symbols) => Symbol(p, text) = 0
  BY <1>1, IndexIs DEF Symbol
<1>3. CASE text = NoSymbol BY <1>1, <1>2, <1>3 DEF Text
<1>4. CASE text # NoSymbol
  <2>1. text \in Range(p.symbols) BY <1>4 DEF Known
  <2> QED BY <1>2, <1>4, <2>1 DEF Text
<1> QED BY <1>3, <1>4

LEMMA KnownKept ==
  ASSUME NEW p \in Programs, NEW q \in Programs, Prefix(p.symbols, q.symbols),
         NEW text, Known(p, text)
  PROVE  Known(q, text)
BY Columns, PrefixRange DEF Known

LEMMA TextKept ==
  ASSUME NEW p \in Programs, NEW q \in Programs, Prefix(p.symbols, q.symbols),
         NEW id \in 0..Len(p.symbols)
  PROVE  Text(q, id) = Text(p, id) /\ id \in 0..Len(q.symbols)
BY Lengths DEF Text, Prefix

\* Intern: the text has a symbol, whatever had one keeps it, and no text has two.
LEMMA InternIs ==
  ASSUME NEW p \in Programs, Catalogued(p), NEW text \in Texts
  PROVE  LET q == Intern(p, text) IN
         /\ Wider(p, q) /\ Known(q, text)
         /\ q.kinds = p.kinds /\ q.explanations = p.explanations
PROOF
<1> DEFINE q == Intern(p, text)
<1>1. CASE text = NoSymbol \/ text \in Range(p.symbols)
  <2>1. q = p BY <1>1 DEF Intern
  <2>2. Known(q, text) BY <1>1, <2>1 DEF Known
  <2> QED BY <2>1, <2>2, WiderSelf
<1>2. CASE ~(text = NoSymbol \/ text \in Range(p.symbols))
  <2> DEFINE column == Append(p.symbols, text)
  <2>1. p.symbols \in Seq(Texts) /\ IsInjective(p.symbols) /\ NoSymbol \notin Range(p.symbols)
    BY Columns DEF Catalogued
  <2>2. /\ column \in Seq(Texts) /\ Len(column) = Len(p.symbols) + 1 /\ Len(p.symbols) \in Nat
        /\ \A k \in 1..Len(p.symbols) : column[k] = p.symbols[k]
        /\ Prefix(p.symbols, column) /\ Range(column) = Range(p.symbols) \cup {text}
    BY <2>1, AppendIs
  <2>3. IsInjective(column) BY <1>2, <2>1, AppendNew
  <2>4. q = [p EXCEPT !.symbols = column] BY <1>2 DEF Intern
  <2> HIDE DEF column
  <2>5. /\ q \in Programs /\ q.symbols = column /\ q.kinds = p.kinds
        /\ q.explanations = p.explanations /\ SameRows(p, q)
    BY <2>2, <2>4, NewSymbols
  <2> HIDE DEF q
  <2>6. NoSymbol \notin Range(column) BY <1>2, <2>1, <2>2
  <2>7. \A k \in 1..Len(p.symbols) : k \in 1..Len(column) BY <2>2
  <2>8. Catalogued(q) BY <2>2, <2>3, <2>5, <2>6, <2>7 DEF Catalogued
  <2>9. Prefix(p.kinds, q.kinds) /\ Prefix(p.explanations, q.explanations)
    BY <2>5, Columns, SeqShape
  <2>10. Wider(p, q) BY <2>2, <2>5, <2>8, <2>9 DEF Wider
  <2>11. Known(q, text) BY <2>2, <2>5 DEF Known
  <2> QED BY <2>5, <2>10, <2>11 DEF q
<1> QED BY <1>1, <1>2

\* The same for a list of texts.
LEMMA InternAllIs ==
  ASSUME NEW p \in Programs, Catalogued(p), NEW texts \in Seq(Texts)
  PROVE  LET q == InternAll(p, texts) IN
         /\ Wider(p, q) /\ q.kinds = p.kinds /\ q.explanations = p.explanations
         /\ \A k \in 1..Len(texts) : Known(q, texts[k])
PROOF
<1> DEFINE m == Len(texts)
           S == {q \in Programs : Wider(p, q) /\ q.kinds = p.kinds /\ q.explanations = p.explanations}
           step == [x \in (1..m) \X S |-> Intern(x[2], texts[x[1]])]
           Defines(u) == u = [k \in 0..m |-> IF k = 0 THEN p ELSE Intern(u[k - 1], texts[k])]
           upTo == CHOOSE u : Defines(u)
<1>1. m \in Nat /\ \A k \in 1..m : texts[k] \in Texts BY SeqShape
<1>2. ASSUME NEW q \in S, NEW text \in Texts
      PROVE  LET r == Intern(q, text) IN r \in S /\ Known(r, text) /\ Wider(q, r)
  <2> DEFINE r == Intern(q, text)
  <2>1. Wider(p, q) /\ q \in Programs /\ Catalogued(q) BY DEF Wider
  <2>2. Wider(q, r) /\ Known(r, text) /\ r.kinds = q.kinds /\ r.explanations = q.explanations
    BY <2>1, InternIs
  <2> HIDE DEF r
  <2>3. Wider(p, r) /\ r \in Programs BY <2>1, <2>2, WiderTrans DEF Wider
  <2> QED BY <2>2, <2>3 DEF r
<1>3. p \in S BY WiderSelf
<1>4. step \in [(1..m) \X S -> S] /\ \A k \in 1..m, q \in S : step[<<k, q>>] = Intern(q, texts[k])
  BY <1>1, <1>2
<1> HIDE DEF step, S, m
<1>5. PICK g \in [0..m -> S] : g[0] = p /\ \A k \in 1..m : g[k] = step[<<k, g[k - 1]>>]
  <2>1. PICK g : Runs(g, m, S, p, step) BY <1>1, <1>3, <1>4, StepsExist
  <2> QED BY <2>1 DEF Runs
<1>6. Defines(g)
  <2>1. ASSUME NEW k \in 0..m PROVE g[k] = IF k = 0 THEN p ELSE Intern(g[k - 1], texts[k])
    <3>1. CASE k = 0 BY <1>5, <3>1
    <3>2. CASE k # 0
      <4>1. k \in 1..m /\ k - 1 \in 0..m BY <1>1, <3>2
      <4> QED BY <1>4, <1>5, <3>2, <4>1
    <3> QED BY <3>1, <3>2
  <2> QED BY <1>5, <2>1
<1>7. Defines(upTo) BY <1>6
<1> HIDE DEF upTo
<1>8. upTo[0] = p /\ \A k \in 1..m : upTo[k] = Intern(upTo[k - 1], texts[k])
  <2>1. \A k \in 0..m : upTo[k] = IF k = 0 THEN p ELSE Intern(upTo[k - 1], texts[k]) BY <1>7
  <2>2. 0 \in 0..m /\ \A k \in 1..m : k \in 0..m /\ k # 0 BY <1>1
  <2> QED BY <2>1, <2>2
<1> DEFINE T == {k \in 0..m : upTo[k] \in S /\ \A j \in 1..k : Known(upTo[k], texts[j])}
<1>9. 0 \in T BY <1>1, <1>3, <1>8
<1>10. ASSUME NEW k \in 1..m, k - 1 \in T PROVE k \in T
  <2>1. /\ upTo[k - 1] \in S /\ upTo[k] = Intern(upTo[k - 1], texts[k]) /\ texts[k] \in Texts
        /\ \A j \in 1..(k - 1) : Known(upTo[k - 1], texts[j])
    BY <1>1, <1>8, <1>10
  <2>2. upTo[k] \in S /\ Known(upTo[k], texts[k]) /\ Wider(upTo[k - 1], upTo[k])
    BY <1>2, <2>1
  <2>3. upTo[k - 1] \in Programs /\ upTo[k] \in Programs BY <2>1, <2>2 DEF S
  <2>4. \A j \in 1..(k - 1) : Known(upTo[k], texts[j])
    BY <2>1, <2>2, <2>3, KnownKept DEF Wider
  <2>5. \A j \in 1..k : j \in 1..(k - 1) \/ j = k BY <1>1
  <2>6. k \in 0..m BY <1>1
  <2> QED BY <2>2, <2>4, <2>5, <2>6
<1>11. m \in T
  <2> HIDE DEF T
  <2>1. m \in 0..m BY <1>1
  <2> QED BY <1>1, <1>9, <1>10, <2>1, Upward
<1>12. InternAll(p, texts) = upTo[m] BY DEF InternAll, upTo, m
<1> QED BY <1>11, <1>12 DEF S, m

\* A symbol an entry of a catalogue can name.
LEMMA NewEntry ==
  ASSUME NEW p \in Programs, Catalogued(p), NEW q, Wider(p, q),
         NEW text, text # NoSymbol, Known(q, text),
         NEW entries \in Seq(Nat),
         \A k \in 1..Len(entries) : entries[k] \in 1..Len(p.symbols),
         ~(Symbol(p, text) > 0 /\ Symbol(p, text) \in Range(entries))
  PROVE  Symbol(q, text) \notin Range(entries)
PROOF
<1>1. /\ p.symbols \in Seq(Texts) /\ IsInjective(p.symbols) /\ Len(p.symbols) \in Nat
      /\ q \in Programs /\ Catalogued(q) /\ Prefix(p.symbols, q.symbols)
  BY Columns, Lengths DEF Catalogued, Wider
<1>2. Symbol(q, text) \in Nat /\ q.symbols[Symbol(q, text)] = text BY <1>1, SymbolIs
<1> SUFFICES ASSUME Symbol(q, text) \in Range(entries) PROVE FALSE
  OBVIOUS
<1>3. Symbol(q, text) \in 1..Len(p.symbols) BY RangeIs
<1>4. p.symbols[Symbol(q, text)] = text BY <1>1, <1>2, <1>3 DEF Prefix
<1>5. Symbol(p, text) = Symbol(q, text) BY <1>1, <1>3, <1>4, IndexAt DEF Symbol
<1> QED BY <1>3, <1>5

\* The catalogue of evidence kinds has the name.
KnownKind(p, name) == name \in Range(p.symbols) /\ Symbol(p, name) \in Range(p.kinds)

LEMMA SymbolFound ==
  ASSUME NEW p \in Programs, Catalogued(p), NEW text, Symbol(p, text) > 0
  PROVE  text \in Range(p.symbols) /\ text # NoSymbol
PROOF
<1>1. p.symbols \in Seq(Texts) /\ NoSymbol \notin Range(p.symbols) BY Columns DEF Catalogued
<1>2. text \notin Range(p.symbols) => Symbol(p, text) = 0 BY <1>1, IndexIs DEF Symbol
<1> QED BY <1>1, <1>2

LEMMA KnownKindKept ==
  ASSUME NEW p \in Programs, NEW q \in Programs, Catalogued(q), Prefix(p.symbols, q.symbols),
         Prefix(p.kinds, q.kinds), NEW name, KnownKind(p, name)
  PROVE  KnownKind(q, name)
PROOF
<1>1. /\ p.symbols \in Seq(Texts) /\ q.symbols \in Seq(Texts) /\ IsInjective(q.symbols)
      /\ p.kinds \in Seq(Nat) /\ q.kinds \in Seq(Nat)
  BY Columns DEF Catalogued
<1>2. name \in Range(q.symbols) BY <1>1, PrefixRange DEF KnownKind
<1>3. Symbol(q, name) = Symbol(p, name) BY <1>1, IndexKept DEF KnownKind, Symbol
<1>4. Range(p.kinds) \subseteq Range(q.kinds) BY <1>1, PrefixRange
<1> QED BY <1>2, <1>3, <1>4 DEF KnownKind

\* evidenceKind: the name has an ID, which says the name.
LEMMA WithKindIs ==
  ASSUME NEW p \in Programs, Catalogued(p), NEW name \in Texts, name \in EvidenceKinds,
         name # NoSymbol
  PROVE  LET q == WithKind(p, name) IN
         Wider(p, q) /\ KnownKind(q, name) /\ q.explanations = p.explanations
PROOF
<1> DEFINE q == Intern(p, name)
           r == WithKind(p, name)
           found == Symbol(p, name) > 0 /\ Symbol(p, name) \in Range(p.kinds)
<1>1. /\ Wider(p, q) /\ Known(q, name) /\ q.kinds = p.kinds /\ q.explanations = p.explanations
  BY InternIs
<1>2. r = IF found THEN p ELSE [q EXCEPT !.kinds = Append(q.kinds, Symbol(q, name))]
  BY DEF WithKind
<1> HIDE DEF q, r
<1>3. CASE found
  <2>1. KnownKind(p, name) BY <1>3, SymbolFound DEF KnownKind
  <2> QED BY <1>2, <1>3, <2>1, WiderSelf DEF r
<1>4. CASE ~found
  <2> DEFINE s == Symbol(q, name)
             column == Append(q.kinds, s)
  <2>1. q \in Programs /\ Catalogued(q) BY <1>1 DEF Wider
  <2>2. /\ q.kinds \in Seq(Nat) /\ p.kinds \in Seq(Nat) /\ IsInjective(q.kinds)
        /\ Len(q.symbols) \in Nat /\ q.symbols \in Seq(Texts)
    BY <2>1, Columns, Lengths DEF Catalogued
  <2>3. s \in Nat /\ s \in 1..Len(q.symbols) /\ q.symbols[s] = name BY <1>1, <2>1, SymbolIs
  <2>4. s \notin Range(q.kinds)
    <3>1. \A k \in 1..Len(p.kinds) : p.kinds[k] \in 1..Len(p.symbols) BY DEF Catalogued
    <3> QED BY <1>1, <1>4, <2>2, <3>1, NewEntry
  <2> HIDE DEF s
  <2>5. /\ column \in Seq(Nat) /\ Len(column) = Len(q.kinds) + 1 /\ Len(q.kinds) \in Nat
        /\ \A k \in 1..Len(q.kinds) : column[k] = q.kinds[k]
        /\ column[Len(q.kinds) + 1] = s
        /\ Prefix(q.kinds, column) /\ Range(column) = Range(q.kinds) \cup {s}
    BY SMTT(30), <2>2, <2>3, AppendIs
  <2>6. IsInjective(column) BY <2>2, <2>3, <2>4, AppendNew
  <2> HIDE DEF column
  <2>7. r = [q EXCEPT !.kinds = column] BY <1>2, <1>4 DEF column, s
  <2>8. /\ r \in Programs /\ r.kinds = column /\ r.symbols = q.symbols
        /\ r.explanations = q.explanations /\ SameRows(q, r)
    BY <2>1, <2>5, <2>7, NewKinds
  <2>9. \A k \in 1..Len(column) : column[k] \in 1..Len(q.symbols) /\ q.symbols[column[k]] \in EvidenceKinds
    <3> TAKE k \in 1..Len(column)
    <3>1. CASE k \in 1..Len(q.kinds) BY <2>1, <2>5, <3>1 DEF Catalogued
    <3>2. CASE k = Len(q.kinds) + 1 BY <2>3, <2>5, <3>2
    <3> QED BY <2>5, <3>1, <3>2
  <2>10. Catalogued(r) BY <2>1, <2>6, <2>8, <2>9 DEF Catalogued
  <2>11. Prefix(q.symbols, r.symbols) /\ Prefix(q.explanations, r.explanations)
    BY <2>1, <2>8, Columns, SeqShape
  <2>12. Wider(q, r) BY <2>5, <2>8, <2>10, <2>11 DEF Wider
  <2>13. Wider(p, r) BY <1>1, <2>12, WiderTrans
  <2>14. name \in Range(r.symbols) BY <2>2, <2>3, <2>8, RangeIs
  <2>15. Symbol(r, name) = s BY <2>8 DEF Symbol, s
  <2>16. KnownKind(r, name) BY <2>5, <2>8, <2>14, <2>15 DEF KnownKind
  <2> QED BY <1>1, <2>8, <2>13, <2>16 DEF r
<1> QED BY <1>3, <1>4

\* An evidence kind ID does not wrap: the vocabulary is smaller than CountLimit.
LEMMA KindIDIs ==
  ASSUME NEW p \in Programs, Catalogued(p), NEW name, KnownKind(p, name)
  PROVE  /\ KindID(p, name) \in 1..Len(p.kinds) /\ KindID(p, name) \in Nat
         /\ p.kinds[KindID(p, name)] \in 1..Len(p.symbols)
         /\ Text(p, p.kinds[KindID(p, name)]) = name
PROOF
<1>1. p.kinds \in Seq(Nat) /\ Len(p.kinds) \in Nat /\ Len(p.symbols) \in Nat BY Columns, Lengths
<1> DEFINE s == Symbol(p, name)
           k == Index(p.kinds, s)
<1>2. s \in Range(p.kinds) /\ Known(p, name) BY DEF KnownKind, Known
<1>3. Text(p, s) = name BY <1>2, SymbolIs
<1> HIDE DEF s
<1>4. k \in 1..Len(p.kinds) /\ p.kinds[k] = s BY <1>1, <1>2, IndexIs
<1> HIDE DEF k
<1>5. k \in Nat /\ k < CountLimit
  <2>1. CountLimit \in Nat BY CompilerAssumption
  <2> QED BY <1>1, <1>4, <2>1, KindsFit
<1>6. KindID(p, name) = k BY <1>5, CountIs DEF KindID, k, s
<1>7. p.kinds[k] \in 1..Len(p.symbols) BY <1>4 DEF Catalogued
<1> QED BY <1>3, <1>4, <1>5, <1>6, <1>7

\* The catalogue of explanations has the text, or there is none.
Worded(p, text) ==
  text = NoSymbol \/ (text \in Range(p.symbols) /\ Symbol(p, text) \in Range(p.explanations))

LEMMA WordedKept ==
  ASSUME NEW p \in Programs, NEW q \in Programs, Catalogued(q), Prefix(p.symbols, q.symbols),
         Prefix(p.explanations, q.explanations), NEW text, Worded(p, text)
  PROVE  Worded(q, text)
PROOF
<1>1. /\ p.symbols \in Seq(Texts) /\ q.symbols \in Seq(Texts) /\ IsInjective(q.symbols)
      /\ p.explanations \in Seq(Nat) /\ q.explanations \in Seq(Nat)
  BY Columns DEF Catalogued
<1>2. CASE text = NoSymbol BY <1>2 DEF Worded
<1>3. CASE text # NoSymbol
  <2>1. text \in Range(q.symbols) BY <1>1, <1>3, PrefixRange DEF Worded
  <2>2. Symbol(q, text) = Symbol(p, text) BY <1>1, <1>3, IndexKept DEF Worded, Symbol
  <2>3. Range(p.explanations) \subseteq Range(q.explanations) BY <1>1, PrefixRange
  <2> QED BY <1>3, <2>1, <2>2, <2>3 DEF Worded
<1> QED BY <1>2, <1>3

\* explanationID: the text has an ID, and no other changes.
LEMMA WithExplanationIs ==
  ASSUME NEW p \in Programs, Catalogued(p), NEW text \in Texts
  PROVE  LET q == WithExplanation(p, text) IN
         /\ Wider(p, q) /\ Worded(q, text) /\ q.kinds = p.kinds
         /\ Worded(p, text) => q = p
         /\ Len(q.explanations) <= Len(p.explanations) + 1
PROOF
<1> DEFINE q == Intern(p, text)
           r == WithExplanation(p, text)
           found == Symbol(p, text) > 0 /\ Symbol(p, text) \in Range(p.explanations)
<1>1. /\ Wider(p, q) /\ Known(q, text) /\ q.kinds = p.kinds /\ q.explanations = p.explanations
  BY InternIs
<1>2. r = IF text = NoSymbol \/ found THEN p
          ELSE [q EXCEPT !.explanations = Append(q.explanations, Symbol(q, text))]
  BY DEF WithExplanation
<1> HIDE DEF q, r
<1>3. CASE text = NoSymbol \/ found
  <2>1. Worded(p, text) BY <1>3, SymbolFound DEF Worded
  <2>2. Len(p.explanations) <= Len(p.explanations) + 1 BY Lengths
  <2> QED BY <1>2, <1>3, <2>1, <2>2, WiderSelf DEF r
<1>4. CASE ~(text = NoSymbol \/ found)
  <2> DEFINE s == Symbol(q, text)
             column == Append(q.explanations, s)
  <2>1. q \in Programs /\ Catalogued(q) BY <1>1 DEF Wider
  <2>2. /\ q.explanations \in Seq(Nat) /\ p.explanations \in Seq(Nat) /\ IsInjective(q.explanations)
        /\ Len(q.symbols) \in Nat /\ q.symbols \in Seq(Texts) /\ p.symbols \in Seq(Texts)
    BY <2>1, Columns, Lengths DEF Catalogued
  <2>3. s \in Nat /\ s \in 1..Len(q.symbols) /\ q.symbols[s] = text BY <1>1, <1>4, <2>1, SymbolIs
  <2>4. s \notin Range(q.explanations)
    <3>1. \A k \in 1..Len(p.explanations) : p.explanations[k] \in 1..Len(p.symbols) BY DEF Catalogued
    <3> QED BY <1>1, <1>4, <2>2, <3>1, NewEntry
  <2> HIDE DEF s
  <2>5. /\ column \in Seq(Nat) /\ Len(column) = Len(q.explanations) + 1 /\ Len(q.explanations) \in Nat
        /\ \A k \in 1..Len(q.explanations) : column[k] = q.explanations[k]
        /\ column[Len(q.explanations) + 1] = s
        /\ Prefix(q.explanations, column) /\ Range(column) = Range(q.explanations) \cup {s}
    BY <2>2, <2>3, AppendIs
  <2>6. IsInjective(column) BY <2>2, <2>3, <2>4, AppendNew
  <2> HIDE DEF column
  <2>7. r = [q EXCEPT !.explanations = column] BY <1>2, <1>4 DEF column, s
  <2>8. /\ r \in Programs /\ r.explanations = column /\ r.symbols = q.symbols
        /\ r.kinds = q.kinds /\ SameRows(q, r)
    BY <2>1, <2>5, <2>7, NewExplanations
  <2>9. \A k \in 1..Len(column) : column[k] \in 1..Len(q.symbols)
    <3> TAKE k \in 1..Len(column)
    <3>1. CASE k \in 1..Len(q.explanations) BY <2>1, <2>5, <3>1 DEF Catalogued
    <3>2. CASE k = Len(q.explanations) + 1 BY <2>3, <2>5, <3>2
    <3> QED BY <2>5, <3>1, <3>2
  <2>10. Catalogued(r) BY <2>1, <2>6, <2>8, <2>9 DEF Catalogued
  <2>11. Prefix(q.symbols, r.symbols) /\ Prefix(q.kinds, r.kinds)
    BY <2>1, <2>8, Columns, SeqShape
  <2>12. Wider(q, r) BY <2>5, <2>8, <2>10, <2>11 DEF Wider
  <2>13. Wider(p, r) BY <1>1, <2>12, WiderTrans
  <2>14. text \in Range(r.symbols) BY <2>2, <2>3, <2>8, RangeIs
  <2>15. Symbol(r, text) = s BY <2>8 DEF Symbol, s
  <2>16. Worded(r, text) BY <2>5, <2>8, <2>14, <2>15 DEF Worded
  <2>17. ~Worded(p, text)
    <3>1. ASSUME text \in Range(p.symbols) PROVE Symbol(p, text) > 0
      BY <2>2, <3>1, IndexIs DEF Symbol
    <3> QED BY <1>4, <3>1 DEF Worded
  <2>18. Len(r.explanations) = Len(p.explanations) + 1 BY <1>1, <2>5, <2>8
  <2>19. Len(r.explanations) <= Len(p.explanations) + 1 BY <2>18, Lengths
  <2> QED BY <1>1, <2>8, <2>13, <2>16, <2>17, <2>19 DEF r
<1> QED BY <1>3, <1>4

\* What an explanation's ID reads as.
Wording(p, id) == IF id = 0 THEN NoSymbol ELSE Text(p, p.explanations[id])

\* An explanation ID does not wrap, while the catalogue is smaller than TextLimit.
LEMMA ExplanationIDIs ==
  ASSUME NEW p \in Programs, Catalogued(p), Len(p.explanations) <= MaxPolicyBytes,
         NEW text, Worded(p, text)
  PROVE  /\ ExplanationID(p, text) \in 0..Len(p.explanations) /\ ExplanationID(p, text) \in Nat
         /\ Wording(p, ExplanationID(p, text)) = text
         /\ text # NoSymbol => ExplanationID(p, text) # 0
PROOF
<1>1. /\ p.explanations \in Seq(Nat) /\ Len(p.explanations) \in Nat /\ Len(p.symbols) \in Nat
      /\ MaxPolicyBytes \in Nat
  BY Columns, Lengths, CompilerAssumption
<1>2. CASE text = NoSymbol BY <1>1, <1>2 DEF ExplanationID, Wording
<1>3. CASE text # NoSymbol
  <2> DEFINE s == Symbol(p, text)
             k == Index(p.explanations, s)
  <2>1. s \in Range(p.explanations) /\ Known(p, text) BY <1>3 DEF Worded, Known
  <2>2. Text(p, s) = text BY <2>1, SymbolIs
  <2> HIDE DEF s
  <2>3. k \in 1..Len(p.explanations) /\ p.explanations[k] = s BY <1>1, <2>1, IndexIs
  <2> HIDE DEF k
  <2>4. k \in Nat /\ k <= MaxPolicyBytes BY <1>1, <2>3
  <2>5. ExplanationID(p, text) = k BY <1>3, <2>4, TextIDIs DEF ExplanationID, k, s
  <2>6. k # 0 /\ k \in 0..Len(p.explanations) BY <1>1, <2>3
  <2> QED BY <1>3, <2>2, <2>3, <2>4, <2>5, <2>6 DEF Wording
<1> QED BY <1>2, <1>3

LEMMA WordingKept ==
  ASSUME NEW p \in Programs, NEW q \in Programs, Catalogued(p), Grown(p, q),
         NEW id \in 0..Len(p.explanations)
  PROVE  Wording(q, id) = Wording(p, id) /\ id \in 0..Len(q.explanations)
PROOF
<1>1. /\ Len(p.explanations) \in Nat /\ Len(q.explanations) \in Nat /\ Len(p.symbols) \in Nat
      /\ Prefix(p.explanations, q.explanations) /\ Prefix(p.symbols, q.symbols)
  BY Lengths, GrownIs
<1>2. id \in 0..Len(q.explanations) BY <1>1 DEF Prefix
<1>3. CASE id = 0 BY <1>2, <1>3 DEF Wording
<1>4. CASE id # 0
  <2>1. id \in 1..Len(p.explanations) BY <1>1, <1>4
  <2>2. q.explanations[id] = p.explanations[id] /\ p.explanations[id] \in 0..Len(p.symbols)
    BY <1>1, <2>1 DEF Prefix, Catalogued
  <2>3. Text(q, p.explanations[id]) = Text(p, p.explanations[id]) BY <1>1, <2>2, TextKept
  <2> QED BY <1>2, <1>4, <2>2, <2>3 DEF Wording
<1> QED BY <1>3, <1>4

\* A clause adds at most its own explanations.
LEMMA ExplainAllIs ==
  ASSUME NEW p \in Programs, Catalogued(p), NEW texts \in Seq(Texts)
  PROVE  LET q == ExplainAll(p, texts) IN
         /\ Wider(p, q) /\ q.kinds = p.kinds
         /\ \A k \in 1..Len(texts) : Worded(q, texts[k])
         /\ IsFiniteSet(Range(texts))
         /\ Len(q.explanations) <= Len(p.explanations) + Cardinality(Range(texts))
PROOF
<1> DEFINE m == Len(texts)
           S == {q \in Programs : Wider(p, q) /\ q.kinds = p.kinds}
           step == [x \in (1..m) \X S |-> WithExplanation(x[2], texts[x[1]])]
           Defines(u) == u = [k \in 0..m |-> IF k = 0 THEN p ELSE WithExplanation(u[k - 1], texts[k])]
           upTo == CHOOSE u : Defines(u)
           Seen(k) == {texts[j] : j \in 1..k}
<1>1. m \in Nat /\ \A k \in 1..m : texts[k] \in Texts BY SeqShape
<1>2. ASSUME NEW q \in S, NEW text \in Texts
      PROVE  LET r == WithExplanation(q, text) IN
             /\ r \in S /\ Worded(r, text) /\ Wider(q, r)
             /\ Worded(q, text) => r = q
             /\ Len(r.explanations) <= Len(q.explanations) + 1
  <2> DEFINE r == WithExplanation(q, text)
  <2>1. Wider(p, q) /\ q \in Programs /\ Catalogued(q) BY DEF Wider
  <2>2. /\ Wider(q, r) /\ Worded(r, text) /\ r.kinds = q.kinds
        /\ Worded(q, text) => r = q
        /\ Len(r.explanations) <= Len(q.explanations) + 1
    BY <2>1, WithExplanationIs
  <2> HIDE DEF r
  <2>3. Wider(p, r) /\ r \in Programs BY <2>1, <2>2, WiderTrans DEF Wider
  <2> QED BY <2>2, <2>3 DEF r
<1>3. p \in S BY WiderSelf
<1>4. /\ step \in [(1..m) \X S -> S]
      /\ \A k \in 1..m, q \in S : step[<<k, q>>] = WithExplanation(q, texts[k])
  BY <1>1, <1>2
<1> HIDE DEF step, S, m
<1>5. PICK g \in [0..m -> S] : g[0] = p /\ \A k \in 1..m : g[k] = step[<<k, g[k - 1]>>]
  <2>1. PICK g : Runs(g, m, S, p, step) BY <1>1, <1>3, <1>4, StepsExist
  <2> QED BY <2>1 DEF Runs
<1>6. Defines(g)
  <2>1. ASSUME NEW k \in 0..m PROVE g[k] = IF k = 0 THEN p ELSE WithExplanation(g[k - 1], texts[k])
    <3>1. CASE k = 0 BY <1>5, <3>1
    <3>2. CASE k # 0
      <4>1. k \in 1..m /\ k - 1 \in 0..m BY <1>1, <3>2
      <4> QED BY <1>4, <1>5, <3>2, <4>1
    <3> QED BY <3>1, <3>2
  <2> QED BY <1>5, <2>1
<1>7. Defines(upTo) BY <1>6
<1> HIDE DEF upTo
<1>8. upTo[0] = p /\ \A k \in 1..m : upTo[k] = WithExplanation(upTo[k - 1], texts[k])
  <2>1. \A k \in 0..m : upTo[k] = IF k = 0 THEN p ELSE WithExplanation(upTo[k - 1], texts[k]) BY <1>7
  <2>2. 0 \in 0..m /\ \A k \in 1..m : k \in 0..m /\ k # 0 BY <1>1
  <2> QED BY <2>1, <2>2
<1> DEFINE n == Len(p.explanations)
           T == {k \in 0..m :
                   /\ upTo[k] \in S /\ \A j \in 1..k : Worded(upTo[k], texts[j])
                   /\ IsFiniteSet(Seen(k))
                   /\ Len(upTo[k].explanations) <= n + Cardinality(Seen(k))}
<1>9. 0 \in T
  <2>1. Seen(0) = {} OBVIOUS
  <2>2. IsFiniteSet(Seen(0)) /\ Cardinality(Seen(0)) = 0 BY <2>1, FS_EmptySet
  <2> HIDE DEF Seen
  <2>3. Len(upTo[0].explanations) <= n + Cardinality(Seen(0)) BY <1>8, <2>2, Lengths
  <2> QED BY <1>1, <1>3, <1>8, <2>2, <2>3
<1>10. ASSUME NEW k \in 1..m, k - 1 \in T PROVE k \in T
  <2> DEFINE u == upTo[k - 1]
             v == upTo[k]
             text == texts[k]
             before == Seen(k - 1)
  <2>1. /\ u \in S /\ v = WithExplanation(u, text) /\ text \in Texts
        /\ \A j \in 1..(k - 1) : Worded(u, texts[j])
        /\ IsFiniteSet(before) /\ Len(u.explanations) <= n + Cardinality(before)
    BY <1>1, <1>8, <1>10
  <2>2. Seen(k) = before \cup {text}
    <3>1. \A j \in 1..k : j \in 1..(k - 1) \/ j = k BY <1>1
    <3>2. k \in 1..k /\ \A j \in 1..(k - 1) : j \in 1..k BY <1>1
    <3>3. Seen(k) \subseteq before \cup {text} BY <3>1
    <3>4. before \cup {text} \subseteq Seen(k) BY <3>2
    <3> QED BY <3>3, <3>4
  <2>3. text \in before => \E j \in 1..(k - 1) : text = texts[j] OBVIOUS
  <2> HIDE DEF Seen, u, v, text, before
  <2>4. /\ IsFiniteSet(Seen(k)) /\ Cardinality(before) \in Nat
        /\ Cardinality(Seen(k)) = IF text \in before THEN Cardinality(before) ELSE Cardinality(before) + 1
    BY <2>1, <2>2, FS_AddElement, FS_CardinalityType
  <2>5. /\ v \in S /\ Worded(v, text) /\ Wider(u, v)
        /\ Worded(u, text) => v = u
        /\ Len(v.explanations) <= Len(u.explanations) + 1
    BY <1>2, <2>1
  <2>6. u \in Programs /\ v \in Programs /\ Catalogued(v) BY <2>1, <2>5 DEF S, Wider
  <2>7. \A j \in 1..(k - 1) : Worded(v, texts[j])
    BY <2>1, <2>5, <2>6, WordedKept DEF Wider
  <2>8. \A j \in 1..k : Worded(v, texts[j])
    <3>1. \A j \in 1..k : j \in 1..(k - 1) \/ j = k BY <1>1
    <3> QED BY <2>5, <2>7, <3>1 DEF text
  <2>9. Len(v.explanations) <= n + Cardinality(Seen(k))
    <3>1. n \in Nat /\ Len(u.explanations) \in Nat /\ Len(v.explanations) \in Nat
      BY <2>6, Lengths
    <3> HIDE DEF n
    <3>2. CASE text \in before
      <4>1. v = u BY <2>1, <2>3, <2>5, <3>2
      <4> QED BY <2>1, <2>4, <3>1, <3>2, <4>1
    <3>3. CASE text \notin before
      <4>1. Cardinality(Seen(k)) = Cardinality(before) + 1 BY <2>4, <3>3
      <4> QED BY <2>1, <2>4, <2>5, <3>1, <4>1
    <3> QED BY <3>2, <3>3
  <2>10. k \in 0..m BY <1>1
  <2> QED BY <2>4, <2>5, <2>8, <2>9, <2>10 DEF v
<1>11. m \in T
  <2> HIDE DEF T
  <2>1. m \in 0..m BY <1>1
  <2> QED BY <1>1, <1>9, <1>10, <2>1, Upward
<1>12. ExplainAll(p, texts) = upTo[m] BY DEF ExplainAll, upTo, m
<1>13. Seen(m) = Range(texts) BY RangeIs DEF m
<1> QED BY <1>11, <1>12, <1>13 DEF S, m

-----------------------------------------------------------------------------
(* Rows, which go on being valid and saying what they say.                 *)

\* Every row refers to entries the program has, before any step of the compiler.
Rows(p) ==
  /\ \A k \in 1..Len(p.setValues) : p.setValues[k] \in 1..Len(p.symbols)
  /\ \A k \in 1..Len(p.specs) : ValidSpec(p, p.specs[k])
  /\ \A k \in 1..Len(p.remediations) : ValidRemediationSpec(p, p.remediations[k])
  /\ \A k \in 1..Len(p.clauseKinds) : p.clauseKinds[k] \in 1..Len(p.kinds)
  /\ Len(p.clauseRemediations) = Len(p.remediations)
  /\ \A k \in 1..Len(p.clauseRemediations) : p.clauseRemediations[k] = k
  /\ \A k \in 1..Len(p.clauses) : ValidClause(p, p.clauses[k])

\* A program under construction: typed, its catalogues without duplicates, its references good.
Sound(p) == p \in Programs /\ Catalogued(p) /\ Rows(p)

LEMMA TextsKept ==
  ASSUME NEW p \in Programs, NEW q \in Programs, Prefix(p.symbols, q.symbols),
         NEW ids, \A k \in DOMAIN ids : ids[k] \in 0..Len(p.symbols)
  PROVE  TextsOf(q, ids) = TextsOf(p, ids)
BY TextKept DEF TextsOf

LEMMA KindKept ==
  ASSUME NEW p \in Programs, NEW q \in Programs, Catalogued(p), Grown(p, q),
         NEW k \in 1..Len(p.kinds)
  PROVE  /\ k \in 1..Len(q.kinds) /\ q.kinds[k] = p.kinds[k]
         /\ p.kinds[k] \in 1..Len(p.symbols)
         /\ Text(q, q.kinds[k]) = Text(p, p.kinds[k])
PROOF
<1>1. /\ Len(p.kinds) \in Nat /\ Len(q.kinds) \in Nat /\ Len(p.symbols) \in Nat
      /\ Prefix(p.kinds, q.kinds) /\ Prefix(p.symbols, q.symbols)
  BY Lengths, GrownIs
<1>2. k \in 1..Len(q.kinds) /\ q.kinds[k] = p.kinds[k] BY <1>1 DEF Prefix
<1>3. p.kinds[k] \in 1..Len(p.symbols) BY DEF Catalogued
<1>4. p.kinds[k] \in 0..Len(p.symbols) BY <1>1, <1>3
<1> QED BY <1>1, <1>2, <1>3, <1>4, TextKept

LEMMA IdSlice ==
  ASSUME NEW s \in Seq(Nat), NEW a \in Nat, NEW n \in Nat, a + n <= Len(s)
  PROVE  /\ Slice(s, a, n) \in Seq(Nat) /\ Len(Slice(s, a, n)) = n
         /\ DOMAIN Slice(s, a, n) = 1..n
         /\ \A k \in 1..n : a + k \in 1..Len(s) /\ Slice(s, a, n)[k] = s[a + k]
PROOF
<1>1. /\ Slice(s, a, n) \in Seq(Nat) /\ Len(Slice(s, a, n)) = n
      /\ DOMAIN Slice(s, a, n) = 1..n
      /\ Slice(s, a, n) = [k \in 1..n |-> s[a + k]]
      /\ \A k \in 1..n : a + k \in 1..Len(s)
  BY SliceIs
<1>2. \A k \in 1..n : Slice(s, a, n)[k] = s[a + k] BY <1>1, Zenon
<1> QED BY <1>1, <1>2

LEMMA IdSliceKept ==
  ASSUME NEW s \in Seq(Nat), NEW t \in Seq(Nat), Prefix(s, t),
         NEW a \in Nat, NEW n \in Nat, a + n <= Len(s)
  PROVE  a + n <= Len(t) /\ Slice(t, a, n) = Slice(s, a, n)
BY SliceKept

LEMMA SpecKept ==
  ASSUME NEW p \in Programs, NEW q \in Programs, Catalogued(p), Grown(p, q),
         NEW spec \in Specs, ValidSpec(p, spec)
  PROVE  /\ ValidSpec(q, spec)
         /\ Text(q, q.kinds[spec.kind]) = Text(p, p.kinds[spec.kind])
         /\ TextsOf(q, spec.wants) = TextsOf(p, spec.wants)
PROOF
<1>1. spec.kind \in 1..Len(p.kinds) /\ \A n \in DOMAIN spec.wants : spec.wants[n] \in 0..Len(p.symbols)
  BY DEF ValidSpec, ValidID
<1>2. Prefix(p.symbols, q.symbols) /\ Len(p.symbols) \in Nat /\ Len(q.symbols) \in Nat
  BY GrownIs, Lengths
<1>3. \A n \in DOMAIN spec.wants : spec.wants[n] \in 0..Len(q.symbols) BY <1>1, <1>2 DEF Prefix
<1>4. spec.kind \in 1..Len(q.kinds) /\ Text(q, q.kinds[spec.kind]) = Text(p, p.kinds[spec.kind])
  BY <1>1, KindKept
<1> DEFINE wants == spec.wants
<1> HIDE DEF wants
<1>5. TextsOf(q, wants) = TextsOf(p, wants) BY <1>1, <1>2, TextsKept DEF wants
<1> QED BY <1>3, <1>4, <1>5 DEF ValidSpec, ValidID, wants

\* An instruction goes on saying the same, and stays valid, while the columns grow.
LEMMA InstructionKept ==
  ASSUME NEW p, Sound(p), NEW q \in Programs, Grown(p, q), NEW i \in 1..Len(p.code),
         ValidInstruction(p, i)
  PROVE  /\ i \in 1..Len(q.code) /\ ValidInstruction(q, i)
         /\ Meaning(q, i) = Meaning(p, i)
PROOF
<1> DEFINE ins == p.code[i]
<1>1. /\ p \in Programs /\ Catalogued(p) /\ ValidInstruction(p, i) BY DEF Sound, Rows
<1>2. /\ Len(p.code) \in Nat /\ Len(q.code) \in Nat /\ Len(p.symbols) \in Nat /\ Len(q.symbols) \in Nat
      /\ Len(p.specs) \in Nat /\ Len(q.specs) \in Nat
  BY <1>1, Lengths
<1>3. /\ Prefix(p.code, q.code) /\ Prefix(p.symbols, q.symbols) /\ Prefix(p.specs, q.specs)
      /\ Prefix(p.operands, q.operands) /\ Prefix(p.setValues, q.setValues)
  BY GrownIs
<1>4. i \in 1..Len(q.code) /\ q.code[i] = ins BY <1>2, <1>3 DEF Prefix
<1>5. ins \in Codes BY <1>1, Columns, ElementOfSeq
<1>6. /\ ins.operandStart \in Nat /\ ins.operandCount \in Nat /\ ins.setStart \in Nat
      /\ ins.setCount \in Nat /\ ins.value \in Nat /\ ins.spec \in Nat
  BY <1>5 DEF Codes
<1>7. /\ ins.operandStart + ins.operandCount <= Len(p.operands)
      /\ ins.setStart + ins.setCount <= Len(p.setValues)
  BY <1>1 DEF ValidInstruction, ValidRange
<1> DEFINE operands == Slice(p.operands, ins.operandStart, ins.operandCount)
           values   == Slice(p.setValues, ins.setStart, ins.setCount)
<1>8. /\ ins.operandStart + ins.operandCount <= Len(q.operands)
      /\ Slice(q.operands, ins.operandStart, ins.operandCount) = operands
  <2>1. p.operands \in Seq(Nat) /\ q.operands \in Seq(Nat) BY <1>1, Columns
  <2> HIDE DEF ins
  <2> QED BY <1>3, <1>6, <1>7, <2>1, IdSliceKept
<1>9. /\ ins.setStart + ins.setCount <= Len(q.setValues)
      /\ Slice(q.setValues, ins.setStart, ins.setCount) = values
  <2>1. p.setValues \in Seq(Nat) /\ q.setValues \in Seq(Nat) BY <1>1, Columns
  <2> HIDE DEF ins
  <2> QED BY <1>3, <1>6, <1>7, <2>1, IdSliceKept
<1>10. \A k \in DOMAIN values : values[k] \in 1..Len(p.symbols)
  <2>1. p.setValues \in Seq(Nat) BY <1>1, Columns
  <2>2. \A k \in 1..Len(p.setValues) : p.setValues[k] \in 1..Len(p.symbols) BY DEF Sound, Rows
  <2> HIDE DEF ins
  <2>3. /\ DOMAIN values = 1..ins.setCount
        /\ \A k \in 1..ins.setCount :
             ins.setStart + k \in 1..Len(p.setValues) /\ values[k] = p.setValues[ins.setStart + k]
    <3> DEFINE column == p.setValues
               start == ins.setStart
               n == ins.setCount
    <3>1. column \in Seq(Nat) /\ start \in Nat /\ n \in Nat /\ start + n <= Len(column)
      BY <1>6, <1>7, <2>1
    <3> HIDE DEF column, start, n
    <3>2. /\ DOMAIN Slice(column, start, n) = 1..n
          /\ \A k \in 1..n : start + k \in 1..Len(column)
                               /\ Slice(column, start, n)[k] = column[start + k]
      BY ONLY <3>1, IdSlice
    <3> QED BY <3>2 DEF column, start, n
  <2> QED BY <2>2, <2>3
<1>11. TextsOf(q, values) = TextsOf(p, values)
  <2> HIDE DEF values
  <2>1. \A k \in DOMAIN values : values[k] \in 0..Len(p.symbols) BY <1>2, <1>10
  <2> QED BY <1>1, <1>3, <2>1, TextsKept
<1> HIDE DEF operands, values, ins
<1>12. /\ \/ ins.op = "equal" /\ ins.value \in 1..Len(p.symbols) /\ ins.spec = 0
          \/ ins.op = "evidence_matches" /\ ins.value = 0 /\ ins.spec \in 1..Len(p.specs)
          \/ ins.op \in {"in", "all"} /\ ins.value = 0 /\ ins.spec = 0
  BY <1>1 DEF ValidInstruction, ValidID, ins
<1>13. ins.value \in 0..Len(p.symbols) BY <1>2, <1>12
<1>14. /\ Text(q, ins.value) = Text(p, ins.value)
       /\ ins.value \in 1..Len(p.symbols) => ins.value \in 1..Len(q.symbols)
  <2>1. Text(q, ins.value) = Text(p, ins.value) BY <1>1, <1>3, <1>13, TextKept
  <2>2. ins.value \in 1..Len(p.symbols) => ins.value \in 1..Len(q.symbols) BY <1>2, <1>3 DEF Prefix
  <2> QED BY <2>1, <2>2
<1>15. ASSUME ins.spec # 0
       PROVE  /\ ins.spec \in 1..Len(q.specs) /\ q.specs[ins.spec] = p.specs[ins.spec]
              /\ Text(q, q.kinds[q.specs[ins.spec].kind]) = Text(p, p.kinds[p.specs[ins.spec].kind])
              /\ TextsOf(q, q.specs[ins.spec].wants) = TextsOf(p, p.specs[ins.spec].wants)
  <2>1. ins.spec \in 1..Len(p.specs) BY <1>12, <1>15
  <2>2. ins.spec \in 1..Len(q.specs) /\ q.specs[ins.spec] = p.specs[ins.spec]
    BY SMTT(40), <1>2, <1>3, <2>1 DEF Prefix
  <2> DEFINE spec == p.specs[ins.spec]
  <2>3. spec \in Specs /\ ValidSpec(p, spec) BY <1>1, <2>1, Columns, ElementOfSeq DEF Sound, Rows
  <2> HIDE DEF spec
  <2>4. /\ Text(q, q.kinds[spec.kind]) = Text(p, p.kinds[spec.kind])
        /\ TextsOf(q, spec.wants) = TextsOf(p, spec.wants)
    BY <1>1, <2>3, SpecKept
  <2> QED BY <2>2, <2>4 DEF spec
<1>16. Meaning(q, i) = Meaning(p, i)
  <2> DEFINE evidence(r) == IF ins.spec = 0 THEN NoEvidence
                    ELSE [kind |-> Text(r, r.kinds[r.specs[ins.spec].kind]),
                          qualifiers |-> TextsOf(r, r.specs[ins.spec].wants)]
  <2>1. evidence(q) = evidence(p) BY <1>15
  <2> HIDE DEF evidence
  <2>2. Meaning(p, i) = [op |-> ins.op,
                         field |-> IF ins.field = 0 THEN NoSymbol ELSE FieldNames[ins.field],
                         value |-> Text(p, ins.value), values |-> TextsOf(p, values),
                         children |-> operands, evidence |-> evidence(p)]
    BY DEF Meaning, ins, values, operands, evidence
  <2>3. Meaning(q, i) = [op |-> ins.op,
                         field |-> IF ins.field = 0 THEN NoSymbol ELSE FieldNames[ins.field],
                         value |-> Text(q, ins.value), values |-> TextsOf(q, values),
                         children |-> operands, evidence |-> evidence(q)]
    BY <1>4, <1>8, <1>9 DEF Meaning, evidence
  <2> QED BY <1>11, <1>14, <2>1, <2>2, <2>3
<1>17. ValidInstruction(q, i)
  <2>1. \A s \in Range(values) : s \in 1..Len(p.symbols) => s \in 1..Len(q.symbols)
    BY <1>2, <1>3 DEF Prefix
  <2>2. /\ ins.op = "equal" => ValidID(ins.value, q.symbols)
        /\ ins.op = "evidence_matches" => ValidID(ins.spec, q.specs)
    <3>1. ins.op = "evidence_matches" => ins.spec # 0 BY <1>2, <1>12
    <3> QED BY <1>12, <1>14, <1>15, <3>1 DEF ValidID
  <2>3. \/ /\ ins.op = "equal"
           /\ ValidID(ins.field, FieldNames)
           /\ ins.operandCount = 0 /\ ins.setCount = 0 /\ ins.spec = 0
        \/ /\ ins.op = "in"
           /\ ValidID(ins.field, FieldNames) /\ ins.setCount > 0
           /\ \A s \in Range(values) : ValidID(s, p.symbols)
           /\ ins.operandCount = 0 /\ ins.value = 0 /\ ins.spec = 0
        \/ /\ ins.op = "evidence_matches"
           /\ ins.operandCount = 0 /\ ins.setCount = 0 /\ ins.field = 0 /\ ins.value = 0
        \/ /\ ins.op = "all"
           /\ ins.operandCount > 0
           /\ \A o \in Range(operands) : o \in 1..(i - 1)
           /\ ins.setCount = 0 /\ ins.field = 0 /\ ins.value = 0 /\ ins.spec = 0
    BY <1>1 DEF ValidInstruction, ins, values, operands
  <2>4. (\A s \in Range(values) : ValidID(s, p.symbols)) => \A s \in Range(values) : ValidID(s, q.symbols)
    BY <2>1 DEF ValidID
  <2>5. /\ ValidRange(ins.operandStart, ins.operandCount, q.operands)
        /\ ValidRange(ins.setStart, ins.setCount, q.setValues)
    BY <1>8, <1>9 DEF ValidRange
  <2>6. ValidInstruction(q, i) <=>
        /\ ValidRange(ins.operandStart, ins.operandCount, q.operands)
        /\ ValidRange(ins.setStart, ins.setCount, q.setValues)
        /\ \/ /\ ins.op = "equal"
              /\ ValidID(ins.field, FieldNames) /\ ValidID(ins.value, q.symbols)
              /\ ins.operandCount = 0 /\ ins.setCount = 0 /\ ins.spec = 0
           \/ /\ ins.op = "in"
              /\ ValidID(ins.field, FieldNames) /\ ins.setCount > 0
              /\ \A s \in Range(values) : ValidID(s, q.symbols)
              /\ ins.operandCount = 0 /\ ins.value = 0 /\ ins.spec = 0
           \/ /\ ins.op = "evidence_matches"
              /\ ValidID(ins.spec, q.specs)
              /\ ins.operandCount = 0 /\ ins.setCount = 0 /\ ins.field = 0 /\ ins.value = 0
           \/ /\ ins.op = "all"
              /\ ins.operandCount > 0
              /\ \A o \in Range(operands) : o \in 1..(i - 1)
              /\ ins.setCount = 0 /\ ins.field = 0 /\ ins.value = 0 /\ ins.spec = 0
    BY <1>4, <1>8, <1>9, Zenon DEF ValidInstruction
  <2>7. CASE ins.op = "equal" BY <2>2, <2>3, <2>5, <2>6, <2>7
  <2>8. CASE ins.op = "in" BY <2>3, <2>4, <2>5, <2>6, <2>8
  <2>9. CASE ins.op = "evidence_matches" BY <2>2, <2>3, <2>5, <2>6, <2>9
  <2>10. CASE ins.op = "all" BY <2>3, <2>5, <2>6, <2>10
  <2> QED BY <2>3, <2>7, <2>8, <2>9, <2>10
<1> QED BY <1>4, <1>16, <1>17

\* So does a remediation,
LEMMA RemediationKept ==
  ASSUME NEW p, Sound(p), NEW q \in Programs, Grown(p, q), NEW id \in 1..Len(p.remediations)
  PROVE  /\ id \in 1..Len(q.remediations) /\ q.remediations[id] = p.remediations[id]
         /\ ValidRemediationSpec(q, q.remediations[id])
         /\ RemediationMeaning(q, id) = RemediationMeaning(p, id)
PROOF
<1> DEFINE m == p.remediations[id]
<1>1. /\ p \in Programs /\ Catalogued(p) /\ ValidRemediationSpec(p, m) BY DEF Sound, Rows
<1>2. /\ Len(p.remediations) \in Nat /\ Len(q.remediations) \in Nat /\ Len(p.symbols) \in Nat
      /\ Len(q.symbols) \in Nat /\ Len(p.explanations) \in Nat /\ Len(p.kinds) \in Nat
      /\ Prefix(p.remediations, q.remediations) /\ Prefix(p.symbols, q.symbols)
  BY <1>1, Lengths, GrownIs
<1>3. id \in 1..Len(q.remediations) /\ q.remediations[id] = m BY <1>2 DEF Prefix
<1>4. m \in Cures BY <1>1, Columns, ElementOfSeq
<1>5. m.kind \in Nat /\ m.value \in Nat /\ m.description \in Nat BY <1>4 DEF Cures
<1> HIDE DEF m
<1>6. /\ m.description \in 0..Len(p.explanations)
      /\ \/ m.action = "add_evidence" /\ m.kind \in 1..Len(p.kinds) /\ m.field = 0 /\ m.value = 0
         \/ /\ m.action = "set_field" /\ m.kind = 0
            /\ ValidID(m.field, FieldNames) /\ m.value \in 1..Len(p.symbols)
  BY <1>1 DEF ValidRemediationSpec, ValidID
<1>7. Wording(q, m.description) = Wording(p, m.description) /\ m.description \in 0..Len(q.explanations)
  BY <1>1, <1>6, WordingKept
<1>8. m.kind # 0 => /\ m.kind \in 1..Len(q.kinds)
                    /\ Text(q, q.kinds[m.kind]) = Text(p, p.kinds[m.kind])
  <2>1. m.kind # 0 => m.kind \in 1..Len(p.kinds) BY <1>6
  <2> QED BY <1>1, <2>1, KindKept
<1>9. Text(q, m.value) = Text(p, m.value)
  <2>1. m.value \in 0..Len(p.symbols) BY <1>2, <1>6
  <2> QED BY <1>1, <1>2, <2>1, TextKept
<1>10. m.value \in 1..Len(p.symbols) => m.value \in 1..Len(q.symbols) BY <1>2 DEF Prefix
<1>11. ValidRemediationSpec(q, m)
  <2>1. CASE m.action = "add_evidence"
    <3>1. m.kind \in 1..Len(p.kinds) /\ m.field = 0 /\ m.value = 0 BY <1>6, <2>1
    <3>2. m.kind \in 1..Len(q.kinds) BY <1>2, <1>8, <3>1
    <3> QED BY <1>7, <2>1, <3>1, <3>2 DEF ValidRemediationSpec, ValidID
  <2>2. CASE m.action = "set_field"
    <3>1. m.kind = 0 /\ ValidID(m.field, FieldNames) /\ m.value \in 1..Len(p.symbols) BY <1>6, <2>2
    <3> QED BY <1>7, <1>10, <2>2, <3>1 DEF ValidRemediationSpec, ValidID
  <2> QED BY <1>6, <2>1, <2>2
<1>12. RemediationMeaning(p, id) =
         [action |-> m.action, description |-> Wording(p, m.description),
          evidenceKind |-> IF m.kind = 0 THEN NoSymbol ELSE Text(p, p.kinds[m.kind]),
          field |-> IF m.field = 0 THEN NoSymbol ELSE FieldNames[m.field],
          value |-> Text(p, m.value)]
  BY DEF RemediationMeaning, Wording, m
<1>13. RemediationMeaning(q, id) =
         [action |-> m.action, description |-> Wording(q, m.description),
          evidenceKind |-> IF m.kind = 0 THEN NoSymbol ELSE Text(q, q.kinds[m.kind]),
          field |-> IF m.field = 0 THEN NoSymbol ELSE FieldNames[m.field],
          value |-> Text(q, m.value)]
  BY <1>3 DEF RemediationMeaning, Wording
<1>14. RemediationMeaning(q, id) = RemediationMeaning(p, id)
  BY <1>7, <1>8, <1>9, <1>12, <1>13
<1> QED BY <1>3, <1>11, <1>14 DEF m

\* and so does a clause.
LEMMA ClauseKept ==
  ASSUME NEW p, Sound(p), NEW q \in Programs, Grown(p, q), NEW k \in 1..Len(p.clauses)
  PROVE  /\ k \in 1..Len(q.clauses) /\ q.clauses[k] = p.clauses[k]
         /\ ValidClause(q, q.clauses[k])
         /\ ClauseMeaning(q, q.clauses[k]) = ClauseMeaning(p, p.clauses[k])
         /\ KindsOf(q, q.clauses[k]) = KindsOf(p, p.clauses[k])
PROOF
<1> DEFINE c == p.clauses[k]
<1>1. /\ p \in Programs /\ Catalogued(p) /\ ValidClause(p, c) /\ Rows(p) BY DEF Sound, Rows
<1>2. /\ Len(p.clauses) \in Nat /\ Len(q.clauses) \in Nat /\ Len(p.symbols) \in Nat
      /\ Len(q.symbols) \in Nat /\ Len(p.explanations) \in Nat /\ Len(p.kinds) \in Nat
      /\ Len(q.explanations) \in Nat /\ Len(p.code) \in Nat /\ Len(q.code) \in Nat
      /\ Len(p.remediations) \in Nat
  BY <1>1, Lengths
<1>3. /\ Prefix(p.clauses, q.clauses) /\ Prefix(p.symbols, q.symbols) /\ Prefix(p.code, q.code)
      /\ Prefix(p.clauseRemediations, q.clauseRemediations) /\ Prefix(p.clauseKinds, q.clauseKinds)
      /\ Prefix(p.explanations, q.explanations)
  BY <1>1, GrownIs
<1>4. k \in 1..Len(q.clauses) /\ q.clauses[k] = c
  <2>1. Prefix(p.clauses, q.clauses) BY <1>3
  <2>2. Len(p.clauses) <= Len(q.clauses) /\ q.clauses[k] = p.clauses[k] BY <2>1 DEF Prefix
  <2>3. k \in 1..Len(q.clauses) BY <1>2, <2>2
  <2> QED BY <2>2, <2>3
<1>5. c \in Rules BY <1>1, Columns, ElementOfSeq
<1>6. /\ c.kindStart \in Nat /\ c.kindCount \in Nat /\ c.remediationStart \in Nat
      /\ c.remediationCount \in Nat
  BY <1>5 DEF Rules
<1> HIDE DEF c
<1>7. /\ c.symbol \in 1..Len(p.symbols) /\ c.root \in 1..Len(p.code)
      /\ c.remediationStart + c.remediationCount <= Len(p.clauseRemediations)
      /\ c.kindStart + c.kindCount <= Len(p.clauseKinds)
      /\ \A r \in Reasons : /\ c.outcomes[r] \in Outcomes
                            /\ \/ ValidID(c.explanations[r], p.explanations)
                               \/ c.explanations[r] = 0 /\ c.outcomes[r] = OutcomeApprove
  BY <1>1 DEF ValidClause, ValidID, ValidRange
<1> DEFINE ids   == Slice(p.clauseRemediations, c.remediationStart, c.remediationCount)
           kinds == Slice(p.clauseKinds, c.kindStart, c.kindCount)
<1>8. /\ p.clauseRemediations \in Seq(Nat) /\ q.clauseRemediations \in Seq(Nat)
      /\ p.clauseKinds \in Seq(Nat) /\ q.clauseKinds \in Seq(Nat)
  BY <1>1, Columns
<1>9. /\ c.remediationStart + c.remediationCount <= Len(q.clauseRemediations)
      /\ Slice(q.clauseRemediations, c.remediationStart, c.remediationCount) = ids
  BY SMTT(40), <1>3, <1>6, <1>7, <1>8, IdSliceKept
<1>10. /\ c.kindStart + c.kindCount <= Len(q.clauseKinds)
       /\ Slice(q.clauseKinds, c.kindStart, c.kindCount) = kinds
  BY SMTT(40), <1>3, <1>6, <1>7, <1>8, IdSliceKept
<1>11. \A j \in DOMAIN ids : ids[j] \in 1..Len(p.remediations)
  <2>1. \A j \in 1..Len(p.clauseRemediations) : p.clauseRemediations[j] \in 1..Len(p.remediations)
    BY <1>1, <1>2 DEF Rows
  <2>2. /\ DOMAIN ids = 1..c.remediationCount
        /\ \A j \in 1..c.remediationCount :
             c.remediationStart + j \in 1..Len(p.clauseRemediations)
               /\ ids[j] = p.clauseRemediations[c.remediationStart + j]
    <3> DEFINE column == p.clauseRemediations
               start == c.remediationStart
               n == c.remediationCount
    <3>1. column \in Seq(Nat) /\ start \in Nat /\ n \in Nat /\ start + n <= Len(column)
      BY <1>6, <1>7, <1>8
    <3> HIDE DEF column, start, n
    <3>2. /\ DOMAIN Slice(column, start, n) = 1..n
          /\ \A j \in 1..n : start + j \in 1..Len(column)
                               /\ Slice(column, start, n)[j] = column[start + j]
      BY ONLY <3>1, IdSlice
    <3> QED BY <3>2 DEF column, start, n
  <2> QED BY <2>1, <2>2
<1>12. \A j \in DOMAIN kinds : kinds[j] \in 1..Len(p.kinds)
  <2>1. \A j \in 1..Len(p.clauseKinds) : p.clauseKinds[j] \in 1..Len(p.kinds)
    BY <1>1, <1>2 DEF Rows
  <2>2. /\ DOMAIN kinds = 1..c.kindCount
        /\ \A j \in 1..c.kindCount :
             c.kindStart + j \in 1..Len(p.clauseKinds) /\ kinds[j] = p.clauseKinds[c.kindStart + j]
    <3> DEFINE column == p.clauseKinds
               start == c.kindStart
               n == c.kindCount
    <3>1. column \in Seq(Nat) /\ start \in Nat /\ n \in Nat /\ start + n <= Len(column)
      BY <1>6, <1>7, <1>8
    <3> HIDE DEF column, start, n
    <3>2. /\ DOMAIN Slice(column, start, n) = 1..n
          /\ \A j \in 1..n : start + j \in 1..Len(column)
                               /\ Slice(column, start, n)[j] = column[start + j]
      BY ONLY <3>1, IdSlice
    <3> QED BY <3>2 DEF column, start, n
  <2> QED BY <2>1, <2>2
<1> HIDE DEF ids, kinds
<1>13. \A j \in DOMAIN ids : RemediationMeaning(q, ids[j]) = RemediationMeaning(p, ids[j])
  BY <1>11, RemediationKept
<1>14. \A j \in DOMAIN kinds : Text(q, q.kinds[kinds[j]]) = Text(p, p.kinds[kinds[j]])
  BY <1>1, <1>12, KindKept
<1>15. \A r \in Reasons : c.explanations[r] \in 0..Len(p.explanations)
  BY SMTT(30), <1>2, <1>7 DEF ValidID
<1>16. \A r \in Reasons : Wording(q, c.explanations[r]) = Wording(p, c.explanations[r])
  BY <1>1, <1>15, WordingKept
<1>17. Text(q, c.symbol) = Text(p, c.symbol)
  <2>1. c.symbol \in 0..Len(p.symbols) BY <1>2, <1>7
  <2> QED BY <1>1, <1>3, <2>1, TextKept
<1>18. ClauseMeaning(q, q.clauses[k]) = ClauseMeaning(p, p.clauses[k])
  <2>1. ClauseMeaning(p, c) =
          [id |-> Text(p, c.symbol), assertion |-> c.root, resolution |-> c.outcomes,
           explanations |-> [r \in Reasons |-> Wording(p, c.explanations[r])],
           remediations |-> [j \in DOMAIN ids |-> RemediationMeaning(p, ids[j])]]
    BY DEF ClauseMeaning, Wording, ids
  <2>2. ClauseMeaning(q, c) =
          [id |-> Text(q, c.symbol), assertion |-> c.root, resolution |-> c.outcomes,
           explanations |-> [r \in Reasons |-> Wording(q, c.explanations[r])],
           remediations |-> [j \in DOMAIN ids |-> RemediationMeaning(q, ids[j])]]
    BY <1>9 DEF ClauseMeaning, Wording
  <2>3. [r \in Reasons |-> Wording(q, c.explanations[r])] = [r \in Reasons |-> Wording(p, c.explanations[r])]
    BY <1>16
  <2>4. [j \in DOMAIN ids |-> RemediationMeaning(q, ids[j])] = [j \in DOMAIN ids |-> RemediationMeaning(p, ids[j])]
    BY <1>13
  <2> QED BY <1>4, <1>17, <2>1, <2>2, <2>3, <2>4 DEF c
<1>19. KindsOf(q, q.clauses[k]) = KindsOf(p, p.clauses[k])
  <2>1. KindsOf(p, c) = [j \in DOMAIN kinds |-> Text(p, p.kinds[kinds[j]])] BY DEF KindsOf, kinds
  <2>2. KindsOf(q, c) = [j \in DOMAIN kinds |-> Text(q, q.kinds[kinds[j]])] BY <1>10 DEF KindsOf
  <2> QED BY <1>4, <1>14, <2>1, <2>2 DEF c
<1>20. ValidClause(q, c)
  <2>1. c.symbol \in 1..Len(q.symbols) /\ c.root \in 1..Len(q.code)
    <3>1. Len(p.symbols) <= Len(q.symbols) /\ Len(p.code) <= Len(q.code) BY <1>3 DEF Prefix
    <3>2. c.symbol \in 1..Len(p.symbols) /\ c.root \in 1..Len(p.code) BY <1>7
    <3> QED BY SMTT(40), <1>2, <3>1, <3>2
  <2>2. \A r \in Reasons : \/ ValidID(c.explanations[r], q.explanations)
                           \/ c.explanations[r] = 0 /\ c.outcomes[r] = OutcomeApprove
    <3> DEFINE a == Len(p.explanations)
               b == Len(q.explanations)
    <3>1. a \in Nat /\ b \in Nat /\ a <= b BY <1>2, <1>3 DEF Prefix
    <3>2. \A r \in Reasons : \/ c.explanations[r] \in 1..a
                             \/ c.explanations[r] = 0 /\ c.outcomes[r] = OutcomeApprove
      BY <1>7 DEF ValidID
    <3> HIDE DEF a, b
    <3>3. \A x \in 1..a : x \in 1..b BY <3>1
    <3> QED BY <3>2, <3>3 DEF a, b, ValidID
  <2> QED BY <1>7, <1>9, <1>10, <2>1, <2>2 DEF ValidClause, ValidID, ValidRange
<1> QED BY <1>4, <1>18, <1>19, <1>20 DEF c

\* Rows that were there stay valid while columns grow.
LEMMA RowsKept ==
  ASSUME NEW p, Sound(p), NEW q \in Programs, Grown(p, q)
  PROVE  /\ \A k \in 1..Len(p.setValues) : q.setValues[k] \in 1..Len(q.symbols)
         /\ \A k \in 1..Len(p.specs) : ValidSpec(q, q.specs[k])
         /\ \A k \in 1..Len(p.remediations) : ValidRemediationSpec(q, q.remediations[k])
         /\ \A k \in 1..Len(p.clauseKinds) : q.clauseKinds[k] \in 1..Len(q.kinds)
         /\ \A k \in 1..Len(p.clauseRemediations) : q.clauseRemediations[k] = k
         /\ \A k \in 1..Len(p.clauses) : ValidClause(q, q.clauses[k])
PROOF
<1>1. p \in Programs /\ Catalogued(p) /\ Rows(p) BY DEF Sound
<1>2. /\ Len(p.symbols) \in Nat /\ Len(q.symbols) \in Nat /\ Len(p.kinds) \in Nat /\ Len(q.kinds) \in Nat
  BY <1>1, Lengths
<1>3. \A k \in 1..Len(p.setValues) : q.setValues[k] \in 1..Len(q.symbols)
  <2> TAKE k \in 1..Len(p.setValues)
  <2>1. q.setValues[k] = p.setValues[k] BY GrownIs DEF Prefix
  <2>2. p.setValues[k] \in 1..Len(p.symbols) BY <1>1 DEF Rows
  <2>3. Len(p.symbols) <= Len(q.symbols) BY GrownIs DEF Prefix
  <2> QED BY <1>2, <2>1, <2>2, <2>3
<1>4. \A k \in 1..Len(p.specs) : ValidSpec(q, q.specs[k])
  <2> TAKE k \in 1..Len(p.specs)
  <2>1. q.specs[k] = p.specs[k] BY GrownIs DEF Prefix
  <2>2. p.specs[k] \in Specs /\ ValidSpec(p, p.specs[k]) BY <1>1, Columns, ElementOfSeq DEF Rows
  <2> QED BY <1>1, <2>1, <2>2, SpecKept
<1>5. \A k \in 1..Len(p.clauseKinds) : q.clauseKinds[k] \in 1..Len(q.kinds)
  <2> TAKE k \in 1..Len(p.clauseKinds)
  <2>1. q.clauseKinds[k] = p.clauseKinds[k] BY GrownIs DEF Prefix
  <2>2. p.clauseKinds[k] \in 1..Len(p.kinds) BY <1>1 DEF Rows
  <2>3. Len(p.kinds) <= Len(q.kinds) BY GrownIs DEF Prefix
  <2> QED BY <1>2, <2>1, <2>2, <2>3
<1>6. \A k \in 1..Len(p.clauseRemediations) : q.clauseRemediations[k] = k
  <2> TAKE k \in 1..Len(p.clauseRemediations)
  <2>1. q.clauseRemediations[k] = p.clauseRemediations[k] BY GrownIs DEF Prefix
  <2> QED BY <1>1, <2>1 DEF Rows
<1>7. \A k \in 1..Len(p.remediations) : ValidRemediationSpec(q, q.remediations[k])
  BY RemediationKept
<1>8. \A k \in 1..Len(p.clauses) : ValidClause(q, q.clauses[k])
  BY ClauseKept
<1> QED BY <1>3, <1>4, <1>5, <1>6, <1>7, <1>8

LEMMA SoundWider ==
  ASSUME NEW p, Sound(p), NEW q, Wider(p, q)
  PROVE  Sound(q)
PROOF
<1>1. p \in Programs /\ Rows(p) BY DEF Sound
<1>2. q \in Programs /\ Grown(p, q) /\ Catalogued(q) /\ SameRows(p, q) BY <1>1, WiderGrown DEF Wider
<1> QED BY <1>1, <1>2, RowsKept DEF Sound, Rows, SameRows

\* schema.LookupField: an ID of a name in the list, 0 for another.
LEMMA LookupIs ==
  ASSUME NEW name, LookupField(name) > 0
  PROVE  /\ LookupField(name) \in 1..Len(FieldNames) /\ FieldNames[LookupField(name)] = name
         /\ LookupField(name) \in 0..Len(FieldNames) /\ LookupField(name) # 0
PROOF
<1>1. FieldNames \in Seq(Texts) BY CompilerAssumption
<1>2. LookupField(name) = Index(FieldNames, name) BY DEF LookupField, Index
<1>3. /\ Index(FieldNames, name) \in 0..Len(FieldNames) /\ Len(FieldNames) \in Nat
      /\ name \in Range(FieldNames) =>
           Index(FieldNames, name) \in 1..Len(FieldNames) /\ FieldNames[Index(FieldNames, name)] = name
      /\ name \notin Range(FieldNames) => Index(FieldNames, name) = 0
  BY <1>1, IndexIs
<1> QED BY <1>2, <1>3

LEMMA NotBlank ==
  ASSUME NEW text, ~Blank(text)
  PROVE  text # NoSymbol
BY CompilerAssumption DEF Blank

\* The columns a remediation leaves alone.
SameBut(p, q) ==
  /\ q.specs = p.specs /\ q.setValues = p.setValues /\ q.operands = p.operands
  /\ q.code = p.code /\ q.requirements = p.requirements /\ q.clauseIDs = p.clauseIDs
  /\ q.clauses = p.clauses /\ q.clauseKinds = p.clauseKinds

Cured(p, c, d) == [p EXCEPT !.remediations = c, !.clauseRemediations = d]

\* What appending to those two columns leaves alone.
LEMMA NewRemediation ==
  ASSUME NEW p \in Programs, NEW c \in Seq(Cures), NEW d \in Seq(Nat)
  PROVE  LET q == Cured(p, c, d) IN
         /\ q \in Programs /\ q.remediations = c /\ q.clauseRemediations = d /\ SameBut(p, q)
         /\ q.symbols = p.symbols /\ q.kinds = p.kinds /\ q.explanations = p.explanations
BY DEF Programs, SameBut, Cured

\* A remediation is compiled to one row, which says what the policy says.
LEMMA WithRemediationIs ==
  ASSUME NEW p, Sound(p), NEW m \in Remedies, ValidRemediation(m),
         Len(p.explanations) + 1 <= MaxPolicyBytes, Len(p.remediations) + 1 <= MaxPolicyBytes
  PROVE  LET r == WithRemediation(p, m) IN
         /\ Sound(r) /\ Grown(p, r) /\ SameBut(p, r)
         /\ Len(r.remediations) = Len(p.remediations) + 1
         /\ Len(r.explanations) <= Len(p.explanations) + 1
         /\ RemediationMeaning(r, Len(p.remediations) + 1) = m
PROOF
<1> DEFINE adds == m.action = "add_evidence"
           d == WithExplanation(p, m.description)
           q == IF adds THEN WithKind(d, m.evidenceKind) ELSE Intern(d, m.value)
           spec == [action |-> m.action, description |-> ExplanationID(q, m.description),
                    kind   |-> IF adds THEN KindID(q, m.evidenceKind) ELSE 0,
                    field  |-> IF adds THEN 0 ELSE LookupField(m.field),
                    value  |-> IF adds THEN 0 ELSE Symbol(q, m.value)]
           n == Len(p.remediations)
           r == WithRemediation(p, m)
<1>1. /\ p \in Programs /\ Catalogued(p) /\ Rows(p) /\ n \in Nat /\ Len(p.explanations) \in Nat
      /\ MaxPolicyBytes \in Nat
  BY Lengths, CompilerAssumption DEF Sound
<1>2. /\ m.action \in STRING /\ m.description \in Texts /\ m.evidenceKind \in Texts
      /\ m.field \in Texts /\ m.value \in Texts
      /\ m = [action |-> m.action, description |-> m.description, evidenceKind |-> m.evidenceKind,
              field |-> m.field, value |-> m.value]
  BY DEF Remedies
<1>3. /\ adds => /\ m.evidenceKind # NoSymbol /\ m.evidenceKind \in EvidenceKinds
                 /\ m.field = NoSymbol /\ m.value = NoSymbol
      /\ ~adds => /\ m.action = "set_field" /\ m.value # NoSymbol
                  /\ LookupField(m.field) > 0 /\ m.evidenceKind = NoSymbol
  BY NotBlank DEF ValidRemediation, AddsEvidence, SetsField, ValidFieldValue
<1>4. /\ Wider(p, d) /\ Worded(d, m.description) /\ Len(d.explanations) <= Len(p.explanations) + 1
  BY <1>1, <1>2, WithExplanationIs
<1>5. d \in Programs /\ Catalogued(d) BY <1>4 DEF Wider
<1> HIDE DEF d
<1>6. /\ Wider(d, q) /\ q.explanations = d.explanations
      /\ adds => KnownKind(q, m.evidenceKind)
      /\ ~adds => Known(q, m.value)
  <2>1. CASE adds
    <3>1. q = WithKind(d, m.evidenceKind) BY <2>1
    <3>2. /\ Wider(d, WithKind(d, m.evidenceKind)) /\ KnownKind(WithKind(d, m.evidenceKind), m.evidenceKind)
          /\ WithKind(d, m.evidenceKind).explanations = d.explanations
      BY <1>2, <1>3, <1>5, <2>1, WithKindIs
    <3> HIDE DEF q
    <3> QED BY <2>1, <3>1, <3>2
  <2>2. CASE ~adds
    <3>1. q = Intern(d, m.value) BY <2>2
    <3>2. /\ Wider(d, Intern(d, m.value)) /\ Known(Intern(d, m.value), m.value)
          /\ Intern(d, m.value).explanations = d.explanations
      BY <1>2, <1>5, InternIs
    <3> HIDE DEF q
    <3> QED BY <2>2, <3>1, <3>2
  <2> QED BY <2>1, <2>2
<1>7. Wider(p, q) BY <1>1, <1>4, <1>6, WiderTrans
<1>8. /\ q \in Programs /\ Catalogued(q) /\ Sound(q) /\ Grown(p, q) /\ SameRows(p, q)
  BY <1>1, <1>7, SoundWider, WiderGrown DEF Wider
<1>9. /\ q.remediations \in Seq(Cures) /\ q.clauseRemediations \in Seq(Nat)
      /\ Len(q.remediations) = n /\ Len(q.clauseRemediations) = n /\ Len(q.explanations) \in Nat
      /\ Len(q.symbols) \in Nat /\ Len(q.kinds) \in Nat
  BY <1>1, <1>8, Columns, Lengths DEF SameRows, Rows
<1>10. Worded(q, m.description) BY <1>4, <1>5, <1>6, <1>8, WordedKept DEF Wider
<1>11. Len(q.explanations) <= MaxPolicyBytes BY <1>1, <1>4, <1>6, <1>9
<1> DEFINE c == Append(q.remediations, spec)
           e == Append(q.clauseRemediations, TextID(n + 1))
<1>12. r = Cured(q, c, e)
  BY <1>9 DEF WithRemediation, Cured, d
<1> HIDE DEF q, r
<1>13. /\ spec.action = m.action /\ spec.description = ExplanationID(q, m.description)
       /\ spec.kind = IF adds THEN KindID(q, m.evidenceKind) ELSE 0
       /\ spec.field = IF adds THEN 0 ELSE LookupField(m.field)
       /\ spec.value = IF adds THEN 0 ELSE Symbol(q, m.value)
  OBVIOUS
<1>14. /\ spec.description \in 0..Len(q.explanations) /\ spec.description \in Nat
       /\ Wording(q, spec.description) = m.description
  BY <1>8, <1>10, <1>11, <1>13, ExplanationIDIs
<1>15. ASSUME adds
       PROVE  /\ spec.kind \in 1..Len(q.kinds) /\ spec.kind \in Nat /\ spec.kind # 0
              /\ Text(q, q.kinds[spec.kind]) = m.evidenceKind
              /\ spec.field = 0 /\ spec.value = 0
  <2>1. spec.kind = KindID(q, m.evidenceKind) /\ spec.field = 0 /\ spec.value = 0 BY <1>13, <1>15
  <2>2. /\ KindID(q, m.evidenceKind) \in 1..Len(q.kinds) /\ KindID(q, m.evidenceKind) \in Nat
        /\ Text(q, q.kinds[KindID(q, m.evidenceKind)]) = m.evidenceKind
    BY <1>6, <1>8, <1>15, KindIDIs
  <2> QED BY <1>9, <2>1, <2>2
<1>16. ASSUME ~adds
       PROVE  /\ spec.kind = 0
              /\ spec.field \in 1..Len(FieldNames) /\ FieldNames[spec.field] = m.field
              /\ spec.field # 0 /\ spec.field \in 0..Len(FieldNames)
              /\ spec.value \in 1..Len(q.symbols) /\ spec.value \in Nat
              /\ Text(q, spec.value) = m.value
  <2>1. spec.kind = 0 /\ spec.field = LookupField(m.field) /\ spec.value = Symbol(q, m.value)
    BY <1>13, <1>16
  <2>2. Symbol(q, m.value) \in 1..Len(q.symbols) /\ Symbol(q, m.value) \in Nat
        /\ Text(q, Symbol(q, m.value)) = m.value
    BY <1>3, <1>6, <1>8, <1>16, SymbolIs
  <2>3. /\ LookupField(m.field) \in 1..Len(FieldNames) /\ FieldNames[LookupField(m.field)] = m.field
        /\ LookupField(m.field) \in 0..Len(FieldNames) /\ LookupField(m.field) # 0
    BY <1>3, <1>16, LookupIs
  <2> QED BY <2>1, <2>2, <2>3
<1>17. spec.field \in 0..Len(FieldNames)
  <2>1. FieldNames \in Seq(Texts) /\ Len(FieldNames) \in Nat BY CompilerAssumption, LenProperties
  <2>2. CASE adds
    <3>1. spec.field = 0 BY <1>15, <2>2
    <3> HIDE DEF spec
    <3> QED BY <2>1, <3>1
  <2>3. CASE ~adds BY <1>16, <2>3
  <2> QED BY <2>2, <2>3
<1>18. spec.kind \in Nat /\ spec.value \in Nat
  <2>1. CASE adds BY <1>15, <2>1
  <2>2. CASE ~adds BY <1>16, <2>2
  <2> QED BY <2>1, <2>2
<1>19. spec \in Cures
  <2>1. spec = [action |-> m.action, description |-> spec.description, kind |-> spec.kind,
                field |-> spec.field, value |-> spec.value]
    OBVIOUS
  <2> HIDE DEF spec
  <2> QED BY <1>2, <1>14, <1>17, <1>18, <2>1 DEF Cures
<1> HIDE DEF spec, adds
<1>20. /\ c \in Seq(Cures) /\ Len(c) = n + 1 /\ \A k \in 1..n : c[k] = q.remediations[k]
       /\ c[n + 1] = spec /\ Prefix(q.remediations, c)
  BY SMTT(30), <1>9, <1>19, AppendIs
<1>21. TextID(n + 1) = n + 1 /\ n + 1 \in Nat
  <2>1. n + 1 \in Nat /\ n + 1 <= MaxPolicyBytes BY <1>1
  <2> HIDE DEF n
  <2> QED BY <2>1, TextIDIs
<1>22. /\ e \in Seq(Nat) /\ Len(e) = n + 1 /\ \A k \in 1..n : e[k] = q.clauseRemediations[k]
       /\ e[n + 1] = n + 1 /\ Prefix(q.clauseRemediations, e)
  BY <1>9, <1>21, AppendIs
<1> HIDE DEF c, e
<1>23. /\ r \in Programs /\ r.remediations = c /\ r.clauseRemediations = e /\ SameBut(q, r)
       /\ r.symbols = q.symbols /\ r.kinds = q.kinds /\ r.explanations = q.explanations
  <2>1. q \in Programs /\ c \in Seq(Cures) /\ e \in Seq(Nat) BY <1>8, <1>20, <1>22
  <2> QED BY ONLY <2>1, <1>12, NewRemediation
<1>24. Catalogued(r) BY <1>8, <1>23 DEF Catalogued
<1>25. Grown(q, r)
  <2>1. /\ Prefix(q.symbols, r.symbols) /\ Prefix(q.kinds, r.kinds)
        /\ Prefix(q.explanations, r.explanations) /\ Prefix(q.specs, r.specs)
        /\ Prefix(q.setValues, r.setValues) /\ Prefix(q.operands, r.operands)
        /\ Prefix(q.code, r.code) /\ Prefix(q.requirements, r.requirements)
        /\ Prefix(q.clauseIDs, r.clauseIDs) /\ Prefix(q.clauses, r.clauses)
        /\ Prefix(q.clauseKinds, r.clauseKinds)
    BY <1>8, <1>23, Columns, SeqShape DEF SameBut
  <2> QED BY <1>20, <1>22, <1>23, <2>1, GrownIs
<1>26. Grown(p, r) BY <1>1, <1>8, <1>23, <1>25, GrownTrans
<1>27. SameBut(p, r) BY <1>8, <1>23 DEF SameBut, SameRows
<1>28. r.remediations[n + 1] = spec BY <1>20, <1>23
<1>29. ValidRemediationSpec(r, spec)
  <2>1. spec.description \in 0..Len(r.explanations) BY <1>14, <1>23
  <2>2. CASE adds
    <3>1. /\ spec.action = "add_evidence" /\ spec.kind \in 1..Len(r.kinds)
          /\ spec.field = 0 /\ spec.value = 0
      BY <1>13, <1>15, <1>23, <2>2 DEF adds
    <3> QED BY <2>1, <3>1 DEF ValidRemediationSpec, ValidID
  <2>3. CASE ~adds
    <3>1. /\ spec.action = "set_field" /\ spec.kind = 0
          /\ spec.field \in 1..Len(FieldNames) /\ spec.value \in 1..Len(r.symbols)
      BY <1>3, <1>13, <1>16, <1>23, <2>3
    <3> QED BY <2>1, <3>1 DEF ValidRemediationSpec, ValidID
  <2> QED BY <2>2, <2>3
<1>30. Rows(r)
  <2>1. /\ \A k \in 1..Len(q.setValues) : r.setValues[k] \in 1..Len(r.symbols)
        /\ \A k \in 1..Len(q.specs) : ValidSpec(r, r.specs[k])
        /\ \A k \in 1..Len(q.remediations) : ValidRemediationSpec(r, r.remediations[k])
        /\ \A k \in 1..Len(q.clauseKinds) : r.clauseKinds[k] \in 1..Len(r.kinds)
        /\ \A k \in 1..Len(q.clauseRemediations) : r.clauseRemediations[k] = k
        /\ \A k \in 1..Len(q.clauses) : ValidClause(r, r.clauses[k])
    BY <1>8, <1>23, <1>25, RowsKept
  <2>2. \A k \in 1..(n + 1) : k \in 1..n \/ k = n + 1 BY <1>1
  <2>3. \A k \in 1..(n + 1) : r.clauseRemediations[k] = k BY <1>9, <1>22, <1>23, <2>1, <2>2
  <2>4. \A k \in 1..(n + 1) : ValidRemediationSpec(r, r.remediations[k])
    BY <1>9, <1>28, <1>29, <2>1, <2>2
  <2> QED BY <1>20, <1>22, <1>23, <2>1, <2>3, <2>4 DEF Rows, SameBut
<1>31. RemediationMeaning(r, n + 1) = m
  <2>1. RemediationMeaning(r, n + 1) =
          [action |-> spec.action, description |-> Wording(q, spec.description),
           evidenceKind |-> IF spec.kind = 0 THEN NoSymbol ELSE Text(q, q.kinds[spec.kind]),
           field |-> IF spec.field = 0 THEN NoSymbol ELSE FieldNames[spec.field],
           value |-> Text(q, spec.value)]
    BY <1>23, <1>28 DEF RemediationMeaning, Wording, Text
  <2>2. /\ (IF spec.kind = 0 THEN NoSymbol ELSE Text(q, q.kinds[spec.kind])) = m.evidenceKind
        /\ (IF spec.field = 0 THEN NoSymbol ELSE FieldNames[spec.field]) = m.field
        /\ Text(q, spec.value) = m.value
    <3>1. CASE adds BY <1>3, <1>15, <3>1 DEF Text
    <3>2. CASE ~adds BY <1>3, <1>16, <3>2
    <3> QED BY <3>1, <3>2
  <2> QED BY <1>2, <1>13, <1>14, <2>1, <2>2
<1>32. Len(r.remediations) = n + 1 /\ Len(r.explanations) <= Len(p.explanations) + 1
  BY <1>4, <1>6, <1>20, <1>23
<1> QED BY <1>23, <1>24, <1>26, <1>27, <1>30, <1>31, <1>32 DEF Sound, r, n

\* The remediations of a clause are compiled to one row each, in their order.
LEMMA RemedyAllIs ==
  ASSUME NEW p, Sound(p), NEW ms \in Seq(Remedies), \A k \in 1..Len(ms) : ValidRemediation(ms[k]),
         Len(p.explanations) + Len(ms) <= MaxPolicyBytes,
         Len(p.remediations) + Len(ms) <= MaxPolicyBytes
  PROVE  LET q == RemedyAll(p, ms) IN
         /\ Sound(q) /\ Grown(p, q) /\ SameBut(p, q)
         /\ Len(q.remediations) = Len(p.remediations) + Len(ms)
         /\ Len(q.explanations) <= Len(p.explanations) + Len(ms)
         /\ \A k \in 1..Len(ms) : RemediationMeaning(q, Len(p.remediations) + k) = ms[k]
PROOF
<1> DEFINE m == Len(ms)
           a == Len(p.explanations)
           n == Len(p.remediations)
           S == {q \in Programs : Sound(q)}
           Good(q, k) ==
             /\ Sound(q) /\ Grown(p, q) /\ SameBut(p, q)
             /\ Len(q.remediations) = n + k /\ Len(q.explanations) <= a + k
             /\ \A j \in 1..k : RemediationMeaning(q, n + j) = ms[j]
           step == [x \in (1..m) \X S |-> IF WithRemediation(x[2], ms[x[1]]) \in S
                                          THEN WithRemediation(x[2], ms[x[1]]) ELSE x[2]]
           Defines(u) == u = [k \in 0..m |-> IF k = 0 THEN p ELSE WithRemediation(u[k - 1], ms[k])]
           upTo == CHOOSE u : Defines(u)
<1>1. /\ m \in Nat /\ a \in Nat /\ n \in Nat /\ MaxPolicyBytes \in Nat /\ p \in Programs
      /\ \A k \in 1..m : ms[k] \in Remedies /\ ValidRemediation(ms[k])
      /\ a + m <= MaxPolicyBytes /\ n + m <= MaxPolicyBytes
  BY SeqShape, Lengths, CompilerAssumption DEF Sound
<1> HIDE DEF m, a, n
<1>2. ASSUME NEW k \in 1..m, NEW q, Good(q, k - 1) PROVE Good(WithRemediation(q, ms[k]), k)
  <2> DEFINE r == WithRemediation(q, ms[k])
  <2>1. q \in Programs /\ Len(q.explanations) \in Nat /\ Len(q.remediations) \in Nat
    BY <1>2, Lengths DEF Sound
  <2>2. /\ Len(q.explanations) + 1 <= MaxPolicyBytes /\ Len(q.remediations) + 1 <= MaxPolicyBytes
        /\ Len(q.remediations) + 1 = n + k
    BY <1>1, <1>2, <2>1
  <2>3. /\ Sound(r) /\ Grown(q, r) /\ SameBut(q, r)
        /\ Len(r.remediations) = Len(q.remediations) + 1
        /\ Len(r.explanations) <= Len(q.explanations) + 1
        /\ RemediationMeaning(r, Len(q.remediations) + 1) = ms[k]
    BY <1>1, <1>2, <2>2, WithRemediationIs
  <2> HIDE DEF r
  <2>4. r \in Programs /\ Grown(p, r) /\ Len(r.explanations) \in Nat
    BY <1>1, <1>2, <2>1, <2>3, GrownTrans, Lengths DEF Sound
  <2>5. SameBut(p, r) BY <1>2, <2>3 DEF SameBut
  <2>6. Len(r.explanations) <= a + k BY <1>1, <1>2, <2>1, <2>3, <2>4
  <2>7. ASSUME NEW j \in 1..k PROVE RemediationMeaning(r, n + j) = ms[j]
    <3>1. CASE j = k BY <2>2, <2>3, <3>1
    <3>2. CASE j # k
      <4>1. j \in 1..(k - 1) /\ n + j \in 1..Len(q.remediations) BY <1>1, <1>2, <3>2
      <4>2. RemediationMeaning(r, n + j) = RemediationMeaning(q, n + j)
        BY <1>2, <2>3, <2>4, <4>1, RemediationKept
      <4> QED BY <1>2, <4>1, <4>2
    <3> QED BY <3>1, <3>2
  <2> QED BY <2>2, <2>3, <2>4, <2>5, <2>6, <2>7 DEF r
<1>3. Good(p, 0) BY <1>1, GrownSelf DEF SameBut, n, a
<1>4. ASSUME NEW q, NEW k, Good(q, k) PROVE q \in S BY <1>4 DEF Sound
<1> HIDE DEF Good
<1>5. p \in S BY <1>3, <1>4
<1>6. /\ step \in [(1..m) \X S -> S]
      /\ \A k \in 1..m, q \in S : WithRemediation(q, ms[k]) \in S =>
           step[<<k, q>>] = WithRemediation(q, ms[k])
  <2> HIDE DEF S
  <2> QED OBVIOUS
<1> HIDE DEF step, S
<1>7. PICK g \in [0..m -> S] : g[0] = p /\ \A k \in 1..m : g[k] = step[<<k, g[k - 1]>>]
  <2>1. PICK g : Runs(g, m, S, p, step) BY <1>1, <1>5, <1>6, StepsExist
  <2> QED BY <2>1 DEF Runs
<1>8. \A k \in 0..m : Good(g[k], k)
  <2> DEFINE T == {k \in 0..m : Good(g[k], k)}
  <2>1. 0 \in T BY <1>1, <1>3, <1>7
  <2>2. ASSUME NEW k \in 1..m, k - 1 \in T PROVE k \in T
    <3>1. k - 1 \in 0..m /\ k \in 0..m BY <1>1
    <3>2. g[k - 1] \in S /\ Good(g[k - 1], k - 1) BY <1>7, <2>2, <3>1
    <3>3. Good(WithRemediation(g[k - 1], ms[k]), k) BY <1>2, <3>2
    <3>4. g[k] = WithRemediation(g[k - 1], ms[k]) BY <1>4, <1>6, <1>7, <3>2, <3>3
    <3> QED BY <3>1, <3>3, <3>4
  <2> HIDE DEF T
  <2>3. \A k \in 0..m : k \in T BY <1>1, <2>1, <2>2, Upward
  <2> QED BY <2>3 DEF T
<1>9. Defines(g)
  <2>1. ASSUME NEW k \in 0..m PROVE g[k] = IF k = 0 THEN p ELSE WithRemediation(g[k - 1], ms[k])
    <3>1. CASE k = 0 BY <1>7, <3>1
    <3>2. CASE k # 0
      <4>1. k \in 1..m /\ k - 1 \in 0..m BY <1>1, <3>2
      <4>2. Good(WithRemediation(g[k - 1], ms[k]), k) BY <1>2, <1>8, <4>1
      <4> QED BY <1>4, <1>6, <1>7, <3>2, <4>1, <4>2
    <3> QED BY <3>1, <3>2
  <2> QED BY <1>7, <2>1
<1>10. Defines(upTo) BY <1>9
<1> HIDE DEF upTo
<1>11. upTo[0] = p /\ \A k \in 1..m : upTo[k] = WithRemediation(upTo[k - 1], ms[k])
  <2>1. \A k \in 0..m : upTo[k] = IF k = 0 THEN p ELSE WithRemediation(upTo[k - 1], ms[k]) BY <1>10
  <2>2. 0 \in 0..m /\ \A k \in 1..m : k \in 0..m /\ k # 0 BY <1>1
  <2> QED BY <2>1, <2>2
<1>12. Good(upTo[m], m)
  <2> DEFINE T == {k \in 0..m : Good(upTo[k], k)}
  <2>1. 0 \in T BY <1>1, <1>3, <1>11
  <2>2. ASSUME NEW k \in 1..m, k - 1 \in T PROVE k \in T
    <3>1. k \in 0..m BY <1>1
    <3> QED BY <1>2, <1>11, <2>2, <3>1
  <2> HIDE DEF T
  <2>3. \A k \in 0..m : k \in T BY <1>1, <2>1, <2>2, Upward
  <2>4. m \in 0..m BY <1>1
  <2> QED BY <2>3, <2>4 DEF T
<1>13. RemedyAll(p, ms) = upTo[m] BY DEF RemedyAll, upTo, m
<1> QED BY <1>12, <1>13 DEF Good, m, n, a

-----------------------------------------------------------------------------
(* Instructions.                                                           *)

\* What the payload of an instruction leaves alone.
SameCode(p, q) ==
  /\ q.operands = p.operands /\ q.code = p.code /\ q.requirements = p.requirements
  /\ q.clauseIDs = p.clauseIDs /\ q.clauses = p.clauses /\ q.clauseKinds = p.clauseKinds
  /\ q.clauseRemediations = p.clauseRemediations /\ q.remediations = p.remediations
  /\ q.explanations = p.explanations

Valued(p, c)    == [p EXCEPT !.setValues = c]
Specified(p, c) == [p EXCEPT !.specs = c]

LEMMA NewValues ==
  ASSUME NEW p \in Programs, NEW c \in Seq(Nat)
  PROVE  LET q == Valued(p, c) IN
         /\ q \in Programs /\ q.setValues = c /\ SameCode(p, q) /\ q.specs = p.specs
         /\ q.symbols = p.symbols /\ q.kinds = p.kinds
BY DEF Programs, SameCode, Valued

LEMMA NewSpecs ==
  ASSUME NEW p \in Programs, NEW c \in Seq(Specs)
  PROVE  LET q == Specified(p, c) IN
         /\ q \in Programs /\ q.specs = c /\ SameCode(p, q) /\ q.setValues = p.setValues
         /\ q.symbols = p.symbols /\ q.kinds = p.kinds
BY DEF Programs, SameCode, Specified

LEMMA WiderSame ==
  ASSUME NEW p, NEW q, Wider(p, q), q.explanations = p.explanations
  PROVE  SameCode(p, q) /\ q.specs = p.specs /\ q.setValues = p.setValues
BY DEF Wider, SameRows, SameCode

LEMMA SameGrown ==
  ASSUME NEW p \in Programs, NEW q \in Programs, SameCode(p, q),
         Prefix(p.symbols, q.symbols), Prefix(p.kinds, q.kinds),
         Prefix(p.specs, q.specs), Prefix(p.setValues, q.setValues)
  PROVE  Grown(p, q)
PROOF
<1>1. /\ Prefix(p.operands, q.operands) /\ Prefix(p.code, q.code)
      /\ Prefix(p.requirements, q.requirements) /\ Prefix(p.clauseIDs, q.clauseIDs)
      /\ Prefix(p.clauses, q.clauses) /\ Prefix(p.clauseKinds, q.clauseKinds)
  BY Columns, SeqShape DEF SameCode
<1>2. /\ Prefix(p.clauseRemediations, q.clauseRemediations)
      /\ Prefix(p.remediations, q.remediations) /\ Prefix(p.explanations, q.explanations)
  BY Columns, SeqShape DEF SameCode
<1> QED BY <1>1, <1>2, GrownIs

\* The IDs of texts read as the texts.
LEMMA SymbolsOf ==
  ASSUME NEW p \in Programs, Catalogued(p), NEW texts,
         \A k \in DOMAIN texts : Known(p, texts[k]),
         texts = [k \in DOMAIN texts |-> texts[k]]
  PROVE  LET ids == [k \in DOMAIN texts |-> Symbol(p, texts[k])] IN
         /\ TextsOf(p, ids) = texts
         /\ \A k \in DOMAIN texts : /\ ids[k] \in 0..Len(p.symbols) /\ ids[k] \in Nat
                                    /\ texts[k] # NoSymbol => ids[k] \in 1..Len(p.symbols)
PROOF
<1> DEFINE ids == [k \in DOMAIN texts |-> Symbol(p, texts[k])]
<1>1. DOMAIN ids = DOMAIN texts /\ \A k \in DOMAIN texts : ids[k] = Symbol(p, texts[k]) OBVIOUS
<1> HIDE DEF ids
<1>2. \A k \in DOMAIN texts : Text(p, ids[k]) = texts[k] BY <1>1, SymbolIs
<1>3. TextsOf(p, ids) = [k \in DOMAIN texts |-> texts[k]] BY <1>1, <1>2 DEF TextsOf
<1>4. TextsOf(p, ids) = texts BY <1>3
<1> QED BY <1>1, <1>4, SymbolIs DEF ids

\* What an `in` adds: its values, each by the symbol of its text.
LEMMA InPayload ==
  ASSUME NEW p, Sound(p), NEW node \in Expressions, node.op = "in", ValidIn(node)
  PROVE  LET q == WithPayload(p, node) IN
         /\ Sound(q) /\ Grown(p, q) /\ SameCode(p, q) /\ q.specs = p.specs
         /\ Len(q.setValues) = Len(p.setValues) + Len(node.values)
         /\ TextsOf(q, Slice(q.setValues, Len(p.setValues), Len(node.values))) = node.values
PROOF
<1> DEFINE u == InternAll(p, node.values)
           ids == [k \in DOMAIN node.values |-> Symbol(u, node.values[k])]
           n == Len(node.values)
           q == WithPayload(p, node)
<1>1. p \in Programs /\ Catalogued(p) /\ Rows(p) BY DEF Sound
<1>2. /\ node.values \in Seq(Texts) /\ n \in Nat /\ DOMAIN node.values = 1..n
      /\ node.values = [k \in DOMAIN node.values |-> node.values[k]]
  <2>1. node.values \in Seq(Texts) BY DEF Expressions
  <2> QED BY <2>1, SeqShape
<1>3. \A k \in 1..n : node.values[k] # NoSymbol
  <2> TAKE k \in 1..n
  <2>1. node.values[k] \in Range(node.values) BY <1>2, RangeIs
  <2> QED BY <2>1, NotBlank DEF ValidIn
<1>4. /\ Wider(p, u) /\ u.kinds = p.kinds /\ u.explanations = p.explanations
      /\ \A k \in 1..n : Known(u, node.values[k])
  BY <1>1, <1>2, InternAllIs
<1>5. q = Valued(u, u.setValues \o ids) BY DEF WithPayload, Valued
<1> HIDE DEF u, q
<1>6. u \in Programs /\ Catalogued(u) /\ Sound(u) /\ SameCode(p, u) /\ u.specs = p.specs
        /\ u.setValues = p.setValues /\ Grown(p, u)
  BY <1>1, <1>4, SoundWider, WiderSame, WiderGrown DEF Wider
<1>7. /\ TextsOf(u, ids) = node.values
      /\ \A k \in 1..n : ids[k] \in 1..Len(u.symbols) /\ ids[k] \in Nat
  BY <1>2, <1>3, <1>4, <1>6, SymbolsOf
<1>8. DOMAIN ids = 1..n /\ ids \in [1..n -> Nat] BY <1>2, <1>7
<1> HIDE DEF ids
<1>9. ids \in Seq(Nat) /\ Len(ids) = n
  <2> HIDE DEF n
  <2> QED BY <1>2, <1>8, FunctionIsSeq
<1> DEFINE c == u.setValues \o ids
           a == Len(u.setValues)
<1>10. u.setValues \in Seq(Nat) BY <1>6, Columns
<1>11. /\ c \in Seq(Nat) /\ Len(c) = a + n /\ a \in Nat /\ Prefix(u.setValues, c)
       /\ \A k \in 1..n : c[a + k] = ids[k]
  <2> DEFINE base == u.setValues
  <2>1. base \in Seq(Nat) /\ ids \in Seq(Nat) BY <1>9, <1>10
  <2> HIDE DEF base, n
  <2>2. /\ base \o ids \in Seq(Nat) /\ Len(base \o ids) = Len(base) + Len(ids)
        /\ Len(base) \in Nat /\ Prefix(base, base \o ids)
        /\ \A k \in 1..Len(ids) : (base \o ids)[Len(base) + k] = ids[k]
    BY ONLY <2>1, ConcatIs
  <2> QED BY <1>9, <2>2 DEF base
<1>12. Slice(c, a, n) = ids BY <1>9, <1>10, SliceOfTail
<1> HIDE DEF c
<1>13. /\ q \in Programs /\ q.setValues = c /\ SameCode(u, q) /\ q.specs = u.specs
       /\ q.symbols = u.symbols /\ q.kinds = u.kinds
  BY <1>5, <1>6, <1>11, NewValues DEF c
<1>14. SameCode(p, q) BY <1>6, <1>13 DEF SameCode
<1>15. Grown(u, q) BY <1>6, <1>11, <1>13, Columns, SeqShape, SameGrown
<1>16. Grown(p, q) BY <1>1, <1>6, <1>13, <1>15, GrownTrans
<1>17. Catalogued(q) BY <1>6, <1>13 DEF Catalogued, SameCode
<1>18. Rows(q)
  <2>1. /\ \A k \in 1..Len(u.setValues) : q.setValues[k] \in 1..Len(q.symbols)
        /\ \A k \in 1..Len(u.specs) : ValidSpec(q, q.specs[k])
        /\ \A k \in 1..Len(u.remediations) : ValidRemediationSpec(q, q.remediations[k])
        /\ \A k \in 1..Len(u.clauseKinds) : q.clauseKinds[k] \in 1..Len(q.kinds)
        /\ \A k \in 1..Len(u.clauseRemediations) : q.clauseRemediations[k] = k
        /\ \A k \in 1..Len(u.clauses) : ValidClause(q, q.clauses[k])
    BY <1>6, <1>13, <1>15, RowsKept
  <2>2. ASSUME NEW k \in 1..Len(c) PROVE c[k] \in 1..Len(q.symbols)
    <3>1. CASE k \in 1..a BY <1>13, <2>1, <3>1
    <3>2. CASE k \notin 1..a
      <4>0. n \in Nat /\ a \in Nat /\ k \in 1..(a + n) BY <1>2, <1>11
      <4> HIDE DEF a, n
      <4>1. k - a \in 1..n /\ k = a + (k - a) BY <3>2, <4>0
      <4>2. c[k] = ids[k - a] BY <1>11, <4>1
      <4> QED BY <1>7, <1>13, <4>1, <4>2
    <3> QED BY <3>1, <3>2
  <2> QED BY <1>6, <1>13, <2>1, <2>2 DEF Rows, SameCode, Sound
<1>19. TextsOf(q, ids) = node.values BY <1>7, <1>13 DEF TextsOf, Text
<1>20. Len(q.setValues) = Len(p.setValues) + n BY <1>6, <1>11, <1>13
<1>21. TextsOf(q, Slice(q.setValues, Len(p.setValues), n)) = node.values
  BY <1>6, <1>12, <1>13, <1>19
<1> QED BY <1>6, <1>13, <1>14, <1>16, <1>17, <1>18, <1>20, <1>21 DEF Sound, q, n

\* What an `evidence_matches` adds: a specification that says what it wants.
LEMMA EvidencePayload ==
  ASSUME NEW p, Sound(p), NEW node \in Expressions, node.op = "evidence_matches",
         ~Blank(node.evidence.kind), node.evidence.kind \in EvidenceKinds
  PROVE  LET q == WithPayload(p, node)
             n == Len(p.specs) + 1 IN
         /\ Sound(q) /\ Grown(p, q) /\ SameCode(p, q) /\ q.setValues = p.setValues
         /\ Len(q.specs) = n /\ KnownKind(q, node.evidence.kind)
         /\ node.evidence = [kind |-> Text(q, q.kinds[q.specs[n].kind]),
                             qualifiers |-> TextsOf(q, q.specs[n].wants)]
PROOF
<1> DEFINE name == node.evidence.kind
           u == WithKind(p, name)
           v == InternAll(u, Wanted(node.evidence))
           quals == node.evidence.qualifiers
           wants == [k \in DOMAIN quals |-> Symbol(v, quals[k])]
           spec == [kind |-> KindID(v, name), wants |-> wants]
           n == Len(p.specs) + 1
           q == WithPayload(p, node)
<1>1. p \in Programs /\ Catalogued(p) /\ Rows(p) BY DEF Sound
<1>2. /\ name \in Texts /\ quals \in [Range(QualifierNames) -> Texts]
      /\ node.evidence = [kind |-> name, qualifiers |-> quals]
  BY DEF Expressions, Evidences
<1>3. name # NoSymbol BY NotBlank
<1>4. QualifierNames \in Seq(STRING) BY CompilerAssumption
<1>5. /\ Len(QualifierNames) \in Nat /\ DOMAIN QualifierNames = 1..Len(QualifierNames)
      /\ Range(QualifierNames) = {QualifierNames[k] : k \in 1..Len(QualifierNames)}
  BY <1>4, SeqShape, RangeIs
<1>6. Wider(p, u) /\ KnownKind(u, name) /\ u.explanations = p.explanations
  BY <1>1, <1>2, <1>3, WithKindIs
<1>7. u \in Programs /\ Catalogued(u) BY <1>6 DEF Wider
<1> DEFINE w == Wanted(node.evidence)
<1>8. w \in Seq(Texts) /\ \A k \in 1..Len(QualifierNames) : w[k] = quals[QualifierNames[k]]
        /\ Len(w) = Len(QualifierNames)
  <2>1. w \in [1..Len(QualifierNames) -> Texts] BY <1>2, <1>5 DEF Wanted
  <2>2. \A k \in 1..Len(QualifierNames) : w[k] = quals[QualifierNames[k]] BY <1>5 DEF Wanted
  <2> HIDE DEF w
  <2>3. w \in Seq(Texts) /\ Len(w) = Len(QualifierNames) BY <1>5, <2>1, FunctionIsSeq
  <2> QED BY <2>2, <2>3
<1> HIDE DEF u, w
<1>9. /\ Wider(u, v) /\ v.kinds = u.kinds /\ v.explanations = u.explanations
      /\ \A k \in 1..Len(w) : Known(v, w[k])
  BY <1>7, <1>8, InternAllIs DEF w
<1>10. q = Specified(v, Append(v.specs, spec)) BY DEF WithPayload, Specified, u
<1> HIDE DEF v, q
<1>11. Wider(p, v) BY <1>1, <1>6, <1>9, WiderTrans
<1>12. /\ v \in Programs /\ Catalogued(v) /\ Sound(v) /\ SameCode(p, v) /\ v.specs = p.specs
       /\ v.setValues = p.setValues /\ Grown(p, v)
  BY <1>1, <1>6, <1>9, <1>11, SoundWider, WiderSame, WiderGrown DEF Wider
<1>13. KnownKind(v, name) BY <1>6, <1>7, <1>9, <1>12, KnownKindKept DEF Wider
<1>14. /\ spec.kind \in 1..Len(v.kinds) /\ spec.kind \in Nat /\ Text(v, v.kinds[spec.kind]) = name
  BY <1>12, <1>13, KindIDIs
<1>15. DOMAIN quals = Range(QualifierNames) /\ \A k \in DOMAIN quals : Known(v, quals[k])
  BY SMTT(30), <1>2, <1>5, <1>8, <1>9
<1>16. /\ TextsOf(v, wants) = quals
       /\ \A k \in DOMAIN quals : wants[k] \in 0..Len(v.symbols) /\ wants[k] \in Nat
  <2>1. quals = [k \in DOMAIN quals |-> quals[k]] BY <1>2
  <2> HIDE DEF quals
  <2> QED BY <1>12, <1>15, <2>1, SymbolsOf
<1>17. DOMAIN wants = DOMAIN quals /\ wants \in [Range(QualifierNames) -> Nat] BY <1>15, <1>16
<1> HIDE DEF wants
<1>18. spec \in Specs /\ spec.wants = wants BY <1>14, <1>17 DEF Specs
<1> HIDE DEF spec
<1> DEFINE c == Append(v.specs, spec)
<1>19. v.specs \in Seq(Specs) /\ Len(v.specs) = n - 1 /\ n - 1 \in Nat
  BY <1>12, Columns, Lengths
<1>20. /\ c \in Seq(Specs) /\ Len(c) = Len(v.specs) + 1 /\ c[Len(v.specs) + 1] = spec
       /\ Prefix(v.specs, c)
  BY <1>18, <1>19, AppendIs
<1>21. Len(c) = n /\ c[n] = spec BY <1>19, <1>20
<1> HIDE DEF c, n
<1>22. /\ q \in Programs /\ q.specs = c /\ SameCode(v, q) /\ q.setValues = v.setValues
       /\ q.symbols = v.symbols /\ q.kinds = v.kinds
  BY <1>10, <1>12, <1>20, NewSpecs DEF c
<1>23. SameCode(p, q) BY <1>12, <1>22 DEF SameCode
<1>24. Grown(v, q) BY <1>12, <1>20, <1>22, Columns, SeqShape, SameGrown
<1>25. Grown(p, q) BY <1>1, <1>12, <1>22, <1>24, GrownTrans
<1>26. Catalogued(q) BY <1>12, <1>22 DEF Catalogued, SameCode
<1>27. Text(q, q.kinds[spec.kind]) = name /\ TextsOf(q, spec.wants) = quals
  BY <1>14, <1>16, <1>18, <1>22 DEF TextsOf, Text
<1>28. ValidSpec(q, spec) BY <1>14, <1>16, <1>17, <1>18, <1>22 DEF ValidSpec, ValidID
<1>29. Rows(q)
  <2>1. /\ \A k \in 1..Len(v.setValues) : q.setValues[k] \in 1..Len(q.symbols)
        /\ \A k \in 1..Len(v.specs) : ValidSpec(q, q.specs[k])
        /\ \A k \in 1..Len(v.remediations) : ValidRemediationSpec(q, q.remediations[k])
        /\ \A k \in 1..Len(v.clauseKinds) : q.clauseKinds[k] \in 1..Len(q.kinds)
        /\ \A k \in 1..Len(v.clauseRemediations) : q.clauseRemediations[k] = k
        /\ \A k \in 1..Len(v.clauses) : ValidClause(q, q.clauses[k])
    BY <1>12, <1>22, <1>24, RowsKept
  <2>2. ASSUME NEW k \in 1..n PROVE ValidSpec(q, q.specs[k])
    <3>0. n \in Nat BY <1>1, Lengths DEF n
    <3>1. k \in 1..(n - 1) \/ k = n BY <3>0
    <3> QED BY <1>19, <1>21, <1>22, <1>28, <2>1, <3>1
  <2> QED BY <1>12, <1>21, <1>22, <2>1, <2>2 DEF Rows, SameCode, Sound
<1>30. KnownKind(q, name) BY <1>13, <1>22 DEF KnownKind, Symbol
<1>31. node.evidence = [kind |-> Text(q, q.kinds[q.specs[n].kind]),
                        qualifiers |-> TextsOf(q, q.specs[n].wants)]
  BY <1>2, <1>21, <1>22, <1>27
<1> QED BY <1>12, <1>21, <1>22, <1>23, <1>25, <1>26, <1>29, <1>30, <1>31 DEF Sound, q, n

\* What validateExpression leaves of a node.
LEMMA NodeIs ==
  ASSUME NEW node \in Expressions, NEW allow \in BOOLEAN, ValidNode(node, allow)
  PROVE  /\ node.op \in Operators
         /\ node.op = "all" => /\ node.children # <<>> /\ node.field = NoSymbol
                               /\ node.value = NoSymbol /\ node.values = <<>>
                               /\ node.evidence = NoEvidence
         /\ node.op = "equal" => /\ ~Blank(node.value) /\ LookupField(node.field) > 0
                                 /\ node.values = <<>> /\ node.children = <<>>
                                 /\ node.evidence = NoEvidence
         /\ node.op = "in" => /\ ValidIn(node) /\ LookupField(node.field) > 0 /\ node.values # <<>>
                              /\ node.value = NoSymbol /\ node.children = <<>>
                              /\ node.evidence = NoEvidence
         /\ node.op = "evidence_matches" =>
              /\ allow /\ ~Blank(node.evidence.kind) /\ node.evidence.kind \in EvidenceKinds
              /\ node.field = NoSymbol /\ node.value = NoSymbol
              /\ node.values = <<>> /\ node.children = <<>>
BY DEF ValidNode, ValidAll, ValidEqual, ValidIn, ValidEvidenceMatches, ValidFieldValue, Operators

\* What WithPayload appends says what the node says.
Payload(p, q, node) ==
  /\ Sound(q) /\ Grown(p, q) /\ SameCode(p, q)
  /\ node.op = "equal" => /\ Symbol(q, node.value) \in 1..Len(q.symbols)
                          /\ Symbol(q, node.value) \in Nat
                          /\ Text(q, Symbol(q, node.value)) = node.value
  /\ node.op = "in" =>
       /\ Len(q.setValues) = Len(p.setValues) + Len(node.values)
       /\ TextsOf(q, Slice(q.setValues, Len(p.setValues), Len(node.values))) = node.values
  /\ node.op # "in" => q.setValues = p.setValues
  /\ node.op = "evidence_matches" =>
       /\ KnownKind(q, node.evidence.kind) /\ Len(q.specs) = Len(p.specs) + 1
       /\ node.evidence = [kind |-> Text(q, q.kinds[q.specs[Len(q.specs)].kind]),
                           qualifiers |-> TextsOf(q, q.specs[Len(q.specs)].wants)]
  /\ node.op # "evidence_matches" => q.specs = p.specs

\* compileExpression up to the append of the instruction.
LEMMA PayloadIs ==
  ASSUME NEW p, Sound(p), NEW node \in Expressions, NEW allow \in BOOLEAN, ValidNode(node, allow)
  PROVE  Payload(p, WithPayload(p, node), node)
PROOF
<1> DEFINE q == WithPayload(p, node)
<1>1. p \in Programs /\ Catalogued(p) BY DEF Sound
<1>2. node.op \in Operators BY NodeIs
<1>3. CASE node.op = "equal"
  <2>1. node.value \in Texts /\ node.value # NoSymbol BY <1>3, NodeIs, NotBlank DEF Expressions
  <2>2. q = Intern(p, node.value) BY <1>3 DEF WithPayload
  <2>3. /\ Wider(p, q) /\ Known(q, node.value) /\ q.explanations = p.explanations
    BY <1>1, <2>1, <2>2, InternIs
  <2> HIDE DEF q
  <2>4. /\ Sound(q) /\ SameCode(p, q) /\ q.specs = p.specs /\ q.setValues = p.setValues
        /\ Grown(p, q) /\ q \in Programs /\ Catalogued(q)
    BY <1>1, <2>3, SoundWider, WiderSame, WiderGrown DEF Wider
  <2>5. /\ Symbol(q, node.value) \in 1..Len(q.symbols) /\ Symbol(q, node.value) \in Nat
        /\ Text(q, Symbol(q, node.value)) = node.value
    BY <2>1, <2>3, <2>4, SymbolIs
  <2> QED BY <1>3, <2>4, <2>5 DEF Payload, q
<1>4. CASE node.op = "in"
  <2>1. ValidIn(node) BY <1>4, NodeIs
  <2> QED BY <1>4, <2>1, InPayload DEF Payload
<1>5. CASE node.op = "evidence_matches"
  <2>1. ~Blank(node.evidence.kind) /\ node.evidence.kind \in EvidenceKinds BY <1>5, NodeIs
  <2> QED BY <1>5, <2>1, EvidencePayload DEF Payload
<1>6. CASE node.op = "all"
  <2>1. q = p BY <1>6 DEF WithPayload
  <2> HIDE DEF q
  <2> QED BY <1>1, <1>6, <2>1, GrownSelf DEF Payload, SameCode, q
<1> QED BY <1>2, <1>3, <1>4, <1>5, <1>6 DEF Operators

\* The columns an instruction leaves alone.
SameClauses(p, q) ==
  /\ q.requirements = p.requirements /\ q.clauseIDs = p.clauseIDs /\ q.clauses = p.clauses
  /\ q.clauseKinds = p.clauseKinds /\ q.clauseRemediations = p.clauseRemediations
  /\ q.remediations = p.remediations /\ q.explanations = p.explanations

Instructed(p, c, d) == [p EXCEPT !.operands = c, !.code = d]

LEMMA NewCode ==
  ASSUME NEW p \in Programs, NEW c \in Seq(Nat), NEW d \in Seq(Codes)
  PROVE  LET q == Instructed(p, c, d) IN
         /\ q \in Programs /\ q.operands = c /\ q.code = d /\ SameClauses(p, q)
         /\ q.symbols = p.symbols /\ q.kinds = p.kinds /\ q.specs = p.specs
         /\ q.setValues = p.setValues
BY DEF Programs, SameClauses, Instructed

LEMMA CodeGrown ==
  ASSUME NEW p \in Programs, NEW q \in Programs, SameClauses(p, q),
         Prefix(p.operands, q.operands), Prefix(p.code, q.code),
         q.symbols = p.symbols, q.kinds = p.kinds, q.specs = p.specs, q.setValues = p.setValues
  PROVE  Grown(p, q)
PROOF
<1>1. /\ Prefix(p.symbols, q.symbols) /\ Prefix(p.kinds, q.kinds) /\ Prefix(p.specs, q.specs)
      /\ Prefix(p.setValues, q.setValues)
      /\ Prefix(p.requirements, q.requirements) /\ Prefix(p.clauseIDs, q.clauseIDs)
      /\ Prefix(p.clauses, q.clauses) /\ Prefix(p.clauseKinds, q.clauseKinds)
  BY Columns, SeqShape DEF SameClauses
<1>2. /\ Prefix(p.clauseRemediations, q.clauseRemediations)
      /\ Prefix(p.remediations, q.remediations) /\ Prefix(p.explanations, q.explanations)
  BY Columns, SeqShape DEF SameClauses
<1> QED BY <1>1, <1>2, GrownIs

LEMMA EmptyIs ==
  ASSUME NEW f, f = [k \in 1..0 |-> f[k]]
  PROVE  f = <<>>
PROOF
<1>1. \A k : k \notin 1..0 OBVIOUS
<1>2. <<>> \in Seq(Nat) /\ Len(<<>>) = 0 /\ DOMAIN <<>> = 1..0 /\ <<>> \in [1..0 -> Nat]
  BY EmptySeq, LenProperties
<1>3. f \in [1..0 -> Nat] BY <1>1
<1> QED BY <1>1, <1>2, <1>3

\* The instruction of a node says what the node says, with the instructions of
\* its children as operands.
LEMMA WithInstructionIs ==
  ASSUME NEW p, Sound(p), NEW node \in Expressions, NEW allow \in BOOLEAN, ValidNode(node, allow),
         NEW ids \in Seq(Nat), \A k \in 1..Len(ids) : ids[k] \in 1..Len(p.code),
         Len(ids) = Len(node.children), Len(ids) < CountLimit, Len(p.specs) + 1 < CountLimit
  PROVE  LET r == WithInstruction(p, node, ids)
             n == Len(p.code) + 1 IN
         /\ Sound(r) /\ Grown(p, r) /\ SameClauses(p, r)
         /\ Len(r.code) = n /\ Len(r.specs) <= Len(p.specs) + 1
         /\ node.op = "evidence_matches" => KnownKind(r, node.evidence.kind)
         /\ (node.op = "in" => Len(node.values) < CountLimit) =>
              ValidInstruction(r, n) /\ Meaning(r, n) = [node EXCEPT !.children = ids]
PROOF
<1> DEFINE q == WithPayload(p, node)
           ins == Instruction(p, q, node, ids)
           n == Len(p.code) + 1
           r == WithInstruction(p, node, ids)
           fits == node.op = "in" => Len(node.values) < CountLimit
<1>1. p \in Programs /\ Catalogued(p) /\ Len(p.code) \in Nat /\ Len(p.specs) \in Nat
        /\ Len(p.setValues) \in Nat /\ CountLimit \in Nat
  BY Lengths, CompilerAssumption DEF Sound
<1>2. Payload(p, q, node) BY PayloadIs
<1>3. /\ node.op \in STRING /\ node.field \in Texts /\ node.value \in Texts
      /\ node.values \in Seq(Texts) /\ Len(node.values) \in Nat
      /\ node.children \in Seq(Nat) /\ node.op \in Operators /\ Len(ids) \in Nat
      /\ node = [op |-> node.op, field |-> node.field, value |-> node.value,
                 values |-> node.values, children |-> node.children, evidence |-> node.evidence]
  BY LenProperties, NodeIs DEF Expressions
<1>4. r = Instructed(q, q.operands \o ids, Append(q.code, ins))
  BY DEF WithInstruction, Instructed
<1>5. Count(Len(ids)) = Len(ids) BY <1>3, CountIs
<1> HIDE DEF q, r
<1>6. /\ ins.op = node.op
      /\ ins.field = IF node.op \in {"equal", "in"} THEN LookupField(node.field) ELSE 0
      /\ ins.value = IF node.op = "equal" THEN Symbol(q, node.value) ELSE 0
      /\ ins.operandStart = Len(q.operands) /\ ins.operandCount = Len(ids)
      /\ ins.setStart = Len(p.setValues)
      /\ ins.setCount = IF node.op = "in" THEN Count(Len(node.values)) ELSE 0
      /\ ins.spec = IF node.op = "evidence_matches" THEN Count(Len(q.specs)) ELSE 0
      /\ ins = [op |-> ins.op, field |-> ins.field, value |-> ins.value,
                operandStart |-> ins.operandStart, operandCount |-> ins.operandCount,
                setStart |-> ins.setStart, setCount |-> ins.setCount, spec |-> ins.spec]
  <2> DEFINE f == IF node.op \in {"equal", "in"} THEN LookupField(node.field) ELSE 0
             v == IF node.op = "equal" THEN Symbol(q, node.value) ELSE 0
             a == Len(q.operands)
             o == Count(Len(ids))
             b == Len(p.setValues)
             w == IF node.op = "in" THEN Count(Len(node.values)) ELSE 0
             e == IF node.op = "evidence_matches" THEN Count(Len(q.specs)) ELSE 0
  <2>1. ins = [NoInstruction EXCEPT !.op = node.op, !.field = f, !.value = v, !.operandStart = a,
                 !.operandCount = o, !.setStart = b, !.setCount = w, !.spec = e]
    BY DEF Instruction
  <2> HIDE DEF f, v, a, o, b, w, e, ins
  <2>2. ins = [op |-> node.op, field |-> f, value |-> v, operandStart |-> a, operandCount |-> o,
               setStart |-> b, setCount |-> w, spec |-> e]
    BY ONLY <2>1 DEF NoInstruction
  <2>3. /\ ins.op = node.op /\ ins.field = f /\ ins.value = v /\ ins.operandStart = a
        /\ ins.operandCount = o /\ ins.setStart = b /\ ins.setCount = w /\ ins.spec = e
    BY ONLY <2>2
  <2>4. ins = [op |-> ins.op, field |-> ins.field, value |-> ins.value,
                operandStart |-> ins.operandStart, operandCount |-> ins.operandCount,
                setStart |-> ins.setStart, setCount |-> ins.setCount, spec |-> ins.spec]
    BY ONLY <2>2
  <2> QED BY <1>5, <2>3, <2>4 DEF f, v, a, o, b, w, e
<1> HIDE DEF ins
<1>7. /\ q \in Programs /\ Catalogued(q) /\ Sound(q) /\ Grown(p, q) /\ SameCode(p, q)
      /\ Len(q.specs) \in Nat /\ Len(q.operands) \in Nat /\ Len(q.setValues) \in Nat
      /\ q.operands \in Seq(Nat) /\ q.code \in Seq(Codes) /\ q.setValues \in Seq(Nat)
      /\ Len(q.code) = n - 1
  BY <1>1, <1>2, Lengths, Columns DEF Payload, Sound, SameCode
<1>8. node.op = "evidence_matches" =>
        Len(q.specs) = Len(p.specs) + 1 /\ Count(Len(q.specs)) = Len(q.specs)
  <2>1. node.op = "evidence_matches" => Len(q.specs) = Len(p.specs) + 1 BY <1>2 DEF Payload
  <2> QED BY <1>1, <1>7, <2>1, CountIs
<1>9. Len(q.specs) <= Len(p.specs) + 1
  <2>1. CASE node.op = "evidence_matches" BY <1>1, <1>8, <2>1
  <2>2. CASE node.op # "evidence_matches" BY <1>1, <1>2, <2>2 DEF Payload
  <2> QED BY <2>1, <2>2
<1>10. /\ node.op \in {"equal", "in"} =>
            /\ ins.field \in 1..Len(FieldNames) /\ FieldNames[ins.field] = node.field
            /\ ins.field \in 0..Len(FieldNames) /\ ins.field # 0
       /\ node.op \notin {"equal", "in"} => ins.field = 0
  <2>1. node.op \in {"equal", "in"} => LookupField(node.field) > 0 BY NodeIs
  <2> QED BY <1>6, <2>1, LookupIs
<1>11. ins.field \in 0..Len(FieldNames)
  <2>1. Len(FieldNames) \in Nat BY CompilerAssumption, LenProperties
  <2>2. CASE node.op \in {"equal", "in"} BY <1>10, <2>2
  <2>3. CASE node.op \notin {"equal", "in"} BY <1>10, <2>1, <2>3
  <2> QED BY <2>2, <2>3
<1>12. /\ node.op = "equal" => /\ ins.value \in 1..Len(q.symbols) /\ ins.value \in Nat
                               /\ Text(q, ins.value) = node.value
       /\ node.op # "equal" => ins.value = 0
  BY <1>2, <1>6 DEF Payload
<1>13. ins \in Codes
  <2>1. ins.value \in Nat BY <1>12
  <2>2. ins.setCount \in Nat
    <3>1. Count(Len(node.values)) \in Nat BY <1>1, <1>3 DEF Count
    <3> QED BY <1>6, <3>1
  <2>3. ins.spec \in Nat
    <3>1. CASE node.op = "evidence_matches" BY <1>6, <1>7, <1>8, <3>1
    <3>2. CASE node.op # "evidence_matches" BY <1>6, <3>2
    <3> QED BY <3>1, <3>2
  <2> QED BY <1>1, <1>3, <1>6, <1>7, <1>11, <2>1, <2>2, <2>3 DEF Codes
<1> DEFINE c == q.operands \o ids
           d == Append(q.code, ins)
<1>14. /\ c \in Seq(Nat) /\ Len(c) = Len(q.operands) + Len(ids) /\ Prefix(q.operands, c)
  <2> DEFINE base == q.operands
  <2>1. base \in Seq(Nat) /\ ids \in Seq(Nat) BY <1>7
  <2> HIDE DEF base
  <2>2. /\ base \o ids \in Seq(Nat) /\ Len(base \o ids) = Len(base) + Len(ids)
        /\ Prefix(base, base \o ids)
    BY ONLY <2>1, ConcatIs
  <2> QED BY <2>2 DEF base
<1>15. /\ d \in Seq(Codes) /\ Len(d) = Len(q.code) + 1 /\ d[Len(q.code) + 1] = ins
       /\ Prefix(q.code, d)
  <2> DEFINE base == q.code
  <2>1. base \in Seq(Codes) /\ ins \in Codes BY <1>7, <1>13
  <2> HIDE DEF base
  <2>2. /\ Append(base, ins) \in Seq(Codes) /\ Len(Append(base, ins)) = Len(base) + 1
        /\ Append(base, ins)[Len(base) + 1] = ins /\ Prefix(base, Append(base, ins))
    BY ONLY <2>1, AppendIs
  <2> QED BY <2>2 DEF base
<1>16. Len(d) = n /\ d[n] = ins BY <1>1, <1>7, <1>15
<1>17. Slice(c, Len(q.operands), Len(ids)) = ids BY <1>7, SliceOfTail
<1> HIDE DEF c, d, n
<1>18. /\ r \in Programs /\ r.operands = c /\ r.code = d /\ SameClauses(q, r)
       /\ r.symbols = q.symbols /\ r.kinds = q.kinds /\ r.specs = q.specs
       /\ r.setValues = q.setValues
  <2>1. r = Instructed(q, c, d) BY <1>4 DEF c, d
  <2>2. q \in Programs /\ c \in Seq(Nat) /\ d \in Seq(Codes) BY <1>7, <1>14, <1>15
  <2> QED BY ONLY <2>1, <2>2, NewCode
<1>19. Grown(q, r) BY <1>7, <1>14, <1>15, <1>18, CodeGrown
<1>20. Grown(p, r) BY <1>1, <1>7, <1>18, <1>19, GrownTrans
<1>21. SameClauses(p, r) BY <1>7, <1>18 DEF SameClauses, SameCode
<1>22. Catalogued(r) BY <1>7, <1>18 DEF Catalogued, SameClauses
<1>23. Rows(r)
  <2>1. /\ \A k \in 1..Len(q.setValues) : r.setValues[k] \in 1..Len(r.symbols)
        /\ \A k \in 1..Len(q.specs) : ValidSpec(r, r.specs[k])
        /\ \A k \in 1..Len(q.remediations) : ValidRemediationSpec(r, r.remediations[k])
        /\ \A k \in 1..Len(q.clauseKinds) : r.clauseKinds[k] \in 1..Len(r.kinds)
        /\ \A k \in 1..Len(q.clauseRemediations) : r.clauseRemediations[k] = k
        /\ \A k \in 1..Len(q.clauses) : ValidClause(r, r.clauses[k])
    BY <1>7, <1>18, <1>19, RowsKept
  <2> QED BY <1>7, <1>18, <2>1 DEF Rows, SameClauses, Sound
<1>24. node.op = "evidence_matches" => KnownKind(r, node.evidence.kind)
  BY <1>2, <1>18 DEF Payload, KnownKind, Symbol
<1>25. ASSUME fits
       PROVE  /\ ins.setCount = IF node.op = "in" THEN Len(node.values) ELSE 0
              /\ ins.setStart + ins.setCount = Len(r.setValues) /\ ins.setCount \in Nat
              /\ TextsOf(r, Slice(r.setValues, ins.setStart, ins.setCount)) = node.values
  <2>1. CASE node.op = "in"
    <3>1. ins.setCount = Len(node.values) BY <1>3, <1>6, <1>25, <2>1, CountIs
    <3>2. /\ Len(q.setValues) = Len(p.setValues) + Len(node.values)
          /\ TextsOf(q, Slice(q.setValues, Len(p.setValues), Len(node.values))) = node.values
      BY <1>2, <2>1 DEF Payload
    <3> QED BY <1>3, <1>6, <1>18, <2>1, <3>1, <3>2 DEF TextsOf, Text
  <2>2. CASE node.op # "in"
    <3>1. /\ ins.setCount = 0 /\ r.setValues = p.setValues /\ ins.setStart = Len(p.setValues)
          /\ r.setValues \in Seq(Nat)
      BY <1>2, <1>6, <1>7, <1>18, <2>2 DEF Payload
    <3>2. node.values = <<>> BY <1>3, <2>2, NodeIs DEF Operators
    <3> DEFINE part == Slice(r.setValues, ins.setStart, ins.setCount)
    <3>3. DOMAIN part = 1..0
      <4> DEFINE s == r.setValues
                 a == ins.setStart
      <4>1. s \in Seq(Nat) /\ a \in Nat /\ a + 0 <= Len(s) BY <1>1, <3>1
      <4> HIDE DEF s, a
      <4>2. DOMAIN Slice(s, a, 0) = 1..0 BY ONLY <4>1, IdSlice
      <4> QED BY <3>1, <4>2 DEF s, a
    <3> HIDE DEF part
    <3> DEFINE f == TextsOf(r, part)
    <3>4. f = [k \in 1..0 |-> f[k]] BY <3>3 DEF TextsOf
    <3> HIDE DEF f
    <3>5. f = <<>> BY <3>4, EmptyIs
    <3> QED BY <1>1, <2>2, <3>1, <3>2, <3>5 DEF f, part
  <2> QED BY <2>1, <2>2
<1> DEFINE operands == Slice(r.operands, ins.operandStart, ins.operandCount)
<1>26. r.code[n] = ins /\ operands = ids BY <1>6, <1>16, <1>17, <1>18
<1> HIDE DEF operands
<1>27. /\ node.op = "evidence_matches" =>
            /\ ins.spec = Len(r.specs) /\ ins.spec \in 1..Len(r.specs) /\ ins.spec # 0
            /\ node.evidence = [kind |-> Text(r, r.kinds[r.specs[ins.spec].kind]),
                                qualifiers |-> TextsOf(r, r.specs[ins.spec].wants)]
       /\ node.op # "evidence_matches" => ins.spec = 0 /\ node.evidence = NoEvidence
  <2>1. ASSUME node.op = "evidence_matches"
        PROVE  /\ ins.spec = Len(r.specs)
               /\ node.evidence = [kind |-> Text(r, r.kinds[r.specs[Len(r.specs)].kind]),
                                   qualifiers |-> TextsOf(r, r.specs[Len(r.specs)].wants)]
    <3>1. ins.spec = Len(r.specs) BY <1>6, <1>8, <1>18, <2>1
    <3>2. node.evidence = [kind |-> Text(q, q.kinds[q.specs[Len(q.specs)].kind]),
                           qualifiers |-> TextsOf(q, q.specs[Len(q.specs)].wants)]
      BY <1>2, <2>1 DEF Payload
    <3>3. \A x : Text(r, x) = Text(q, x) BY <1>18 DEF Text
    <3>4. \A x : TextsOf(r, x) = TextsOf(q, x) BY <3>3 DEF TextsOf
    <3>5. node.evidence = [kind |-> Text(r, q.kinds[q.specs[Len(q.specs)].kind]),
                           qualifiers |-> TextsOf(r, q.specs[Len(q.specs)].wants)]
      BY <3>2, <3>3, <3>4
    <3> QED BY <1>18, <3>1, <3>5
  <2>2. node.op = "evidence_matches" => Len(r.specs) \in 1..Len(r.specs) /\ Len(r.specs) # 0
    BY <1>1, <1>7, <1>8, <1>18
  <2>3. node.op # "evidence_matches" => ins.spec = 0 /\ node.evidence = NoEvidence
    BY <1>3, <1>6, NodeIs DEF Operators
  <2> QED BY <2>1, <2>2, <2>3
<1>28. ASSUME fits PROVE Meaning(r, n) = [node EXCEPT !.children = ids]
  <2>1. Meaning(r, n) =
          [op |-> ins.op, field |-> IF ins.field = 0 THEN NoSymbol ELSE FieldNames[ins.field],
           value |-> Text(r, ins.value),
           values |-> TextsOf(r, Slice(r.setValues, ins.setStart, ins.setCount)),
           children |-> ids,
           evidence |-> IF ins.spec = 0 THEN NoEvidence
                        ELSE [kind |-> Text(r, r.kinds[r.specs[ins.spec].kind]),
                              qualifiers |-> TextsOf(r, r.specs[ins.spec].wants)]]
    BY <1>26 DEF Meaning, operands
  <2>2. (IF ins.field = 0 THEN NoSymbol ELSE FieldNames[ins.field]) = node.field
    <3>1. node.op \notin {"equal", "in"} => node.field = NoSymbol BY <1>3, NodeIs DEF Operators
    <3> QED BY <1>10, <3>1
  <2>3. Text(r, ins.value) = node.value
    <3>1. node.op # "equal" => node.value = NoSymbol BY <1>3, NodeIs DEF Operators
    <3>2. CASE node.op = "equal" BY <1>12, <1>18, <3>2 DEF Text
    <3>3. CASE node.op # "equal" BY <1>12, <3>1, <3>3 DEF Text
    <3> QED BY <3>2, <3>3
  <2>4. (IF ins.spec = 0 THEN NoEvidence
         ELSE [kind |-> Text(r, r.kinds[r.specs[ins.spec].kind]),
               qualifiers |-> TextsOf(r, r.specs[ins.spec].wants)]) = node.evidence
    BY <1>27
  <2>5. [node EXCEPT !.children = ids] =
          [op |-> node.op, field |-> node.field, value |-> node.value, values |-> node.values,
           children |-> ids, evidence |-> node.evidence]
    <3> DEFINE e == node.evidence
               o == node.op
               f == node.field
               v == node.value
               w == node.values
               x == node.children
    <3>1. node = [op |-> o, field |-> f, value |-> v, values |-> w, children |-> x, evidence |-> e]
      BY <1>3
    <3> HIDE DEF e, o, f, v, w, x
    <3>2. [node EXCEPT !.children = ids] =
            [op |-> o, field |-> f, value |-> v, values |-> w, children |-> ids, evidence |-> e]
      BY ONLY <3>1
    <3> QED BY <3>2 DEF e, o, f, v, w, x
  <2>6. Meaning(r, n) =
          [op |-> node.op, field |-> node.field, value |-> node.value, values |-> node.values,
           children |-> ids, evidence |-> node.evidence]
    BY <1>6, <1>25, <1>28, <2>1, <2>2, <2>3, <2>4
  <2> QED BY <2>5, <2>6
<1>29. ASSUME fits PROVE ValidInstruction(r, n)
  <2> DEFINE values == Slice(r.setValues, ins.setStart, ins.setCount)
  <2>1. /\ ValidRange(ins.operandStart, ins.operandCount, r.operands)
        /\ ValidRange(ins.setStart, ins.setCount, r.setValues)
    <3>1. Len(r.operands) = Len(q.operands) + Len(ids) BY <1>14, <1>18
    <3>2. ins.operandStart + ins.operandCount = Len(r.operands) BY <1>6, <3>1
    <3>3. Len(r.operands) <= Len(r.operands) /\ Len(r.setValues) <= Len(r.setValues)
      BY <1>18, Lengths
    <3> QED BY <1>25, <1>29, <3>2, <3>3 DEF ValidRange
  <2>2. \A o \in Range(operands) : o \in 1..(n - 1)
    <3>1. Range(ids) = {ids[k] : k \in 1..Len(ids)} BY RangeIs
    <3>2. n - 1 = Len(p.code) BY <1>1 DEF n
    <3> QED BY <1>26, <3>1, <3>2
  <2>3. \A s \in Range(values) : ValidID(s, r.symbols)
    <3> DEFINE col == r.setValues
               a == ins.setStart
               m == ins.setCount
    <3>1. col \in Seq(Nat) /\ a \in Nat /\ m \in Nat /\ a + m <= Len(col)
      BY <1>1, <1>6, <1>18, <1>25, <1>29, <2>1, Columns DEF ValidRange
    <3>2. \A k \in 1..Len(col) : col[k] \in 1..Len(r.symbols) BY <1>23 DEF Rows
    <3> HIDE DEF col, a, m
    <3>3. /\ DOMAIN Slice(col, a, m) = 1..m
          /\ \A k \in 1..m : a + k \in 1..Len(col) /\ Slice(col, a, m)[k] = col[a + k]
      BY ONLY <3>1, IdSlice
    <3>4. \A s \in Range(Slice(col, a, m)) : s \in 1..Len(r.symbols) BY <3>2, <3>3 DEF Range
    <3> QED BY <3>4 DEF ValidID, col, a, m
  <2> HIDE DEF values
  <2>4. node.op # "all" => Len(ids) = 0
    <3>1. node.op # "all" => node.children = <<>> BY <1>3, NodeIs DEF Operators
    <3> QED BY <3>1
  <2>5. node.op = "all" => Len(ids) > 0
    <3>1. node.op = "all" => node.children # <<>> BY NodeIs
    <3>2. Len(node.children) = 0 => node.children = <<>> BY <1>3, EmptySeq
    <3> QED BY <1>3, <3>1, <3>2
  <2>6. node.op = "in" => Len(node.values) > 0
    <3>1. node.op = "in" => node.values # <<>> BY NodeIs
    <3>2. Len(node.values) = 0 => node.values = <<>> BY <1>3, EmptySeq
    <3> QED BY <1>3, <3>1, <3>2
  <2>7. ValidInstruction(r, n) <=>
        /\ ValidRange(ins.operandStart, ins.operandCount, r.operands)
        /\ ValidRange(ins.setStart, ins.setCount, r.setValues)
        /\ \/ /\ ins.op = "equal"
              /\ ValidID(ins.field, FieldNames) /\ ValidID(ins.value, r.symbols)
              /\ ins.operandCount = 0 /\ ins.setCount = 0 /\ ins.spec = 0
           \/ /\ ins.op = "in"
              /\ ValidID(ins.field, FieldNames) /\ ins.setCount > 0
              /\ \A s \in Range(values) : ValidID(s, r.symbols)
              /\ ins.operandCount = 0 /\ ins.value = 0 /\ ins.spec = 0
           \/ /\ ins.op = "evidence_matches"
              /\ ValidID(ins.spec, r.specs)
              /\ ins.operandCount = 0 /\ ins.setCount = 0 /\ ins.field = 0 /\ ins.value = 0
           \/ /\ ins.op = "all"
              /\ ins.operandCount > 0
              /\ \A o \in Range(operands) : o \in 1..(n - 1)
              /\ ins.setCount = 0 /\ ins.field = 0 /\ ins.value = 0 /\ ins.spec = 0
    BY <1>26, Zenon DEF ValidInstruction, values, operands
  <2>8. CASE node.op = "equal"
    <3>1. ins.value \in 1..Len(r.symbols) /\ ins.field \in 1..Len(FieldNames)
      BY <1>10, <1>12, <1>18, <2>8
    <3> QED BY <1>6, <1>25, <1>27, <1>29, <2>1, <2>4, <2>7, <2>8, <3>1 DEF ValidID
  <2>9. CASE node.op = "in"
    <3>1. ins.field \in 1..Len(FieldNames) /\ ins.setCount > 0
      BY <1>10, <1>25, <1>29, <2>6, <2>9
    <3> QED BY <1>6, <1>12, <1>27, <2>1, <2>3, <2>4, <2>7, <2>9, <3>1 DEF ValidID
  <2>10. CASE node.op = "evidence_matches"
    BY <1>6, <1>10, <1>12, <1>25, <1>27, <1>29, <2>1, <2>4, <2>7, <2>10 DEF ValidID
  <2>11. CASE node.op = "all"
    BY <1>6, <1>10, <1>12, <1>25, <1>27, <1>29, <2>1, <2>2, <2>5, <2>7, <2>11
  <2> QED BY <1>3, <2>8, <2>9, <2>10, <2>11 DEF Operators
<1>30. Len(r.code) = n /\ Len(r.specs) <= Len(p.specs) + 1 BY <1>9, <1>16, <1>18
<1> QED BY <1>18, <1>20, <1>21, <1>22, <1>23, <1>24, <1>28, <1>29, <1>30 DEF Sound, r, n

-----------------------------------------------------------------------------
(* Clauses.                                                                *)

\* The columns a clause leaves alone.
SameInstructions(p, q) ==
  /\ q.specs = p.specs /\ q.setValues = p.setValues /\ q.operands = p.operands
  /\ q.code = p.code /\ q.requirements = p.requirements /\ q.clauseIDs = p.clauseIDs

Ruled(p, c, d) == [p EXCEPT !.clauses = c, !.clauseKinds = d]

LEMMA NewClause ==
  ASSUME NEW p \in Programs, NEW c \in Seq(Rules), NEW d \in Seq(Nat)
  PROVE  LET q == Ruled(p, c, d) IN
         /\ q \in Programs /\ q.clauses = c /\ q.clauseKinds = d /\ SameInstructions(p, q)
         /\ q.symbols = p.symbols /\ q.kinds = p.kinds /\ q.explanations = p.explanations
         /\ q.clauseRemediations = p.clauseRemediations /\ q.remediations = p.remediations
BY DEF Programs, SameInstructions, Ruled

LEMMA RuleGrown ==
  ASSUME NEW p \in Programs, NEW q \in Programs, SameInstructions(p, q),
         Prefix(p.clauses, q.clauses), Prefix(p.clauseKinds, q.clauseKinds),
         q.symbols = p.symbols, q.kinds = p.kinds, q.explanations = p.explanations,
         q.clauseRemediations = p.clauseRemediations, q.remediations = p.remediations
  PROVE  Grown(p, q)
PROOF
<1>1. /\ Prefix(p.symbols, q.symbols) /\ Prefix(p.kinds, q.kinds)
      /\ Prefix(p.explanations, q.explanations)
      /\ Prefix(p.clauseRemediations, q.clauseRemediations)
      /\ Prefix(p.remediations, q.remediations)
  BY Columns, SeqShape
<1>2. /\ Prefix(p.specs, q.specs) /\ Prefix(p.setValues, q.setValues)
      /\ Prefix(p.operands, q.operands) /\ Prefix(p.code, q.code)
      /\ Prefix(p.requirements, q.requirements) /\ Prefix(p.clauseIDs, q.clauseIDs)
  BY Columns, SeqShape DEF SameInstructions
<1> QED BY <1>1, <1>2, GrownIs

\* A clause adds no more texts to the catalogues than its share of the document.
LEMMA CostIs ==
  ASSUME NEW c \in ClauseSource
  PROVE  /\ c.explanations \in Seq(Texts) /\ Len(c.explanations) = ReasonCount
         /\ IsFiniteSet(Range(c.explanations)) /\ Cardinality(Range(c.explanations)) \in Nat
         /\ c.remediations \in Seq(Remedies) /\ Len(c.remediations) \in Nat
         /\ Cost(c) = Len(c.remediations) + Cardinality(Range(c.explanations))
         /\ Cost(c) \in Nat
PROOF
<1>1. c.explanations \in [1..8 -> Texts] /\ c.remediations \in Seq(Remedies)
  BY DEF ClauseSource, Reasons, ReasonCount
<1> DEFINE e == c.explanations
<1> HIDE DEF e
<1>2. e \in Seq(Texts) /\ Len(e) = 8
  <2>1. \A n \in Nat : \A f \in [1..n -> Texts] : f \in Seq(Texts) /\ Len(f) = n BY FunctionIsSeq
  <2>2. e \in [1..8 -> Texts] BY <1>1 DEF e
  <2> QED BY <2>1, <2>2
<1>3. Range(e) = {e[k] : k \in 1..8} BY <1>2, RangeIs
<1>4. IsFiniteSet(1..8)
  <2>1. \A n \in Nat : IsFiniteSet(1..n) BY FS_Interval
  <2> QED BY <2>1
<1>5. e \in Surjection(1..8, Range(e))
  <2>1. e \in [1..8 -> Range(e)] BY <1>1, <1>3 DEF e
  <2> QED BY <1>3, <2>1 DEF Surjection
<1>6. IsFiniteSet(Range(e)) BY <1>4, <1>5, FS_Surjection
<1>7. Cardinality(Range(e)) \in Nat BY <1>6, FS_CardinalityType
<1>8. Len(c.remediations) \in Nat BY <1>1, LenProperties
<1>9. Cost(c) = Len(c.remediations) + Cardinality(Range(e)) BY DEF Cost, e
<1> QED BY <1>1, <1>2, <1>6, <1>7, <1>8, <1>9 DEF e, ReasonCount

\* The texts of a list of evidence kind IDs.
KindTexts(p, kinds) == [j \in 1..Len(kinds) |-> Text(p, p.kinds[kinds[j]])]

\* A clause is compiled to one row, which says what the policy says.
LEMMA WithClauseIs ==
  ASSUME NEW p, Sound(p), NEW c \in ClauseSource, ValidResolution(c),
         Known(p, c.id), c.id # NoSymbol,
         NEW assertion \in 1..Len(p.code),
         NEW kinds \in Seq(Nat), IsInjective(kinds), \A j \in 1..Len(kinds) : kinds[j] \in 1..Len(p.kinds),
         Len(p.explanations) + Cost(c) <= MaxPolicyBytes,
         Len(p.remediations) + Cost(c) <= MaxPolicyBytes
  PROVE  LET r == WithClause(p, c, assertion, kinds)
             n == Len(p.clauses) + 1 IN
         /\ Sound(r) /\ Grown(p, r) /\ SameInstructions(p, r) /\ Len(r.clauses) = n
         /\ Len(r.explanations) <= Len(p.explanations) + Cost(c)
         /\ Len(r.remediations) <= Len(p.remediations) + Cost(c)
         /\ ClauseMeaning(r, r.clauses[n]) = [c EXCEPT !.assertion = assertion]
         /\ KindsOf(r, r.clauses[n]) = KindTexts(p, kinds)
PROOF
<1> DEFINE u == ExplainAll(p, c.explanations)
           q == RemedyAll(u, c.remediations)
           n == Len(p.clauses) + 1
           m == Len(c.remediations)
           r == WithClause(p, c, assertion, kinds)
           row == [symbol |-> Symbol(p, c.id), root |-> assertion,
                   kindStart |-> Len(p.clauseKinds), kindCount |-> Count(Len(kinds)),
                   outcomes |-> c.resolution,
                   explanations |-> [x \in Reasons |-> ExplanationID(q, c.explanations[x])],
                   remediationStart |-> Len(p.clauseRemediations),
                   remediationCount |-> TextID(Len(c.remediations))]
<1>1. /\ p \in Programs /\ Catalogued(p) /\ Rows(p) /\ MaxPolicyBytes \in Nat
      /\ Len(p.explanations) \in Nat /\ Len(p.remediations) \in Nat /\ Len(p.kinds) \in Nat
      /\ Len(p.clauses) \in Nat /\ Len(p.clauseKinds) \in Nat /\ Len(p.clauseRemediations) \in Nat
      /\ Len(p.clauseRemediations) = Len(p.remediations)
  BY Lengths, CompilerAssumption DEF Sound, Rows
<1>2. /\ c.id \in Texts /\ c.resolution \in [Reasons -> Nat] /\ c.explanations \in [Reasons -> Texts]
      /\ c = [id |-> c.id, assertion |-> c.assertion, resolution |-> c.resolution,
              explanations |-> c.explanations, remediations |-> c.remediations]
  BY DEF ClauseSource
<1>3. /\ c.explanations \in Seq(Texts) /\ Len(c.explanations) = ReasonCount
      /\ IsFiniteSet(Range(c.explanations)) /\ Cardinality(Range(c.explanations)) \in Nat
      /\ c.remediations \in Seq(Remedies) /\ m \in Nat
      /\ Cost(c) = m + Cardinality(Range(c.explanations)) /\ Cost(c) \in Nat
  BY CostIs
<1>4. DOMAIN c.remediations = 1..m /\ c.remediations = [k \in 1..m |-> c.remediations[k]]
  BY <1>3, SeqShape
<1>5. /\ Wider(p, u) /\ \A k \in 1..Len(c.explanations) : Worded(u, c.explanations[k])
      /\ Len(u.explanations) <= Len(p.explanations) + Cardinality(Range(c.explanations))
  BY <1>1, <1>3, ExplainAllIs
<1> HIDE DEF u
<1>6. /\ Sound(u) /\ u \in Programs /\ Catalogued(u) /\ SameRows(p, u) /\ Grown(p, u)
      /\ Len(u.explanations) \in Nat /\ Len(u.remediations) = Len(p.remediations)
  BY <1>1, <1>5, SoundWider, WiderGrown, Lengths DEF Wider, SameRows
<1>7. /\ Len(u.explanations) + m <= MaxPolicyBytes /\ Len(u.remediations) + m <= MaxPolicyBytes
      /\ m <= MaxPolicyBytes
  <2> DEFINE x == Len(p.explanations)
             y == Len(u.explanations)
             k == Cardinality(Range(c.explanations))
             z == Len(p.remediations)
             w == Cost(c)
             t == Len(u.remediations)
  <2>1. /\ x \in Nat /\ y \in Nat /\ k \in Nat /\ z \in Nat /\ m \in Nat /\ MaxPolicyBytes \in Nat
        /\ w = m + k /\ y <= x + k /\ t = z /\ x + w <= MaxPolicyBytes /\ z + w <= MaxPolicyBytes
    BY <1>1, <1>3, <1>5, <1>6
  <2> HIDE DEF x, y, k, z, w, t, m
  <2>2. y + m <= MaxPolicyBytes /\ t + m <= MaxPolicyBytes /\ m <= MaxPolicyBytes BY ONLY <2>1
  <2> QED BY <2>2 DEF y, t
<1>8. \A k \in 1..m : ValidRemediation(c.remediations[k])
  BY SMTT(40), <1>3, RangeIs DEF ValidResolution
<1>9. /\ Sound(q) /\ Grown(u, q) /\ SameBut(u, q)
      /\ Len(q.remediations) = Len(u.remediations) + m
      /\ Len(q.explanations) <= Len(u.explanations) + m
      /\ \A k \in 1..m : RemediationMeaning(q, Len(u.remediations) + k) = c.remediations[k]
  BY <1>3, <1>6, <1>7, <1>8, RemedyAllIs
<1> HIDE DEF q
<1>10. /\ q \in Programs /\ Catalogued(q) /\ Rows(q) /\ Grown(p, q)
       /\ Len(q.explanations) \in Nat /\ Len(q.clauses) = n - 1 /\ q.clauses = p.clauses
       /\ q.clauseKinds = p.clauseKinds /\ SameInstructions(p, q)
       /\ Len(q.clauseRemediations) = Len(q.remediations)
       /\ Len(q.symbols) \in Nat /\ Len(q.code) \in Nat /\ Len(q.kinds) \in Nat
       /\ Len(p.symbols) \in Nat /\ Len(p.code) \in Nat
  <2>1. q \in Programs /\ Catalogued(q) /\ Rows(q) BY <1>9 DEF Sound
  <2>2. Grown(p, q) BY <1>1, <1>6, <1>9, <2>1, GrownTrans
  <2>3. q.clauses = p.clauses /\ q.clauseKinds = p.clauseKinds /\ SameInstructions(p, q)
    BY <1>6, <1>9 DEF SameBut, SameRows, SameInstructions
  <2>4. Len(q.clauseRemediations) = Len(q.remediations) BY <2>1 DEF Rows
  <2> QED BY <1>1, <2>1, <2>2, <2>3, <2>4, Lengths
<1>11. /\ Len(q.explanations) <= MaxPolicyBytes
       /\ Len(q.explanations) <= Len(p.explanations) + Cost(c)
       /\ Len(q.remediations) = Len(p.remediations) + m
       /\ Len(q.remediations) <= Len(p.remediations) + Cost(c)
  <2> DEFINE x == Len(p.explanations)
             y == Len(u.explanations)
             v == Len(q.explanations)
             k == Cardinality(Range(c.explanations))
             z == Len(p.remediations)
             w == Cost(c)
             t == Len(q.remediations)
  <2>1. /\ x \in Nat /\ y \in Nat /\ v \in Nat /\ k \in Nat /\ z \in Nat /\ m \in Nat
        /\ MaxPolicyBytes \in Nat
        /\ w = m + k /\ y <= x + k /\ v <= y + m /\ t = z + m
        /\ x + w <= MaxPolicyBytes /\ z + w <= MaxPolicyBytes
    BY <1>1, <1>3, <1>5, <1>6, <1>9, <1>10
  <2> HIDE DEF x, y, v, k, z, w, t, m
  <2>2. v <= MaxPolicyBytes /\ v <= x + w /\ t = z + m /\ t <= z + w BY ONLY <2>1
  <2> QED BY <2>2 DEF x, v, w, t, z
<1>12. Len(kinds) < CountLimit /\ Len(kinds) \in Nat /\ CountLimit \in Nat
  <2>1. Len(kinds) \in Nat /\ DOMAIN kinds = 1..Len(kinds) BY SeqShape
  <2>2. kinds \in [1..Len(kinds) -> 1..Len(p.kinds)] BY <2>1, SeqShape
  <2>3. Len(kinds) <= Len(p.kinds)
    <3> DEFINE a == Len(kinds)
               b == Len(p.kinds)
    <3>1. a \in Nat /\ b \in Nat /\ kinds \in [1..a -> 1..b] BY <1>1, <2>1, <2>2
    <3> HIDE DEF a, b
    <3>2. a <= b BY <3>1, Pigeonhole
    <3> QED BY <3>2 DEF a, b
  <2>4. Len(p.kinds) < CountLimit /\ CountLimit \in Nat BY <1>1, KindsFit, CompilerAssumption
  <2> QED BY <1>1, <2>1, <2>3, <2>4
<1>13. Count(Len(kinds)) = Len(kinds) /\ TextID(m) = m
  BY <1>3, <1>7, <1>12, CountIs, TextIDIs
<1> DEFINE C == Append(q.clauses, row)
           K == q.clauseKinds \o kinds
<1>14. r = Ruled(q, C, K) BY DEF WithClause, Ruled, q, u
<1> HIDE DEF r
<1>15. /\ row.symbol = Symbol(p, c.id) /\ row.root = assertion
       /\ row.kindStart = Len(p.clauseKinds) /\ row.kindCount = Len(kinds)
       /\ row.outcomes = c.resolution
       /\ row.explanations = [x \in Reasons |-> ExplanationID(q, c.explanations[x])]
       /\ row.remediationStart = Len(p.remediations) /\ row.remediationCount = m
       /\ row = [symbol |-> row.symbol, root |-> row.root, kindStart |-> row.kindStart,
                 kindCount |-> row.kindCount, outcomes |-> row.outcomes,
                 explanations |-> row.explanations, remediationStart |-> row.remediationStart,
                 remediationCount |-> row.remediationCount]
  BY <1>1, <1>13
<1> HIDE DEF row
<1>16. /\ row.symbol \in 1..Len(p.symbols) /\ row.symbol \in Nat /\ Text(p, row.symbol) = c.id
  BY <1>1, <1>15, SymbolIs
<1>17. \A x \in Reasons : /\ row.explanations[x] \in 0..Len(q.explanations)
                          /\ row.explanations[x] \in Nat
                          /\ Wording(q, row.explanations[x]) = c.explanations[x]
                          /\ c.explanations[x] # NoSymbol => row.explanations[x] # 0
  <2> TAKE x \in Reasons
  <2>1. x \in 1..Len(c.explanations) BY <1>3 DEF Reasons
  <2>2. Worded(u, c.explanations[x]) BY <1>5, <2>1
  <2>3. Prefix(u.symbols, q.symbols) /\ Prefix(u.explanations, q.explanations) BY <1>9, GrownIs
  <2>4. Worded(q, c.explanations[x]) BY <1>6, <1>10, <2>2, <2>3, WordedKept
  <2>5. row.explanations[x] = ExplanationID(q, c.explanations[x]) BY <1>15
  <2> QED BY <1>10, <1>11, <2>4, <2>5, ExplanationIDIs
<1>18. row \in Rules
  <2>1. row.explanations \in [Reasons -> Nat] BY <1>15, <1>17
  <2>2. assertion \in Nat BY <1>10
  <2> QED BY <1>1, <1>2, <1>3, <1>12, <1>15, <1>16, <2>1, <2>2 DEF Rules
<1>19. q.clauses \in Seq(Rules) /\ q.clauseKinds \in Seq(Nat) BY <1>10, Columns
<1>20. /\ C \in Seq(Rules) /\ Len(C) = n /\ C[n] = row /\ Prefix(q.clauses, C)
  <2> DEFINE base == q.clauses
  <2>1. base \in Seq(Rules) /\ row \in Rules BY <1>18, <1>19
  <2> HIDE DEF base
  <2>2. /\ Append(base, row) \in Seq(Rules) /\ Len(Append(base, row)) = Len(base) + 1
        /\ Append(base, row)[Len(base) + 1] = row /\ Prefix(base, Append(base, row))
    BY ONLY <2>1, AppendIs
  <2>3. Len(base) + 1 = n BY <1>10 DEF base
  <2> HIDE DEF n
  <2> QED BY <2>2, <2>3 DEF base
<1>21. /\ K \in Seq(Nat) /\ Len(K) = Len(p.clauseKinds) + Len(kinds) /\ Prefix(q.clauseKinds, K)
       /\ \A j \in 1..Len(kinds) : K[Len(p.clauseKinds) + j] = kinds[j]
       /\ Slice(K, Len(p.clauseKinds), Len(kinds)) = kinds
  <2> DEFINE base == q.clauseKinds
  <2>1. base \in Seq(Nat) /\ kinds \in Seq(Nat) BY <1>19
  <2> HIDE DEF base
  <2>2. /\ base \o kinds \in Seq(Nat) /\ Len(base \o kinds) = Len(base) + Len(kinds)
        /\ Prefix(base, base \o kinds)
        /\ \A j \in 1..Len(kinds) : (base \o kinds)[Len(base) + j] = kinds[j]
    BY ONLY <2>1, ConcatIs
  <2>3. Slice(base \o kinds, Len(base), Len(kinds)) = kinds BY ONLY <2>1, SliceOfTail
  <2> QED BY <1>10, <2>2, <2>3 DEF base
<1> HIDE DEF C, K, n
<1>22. /\ r \in Programs /\ r.clauses = C /\ r.clauseKinds = K /\ SameInstructions(q, r)
       /\ r.symbols = q.symbols /\ r.kinds = q.kinds /\ r.explanations = q.explanations
       /\ r.clauseRemediations = q.clauseRemediations /\ r.remediations = q.remediations
  BY <1>10, <1>14, <1>20, <1>21, NewClause
<1>23. Grown(q, r) BY <1>10, <1>20, <1>21, <1>22, RuleGrown
<1>24. Grown(p, r) BY <1>1, <1>10, <1>22, <1>23, GrownTrans
<1>25. SameInstructions(p, r) BY <1>10, <1>22 DEF SameInstructions
<1>26. Catalogued(r) BY <1>10, <1>22 DEF Catalogued
<1>27. ValidClause(r, row)
  <2>1. row.symbol \in 1..Len(r.symbols) /\ row.root \in 1..Len(r.code)
    <3>1. Prefix(p.symbols, q.symbols) /\ Prefix(p.code, q.code) BY <1>10, GrownIs
    <3>2. Len(p.symbols) <= Len(r.symbols) /\ Len(p.code) <= Len(r.code) /\ Len(r.symbols) \in Nat
            /\ Len(r.code) \in Nat
      BY <1>22, <3>1, Lengths DEF Prefix, SameInstructions
    <3>3. row.symbol \in 1..Len(r.symbols) BY <1>10, <1>16, <3>2, Within
    <3>4. row.root \in 1..Len(r.code) BY <1>10, <1>15, <3>2, Within
    <3> QED BY <3>3, <3>4
  <2>2. row.remediationStart + row.remediationCount <= Len(r.clauseRemediations)
    <3>1. row.remediationStart + row.remediationCount = Len(p.remediations) + m BY <1>15
    <3>2. Len(r.clauseRemediations) = Len(p.remediations) + m BY <1>10, <1>11, <1>22
    <3>3. Len(r.clauseRemediations) \in Nat BY <1>22, Lengths
    <3> DEFINE k == Len(r.clauseRemediations)
    <3>4. row.remediationStart + row.remediationCount = k BY <3>1, <3>2
    <3>5. k <= k
      <4>1. k \in Nat BY <3>3
      <4> HIDE DEF k
      <4> QED BY <4>1
    <3> HIDE DEF k
    <3>6. row.remediationStart + row.remediationCount <= k BY ONLY <3>4, <3>5, Zenon
    <3> QED BY <3>6 DEF k
  <2>3. row.kindStart + row.kindCount <= Len(r.clauseKinds)
    BY <1>1, <1>12, <1>15, <1>21, <1>22
  <2>4. ASSUME NEW x \in Reasons
        PROVE  /\ row.outcomes[x] \in Outcomes
               /\ \/ row.explanations[x] \in 1..Len(r.explanations)
                  \/ row.explanations[x] = 0 /\ row.outcomes[x] = OutcomeApprove
    <3>1. c.resolution[x] \in Outcomes BY DEF ValidResolution
    <3>2. c.resolution[x] # OutcomeApprove => c.explanations[x] # NoSymbol
      BY NotBlank DEF ValidResolution, Explained
    <3>3. row.explanations[x] # 0 => row.explanations[x] \in 1..Len(r.explanations)
      BY <1>10, <1>17, <1>22
    <3> QED BY <1>15, <1>17, <3>1, <3>2, <3>3
  <2> QED BY <2>1, <2>2, <2>3, <2>4 DEF ValidClause, ValidID, ValidRange
<1>28. Rows(r)
  <2>1. /\ \A k \in 1..Len(q.setValues) : r.setValues[k] \in 1..Len(r.symbols)
        /\ \A k \in 1..Len(q.specs) : ValidSpec(r, r.specs[k])
        /\ \A k \in 1..Len(q.remediations) : ValidRemediationSpec(r, r.remediations[k])
        /\ \A k \in 1..Len(q.clauseKinds) : r.clauseKinds[k] \in 1..Len(r.kinds)
        /\ \A k \in 1..Len(q.clauseRemediations) : r.clauseRemediations[k] = k
        /\ \A k \in 1..Len(q.clauses) : ValidClause(r, r.clauses[k])
    BY <1>9, <1>22, <1>23, RowsKept
  <2>2. ASSUME NEW k \in 1..n PROVE ValidClause(r, r.clauses[k])
    <3>0. n \in Nat /\ n - 1 = Len(q.clauses) BY <1>1, <1>10 DEF n
    <3>1. k \in 1..(n - 1) \/ k = n BY <3>0
    <3> QED BY <1>20, <1>22, <1>27, <2>1, <3>0, <3>1
  <2>3. ASSUME NEW k \in 1..Len(K) PROVE r.clauseKinds[k] \in 1..Len(r.kinds)
    <3> DEFINE a == Len(p.clauseKinds)
               b == Len(kinds)
    <3>1. /\ a \in Nat /\ b \in Nat /\ k \in 1..(a + b) /\ Len(q.clauseKinds) = a
          /\ \A j \in 1..b : K[a + j] = kinds[j]
      BY <1>1, <1>10, <1>12, <1>21
    <3>2. \A j \in 1..b : kinds[j] \in 1..Len(r.kinds)
      <4>1. Len(p.kinds) <= Len(q.kinds) BY <1>10, GrownIs DEF Prefix
      <4> QED BY <1>1, <1>10, <1>22, <4>1, Within
    <3> HIDE DEF a, b
    <3>3. CASE k \in 1..a BY <2>1, <3>1, <3>3
    <3>4. CASE k \notin 1..a
      <4>1. k - a \in 1..b /\ k = a + (k - a) BY <3>1, <3>4
      <4>2. K[k] = kinds[k - a] BY <3>1, <4>1
      <4> QED BY <1>22, <3>2, <4>1, <4>2
    <3> QED BY <3>3, <3>4
  <2> QED BY <1>10, <1>20, <1>22, <2>1, <2>2, <2>3 DEF Rows, SameInstructions
<1>29. r.clauses[n] = row BY <1>20, <1>22
<1> DEFINE ids == Slice(r.clauseRemediations, row.remediationStart, row.remediationCount)
<1>30. /\ DOMAIN ids = 1..m
       /\ \A k \in 1..m : ids[k] = Len(p.remediations) + k
  <2> DEFINE col == r.clauseRemediations
             a == row.remediationStart
  <2>1. col \in Seq(Nat) /\ a \in Nat /\ m \in Nat /\ a + m <= Len(col) /\ a = Len(p.remediations)
    <3>1. col \in Seq(Nat) BY <1>22, Columns
    <3>2. a = Len(p.remediations) /\ a \in Nat /\ m \in Nat BY <1>1, <1>3, <1>15
    <3>3. Len(col) = Len(p.remediations) + m BY <1>10, <1>11, <1>22
    <3>4. a + m <= Len(col)
      <4> HIDE DEF col, a, m
      <4> QED BY ONLY <3>2, <3>3
    <3> QED BY <3>1, <3>2, <3>4
  <2>2. \A k \in 1..Len(col) : col[k] = k BY <1>28 DEF Rows
  <2> HIDE DEF col, a, m
  <2>3. /\ DOMAIN Slice(col, a, m) = 1..m
        /\ \A k \in 1..m : a + k \in 1..Len(col) /\ Slice(col, a, m)[k] = col[a + k]
    BY ONLY <2>1, IdSlice
  <2>4. \A k \in 1..m : Slice(col, a, m)[k] = a + k BY <2>2, <2>3
  <2> QED BY <1>15, <2>1, <2>3, <2>4 DEF col, a
<1> HIDE DEF ids
<1>31. \A k \in 1..m : RemediationMeaning(r, ids[k]) = c.remediations[k]
  <2> TAKE k \in 1..m
  <2>1. RemediationMeaning(q, Len(p.remediations) + k) = c.remediations[k] BY <1>6, <1>9
  <2>2. Len(p.remediations) + k \in 1..Len(q.remediations)
    <3> DEFINE a == Len(p.remediations)
               b == Len(q.remediations)
    <3>1. a \in Nat /\ m \in Nat /\ b = a + m /\ k \in 1..m BY <1>1, <1>3, <1>11
    <3> HIDE DEF a, b, m
    <3>2. a + k \in 1..b BY ONLY <3>1
    <3> QED BY <3>2 DEF a, b
  <2>3. RemediationMeaning(r, Len(p.remediations) + k) = c.remediations[k]
    BY <1>9, <1>22, <1>23, <2>1, <2>2, RemediationKept
  <2> QED BY <1>30, <2>3
<1>32. ClauseMeaning(r, row) = [c EXCEPT !.assertion = assertion]
  <2>1. ClauseMeaning(r, row) =
          [id |-> Text(r, row.symbol), assertion |-> row.root, resolution |-> row.outcomes,
           explanations |-> [x \in Reasons |-> Wording(r, row.explanations[x])],
           remediations |-> [k \in DOMAIN ids |-> RemediationMeaning(r, ids[k])]]
    BY DEF ClauseMeaning, Wording, ids
  <2>2. Text(r, row.symbol) = c.id
    <3>1. Prefix(p.symbols, q.symbols) /\ row.symbol \in 0..Len(p.symbols)
      BY <1>10, <1>16, GrownIs
    <3>2. Text(q, row.symbol) = Text(p, row.symbol) BY <1>1, <1>10, <3>1, TextKept
    <3> QED BY <1>16, <1>22, <3>2 DEF Text
  <2>3. [x \in Reasons |-> Wording(r, row.explanations[x])] = c.explanations
    <3>1. \A x \in Reasons : Wording(r, row.explanations[x]) = c.explanations[x]
      BY <1>17, <1>22 DEF Wording, Text
    <3> QED BY <1>2, <3>1
  <2>4. [k \in DOMAIN ids |-> RemediationMeaning(r, ids[k])] = c.remediations
    BY <1>4, <1>30, <1>31
  <2>5. ClauseMeaning(r, row) =
          [id |-> c.id, assertion |-> assertion, resolution |-> c.resolution,
           explanations |-> c.explanations, remediations |-> c.remediations]
    BY <1>15, <2>1, <2>2, <2>3, <2>4
  <2> DEFINE i == c.id
             a == c.assertion
             o == c.resolution
             e == c.explanations
             x == c.remediations
  <2>6. c = [id |-> i, assertion |-> a, resolution |-> o, explanations |-> e, remediations |-> x]
    BY <1>2
  <2> HIDE DEF i, a, o, e, x
  <2>7. [c EXCEPT !.assertion = assertion] =
          [id |-> i, assertion |-> assertion, resolution |-> o, explanations |-> e, remediations |-> x]
    BY ONLY <2>6
  <2> QED BY <2>5, <2>7 DEF i, o, e, x
<1>33. KindsOf(r, row) = KindTexts(p, kinds)
  <2>1. Slice(r.clauseKinds, row.kindStart, row.kindCount) = kinds BY <1>15, <1>21, <1>22
  <2>2. KindsOf(r, row) = [j \in DOMAIN kinds |-> Text(r, r.kinds[kinds[j]])]
    BY <2>1 DEF KindsOf
  <2>3. DOMAIN kinds = 1..Len(kinds) BY SeqShape
  <2>4. \A j \in 1..Len(kinds) : Text(r, r.kinds[kinds[j]]) = Text(p, p.kinds[kinds[j]])
    BY <1>1, <1>22, <1>24, KindKept
  <2> QED BY <2>2, <2>3, <2>4 DEF KindTexts
<1>34. /\ Len(r.explanations) <= Len(p.explanations) + Cost(c)
       /\ Len(r.remediations) <= Len(p.remediations) + Cost(c) /\ Len(r.clauses) = n
  BY <1>11, <1>20, <1>22
<1> QED BY <1>22, <1>24, <1>25, <1>26, <1>28, <1>29, <1>32, <1>33, <1>34 DEF Sound, r, n

-----------------------------------------------------------------------------
(* Sequences laid end to end.                                              *)

\* b[r] entries come from the first r sequences.
Offsets(seqs, b) ==
  /\ b \in [0..Len(seqs) -> Nat] /\ b[0] = 0
  /\ \A r \in 1..Len(seqs) : b[r] = b[r - 1] + Len(seqs[r])

\* Where each sequence starts in the concatenation: such offsets exist,
LEMMA OffsetsExist ==
  ASSUME NEW S, NEW seqs \in Seq(Seq(S))
  PROVE  \E b : Offsets(seqs, b)
PROOF
<1> DEFINE m == Len(seqs)
           step == [x \in (1..m) \X Nat |-> x[2] + Len(seqs[x[1]])]
<1>1. m \in Nat /\ \A r \in 1..m : Len(seqs[r]) \in Nat BY SeqShape
<1>2. step \in [(1..m) \X Nat -> Nat] /\ \A r \in 1..m, x \in Nat : step[<<r, x>>] = x + Len(seqs[r])
  BY SMTT(30), <1>1
<1> HIDE DEF step, m
<1>3. PICK g : Runs(g, m, Nat, 0, step) BY <1>1, <1>2, StepsExist
<1>4. \A r \in 1..m : g[r - 1] \in Nat
  <2> TAKE r \in 1..m
  <2>1. r - 1 \in 0..m BY <1>1
  <2> QED BY <1>3, <2>1 DEF Runs
<1>5. Offsets(seqs, g) BY <1>2, <1>3, <1>4 DEF Offsets, Runs, m
<1> QED BY <1>5

\* and grow.
LEMMA OffsetsGrow ==
  ASSUME NEW S, NEW seqs \in Seq(Seq(S)), NEW b, Offsets(seqs, b), NEW s \in 0..Len(seqs)
  PROVE  \A r \in 0..s : b[r] <= b[s]
PROOF
<1> DEFINE m == Len(seqs)
           T == {k \in 0..m : \A r \in 0..k : b[r] <= b[k]}
<1>1. m \in Nat /\ \A r \in 1..m : Len(seqs[r]) \in Nat BY SeqShape
<1>2. b \in [0..m -> Nat] /\ \A r \in 1..m : b[r] = b[r - 1] + Len(seqs[r]) BY DEF Offsets
<1>3. 0 \in T BY <1>1, <1>2
<1>4. ASSUME NEW k \in 1..m, k - 1 \in T PROVE k \in T
  <2>1. k - 1 \in 0..m /\ k \in 0..m /\ \A r \in 0..(k - 1) : b[r] <= b[k - 1] BY <1>1, <1>4
  <2>2. b[k] = b[k - 1] + Len(seqs[k]) /\ Len(seqs[k]) \in Nat /\ b[k - 1] \in Nat /\ b[k] \in Nat
    BY <1>1, <1>2, <2>1
  <2>3. ASSUME NEW r \in 0..k PROVE b[r] <= b[k]
    <3>1. CASE r = k BY <2>2, <3>1
    <3>2. CASE r # k
      <4>1. r \in 0..(k - 1) /\ r \in 0..m BY <1>1, <3>2
      <4>2. b[r] <= b[k - 1] /\ b[r] \in Nat BY <1>2, <2>1, <4>1
      <4> QED BY <2>2, <4>2
    <3> QED BY <3>1, <3>2
  <2> QED BY <2>1, <2>3
<1> HIDE DEF T
<1>5. \A k \in 0..m : k \in T BY <1>1, <1>3, <1>4, Upward
<1> QED BY <1>5 DEF T

\* What the first k sequences laid end to end are.
Laid(f, seqs, b, k) ==
  /\ Len(f) = b[k]
  /\ \A r \in 1..k : \A j \in 1..Len(seqs[r]) :
       b[r - 1] + j \in 1..Len(f) /\ f[b[r - 1] + j] = seqs[r][j]
  /\ \A i \in 1..Len(f) : \E r \in 1..k : \E j \in 1..Len(seqs[r]) : i = b[r - 1] + j

LEMMA LaidNext ==
  ASSUME NEW S, NEW seqs \in Seq(Seq(S)), NEW b, Offsets(seqs, b), NEW k \in 1..Len(seqs),
         NEW f \in Seq(S), Laid(f, seqs, b, k - 1)
  PROVE  Laid(f \o seqs[k], seqs, b, k)
PROOF
<1> DEFINE m == Len(seqs)
           t == seqs[k]
           g == f \o t
           n == Len(f)
           l == Len(t)
<1>1. /\ m \in Nat /\ t \in Seq(S) /\ l \in Nat /\ n \in Nat /\ k \in 1..m
  BY SeqShape
<1>2. /\ b[k] = b[k - 1] + l /\ n = b[k - 1]
      /\ \A r \in 1..(k - 1) : \A j \in 1..Len(seqs[r]) :
           b[r - 1] + j \in 1..n /\ f[b[r - 1] + j] = seqs[r][j]
      /\ \A i \in 1..n : \E r \in 1..(k - 1) : \E j \in 1..Len(seqs[r]) : i = b[r - 1] + j
  BY DEF Offsets, Laid
<1>3. /\ Len(g) = n + l /\ \A i \in 1..n : g[i] = f[i]
      /\ \A j \in 1..l : g[n + j] = t[j]
  <2>1. f \in Seq(S) /\ t \in Seq(S) BY <1>1
  <2> HIDE DEF t
  <2> QED BY ONLY <2>1, ConcatIs
<1>4. \A j \in 1..l : n + j \in 1..(n + l) BY <1>1
<1>5. \A i \in 1..n : i \in 1..(n + l) BY <1>1
<1> HIDE DEF g, n, l
<1>6. ASSUME NEW r \in 1..k, NEW j \in 1..Len(seqs[r])
      PROVE  b[r - 1] + j \in 1..(n + l) /\ g[b[r - 1] + j] = seqs[r][j]
  <2>1. CASE r = k BY <1>2, <1>3, <1>4, <2>1 DEF l
  <2>2. CASE r # k
    <3>1. r \in 1..(k - 1) BY <1>1, <2>2
    <3>2. b[r - 1] + j \in 1..n /\ f[b[r - 1] + j] = seqs[r][j] BY <1>2, <3>1
    <3> QED BY <1>3, <1>5, <3>2
  <2> QED BY <2>1, <2>2
<1>7. ASSUME NEW i \in 1..(n + l)
      PROVE  \E r \in 1..k : \E j \in 1..Len(seqs[r]) : i = b[r - 1] + j
  <2>1. CASE i \in 1..n
    <3>1. PICK r \in 1..(k - 1) : \E j \in 1..Len(seqs[r]) : i = b[r - 1] + j BY <1>2, <2>1
    <3>2. r \in 1..k BY <1>1
    <3> QED BY <3>1, <3>2
  <2>2. CASE i \notin 1..n
    <3>1. i - n \in 1..l /\ i = n + (i - n) /\ k \in 1..k BY <1>1, <2>2
    <3> QED BY <1>2, <3>1 DEF l
  <2> QED BY <2>1, <2>2
<1>8. Len(g) = b[k] BY <1>2, <1>3
<1> QED BY <1>3, <1>6, <1>7, <1>8 DEF Laid, g

\* FlattenSeq lays the sequences end to end.
LEMMA FlattenIs ==
  ASSUME NEW S, NEW seqs \in Seq(Seq(S)), NEW b, Offsets(seqs, b)
  PROVE  FlattenSeq(seqs) \in Seq(S) /\ Laid(FlattenSeq(seqs), seqs, b, Len(seqs))
PROOF
<1> DEFINE m == Len(seqs)
<1>1. /\ m \in Nat /\ \A r \in 1..m : seqs[r] \in Seq(S) /\ Len(seqs[r]) \in Nat
      /\ b[0] = 0 /\ \A r \in 1..m : b[r] = b[r - 1] + Len(seqs[r])
  BY SeqShape DEF Offsets
<1>2. CASE m = 0
  <2>1. seqs = <<>> BY <1>2, EmptySeq
  <2>2. FlattenSeq(seqs) = <<>> BY <1>2, <2>1 DEF FlattenSeq
  <2>3. <<>> \in Seq(S) /\ Len(<<>>) = 0 OBVIOUS
  <2>4. Laid(<<>>, seqs, b, 0) BY <1>1, <2>3 DEF Laid
  <2> QED BY <1>2, <2>2, <2>3, <2>4
<1>3. CASE m # 0
  <2> DEFINE n == m - 1
             step == [x \in (1..n) \X Seq(S) |-> x[2] \o seqs[x[1] + 1]]
             Defines(u) == u = [i \in 1..m |-> IF i = 1 THEN seqs[i] ELSE u[i - 1] \o seqs[i]]
             flat == CHOOSE u : Defines(u)
  <2>1. n \in Nat /\ 1 \in 1..m /\ m \in 1..m /\ \A k \in 1..n : k + 1 \in 1..m BY <1>1, <1>3
  <2>2. /\ step \in [(1..n) \X Seq(S) -> Seq(S)]
        /\ \A k \in 1..n, q \in Seq(S) : step[<<k, q>>] = q \o seqs[k + 1]
    BY <1>1, <2>1, ConcatProperties
  <2> HIDE DEF step, n
  <2>3. PICK g : Runs(g, n, Seq(S), seqs[1], step) BY <1>1, <2>1, <2>2, StepsExist
  <2> DEFINE h == [i \in 1..m |-> g[i - 1]]
  <2>4. Defines(h)
    <3>1. ASSUME NEW i \in 1..m PROVE h[i] = IF i = 1 THEN seqs[i] ELSE h[i - 1] \o seqs[i]
      <4>1. CASE i = 1 BY <2>3, <4>1 DEF Runs
      <4>2. CASE i # 1
        <5>1. i - 1 \in 1..n /\ i - 1 \in 1..m /\ i - 1 - 1 \in 0..n /\ i - 1 + 1 = i
          BY <1>1, <4>2 DEF n
        <5>2. g[i - 1 - 1] \in Seq(S) BY <2>3, <5>1 DEF Runs
        <5>3. g[i - 1] = g[i - 1 - 1] \o seqs[i] BY <2>2, <2>3, <5>1, <5>2 DEF Runs
        <5> QED BY <4>2, <5>1, <5>3
      <4> QED BY <4>1, <4>2
    <3> QED BY <3>1
  <2>5. Defines(flat) BY <2>4
  <2> HIDE DEF flat
  <2>6. flat[1] = seqs[1] /\ \A i \in 1..m : i # 1 => flat[i] = flat[i - 1] \o seqs[i]
    BY <2>1, <2>5
  <2> DEFINE T == {k \in 0..n : flat[k + 1] \in Seq(S) /\ Laid(flat[k + 1], seqs, b, k + 1)}
  <2>7. 0 \in T
    <3> DEFINE e == <<>>
    <3>1. e \in Seq(S) /\ Len(e) = 0 OBVIOUS
    <3>2. Laid(e, seqs, b, 0) BY <1>1, <3>1 DEF Laid
    <3>3. e \o seqs[1] = seqs[1] BY <1>1, <2>1, ConcatEmptySeq
    <3> HIDE DEF e
    <3>4. 1 - 1 = 0 OBVIOUS
    <3>5. Laid(e, seqs, b, 1 - 1) BY <3>2, <3>4
    <3>6. Laid(e \o seqs[1], seqs, b, 1)
      BY ONLY <2>1, <3>1, <3>5, LaidNext, seqs \in Seq(Seq(S)), Offsets(seqs, b)
    <3> QED BY <1>1, <2>1, <2>6, <3>3, <3>6
  <2>8. ASSUME NEW k \in 1..n, k - 1 \in T PROVE k \in T
    <3>1. /\ k - 1 + 1 = k /\ k + 1 - 1 = k /\ k + 1 \in 1..m /\ k + 1 # 1 /\ k \in 0..n BY <2>1
    <3>2. flat[k] \in Seq(S) /\ Laid(flat[k], seqs, b, k) BY <2>8, <3>1
    <3>3. flat[k + 1] = flat[k] \o seqs[k + 1]
      <4> DEFINE i == k + 1
      <4>1. i \in 1..m /\ i # 1 /\ i - 1 = k BY <3>1
      <4> HIDE DEF i
      <4>2. flat[i] = flat[i - 1] \o seqs[i] BY <2>6, <4>1
      <4> QED BY <4>1, <4>2 DEF i
    <3>4. Laid(flat[k] \o seqs[k + 1], seqs, b, k + 1) BY <3>1, <3>2, LaidNext
    <3>5. flat[k] \o seqs[k + 1] \in Seq(S) BY <1>1, <3>1, <3>2, ConcatProperties
    <3> QED BY <3>1, <3>3, <3>4, <3>5
  <2> HIDE DEF T
  <2>9. \A k \in 0..n : k \in T BY <2>1, <2>7, <2>8, Upward
  <2>10. n \in 0..n /\ n + 1 = m BY <1>1, <2>1 DEF n
  <2>11. flat[m] \in Seq(S) /\ Laid(flat[m], seqs, b, m) BY <2>9, <2>10 DEF T
  <2>12. FlattenSeq(seqs) = flat[m] BY <1>3 DEF FlattenSeq, flat
  <2> QED BY <2>11, <2>12
<1> QED BY <1>2, <1>3

\* What the clauses up to one cost, never falls.
LEMMA CostUpToIs ==
  ASSUME NEW cs \in Seq(ClauseSource)
  PROVE  /\ CostUpTo(cs)[0] = 0
         /\ \A k \in 1..Len(cs) : CostUpTo(cs)[k] = CostUpTo(cs)[k - 1] + Cost(cs[k])
         /\ \A k \in 0..Len(cs) : CostUpTo(cs)[k] \in Nat /\ CostUpTo(cs)[k] <= CostUpTo(cs)[Len(cs)]
PROOF
<1> DEFINE m == Len(cs)
           step == [x \in (1..m) \X Nat |-> x[2] + Cost(cs[x[1]])]
           Defines(u) == u = [k \in 0..m |-> IF k = 0 THEN 0 ELSE u[k - 1] + Cost(cs[k])]
           cost == CHOOSE u : Defines(u)
<1>1. m \in Nat /\ \A k \in 1..m : cs[k] \in ClauseSource /\ Cost(cs[k]) \in Nat
  BY SeqShape, CostIs
<1>2. step \in [(1..m) \X Nat -> Nat] /\ \A k \in 1..m, x \in Nat : step[<<k, x>>] = x + Cost(cs[k])
  BY <1>1
<1> HIDE DEF step, m
<1>3. PICK g : Runs(g, m, Nat, 0, step) BY <1>1, <1>2, StepsExist
<1>4. Defines(g)
  <2>1. ASSUME NEW k \in 0..m PROVE g[k] = IF k = 0 THEN 0 ELSE g[k - 1] + Cost(cs[k])
    <3>1. CASE k = 0 BY <1>3, <3>1 DEF Runs
    <3>2. CASE k # 0
      <4>1. k \in 1..m /\ k - 1 \in 0..m BY <1>1, <3>2
      <4>2. g[k - 1] \in Nat BY <1>3, <4>1 DEF Runs
      <4> QED BY <1>2, <1>3, <3>2, <4>1, <4>2 DEF Runs
    <3> QED BY <3>1, <3>2
  <2> QED BY <1>3, <2>1 DEF Runs
<1>5. Defines(cost) BY <1>4
<1> HIDE DEF cost
<1>6. cost[0] = 0 /\ \A k \in 1..m : cost[k] = cost[k - 1] + Cost(cs[k])
  <2>1. \A k \in 0..m : cost[k] = IF k = 0 THEN 0 ELSE cost[k - 1] + Cost(cs[k]) BY <1>5
  <2>2. 0 \in 0..m /\ \A k \in 1..m : k \in 0..m /\ k # 0 BY <1>1
  <2> QED BY <2>1, <2>2
<1> DEFINE T == {k \in 0..m : cost[k] \in Nat /\ \A j \in 0..k : cost[j] \in Nat /\ cost[j] <= cost[k]}
<1>7. 0 \in T BY <1>1, <1>6
<1>8. ASSUME NEW k \in 1..m, k - 1 \in T PROVE k \in T
  <2>1. /\ k \in 0..m /\ cost[k] = cost[k - 1] + Cost(cs[k]) /\ cost[k - 1] \in Nat
        /\ Cost(cs[k]) \in Nat /\ \A j \in 0..(k - 1) : cost[j] \in Nat /\ cost[j] <= cost[k - 1]
    BY <1>1, <1>6, <1>8
  <2>2. cost[k] \in Nat /\ cost[k - 1] <= cost[k] BY <2>1
  <2>3. ASSUME NEW j \in 0..k PROVE cost[j] \in Nat /\ cost[j] <= cost[k]
    <3>1. CASE j = k BY <2>2, <3>1
    <3>2. CASE j # k
      <4>1. j \in 0..(k - 1) BY <1>1, <3>2
      <4> QED BY <2>1, <2>2, <4>1
    <3> QED BY <3>1, <3>2
  <2> QED BY <2>1, <2>2, <2>3
<1> HIDE DEF T
<1>9. \A k \in 0..m : k \in T BY <1>1, <1>7, <1>8, Upward
<1>10. m \in T BY <1>1, <1>9
<1>11. \A k \in 0..m : cost[k] \in Nat /\ cost[k] <= cost[m] BY <1>10 DEF T
<1>12. CostUpTo(cs) = cost BY DEF CostUpTo, cost, m
<1> QED BY <1>6, <1>11, <1>12 DEF m

-----------------------------------------------------------------------------
(* The trees of a policy.                                                  *)

ChildrenOf(p, n) == p.nodes[n].children

\* The shapes of a document.
LEMMA SourceIs ==
  ASSUME NEW p \in Sources
  PROVE  /\ p.nodes \in Seq(Expressions) /\ Len(p.nodes) \in Nat /\ Nodes(p) = 1..Len(p.nodes)
         /\ p.requirements \in Seq(AskSource) /\ Len(p.requirements) \in Nat
         /\ DOMAIN p.requirements = 1..Len(p.requirements)
         /\ \A n \in Nodes(p) : /\ p.nodes[n] \in Expressions /\ ChildrenOf(p, n) \in Seq(Nat)
                                /\ Len(ChildrenOf(p, n)) \in Nat
                                /\ DOMAIN ChildrenOf(p, n) = 1..Len(ChildrenOf(p, n))
         /\ \A r \in 1..Len(p.requirements) :
              LET q == p.requirements[r] IN
              /\ q \in AskSource /\ q.clauses \in Seq(ClauseSource) /\ Len(q.clauses) \in Nat
              /\ q.id \in Texts /\ DOMAIN q.clauses = 1..Len(q.clauses)
              /\ \A k \in 1..Len(q.clauses) : q.clauses[k] \in ClauseSource
PROOF
<1>1. p \in Documents BY CompilerAssumption
<1>2. p.nodes \in Seq(Expressions) /\ p.requirements \in Seq(AskSource) BY <1>1 DEF Documents
<1>3. /\ Len(p.nodes) \in Nat /\ Nodes(p) = 1..Len(p.nodes) /\ Len(p.requirements) \in Nat
      /\ DOMAIN p.requirements = 1..Len(p.requirements)
  BY <1>2, LenProperties DEF Nodes
<1>4. ASSUME NEW n \in Nodes(p)
      PROVE  /\ p.nodes[n] \in Expressions /\ ChildrenOf(p, n) \in Seq(Nat)
             /\ Len(ChildrenOf(p, n)) \in Nat
             /\ DOMAIN ChildrenOf(p, n) = 1..Len(ChildrenOf(p, n))
  <2>1. p.nodes[n] \in Expressions BY <1>2, <1>3, SeqShape
  <2>2. ChildrenOf(p, n) \in Seq(Nat) BY <2>1 DEF Expressions, ChildrenOf
  <2> QED BY <2>1, <2>2, LenProperties
<1>5. ASSUME NEW r \in 1..Len(p.requirements)
      PROVE  LET q == p.requirements[r] IN
             /\ q \in AskSource /\ q.clauses \in Seq(ClauseSource) /\ Len(q.clauses) \in Nat
             /\ q.id \in Texts /\ DOMAIN q.clauses = 1..Len(q.clauses)
             /\ \A k \in 1..Len(q.clauses) : q.clauses[k] \in ClauseSource
  <2> DEFINE q == p.requirements[r]
  <2>1. q \in AskSource BY <1>2, SeqShape
  <2> HIDE DEF q
  <2>2. q.clauses \in Seq(ClauseSource) /\ q.id \in Texts BY <2>1 DEF AskSource
  <2>3. Len(q.clauses) \in Nat /\ DOMAIN q.clauses = 1..Len(q.clauses)
          /\ \A k \in 1..Len(q.clauses) : q.clauses[k] \in ClauseSource
    BY <2>2, SeqShape
  <2> QED BY <2>1, <2>2, <2>3 DEF q
<1> QED BY <1>2, <1>3, <1>4, <1>5

\* A node is the child of one node at most, which comes before it; a root is
\* nobody's child and has one owner.
LEMMA TreeIs ==
  ASSUME NEW p \in Sources
  PROVE  /\ \A n \in Nodes(p) : \A j \in 1..Len(ChildrenOf(p, n)) :
              ChildrenOf(p, n)[j] \in Nodes(p) /\ n < ChildrenOf(p, n)[j]
         /\ \A n \in Nodes(p), m \in Nodes(p) :
              \A j \in 1..Len(ChildrenOf(p, n)), i \in 1..Len(ChildrenOf(p, m)) :
                ChildrenOf(p, n)[j] = ChildrenOf(p, m)[i] => n = m /\ j = i
         /\ \A r \in 1..Len(p.requirements) : \A k \in 0..Len(p.requirements[r].clauses) :
              /\ RootAt(p, r, k) \in Nodes(p) /\ RootAt(p, r, k) \in Roots(p)
              /\ \A n \in Nodes(p) : \A j \in 1..Len(ChildrenOf(p, n)) :
                   ChildrenOf(p, n)[j] # RootAt(p, r, k)
              /\ \A s \in 1..Len(p.requirements) : \A i \in 0..Len(p.requirements[s].clauses) :
                   RootAt(p, r, k) = RootAt(p, s, i) => r = s /\ k = i
PROOF
<1>1. /\ Nodes(p) = 1..Len(p.nodes) /\ DOMAIN p.requirements = 1..Len(p.requirements)
      /\ \A n \in Nodes(p) : DOMAIN ChildrenOf(p, n) = 1..Len(ChildrenOf(p, n))
  BY SourceIs
<1>2. IsTree(p) BY CompilerAssumption
<1>3. ASSUME NEW n \in Nodes(p), NEW j \in 1..Len(ChildrenOf(p, n))
      PROVE  /\ ChildrenOf(p, n)[j] \in Nodes(p) /\ n < ChildrenOf(p, n)[j]
             /\ n \in Parents(p, ChildrenOf(p, n)[j])
  <2>1. ChildrenOf(p, n)[j] \in Range(p.nodes[n].children) BY <1>1 DEF Range, ChildrenOf
  <2>2. ChildrenOf(p, n)[j] \in Nodes(p) BY <1>2, <2>1 DEF IsTree
  <2>3. n \in Parents(p, ChildrenOf(p, n)[j]) BY <2>1 DEF Parents
  <2> QED BY <1>2, <2>2, <2>3 DEF IsTree
<1>4. ASSUME NEW n \in Nodes(p), NEW m \in Nodes(p), NEW j \in 1..Len(ChildrenOf(p, n)),
             NEW i \in 1..Len(ChildrenOf(p, m)), ChildrenOf(p, n)[j] = ChildrenOf(p, m)[i]
      PROVE  n = m /\ j = i
  <2> DEFINE c == ChildrenOf(p, n)[j]
  <2>1. c \in Nodes(p) /\ n \in Parents(p, c) /\ m \in Parents(p, c) BY <1>3, <1>4
  <2> HIDE DEF c
  <2>2. Parents(p, c) = {} \/ \E x \in Nodes(p) : Parents(p, c) = {x} BY <1>2, <2>1 DEF IsTree
  <2>3. n = m BY <2>1, <2>2
  <2>4. IsInjective(ChildrenOf(p, n)) BY <1>2 DEF IsTree, ChildrenOf
  <2>5. j = i BY <1>1, <1>4, <2>3, <2>4 DEF IsInjective
  <2> QED BY <2>3, <2>5
<1>5. ASSUME NEW r \in 1..Len(p.requirements), NEW k \in 0..Len(p.requirements[r].clauses)
      PROVE  <<r, k>> \in Owners(p) /\ RootAt(p, r, k) \in Roots(p)
  <2>1. <<r, k>> \in Owners(p) BY <1>1 DEF Owners
  <2>2. <<r, k>>[1] = r /\ <<r, k>>[2] = k OBVIOUS
  <2> QED BY <2>1, <2>2 DEF Roots
<1>6. ASSUME NEW r \in 1..Len(p.requirements), NEW k \in 0..Len(p.requirements[r].clauses)
      PROVE  /\ RootAt(p, r, k) \in Nodes(p)
             /\ \A n \in Nodes(p) : \A j \in 1..Len(ChildrenOf(p, n)) :
                  ChildrenOf(p, n)[j] # RootAt(p, r, k)
  <2>1. RootAt(p, r, k) \in Roots(p) /\ RootAt(p, r, k) \in Nodes(p) BY <1>2, <1>5 DEF IsTree
  <2>2. Parents(p, RootAt(p, r, k)) = {} BY <1>2, <2>1 DEF IsTree
  <2> QED BY <1>3, <2>1, <2>2
<1>7. ASSUME NEW r \in 1..Len(p.requirements), NEW k \in 0..Len(p.requirements[r].clauses),
             NEW s \in 1..Len(p.requirements), NEW i \in 0..Len(p.requirements[s].clauses),
             RootAt(p, r, k) = RootAt(p, s, i)
      PROVE  r = s /\ k = i
  <2>1. <<r, k>> \in Owners(p) /\ <<s, i>> \in Owners(p) BY <1>5
  <2>2. \A o \in Owners(p), u \in Owners(p) : RootAt(p, o[1], o[2]) = RootAt(p, u[1], u[2]) => o = u
    BY <1>2 DEF IsTree
  <2>3. <<r, k>> = <<s, i>> BY <1>7, <2>1, <2>2
  <2> QED BY <2>3
<1> QED BY <1>3, <1>4, <1>5, <1>6, <1>7

\* A child has one parent, at one place.
LEMMA ChildOnce ==
  ASSUME NEW p \in Sources, NEW n \in Nodes(p), NEW m \in Nodes(p),
         NEW j \in 1..Len(ChildrenOf(p, n)), NEW i \in 1..Len(ChildrenOf(p, m)),
         ChildrenOf(p, n)[j] = ChildrenOf(p, m)[i]
  PROVE  n = m /\ j = i
BY TreeIs

\* Two owners have two roots.
LEMMA RootsDiffer ==
  ASSUME NEW p \in Sources, NEW r \in 1..Len(p.requirements), NEW s \in 1..Len(p.requirements),
         NEW k \in 0..Len(p.requirements[r].clauses), NEW i \in 0..Len(p.requirements[s].clauses),
         RootAt(p, r, k) = RootAt(p, s, i)
  PROVE  r = s /\ k = i
PROOF
<1>1. DOMAIN p.requirements = 1..Len(p.requirements) BY SourceIs
<1>2. <<r, k>> \in Owners(p) /\ <<s, i>> \in Owners(p) BY <1>1 DEF Owners
<1>3. \A o \in Owners(p), u \in Owners(p) : RootAt(p, o[1], o[2]) = RootAt(p, u[1], u[2]) => o = u
  BY CompilerAssumption DEF IsTree
<1>4. <<r, k>> = <<s, i>> BY <1>2, <1>3
<1> QED BY <1>4

\* RootOf is defined, and follows the tree.
LEMMA RootOfIs ==
  ASSUME NEW p \in Sources
  PROVE  /\ \A n \in Nodes(p) : n \in Roots(p) => RootOf(p)[n] = n
         /\ \A n \in Nodes(p) : \A j \in 1..Len(ChildrenOf(p, n)) :
              RootOf(p)[ChildrenOf(p, n)[j]] = RootOf(p)[n]
PROOF
<1> DEFINE m == Len(p.nodes)
           par(n) == CHOOSE x \in Parents(p, n) : TRUE
           value(t, n) == IF n \in Roots(p) THEN n ELSE t[par(n)]
           S == [1..m -> 1..m]
           step == [x \in (1..m) \X S |-> [x[2] EXCEPT ![x[1]] = value(x[2], x[1])]]
           base == [n \in 1..m |-> n]
           Defines(u) == u = [n \in Nodes(p) |-> value(u, n)]
           tops == CHOOSE u : Defines(u)
<1>1. m \in Nat /\ Nodes(p) = 1..m BY SourceIs
<1>2. IsTree(p) BY CompilerAssumption
<1>3. ASSUME NEW n \in 1..m, n \notin Roots(p)
      PROVE  par(n) \in 1..m /\ par(n) < n /\ Parents(p, n) = {par(n)}
  <2>1. PICK x \in Nodes(p) : Parents(p, n) = {x} BY <1>1, <1>2, <1>3 DEF IsTree
  <2>2. par(n) = x BY <2>1
  <2>3. x < n BY <1>1, <1>2, <2>1 DEF IsTree
  <2> QED BY <1>1, <2>1, <2>2, <2>3
<1> HIDE DEF par
<1>4. \A t \in S, n \in 1..m : value(t, n) \in 1..m BY <1>3
<1>5. /\ step \in [(1..m) \X S -> S] /\ base \in S
      /\ \A k \in 1..m, t \in S : step[<<k, t>>] = [t EXCEPT ![k] = value(t, k)]
  BY <1>4
<1> HIDE DEF step, base
<1>6. PICK g : Runs(g, m, S, base, step) BY <1>1, <1>5, StepsExist
<1> DEFINE T == {k \in 0..m : g[k] \in S /\ \A n \in 1..k : g[k][n] = value(g[k], n)}
<1>7. 0 \in T
  <2>1. g[0] = base /\ 0 \in 0..m BY <1>1, <1>6 DEF Runs
  <2> QED BY <1>5, <2>1
<1>8. ASSUME NEW k \in 1..m, k - 1 \in T PROVE k \in T
  <2> DEFINE t == g[k - 1]
             u == g[k]
  <2>1. t \in S /\ \A n \in 1..(k - 1) : t[n] = value(t, n) BY <1>8
  <2>2. u = [t EXCEPT ![k] = value(t, k)] BY <1>5, <1>6, <2>1 DEF Runs
  <2> HIDE DEF t, u
  <2>3. u \in S /\ u[k] = value(t, k) /\ \A n \in 1..m : n # k => u[n] = t[n] BY <1>4, <2>1, <2>2
  <2>4. \A n \in 1..k : value(u, n) = value(t, n)
    <3>1. ASSUME NEW n \in 1..k, n \notin Roots(p) PROVE u[par(n)] = t[par(n)]
      <4>1. n \in 1..m BY <1>1
      <4>2. par(n) \in 1..m /\ par(n) # k BY <1>1, <1>3, <3>1, <4>1
      <4> QED BY <2>3, <4>2
    <3> QED BY <3>1
  <2>5. ASSUME NEW n \in 1..k PROVE u[n] = value(u, n)
    <3>1. CASE n = k BY <2>3, <2>4, <3>1
    <3>2. CASE n # k
      <4>1. n \in 1..(k - 1) /\ n \in 1..m BY <1>1, <3>2
      <4> QED BY <2>1, <2>3, <2>4, <3>2, <4>1
    <3> QED BY <3>1, <3>2
  <2> QED BY <2>3, <2>5 DEF u
<1> HIDE DEF T
<1>9. \A k \in 0..m : k \in T BY <1>1, <1>7, <1>8, Upward
<1>10. m \in T BY <1>1, <1>9
<1>11. g[m] \in S /\ \A n \in 1..m : g[m][n] = value(g[m], n) BY <1>10 DEF T
<1>12. Defines(g[m]) BY <1>1, <1>11
<1>13. Defines(tops) BY <1>12
<1>14. RootOf(p) = tops BY DEF RootOf, par
<1> HIDE DEF tops
<1>15. \A n \in 1..m : tops[n] = value(tops, n) BY <1>1, <1>13
<1>16. ASSUME NEW n \in Nodes(p), NEW j \in 1..Len(ChildrenOf(p, n))
       PROVE  tops[ChildrenOf(p, n)[j]] = tops[n]
  <2> DEFINE c == ChildrenOf(p, n)[j]
  <2>1. c \in 1..m /\ c \in Range(p.nodes[n].children)
    BY SMTT(30), <1>1, TreeIs, SourceIs DEF Range, ChildrenOf
  <2> HIDE DEF c
  <2>2. n \in Parents(p, c) BY <2>1 DEF Parents
  <2>3. c \notin Roots(p) BY <1>1, <1>2, <2>1, <2>2 DEF IsTree
  <2>4. par(c) = n BY <1>3, <2>1, <2>2, <2>3
  <2> QED BY <1>15, <2>1, <2>3, <2>4 DEF c
<1> QED BY <1>1, <1>14, <1>15, <1>16

\* A root is no child.
LEMMA RootIsNoChild ==
  ASSUME NEW p \in Sources, NEW n \in Nodes(p), NEW j \in 1..Len(ChildrenOf(p, n))
  PROVE  ChildrenOf(p, n)[j] \notin Roots(p)
PROOF
<1> DEFINE c == ChildrenOf(p, n)[j]
<1>1. c \in Nodes(p) /\ c \in Range(p.nodes[n].children) BY TreeIs, SourceIs DEF Range, ChildrenOf
<1> HIDE DEF c
<1>2. n \in Parents(p, c) BY <1>1 DEF Parents
<1>3. IsTree(p) BY CompilerAssumption
<1>4. c \notin Roots(p) BY <1>1, <1>2, <1>3 DEF IsTree
<1> QED BY <1>4 DEF c

\* A node is a root, or the child of a node before it.
LEMMA RootOrChild ==
  ASSUME NEW p \in Sources, NEW n \in Nodes(p), n \notin Roots(p)
  PROVE  \E m \in Nodes(p) : \E j \in 1..Len(ChildrenOf(p, m)) : m < n /\ n = ChildrenOf(p, m)[j]
PROOF
<1>1. IsTree(p) BY CompilerAssumption
<1>2. PICK m \in Nodes(p) : Parents(p, n) = {m} BY <1>1 DEF IsTree
<1>3. n \in Range(p.nodes[m].children) /\ m < n BY <1>1, <1>2 DEF Parents, IsTree
<1>4. DOMAIN ChildrenOf(p, m) = 1..Len(ChildrenOf(p, m)) BY SourceIs
<1> QED BY <1>3, <1>4 DEF Range, ChildrenOf

\* Every node of a tree whose root has its instruction has one.
Shut(p, e) ==
  \A n \in Nodes(p) : e[n] # 0 => \A j \in 1..Len(ChildrenOf(p, n)) : e[ChildrenOf(p, n)[j]] # 0

\* Once the root has its instruction, so has its whole tree.
LEMMA ShutTree ==
  ASSUME NEW p \in Sources, NEW e, Shut(p, e)
  PROVE  \A n \in Nodes(p) : e[RootOf(p)[n]] # 0 => e[n] # 0
PROOF
<1> DEFINE m == Len(p.nodes)
           T == {k \in 0..m : \A n \in 1..k : e[RootOf(p)[n]] # 0 => e[n] # 0}
<1>1. m \in Nat /\ Nodes(p) = 1..m BY SourceIs
<1>2. 0 \in T BY <1>1
<1>3. ASSUME NEW k \in 1..m, k - 1 \in T PROVE k \in T
  <2>1. \A n \in 1..(k - 1) : e[RootOf(p)[n]] # 0 => e[n] # 0 BY <1>3
  <2>2. k \in 0..m /\ \A n \in 1..k : n # k => n \in 1..(k - 1) BY <1>1
  <2>3. ASSUME e[RootOf(p)[k]] # 0 PROVE e[k] # 0
    <3>1. CASE k \in Roots(p) BY <1>1, <2>3, <3>1, RootOfIs
    <3>2. CASE k \notin Roots(p)
      <4>1. PICK n \in Nodes(p) : \E j \in 1..Len(ChildrenOf(p, n)) : n < k /\ k = ChildrenOf(p, n)[j]
        BY <1>1, <3>2, RootOrChild
      <4>2. PICK j \in 1..Len(ChildrenOf(p, n)) : n < k /\ k = ChildrenOf(p, n)[j] BY <4>1
      <4>3. RootOf(p)[k] = RootOf(p)[n] BY <4>2, RootOfIs
      <4>4. n \in 1..(k - 1) BY <1>1, <4>2
      <4>5. e[n] # 0 BY <2>1, <2>3, <4>3, <4>4
      <4> QED BY <4>2, <4>5 DEF Shut
    <3> QED BY <3>1, <3>2
  <2> QED BY <2>1, <2>2, <2>3
<1> HIDE DEF T
<1>4. \A k \in 0..m : k \in T BY <1>1, <1>2, <1>3, Upward
<1>5. m \in T BY <1>1, <1>4
<1> QED BY <1>1, <1>5 DEF T

\* The clauses of a policy, by requirement, and how many come before each.
Pieces(p) == [r \in DOMAIN p.requirements |-> p.requirements[r].clauses]
Base(p)   == CHOOSE b : Offsets(Pieces(p), b)

\* The clauses of the document are its requirements' clauses, end to end.
LEMMA PiecesAre ==
  ASSUME NEW p \in Sources
  PROVE  /\ Pieces(p) \in Seq(Seq(ClauseSource)) /\ Len(Pieces(p)) = Len(p.requirements)
         /\ SourceClauses(p) \in Seq(ClauseSource) /\ Len(SourceClauses(p)) \in Nat
         /\ Base(p) \in [0..Len(p.requirements) -> Nat] /\ Base(p)[0] = 0
         /\ \A r \in 1..Len(p.requirements) :
              Base(p)[r] = Base(p)[r - 1] + Len(p.requirements[r].clauses)
         /\ Len(SourceClauses(p)) = Base(p)[Len(p.requirements)]
         /\ \A r \in 1..Len(p.requirements) : \A j \in 1..Len(p.requirements[r].clauses) :
              /\ Base(p)[r - 1] + j \in 1..Len(SourceClauses(p))
              /\ SourceClauses(p)[Base(p)[r - 1] + j] = p.requirements[r].clauses[j]
         /\ \A k \in 1..Len(SourceClauses(p)) : \E r \in 1..Len(p.requirements) :
              \E j \in 1..Len(p.requirements[r].clauses) : k = Base(p)[r - 1] + j
PROOF
<1> DEFINE s == Pieces(p)
           b == Base(p)
           m == Len(p.requirements)
           f == FlattenSeq(s)
<1>1. m \in Nat /\ DOMAIN p.requirements = 1..m
        /\ \A r \in 1..m : p.requirements[r].clauses \in Seq(ClauseSource)
  BY SourceIs
<1>2. s \in [1..m -> Seq(ClauseSource)] /\ \A r \in 1..m : s[r] = p.requirements[r].clauses
  BY <1>1 DEF Pieces
<1>3. s \in Seq(Seq(ClauseSource)) /\ Len(s) = m BY <1>1, <1>2, FunctionIsSeq
<1>4. \E x : Offsets(s, x) BY <1>3, OffsetsExist
<1>5. Offsets(s, b) BY <1>4 DEF Base
<1> HIDE DEF s, b, m
<1>6. f \in Seq(ClauseSource) /\ Laid(f, s, b, Len(s)) BY <1>3, <1>5, FlattenIs
<1>7. f \in Seq(ClauseSource) /\ Laid(f, s, b, m) BY <1>3, <1>6
<1>8. Len(f) \in Nat BY <1>7, LenProperties
<1>9. SourceClauses(p) = f BY DEF SourceClauses, s, Pieces
<1> HIDE DEF f
<1>10. /\ b \in [0..m -> Nat] /\ b[0] = 0
       /\ \A r \in 1..m : b[r] = b[r - 1] + Len(p.requirements[r].clauses)
  BY <1>2, <1>3, <1>5 DEF Offsets
<1>11. /\ Len(f) = b[m]
       /\ \A r \in 1..m : \A j \in 1..Len(p.requirements[r].clauses) :
            b[r - 1] + j \in 1..Len(f) /\ f[b[r - 1] + j] = p.requirements[r].clauses[j]
       /\ \A k \in 1..Len(f) : \E r \in 1..m :
            \E j \in 1..Len(p.requirements[r].clauses) : k = b[r - 1] + j
  <2> USE DEF Laid
  <2>1. Len(f) = b[m] BY <1>7
  <2>2. ASSUME NEW r \in 1..m, NEW j \in 1..Len(p.requirements[r].clauses)
        PROVE  b[r - 1] + j \in 1..Len(f) /\ f[b[r - 1] + j] = p.requirements[r].clauses[j]
    BY <1>2, <1>7
  <2>3. ASSUME NEW k \in 1..Len(f)
        PROVE  \E r \in 1..m : \E j \in 1..Len(p.requirements[r].clauses) : k = b[r - 1] + j
    <3>1. PICK r \in 1..m : \E j \in 1..Len(s[r]) : k = b[r - 1] + j BY <1>7
    <3> QED BY <1>2, <3>1
  <2> QED BY <2>1, <2>2, <2>3
<1> QED BY <1>3, <1>7, <1>8, <1>9, <1>10, <1>11 DEF s, b, m

\* There are no more clauses, and no more children of a node, than nodes.
LEMMA NodesBound ==
  ASSUME NEW p \in Sources
  PROVE  /\ Len(SourceClauses(p)) <= Len(p.nodes)
         /\ \A n \in Nodes(p) : Len(ChildrenOf(p, n)) <= Len(p.nodes)
PROOF
<1> DEFINE m == Len(p.nodes)
           l == Len(SourceClauses(p))
           f == [k \in 1..l |-> SourceClauses(p)[k].assertion]
<1>1. m \in Nat /\ Nodes(p) = 1..m /\ l \in Nat BY SourceIs, PiecesAre
<1>2. ASSUME NEW k \in 1..l, NEW i \in 1..l
      PROVE  f[k] \in 1..m /\ (f[k] = f[i] => k = i)
  <2>1. PICK r \in 1..Len(p.requirements) :
          \E j \in 1..Len(p.requirements[r].clauses) : k = Base(p)[r - 1] + j
    BY PiecesAre
  <2>2. PICK j \in 1..Len(p.requirements[r].clauses) : k = Base(p)[r - 1] + j BY <2>1
  <2>3. PICK s \in 1..Len(p.requirements) :
          \E u \in 1..Len(p.requirements[s].clauses) : i = Base(p)[s - 1] + u
    BY PiecesAre
  <2>4. PICK u \in 1..Len(p.requirements[s].clauses) : i = Base(p)[s - 1] + u BY <2>3
  <2>5. j \in 0..Len(p.requirements[r].clauses) /\ u \in 0..Len(p.requirements[s].clauses)
        /\ j # 0 /\ u # 0
    BY SourceIs
  <2>6. f[k] = RootAt(p, r, j) /\ f[i] = RootAt(p, s, u) BY <2>2, <2>4, <2>5, PiecesAre DEF RootAt
  <2>7. RootAt(p, r, j) \in Nodes(p) BY <2>5, TreeIs
  <2>8. RootAt(p, r, j) = RootAt(p, s, u) => r = s /\ j = u
    BY <2>5, RootsDiffer
  <2> HIDE DEF f
  <2> QED BY <1>1, <2>2, <2>4, <2>6, <2>7, <2>8
<1>3. f \in [1..l -> 1..m] /\ IsInjective(f) BY <1>2 DEF IsInjective
<1>4. l <= m
  <2> HIDE DEF f, l, m
  <2> QED BY <1>1, <1>3, Pigeonhole
<1>5. ASSUME NEW n \in Nodes(p) PROVE Len(ChildrenOf(p, n)) <= m
  <2> DEFINE c == ChildrenOf(p, n)
             d == Len(c)
  <2>1. c \in Seq(Nat) /\ d \in Nat /\ \A j \in 1..d : c[j] \in 1..m BY <1>1, SourceIs, TreeIs
  <2>2. IsInjective(c) BY CompilerAssumption DEF IsTree, ChildrenOf
  <2> HIDE DEF c
  <2>3. c \in [1..d -> Nat] BY <2>1, SeqShape
  <2> HIDE DEF d, m
  <2>4. c \in [1..d -> 1..m] BY <2>1, <2>3
  <2>5. d <= m BY <1>1, <2>1, <2>2, <2>4, Pigeonhole
  <2> QED BY <2>5 DEF c, d, m
<1> QED BY <1>4, <1>5

\* What the decoder and Policy.Validate leave.
LEMMA AdmittedIs ==
  ASSUME NEW p \in Sources, Admitted(p)
  PROVE  /\ Len(p.nodes) <= MaxNodes /\ Len(p.requirements) # 0
         /\ \A n \in Nodes(p) : \E allow \in BOOLEAN : ValidNode(p.nodes[n], allow)
         /\ \A r \in 1..Len(p.requirements) :
              LET q == p.requirements[r] IN
              /\ q.id # NoSymbol /\ Len(q.clauses) # 0
              /\ \A k \in 1..Len(q.clauses) :
                   q.clauses[k].id # NoSymbol /\ ValidResolution(q.clauses[k])
         /\ CostUpTo(SourceClauses(p))[Len(SourceClauses(p))] <= MaxPolicyBytes
PROOF
<1> DEFINE m == Len(p.requirements)
           ids == [r \in DOMAIN p.requirements |-> p.requirements[r].id]
           rows == [r \in DOMAIN p.requirements |->
                      [k \in DOMAIN p.requirements[r].clauses |-> p.requirements[r].clauses[k].id]]
<1>1. /\ ValidPolicy(p) /\ ValidExpressions(p)
      /\ CostUpTo(SourceClauses(p))[Len(SourceClauses(p))] <= MaxPolicyBytes
  BY DEF Admitted, ValidPolicy, Size
<1>2. Len(p.nodes) <= MaxNodes BY <1>1 DEF ValidExpressions, CountLimited
<1>3. ASSUME NEW n \in Nodes(p) PROVE \E allow \in BOOLEAN : ValidNode(p.nodes[n], allow)
  <2> DEFINE allow == RootOf(p)[n] \in {c.assertion : c \in AllClauses(p)}
  <2>1. ValidNode(p.nodes[n], allow) BY <1>1 DEF ValidExpressions
  <2>2. allow \in BOOLEAN OBVIOUS
  <2> HIDE DEF allow
  <2> QED BY <2>1, <2>2
<1>4. /\ m \in Nat /\ DOMAIN p.requirements = 1..m /\ p.requirements \in Seq(AskSource)
      /\ \A r \in 1..m : /\ p.requirements[r].id \in Texts
                         /\ p.requirements[r].clauses \in Seq(ClauseSource)
                         /\ Len(p.requirements[r].clauses) \in Nat
                         /\ DOMAIN p.requirements[r].clauses = 1..Len(p.requirements[r].clauses)
                         /\ \A k \in 1..Len(p.requirements[r].clauses) :
                              p.requirements[r].clauses[k] \in ClauseSource
  BY SourceIs
<1>5. m # 0 BY <1>1, <1>4, EmptySeq DEF ValidPolicy
<1>6. ASSUME NEW r \in 1..m
      PROVE  /\ p.requirements[r].id # NoSymbol /\ p.requirements[r].clauses # <<>>
             /\ \A k \in 1..Len(p.requirements[r].clauses) : ValidResolution(p.requirements[r].clauses[k])
  <2>1. p.requirements[r] \in Range(p.requirements) BY <1>4 DEF Range
  <2>2. p.requirements[r].clauses # <<>> BY <1>1, <2>1 DEF ValidPolicy
  <2>3. ids[r] \in Range(ids) /\ ids[r] = p.requirements[r].id BY <1>4 DEF Range
  <2>4. ~Blank(p.requirements[r].id) BY <1>1, <2>3 DEF ValidPolicy, ValidIds
  <2>5. ASSUME NEW k \in 1..Len(p.requirements[r].clauses)
        PROVE  ValidResolution(p.requirements[r].clauses[k])
    <3> DEFINE q == p.requirements[r]
    <3>1. q.clauses[k] \in Range(q.clauses) BY <1>4 DEF Range
    <3> HIDE DEF q
    <3>2. q \in Range(p.requirements) BY <2>1 DEF q
    <3>3. q.clauses[k] \in AllClauses(p) BY <3>1, <3>2 DEF AllClauses
    <3> QED BY <1>1, <3>3 DEF ValidPolicy, q
  <2> QED BY <2>2, <2>4, <2>5, NotBlank
<1>7. /\ rows \in [1..m -> Seq(Texts)]
      /\ \A r \in 1..m : /\ Len(rows[r]) = Len(p.requirements[r].clauses)
                         /\ \A k \in 1..Len(p.requirements[r].clauses) :
                              rows[r][k] = p.requirements[r].clauses[k].id
  <2>1. ASSUME NEW r \in 1..m
        PROVE  /\ rows[r] \in Seq(Texts) /\ Len(rows[r]) = Len(p.requirements[r].clauses)
               /\ \A k \in 1..Len(p.requirements[r].clauses) :
                    rows[r][k] = p.requirements[r].clauses[k].id
    <3> DEFINE c == p.requirements[r].clauses
               n == Len(c)
               s == rows[r]
    <3>1. n \in Nat /\ s = [k \in 1..n |-> c[k].id] BY <1>4
    <3>2. \A k \in 1..n : c[k].id \in Texts BY <1>4 DEF ClauseSource
    <3> HIDE DEF c, n, s
    <3>3. s \in [1..n -> Texts] BY <3>1, <3>2
    <3>4. s \in Seq(Texts) /\ Len(s) = n BY <3>1, <3>3, FunctionIsSeq
    <3>5. \A k \in 1..n : s[k] = c[k].id BY <3>1
    <3> QED BY <3>4, <3>5 DEF s, n, c
  <2> QED BY <1>4, <2>1
<1>8. ASSUME NEW r \in 1..m, NEW k \in 1..Len(p.requirements[r].clauses)
      PROVE  p.requirements[r].clauses[k].id # NoSymbol
  <2> DEFINE f == FlattenSeq(rows)
             id == p.requirements[r].clauses[k].id
  <2>1. ClauseIds(p) = f BY DEF ClauseIds
  <2> HIDE DEF rows
  <2>2. rows \in Seq(Seq(Texts)) /\ Len(rows) = m BY <1>4, <1>7, FunctionIsSeq
  <2>3. PICK b : Offsets(rows, b) BY <2>2, OffsetsExist
  <2>4. f \in Seq(Texts) /\ Laid(f, rows, b, Len(rows)) BY <2>2, <2>3, FlattenIs
  <2>5. DOMAIN f = 1..Len(f) BY <2>4, LenProperties
  <2>6. b[r - 1] + k \in 1..Len(f) /\ f[b[r - 1] + k] = rows[r][k] BY <1>7, <2>2, <2>4 DEF Laid
  <2>7. id \in Range(f)
    <3>1. f[b[r - 1] + k] = id BY <1>7, <2>6
    <3> HIDE DEF f, id
    <3> QED BY <2>5, <2>6, <3>1 DEF Range
  <2>8. ValidIds(f) BY <1>1, <2>1 DEF ValidPolicy
  <2> HIDE DEF f, id
  <2>9. ~Blank(id) BY <2>7, <2>8 DEF ValidIds
  <2> QED BY <2>9, NotBlank DEF id
<1>9. \A r \in 1..m : Len(p.requirements[r].clauses) # 0 BY <1>4, <1>6, EmptySeq
<1> QED BY <1>1, <1>2, <1>3, <1>5, <1>6, <1>8, <1>9

-----------------------------------------------------------------------------
(* Where the compiler is, and the frames of its recursion.                 *)

Stages == {"decode", "validate", "refused", "requirement", "applicability", "clause",
           "assertion", "compiled", "invalid program"}

\* The stage, the loops of Compile and what they have passed.
Placed ==
  /\ policy \in Sources /\ stage \in Stages
  /\ requirement \in 1..(Len(policy.requirements) + 1) /\ clause \in Nat \ {0}
  /\ stage \in {"applicability", "clause", "assertion"} => requirement <= Len(policy.requirements)
  /\ stage = "clause" => clause <= Len(Requirement.clauses) + 1
  /\ stage = "assertion" => clause <= Len(Requirement.clauses)
  /\ stage \in {"compiled", "invalid program"} => requirement = Len(policy.requirements) + 1
  /\ stage \in {"decode", "validate", "refused"} => requirement = 1
  /\ stage \notin {"decode", "refused"} => Admitted(policy)

Frames(p) == [node : Nodes(p), ids : Seq(Nat)]

\* The frames are a path down one tree; a node on it has the instructions of
\* its first children, and none yet itself.
InFrame(k) ==
  LET cs == ChildrenOf(policy, stack[k].node)
      done == Len(stack[k].ids)
  IN  /\ emitted[stack[k].node] = 0 /\ done <= Len(cs)
      /\ \A j \in 1..done : stack[k].ids[j] = emitted[cs[j]] /\ emitted[cs[j]] # 0
      /\ \A j \in (done + 1)..Len(cs) : emitted[cs[j]] = 0
      /\ k < Len(stack) => done < Len(cs) /\ stack[k + 1].node = cs[done + 1]

Path ==
  /\ emitted \in [Nodes(policy) -> 0..Len(prog.code)] /\ root \in 0..Len(prog.code)
  /\ stack \in Seq(Frames(policy)) /\ (stack # <<>> => stack[1].node \in Roots(policy))
  /\ stage \notin {"applicability", "assertion"} => stack = <<>>
  /\ \A k \in 1..Len(stack) : InFrame(k)
  /\ \A k \in 1..Len(stack) : \A i \in 1..(k - 1) : stack[i].node < stack[k].node
  /\ \A k \in 1..Len(stack) : RootOf(policy)[stack[k].node] = RootOf(policy)[stack[1].node]

\* A node neither compiled nor on the path has no compiled child.
Fresh ==
  \A n \in Nodes(policy) :
    emitted[n] = 0 /\ (\A k \in 1..Len(stack) : stack[k].node # n) =>
      \A j \in 1..Len(ChildrenOf(policy, n)) : emitted[ChildrenOf(policy, n)[j]] = 0

LEMMA PlacedInit ==
  ASSUME Init
  PROVE  Placed
PROOF
<1>1. Len(policy.requirements) \in Nat BY SourceIs DEF Init
<1> QED BY <1>1 DEF Init, Placed, Stages

\* Every step keeps Placed.
LEMMA PlacedKept ==
  ASSUME Placed, Compile
  PROVE  Placed'
PROOF
<1> DEFINE m == Len(policy.requirements)
           l == Len(Requirement.clauses)
<1>1. m \in Nat /\ (requirement <= m => l \in Nat)
  <2>1. policy \in Sources /\ requirement \in 1..(m + 1) BY DEF Placed
  <2>2. m \in Nat /\ \A r \in 1..m : Len(policy.requirements[r].clauses) \in Nat BY <2>1, SourceIs
  <2>3. requirement <= m => requirement \in 1..m BY <2>1, <2>2
  <2> QED BY <2>2, <2>3 DEF Requirement
<1> USE DEF Placed, Stages
<1>2. policy' = policy
  BY DEF Compile, Decode, Validate, BeginRequirement, EndApplicability, BeginClause, EndClause,
         EndRequirement, Descend, Emit, Finish
<1>3. CASE Decode BY <1>2, <1>3 DEF Decode, control
<1>4. CASE Validate BY <1>2, <1>4 DEF Validate, control
<1>5. CASE BeginRequirement BY <1>2, <1>5 DEF BeginRequirement, Requirement
<1>6. CASE EndApplicability
  <2>1. Requirement' = Requirement BY <1>2, <1>6 DEF EndApplicability, Requirement
  <2> QED BY <1>1, <1>2, <1>6, <2>1 DEF EndApplicability
<1>7. CASE BeginClause
  <2>1. Requirement' = Requirement BY <1>2, <1>7 DEF BeginClause, Requirement
  <2> QED BY <1>1, <1>2, <1>7, <2>1 DEF BeginClause
<1>8. CASE EndClause
  <2>1. Requirement' = Requirement BY <1>2, <1>8 DEF EndClause, Requirement
  <2> QED BY <1>1, <1>2, <1>8, <2>1 DEF EndClause
<1>9. CASE EndRequirement BY <1>1, <1>2, <1>9 DEF EndRequirement
<1>10. CASE Descend \/ Emit
  <2>1. UNCHANGED <<stage, requirement, clause>> BY <1>10 DEF Descend, Emit
  <2>2. Requirement' = Requirement BY <1>2, <2>1 DEF Requirement
  <2> QED BY <1>2, <2>1, <2>2
<1>11. CASE Finish
  <2>1. requirement \in 1..(m + 1) /\ requirement > m /\ m \in Nat BY <1>1, <1>11 DEF Finish
  <2> HIDE DEF m
  <2>2. requirement = m + 1 BY ONLY <2>1
  <2> QED BY <1>2, <1>11, <2>2 DEF Finish, control, m
<1> QED BY <1>3, <1>4, <1>5, <1>6, <1>7, <1>8, <1>9, <1>10, <1>11 DEF Compile

\* What a frame holds.
LEMMA FramesAre ==
  ASSUME Placed, Path
  PROVE  /\ Len(stack) \in Nat
         /\ \A k \in 1..Len(stack) : /\ stack[k] \in Frames(policy) /\ stack[k].node \in Nodes(policy)
                                     /\ stack[k].node \in Nat
                                     /\ stack[k].ids \in Seq(Nat) /\ Len(stack[k].ids) \in Nat
         /\ stack # <<>> => Len(stack) \in 1..Len(stack) /\ 1 \in 1..Len(stack)
PROOF
<1>1. stack \in Seq(Frames(policy)) BY DEF Path
<1>2. Len(stack) \in Nat /\ \A k \in 1..Len(stack) : stack[k] \in Frames(policy) BY <1>1, SeqShape
<1>3. Nodes(policy) = 1..Len(policy.nodes) /\ Len(policy.nodes) \in Nat BY SourceIs DEF Placed
<1>4. ASSUME NEW k \in 1..Len(stack)
      PROVE  /\ stack[k].node \in Nodes(policy) /\ stack[k].ids \in Seq(Nat)
             /\ Len(stack[k].ids) \in Nat /\ stack[k].node \in Nat
  <2>1. stack[k].node \in Nodes(policy) /\ stack[k].ids \in Seq(Nat) BY <1>2 DEF Frames
  <2> QED BY <1>3, <2>1, LenProperties
<1>5. stack # <<>> => Len(stack) # 0 BY <1>1, EmptySeq
<1> QED BY <1>2, <1>4, <1>5

\* A step between expressions.
LEMMA PathIdle ==
  ASSUME Placed, Path, Fresh, Shut(policy, emitted), policy' = policy, emitted' = emitted,
         Len(prog'.code) = Len(prog.code), stack = <<>>, stack' = <<>>, root' = root
  PROVE  Path' /\ Fresh' /\ Shut(policy', emitted')
PROOF
<1>1. Len(stack') = 0 /\ stack' \in Seq(Frames(policy')) BY EmptySeq
<1>2. Path'
  <2>1. emitted' \in [Nodes(policy') -> 0..Len(prog'.code)] /\ root' \in 0..Len(prog'.code) BY DEF Path
  <2>2. \A k \in 1..Len(stack') : FALSE BY <1>1
  <2> QED BY <1>1, <2>1, <2>2 DEF Path
<1>3. Fresh'
  <2>1. Len(stack) = 0 BY EmptySeq
  <2> QED BY <1>1, <2>1 DEF Fresh
<1> QED BY <1>2, <1>3

\* The outermost call of an expression.
LEMMA PathOpened ==
  ASSUME Placed, Path, Fresh, Shut(policy, emitted), policy' = policy, emitted' = emitted,
         Len(prog'.code) = Len(prog.code), stack = <<>>, NEW n \in Nodes(policy), emitted[n] = 0,
         n \in Roots(policy), stack' = <<Frame(n)>>, root' = 0, stage' \in {"applicability", "assertion"}
  PROVE  Path' /\ Fresh' /\ Shut(policy', emitted')
PROOF
<1> DEFINE cs == ChildrenOf(policy, n)
<1>1. Len(stack) = 0 BY EmptySeq
<1>2. Len(stack') = 1 /\ stack'[1].node = n /\ stack'[1].ids = <<>> BY DEF Frame
<1>3. <<>> \in Seq(Nat) /\ Len(<<>>) = 0 BY EmptySeq
<1>4. Frame(n) \in Frames(policy') BY <1>3 DEF Frame, Frames
<1>5. stack' \in Seq(Frames(policy'))
  <2> HIDE DEF cs
  <2> QED BY <1>4
<1>6. Len(cs) \in Nat /\ \A j \in 1..Len(cs) : emitted[cs[j]] = 0
  <2>1. Len(cs) \in Nat BY SourceIs DEF Placed
  <2>2. \A k \in 1..Len(stack) : stack[k].node # n BY <1>1
  <2> QED BY <2>1, <2>2 DEF Fresh
<1>7. ASSUME NEW k \in 1..Len(stack') PROVE k = 1 BY <1>2
<1>8. InFrame(1)'
  <2>1. ChildrenOf(policy', stack'[1].node) = cs BY <1>2
  <2>2. Len(stack'[1].ids) = 0 BY <1>2, <1>3
  <2> HIDE DEF cs
  <2> QED BY <1>2, <1>6, <2>1, <2>2 DEF InFrame
<1>9. Path'
  <2>1. emitted' \in [Nodes(policy') -> 0..Len(prog'.code)] /\ root' \in 0..Len(prog'.code)
    <3>1. Len(prog.code) \in Nat \/ Len(prog.code) \notin Nat OBVIOUS
    <3>2. root \in 0..Len(prog.code) BY DEF Path
    <3> QED BY <3>2 DEF Path
  <2>2. \A k \in 1..Len(stack') : InFrame(k)' BY <1>7, <1>8
  <2>3. \A k \in 1..Len(stack') : \A i \in 1..(k - 1) : FALSE BY <1>7
  <2>4. stack'[1].node \in Roots(policy') BY <1>2
  <2>5. \A k \in 1..Len(stack') : RootOf(policy')[stack'[k].node] = RootOf(policy')[stack'[1].node]
    BY <1>7
  <2> QED BY <1>5, <2>1, <2>2, <2>3, <2>4, <2>5 DEF Path
<1>10. Fresh' BY <1>1 DEF Fresh
<1> QED BY <1>9, <1>10

\* The call for the next child.
LEMMA PathDeeper ==
  ASSUME Placed, Path, Fresh, Shut(policy, emitted), Descend
  PROVE  Path' /\ Fresh' /\ Shut(policy', emitted')
PROOF
<1> DEFINE l == Len(stack)
           n == stack[l].node
           cs == ChildrenOf(policy, n)
           d == Len(stack[l].ids)
           c == cs[d + 1]
<1>1. /\ policy' = policy /\ prog' = prog /\ root' = root /\ emitted' = emitted /\ stage' = stage
      /\ stack # <<>> /\ d < Len(cs) /\ stack' = Append(stack, Frame(c))
      /\ stage \in {"applicability", "assertion"}
  BY DEF Descend, Expressing, Children, Top, ChildrenOf
<1>2. /\ l \in Nat /\ l \in 1..l /\ 1 \in 1..l /\ n \in Nodes(policy) /\ n \in Nat /\ d \in Nat
      /\ \A k \in 1..l : stack[k].node \in Nat
  BY <1>1, FramesAre
<1>3. /\ Len(cs) \in Nat /\ d + 1 \in 1..Len(cs) /\ c \in Nodes(policy) /\ n < c
      /\ RootOf(policy)[c] = RootOf(policy)[n] /\ c \in Nat
  <2>1. Len(cs) \in Nat /\ Nodes(policy) = 1..Len(policy.nodes) /\ Len(policy.nodes) \in Nat
    BY <1>2, SourceIs DEF Placed
  <2>2. d + 1 \in 1..Len(cs) BY <1>1, <1>2, <2>1
  <2>3. c \in Nodes(policy) /\ n < c /\ RootOf(policy)[c] = RootOf(policy)[n]
    <3>1. policy \in Sources BY DEF Placed
    <3>2. \A j \in 1..Len(cs) : cs[j] \in Nodes(policy) /\ n < cs[j] BY <1>2, <3>1, TreeIs
    <3>3. \A j \in 1..Len(cs) : RootOf(policy)[cs[j]] = RootOf(policy)[n] BY <1>2, <3>1, RootOfIs
    <3> HIDE DEF cs
    <3> QED BY <2>2, <3>2, <3>3
  <2> QED BY <2>1, <2>2, <2>3
<1>4. \A k \in 1..l : stack[k].node < c
  <2>1. ASSUME NEW k \in 1..l PROVE stack[k].node <= n
    <3>1. CASE k = l BY <1>2, <3>1
    <3>2. CASE k # l
      <4>1. k \in 1..(l - 1) BY <1>2, <3>2
      <4>2. stack[k].node < n BY <1>2, <4>1 DEF Path
      <4> QED BY <1>2, <4>2
    <3> QED BY <3>1, <3>2
  <2> HIDE DEF c, n
  <2> QED BY <1>2, <1>3, <2>1
<1>5. InFrame(l) BY <1>2 DEF Path
<1>6. emitted[c] = 0
  <2>1. d + 1 \in (d + 1)..Len(cs) BY <1>2, <1>3
  <2> QED BY <1>5, <2>1 DEF InFrame
<1>7. Len(ChildrenOf(policy, c)) \in Nat
        /\ \A j \in 1..Len(ChildrenOf(policy, c)) : emitted[ChildrenOf(policy, c)[j]] = 0
  <2>1. Len(ChildrenOf(policy, c)) \in Nat BY <1>3, SourceIs DEF Placed
  <2>2. \A k \in 1..Len(stack) : stack[k].node # c BY <1>2, <1>3, <1>4
  <2> HIDE DEF c
  <2> QED BY <1>3, <1>6, <2>1, <2>2 DEF Fresh
<1>8. /\ stack' \in Seq(Frames(policy)) /\ Len(stack') = l + 1
      /\ \A k \in 1..l : stack'[k] = stack[k]
      /\ stack'[1].node \in Roots(policy) /\ stack'[l + 1].node = c /\ stack'[l + 1].ids = <<>>
  <2> HIDE DEF c
  <2>1. <<>> \in Seq(Nat) BY EmptySeq
  <2>2. Frame(c) \in Frames(policy) /\ Frame(c).node = c /\ Frame(c).ids = <<>>
    BY <1>3, <2>1 DEF Frame, Frames
  <2>3. stack \in Seq(Frames(policy)) BY DEF Path
  <2> DEFINE t == Append(stack, Frame(c))
  <2>4. /\ t \in Seq(Frames(policy)) /\ Len(t) = l + 1 /\ \A k \in 1..l : t[k] = stack[k]
        /\ t[l + 1] = Frame(c)
    BY <2>2, <2>3, AppendIs
  <2>5. stack' = t BY <1>1
  <2>6. stack[1].node \in Roots(policy) BY <1>1 DEF Path
  <2> HIDE DEF t
  <2> QED BY <1>2, <2>2, <2>4, <2>5, <2>6
<1> HIDE DEF c
<1>9. ASSUME NEW k \in 1..Len(stack') PROVE InFrame(k)'
  <2>1. CASE k = l + 1
    <3>1. Len(stack'[k].ids) = 0 BY <1>8, <2>1, EmptySeq
    <3>2. stack'[k].node = c BY <1>8, <2>1
    <3> DEFINE f == ChildrenOf(policy, c)
    <3>3. ~(k < Len(stack')) BY <1>2, <1>8, <2>1
    <3>4. Len(f) \in Nat /\ \A j \in 1..Len(f) : emitted[f[j]] = 0 BY <1>7
    <3>5. ChildrenOf(policy', stack'[k].node) = f BY <1>1, <3>2
    <3> HIDE DEF f
    <3> QED BY <1>1, <1>6, <3>1, <3>2, <3>3, <3>4, <3>5 DEF InFrame
  <2>2. CASE k # l + 1
    <3>1. k \in 1..l /\ stack'[k] = stack[k] BY <1>2, <1>8, <2>2
    <3>2. InFrame(k) BY <3>1 DEF Path
    <3>3. k < Len(stack') => /\ Len(stack[k].ids) < Len(ChildrenOf(policy, stack[k].node))
                             /\ stack'[k + 1].node
                                  = ChildrenOf(policy, stack[k].node)[Len(stack[k].ids) + 1]
      <4>1. CASE k = l BY <1>1, <1>8, <4>1 DEF c
      <4>2. CASE k # l
        <5>1. k + 1 \in 1..l /\ k < Len(stack) BY <1>2, <3>1, <4>2
        <5> QED BY <1>8, <3>2, <5>1 DEF InFrame
      <4> QED BY <4>1, <4>2
    <3> QED BY <1>1, <3>1, <3>2, <3>3 DEF InFrame
  <2> QED BY <2>1, <2>2
<1>10. ASSUME NEW k \in 1..Len(stack'), NEW i \in 1..(k - 1) PROVE stack'[i].node < stack'[k].node
  <2>1. i \in 1..l /\ stack'[i] = stack[i] BY <1>2, <1>8
  <2>2. CASE k = l + 1 BY <1>4, <1>8, <2>1, <2>2
  <2>3. CASE k # l + 1
    <3>1. k \in 1..l /\ stack'[k] = stack[k] BY <1>2, <1>8, <2>3
    <3> QED BY <2>1, <3>1 DEF Path
  <2> QED BY <2>2, <2>3
<1>11. ASSUME NEW k \in 1..Len(stack')
       PROVE  RootOf(policy)[stack'[k].node] = RootOf(policy)[stack'[1].node]
  <2>1. stack'[1] = stack[1] /\ RootOf(policy)[n] = RootOf(policy)[stack[1].node]
    BY <1>2, <1>8 DEF Path
  <2>2. CASE k = l + 1 BY <1>3, <1>8, <2>1, <2>2
  <2>3. CASE k # l + 1
    <3>1. k \in 1..l /\ stack'[k] = stack[k] BY <1>2, <1>8, <2>3
    <3> QED BY <2>1, <3>1 DEF Path
  <2> QED BY <2>2, <2>3
<1>12. Path'
  <2>1. /\ emitted' \in [Nodes(policy') -> 0..Len(prog'.code)] /\ root' \in 0..Len(prog'.code)
        /\ stage' \in {"applicability", "assertion"} /\ stack' \in Seq(Frames(policy'))
    BY <1>1, <1>8 DEF Path
  <2>2. \A k \in 1..Len(stack') : RootOf(policy')[stack'[k].node] = RootOf(policy')[stack'[1].node]
    BY <1>1, <1>11
  <2>3. stack'[1].node \in Roots(policy') BY <1>1, <1>8
  <2> QED BY <1>9, <1>10, <2>1, <2>2, <2>3 DEF Path
<1>13. Fresh'
  <2>1. ASSUME NEW m \in Nodes(policy), \A k \in 1..Len(stack') : stack'[k].node # m
        PROVE  \A k \in 1..Len(stack) : stack[k].node # m
    <3>1. \A k \in 1..l : k \in 1..(l + 1) BY <1>2
    <3> QED BY <1>8, <2>1, <3>1
  <2> QED BY <1>1, <2>1 DEF Fresh
<1> QED BY <1>1, <1>12, <1>13 DEF Shut

\* A node gets its instruction and returns it to its parent.
LEMMA PathReturned ==
  ASSUME Placed, Path, Fresh, Shut(policy, emitted), Emit, Len(prog'.code) = Len(prog.code) + 1,
         Len(prog.code) \in Nat
  PROVE  Path' /\ Fresh' /\ Shut(policy', emitted')
PROOF
<1> DEFINE l == Len(stack)
           n == stack[l].node
           id == Len(prog'.code)
<1>1. /\ policy' = policy /\ stage' = stage /\ stack # <<>> /\ stage \in {"applicability", "assertion"}
      /\ Len(stack[l].ids) = Len(ChildrenOf(policy, n)) /\ emitted' = [emitted EXCEPT ![n] = id]
      /\ IF Below = <<>> THEN root' = id /\ stack' = <<>>
         ELSE /\ stack' = [Below EXCEPT ![Len(Below)].ids = Append(@, id)]
              /\ root' = root
  BY DEF Emit, Expressing, Children, Top, ChildrenOf, Returned
<1>2. /\ l \in Nat /\ l \in 1..l /\ 1 \in 1..l /\ n \in Nodes(policy) /\ n \in Nat
      /\ \A k \in 1..l : /\ stack[k].node \in Nat /\ stack[k].node \in Nodes(policy)
                         /\ stack[k].ids \in Seq(Nat) /\ Len(stack[k].ids) \in Nat
                         /\ stack[k] \in Frames(policy)
                         /\ Len(ChildrenOf(policy, stack[k].node)) \in Nat
  BY <1>1, FramesAre, SourceIs DEF Placed
<1>3. id \in Nat /\ id # 0 /\ id \in 0..id BY DEF Path
<1>4. /\ emitted' \in [Nodes(policy) -> 0..id] /\ emitted'[n] = id
      /\ \A m \in Nodes(policy) : m # n => emitted'[m] = emitted[m]
      /\ root' \in 0..id
  <2>1. emitted \in [Nodes(policy) -> 0..Len(prog.code)] /\ root \in 0..Len(prog.code) BY DEF Path
  <2>2. \A x \in 0..Len(prog.code) : x \in 0..id OBVIOUS
  <2> HIDE DEF id, n
  <2> QED BY <1>1, <1>2, <1>3, <2>1, <2>2
<1>5. Below \in Seq(Frames(policy)) /\ Len(Below) = l - 1 /\ \A k \in 1..(l - 1) : Below[k] = stack[k]
  <2>1. stack \in Seq(Frames(policy)) BY DEF Path
  <2>2. 1 <= 1 /\ l - 1 <= l /\ l - 1 \in Nat BY <1>2
  <2>3. Below = [k \in 1..(l - 1) |-> stack[k]] BY <1>2, <2>1 DEF Below
  <2>4. Below \in [1..(l - 1) -> Frames(policy)] BY <1>2, <2>3
  <2> QED BY <2>2, <2>3, <2>4, FunctionIsSeq
<1>6. emitted[n] = 0 /\ InFrame(l) BY <1>2 DEF Path, InFrame
<1>7. \A k \in 1..(l - 1) : stack[k].node # n /\ stack[k].node < n
  <2>1. \A k \in 1..(l - 1) : stack[k].node < n BY <1>2 DEF Path
  <2> HIDE DEF n
  <2> QED BY <1>2, <2>1
<1>8. Shut(policy', emitted')
  <2>1. ASSUME NEW m \in Nodes(policy), emitted'[m] # 0, NEW j \in 1..Len(ChildrenOf(policy, m))
        PROVE  emitted'[ChildrenOf(policy, m)[j]] # 0
    <3> DEFINE c == ChildrenOf(policy, m)[j]
    <3>1. c \in Nodes(policy) BY TreeIs DEF Placed
    <3>2. CASE c = n BY <1>3, <1>4, <3>2
    <3>3. CASE c # n /\ m = n
      <4>1. j \in 1..Len(stack[l].ids) BY <1>1, <3>3
      <4>2. emitted[c] # 0 BY <1>6, <3>3, <4>1 DEF InFrame
      <4> QED BY <1>4, <3>1, <3>3, <4>2
    <3>4. CASE c # n /\ m # n
      <4>1. emitted[m] # 0 BY <1>4, <2>1, <3>4
      <4>2. emitted[c] # 0 BY <4>1 DEF Shut
      <4> QED BY <1>4, <3>1, <3>4, <4>2
    <3> QED BY <3>2, <3>3, <3>4
  <2> QED BY <1>1, <2>1 DEF Shut
<1>9. CASE l = 1
  <2>1. Below = <<>> BY <1>5, <1>9, EmptySeq
  <2>2. stack' = <<>> /\ Len(stack') = 0 BY <1>1, <2>1, EmptySeq
  <2>3. Path'
    <3>1. stack' \in Seq(Frames(policy')) BY <2>2, EmptySeq
    <3>2. \A k \in 1..Len(stack') : FALSE BY <2>2
    <3> QED BY <1>1, <1>4, <2>2, <3>1, <3>2 DEF Path
  <2>4. Fresh'
    <3>1. ASSUME NEW m \in Nodes(policy), emitted'[m] = 0, NEW j \in 1..Len(ChildrenOf(policy, m))
          PROVE  emitted'[ChildrenOf(policy, m)[j]] = 0
      <4> DEFINE c == ChildrenOf(policy, m)[j]
      <4>1. m # n /\ emitted[m] = 0 BY <1>3, <1>4, <3>1
      <4>2. \A k \in 1..Len(stack) : stack[k].node # m
        <5>1. \A k \in 1..l : k = l BY <1>9
        <5> QED BY <4>1, <5>1
      <4>3. c \in Nodes(policy) /\ emitted[c] = 0 BY <4>1, <4>2, TreeIs DEF Fresh, Placed
      <4>4. c # n
        <5>1. n \in Roots(policy) BY <1>1, <1>9 DEF Path
        <5> HIDE DEF n
        <5> QED BY <5>1, RootIsNoChild DEF Placed
      <4> QED BY <1>4, <4>3, <4>4
    <3> QED BY <1>1, <3>1 DEF Fresh
  <2> QED BY <1>8, <2>3, <2>4
<1>10. CASE l # 1
  <2> DEFINE e == l - 1
             m == stack[e].node
             cs == ChildrenOf(policy, m)
             d == Len(stack[e].ids)
  <2>1. /\ e \in Nat /\ e \in 1..e /\ e \in 1..l /\ 1 \in 1..e /\ e + 1 = l /\ e < l /\ e \in 1..(l - 1)
        /\ \A k \in 1..e : k \in 1..l
    <3> HIDE DEF l, n
    <3> QED BY <1>2, <1>10
  <2>2. Len(Below) = e /\ \A k \in 1..e : Below[k] = stack[k] BY <1>5
  <2>3. Below # <<>> BY <2>1, <2>2, EmptySeq
  <2>4. /\ stack' = [Below EXCEPT ![e].ids = Append(@, id)] /\ root' = root
    BY <1>1, <2>2, <2>3
  <2>5. /\ m \in Nodes(policy) /\ d \in Nat /\ Len(cs) \in Nat /\ stack[e].ids \in Seq(Nat)
        /\ stack[e] \in Frames(policy) /\ m # n
    BY <1>2, <1>7, <2>1
  <2>6. InFrame(e) /\ d < Len(cs) /\ n = cs[d + 1] /\ d + 1 \in 1..Len(cs)
    <3>1. InFrame(e) BY <2>1 DEF Path
    <3>2. d < Len(cs) /\ stack[e + 1].node = cs[d + 1] BY <2>1, <3>1 DEF InFrame
    <3> QED BY <2>1, <2>5, <3>1, <3>2
  <2> HIDE DEF e, id
  <2>7. LET ids == Append(stack[e].ids, id) IN
        /\ ids \in Seq(Nat) /\ Len(ids) = d + 1 /\ ids[d + 1] = id
        /\ \A j \in 1..d : ids[j] = stack[e].ids[j]
    BY <1>3, <2>5, AppendIs
  <2>8. /\ stack' \in Seq(Frames(policy)) /\ Len(stack') = e
        /\ \A k \in 1..e : /\ stack'[k].node = stack[k].node
                           /\ k # e => stack'[k] = stack[k]
        /\ stack'[e].ids = Append(stack[e].ids, id)
    <3> DEFINE ids == Append(stack[e].ids, id)
               f == [stack[e] EXCEPT !.ids = ids]
    <3>1. ids \in Seq(Nat) BY <2>7
    <3> HIDE DEF ids
    <3>2. f \in Frames(policy) /\ f.node = stack[e].node /\ f.ids = ids BY <2>5, <3>1 DEF Frames
    <3>3. Below \in [1..e -> Frames(policy)] BY <1>5, <2>2, SeqShape
    <3>4. stack' = [Below EXCEPT ![e] = f] BY <2>1, <2>2, <2>4, <3>3 DEF ids
    <3> HIDE DEF f
    <3>5. /\ stack' \in [1..e -> Frames(policy)] /\ stack'[e] = f
          /\ \A k \in 1..e : k # e => stack'[k] = Below[k]
      BY <2>1, <3>2, <3>3, <3>4
    <3>6. stack' \in Seq(Frames(policy)) /\ Len(stack') = e BY <2>1, <3>5, FunctionIsSeq
    <3> QED BY <2>2, <3>2, <3>5, <3>6 DEF ids
  <2>9. stack' # <<>> /\ stack'[1].node \in Roots(policy)
    <3>1. stack[1].node \in Roots(policy) BY <1>1 DEF Path
    <3> QED BY <2>1, <2>8, <3>1, EmptySeq
  <2>10. ASSUME NEW k \in 1..e PROVE InFrame(k)'
    <3> DEFINE f == ChildrenOf(policy, stack[k].node)
               b == Len(stack[k].ids)
    <3>1. /\ k \in 1..l /\ k \in 1..(l - 1) /\ stack'[k].node = stack[k].node /\ k < l /\ k \in Nat
          /\ ChildrenOf(policy', stack'[k].node) = f
      BY <1>1, <2>1, <2>8
    <3>2. InFrame(k) /\ stack[k].node \in Nodes(policy) /\ b \in Nat /\ Len(f) \in Nat
      BY <1>2, <3>1 DEF Path
    <3>3. /\ b < Len(f) /\ stack[k + 1].node = f[b + 1] /\ b + 1 \in 1..Len(f)
          /\ \A j \in 1..b : j \in 1..Len(f)
      <4>1. b < Len(f) /\ stack[k + 1].node = f[b + 1] BY <3>1, <3>2 DEF InFrame
      <4> QED BY <3>2, <4>1
    <3>4. emitted'[stack[k].node] = 0
      <4>1. stack[k].node # n BY <1>7, <3>1
      <4>2. emitted[stack[k].node] = 0 BY <3>2 DEF InFrame
      <4> QED BY <1>4, <3>2, <4>1, <4>2
    <3>5. \A j \in 1..Len(f) : f[j] \in Nodes(policy) BY <3>2, TreeIs DEF Placed
    <3>6. ASSUME NEW j \in 1..Len(f), f[j] = n PROVE k = e /\ j = b + 1
      <4>1. stack[k].node = m /\ j = d + 1
        <5> DEFINE i == d + 1
                   x == stack[k].node
        <5> HIDE DEF m, cs, d, n, i
        <5>1. ChildrenOf(policy, m)[i] = n /\ i \in 1..Len(ChildrenOf(policy, m))
          BY <2>6 DEF cs, i
        <5>2. /\ policy \in Sources /\ m \in Nodes(policy) /\ x \in Nodes(policy)
              /\ j \in 1..Len(ChildrenOf(policy, x))
              /\ ChildrenOf(policy, x)[j] = ChildrenOf(policy, m)[i]
          BY <2>5, <3>2, <3>6, <5>1 DEF Placed
        <5> HIDE DEF x
        <5>3. x = m /\ j = i BY ONLY <5>1, <5>2, ChildOnce
        <5> QED BY <5>3 DEF x, i
      <4>2. k = e
        <5>1. CASE k \in 1..(e - 1)
          <6>1. stack[k].node < m BY <2>1, <5>1 DEF Path
          <6> QED BY <1>2, <2>1, <4>1, <6>1
        <5> QED BY <2>1, <3>1, <5>1
      <4> QED BY <4>1, <4>2
    <3>7. CASE k = e
      <4>1. Len(stack'[k].ids) = b + 1 /\ stack'[k].ids[b + 1] = id
              /\ \A j \in 1..b : stack'[k].ids[j] = stack[k].ids[j]
        BY <2>7, <2>8, <3>7
      <4>2. ASSUME NEW j \in 1..(b + 1)
            PROVE  stack'[k].ids[j] = emitted'[f[j]] /\ emitted'[f[j]] # 0
        <5>1. CASE j = b + 1
          <6>1. f[j] = n BY <2>6, <3>7, <5>1
          <6> QED BY <1>3, <1>4, <4>1, <5>1, <6>1
        <5>2. CASE j # b + 1
          <6>1. j \in 1..b /\ j \in 1..Len(f) BY SMTT(30), <3>2, <3>3, <5>2
          <6>2. f[j] # n BY <3>6, <5>2, <6>1
          <6>3. stack[k].ids[j] = emitted[f[j]] /\ emitted[f[j]] # 0 BY <3>2, <6>1 DEF InFrame
          <6> QED BY <1>4, <3>5, <4>1, <6>1, <6>2, <6>3
        <5> QED BY <5>1, <5>2
      <4>3. ASSUME NEW j \in (b + 2)..Len(f) PROVE emitted'[f[j]] = 0
        <5>1. j \in 1..Len(f) /\ j # b + 1 /\ j \in (b + 1)..Len(f) BY <3>2, <3>3
        <5>2. f[j] # n BY <3>6, <5>1
        <5>3. emitted[f[j]] = 0 BY <3>2, <5>1 DEF InFrame
        <5> QED BY <1>4, <3>5, <5>1, <5>2, <5>3
      <4>4. ~(k < Len(stack')) /\ b + 1 <= Len(f) BY <2>1, <2>8, <3>2, <3>3, <3>7
      <4>5. (b + 1) + 1 = b + 2 BY <3>2
      <4> HIDE DEF f, b
      <4> QED BY <3>1, <3>4, <4>1, <4>2, <4>3, <4>4, <4>5 DEF InFrame
    <3>8. CASE k # e
      <4>1. stack'[k] = stack[k] /\ k + 1 \in 1..e /\ k < Len(stack') BY <2>1, <2>8, <3>1, <3>8
      <4>2. \A j \in 1..Len(f) : emitted'[f[j]] = emitted[f[j]] BY <1>4, <3>5, <3>6, <3>8
      <4>3. \A j \in 1..b : stack'[k].ids[j] = emitted'[f[j]] /\ emitted'[f[j]] # 0
        BY <3>2, <3>3, <4>1, <4>2 DEF InFrame
      <4>4. \A j \in (b + 1)..Len(f) : emitted'[f[j]] = 0
        <5>1. ASSUME NEW j \in (b + 1)..Len(f) PROVE emitted'[f[j]] = 0
          <6>1. j \in 1..Len(f) BY <3>2
          <6>2. emitted[f[j]] = 0 BY <3>2 DEF InFrame
          <6> QED BY <4>2, <6>1, <6>2
        <5> QED BY <5>1
      <4>5. stack'[k + 1].node = f[b + 1] BY <2>8, <3>3, <4>1
      <4>6. Len(stack'[k].ids) = b /\ b <= Len(f) BY <3>2, <3>3, <4>1
      <4> HIDE DEF f, b
      <4> QED BY <3>1, <3>3, <3>4, <4>1, <4>3, <4>4, <4>5, <4>6 DEF InFrame
    <3> QED BY <3>7, <3>8
  <2>11. Path'
    <3>1. \A k \in 1..Len(stack') : InFrame(k)' BY <2>8, <2>10
    <3>2. \A k \in 1..Len(stack') : \A i \in 1..(k - 1) : stack'[i].node < stack'[k].node
      <4>1. ASSUME NEW k \in 1..e, NEW i \in 1..(k - 1) PROVE stack[i].node < stack[k].node
        BY <2>1 DEF Path
      <4>2. \A k \in 1..e : \A i \in 1..(k - 1) : i \in 1..e BY <2>1
      <4> QED BY <2>8, <4>1, <4>2
    <3>3. \A k \in 1..Len(stack') :
            RootOf(policy')[stack'[k].node] = RootOf(policy')[stack'[1].node]
      BY <1>1, <2>1, <2>8 DEF Path
    <3>4. /\ stack' \in Seq(Frames(policy')) /\ stage' \in {"applicability", "assertion"}
          /\ stack'[1].node \in Roots(policy')
          /\ emitted' \in [Nodes(policy') -> 0..Len(prog'.code)] /\ root' \in 0..Len(prog'.code)
      BY <1>1, <1>4, <2>8, <2>9 DEF id
    <3> QED BY <3>1, <3>2, <3>3, <3>4 DEF Path
  <2>12. Fresh'
    <3>1. ASSUME NEW x \in Nodes(policy), emitted'[x] = 0, \A k \in 1..Len(stack') : stack'[k].node # x,
                 NEW j \in 1..Len(ChildrenOf(policy, x))
          PROVE  emitted'[ChildrenOf(policy, x)[j]] = 0
      <4> DEFINE c == ChildrenOf(policy, x)[j]
      <4>1. x # n /\ emitted[x] = 0 BY <1>3, <1>4, <3>1
      <4>2. \A k \in 1..e : stack[k].node # x BY <2>8, <3>1
      <4>3. \A k \in 1..Len(stack) : stack[k].node # x
        <5>1. \A k \in 1..l : k \in 1..e \/ k = l BY <2>1
        <5> QED BY <4>1, <4>2, <5>1
      <4>4. c \in Nodes(policy) /\ emitted[c] = 0 BY <4>1, <4>3, TreeIs DEF Fresh, Placed
      <4>5. c # n
        <5>1. CASE c = n
          <6>1. x = m
            <7> DEFINE i == d + 1
            <7> HIDE DEF m, cs, d, n, i
            <7>1. ChildrenOf(policy, m)[i] = n /\ i \in 1..Len(ChildrenOf(policy, m))
              BY <2>6 DEF cs, i
            <7>2. /\ policy \in Sources /\ m \in Nodes(policy) /\ x \in Nodes(policy)
                  /\ j \in 1..Len(ChildrenOf(policy, x))
                  /\ ChildrenOf(policy, x)[j] = ChildrenOf(policy, m)[i]
              BY <2>5, <5>1, <7>1 DEF Placed
            <7> QED BY ONLY <7>1, <7>2, ChildOnce
          <6> QED BY <2>1, <4>2, <6>1
        <5> QED BY <5>1
      <4> QED BY <1>4, <4>4, <4>5
    <3> QED BY <1>1, <3>1 DEF Fresh
  <2> QED BY <1>8, <2>11, <2>12
<1> QED BY <1>9, <1>10

-----------------------------------------------------------------------------
(* The expressions of the requirements and clauses passed have their       *)
(* instructions, those to come have none.                                  *)

\* The owner of the expression being compiled, and those before it.
Now == IF stage = "assertion" THEN clause ELSE 0
Current(r, k) == stage \in {"applicability", "assertion"} /\ r = requirement /\ k = Now
Done(r, k) ==
  r < requirement \/ (r = requirement /\ stage \in {"clause", "assertion"} /\ k < clause)

\* The nodes compiled so far are those of the owners passed and of the current one.
Owned ==
  \A r \in 1..Len(policy.requirements) : \A k \in 0..Len(policy.requirements[r].clauses) :
    /\ Done(r, k) => emitted[RootAt(policy, r, k)] # 0
    /\ ~Done(r, k) /\ ~Current(r, k) => emitted[RootAt(policy, r, k)] = 0
    /\ Current(r, k) => IF stack = <<>> THEN root = emitted[RootAt(policy, r, k)] /\ root # 0
                        ELSE stack[1].node = RootAt(policy, r, k)

\* Every instruction is a node's.
Numbered ==
  /\ \A i \in 1..Len(prog.code) : \E n \in Nodes(policy) : emitted[n] = i
  /\ Len(prog.specs) <= Len(prog.code)

LEMMA NowIs ==
  ASSUME Placed, stage \in {"applicability", "assertion"}
  PROVE  /\ requirement \in 1..Len(policy.requirements) /\ Now \in 0..Len(Requirement.clauses)
         /\ Current(requirement, Now) /\ Len(Requirement.clauses) \in Nat
PROOF
<1>1. requirement \in 1..Len(policy.requirements)
  <2> DEFINE m == Len(policy.requirements)
  <2>1. m \in Nat BY SourceIs DEF Placed
  <2>2. requirement \in 1..(m + 1) /\ requirement <= m BY DEF Placed
  <2> HIDE DEF m
  <2>3. requirement \in 1..m BY ONLY <2>1, <2>2
  <2> QED BY <2>3 DEF m
<1>2. Len(Requirement.clauses) \in Nat BY <1>1, SourceIs DEF Placed, Requirement
<1>3. Now \in 0..Len(Requirement.clauses)
  <2> DEFINE l == Len(Requirement.clauses)
  <2>1. l \in Nat BY <1>2
  <2>2. clause \in Nat /\ (stage = "assertion" => clause <= l) BY DEF Placed
  <2> HIDE DEF l
  <2>3. Now \in 0..l BY ONLY <2>1, <2>2 DEF Now
  <2> QED BY <2>3 DEF l
<1> QED BY <1>1, <1>2, <1>3 DEF Current

LEMMA OwnedIdle ==
  ASSUME Owned, policy' = policy, emitted' = emitted, stack = <<>>, stack' = <<>>, root' = root,
         \A r \in 1..Len(policy.requirements) : \A k \in 0..Len(policy.requirements[r].clauses) :
           (Done(r, k)' <=> Done(r, k) \/ Current(r, k)) /\ ~Current(r, k)'
  PROVE  Owned'
BY DEF Owned

LEMMA OwnedOpened ==
  ASSUME Owned, policy' = policy, emitted' = emitted, NEW n, stack' = <<Frame(n)>>,
         \A r \in 1..Len(policy.requirements) : \A k \in 0..Len(policy.requirements[r].clauses) :
           /\ Done(r, k)' <=> Done(r, k)
           /\ ~Current(r, k) /\ (Current(r, k)' => n = RootAt(policy, r, k))
  PROVE  Owned'
PROOF
<1>1. stack' # <<>> /\ stack'[1].node = n BY DEF Frame
<1> QED BY <1>1 DEF Owned

LEMMA OwnedDeeper ==
  ASSUME Placed, Path, Owned, Descend
  PROVE  Owned'
PROOF
<1> DEFINE c == Children[Len(Top.ids) + 1]
<1>1. /\ policy' = policy /\ stack # <<>> /\ stack' = Append(stack, Frame(c)) /\ emitted' = emitted
      /\ UNCHANGED <<stage, requirement, clause>>
  BY DEF Descend, Expressing
<1>2. stack \in Seq(Frames(policy)) /\ Len(stack) \in Nat /\ 1 \in 1..Len(stack)
  BY <1>1, FramesAre DEF Path
<1>3. stack' # <<>> /\ stack'[1] = stack[1]
  <2> HIDE DEF c
  <2>1. stack' # <<>> /\ stack'[1] = stack[1] BY <1>1, <1>2, EmptySeq
  <2> QED BY <2>1
<1>4. \A r, k : (Done(r, k)' <=> Done(r, k)) /\ (Current(r, k)' <=> Current(r, k))
  BY <1>1 DEF Done, Current, Now
<1> QED BY <1>1, <1>3, <1>4 DEF Owned

\* A node that returns keeps Owned.
LEMMA OwnedReturned ==
  ASSUME Placed, Path, Owned, Emit, Len(prog'.code) = Len(prog.code) + 1, Len(prog.code) \in Nat
  PROVE  Owned'
PROOF
<1> DEFINE l == Len(stack)
           n == stack[l].node
           id == Len(prog'.code)
<1>1. /\ policy' = policy /\ stack # <<>> /\ stage \in {"applicability", "assertion"}
      /\ emitted' = [emitted EXCEPT ![n] = id]
      /\ IF Below = <<>> THEN root' = id /\ stack' = <<>>
         ELSE stack' = [Below EXCEPT ![Len(Below)].ids = Append(@, id)]
      /\ UNCHANGED <<stage, requirement, clause>>
  BY DEF Emit, Expressing, Top, Returned
<1>2. /\ l \in Nat /\ l \in 1..l /\ 1 \in 1..l /\ n \in Nodes(policy)
      /\ \A k \in 1..l : stack[k].node \in Nodes(policy)
  BY <1>1, FramesAre
<1>3. /\ emitted'[n] = id /\ id # 0
      /\ \A m \in Nodes(policy) : m # n => emitted'[m] = emitted[m]
  BY <1>1, <1>2 DEF Path
<1>4. \A r, k : (Done(r, k)' <=> Done(r, k)) /\ (Current(r, k)' <=> Current(r, k))
  BY <1>1 DEF Done, Current, Now
<1>5. /\ requirement \in 1..Len(policy.requirements) /\ Now \in 0..Len(Requirement.clauses)
      /\ Current(requirement, Now)
  BY <1>1, NowIs
<1>6. stack[1].node = RootAt(policy, requirement, Now) BY <1>1, <1>5 DEF Owned, Requirement
<1>7. l # 1 => n \notin Roots(policy)
  <2>1. ASSUME l # 1 PROVE n \notin Roots(policy)
    <3> DEFINE e == l - 1
               m == stack[e].node
               j == Len(stack[e].ids) + 1
    <3>1. e \in 1..l /\ e < l /\ e + 1 = l
      <4> HIDE DEF l, n
      <4> QED BY <1>2, <2>1
    <3>2. InFrame(e) BY <3>1 DEF Path
    <3>3. Len(stack[e].ids) < Len(ChildrenOf(policy, m)) /\ n = ChildrenOf(policy, m)[j]
      BY <3>1, <3>2 DEF InFrame
    <3>4. m \in Nodes(policy) /\ Len(stack[e].ids) \in Nat BY <3>1, FramesAre
    <3>5. Len(ChildrenOf(policy, m)) \in Nat BY <3>4, SourceIs DEF Placed
    <3>6. j \in 1..Len(ChildrenOf(policy, m)) BY <3>3, <3>4, <3>5
    <3> HIDE DEF m, j, n
    <3> QED BY <3>3, <3>4, <3>6, RootIsNoChild DEF Placed
  <2> QED BY <2>1
<1>8. ASSUME NEW r \in 1..Len(policy.requirements), NEW k \in 0..Len(policy.requirements[r].clauses),
             RootAt(policy, r, k) = n
      PROVE  l = 1 /\ r = requirement /\ k = Now
  <2>1. n \in Roots(policy)
    <3>1. RootAt(policy, r, k) \in Roots(policy) BY TreeIs DEF Placed
    <3> HIDE DEF n
    <3> QED BY <1>8, <3>1
  <2>2. l = 1 BY <1>7, <2>1
  <2>3. RootAt(policy, r, k) = RootAt(policy, requirement, Now) BY <1>6, <1>8, <2>2
  <2> DEFINE s == requirement
             i == Now
  <2>4. /\ policy \in Sources /\ s \in 1..Len(policy.requirements)
        /\ i \in 0..Len(policy.requirements[s].clauses)
        /\ r \in 1..Len(policy.requirements) /\ k \in 0..Len(policy.requirements[r].clauses)
    BY <1>5 DEF Placed, Requirement
  <2> HIDE DEF n, l, s, i
  <2>5. RootAt(policy, r, k) = RootAt(policy, s, i) BY <2>3 DEF s, i
  <2>6. \A y \in 0..Len(policy.requirements[s].clauses) :
          RootAt(policy, r, k) = RootAt(policy, s, y) => r = s /\ k = y
    BY ONLY <2>4, RootsDiffer
  <2>7. r = s /\ k = i BY ONLY <2>4, <2>5, <2>6
  <2> QED BY <2>2, <2>7 DEF s, i
<1>9. /\ l = 1 => stack' = <<>> /\ root' = id
      /\ l # 1 => stack' # <<>> /\ stack'[1].node = stack[1].node
  <2>1. Below \in Seq(Frames(policy)) /\ Len(Below) = l - 1 /\ \A k \in 1..(l - 1) : Below[k] = stack[k]
    <3>1. stack \in Seq(Frames(policy)) BY DEF Path
    <3>2. 1 <= 1 /\ l - 1 <= l /\ l - 1 \in Nat BY <1>2
    <3>3. Below = [k \in 1..(l - 1) |-> stack[k]] BY <1>2, <3>1 DEF Below
    <3>4. Below \in [1..(l - 1) -> Frames(policy)]
      <4>1. \A k \in 1..(l - 1) : k \in 1..l BY <1>2
      <4>2. \A k \in 1..l : stack[k] \in Frames(policy) BY FramesAre
      <4> QED BY <3>3, <4>1, <4>2
    <3> QED BY <3>2, <3>3, <3>4, FunctionIsSeq
  <2>2. ASSUME l = 1 PROVE stack' = <<>> /\ root' = id
    <3>1. Below = <<>> BY <2>1, <2>2, EmptySeq
    <3> QED BY <1>1, <3>1
  <2>3. ASSUME l # 1 PROVE stack' # <<>> /\ stack'[1].node = stack[1].node
    <3> DEFINE e == l - 1
    <3>1. e \in 1..e /\ 1 \in 1..e /\ Len(Below) = e BY <1>2, <2>1, <2>3
    <3>2. Below # <<>> BY <2>1, <3>1, EmptySeq
    <3>3. stack' = [Below EXCEPT ![e].ids = Append(@, id)] BY <1>1, <2>1, <3>2
    <3>4. Below \in [1..e -> Frames(policy)] BY <2>1, <3>1, SeqShape
    <3>5. Below[1].node = stack[1].node BY <2>1, <3>1
    <3>6. DOMAIN stack' = 1..e /\ stack'[1].node = Below[1].node
      <4> HIDE DEF id, e
      <4>1. DOMAIN stack' = 1..e BY <3>3, <3>4
      <4>2. CASE 1 = e
        <5>1. stack'[1] = [Below[1] EXCEPT !.ids = Append(@, id)] BY <3>1, <3>3, <3>4, <4>2
        <5>2. Below[1] \in Frames(policy) BY <3>1, <3>4
        <5> QED BY <4>1, <4>2, <5>1, <5>2 DEF Frames
      <4>3. CASE 1 # e BY <3>1, <3>3, <3>4, <4>3
      <4> QED BY <4>1, <4>2, <4>3
    <3> HIDE DEF e
    <3>7. stack' # <<>>
      <4>1. DOMAIN <<>> = {} OBVIOUS
      <4> QED BY <3>1, <3>6, <4>1
    <3> QED BY <3>5, <3>6, <3>7
  <2> QED BY <2>2, <2>3
<1> HIDE DEF id, n, l
<1>10. ASSUME NEW r \in 1..Len(policy.requirements), NEW k \in 0..Len(policy.requirements[r].clauses)
       PROVE  /\ Done(r, k) => emitted'[RootAt(policy, r, k)] # 0
              /\ ~Done(r, k) /\ ~Current(r, k) => emitted'[RootAt(policy, r, k)] = 0
              /\ Current(r, k) =>
                   IF stack' = <<>> THEN root' = emitted'[RootAt(policy, r, k)] /\ root' # 0
                   ELSE stack'[1].node = RootAt(policy, r, k)
  <2> DEFINE x == RootAt(policy, r, k)
  <2>1. x \in Nodes(policy) BY TreeIs DEF Placed
  <2>2. x = n => Current(r, k) BY <1>5, <1>8 DEF Current
  <2>3. Done(r, k) => emitted'[x] # 0 BY <1>3, <2>1 DEF Owned
  <2>4. ~Done(r, k) /\ ~Current(r, k) => emitted'[x] = 0 BY <1>3, <2>1, <2>2 DEF Owned
  <2>5. ASSUME Current(r, k)
        PROVE  IF stack' = <<>> THEN root' = emitted'[x] /\ root' # 0 ELSE stack'[1].node = x
    <3>1. r = requirement /\ k = Now BY <2>5 DEF Current
    <3>2. x = stack[1].node BY <1>6, <3>1
    <3>3. CASE l = 1
      <4>1. x = n BY <3>2, <3>3 DEF n, l
      <4> QED BY <1>3, <1>9, <3>3, <4>1
    <3>4. CASE l # 1 BY <1>9, <3>2, <3>4
    <3> QED BY <3>3, <3>4
  <2> QED BY <2>3, <2>4, <2>5
<1> QED BY <1>1, <1>4, <1>10 DEF Owned

\* A node that returns is given the next number, and no other has it.
LEMMA NumberedReturned ==
  ASSUME Placed, Path, Numbered, Emit, Len(prog'.code) = Len(prog.code) + 1, Len(prog.code) \in Nat,
         Len(prog.specs) \in Nat, Len(prog'.specs) \in Nat, Len(prog'.specs) <= Len(prog.specs) + 1
  PROVE  Numbered'
PROOF
<1> DEFINE n == stack[Len(stack)].node
           id == Len(prog'.code)
<1>1. policy' = policy /\ stack # <<>> /\ emitted' = [emitted EXCEPT ![n] = id]
  BY DEF Emit, Expressing, Top
<1>2. n \in Nodes(policy) BY <1>1, FramesAre
<1>3. emitted[n] = 0
  <2>1. InFrame(Len(stack)) BY <1>1, FramesAre DEF Path
  <2> QED BY <2>1 DEF InFrame
<1> HIDE DEF n
<1>4. emitted'[n] = id /\ \A m \in Nodes(policy) : m # n => emitted'[m] = emitted[m]
  BY <1>1, <1>2 DEF Path
<1>5. ASSUME NEW i \in 1..id PROVE \E m \in Nodes(policy) : emitted'[m] = i
  <2>1. CASE i = id BY <1>2, <1>4, <2>1
  <2>2. CASE i # id
    <3>1. i \in 1..Len(prog.code) /\ i # 0 BY <2>2
    <3>2. PICK m \in Nodes(policy) : emitted[m] = i BY <3>1 DEF Numbered
    <3> QED BY <1>3, <1>4, <3>1, <3>2
  <2> QED BY <2>1, <2>2
<1> QED BY <1>1, <1>5 DEF Numbered

\* A node without an instruction leaves room for one.
LEMMA RoomLeft ==
  ASSUME Placed, Path, Numbered, Len(prog.code) \in Nat, NEW n \in Nodes(policy), emitted[n] = 0
  PROVE  Len(prog.code) + 1 <= Len(policy.nodes)
PROOF
<1> DEFINE c == Len(prog.code)
           m == Len(policy.nodes)
           f == [i \in 1..(c + 1) |-> IF i = c + 1 THEN n ELSE CHOOSE x \in Nodes(policy) : emitted[x] = i]
<1>1. m \in Nat /\ Nodes(policy) = 1..m /\ c \in Nat BY SourceIs DEF Placed
<1>2. \A i \in 1..(c + 1) : i # c + 1 => i \in 1..c /\ i # 0 BY <1>1
<1>3. /\ \A i \in 1..(c + 1) : f[i] \in 1..m /\ (i # c + 1 => emitted[f[i]] = i)
      /\ f[c + 1] = n
  BY <1>1, <1>2 DEF Numbered
<1>4. f \in [1..(c + 1) -> 1..m] /\ IsInjective(f)
  <2>1. DOMAIN f = 1..(c + 1) BY DEF f
  <2>2. f \in [1..(c + 1) -> 1..m] BY <1>3
  <2> HIDE DEF f, c, m
  <2>3. ASSUME NEW i \in 1..(c + 1), NEW j \in 1..(c + 1), f[i] = f[j] PROVE i = j
    <3>1. CASE i # c + 1 /\ j # c + 1 BY <1>3, <2>3, <3>1
    <3>2. CASE i = c + 1 /\ j # c + 1 BY <1>2, <1>3, <2>3, <3>2
    <3>3. CASE i # c + 1 /\ j = c + 1 BY <1>2, <1>3, <2>3, <3>3
    <3> QED BY <3>1, <3>2, <3>3
  <2> QED BY <2>1, <2>2, <2>3 DEF IsInjective
<1> HIDE DEF f, m, c
<1> DEFINE d == c + 1
<1>5. d \in Nat BY <1>1
<1>6. f \in [1..d -> 1..m] BY <1>4
<1> HIDE DEF d
<1>7. d <= m BY <1>1, <1>4, <1>5, <1>6, Pigeonhole
<1> QED BY <1>7 DEF c, d, m

-----------------------------------------------------------------------------
(* What each step does to the program.                                     *)

\* The rows that refer to nothing else in the program.
SameContent(p, q) ==
  /\ q.symbols = p.symbols /\ q.kinds = p.kinds /\ q.explanations = p.explanations
  /\ q.specs = p.specs /\ q.setValues = p.setValues /\ q.operands = p.operands
  /\ q.code = p.code /\ q.clauses = p.clauses /\ q.clauseKinds = p.clauseKinds
  /\ q.clauseRemediations = p.clauseRemediations /\ q.remediations = p.remediations

Asking(p, c)  == [p EXCEPT !.requirements = c]
Tagging(p, c) == [p EXCEPT !.clauseIDs = c]

LEMMA NewAsk ==
  ASSUME NEW p \in Programs, NEW c \in Seq(Asks)
  PROVE  LET q == Asking(p, c) IN
         /\ q \in Programs /\ q.requirements = c /\ q.clauseIDs = p.clauseIDs /\ SameContent(p, q)
BY DEF Programs, SameContent, Asking

LEMMA NewTag ==
  ASSUME NEW p \in Programs, NEW c \in Seq(Nat)
  PROVE  LET q == Tagging(p, c) IN
         /\ q \in Programs /\ q.clauseIDs = c /\ q.requirements = p.requirements /\ SameContent(p, q)
BY DEF Programs, SameContent, Tagging

LEMMA ContentKept ==
  ASSUME NEW p, Sound(p), NEW q \in Programs, SameContent(p, q),
         Prefix(p.requirements, q.requirements), Prefix(p.clauseIDs, q.clauseIDs)
  PROVE  Sound(q) /\ Grown(p, q)
PROOF
<1>1. p \in Programs BY DEF Sound
<1>2. /\ Prefix(p.symbols, q.symbols) /\ Prefix(p.kinds, q.kinds)
      /\ Prefix(p.explanations, q.explanations) /\ Prefix(p.specs, q.specs)
      /\ Prefix(p.setValues, q.setValues) /\ Prefix(p.operands, q.operands)
      /\ Prefix(p.code, q.code) /\ Prefix(p.clauses, q.clauses)
      /\ Prefix(p.clauseKinds, q.clauseKinds)
      /\ Prefix(p.clauseRemediations, q.clauseRemediations)
      /\ Prefix(p.remediations, q.remediations)
  BY <1>1, Lengths DEF SameContent, Prefix
<1>3. Grown(p, q) BY <1>2, GrownIs
<1>4. Catalogued(q) BY DEF Sound, Catalogued, SameContent
<1>5. Rows(q)
  <2>1. /\ Len(q.setValues) = Len(p.setValues) /\ Len(q.specs) = Len(p.specs)
        /\ Len(q.remediations) = Len(p.remediations) /\ Len(q.clauseKinds) = Len(p.clauseKinds)
        /\ Len(q.clauseRemediations) = Len(p.clauseRemediations) /\ Len(q.clauses) = Len(p.clauses)
    BY DEF SameContent
  <2>2. Len(p.clauseRemediations) = Len(p.remediations) BY DEF Sound, Rows
  <2> QED BY <1>3, <2>1, <2>2, RowsKept DEF Rows
<1> QED BY <1>3, <1>4, <1>5 DEF Sound

\* A node whose count of values does not wrap.
Small(node) == node.op = "in" => Len(node.values) < CountLimit

\* What Emit does to the program.
LEMMA EmitIs ==
  ASSUME Placed, Path, Numbered, Sound(prog), Emit
  PROVE  LET n == Top.node
             id == Len(prog.code) + 1
             node == policy.nodes[n] IN
         /\ Sound(prog') /\ Grown(prog, prog') /\ SameClauses(prog, prog')
         /\ Len(prog'.code) = id /\ Len(prog'.specs) <= Len(prog.specs) + 1
         /\ policy' = policy /\ emitted' = [emitted EXCEPT ![n] = id]
         /\ n \in Nodes(policy) /\ emitted[n] = 0
         /\ node.op = "evidence_matches" =>
              node.evidence.kind # NoSymbol /\ KnownKind(prog', node.evidence.kind)
         /\ Small(node) =>
              /\ ValidInstruction(prog', id)
              /\ Meaning(prog', id) =
                   [node EXCEPT !.children = [k \in DOMAIN @ |-> emitted[@[k]]]]
PROOF
<1> DEFINE l == Len(stack)
           n == stack[l].node
           ids == stack[l].ids
           id == Len(prog.code) + 1
           node == policy.nodes[n]
           p == WithInstruction(prog, node, ids)
<1>1. /\ policy' = policy /\ stack # <<>> /\ prog' = p /\ Len(ids) = Len(ChildrenOf(policy, n))
      /\ emitted' = [emitted EXCEPT ![n] = Len(p.code)]
      /\ stage \in {"applicability", "assertion"} /\ Top.node = n
  BY DEF Emit, Expressing, Children, Top, ChildrenOf
<1>2. prog \in Programs BY DEF Sound
<1>3. Len(prog.code) \in Nat /\ Len(prog.specs) \in Nat BY <1>2, Lengths
<1>4. l \in 1..l /\ n \in Nodes(policy) /\ ids \in Seq(Nat) /\ Len(ids) \in Nat BY <1>1, FramesAre
<1>5. InFrame(l) BY <1>4 DEF Path
<1>6. /\ policy \in Sources /\ Admitted(policy) /\ Len(policy.nodes) \in Nat
      /\ node \in Expressions /\ Len(ChildrenOf(policy, n)) \in Nat
      /\ DOMAIN node.children = 1..Len(ids) /\ node.children = ChildrenOf(policy, n)
      /\ Len(ids) = Len(node.children)
  BY <1>1, <1>4, SourceIs DEF Placed, ChildrenOf
<1>7. PICK allow \in BOOLEAN : ValidNode(node, allow) BY <1>4, <1>6, AdmittedIs
<1>8. /\ Len(ids) <= Len(policy.nodes) /\ Len(policy.nodes) <= MaxNodes
      /\ MaxNodes \in Nat /\ CountLimit \in Nat /\ MaxNodes < CountLimit
  BY <1>1, <1>4, <1>6, NodesBound, AdmittedIs, CompilerAssumption
<1>9. \A j \in 1..Len(ids) : ids[j] = emitted[node.children[j]] /\ ids[j] \in 1..Len(prog.code)
  <2>1. ASSUME NEW j \in 1..Len(ids) PROVE ids[j] = emitted[node.children[j]] /\ ids[j] \in 1..Len(prog.code)
    <3> DEFINE c == node.children[j]
    <3>1. c \in Nodes(policy) BY <1>1, <1>4, <1>6, TreeIs
    <3>2. ids[j] = emitted[c] /\ emitted[c] # 0 BY <1>5, <1>6 DEF InFrame
    <3>3. emitted[c] \in 0..Len(prog.code) BY <3>1 DEF Path
    <3> HIDE DEF c
    <3> QED BY SMTT(30), <1>3, <3>2, <3>3 DEF c
  <2> QED BY SMTT(40), <2>1
<1>10. ids = [k \in DOMAIN node.children |-> emitted[node.children[k]]]
  <2>1. ids \in [1..Len(ids) -> Nat] BY <1>4, SeqShape
  <2>2. ids = [k \in 1..Len(ids) |-> emitted[node.children[k]]]
    <3> HIDE DEF ids, node
    <3> QED BY <1>9, <2>1
  <2> QED BY <1>6, <2>2
<1>11. /\ emitted[n] = 0 BY <1>5 DEF InFrame
<1>12. \E m \in Nodes(policy) : m = n BY <1>4
<1>13. Len(prog.specs) + 1 < CountLimit /\ Len(ids) < CountLimit
  <2>1. Len(prog.specs) <= Len(prog.code) BY DEF Numbered
  <2>2. Len(prog.code) + 1 <= Len(policy.nodes) BY <1>3, <1>4, <1>11, RoomLeft
  <2> DEFINE a == Len(prog.code)
             b == Len(prog.specs)
             c == Len(policy.nodes)
             d == Len(ids)
  <2> HIDE DEF a, b, c, d
  <2>3. /\ a \in Nat /\ b \in Nat /\ c \in Nat /\ d \in Nat /\ b <= a /\ a + 1 <= c /\ c <= MaxNodes
        /\ d <= c /\ MaxNodes \in Nat /\ CountLimit \in Nat /\ MaxNodes < CountLimit
    BY <1>3, <1>4, <1>6, <1>8, <2>1, <2>2 DEF a, b, c, d
  <2>4. b + 1 < CountLimit /\ d < CountLimit BY ONLY <2>3
  <2> QED BY <2>4 DEF b, d
<1> HIDE DEF l, n, ids, node
<1>14. /\ Sound(p) /\ Grown(prog, p) /\ SameClauses(prog, p)
       /\ Len(p.code) = id /\ Len(p.specs) <= Len(prog.specs) + 1
       /\ node.op = "evidence_matches" => KnownKind(p, node.evidence.kind)
       /\ (node.op = "in" => Len(node.values) < CountLimit) =>
            ValidInstruction(p, id) /\ Meaning(p, id) = [node EXCEPT !.children = ids]
  BY <1>4, <1>6, <1>7, <1>9, <1>13, WithInstructionIs
<1>15. node.op = "evidence_matches" => node.evidence.kind # NoSymbol BY <1>6, <1>7, NodeIs, NotBlank
<1>16. [node EXCEPT !.children = ids]
         = [node EXCEPT !.children = [k \in DOMAIN @ |-> emitted[@[k]]]]
  BY <1>10
<1> HIDE DEF p
<1>17. policy.nodes[Top.node] = node BY <1>1 DEF node
<1> QED BY <1>1, <1>4, <1>11, <1>14, <1>15, <1>16, <1>17 DEF Small

-----------------------------------------------------------------------------
(* The clauses compiled so far are the first of the document.              *)

\* How many clauses are behind, and what that says of the columns.
Passed ==
  Base(policy)[requirement - 1] + (IF stage \in {"clause", "assertion"} THEN clause - 1 ELSE 0)

Tallied ==
  /\ Len(prog.clauses) = Passed
  /\ Len(prog.clauseIDs) = IF stage = "assertion" THEN Passed + 1 ELSE Passed
  /\ \A k \in 1..Len(prog.clauseIDs) : prog.clauseIDs[k] = k
  /\ Len(prog.requirements) =
       IF stage \in {"clause", "assertion"} THEN requirement ELSE requirement - 1
  /\ Len(prog.explanations) <= CostUpTo(SourceClauses(policy))[Passed]
  /\ Len(prog.remediations) <= CostUpTo(SourceClauses(policy))[Passed]

\* The ID of what is being compiled is interned.
Named ==
  /\ stage = "applicability" => Known(prog, Requirement.id)
  /\ stage = "assertion" => Known(prog, Clause.id)

\* The evidence kinds noted for the clause, each once.
Noted ==
  /\ clauseKinds \in Seq(Nat) /\ IsInjective(clauseKinds)
  /\ \A j \in 1..Len(clauseKinds) : clauseKinds[j] \in 1..Len(prog.kinds)

LEMMA PassedIs ==
  ASSUME Placed
  PROVE  /\ Passed \in 0..Len(SourceClauses(policy))
         /\ stage = "assertion" =>
              /\ Passed + 1 \in 1..Len(SourceClauses(policy))
              /\ SourceClauses(policy)[Passed + 1] = Clause /\ Clause \in ClauseSource
              /\ requirement \in 1..Len(policy.requirements)
              /\ clause \in 1..Len(Requirement.clauses)
              /\ Clause.id # NoSymbol /\ ValidResolution(Clause)
PROOF
<1> DEFINE m == Len(policy.requirements)
           l == Len(SourceClauses(policy))
           b == Base(policy)
           c == Len(Requirement.clauses)
           r == requirement
<1>1. /\ m \in Nat /\ r \in 1..(m + 1) /\ clause \in Nat \ {0} /\ policy \in Sources
      /\ stage \in {"clause", "assertion"} => r <= m
      /\ stage = "clause" => clause <= c + 1
      /\ stage = "assertion" => clause <= c
  BY SourceIs DEF Placed
<1>2. /\ l \in Nat /\ b \in [0..m -> Nat] /\ l = b[m]
      /\ \A s \in 1..m : b[s] = b[s - 1] + Len(policy.requirements[s].clauses)
  BY <1>1, PiecesAre
<1>3. r \in 1..m => c \in Nat BY <1>1, SourceIs DEF Requirement
<1>4. \A s \in 0..m : b[s] <= l
  <2>1. Offsets(Pieces(policy), b)
    <3>1. Pieces(policy) \in Seq(Seq(ClauseSource)) BY <1>1, PiecesAre
    <3>2. \E x : Offsets(Pieces(policy), x) BY <3>1, OffsetsExist
    <3> QED BY <3>2 DEF Base
  <2>2. Len(Pieces(policy)) = m /\ Pieces(policy) \in Seq(Seq(ClauseSource)) BY <1>1, PiecesAre
  <2> HIDE DEF m, b
  <2>3. m \in 0..m BY <1>1
  <2>4. \A s \in 0..m : b[s] <= b[m] BY <2>1, <2>2, <2>3, OffsetsGrow
  <2> QED BY <1>2, <2>4
<1>5. ASSUME stage \in {"clause", "assertion"}
      PROVE  /\ r \in 1..m /\ c \in Nat /\ b[r - 1] \in Nat /\ b[r - 1] + c <= l
             /\ Passed = b[r - 1] + (clause - 1)
  <2> HIDE DEF m, b, l
  <2>1. r \in 1..m BY <1>1, <1>5
  <2>2. c \in Nat BY <1>3, <2>1
  <2>3. r \in 0..m /\ r - 1 \in 0..m BY <1>1, <2>1
  <2>4. b[r] = b[r - 1] + c /\ b[r] <= l /\ b[r - 1] \in Nat BY <1>2, <1>4, <2>1, <2>3 DEF Requirement
  <2>5. Passed = b[r - 1] + (clause - 1) BY <1>5 DEF Passed, b
  <2> QED BY <2>1, <2>2, <2>4, <2>5
<1>6. Passed \in 0..l
  <2> HIDE DEF m, b, l, c
  <2>1. CASE stage \in {"clause", "assertion"}
    <3>1. clause - 1 \in Nat /\ clause - 1 <= c BY <1>1, <1>5, <2>1
    <3> DEFINE x == b[r - 1]
    <3>2. x \in Nat /\ x + c <= l /\ Passed = x + (clause - 1) /\ c \in Nat BY <1>5, <2>1
    <3> HIDE DEF x
    <3> QED BY ONLY <1>2, <3>1, <3>2
  <2>2. CASE stage \notin {"clause", "assertion"}
    <3>1. r - 1 \in 0..m BY <1>1
    <3>2. b[r - 1] \in Nat /\ b[r - 1] <= l BY <1>2, <1>4, <3>1
    <3>3. Passed = b[r - 1] + 0 BY <2>2 DEF Passed, b
    <3> QED BY <1>2, <3>2, <3>3
  <2> QED BY <2>1, <2>2
<1>7. ASSUME stage = "assertion"
      PROVE  /\ Passed + 1 \in 1..l /\ SourceClauses(policy)[Passed + 1] = Clause
             /\ Clause \in ClauseSource /\ r \in 1..m /\ clause \in 1..c
             /\ Clause.id # NoSymbol /\ ValidResolution(Clause)
  <2>1. r \in 1..m /\ c \in Nat /\ b[r - 1] \in Nat /\ Passed = b[r - 1] + (clause - 1)
    BY <1>5, <1>7
  <2>2. clause \in 1..c
    <3> HIDE DEF c, m
    <3> QED BY <1>1, <1>7, <2>1
  <2>3. Passed + 1 = b[r - 1] + clause
    <3> HIDE DEF b
    <3> QED BY <2>1, <2>2
  <2>4. /\ b[r - 1] + clause \in 1..l /\ SourceClauses(policy)[b[r - 1] + clause] = Clause
        /\ Clause \in ClauseSource
    BY <1>1, <2>1, <2>2, PiecesAre, SourceIs DEF Requirement, Clause
  <2>5. Admitted(policy) BY <1>7 DEF Placed
  <2>6. Clause.id # NoSymbol /\ ValidResolution(Clause)
    BY <1>1, <2>1, <2>2, <2>5, AdmittedIs DEF Requirement, Clause
  <2> HIDE DEF b, l, c, m
  <2> QED BY <2>1, <2>2, <2>3, <2>4, <2>6
<1> QED BY <1>6, <1>7

LEMMA RequirementIs ==
  ASSUME Placed, stage \in {"requirement", "applicability", "clause", "assertion"},
         requirement <= Len(policy.requirements)
  PROVE  /\ requirement \in 1..Len(policy.requirements) /\ Requirement \in AskSource
         /\ Requirement.id \in Texts /\ Requirement.id # NoSymbol
         /\ Requirement.clauses \in Seq(ClauseSource) /\ Len(Requirement.clauses) \in Nat
         /\ Len(Requirement.clauses) # 0
PROOF
<1> DEFINE m == Len(policy.requirements)
<1>1. requirement \in 1..m
  <2>1. m \in Nat /\ requirement \in 1..(m + 1) /\ requirement <= m BY SourceIs DEF Placed
  <2> HIDE DEF m
  <2> QED BY ONLY <2>1
<1>2. policy \in Sources /\ Admitted(policy) BY DEF Placed
<1> QED BY <1>1, <1>2, SourceIs, AdmittedIs DEF Requirement

\* What the steps of the loops do to the program.
LEMMA BeginRequirementIs ==
  ASSUME Placed, Sound(prog), BeginRequirement
  PROVE  /\ Sound(prog') /\ Grown(prog, prog') /\ SameRows(prog, prog')
         /\ prog'.kinds = prog.kinds /\ prog'.explanations = prog.explanations
         /\ Known(prog', Requirement.id)
PROOF
<1>1. prog' = Intern(prog, Requirement.id) /\ Requirement.id \in Texts
  BY RequirementIs DEF BeginRequirement
<1>2. prog \in Programs /\ Catalogued(prog) BY DEF Sound
<1>3. /\ Wider(prog, prog') /\ Known(prog', Requirement.id)
      /\ prog'.kinds = prog.kinds /\ prog'.explanations = prog.explanations
  BY <1>1, <1>2, InternIs
<1>4. Sound(prog') /\ Grown(prog, prog') BY <1>2, <1>3, SoundWider, WiderGrown
<1> QED BY <1>3, <1>4 DEF Wider

\* The clauses of a policy are too few for their count to wrap.
LEMMA ClausesCounted ==
  ASSUME Placed, Admitted(policy), NEW k \in 0..Len(SourceClauses(policy))
  PROVE  Count(k) = k /\ k < CountLimit
PROOF
<1>1. /\ Len(SourceClauses(policy)) <= Len(policy.nodes) /\ Len(SourceClauses(policy)) \in Nat
      /\ Len(policy.nodes) <= MaxNodes /\ Len(policy.nodes) \in Nat
  BY NodesBound, PiecesAre, AdmittedIs, SourceIs DEF Placed
<1>2. MaxNodes \in Nat /\ CountLimit \in Nat /\ MaxNodes < CountLimit BY CompilerAssumption
<1> DEFINE l == Len(SourceClauses(policy))
           m == Len(policy.nodes)
<1>3. k \in 0..l BY DEF l
<1>4. l \in Nat /\ m \in Nat /\ l <= m /\ m <= MaxNodes BY <1>1
<1> HIDE DEF l, m
<1>5. k \in Nat /\ k < CountLimit BY ONLY <1>2, <1>3, <1>4
<1> QED BY <1>5, CountIs

LEMMA EndApplicabilityIs ==
  ASSUME Placed, Path, Owned, Sound(prog), Tallied, Named, EndApplicability
  PROVE  LET n == Len(prog.requirements) + 1
             a == prog'.requirements[n] IN
         /\ Sound(prog') /\ Grown(prog, prog') /\ SameContent(prog, prog')
         /\ prog'.clauseIDs = prog.clauseIDs /\ Len(prog'.requirements) = n
         /\ a.symbol \in 1..Len(prog'.symbols) /\ Text(prog', a.symbol) = Requirement.id
         /\ a.root = emitted[Requirement.applicability] /\ a.root # 0
         /\ a.clauseStart = Passed /\ a.clauseCount = Len(Requirement.clauses)
PROOF
<1> DEFINE s == Symbol(prog, Requirement.id)
           k == Len(prog.clauseIDs)
           l == Len(Requirement.clauses)
           row == [symbol |-> s, root |-> root, clauseStart |-> k, clauseCount |-> Count(l)]
<1>1. /\ prog' = Asking(prog, Append(prog.requirements, row)) /\ stack = <<>>
      /\ stage = "applicability"
  BY DEF EndApplicability, Asking
<1>2. prog \in Programs /\ Catalogued(prog) BY DEF Sound
<1>3. /\ requirement \in 1..Len(policy.requirements) /\ Requirement.id # NoSymbol /\ l \in Nat
      /\ Requirement \in AskSource
  <2>1. requirement <= Len(policy.requirements) BY <1>1 DEF Placed
  <2> QED BY <1>1, <2>1, RequirementIs
<1>4. s \in 1..Len(prog.symbols) /\ s \in Nat /\ Text(prog, s) = Requirement.id
  BY <1>1, <1>2, <1>3, SymbolIs DEF Named
<1>5. k = Passed /\ k \in Nat BY <1>1, <1>2, Lengths DEF Tallied
<1>6. Count(l) = l
  <2>1. l \in 0..Len(SourceClauses(policy))
    <3> DEFINE b == Base(policy)
               r == requirement
               m == Len(policy.requirements)
               c == Len(SourceClauses(policy))
    <3>1. /\ b \in [0..m -> Nat] /\ b[r] = b[r - 1] + l /\ m \in Nat /\ c \in Nat /\ r \in 1..m
      BY <1>3, PiecesAre, SourceIs DEF Placed, Requirement
    <3>2. l # 0 BY <1>1, <1>3, RequirementIs DEF Placed
    <3>3. l \in 1..l BY <1>3, <3>2
    <3>4. b[r - 1] + l \in 1..c BY <1>3, <3>3, PiecesAre DEF Placed, Requirement
    <3>5. r - 1 \in 0..m BY <3>1
    <3> HIDE DEF b, r, m, c, l
    <3>6. b[r - 1] \in Nat BY <3>1, <3>5
    <3> DEFINE x == b[r - 1]
    <3>7. x \in Nat /\ x + l \in 1..c /\ l \in Nat /\ c \in Nat BY <1>3, <3>1, <3>4, <3>6
    <3> HIDE DEF x
    <3>8. l \in 0..c BY ONLY <3>7
    <3> QED BY <3>8 DEF l, c
  <2> HIDE DEF l
  <2> QED BY <1>1, <2>1, ClausesCounted DEF Placed
<1>7. root = emitted[Requirement.applicability] /\ root # 0 /\ root \in Nat
  <2>1. Current(requirement, 0) /\ 0 \in 0..l BY <1>1, <1>3 DEF Current, Now
  <2>2. RootAt(policy, requirement, 0) = Requirement.applicability BY DEF RootAt, Requirement
  <2>3. root \in 0..Len(prog.code) BY DEF Path
  <2>4. root \in Nat BY <1>2, <2>3, Lengths
  <2> QED BY <1>1, <1>3, <2>1, <2>2, <2>4 DEF Owned, Requirement
<1>8. row \in Asks BY <1>3, <1>4, <1>5, <1>6, <1>7 DEF Asks
<1> DEFINE c == Append(prog.requirements, row)
           n == Len(prog.requirements) + 1
<1>9. /\ row.symbol = s /\ row.root = root /\ row.clauseStart = Passed /\ row.clauseCount = l
  BY <1>5, <1>6
<1> HIDE DEF row, s, l, k
<1>10. /\ c \in Seq(Asks) /\ Len(c) = n /\ Prefix(prog.requirements, c) /\ c[n] = row
  BY <1>2, <1>8, Columns, AppendIs
<1> HIDE DEF c
<1>11. /\ prog' \in Programs /\ prog'.requirements = c /\ prog'.clauseIDs = prog.clauseIDs
       /\ SameContent(prog, prog')
  BY <1>1, <1>2, <1>10, NewAsk DEF c
<1>12. Prefix(prog.clauseIDs, prog'.clauseIDs) BY <1>2, <1>11, Columns, SeqShape
<1>13. Sound(prog') /\ Grown(prog, prog') BY <1>10, <1>11, <1>12, ContentKept
<1>14. row.symbol \in 1..Len(prog'.symbols) /\ Text(prog', row.symbol) = Requirement.id
  BY <1>4, <1>9, <1>11 DEF SameContent, Text
<1> QED BY <1>7, <1>9, <1>10, <1>11, <1>13, <1>14 DEF l

LEMMA BeginClauseIs ==
  ASSUME Placed, Sound(prog), Tallied, BeginClause
  PROVE  LET n == Len(prog.clauseIDs) + 1 IN
         /\ Sound(prog') /\ Grown(prog, prog')
         /\ prog'.kinds = prog.kinds /\ prog'.explanations = prog.explanations
         /\ prog'.specs = prog.specs /\ prog'.code = prog.code
         /\ prog'.requirements = prog.requirements /\ prog'.clauses = prog.clauses
         /\ prog'.remediations = prog.remediations
         /\ Len(prog'.clauseIDs) = n /\ prog'.clauseIDs[n] = n
         /\ \A k \in 1..Len(prog.clauseIDs) : prog'.clauseIDs[k] = prog.clauseIDs[k]
         /\ Known(prog', Clause.id)
PROOF
<1> DEFINE n == Len(prog.clauseIDs) + 1
           c == Append(prog.clauseIDs, n)
           t == Tagging(prog, c)
<1>1. /\ stage = "clause" /\ clause <= Len(Requirement.clauses)
      /\ prog' = Intern([prog EXCEPT !.clauseIDs = Append(@, Count(Len(prog.clauses) + 1))], Clause.id)
  BY DEF BeginClause
<1>2. prog \in Programs /\ Catalogued(prog) /\ prog.clauseIDs \in Seq(Nat) BY Columns DEF Sound
<1>3. Len(prog.clauses) = Passed /\ Len(prog.clauseIDs) = Passed BY <1>1 DEF Tallied
<1>4. Passed + 1 \in 0..Len(SourceClauses(policy)) /\ Clause.id \in Texts
  <2> DEFINE l == Len(Requirement.clauses)
             b == Base(policy)[requirement - 1]
             m == Len(SourceClauses(policy))
  <2>1. /\ requirement \in 1..Len(policy.requirements) /\ l \in Nat /\ policy \in Sources
    <3>1. requirement <= Len(policy.requirements) BY <1>1 DEF Placed
    <3> QED BY <1>1, <3>1, RequirementIs DEF Placed
  <2>2. clause \in 1..l
    <3>1. clause \in Nat /\ clause # 0 /\ clause <= l BY <1>1 DEF Placed
    <3> HIDE DEF l
    <3> QED BY <2>1, <3>1
  <2>3. b + clause \in 1..m /\ Clause.id \in Texts
    <3>1. b + clause \in 1..m BY <2>1, <2>2, PiecesAre DEF Requirement
    <3>2. Clause \in ClauseSource BY <2>1, <2>2, SourceIs DEF Requirement, Clause
    <3> QED BY <3>1, <3>2 DEF ClauseSource
  <2>4. Passed = b + (clause - 1) BY <1>1 DEF Passed
  <2>5. m \in Nat /\ Passed \in Nat
    <3>1. m \in Nat /\ Passed \in 0..m BY <2>1, PiecesAre, PassedIs
    <3> HIDE DEF m
    <3> QED BY <3>1
  <2>6. b \in Nat
    <3>1. Base(policy) \in [0..Len(policy.requirements) -> Nat] BY <2>1, PiecesAre
    <3>2. requirement - 1 \in 0..Len(policy.requirements)
      <4> DEFINE x == Len(policy.requirements)
      <4>1. x \in Nat /\ requirement \in 1..x BY <2>1, SourceIs
      <4> HIDE DEF x
      <4> QED BY ONLY <4>1 DEF x
    <3> QED BY <3>1, <3>2
  <2> HIDE DEF b, m, l
  <2>7. clause \in Nat BY DEF Placed
  <2>8. Passed + 1 \in 0..m BY ONLY <2>3, <2>4, <2>5, <2>6, <2>7
  <2> QED BY <2>3, <2>8 DEF m
<1>5. Count(Len(prog.clauses) + 1) = n BY <1>1, <1>3, <1>4, ClausesCounted DEF Placed
<1>6. n \in Nat BY <1>2, Lengths
<1>7. prog' = Intern(t, Clause.id) BY <1>1, <1>5 DEF Tagging
<1> HIDE DEF n, t
<1>8. /\ c \in Seq(Nat) /\ Len(c) = n /\ Prefix(prog.clauseIDs, c) /\ c[n] = n
      /\ \A k \in 1..Len(prog.clauseIDs) : c[k] = prog.clauseIDs[k]
  BY <1>2, <1>6, AppendIs DEF n
<1> HIDE DEF c
<1>9. t \in Programs /\ t.clauseIDs = c /\ t.requirements = prog.requirements /\ SameContent(prog, t)
  BY <1>2, <1>8, NewTag DEF t
<1>10. Prefix(prog.requirements, t.requirements) BY <1>2, <1>9, Columns, SeqShape
<1>11. Sound(t) /\ Grown(prog, t) BY <1>8, <1>9, <1>10, ContentKept
<1>12. Catalogued(t) BY <1>11 DEF Sound
<1>13. /\ Wider(t, prog') /\ Known(prog', Clause.id)
       /\ prog'.kinds = t.kinds /\ prog'.explanations = t.explanations
  BY <1>4, <1>7, <1>9, <1>12, InternIs
<1>14. Sound(prog') /\ Grown(t, prog') BY <1>9, <1>11, <1>13, SoundWider, WiderGrown
<1>15. Grown(prog, prog')
  <2>1. prog' \in Programs BY <1>14 DEF Sound
  <2> QED BY <1>2, <1>9, <1>11, <1>14, <2>1, GrownTrans
<1>16. /\ prog'.kinds = prog.kinds /\ prog'.explanations = prog.explanations
       /\ prog'.specs = prog.specs /\ prog'.code = prog.code
       /\ prog'.requirements = prog.requirements /\ prog'.clauses = prog.clauses
       /\ prog'.remediations = prog.remediations /\ prog'.clauseIDs = c
  BY <1>9, <1>13 DEF Wider, SameRows, SameContent
<1> QED BY <1>8, <1>13, <1>14, <1>15, <1>16 DEF n

LEMMA EndClauseIs ==
  ASSUME Placed, Path, Owned, Sound(prog), Tallied, Named, Noted, EndClause
  PROVE  LET n == Passed + 1 IN
         /\ Sound(prog') /\ Grown(prog, prog') /\ SameInstructions(prog, prog')
         /\ Len(prog'.clauses) = n
         /\ Len(prog'.explanations) <= CostUpTo(SourceClauses(policy))[n]
         /\ Len(prog'.remediations) <= CostUpTo(SourceClauses(policy))[n]
         /\ emitted[Clause.assertion] # 0
         /\ ClauseMeaning(prog', prog'.clauses[n]) = [Clause EXCEPT !.assertion = emitted[@]]
         /\ KindsOf(prog', prog'.clauses[n]) = KindTexts(prog, clauseKinds)
PROOF
<1> DEFINE n == Passed + 1
           cost == CostUpTo(SourceClauses(policy))
           last == Len(SourceClauses(policy))
<1>1. /\ stage = "assertion" /\ stack = <<>> /\ prog' = WithClause(prog, Clause, root, clauseKinds)
  BY DEF EndClause
<1>2. /\ Clause \in ClauseSource /\ ValidResolution(Clause) /\ Clause.id # NoSymbol
      /\ n \in 1..last /\ SourceClauses(policy)[n] = Clause
      /\ requirement \in 1..Len(policy.requirements) /\ clause \in 1..Len(Requirement.clauses)
  BY <1>1, PassedIs
<1>3. Known(prog, Clause.id) BY <1>1 DEF Named
<1>4. root = emitted[Clause.assertion] /\ root # 0 /\ root \in 1..Len(prog.code)
  <2>1. Current(requirement, clause) BY <1>1 DEF Current, Now
  <2>2. clause # 0 /\ clause \in 0..Len(Requirement.clauses) BY <1>2
  <2>3. RootAt(policy, requirement, clause) = Clause.assertion
    BY <2>2 DEF RootAt, Requirement, Clause
  <2>4. root = emitted[Clause.assertion] /\ root # 0
    BY <1>1, <1>2, <2>1, <2>2, <2>3 DEF Owned, Requirement
  <2>5. root \in 0..Len(prog.code) BY DEF Path
  <2>6. Len(prog.code) \in Nat BY Lengths DEF Sound
  <2> QED BY <2>4, <2>5, <2>6
<1>5. /\ cost[n] = cost[n - 1] + Cost(Clause) /\ cost[n - 1] \in Nat /\ cost[n] <= cost[last]
      /\ cost[last] <= MaxPolicyBytes /\ n - 1 = Passed /\ Cost(Clause) \in Nat
      /\ cost[last] \in Nat
  <2>1. SourceClauses(policy) \in Seq(ClauseSource) /\ last \in Nat BY PiecesAre DEF Placed
  <2>2. Passed \in 0..last BY PassedIs
  <2> HIDE DEF last
  <2>3. Passed \in Nat BY <2>1, <2>2
  <2>4. n - 1 = Passed /\ n - 1 \in 0..last /\ n \in 0..last /\ last \in 0..last
    BY <1>2, <2>1, <2>2, <2>3
  <2>5. Admitted(policy) BY <1>1 DEF Placed
  <2>6. cost[last] <= MaxPolicyBytes BY <2>5, AdmittedIs DEF Placed, last
  <2> HIDE DEF n
  <2>7. cost[n] = cost[n - 1] + Cost(SourceClauses(policy)[n]) BY <1>2, <2>1, CostUpToIs DEF last
  <2>8. cost[n - 1] \in Nat /\ cost[n] <= cost[last] /\ cost[last] \in Nat
    BY <2>1, <2>4, CostUpToIs DEF last
  <2> QED BY <1>2, <2>4, <2>6, <2>7, <2>8, CostIs DEF n
<1>6. Len(prog.explanations) <= cost[n - 1] /\ Len(prog.remediations) <= cost[n - 1]
      /\ Len(prog.clauses) = Passed /\ Len(prog.explanations) \in Nat /\ Len(prog.remediations) \in Nat
  BY <1>5, Lengths DEF Tallied, Sound
<1> DEFINE a == cost[n - 1]
           b == cost[n]
           e == Len(prog.explanations)
           d == Len(prog.remediations)
           w == Cost(Clause)
           z == cost[last]
<1>7. MaxPolicyBytes \in Nat BY CompilerAssumption
<1> HIDE DEF a, b, e, d, w, z, cost
<1>8. /\ a \in Nat /\ e \in Nat /\ d \in Nat /\ w \in Nat /\ z \in Nat /\ b = a + w /\ b <= z
      /\ z <= MaxPolicyBytes /\ e <= a /\ d <= a
  BY <1>5, <1>6 DEF a, b, e, d, w, z
<1>9. e + w <= b /\ d + w <= b /\ e + w <= MaxPolicyBytes /\ d + w <= MaxPolicyBytes
  BY ONLY <1>7, <1>8
<1> DEFINE r == WithClause(prog, Clause, root, clauseKinds)
           i == Len(prog.clauses) + 1
<1> HIDE DEF r, i
<1>10. /\ Sound(r) /\ Grown(prog, r) /\ SameInstructions(prog, r) /\ Len(r.clauses) = i
       /\ Len(r.explanations) <= e + w /\ Len(r.remediations) <= d + w
       /\ ClauseMeaning(r, r.clauses[i]) = [Clause EXCEPT !.assertion = root]
       /\ KindsOf(r, r.clauses[i]) = KindTexts(prog, clauseKinds)
  <2>1. Len(prog.explanations) + Cost(Clause) <= MaxPolicyBytes
          /\ Len(prog.remediations) + Cost(Clause) <= MaxPolicyBytes
    BY <1>9 DEF e, d, w
  <2> DEFINE p == prog
             c == Clause
             x == root
             ks == clauseKinds
             t == WithClause(p, c, x, ks)
             u == Len(p.clauses) + 1
  <2>2. /\ Sound(p) /\ c \in ClauseSource /\ ValidResolution(c) /\ Known(p, c.id) /\ c.id # NoSymbol
        /\ x \in 1..Len(p.code) /\ ks \in Seq(Nat) /\ IsInjective(ks)
        /\ \A j \in 1..Len(ks) : ks[j] \in 1..Len(p.kinds)
        /\ Len(p.explanations) + Cost(c) <= MaxPolicyBytes
        /\ Len(p.remediations) + Cost(c) <= MaxPolicyBytes
    BY <1>2, <1>3, <1>4, <2>1 DEF Noted
  <2> HIDE DEF p, c, x, ks
  <2>3. /\ Sound(t) /\ Grown(p, t) /\ SameInstructions(p, t) /\ Len(t.clauses) = u
        /\ Len(t.explanations) <= Len(p.explanations) + Cost(c)
        /\ Len(t.remediations) <= Len(p.remediations) + Cost(c)
        /\ ClauseMeaning(t, t.clauses[u]) = [c EXCEPT !.assertion = x]
        /\ KindsOf(t, t.clauses[u]) = KindTexts(p, ks)
    BY ONLY <2>2, WithClauseIs
  <2>4. t = r /\ u = i /\ Len(p.explanations) = e /\ Len(p.remediations) = d /\ Cost(c) = w
        /\ p = prog
    BY DEF p, c, x, ks, r, i, e, d, w
  <2> HIDE DEF t, u
  <2> QED BY <2>3, <2>4 DEF c, x, ks
<1>11. Len(r.explanations) <= b /\ Len(r.remediations) <= b
  <2>1. Len(r.explanations) \in Nat /\ Len(r.remediations) \in Nat BY <1>10, Lengths DEF Sound
  <2> DEFINE x == Len(r.explanations)
             y == Len(r.remediations)
  <2>2. x \in Nat /\ y \in Nat /\ x <= e + w /\ y <= d + w BY <1>10, <2>1
  <2> HIDE DEF x, y
  <2>3. x <= b /\ y <= b BY ONLY <1>8, <1>9, <2>2
  <2> QED BY <2>3 DEF x, y
<1>12. i = n /\ prog' = r BY <1>1, <1>6 DEF i, r
<1> HIDE DEF n
<1> QED BY <1>4, <1>10, <1>11, <1>12 DEF b, cost, n

-----------------------------------------------------------------------------
(* What is compiled stays as it is, whatever is compiled after it.         *)

\* From program q with instructions e to program t with instructions f.
Onward(p, q, e, t, f) ==
  /\ p \in Sources /\ Sound(q) /\ t \in Programs /\ Grown(q, t) /\ Shut(p, e)
  /\ \A n \in Nodes(p) : e[n] # 0 => f[n] = e[n]

\* A requirement's row, a clause's, and an instruction.
AskRow(p, q, e, r) ==
  LET a == q.requirements[r]
      s == p.requirements[r]
  IN  /\ a.symbol \in 1..Len(q.symbols) /\ Text(q, a.symbol) = s.id
      /\ a.root = e[s.applicability] /\ a.root # 0
      /\ a.clauseStart = Base(p)[r - 1] /\ a.clauseCount = Len(s.clauses)

\* The evidence nodes of an expression, and their kinds.
TreeEvidence(p, n) == {m \in Nodes(p) : RootOf(p)[m] = n /\ p.nodes[m].op = "evidence_matches"}
KindAt(p, n) == p.nodes[n].evidence.kind

\* The kinds ks are those of the tree's evidence compiled so far, in the order
\* of their first instructions.
Lists(p, e, ks, n) ==
  /\ \A m \in TreeEvidence(p, n) : e[m] # 0 => \E j \in 1..Len(ks) : ks[j] = KindAt(p, m)
  /\ \A j \in 1..Len(ks) : \E m \in TreeEvidence(p, n) : e[m] # 0 /\ KindAt(p, m) = ks[j]
  /\ \A j \in 1..Len(ks) : \A i \in 1..(j - 1) : \A m \in TreeEvidence(p, n) :
       e[m] # 0 /\ KindAt(p, m) = ks[j] =>
         \E l \in TreeEvidence(p, n) : e[l] # 0 /\ KindAt(p, l) = ks[i] /\ e[l] < e[m]

\* A clause of the document with its assertion's instruction, and a node with
\* its children's.
Placing(c, e) == [c EXCEPT !.assertion = e[@]]
Linking(node, e) == [node EXCEPT !.children = [k \in DOMAIN @ |-> e[@[k]]]]

\* The row of a clause says what the clause does; that of a small node what the node does.
ClauseRow(p, q, e, k) ==
  LET s == SourceClauses(p)[k]
  IN  /\ e[s.assertion] # 0 /\ ClauseMeaning(q, q.clauses[k]) = Placing(s, e)
      /\ Lists(p, e, KindsOf(q, q.clauses[k]), s.assertion)

CodeRow(p, q, e, n) ==
  Small(p.nodes[n]) =>
    ValidInstruction(q, e[n]) /\ Meaning(q, e[n]) = Linking(p.nodes[n], e)

LEMMA AskRowKept ==
  ASSUME NEW p, NEW q, NEW e, NEW t, NEW f, Onward(p, q, e, t, f),
         NEW r \in 1..Len(p.requirements), r \in 1..Len(q.requirements), AskRow(p, q, e, r)
  PROVE  AskRow(p, t, f, r)
PROOF
<1> DEFINE a == q.requirements[r]
           n == p.requirements[r].applicability
<1>1. /\ p \in Sources /\ q \in Programs /\ t \in Programs /\ Prefix(q.symbols, t.symbols)
      /\ Prefix(q.requirements, t.requirements)
  BY GrownIs DEF Onward, Sound
<1>2. t.requirements[r] = a BY <1>1 DEF Prefix
<1>3. a.symbol \in 1..Len(q.symbols) BY DEF AskRow
<1>4. a.symbol \in 1..Len(t.symbols) /\ Text(t, a.symbol) = Text(q, a.symbol)
  <2> DEFINE s == a.symbol
  <2>1. s \in 1..Len(q.symbols) /\ Len(q.symbols) \in Nat /\ Len(t.symbols) \in Nat
    BY <1>1, <1>3, Lengths
  <2> HIDE DEF s
  <2>2. s \in 0..Len(q.symbols) /\ s # 0 BY <2>1
  <2>3. Text(t, s) = Text(q, s) /\ s \in 0..Len(t.symbols) BY <1>1, <2>2, TextKept
  <2>4. s \in 1..Len(t.symbols) BY <2>1, <2>2, <2>3
  <2> QED BY <2>3, <2>4 DEF s
<1>5. f[n] = e[n]
  <2>1. Len(p.requirements[r].clauses) \in Nat BY <1>1, SourceIs
  <2>2. RootAt(p, r, 0) = n /\ 0 \in 0..Len(p.requirements[r].clauses) BY <2>1 DEF RootAt
  <2>3. \A k \in 0..Len(p.requirements[r].clauses) : RootAt(p, r, k) \in Nodes(p)
    BY <1>1, TreeIs
  <2>4. n \in Nodes(p) BY <2>2, <2>3
  <2> QED BY <2>4 DEF AskRow, Onward
<1> HIDE DEF a, n
<1> QED BY <1>2, <1>4, <1>5 DEF AskRow, a, n

\* The list is right for every later program.
LEMMA ListsKept ==
  ASSUME NEW p, NEW e, NEW f, NEW ks, NEW n, Lists(p, e, ks, n),
         \A m \in TreeEvidence(p, n) : f[m] = e[m]
  PROVE  Lists(p, f, ks, n)
PROOF
<1> DEFINE E == TreeEvidence(p, n)
<1>1. \A m \in E : f[m] = e[m] OBVIOUS
<1>2. /\ \A m \in E : e[m] # 0 => \E j \in 1..Len(ks) : ks[j] = KindAt(p, m)
      /\ \A j \in 1..Len(ks) : \E m \in E : e[m] # 0 /\ KindAt(p, m) = ks[j]
      /\ \A j \in 1..Len(ks) : \A i \in 1..(j - 1) : \A m \in E :
           e[m] # 0 /\ KindAt(p, m) = ks[j] =>
             \E l \in E : e[l] # 0 /\ KindAt(p, l) = ks[i] /\ e[l] < e[m]
  BY DEF Lists
<1> HIDE DEF E
<1>3. \A m \in E : f[m] # 0 => \E j \in 1..Len(ks) : ks[j] = KindAt(p, m) BY <1>1, <1>2
<1>4. \A j \in 1..Len(ks) : \E m \in E : f[m] # 0 /\ KindAt(p, m) = ks[j] BY <1>1, <1>2
<1>5. ASSUME NEW j \in 1..Len(ks), NEW i \in 1..(j - 1), NEW m \in E, f[m] # 0, KindAt(p, m) = ks[j]
      PROVE  \E l \in E : f[l] # 0 /\ KindAt(p, l) = ks[i] /\ f[l] < f[m]
  <2>1. e[m] # 0 BY <1>1, <1>5
  <2>2. PICK l \in E : e[l] # 0 /\ KindAt(p, l) = ks[i] /\ e[l] < e[m] BY <1>2, <1>5, <2>1
  <2>3. f[l] = e[l] /\ f[m] = e[m] BY <1>1
  <2> QED BY <2>2, <2>3
<1> QED BY <1>3, <1>4, <1>5 DEF Lists, E

LEMMA ClauseNode ==
  ASSUME NEW p \in Sources, NEW k \in 1..Len(SourceClauses(p))
  PROVE  /\ SourceClauses(p)[k] \in ClauseSource
         /\ SourceClauses(p)[k].assertion \in Nodes(p)
         /\ RootOf(p)[SourceClauses(p)[k].assertion] = SourceClauses(p)[k].assertion
PROOF
<1> DEFINE n == SourceClauses(p)[k].assertion
<1>1. SourceClauses(p) \in Seq(ClauseSource) BY PiecesAre
<1>2. SourceClauses(p)[k] \in ClauseSource BY <1>1, SeqShape
<1>3. PICK r \in 1..Len(p.requirements) :
        \E j \in 1..Len(p.requirements[r].clauses) : k = Base(p)[r - 1] + j
  BY PiecesAre
<1>4. PICK j \in 1..Len(p.requirements[r].clauses) : k = Base(p)[r - 1] + j BY <1>3
<1>5. j \in 0..Len(p.requirements[r].clauses) /\ j # 0 BY SourceIs
<1>6. n = RootAt(p, r, j) BY <1>4, <1>5, PiecesAre DEF RootAt
<1>7. RootAt(p, r, j) \in Nodes(p) /\ RootAt(p, r, j) \in Roots(p) BY <1>5, TreeIs
<1> HIDE DEF n
<1>8. RootOf(p)[n] = n BY <1>6, <1>7, RootOfIs
<1> QED BY <1>2, <1>6, <1>7, <1>8 DEF n

\* A clause's row stays right while the program grows,
LEMMA ClauseRowKept ==
  ASSUME NEW p, NEW q, NEW e, NEW t, NEW f, Onward(p, q, e, t, f),
         NEW k \in 1..Len(q.clauses), k \in 1..Len(SourceClauses(p)), ClauseRow(p, q, e, k)
  PROVE  ClauseRow(p, t, f, k)
PROOF
<1> DEFINE s == SourceClauses(p)[k]
           n == s.assertion
<1>1. p \in Sources /\ Sound(q) /\ t \in Programs /\ Grown(q, t) /\ Shut(p, e) BY DEF Onward
<1>2. s \in ClauseSource /\ n \in Nodes(p) BY <1>1, ClauseNode
<1>3. /\ ClauseMeaning(t, t.clauses[k]) = ClauseMeaning(q, q.clauses[k])
      /\ KindsOf(t, t.clauses[k]) = KindsOf(q, q.clauses[k])
  BY <1>1, ClauseKept
<1>4. e[n] # 0 BY DEF ClauseRow
<1>5. f[n] = e[n] BY <1>2, <1>4 DEF Onward
<1>6. Placing(s, f) = Placing(s, e) BY <1>5 DEF Placing
<1>7. \A m \in TreeEvidence(p, n) : f[m] = e[m]
  <2> HIDE DEF n
  <2>1. ASSUME NEW m \in TreeEvidence(p, n) PROVE f[m] = e[m]
    <3>1. m \in Nodes(p) /\ RootOf(p)[m] = n BY DEF TreeEvidence
    <3>2. e[m] # 0 BY <1>1, <1>4, <3>1, ShutTree
    <3> QED BY <3>1, <3>2 DEF Onward
  <2> QED BY <2>1
<1>8. Lists(p, e, KindsOf(q, q.clauses[k]), n) BY DEF ClauseRow
<1> DEFINE ks == KindsOf(q, q.clauses[k])
<1> HIDE DEF n, ks
<1>9. Lists(p, f, ks, n) BY <1>7, <1>8, ListsKept DEF ks
<1> HIDE DEF s
<1>10. ClauseMeaning(q, q.clauses[k]) = Placing(s, e) BY DEF ClauseRow, s
<1> QED BY <1>3, <1>4, <1>5, <1>6, <1>9, <1>10 DEF ClauseRow, s, n, ks

\* and so does an instruction.
LEMMA CodeRowKept ==
  ASSUME NEW p, NEW q, NEW e, NEW t, NEW f, Onward(p, q, e, t, f),
         NEW n \in Nodes(p), e[n] \in 1..Len(q.code), CodeRow(p, q, e, n)
  PROVE  CodeRow(p, t, f, n)
PROOF
<1> DEFINE node == p.nodes[n]
           i == e[n]
<1>1. p \in Sources /\ Sound(q) /\ t \in Programs /\ Grown(q, t) /\ Shut(p, e) BY DEF Onward
<1>2. e[n] # 0 /\ f[n] = i
  <2>1. e[n] # 0 OBVIOUS
  <2> QED BY <2>1 DEF Onward
<1>3. Linking(node, f) = Linking(node, e)
  <2> DEFINE cs == ChildrenOf(p, n)
  <2>1. DOMAIN cs = 1..Len(cs) /\ node.children = cs BY <1>1, SourceIs DEF ChildrenOf
  <2>2. ASSUME NEW k \in DOMAIN cs PROVE f[cs[k]] = e[cs[k]]
    <3>1. k \in 1..Len(cs) BY <2>1
    <3>2. cs[k] \in Nodes(p) /\ e[cs[k]] # 0 BY <1>1, <1>2, <3>1, TreeIs DEF Shut
    <3> QED BY <3>2 DEF Onward
  <2>3. [k \in DOMAIN cs |-> f[cs[k]]] = [k \in DOMAIN cs |-> e[cs[k]]] BY <2>2
  <2> HIDE DEF cs, node
  <2> QED BY <2>1, <2>3 DEF Linking
<1>4. ASSUME Small(node) PROVE ValidInstruction(t, f[n]) /\ Meaning(t, f[n]) = Linking(node, f)
  <2>1. ValidInstruction(q, i) /\ Meaning(q, i) = Linking(node, e) BY <1>4 DEF CodeRow
  <2> HIDE DEF node, i
  <2>2. ValidInstruction(t, i) /\ Meaning(t, i) = Meaning(q, i)
    BY <1>1, <2>1, InstructionKept DEF i
  <2> QED BY <1>2, <1>3, <2>1, <2>2
<1> QED BY <1>4 DEF CodeRow

-----------------------------------------------------------------------------
(* The inductive invariant.                                                *)

\* Each requirement, clause and node compiled so far has its row.
Rowed ==
  /\ \A r \in 1..Len(prog.requirements) : AskRow(policy, prog, emitted, r)
  /\ \A k \in 1..Len(prog.clauses) : ClauseRow(policy, prog, emitted, k)
  /\ \A n \in Nodes(policy) : emitted[n] # 0 => CodeRow(policy, prog, emitted, n)

\* The kinds noted are those of the assertion's evidence so far.
Listing ==
  stage = "assertion" =>
    Lists(policy, emitted, KindTexts(prog, clauseKinds), Clause.assertion)

\* What Finish has found out.
Judged ==
  /\ stage = "compiled" => ValidProgram(prog)
  /\ stage = "invalid program" => \E n \in Nodes(policy) : ~Small(policy.nodes[n])

\* The invariant: the recursion, the translation so far, the verdict.
Tree == Path /\ Fresh /\ Shut(policy, emitted) /\ Owned /\ Numbered
Translation == Sound(prog) /\ Tallied /\ Named /\ Noted /\ Rowed /\ Listing
CompilerInv == Placed /\ Tree /\ Translation /\ Judged

LEMMA NumberedIdle ==
  ASSUME Numbered, policy' = policy, emitted' = emitted, prog'.code = prog.code,
         prog'.specs = prog.specs
  PROVE  Numbered'
BY DEF Numbered

\* A step between expressions moves on from the current one, if there is one.
LEMMA TreeIdle ==
  ASSUME Placed, Tree, policy' = policy, emitted' = emitted, stack = <<>>, stack' = <<>>,
         root' = root, prog'.code = prog.code, prog'.specs = prog.specs,
         \A r \in 1..Len(policy.requirements) : \A k \in 0..Len(policy.requirements[r].clauses) :
           (Done(r, k)' <=> Done(r, k) \/ Current(r, k)) /\ ~Current(r, k)'
  PROVE  Tree'
PROOF
<1>1. Path' /\ Fresh' /\ Shut(policy', emitted') BY PathIdle DEF Tree
<1>2. Owned' BY OwnedIdle DEF Tree
<1>3. Numbered' BY NumberedIdle DEF Tree
<1> QED BY <1>1, <1>2, <1>3 DEF Tree

LEMMA TreeOpened ==
  ASSUME Placed, Tree, policy' = policy, emitted' = emitted, stack = <<>>,
         root' = 0, prog'.code = prog.code, prog'.specs = prog.specs,
         stage' \in {"applicability", "assertion"}, stage \in {"requirement", "clause"},
         NEW s \in 1..Len(policy.requirements), NEW i \in 0..Len(policy.requirements[s].clauses),
         stack' = <<Frame(RootAt(policy, s, i))>>, ~Done(s, i),
         \A r \in 1..Len(policy.requirements) : \A k \in 0..Len(policy.requirements[r].clauses) :
           (Done(r, k)' <=> Done(r, k)) /\ (Current(r, k)' => r = s /\ k = i)
  PROVE  Tree'
PROOF
<1> DEFINE n == RootAt(policy, s, i)
<1>1. n \in Nodes(policy) /\ n \in Roots(policy) BY TreeIs DEF Placed
<1>2. \A r, k : ~Current(r, k) BY DEF Current
<1>3. emitted[n] = 0 BY <1>2 DEF Tree, Owned
<1> HIDE DEF n
<1>4. stack' = <<Frame(n)>> BY DEF n
<1>5. Path' /\ Fresh' /\ Shut(policy', emitted') BY <1>1, <1>3, <1>4, PathOpened DEF Tree
<1>6. Owned'
  <2>1. ASSUME NEW r \in 1..Len(policy.requirements),
               NEW k \in 0..Len(policy.requirements[r].clauses), Current(r, k)'
        PROVE  n = RootAt(policy, r, k)
    BY <2>1 DEF n
  <2> QED BY <1>2, <1>4, <2>1, OwnedOpened DEF Tree
<1>7. Numbered' BY NumberedIdle DEF Tree
<1> QED BY <1>5, <1>6, <1>7 DEF Tree

LEMMA TreeDeeper ==
  ASSUME Placed, Tree, Descend
  PROVE  Tree'
PROOF
<1>1. policy' = policy /\ prog' = prog /\ emitted' = emitted BY DEF Descend
<1>2. Path' /\ Fresh' /\ Shut(policy', emitted') BY PathDeeper DEF Tree
<1>3. Owned' BY OwnedDeeper DEF Tree
<1>4. Numbered' BY <1>1, NumberedIdle DEF Tree
<1> QED BY <1>2, <1>3, <1>4 DEF Tree

LEMMA TreeReturned ==
  ASSUME Placed, Tree, Sound(prog), Emit
  PROVE  Tree'
PROOF
<1>1. /\ Sound(prog') /\ Len(prog'.code) = Len(prog.code) + 1
      /\ Len(prog'.specs) <= Len(prog.specs) + 1
  BY EmitIs DEF Tree
<1>2. Len(prog.code) \in Nat /\ Len(prog.specs) \in Nat /\ Len(prog'.specs) \in Nat
  BY <1>1, Lengths DEF Sound
<1>3. Path' /\ Fresh' /\ Shut(policy', emitted') BY <1>1, <1>2, PathReturned DEF Tree
<1>4. Owned' BY <1>1, <1>2, OwnedReturned DEF Tree
<1>5. Numbered' BY <1>1, <1>2, NumberedReturned DEF Tree
<1> QED BY <1>3, <1>4, <1>5 DEF Tree

\* A step that is not of an expression leaves the code alone.
LEMMA CodeLeft ==
  ASSUME Placed, Tree, Translation, Compile, ~Emit
  PROVE  /\ prog'.code = prog.code /\ prog'.specs = prog.specs /\ policy' = policy
         /\ emitted' = emitted /\ Sound(prog') /\ Grown(prog, prog')
PROOF
<1>1. Sound(prog) /\ prog \in Programs BY DEF Translation, Sound
<1>2. CASE Decode \/ Validate \/ EndRequirement \/ Descend \/ Finish
  <2>1. prog' = prog /\ policy' = policy /\ emitted' = emitted
    BY <1>2 DEF Decode, Validate, EndRequirement, Descend, Finish, control
  <2> QED BY <1>1, <2>1, GrownSelf
<1>3. CASE BeginRequirement
  <2>1. Sound(prog') /\ Grown(prog, prog') /\ SameRows(prog, prog')
    BY <1>1, <1>3, BeginRequirementIs
  <2> QED BY <1>3, <2>1 DEF SameRows, BeginRequirement
<1>4. CASE EndApplicability
  <2>1. Sound(prog') /\ Grown(prog, prog') /\ SameContent(prog, prog')
    BY <1>1, <1>4, EndApplicabilityIs DEF Tree, Translation
  <2> QED BY <1>4, <2>1 DEF SameContent, EndApplicability
<1>5. CASE BeginClause
  <2>1. Sound(prog') /\ Grown(prog, prog') /\ prog'.code = prog.code /\ prog'.specs = prog.specs
    BY <1>1, <1>5, BeginClauseIs DEF Translation
  <2> QED BY <1>5, <2>1 DEF BeginClause
<1>6. CASE EndClause
  <2>1. Sound(prog') /\ Grown(prog, prog') /\ SameInstructions(prog, prog')
    BY <1>1, <1>6, EndClauseIs DEF Tree, Translation
  <2> QED BY <1>6, <2>1 DEF SameInstructions, EndClause
<1> QED BY <1>2, <1>3, <1>4, <1>5, <1>6 DEF Compile

\* Every step keeps the recursion's part.
LEMMA TreeKept ==
  ASSUME Placed, Tree, Translation, Compile
  PROVE  Tree'
PROOF
<1> DEFINE m == Len(policy.requirements)
           size(r) == Len(policy.requirements[r].clauses)
<1>1. m \in Nat /\ requirement \in 1..(m + 1) /\ clause \in Nat \ {0}
        /\ \A r \in 1..m : size(r) \in Nat
  BY SourceIs DEF Placed
<1>2. stage \notin {"applicability", "assertion"} => stack = <<>> BY DEF Tree, Path
<1> HIDE DEF m, size
<1>3. ~Emit => prog'.code = prog.code /\ prog'.specs = prog.specs /\ policy' = policy
                 /\ emitted' = emitted
  BY CodeLeft
<1>4. CASE Decode \/ Validate \/ Finish
  <2>1. /\ UNCHANGED <<stack, root, requirement, clause>> /\ stack = <<>> /\ ~Emit
        /\ stage \in {"decode", "validate", "requirement"}
        /\ stage' \in {"validate", "refused", "requirement", "compiled", "invalid program"}
    BY <1>2, <1>4 DEF Decode, Validate, Finish, control, Emit, Expressing
  <2>2. \A r, k : (Done(r, k)' <=> Done(r, k)) /\ ~Current(r, k) /\ ~Current(r, k)'
    BY <2>1 DEF Done, Current
  <2> QED BY <1>3, <2>1, <2>2, TreeIdle
<1>5. CASE BeginRequirement
  <2>1. /\ stage = "requirement" /\ stage' = "applicability" /\ stack = <<>> /\ ~Emit
        /\ requirement <= m /\ stack' = <<Frame(Requirement.applicability)>> /\ root' = 0
        /\ UNCHANGED <<requirement, clause>>
    BY <1>2, <1>5 DEF BeginRequirement, Express, Emit, Expressing, m
  <2>2. requirement \in 1..m /\ 0 \in 0..size(requirement) BY <1>1, <2>1
  <2>3. RootAt(policy, requirement, 0) = Requirement.applicability BY DEF RootAt, Requirement
  <2>4. ~Done(requirement, 0) /\ \A r, k : /\ Done(r, k)' <=> Done(r, k)
                                           /\ Current(r, k)' => r = requirement /\ k = 0
    BY <1>1, <2>1 DEF Done, Current, Now
  <2> DEFINE i == 0
             s == requirement
  <2>5. s \in 1..m /\ i \in 0..size(s) /\ ~Done(s, i) /\ stack' = <<Frame(RootAt(policy, s, i))>>
    BY <2>1, <2>2, <2>3, <2>4
  <2>6. \A r, k : (Done(r, k)' <=> Done(r, k)) /\ (Current(r, k)' => r = s /\ k = i)
    BY <2>4
  <2> HIDE DEF i, s
  <2> QED BY <1>3, <2>1, <2>5, <2>6, TreeOpened DEF m, size
<1>6. CASE EndApplicability
  <2>1. /\ stage = "applicability" /\ stage' = "clause" /\ stack = <<>> /\ ~Emit
        /\ UNCHANGED <<stack, root, requirement>> /\ clause' = 1
    BY <1>6 DEF EndApplicability, Emit, Expressing
  <2>2. ASSUME NEW r \in 1..m, NEW k \in 0..size(r)
        PROVE  (Done(r, k)' <=> Done(r, k) \/ Current(r, k)) /\ ~Current(r, k)'
    BY <1>1, <2>1 DEF Done, Current, Now
  <2> QED BY <1>3, <2>1, <2>2, TreeIdle DEF m, size
<1>7. CASE BeginClause
  <2>1. /\ stage = "clause" /\ stage' = "assertion" /\ stack = <<>> /\ ~Emit
        /\ clause <= size(requirement) /\ requirement <= m
        /\ stack' = <<Frame(Clause.assertion)>> /\ root' = 0
        /\ UNCHANGED <<requirement, clause>>
    BY <1>2, <1>7 DEF BeginClause, Express, Emit, Expressing, size, Requirement, Placed, m
  <2>2. requirement \in 1..m BY <1>1, <2>1
  <2>3. clause \in 0..size(requirement) /\ clause # 0 BY <1>1, <2>1, <2>2
  <2>4. RootAt(policy, requirement, clause) = Clause.assertion
    BY <2>3 DEF RootAt, Requirement, Clause
  <2>5. ~Done(requirement, clause) /\ \A r, k : /\ Done(r, k)' <=> Done(r, k)
                                                /\ Current(r, k)' => r = requirement /\ k = clause
    BY <1>1, <2>1 DEF Done, Current, Now
  <2> DEFINE i == clause
             s == requirement
  <2>6. s \in 1..m /\ i \in 0..size(s) /\ ~Done(s, i) /\ stack' = <<Frame(RootAt(policy, s, i))>>
    BY <2>1, <2>2, <2>3, <2>4, <2>5
  <2>7. \A r, k : (Done(r, k)' <=> Done(r, k)) /\ (Current(r, k)' => r = s /\ k = i)
    BY <2>5
  <2> HIDE DEF i, s
  <2> QED BY <1>3, <2>1, <2>6, <2>7, TreeOpened DEF m, size
<1>8. CASE EndClause
  <2>1. /\ stage = "assertion" /\ stage' = "clause" /\ stack = <<>> /\ ~Emit
        /\ UNCHANGED <<stack, root, requirement>> /\ clause' = clause + 1
    BY <1>8 DEF EndClause, Emit, Expressing
  <2>2. ASSUME NEW r \in 1..m, NEW k \in 0..size(r)
        PROVE  (Done(r, k)' <=> Done(r, k) \/ Current(r, k)) /\ ~Current(r, k)'
    <3>1. k \in Nat BY <1>1
    <3> QED BY <1>1, <2>1, <3>1 DEF Done, Current, Now
  <2> QED BY <1>3, <2>1, <2>2, TreeIdle DEF m, size
<1>9. CASE EndRequirement
  <2>1. /\ stage = "clause" /\ stage' = "requirement" /\ stack = <<>> /\ ~Emit
        /\ UNCHANGED <<stack, root, clause>> /\ requirement' = requirement + 1
        /\ clause > size(requirement)
    BY <1>2, <1>9 DEF EndRequirement, Emit, Expressing, size, Requirement
  <2>2. ASSUME NEW r \in 1..m, NEW k \in 0..size(r)
        PROVE  (Done(r, k)' <=> Done(r, k) \/ Current(r, k)) /\ ~Current(r, k)'
    <3>1. size(r) \in Nat /\ k \in Nat /\ k <= size(r) BY <1>1
    <3>2. r = requirement => k < clause BY <1>1, <2>1, <3>1
    <3> QED BY <1>1, <2>1, <3>2 DEF Done, Current, Now
  <2> QED BY <1>3, <2>1, <2>2, TreeIdle DEF m, size
<1>10. CASE Descend BY <1>10, TreeDeeper
<1>11. CASE Emit BY <1>11, TreeReturned DEF Translation
<1> QED BY <1>4, <1>5, <1>6, <1>7, <1>8, <1>9, <1>10, <1>11 DEF Compile

-----------------------------------------------------------------------------
(* Every step keeps the translation.                                       *)

\* The rows of the program are of rows of the document.
LEMMA RowsOfSource ==
  ASSUME Placed, Tallied, Sound(prog)
  PROVE  /\ \A r \in 1..Len(prog.requirements) : r \in 1..Len(policy.requirements)
         /\ \A k \in 1..Len(prog.clauses) : k \in 1..Len(SourceClauses(policy))
PROOF
<1> DEFINE m == Len(policy.requirements)
           l == Len(SourceClauses(policy))
           a == Len(prog.requirements)
           b == Len(prog.clauses)
<1>1. /\ m \in Nat /\ requirement \in 1..(m + 1) /\ l \in Nat /\ Passed \in 0..l
      /\ stage \in {"clause", "assertion"} => requirement <= m
  BY SourceIs, PiecesAre, PassedIs DEF Placed
<1>2. /\ a \in Nat /\ b \in Nat /\ b = Passed
      /\ a = IF stage \in {"clause", "assertion"} THEN requirement ELSE requirement - 1
  BY Lengths DEF Tallied, Sound
<1> HIDE DEF m, l, a, b
<1>3. a <= m /\ b <= l BY <1>1, <1>2
<1>4. (\A r \in 1..a : r \in 1..m) /\ (\A k \in 1..b : k \in 1..l) BY <1>1, <1>2, <1>3
<1> QED BY <1>4 DEF m, l, a, b

\* While no row is added, the rows stay right.
LEMMA RowedKept ==
  ASSUME Placed, Tree, Translation, policy' = policy, Sound(prog'), Grown(prog, prog'),
         \A n \in Nodes(policy) : emitted[n] # 0 => emitted'[n] = emitted[n]
  PROVE  /\ \A r \in 1..Len(prog.requirements) : AskRow(policy, prog', emitted', r)
         /\ \A k \in 1..Len(prog.clauses) : ClauseRow(policy, prog', emitted', k)
         /\ \A n \in Nodes(policy) : emitted[n] # 0 => CodeRow(policy, prog', emitted', n)
PROOF
<1>1. /\ policy \in Sources /\ Sound(prog) /\ Tallied /\ Rowed /\ Shut(policy, emitted)
      /\ emitted \in [Nodes(policy) -> 0..Len(prog.code)]
  BY DEF Placed, Tree, Translation, Path
<1>2. prog' \in Programs /\ prog \in Programs BY <1>1 DEF Sound
<1> DEFINE p == policy
           q == prog
           e == emitted
           t == prog'
           f == emitted'
<1>3. Onward(p, q, e, t, f) BY <1>1, <1>2 DEF Onward
<1>4. Len(q.code) \in Nat BY <1>2, Lengths
<1>5. ASSUME NEW r \in 1..Len(q.requirements) PROVE AskRow(p, t, f, r)
  <2>1. r \in 1..Len(p.requirements) /\ AskRow(p, q, e, r) BY <1>1, RowsOfSource DEF Rowed
  <2> HIDE DEF p, q, e, t, f
  <2> QED BY <1>3, <2>1, AskRowKept
<1>6. ASSUME NEW k \in 1..Len(q.clauses) PROVE ClauseRow(p, t, f, k)
  <2>1. k \in 1..Len(SourceClauses(p)) /\ ClauseRow(p, q, e, k) BY <1>1, RowsOfSource DEF Rowed
  <2> HIDE DEF p, q, e, t, f
  <2> QED BY <1>3, <2>1, ClauseRowKept
<1>7. ASSUME NEW n \in Nodes(p), e[n] # 0 PROVE CodeRow(p, t, f, n)
  <2>1. e[n] \in 0..Len(q.code) /\ CodeRow(p, q, e, n) BY <1>1, <1>7 DEF Rowed
  <2>2. e[n] \in 1..Len(q.code) BY <1>4, <1>7, <2>1
  <2> HIDE DEF p, q, e, t, f
  <2> QED BY <1>3, <2>1, <2>2, CodeRowKept
<1> QED BY <1>5, <1>6, <1>7

\* A step that is not of an expression.
LEMMA RowedLeft ==
  ASSUME Placed, Tree, Translation, Compile, ~Emit,
         Len(prog'.requirements) = Len(prog.requirements), Len(prog'.clauses) = Len(prog.clauses)
  PROVE  Rowed'
PROOF
<1>1. policy' = policy /\ emitted' = emitted /\ Sound(prog') /\ Grown(prog, prog') BY CodeLeft
<1> DEFINE f == emitted'
           t == prog'
           p == policy'
<1>2. /\ \A r \in 1..Len(prog.requirements) : AskRow(policy, t, f, r)
      /\ \A k \in 1..Len(prog.clauses) : ClauseRow(policy, t, f, k)
      /\ \A n \in Nodes(policy) : emitted[n] # 0 => CodeRow(policy, t, f, n)
  BY <1>1, RowedKept
<1> HIDE DEF f, t, p
<1>3. /\ \A r \in 1..Len(t.requirements) : AskRow(p, t, f, r)
      /\ \A k \in 1..Len(t.clauses) : ClauseRow(p, t, f, k)
      /\ \A n \in Nodes(p) : f[n] # 0 => CodeRow(p, t, f, n)
  BY <1>1, <1>2 DEF f, t, p
<1> QED BY <1>3 DEF Rowed, f, t, p

LEMMA PassedKept ==
  ASSUME Placed, Compile
  PROVE  Passed' = IF EndClause THEN Passed + 1 ELSE Passed
PROOF
<1> DEFINE m == Len(policy.requirements)
           r == requirement
           b == Base(policy)
<1>1. /\ m \in Nat /\ r \in 1..(m + 1) /\ clause \in Nat \ {0} /\ policy \in Sources
      /\ stage \in {"clause", "assertion"} => r <= m
  BY SourceIs DEF Placed
<1>2. b \in [0..m -> Nat] /\ \A s \in 1..m : b[s] = b[s - 1] + Len(policy.requirements[s].clauses)
  BY <1>1, PiecesAre
<1>3. policy' = policy /\ Base(policy)' = b
  BY DEF Compile, Decode, Validate, BeginRequirement, EndApplicability, BeginClause, EndClause,
         EndRequirement, Descend, Emit, Finish
<1> DEFINE x == b[r - 1]
<1>4. x \in Nat
  <2> HIDE DEF b, m
  <2>1. r - 1 \in 0..m BY <1>1
  <2> QED BY <1>2, <2>1
<1>5. Passed = x + (IF stage \in {"clause", "assertion"} THEN clause - 1 ELSE 0) BY DEF Passed
<1>6. requirement' = requirement =>
        Passed' = x + (IF stage' \in {"clause", "assertion"} THEN clause' - 1 ELSE 0)
  BY <1>3 DEF Passed
<1>7. CASE EndClause
  <2>1. /\ stage = "assertion" /\ stage' = "clause" /\ clause' = clause + 1
        /\ requirement' = requirement
    BY <1>7 DEF EndClause
  <2>2. Passed = x + (clause - 1) /\ Passed' = x + (clause' - 1) BY <1>5, <1>6, <2>1
  <2> HIDE DEF x
  <2> QED BY <1>1, <1>4, <1>7, <2>1, <2>2
<1>8. CASE EndRequirement
  <2> DEFINE l == Len(Requirement.clauses)
  <2>1. /\ stage = "clause" /\ stage' = "requirement" /\ requirement' = r + 1 /\ ~EndClause
        /\ clause > l /\ clause <= l + 1 /\ r \in 1..m
    BY <1>1, <1>8 DEF EndRequirement, EndClause, Placed
  <2>2. l \in Nat /\ b[r] = x + l BY <1>1, <1>2, <2>1, SourceIs DEF Requirement
  <2>3. (r + 1) - 1 = r BY <1>1
  <2>4. Passed' = b[r] + 0 BY <1>3, <2>1, <2>3 DEF Passed
  <2>5. Passed = x + (clause - 1) BY <1>5, <2>1
  <2> HIDE DEF x, l, b
  <2>6. clause = l + 1 BY <1>1, <2>1, <2>2
  <2> QED BY <1>4, <2>1, <2>2, <2>4, <2>5, <2>6
<1>9. CASE EndApplicability
  <2>1. /\ stage = "applicability" /\ stage' = "clause" /\ requirement' = r /\ clause' = 1
        /\ ~EndClause
    BY <1>9 DEF EndApplicability, EndClause
  <2>2. Passed = x + 0 /\ Passed' = x + (1 - 1) BY <1>5, <1>6, <2>1
  <2> HIDE DEF x
  <2> QED BY <1>4, <2>1, <2>2
<1>10. CASE Decode \/ Validate \/ BeginRequirement \/ BeginClause \/ Descend \/ Emit \/ Finish
  <2>1. /\ requirement' = r /\ clause' = clause /\ ~EndClause
        /\ stage' \in {"clause", "assertion"} <=> stage \in {"clause", "assertion"}
    BY <1>10 DEF Decode, Validate, BeginRequirement, BeginClause, Descend, Emit, Finish, control,
         EndClause, Expressing
  <2> HIDE DEF x
  <2> QED BY <1>5, <1>6, <2>1
<1> QED BY <1>7, <1>8, <1>9, <1>10 DEF Compile

\* Every step keeps the counts,
LEMMA TalliedKept ==
  ASSUME Placed, Tree, Translation, Compile
  PROVE  Tallied'
PROOF
<1> DEFINE n == Passed
           cost == CostUpTo(SourceClauses(policy))
           a == Len(prog.requirements)
<1>1. /\ Sound(prog) /\ Tallied /\ Named /\ Noted /\ prog \in Programs /\ Path /\ Owned /\ Numbered
  BY DEF Translation, Tree, Sound
<1>2. requirement \in Nat /\ n \in Nat
  <2>1. /\ Len(SourceClauses(policy)) \in Nat /\ Passed \in 0..Len(SourceClauses(policy))
        /\ requirement \in 1..(Len(policy.requirements) + 1) /\ Len(policy.requirements) \in Nat
    BY SourceIs, PiecesAre, PassedIs DEF Placed
  <2> QED BY <2>1
<1>3. /\ Len(prog.clauses) = n
      /\ Len(prog.clauseIDs) = IF stage = "assertion" THEN n + 1 ELSE n
      /\ \A k \in 1..Len(prog.clauseIDs) : prog.clauseIDs[k] = k
      /\ a = IF stage \in {"clause", "assertion"} THEN requirement ELSE requirement - 1
      /\ Len(prog.explanations) <= cost[n] /\ Len(prog.remediations) <= cost[n]
  BY <1>1 DEF Tallied
<1>4. policy' = policy /\ CostUpTo(SourceClauses(policy))' = cost
  BY DEF Compile, Decode, Validate, BeginRequirement, EndApplicability, BeginClause, EndClause,
         EndRequirement, Descend, Emit, Finish
<1> HIDE DEF cost
<1> DEFINE Same == /\ prog'.clauses = prog.clauses /\ prog'.explanations = prog.explanations
                   /\ prog'.remediations = prog.remediations
<1>5. ASSUME Same, ~EndClause,
             Len(prog'.clauseIDs) = IF stage' = "assertion" THEN n + 1 ELSE n,
             \A k \in 1..Len(prog'.clauseIDs) : prog'.clauseIDs[k] = k,
             Len(prog'.requirements) =
               IF stage' \in {"clause", "assertion"} THEN requirement' ELSE requirement' - 1
      PROVE  Tallied'
  <2>1. Passed' = n BY <1>5, PassedKept
  <2> HIDE DEF n
  <2> QED BY <1>3, <1>4, <1>5, <2>1 DEF Tallied, cost
<1> HIDE DEF n
<1>6. CASE Decode \/ Validate \/ Descend \/ Finish
  <2>1. /\ prog' = prog /\ ~EndClause /\ requirement' = requirement
        /\ stage' = "assertion" <=> stage = "assertion"
        /\ stage' \in {"clause", "assertion"} <=> stage \in {"clause", "assertion"}
    BY <1>6 DEF Decode, Validate, Descend, Finish, control, EndClause, Expressing
  <2> QED BY <1>3, <1>5, <2>1
<1>7. CASE EndRequirement
  <2>1. /\ prog' = prog /\ ~EndClause /\ requirement' = requirement + 1
        /\ stage' = "requirement" /\ stage = "clause"
    BY <1>7 DEF EndRequirement, EndClause
  <2> QED BY <1>2, <1>3, <1>5, <2>1
<1>8. CASE BeginRequirement
  <2>1. SameRows(prog, prog') /\ prog'.explanations = prog.explanations
    BY <1>1, <1>8, BeginRequirementIs
  <2>2. /\ stage = "requirement" /\ stage' = "applicability" /\ requirement' = requirement /\ ~EndClause
    BY <1>8 DEF BeginRequirement, EndClause
  <2> QED BY <1>3, <1>5, <2>1, <2>2 DEF SameRows
<1>9. CASE EndApplicability
  <2>1. /\ SameContent(prog, prog') /\ prog'.clauseIDs = prog.clauseIDs
        /\ Len(prog'.requirements) = a + 1
    BY <1>1, <1>9, EndApplicabilityIs
  <2>2. /\ stage = "applicability" /\ stage' = "clause" /\ requirement' = requirement /\ ~EndClause
    BY <1>9 DEF EndApplicability, EndClause
  <2>3. a + 1 = requirement BY <1>2, <1>3, <2>2
  <2> HIDE DEF a
  <2> QED BY <1>3, <1>5, <2>1, <2>2, <2>3 DEF SameContent
<1>10. CASE BeginClause
  <2> DEFINE i == Len(prog.clauseIDs) + 1
  <2>1. /\ prog'.explanations = prog.explanations /\ prog'.requirements = prog.requirements
        /\ prog'.clauses = prog.clauses /\ prog'.remediations = prog.remediations
        /\ Len(prog'.clauseIDs) = i /\ prog'.clauseIDs[i] = i
        /\ \A k \in 1..Len(prog.clauseIDs) : prog'.clauseIDs[k] = prog.clauseIDs[k]
    BY <1>1, <1>10, BeginClauseIs
  <2>2. /\ stage = "clause" /\ stage' = "assertion" /\ requirement' = requirement /\ ~EndClause
    BY <1>10 DEF BeginClause, EndClause
  <2>3. i = n + 1 /\ Len(prog.clauseIDs) = n BY <1>3, <2>2
  <2>4. \A k \in 1..i : prog'.clauseIDs[k] = k
    <3> HIDE DEF i
    <3>1. \A k \in 1..i : k = i \/ k \in 1..n BY <1>2, <2>3
    <3> QED BY <1>3, <2>1, <2>3, <3>1
  <2> HIDE DEF i
  <2> QED BY <1>3, <1>5, <2>1, <2>2, <2>3, <2>4
<1>11. CASE Emit
  <2>1. SameClauses(prog, prog') BY <1>1, <1>11, EmitIs
  <2>2. /\ stage' = stage /\ requirement' = requirement /\ ~EndClause
    BY <1>11 DEF Emit, EndClause, Expressing
  <2> QED BY <1>3, <1>5, <2>1, <2>2 DEF SameClauses
<1>12. CASE EndClause
  <2>1. /\ SameInstructions(prog, prog') /\ Len(prog'.clauses) = n + 1
        /\ Len(prog'.explanations) <= cost[n + 1] /\ Len(prog'.remediations) <= cost[n + 1]
    BY <1>1, <1>12, EndClauseIs DEF n, cost
  <2>2. /\ stage = "assertion" /\ stage' = "clause" /\ requirement' = requirement
    BY <1>12 DEF EndClause
  <2>3. Passed' = n + 1 BY <1>12, PassedKept DEF n
  <2> QED BY <1>3, <1>4, <2>1, <2>2, <2>3 DEF Tallied, SameInstructions, cost
<1> QED BY <1>6, <1>7, <1>8, <1>9, <1>10, <1>11, <1>12 DEF Compile

\* the names,
LEMMA NamedKept ==
  ASSUME Placed, Tree, Translation, Compile, Sound(prog'), Grown(prog, prog')
  PROVE  Named'
PROOF
<1>1. Sound(prog) /\ Tallied /\ Named BY DEF Translation
<1>2. prog \in Programs /\ prog' \in Programs BY <1>1 DEF Sound
<1>3. CASE Descend \/ Emit
  <2>1. /\ stage' = stage /\ Requirement' = Requirement /\ Clause' = Clause
    BY <1>3 DEF Descend, Emit, Requirement, Clause
  <2> QED BY <1>1, <1>2, <2>1, GrownIs, KnownKept DEF Named
<1>4. CASE BeginRequirement
  <2>1. Known(prog', Requirement.id) BY <1>1, <1>4, BeginRequirementIs
  <2>2. stage' = "applicability" /\ Requirement' = Requirement
    BY <1>4 DEF BeginRequirement, Requirement
  <2>3. Known(prog, Requirement.id)' BY <2>1, <2>2
  <2> QED BY <2>2, <2>3 DEF Named
<1>5. CASE BeginClause
  <2>1. Known(prog', Clause.id) BY <1>1, <1>5, BeginClauseIs
  <2>2. stage' = "assertion" /\ Clause' = Clause BY <1>5 DEF BeginClause, Requirement, Clause
  <2>3. Known(prog, Clause.id)' BY <2>1, <2>2
  <2> QED BY <2>2, <2>3 DEF Named
<1>6. CASE Decode \/ Validate \/ EndApplicability \/ EndClause \/ EndRequirement \/ Finish
  <2>1. stage' \notin {"applicability", "assertion"}
    BY <1>6 DEF Decode, Validate, EndApplicability, EndClause, EndRequirement, Finish
  <2> QED BY <2>1 DEF Named
<1> QED BY <1>3, <1>4, <1>5, <1>6 DEF Compile

LEMMA NotedMore ==
  ASSUME NEW s \in Seq(Nat), IsInjective(s), NEW x \in Nat, NEW m \in Nat, x \in 1..m,
         \A j \in 1..Len(s) : s[j] \in 1..m
  PROVE  LET t == NoteKind(s, x) IN
         /\ t \in Seq(Nat) /\ IsInjective(t) /\ \A j \in 1..Len(t) : t[j] \in 1..m
PROOF
<1> DEFINE t == Append(s, x)
           l == Len(s)
<1>1. CASE x \in Range(s) BY <1>1 DEF NoteKind
<1>2. CASE x \notin Range(s)
  <2>1. /\ t \in Seq(Nat) /\ Len(t) = l + 1 /\ l \in Nat /\ \A k \in 1..l : t[k] = s[k]
        /\ t[l + 1] = x
    BY AppendIs
  <2>2. DOMAIN t = 1..(l + 1) /\ DOMAIN s = 1..l BY <2>1, SeqShape
  <2>3. \A k \in 1..l : s[k] # x BY <1>2, <2>2 DEF Range
  <2>4. \A i \in 1..l : \A j \in 1..l : s[i] = s[j] => i = j BY <2>2 DEF IsInjective
  <2> HIDE DEF t, l
  <2>5. \A k \in 1..(l + 1) : k \in 1..l \/ k = l + 1 BY <2>1
  <2>6. IsInjective(t)
    <3>1. ASSUME NEW i \in 1..(l + 1), NEW j \in 1..(l + 1), t[i] = t[j] PROVE i = j
      BY <2>1, <2>3, <2>4, <2>5, <3>1
    <3> QED BY <2>2, <3>1 DEF IsInjective
  <2>7. \A j \in 1..(l + 1) : t[j] \in 1..m BY <2>1, <2>5 DEF l
  <2> QED BY <1>2, <2>1, <2>6, <2>7 DEF NoteKind, t
<1> QED BY <1>1, <1>2

\* the kinds noted
LEMMA NotedKept ==
  ASSUME Placed, Tree, Translation, Compile, Sound(prog'), Grown(prog, prog')
  PROVE  Noted'
PROOF
<1>1. Sound(prog) /\ Noted /\ Path /\ Numbered BY DEF Translation, Tree
<1>2. prog \in Programs /\ prog' \in Programs BY <1>1 DEF Sound
<1> DEFINE m == Len(prog.kinds)
           n == Len(prog'.kinds)
           s == clauseKinds
<1>3. m \in Nat /\ n \in Nat /\ m <= n BY <1>2, Lengths, GrownIs DEF Prefix
<1>4. s \in Seq(Nat) /\ IsInjective(s) /\ \A j \in 1..Len(s) : s[j] \in 1..m BY <1>1 DEF Noted
<1> HIDE DEF m, n, s
<1>5. \A j \in 1..Len(s) : s[j] \in 1..n BY <1>3, <1>4
<1>6. CASE UNCHANGED clauseKinds BY <1>4, <1>5, <1>6 DEF Noted, n, s
<1>7. CASE clauseKinds' = <<>>
  <2>1. <<>> \in Seq(Nat) /\ Len(<<>>) = 0 BY EmptySeq
  <2>2. IsInjective(<<>>) BY DEF IsInjective
  <2>3. \A j \in 1..Len(<<>>) : FALSE BY <2>1
  <2> QED BY <1>7, <2>1, <2>2, <2>3 DEF Noted
<1>8. CASE Emit
  <2> DEFINE node == policy.nodes[Top.node]
             x == KindID(prog', node.evidence.kind)
  <2>1. clauseKinds' = IF node.op = "evidence_matches" /\ stage = "assertion"
                       THEN NoteKind(s, x) ELSE s
    BY <1>8 DEF Emit, s
  <2>2. node.op = "evidence_matches" => KnownKind(prog', node.evidence.kind)
    BY <1>1, <1>8, EmitIs
  <2>3. Catalogued(prog') BY DEF Sound
  <2>4. node.op = "evidence_matches" => x \in 1..n /\ x \in Nat
    BY <1>2, <2>2, <2>3, KindIDIs DEF n
  <2> HIDE DEF node, x
  <2>5. CASE node.op = "evidence_matches" /\ stage = "assertion"
    <3> DEFINE t == NoteKind(s, x)
    <3>1. t \in Seq(Nat) /\ IsInjective(t) /\ \A j \in 1..Len(t) : t[j] \in 1..n
      BY <1>3, <1>4, <1>5, <2>4, <2>5, NotedMore
    <3> HIDE DEF t
    <3>2. clauseKinds' = t BY <2>1, <2>5 DEF t
    <3> QED BY <3>1, <3>2 DEF Noted, n
  <2>6. CASE ~(node.op = "evidence_matches" /\ stage = "assertion")
    <3>1. clauseKinds' = clauseKinds BY <2>1, <2>6 DEF s
    <3> QED BY <1>6, <3>1
  <2> QED BY <2>5, <2>6
<1>9. CASE Compile /\ ~Emit
  <2>1. UNCHANGED clauseKinds \/ clauseKinds' = <<>>
    BY <1>9 DEF Compile, Decode, Validate, BeginRequirement, EndApplicability, BeginClause,
         EndClause, EndRequirement, Descend, Finish, Express, control
  <2> QED BY <1>6, <1>7, <2>1
<1> QED BY <1>8, <1>9

\* A tree whose root is not begun has no instruction.
LEMMA Unbegun ==
  ASSUME Placed, Tree, stack = <<>>, NEW r \in Nodes(policy), emitted[r] = 0
  PROVE  \A n \in Nodes(policy) : RootOf(policy)[n] = r => emitted[n] = 0
PROOF
<1> DEFINE m == Len(policy.nodes)
           T == {k \in 0..m : \A n \in 1..k : RootOf(policy)[n] = r => emitted[n] = 0}
<1>1. m \in Nat /\ Nodes(policy) = 1..m /\ policy \in Sources BY SourceIs DEF Placed
<1>2. 0 \in T BY <1>1
<1>3. Len(stack) = 0 BY EmptySeq
<1>4. ASSUME NEW k \in 1..m, k - 1 \in T PROVE k \in T
  <2>1. \A n \in 1..(k - 1) : RootOf(policy)[n] = r => emitted[n] = 0 BY <1>4
  <2>2. k \in 0..m /\ \A n \in 1..k : n # k => n \in 1..(k - 1) BY <1>1
  <2>3. ASSUME RootOf(policy)[k] = r PROVE emitted[k] = 0
    <3>1. CASE k \in Roots(policy) BY <1>1, <2>3, <3>1, RootOfIs
    <3>2. CASE k \notin Roots(policy)
      <4>1. PICK n \in Nodes(policy) :
              \E j \in 1..Len(ChildrenOf(policy, n)) : n < k /\ k = ChildrenOf(policy, n)[j]
        BY <1>1, <3>2, RootOrChild
      <4>2. PICK j \in 1..Len(ChildrenOf(policy, n)) : n < k /\ k = ChildrenOf(policy, n)[j] BY <4>1
      <4>3. RootOf(policy)[k] = RootOf(policy)[n] BY <1>1, <4>2, RootOfIs
      <4>4. n \in 1..(k - 1) BY <1>1, <4>2
      <4>5. emitted[n] = 0 BY <2>1, <2>3, <4>3, <4>4
      <4> QED BY <1>3, <4>2, <4>5 DEF Tree, Fresh
    <3> QED BY <3>1, <3>2
  <2> QED BY <2>1, <2>2, <2>3
<1> HIDE DEF T
<1>5. \A k \in 0..m : k \in T BY <1>1, <1>2, <1>4, Upward
<1>6. m \in T BY <1>1, <1>5
<1> QED BY <1>1, <1>6 DEF T

\* One more instruction that asks for evidence.
LEMMA ListsMore ==
  ASSUME NEW p, NEW e, NEW f, NEW ks, NEW us, NEW r, NEW n \in TreeEvidence(p, r), NEW id \in Nat,
         id # 0, e[n] = 0, f[n] = id, Lists(p, e, ks, r), Len(ks) \in Nat,
         \A m \in TreeEvidence(p, r) : (m # n => f[m] = e[m]) /\ e[m] \in Nat /\ e[m] < id,
         \/ us = ks /\ \E j \in 1..Len(ks) : ks[j] = KindAt(p, n)
         \/ /\ Len(us) = Len(ks) + 1 /\ us[Len(ks) + 1] = KindAt(p, n)
            /\ \A j \in 1..Len(ks) : us[j] = ks[j] /\ ks[j] # KindAt(p, n)
  PROVE  Lists(p, f, us, r)
PROOF
<1> DEFINE E == TreeEvidence(p, r)
           l == Len(ks)
<1>1. /\ \A m \in E : e[m] # 0 => \E j \in 1..l : ks[j] = KindAt(p, m)
      /\ \A j \in 1..l : \E m \in E : e[m] # 0 /\ KindAt(p, m) = ks[j]
      /\ \A j \in 1..l : \A i \in 1..(j - 1) : \A m \in E :
           e[m] # 0 /\ KindAt(p, m) = ks[j] =>
             \E x \in E : e[x] # 0 /\ KindAt(p, x) = ks[i] /\ e[x] < e[m]
  BY DEF Lists
<1>2. /\ n \in E /\ l \in Nat
      /\ \A m \in E : (m # n => f[m] = e[m]) /\ e[m] \in Nat /\ e[m] < id
  OBVIOUS
<1>3. \/ us = ks /\ \E j \in 1..l : ks[j] = KindAt(p, n)
      \/ /\ Len(us) = l + 1 /\ us[l + 1] = KindAt(p, n)
         /\ \A j \in 1..l : us[j] = ks[j] /\ ks[j] # KindAt(p, n)
  OBVIOUS
<1>4. us = ks => Len(us) = l OBVIOUS
<1> HIDE DEF E, l
<1>5. ASSUME NEW j \in 1..l
      PROVE  \E m \in E : m # n /\ f[m] = e[m] /\ f[m] # 0 /\ f[m] < id /\ KindAt(p, m) = ks[j]
  <2>1. PICK m \in E : e[m] # 0 /\ KindAt(p, m) = ks[j] BY <1>1
  <2>2. m # n BY <2>1
  <2>3. f[m] = e[m] /\ e[m] < id BY <1>2, <2>2
  <2> QED BY <2>1, <2>2, <2>3
<1>6. \A j \in 1..Len(us) : (j \in 1..l /\ us[j] = ks[j]) \/ (j = l + 1 /\ us[j] = KindAt(p, n))
  BY <1>2, <1>3, <1>4
<1>7. l <= Len(us) /\ Len(us) \in {l, l + 1} /\ \A j \in 1..l : us[j] = ks[j] /\ j \in 1..Len(us)
  BY <1>2, <1>3, <1>4
<1>8. \E j \in 1..Len(us) : us[j] = KindAt(p, n)
  <2>1. CASE us = ks BY <1>3, <1>4, <1>7, <2>1
  <2>2. CASE us # ks
    <3>1. l + 1 \in 1..Len(us) BY <1>2, <1>3, <2>2
    <3> QED BY <1>3, <2>2, <3>1
  <2> QED BY <2>1, <2>2
<1>9. ASSUME NEW m \in E, f[m] # 0 PROVE \E j \in 1..Len(us) : us[j] = KindAt(p, m)
  <2>1. CASE m = n BY <1>8, <2>1
  <2>2. CASE m # n
    <3>1. PICK j \in 1..l : ks[j] = KindAt(p, m) BY <1>1, <1>2, <1>9, <2>2
    <3> QED BY <1>7, <3>1
  <2> QED BY <2>1, <2>2
<1>10. ASSUME NEW j \in 1..Len(us) PROVE \E m \in E : f[m] # 0 /\ KindAt(p, m) = us[j]
  <2>1. CASE j \in 1..l /\ us[j] = ks[j] BY <1>5, <2>1
  <2>2. CASE us[j] = KindAt(p, n) BY <1>2, <2>2
  <2> QED BY <1>6, <2>1, <2>2
<1>11. ASSUME NEW j \in 1..Len(us), NEW i \in 1..(j - 1), NEW m \in E, f[m] # 0, KindAt(p, m) = us[j]
       PROVE  \E x \in E : f[x] # 0 /\ KindAt(p, x) = us[i] /\ f[x] < f[m]
  <2>1. i \in 1..l /\ us[i] = ks[i]
    <3>1. Len(us) \in Nat /\ Len(us) <= l + 1 BY <1>2, <1>7
    <3>2. i \in 1..l BY <1>2, <3>1
    <3> QED BY <1>7, <3>2
  <2>2. PICK x \in E : x # n /\ f[x] = e[x] /\ f[x] # 0 /\ f[x] < id /\ KindAt(p, x) = ks[i]
    BY <1>5, <2>1
  <2>3. CASE m = n BY <2>1, <2>2, <2>3
  <2>4. CASE m # n
    <3>1. f[m] = e[m] /\ e[m] # 0 BY <1>2, <1>11, <2>4
    <3>2. j \in 1..l /\ us[j] = ks[j]
      <4>1. PICK y \in 1..l : ks[y] = KindAt(p, m) BY <1>1, <3>1
      <4>2. ~(us[j] = KindAt(p, n) /\ us # ks) BY <1>3, <1>11, <4>1
      <4> QED BY <1>4, <1>6, <4>2
    <3>3. PICK y \in E : e[y] # 0 /\ KindAt(p, y) = ks[i] /\ e[y] < e[m]
      BY SMTT(30), <1>1, <1>11, <3>1, <3>2
    <3>4. y # n /\ f[y] = e[y] BY <1>2, <3>3
    <3> QED BY <2>1, <3>1, <3>3, <3>4
  <2> QED BY <2>3, <2>4
<1>12. /\ \A m \in E : f[m] # 0 => \E j \in 1..Len(us) : us[j] = KindAt(p, m)
       /\ \A j \in 1..Len(us) : \E m \in E : f[m] # 0 /\ KindAt(p, m) = us[j]
       /\ \A j \in 1..Len(us) : \A i \in 1..(j - 1) : \A m \in E :
            f[m] # 0 /\ KindAt(p, m) = us[j] =>
              \E x \in E : f[x] # 0 /\ KindAt(p, x) = us[i] /\ f[x] < f[m]
  BY ONLY <1>9, <1>10, <1>11
<1> QED BY ONLY <1>12 DEF Lists, E

LEMMA RootAtIs ==
  ASSUME NEW p \in Sources, NEW r \in 1..Len(p.requirements), NEW k \in 0..Len(p.requirements[r].clauses)
  PROVE  RootAt(p, r, k) \in Nodes(p) /\ RootAt(p, r, k) \in Roots(p)
BY TreeIs

LEMMA AssertionIs ==
  ASSUME Placed, requirement \in 1..Len(policy.requirements), clause \in 1..Len(Requirement.clauses)
  PROVE  /\ clause \in 0..Len(Requirement.clauses) /\ clause # 0 /\ requirement \in Nat
         /\ RootAt(policy, requirement, clause) = Clause.assertion
         /\ Clause.assertion \in Nodes(policy) /\ Clause.assertion \in Roots(policy)
PROOF
<1> DEFINE p == policy
           r == requirement
           k == clause
<1>1. p \in Sources /\ r \in 1..Len(p.requirements) /\ p.requirements[r] = Requirement
      /\ Len(Requirement.clauses) \in Nat
  BY SourceIs DEF Placed, Requirement
<1>2. k \in 0..Len(p.requirements[r].clauses) /\ k # 0 /\ r \in Nat /\ k \in 0..Len(Requirement.clauses)
  <2> DEFINE l == Len(Requirement.clauses)
             m == Len(p.requirements)
  <2>1. l \in Nat /\ k \in 1..l /\ r \in 1..m /\ m \in Nat BY <1>1, SourceIs
  <2> HIDE DEF l, m, k, r
  <2>2. k \in 0..l /\ k # 0 /\ r \in Nat BY ONLY <2>1
  <2> QED BY <1>1, <2>2 DEF l
<1>3. RootAt(p, r, k) = Clause.assertion BY <1>2 DEF RootAt, Requirement, Clause
<1> HIDE DEF p, r, k
<1>4. RootAt(p, r, k) \in Nodes(p) /\ RootAt(p, r, k) \in Roots(p) BY ONLY <1>1, <1>2, RootAtIs
<1> QED BY <1>2, <1>3, <1>4 DEF p, r, k

LEMMA KindTextsAre ==
  ASSUME NEW p, NEW s \in Seq(Nat)
  PROVE  /\ Len(KindTexts(p, s)) = Len(s) /\ Len(s) \in Nat
         /\ \A j \in 1..Len(s) : KindTexts(p, s)[j] = Text(p, p.kinds[s[j]])
PROOF
<1> DEFINE n == Len(s)
           t == KindTexts(p, s)
<1>1. n \in Nat BY LenProperties
<1>2. t = [j \in 1..n |-> Text(p, p.kinds[s[j]])] BY DEF KindTexts
<1> HIDE DEF n, t
<1>3. DOMAIN t = 1..n BY <1>2
<1>4. Len(t) = n
  <2> DEFINE T == {Text(p, p.kinds[s[j]]) : j \in 1..n}
  <2>1. t \in [1..n -> T] BY <1>2
  <2> HIDE DEF T
  <2> QED BY <1>1, <2>1, FunctionIsSeq
<1> QED BY <1>1, <1>2, <1>4 DEF n, t

LEMMA KindTextsKept ==
  ASSUME NEW p \in Programs, NEW q \in Programs, Catalogued(p), Grown(p, q), NEW s \in Seq(Nat),
         \A j \in 1..Len(s) : s[j] \in 1..Len(p.kinds)
  PROVE  KindTexts(q, s) = KindTexts(p, s)
PROOF
<1>1. \A j \in 1..Len(s) : Text(q, q.kinds[s[j]]) = Text(p, p.kinds[s[j]]) BY KindKept
<1> QED BY <1>1 DEF KindTexts

LEMMA KindTextsMore ==
  ASSUME NEW q, Sound(q), NEW s \in Seq(Nat), NEW x \in Nat, x \in 1..Len(q.kinds),
         \A j \in 1..Len(s) : s[j] \in 1..Len(q.kinds)
  PROVE  LET ks == KindTexts(q, s)
             us == KindTexts(q, NoteKind(s, x))
             t  == Text(q, q.kinds[x]) IN
         \/ us = ks /\ \E j \in 1..Len(ks) : ks[j] = t
         \/ /\ Len(us) = Len(ks) + 1 /\ us[Len(ks) + 1] = t
            /\ \A j \in 1..Len(ks) : us[j] = ks[j] /\ ks[j] # t
PROOF
<1> DEFINE ks == KindTexts(q, s)
           v == Append(s, x)
           us == KindTexts(q, v)
           l == Len(s)
           T(a) == Text(q, q.kinds[a])
           m == Len(q.kinds)
<1>1. Len(ks) = l /\ l \in Nat /\ \A j \in 1..l : ks[j] = T(s[j]) BY KindTextsAre
<1>2. /\ v \in Seq(Nat) /\ Len(v) = l + 1 /\ v[l + 1] = x /\ \A j \in 1..l : v[j] = s[j]
  BY AppendIs
<1>3. Len(us) = Len(v) /\ \A j \in 1..Len(v) : us[j] = T(v[j]) BY <1>2, KindTextsAre
<1>4. DOMAIN s = 1..l BY SeqShape
<1>5. \A a \in 1..m, b \in 1..m : T(a) = T(b) => a = b
  <2>1. /\ Catalogued(q) /\ q \in Programs BY DEF Sound
  <2>2. /\ DOMAIN q.symbols = 1..Len(q.symbols) /\ DOMAIN q.kinds = 1..m
        /\ Len(q.symbols) \in Nat /\ m \in Nat
    BY <2>1, Columns, SeqShape
  <2>3. ASSUME NEW a \in 1..m PROVE q.kinds[a] \in 1..Len(q.symbols) /\ T(a) = q.symbols[q.kinds[a]]
    <3>1. q.kinds[a] \in 1..Len(q.symbols) BY <2>1 DEF Catalogued
    <3>2. q.kinds[a] # 0 BY <2>2, <3>1
    <3> QED BY <3>1, <3>2 DEF Text
  <2>4. IsInjective(q.symbols) /\ IsInjective(q.kinds) BY <2>1 DEF Catalogued
  <2> HIDE DEF T, m
  <2> QED BY <2>2, <2>3, <2>4 DEF IsInjective
<1>6. x \in 1..m /\ \A j \in 1..l : s[j] \in 1..m OBVIOUS
<1>7. CASE x \in Range(s)
  <2>1. NoteKind(s, x) = s BY <1>7 DEF NoteKind
  <2>2. PICK j \in 1..l : s[j] = x BY <1>4, <1>7 DEF Range
  <2>3. ks[j] = T(x) /\ j \in 1..Len(ks) BY <1>1, <2>2
  <2> HIDE DEF ks, T
  <2> QED BY <2>1, <2>3 DEF ks, T
<1>8. CASE x \notin Range(s)
  <2>1. NoteKind(s, x) = v BY <1>8 DEF NoteKind
  <2>2. \A j \in 1..l : s[j] # x BY <1>4, <1>8 DEF Range
  <2> HIDE DEF ks, us, T, v, l, m
  <2>3. Len(us) = l + 1 /\ \A j \in 1..(l + 1) : us[j] = T(v[j]) BY <1>2, <1>3
  <2>4. us[l + 1] = T(x)
    <3>1. l + 1 \in 1..(l + 1) BY <1>1
    <3> QED BY <1>2, <2>3, <3>1
  <2>5. ASSUME NEW j \in 1..l PROVE us[j] = ks[j] /\ ks[j] # T(x)
    <3>1. j \in 1..(l + 1) BY <1>1
    <3>2. us[j] = T(s[j]) /\ ks[j] = T(s[j]) BY <1>1, <1>2, <2>3, <3>1
    <3>3. s[j] # x /\ s[j] \in 1..m BY <1>6, <2>2
    <3> QED BY <1>5, <1>6, <3>2, <3>3
  <2>6. KindTexts(q, NoteKind(s, x)) = us BY <2>1 DEF us
  <2>7. \A j \in 1..Len(ks) : us[j] = ks[j] /\ ks[j] # T(x) BY <1>1, <2>5
  <2>8. Len(us) = Len(ks) + 1 /\ us[Len(ks) + 1] = T(x) BY <1>1, <2>3, <2>4
  <2> QED BY <2>6, <2>7, <2>8 DEF ks, T
<1> QED BY <1>7, <1>8

\* The first evidence of a kind adds it to the list, later ones do not.
LEMMA ListingEmit ==
  ASSUME Placed, Tree, Translation, Emit, stage = "assertion"
  PROVE  Lists(policy, emitted', KindTexts(prog', clauseKinds'), Clause.assertion)
PROOF
<1> DEFINE n == Top.node
           id == Len(prog.code) + 1
           node == policy.nodes[n]
           r == Clause.assertion
           s == clauseKinds
           x == KindID(prog', node.evidence.kind)
           ks == KindTexts(prog', s)
           t == KindAt(policy, n)
<1>1. /\ Sound(prog) /\ Noted /\ Path /\ Owned /\ Numbered /\ Listing /\ policy \in Sources
      /\ emitted \in [Nodes(policy) -> 0..Len(prog.code)]
  BY DEF Translation, Tree, Placed, Path
<1>2. /\ Sound(prog') /\ Grown(prog, prog') /\ emitted' = [emitted EXCEPT ![n] = id]
      /\ n \in Nodes(policy) /\ emitted[n] = 0
      /\ node.op = "evidence_matches" => KnownKind(prog', node.evidence.kind)
  BY <1>1, EmitIs
<1>3. prog \in Programs /\ prog' \in Programs /\ Catalogued(prog) /\ Catalogued(prog')
  BY <1>1, <1>2 DEF Sound
<1>4. Len(prog.code) \in Nat /\ Len(prog.kinds) \in Nat /\ Len(prog'.kinds) \in Nat
        /\ Len(prog.kinds) <= Len(prog'.kinds)
  BY <1>2, <1>3, Lengths, GrownIs DEF Prefix
<1>5. /\ s \in Seq(Nat) /\ \A j \in 1..Len(s) : s[j] \in 1..Len(prog.kinds) BY <1>1 DEF Noted
<1>6. ks = KindTexts(prog, s) BY <1>2, <1>3, <1>5, KindTextsKept
<1>7. Lists(policy, emitted, ks, r) BY <1>1, <1>6 DEF Listing
<1>8. clauseKinds' = IF node.op = "evidence_matches" THEN NoteKind(s, x) ELSE s BY DEF Emit
<1>9. RootOf(policy)[n] = r
  <2> DEFINE k == Len(stack)
  <2>1. stack # <<>> /\ k \in 1..k BY <1>1, FramesAre DEF Emit, Expressing
  <2>2. RootOf(policy)[n] = RootOf(policy)[stack[1].node] BY <1>1, <2>1 DEF Path, Top
  <2>3. requirement \in 1..Len(policy.requirements) /\ clause \in 1..Len(Requirement.clauses)
    BY PassedIs
  <2>4. /\ clause \in 0..Len(Requirement.clauses) /\ Current(requirement, clause)
    BY <2>3, AssertionIs DEF Current, Now
  <2>5. RootAt(policy, requirement, clause) = r BY <2>3, AssertionIs
  <2>6. stack[1].node = r BY <1>1, <2>1, <2>3, <2>4, <2>5 DEF Owned, Requirement
  <2>7. r \in Nodes(policy) /\ r \in Roots(policy)
    BY <2>3, AssertionIs
  <2> HIDE DEF r
  <2> QED BY <1>1, <2>2, <2>6, <2>7, RootOfIs
<1> DEFINE E == TreeEvidence(policy, r)
<1>10. ASSUME NEW m \in E
       PROVE  (m # n => emitted'[m] = emitted[m]) /\ emitted[m] \in Nat /\ emitted[m] < id
  <2>1. m \in Nodes(policy) BY DEF TreeEvidence
  <2>2. emitted[m] \in 0..Len(prog.code) BY <1>1, <2>1
  <2> HIDE DEF n
  <2> QED BY <1>1, <1>2, <1>4, <2>1, <2>2
<1>11. emitted'[n] = id /\ id \in Nat /\ id # 0 BY <1>1, <1>2, <1>4
<1>12. CASE node.op = "evidence_matches"
  <2> DEFINE us == KindTexts(prog', NoteKind(s, x))
  <2>1. n \in E BY <1>2, <1>9, <1>12 DEF TreeEvidence
  <2>2. x \in 1..Len(prog'.kinds) /\ x \in Nat /\ Text(prog', prog'.kinds[x]) = t
    BY <1>2, <1>3, <1>12, KindIDIs DEF KindAt
  <2>3. \A j \in 1..Len(s) : s[j] \in 1..Len(prog'.kinds) BY <1>4, <1>5
  <2>4. KindTexts(prog', clauseKinds') = us BY <1>8, <1>12
  <2> HIDE DEF x, s, t
  <2>5. \/ us = ks /\ \E j \in 1..Len(ks) : ks[j] = t
        \/ /\ Len(us) = Len(ks) + 1 /\ us[Len(ks) + 1] = t
           /\ \A j \in 1..Len(ks) : us[j] = ks[j] /\ ks[j] # t
    BY <1>2, <1>5, <2>2, <2>3, KindTextsMore
  <2>6. Len(ks) \in Nat BY <1>5, KindTextsAre
  <2> DEFINE f == emitted'
  <2> HIDE DEF us, ks, n, id, r, f, E
  <2>7. /\ n \in TreeEvidence(policy, r) /\ id \in Nat /\ id # 0 /\ emitted[n] = 0 /\ f[n] = id
        /\ Lists(policy, emitted, ks, r) /\ Len(ks) \in Nat
        /\ \A m \in TreeEvidence(policy, r) :
             (m # n => f[m] = emitted[m]) /\ emitted[m] \in Nat /\ emitted[m] < id
        /\ \/ us = ks /\ \E j \in 1..Len(ks) : ks[j] = KindAt(policy, n)
           \/ /\ Len(us) = Len(ks) + 1 /\ us[Len(ks) + 1] = KindAt(policy, n)
              /\ \A j \in 1..Len(ks) : us[j] = ks[j] /\ ks[j] # KindAt(policy, n)
    BY <1>2, <1>7, <1>10, <1>11, <2>1, <2>5, <2>6 DEF f, E, t
  <2>8. Lists(policy, f, us, r) BY ONLY <2>7, ListsMore
  <2> QED BY <2>4, <2>8 DEF f, r
<1>13. CASE node.op # "evidence_matches"
  <2>1. n \notin E BY <1>13 DEF TreeEvidence
  <2>2. \A m \in TreeEvidence(policy, r) : emitted'[m] = emitted[m] BY <1>10, <2>1
  <2>3. KindTexts(prog', clauseKinds') = ks BY <1>8, <1>13
  <2> DEFINE f == emitted'
  <2> HIDE DEF r, ks, f
  <2>4. Lists(policy, f, ks, r) BY <1>7, <2>2, ListsKept DEF f
  <2> QED BY <2>3, <2>4 DEF f, r
<1> QED BY <1>12, <1>13

\* and their order.
LEMMA ListingKept ==
  ASSUME Placed, Tree, Translation, Compile
  PROVE  Listing'
PROOF
<1>1. Listing /\ Path /\ Owned /\ policy \in Sources BY DEF Translation, Tree, Placed
<1>2. CASE Emit /\ stage = "assertion"
  <2>1. Lists(policy, emitted', KindTexts(prog', clauseKinds'), Clause.assertion)
    BY <1>2, ListingEmit
  <2>2. policy' = policy /\ Clause.assertion' = Clause.assertion
    BY <1>2 DEF Emit, Clause, Requirement
  <2> QED BY <2>1, <2>2 DEF Listing
<1>3. CASE Descend
  <2>1. UNCHANGED <<policy, stage, prog, clauseKinds, requirement, clause, emitted>> BY <1>3 DEF Descend
  <2> QED BY <1>1, <2>1 DEF Listing, Clause, Requirement
<1>4. CASE BeginClause
  <2> DEFINE r == Clause.assertion
  <2>1. /\ stage = "clause" /\ clause <= Len(Requirement.clauses) /\ clauseKinds' = <<>>
        /\ policy' = policy /\ emitted' = emitted /\ Clause' = Clause /\ stack = <<>>
    BY <1>1, <1>4 DEF BeginClause, Express, Clause, Requirement, Path
  <2>2. requirement \in 1..Len(policy.requirements) /\ Len(Requirement.clauses) \in Nat
    BY <2>1, RequirementIs DEF Placed
  <2>3. clause \in 1..Len(Requirement.clauses) /\ clause \in Nat
    <3> DEFINE l == Len(Requirement.clauses)
    <3>1. clause \in Nat /\ clause # 0 /\ clause <= l /\ l \in Nat BY <2>1, <2>2 DEF Placed
    <3> HIDE DEF l
    <3>2. clause \in 1..l BY ONLY <3>1
    <3> QED BY <3>1, <3>2 DEF l
  <2>4. RootAt(policy, requirement, clause) = r /\ clause \in 0..Len(Requirement.clauses)
          /\ requirement \in Nat
    BY <2>2, <2>3, AssertionIs
  <2>5. r \in Nodes(policy) BY <2>2, <2>3, AssertionIs
  <2>6. ~Done(requirement, clause) /\ ~Current(requirement, clause)
    BY <2>1, <2>3, <2>4 DEF Done, Current
  <2>7. emitted[r] = 0 BY <1>1, <2>2, <2>4, <2>6 DEF Owned, Requirement
  <2> HIDE DEF r
  <2>8. \A m \in TreeEvidence(policy, r) : emitted[m] = 0
    BY <2>1, <2>5, <2>7, Unbegun DEF TreeEvidence
  <2>9. Len(KindTexts(prog', <<>>)) = 0
    <3>1. <<>> \in Seq(Nat) /\ Len(<<>>) = 0 BY EmptySeq
    <3> QED BY <3>1, KindTextsAre
  <2> DEFINE ks == KindTexts(prog', <<>>)
  <2>10. Lists(policy, emitted, ks, r)
    <3>1. \A j \in 1..Len(ks) : FALSE BY <2>9
    <3> HIDE DEF ks
    <3> QED BY <2>8, <3>1 DEF Lists
  <2>11. KindTexts(prog', clauseKinds') = ks BY <2>1
  <2> HIDE DEF ks
  <2>12. Lists(policy', emitted', KindTexts(prog', clauseKinds'), r) BY <2>1, <2>10, <2>11
  <2>13. r = Clause.assertion' BY <2>1 DEF r
  <2> QED BY <2>12, <2>13 DEF Listing
<1>5. CASE ~(Emit /\ stage = "assertion") /\ ~Descend /\ ~BeginClause
  <2>1. stage' # "assertion"
    BY <1>5 DEF Compile, Decode, Validate, BeginRequirement, EndApplicability, EndClause,
         EndRequirement, Emit, Finish
  <2> QED BY <2>1 DEF Listing
<1> QED BY <1>2, <1>3, <1>4, <1>5

LEMMA LinkingKept ==
  ASSUME NEW p \in Sources, NEW e, NEW f, NEW n \in Nodes(p), \A m \in Nodes(p) : m # n => f[m] = e[m]
  PROVE  Linking(p.nodes[n], f) = Linking(p.nodes[n], e)
PROOF
<1> DEFINE cs == ChildrenOf(p, n)
           node == p.nodes[n]
<1>1. DOMAIN cs = 1..Len(cs) /\ node.children = cs /\ n \in Nat BY SourceIs DEF ChildrenOf
<1>2. ASSUME NEW k \in DOMAIN cs PROVE f[cs[k]] = e[cs[k]]
  <2>1. k \in 1..Len(cs) BY <1>1
  <2>2. cs[k] \in Nodes(p) /\ n < cs[k] BY <2>1, TreeIs
  <2>3. cs[k] # n
    <3> DEFINE c == cs[k]
    <3>1. n < c BY <2>2
    <3> HIDE DEF c
    <3> QED BY <1>1, <3>1 DEF c
  <2> QED BY <2>2, <2>3
<1>3. [k \in DOMAIN cs |-> f[cs[k]]] = [k \in DOMAIN cs |-> e[cs[k]]] BY <1>2
<1> HIDE DEF cs, node
<1> QED BY <1>1, <1>3 DEF Linking, node

\* The instruction just emitted says what its node does.
LEMMA RowedEmit ==
  ASSUME Placed, Tree, Translation, Emit
  PROVE  Rowed'
PROOF
<1> DEFINE n == Top.node
           id == Len(prog.code) + 1
           node == policy.nodes[n]
           f == emitted'
           t == prog'
           p == policy'
<1>1. /\ Sound(prog) /\ Path /\ Numbered /\ policy \in Sources
      /\ emitted \in [Nodes(policy) -> 0..Len(prog.code)]
  BY DEF Translation, Tree, Placed, Path
<1>2. /\ Sound(prog') /\ Grown(prog, prog') /\ SameClauses(prog, prog') /\ policy' = policy
      /\ emitted' = [emitted EXCEPT ![n] = id] /\ n \in Nodes(policy) /\ emitted[n] = 0
      /\ Small(node) => ValidInstruction(prog', id) /\ Meaning(prog', id) = Linking(node, emitted)
  <2>1. Linking(node, emitted) = [node EXCEPT !.children = [k \in DOMAIN @ |-> emitted[@[k]]]]
    BY DEF Linking
  <2> HIDE DEF id, node
  <2> QED BY <1>1, <2>1, EmitIs DEF id, node
<1>3. f[n] = id /\ \A m \in Nodes(policy) : m # n => f[m] = emitted[m] BY <1>1, <1>2
<1>4. \A m \in Nodes(policy) : emitted[m] # 0 => f[m] = emitted[m] BY <1>2, <1>3
<1>5. /\ \A r \in 1..Len(prog.requirements) : AskRow(policy, prog', emitted', r)
      /\ \A k \in 1..Len(prog.clauses) : ClauseRow(policy, prog', emitted', k)
      /\ \A m \in Nodes(policy) : emitted[m] # 0 => CodeRow(policy, prog', emitted', m)
  <2> HIDE DEF n
  <2> QED BY <1>2, <1>4, RowedKept
<1> HIDE DEF f, t, p
<1>6. CodeRow(policy, t, f, n)
  <2>1. Linking(node, f) = Linking(node, emitted)
    <3> HIDE DEF n
    <3> QED BY <1>1, <1>2, <1>3, LinkingKept
  <2> HIDE DEF n, id, node
  <2>2. Small(node) => ValidInstruction(t, f[n]) /\ Meaning(t, f[n]) = Linking(node, f)
    BY <1>2, <1>3, <2>1 DEF t
  <2> QED BY <2>2 DEF CodeRow, node
<1> HIDE DEF n, id, node
<1>7. /\ \A r \in 1..Len(t.requirements) : AskRow(p, t, f, r)
      /\ \A k \in 1..Len(t.clauses) : ClauseRow(p, t, f, k)
      /\ \A m \in Nodes(p) : f[m] # 0 => CodeRow(p, t, f, m)
  <2>1. t.requirements = prog.requirements /\ t.clauses = prog.clauses /\ p = policy
    BY <1>2 DEF SameClauses, t, p
  <2>2. ASSUME NEW m \in Nodes(policy), f[m] # 0 PROVE CodeRow(policy, t, f, m)
    <3>1. CASE m = n BY <1>6, <3>1
    <3>2. CASE m # n
      <4>1. emitted[m] # 0 BY <1>3, <2>2, <3>2
      <4> QED BY <1>5, <4>1 DEF t, f
    <3> QED BY <3>1, <3>2
  <2> QED BY <1>5, <2>1, <2>2 DEF t, f
<1> QED BY <1>7 DEF Rowed, f, t, p

\* The requirement just ended has its row,
LEMMA RowedAsk ==
  ASSUME Placed, Tree, Translation, EndApplicability
  PROVE  Rowed'
PROOF
<1> DEFINE n == Len(prog.requirements) + 1
           a == prog'.requirements[n]
           f == emitted'
           t == prog'
           p == policy'
<1>1. /\ Sound(prog) /\ Path /\ Owned /\ Tallied /\ Named /\ prog \in Programs
  BY DEF Translation, Tree, Sound
<1>2. /\ Sound(prog') /\ Grown(prog, prog') /\ SameContent(prog, prog')
      /\ Len(prog'.requirements) = n
      /\ a.symbol \in 1..Len(prog'.symbols) /\ Text(prog', a.symbol) = Requirement.id
      /\ a.root = emitted[Requirement.applicability] /\ a.root # 0
      /\ a.clauseStart = Passed /\ a.clauseCount = Len(Requirement.clauses)
  BY <1>1, EndApplicabilityIs
<1>3. policy' = policy /\ emitted' = emitted /\ stage = "applicability" BY DEF EndApplicability
<1>4. /\ \A r \in 1..Len(prog.requirements) : AskRow(policy, t, f, r)
      /\ \A k \in 1..Len(prog.clauses) : ClauseRow(policy, t, f, k)
      /\ \A m \in Nodes(policy) : emitted[m] # 0 => CodeRow(policy, t, f, m)
  BY <1>2, <1>3, RowedKept
<1>5. n = requirement /\ Len(prog.requirements) \in Nat /\ requirement \in 1..Len(policy.requirements)
  <2>1. Len(prog.requirements) = requirement - 1 BY <1>1, <1>3 DEF Tallied
  <2>2. requirement \in 1..Len(policy.requirements) BY <1>3, RequirementIs DEF Placed
  <2>3. Len(policy.requirements) \in Nat BY SourceIs DEF Placed
  <2>4. Len(prog.requirements) \in Nat BY <1>1, Lengths
  <2> DEFINE x == Len(prog.requirements)
             y == Len(policy.requirements)
  <2> HIDE DEF x, y
  <2>5. x = requirement - 1 /\ requirement \in 1..y /\ y \in Nat BY <2>1, <2>2, <2>3 DEF x, y
  <2>6. x + 1 = requirement BY ONLY <2>5
  <2> QED BY <2>2, <2>4, <2>6 DEF x
<1>6. Passed = Base(policy)[requirement - 1]
  <2> DEFINE x == Base(policy)[requirement - 1]
  <2>1. Passed = x + 0 BY <1>3 DEF Passed
  <2>2. x \in Nat
    <3> DEFINE m == Len(policy.requirements)
               b == Base(policy)
    <3>1. b \in [0..m -> Nat] /\ m \in Nat /\ requirement \in 1..m
      BY <1>5, PiecesAre, SourceIs DEF Placed
    <3> HIDE DEF b, m
    <3>2. requirement - 1 \in 0..m BY <3>1
    <3> QED BY <3>1, <3>2 DEF b
  <2> HIDE DEF x
  <2>3. Passed = x BY <2>1, <2>2
  <2> QED BY <2>3 DEF x
<1> HIDE DEF f, t, p, a
<1>7. AskRow(policy, t, f, n)
  <2>1. a = t.requirements[n] BY DEF a, t
  <2>2. f = emitted BY <1>3 DEF f
  <2> HIDE DEF n
  <2> QED BY <1>2, <1>5, <1>6, <2>1, <2>2 DEF AskRow, Requirement, t
<1>8. /\ \A r \in 1..Len(t.requirements) : AskRow(p, t, f, r)
      /\ \A k \in 1..Len(t.clauses) : ClauseRow(p, t, f, k)
      /\ \A m \in Nodes(p) : f[m] # 0 => CodeRow(p, t, f, m)
  <2>1. Len(t.requirements) = n /\ t.clauses = prog.clauses /\ p = policy /\ f = emitted
    BY <1>2, <1>3 DEF SameContent, t, p, f
  <2>2. \A r \in 1..n : r = n \/ r \in 1..Len(prog.requirements) BY <1>5
  <2> HIDE DEF n
  <2> QED BY <1>4, <1>7, <2>1, <2>2
<1> QED BY <1>8 DEF Rowed, f, t, p

\* and so has the clause.
LEMMA RowedRule ==
  ASSUME Placed, Tree, Translation, EndClause
  PROVE  Rowed'
PROOF
<1> DEFINE n == Passed + 1
           f == emitted'
           t == prog'
           p == policy'
<1>1. /\ Sound(prog) /\ Path /\ Owned /\ Tallied /\ Named /\ Noted /\ Listing /\ prog \in Programs
  BY DEF Translation, Tree, Sound
<1>2. /\ Sound(prog') /\ Grown(prog, prog') /\ SameInstructions(prog, prog')
      /\ Len(prog'.clauses) = n /\ emitted[Clause.assertion] # 0
      /\ ClauseMeaning(prog', prog'.clauses[n]) = Placing(Clause, emitted)
      /\ KindsOf(prog', prog'.clauses[n]) = KindTexts(prog, clauseKinds)
  BY <1>1, EndClauseIs DEF Placing
<1>3. policy' = policy /\ emitted' = emitted /\ stage = "assertion" BY DEF EndClause
<1>4. /\ \A r \in 1..Len(prog.requirements) : AskRow(policy, t, f, r)
      /\ \A k \in 1..Len(prog.clauses) : ClauseRow(policy, t, f, k)
      /\ \A m \in Nodes(policy) : emitted[m] # 0 => CodeRow(policy, t, f, m)
  BY <1>2, <1>3, RowedKept
<1>5. n = Len(prog.clauses) + 1 /\ Len(prog.clauses) \in Nat /\ SourceClauses(policy)[n] = Clause
  BY <1>1, <1>3, Lengths, PassedIs DEF Tallied
<1>6. Lists(policy, emitted, KindTexts(prog, clauseKinds), Clause.assertion)
  BY <1>1, <1>3 DEF Listing
<1> HIDE DEF f, t, p
<1>7. ClauseRow(policy, t, f, n)
  <2>1. f = emitted BY <1>3 DEF f
  <2> DEFINE c == Clause
             ks == KindTexts(prog, clauseKinds)
  <2> HIDE DEF n, c, ks
  <2>2. /\ SourceClauses(policy)[n] = c /\ f[c.assertion] # 0
        /\ ClauseMeaning(t, t.clauses[n]) = Placing(c, f)
        /\ KindsOf(t, t.clauses[n]) = ks /\ Lists(policy, f, ks, c.assertion)
    BY <1>2, <1>5, <1>6, <2>1 DEF c, ks, t
  <2> QED BY ONLY <2>2 DEF ClauseRow
<1>8. /\ \A r \in 1..Len(t.requirements) : AskRow(p, t, f, r)
      /\ \A k \in 1..Len(t.clauses) : ClauseRow(p, t, f, k)
      /\ \A m \in Nodes(p) : f[m] # 0 => CodeRow(p, t, f, m)
  <2>1. Len(t.clauses) = n /\ t.requirements = prog.requirements /\ p = policy /\ f = emitted
    BY <1>2, <1>3 DEF SameInstructions, t, p, f
  <2>2. \A k \in 1..n : k = n \/ k \in 1..Len(prog.clauses) BY <1>5
  <2> HIDE DEF n
  <2> QED BY <1>4, <1>7, <2>1, <2>2
<1> QED BY <1>8 DEF Rowed, f, t, p

\* Every step keeps the translation.
LEMMA TranslationKept ==
  ASSUME Placed, Tree, Translation, Compile
  PROVE  Translation'
PROOF
<1>1. Sound(prog) /\ Path /\ Numbered BY DEF Translation, Tree
<1>2. Sound(prog') /\ Grown(prog, prog')
  <2>1. CASE Emit BY <1>1, <2>1, EmitIs
  <2>2. CASE ~Emit BY <2>2, CodeLeft
  <2> QED BY <2>1, <2>2
<1>3. Rowed'
  <2>1. CASE Emit BY <2>1, RowedEmit
  <2>2. CASE EndApplicability BY <2>2, RowedAsk
  <2>3. CASE EndClause BY <2>3, RowedRule
  <2>4. CASE BeginRequirement
    <3>1. SameRows(prog, prog') BY <1>1, <2>4, BeginRequirementIs
    <3>2. ~Emit BY <2>4 DEF BeginRequirement, Emit, Expressing
    <3> QED BY <3>1, <3>2, RowedLeft DEF SameRows
  <2>5. CASE BeginClause
    <3>1. prog'.requirements = prog.requirements /\ prog'.clauses = prog.clauses
      BY <1>1, <2>5, BeginClauseIs DEF Translation
    <3>2. ~Emit BY <2>5 DEF BeginClause, Emit, Expressing
    <3> QED BY <3>1, <3>2, RowedLeft
  <2>6. CASE (Decode \/ Validate \/ EndRequirement \/ Descend \/ Finish) /\ ~Emit
    <3>1. prog' = prog BY <2>6 DEF Decode, Validate, EndRequirement, Descend, Finish, control
    <3> QED BY <2>6, <3>1, RowedLeft
  <2> QED BY <2>1, <2>2, <2>3, <2>4, <2>5, <2>6 DEF Compile
<1>4. Tallied' /\ Named' /\ Noted' /\ Listing' BY <1>2, TalliedKept, NamedKept, NotedKept, ListingKept
<1>5. Sound(prog)' BY <1>2
<1> QED BY <1>3, <1>4, <1>5 DEF Translation

\* When every requirement is through, the rows are the document's.
LEMMA FinishedIs ==
  ASSUME Placed, Tree, Translation, Admitted(policy),
         stage \in {"requirement", "compiled"}, requirement = Len(policy.requirements) + 1
  PROVE  /\ Len(prog.requirements) = Len(policy.requirements) /\ Len(policy.requirements) # 0
         /\ Len(prog.clauses) = Len(SourceClauses(policy)) /\ Len(SourceClauses(policy)) # 0
         /\ Len(prog.clauseIDs) = Len(SourceClauses(policy))
         /\ \A k \in 1..Len(prog.clauseIDs) : prog.clauseIDs[k] = k
         /\ \A r \in 1..Len(policy.requirements) :
              LET a   == prog.requirements[r]
                  ids == ClausesOf(prog, a)
                  l   == Len(policy.requirements[r].clauses) IN
              /\ AskRow(policy, prog, emitted, r) /\ a.root \in 1..Len(prog.code)
              /\ a.clauseStart + a.clauseCount <= Len(prog.clauseIDs)
              /\ ids \in Seq(Nat) /\ Len(ids) = l /\ DOMAIN ids = 1..l
              /\ \A j \in 1..l : ids[j] = Base(policy)[r - 1] + j
PROOF
<1> DEFINE m == Len(policy.requirements)
           n == Len(SourceClauses(policy))
           b == Base(policy)
<1>1. /\ policy \in Sources /\ Sound(prog) /\ prog \in Programs /\ Tallied /\ Rowed /\ Path
      /\ m \in Nat
  BY SourceIs DEF Placed, Tree, Translation, Sound
<1>2. /\ b \in [0..m -> Nat] /\ b[0] = 0 /\ n = b[m] /\ n \in Nat
      /\ \A r \in 1..m : b[r] = b[r - 1] + Len(policy.requirements[r].clauses)
  BY <1>1, PiecesAre
<1>3. m # 0 /\ \A r \in 1..m : Len(policy.requirements[r].clauses) # 0
  BY <1>1, AdmittedIs
<1>4. \A r \in 1..m : Len(policy.requirements[r].clauses) \in Nat BY <1>1, SourceIs
<1>5. Passed = n
  <2> HIDE DEF m, n, b
  <2>1. (m + 1) - 1 = m BY <1>1
  <2>2. Passed = b[m] + 0 BY <2>1 DEF Passed, m, b
  <2> QED BY <1>2, <2>2
<1>6. Len(prog.requirements) = m
  <2>1. Len(prog.requirements) = requirement - 1 BY <1>1 DEF Tallied
  <2> HIDE DEF m
  <2> QED BY <1>1, <2>1 DEF m
<1>7. Len(prog.clauses) = n /\ Len(prog.clauseIDs) = n /\ \A k \in 1..Len(prog.clauseIDs) : prog.clauseIDs[k] = k
  BY <1>1, <1>5 DEF Tallied
<1>8. n # 0
  <2>1. 1 \in 1..m
    <3> HIDE DEF m
    <3> QED BY <1>1, <1>3
  <2>2. 1 \in 1..Len(policy.requirements[1].clauses)
    <3> DEFINE l == Len(policy.requirements[1].clauses)
    <3>1. l \in Nat /\ l # 0 BY <1>3, <1>4, <2>1
    <3> HIDE DEF l
    <3> QED BY <3>1 DEF l
  <2>3. b[1 - 1] + 1 \in 1..n BY <1>1, <2>1, <2>2, PiecesAre
  <2> HIDE DEF n
  <2> QED BY <1>2, <2>3
<1>9. \A r \in 0..m : b[r] <= n
  <2>1. Pieces(policy) \in Seq(Seq(ClauseSource)) /\ Len(Pieces(policy)) = m BY <1>1, PiecesAre
  <2>2. \E x : Offsets(Pieces(policy), x) BY <2>1, OffsetsExist
  <2>3. Offsets(Pieces(policy), b) BY <2>2 DEF Base
  <2> HIDE DEF b, m
  <2>4. m \in 0..m BY <1>1
  <2> QED BY SMTT(30), <1>2, <2>1, <2>3, <2>4, OffsetsGrow
<1>10. ASSUME NEW r \in 1..m
       PROVE  LET a   == prog.requirements[r]
                  ids == ClausesOf(prog, a)
                  l   == Len(policy.requirements[r].clauses) IN
              /\ AskRow(policy, prog, emitted, r) /\ a.root \in 1..Len(prog.code)
              /\ a.clauseStart + a.clauseCount <= Len(prog.clauseIDs)
              /\ ids \in Seq(Nat) /\ Len(ids) = l /\ DOMAIN ids = 1..l
              /\ \A j \in 1..l : ids[j] = b[r - 1] + j
  <2> DEFINE a == prog.requirements[r]
             l == Len(policy.requirements[r].clauses)
             s == prog.clauseIDs
             x == b[r - 1]
  <2>1. AskRow(policy, prog, emitted, r) BY <1>1, <1>6 DEF Rowed
  <2>2. a.root = emitted[policy.requirements[r].applicability] /\ a.root # 0
          /\ a.clauseStart = x /\ a.clauseCount = l
    BY <2>1 DEF AskRow
  <2>3. l \in Nat /\ x \in Nat /\ x + l <= n
    <3> HIDE DEF m, b, n
    <3>1. l \in Nat /\ b[r] = x + l /\ r \in 0..m /\ r - 1 \in 0..m BY <1>1, <1>2, <1>4 DEF b, m
    <3> QED BY <1>2, <1>9, <3>1
  <2>4. a.root \in 1..Len(prog.code)
    <3> DEFINE q == policy.requirements[r].applicability
    <3>1. RootAt(policy, r, 0) = q BY DEF RootAt
    <3>2. 0 \in 0..l BY <2>3
    <3>3. \A k \in 0..l : RootAt(policy, r, k) \in Nodes(policy) BY <1>1, RootAtIs
    <3>4. q \in Nodes(policy) BY <3>1, <3>2, <3>3
    <3>5. emitted[q] \in 0..Len(prog.code) BY <1>1, <3>4 DEF Path
    <3>6. Len(prog.code) \in Nat BY <1>1, Lengths
    <3> QED BY <2>2, <3>5, <3>6
  <2>5. s \in Seq(Nat) /\ Len(s) = n BY <1>1, <1>7, Columns
  <2> HIDE DEF a, l, x, s, n, b, m
  <2> DEFINE ids == Slice(s, x, l)
  <2>6. /\ ids \in Seq(Nat) /\ Len(ids) = l /\ DOMAIN ids = 1..l
        /\ \A k \in 1..l : x + k \in 1..Len(s) /\ ids[k] = s[x + k]
    BY <2>3, <2>5, IdSlice
  <2>7. ClausesOf(prog, a) = ids BY <2>2 DEF ClausesOf, s
  <2> HIDE DEF ids
  <2>8. \A k \in 1..l : ids[k] = x + k BY <1>7, <2>6 DEF s
  <2> QED BY <2>1, <2>2, <2>3, <2>4, <2>5, <2>6, <2>7, <2>8 DEF a, l, x, s, b
<1> QED BY <1>3, <1>6, <1>7, <1>8, <1>10

\* validateRequirements accepts a finished program: every clause has one requirement.
LEMMA RequirementsValid ==
  ASSUME Placed, Tree, Translation, Admitted(policy),
         stage \in {"requirement", "compiled"}, requirement = Len(policy.requirements) + 1
  PROVE  ValidRequirements(prog)
PROOF
<1> DEFINE m == Len(policy.requirements)
           n == Len(SourceClauses(policy))
           b == Base(policy)
           p == prog
           pieces == [r \in DOMAIN p.requirements |-> ClausesOf(p, p.requirements[r])]
           owned == FlattenSeq(pieces)
<1>1. /\ policy \in Sources /\ Sound(p) /\ p \in Programs /\ m \in Nat /\ n \in Nat
      /\ \A r \in 1..m : Len(policy.requirements[r].clauses) \in Nat
  BY SourceIs, PiecesAre DEF Placed, Translation, Sound
<1>2. /\ b \in [0..m -> Nat] /\ b[0] = 0 /\ n = b[m]
      /\ \A r \in 1..m : b[r] = b[r - 1] + Len(policy.requirements[r].clauses)
  BY <1>1, PiecesAre
<1>3. /\ Len(p.requirements) = m /\ m # 0 /\ Len(p.clauses) = n /\ n # 0 /\ Len(p.clauseIDs) = n
      /\ \A k \in 1..n : p.clauseIDs[k] = k
  BY FinishedIs
<1>4. \A r \in 1..m :
        LET a   == p.requirements[r]
            ids == ClausesOf(p, a)
            l   == Len(policy.requirements[r].clauses) IN
        /\ AskRow(policy, p, emitted, r) /\ a.root \in 1..Len(p.code)
        /\ a.clauseStart + a.clauseCount <= Len(p.clauseIDs)
        /\ ids \in Seq(Nat) /\ Len(ids) = l /\ DOMAIN ids = 1..l
        /\ \A j \in 1..l : ids[j] = b[r - 1] + j
  BY FinishedIs
<1>5. /\ DOMAIN p.requirements = 1..m /\ DOMAIN p.clauses = 1..n
      /\ p.requirements # <<>> /\ p.clauses # <<>>
  <2>1. DOMAIN p.requirements = 1..Len(p.requirements) /\ DOMAIN p.clauses = 1..Len(p.clauses)
    BY <1>1, Columns, SeqShape
  <2> HIDE DEF m, n
  <2> QED BY <1>3, <2>1, EmptySeq
<1> HIDE DEF p, m, n, b
<1>6. \A r \in 1..m : \A j \in 1..Len(policy.requirements[r].clauses) : b[r - 1] + j \in 1..n
  BY <1>1, PiecesAre DEF m, b, n
<1>7. ASSUME NEW q \in Range(p.requirements)
      PROVE  /\ ValidID(q.symbol, p.symbols) /\ ValidID(q.root, p.code)
             /\ ValidRange(q.clauseStart, q.clauseCount, p.clauseIDs)
             /\ \A c \in Range(ClausesOf(p, q)) : ValidID(c, p.clauses)
  <2>1. PICK r \in 1..m : q = p.requirements[r] BY <1>5 DEF Range
  <2> DEFINE ids == ClausesOf(p, q)
             l == Len(policy.requirements[r].clauses)
  <2>2. /\ AskRow(policy, p, emitted, r) /\ q.root \in 1..Len(p.code)
        /\ q.clauseStart + q.clauseCount <= Len(p.clauseIDs)
        /\ DOMAIN ids = 1..l /\ \A j \in 1..l : ids[j] = b[r - 1] + j
    BY <1>4, <2>1
  <2>3. q.symbol \in 1..Len(p.symbols) BY <2>1, <2>2 DEF AskRow
  <2>4. \A c \in Range(ids) : c \in 1..n
    <3> HIDE DEF ids
    <3> QED BY <1>6, <2>2 DEF Range
  <2> QED BY <1>3, <2>2, <2>3, <2>4 DEF ValidID, ValidRange
<1>8. pieces \in Seq(Seq(Nat)) /\ Len(pieces) = m /\ \A r \in 1..m :
        /\ Len(pieces[r]) = Len(policy.requirements[r].clauses)
        /\ \A j \in 1..Len(pieces[r]) : pieces[r][j] = b[r - 1] + j
  <2>1. \A r \in 1..m : ClausesOf(p, p.requirements[r]) \in Seq(Nat) BY <1>4
  <2>2. pieces = [r \in 1..m |-> ClausesOf(p, p.requirements[r])] BY <1>5
  <2> HIDE DEF pieces
  <2>3. pieces \in [1..m -> Seq(Nat)] BY <2>1, <2>2
  <2>4. pieces \in Seq(Seq(Nat)) /\ Len(pieces) = m BY <1>1, <2>3, FunctionIsSeq
  <2>5. \A r \in 1..m : pieces[r] = ClausesOf(p, p.requirements[r]) BY <2>2
  <2> QED BY <1>4, <2>4, <2>5
<1> HIDE DEF pieces
<1>9. Offsets(pieces, b) BY <1>2, <1>8 DEF Offsets
<1>10. owned \in Seq(Nat) /\ Laid(owned, pieces, b, Len(pieces)) BY <1>8, <1>9, FlattenIs
<1> HIDE DEF owned
<1>11. Len(owned) = n /\ \A i \in 1..n : owned[i] = i
  <2>1. Laid(owned, pieces, b, m) BY <1>8, <1>10
  <2>2. Len(owned) = n BY <1>2, <2>1 DEF Laid
  <2>3. ASSUME NEW i \in 1..n PROVE owned[i] = i
    <3>1. PICK r \in 1..m : \E j \in 1..Len(pieces[r]) : i = b[r - 1] + j BY <2>1, <2>2 DEF Laid
    <3>2. PICK j \in 1..Len(pieces[r]) : i = b[r - 1] + j BY <3>1
    <3>3. owned[b[r - 1] + j] = pieces[r][j] BY <2>1 DEF Laid
    <3> QED BY <1>8, <3>2, <3>3
  <2> QED BY <2>2, <2>3
<1>12. DOMAIN owned = 1..n BY <1>10, <1>11, SeqShape
<1>13. IsInjective(owned) /\ Range(owned) = DOMAIN p.clauses
  BY <1>5, <1>11, <1>12 DEF IsInjective, Range
<1> QED BY <1>5, <1>7, <1>13 DEF ValidRequirements, owned, pieces, p

\* Program.Validate accepts what was compiled from small sets.
LEMMA Whole ==
  ASSUME Placed, Tree, Translation, Admitted(policy), stage = "requirement",
         requirement = Len(policy.requirements) + 1, \A n \in Nodes(policy) : Small(policy.nodes[n])
  PROVE  ValidProgram(prog)
PROOF
<1> DEFINE p == prog
<1>1. /\ policy \in Sources /\ Sound(p) /\ p \in Programs /\ Catalogued(p) /\ Rows(p) /\ Rowed
      /\ Path /\ Numbered
  BY DEF Placed, Translation, Sound, Tree
<1>2. /\ DOMAIN p.code = 1..Len(p.code) /\ DOMAIN p.specs = 1..Len(p.specs)
      /\ DOMAIN p.kinds = 1..Len(p.kinds) /\ DOMAIN p.explanations = 1..Len(p.explanations)
      /\ DOMAIN p.clauses = 1..Len(p.clauses) /\ DOMAIN p.clauseKinds = 1..Len(p.clauseKinds)
      /\ DOMAIN p.clauseRemediations = 1..Len(p.clauseRemediations)
      /\ DOMAIN p.remediations = 1..Len(p.remediations)
  BY <1>1, Columns, SeqShape
<1>3. ValidRequirements(p) BY RequirementsValid
<1>4. p.code # <<>> /\ p.symbols # <<>> /\ NoSymbol \notin Range(p.symbols)
  <2> DEFINE q == p.requirements[1]
  <2>1. 1 \in 1..Len(policy.requirements)
    <3>1. Len(policy.requirements) \in Nat /\ Len(policy.requirements) # 0 BY <1>1, SourceIs, AdmittedIs
    <3> QED BY <3>1
  <2>2. q.root \in 1..Len(p.code) /\ AskRow(policy, p, emitted, 1) BY <2>1, FinishedIs
  <2>3. q.symbol \in 1..Len(p.symbols) BY <2>2 DEF AskRow
  <2>4. Len(p.code) \in Nat /\ Len(p.symbols) \in Nat BY <1>1, Lengths
  <2> HIDE DEF q
  <2>5. Len(p.code) # 0 /\ Len(p.symbols) # 0 BY <2>2, <2>3, <2>4
  <2> QED BY <1>1, <2>5, EmptySeq DEF Catalogued
<1>5. ASSUME NEW i \in 1..Len(p.code) PROVE ValidInstruction(p, i)
  <2>1. PICK n \in Nodes(policy) : emitted[n] = i BY <1>1 DEF Numbered
  <2>2. i # 0 BY <1>1, Lengths
  <2>3. CodeRow(policy, p, emitted, n) BY <1>1, <2>1, <2>2 DEF Rowed
  <2> HIDE DEF p
  <2> QED BY <2>1, <2>3 DEF CodeRow
<1>6. /\ \A spec \in Range(p.specs) : ValidSpec(p, spec)
      /\ \A s \in Range(p.kinds) \cup Range(p.explanations) : ValidID(s, p.symbols)
      /\ \A c \in Range(p.clauses) : ValidClause(p, c)
      /\ \A id \in Range(p.clauseRemediations) : ValidID(id, p.remediations)
      /\ \A id \in Range(p.clauseKinds) : ValidID(id, p.kinds)
      /\ \A x \in Range(p.remediations) : ValidRemediationSpec(p, x)
  <2> HIDE DEF p
  <2>1. \A spec \in Range(p.specs) : ValidSpec(p, spec) BY <1>1, <1>2 DEF Rows, Range
  <2>2. \A s \in Range(p.kinds) \cup Range(p.explanations) : ValidID(s, p.symbols)
    BY <1>1, <1>2 DEF Catalogued, Range, ValidID
  <2>3. \A c \in Range(p.clauses) : ValidClause(p, c) BY <1>1, <1>2 DEF Rows, Range
  <2>4. \A id \in Range(p.clauseRemediations) : ValidID(id, p.remediations)
    BY <1>1, <1>2 DEF Rows, Range, ValidID
  <2>5. \A id \in Range(p.clauseKinds) : ValidID(id, p.kinds) BY <1>1, <1>2 DEF Rows, Range, ValidID
  <2>6. \A x \in Range(p.remediations) : ValidRemediationSpec(p, x) BY <1>1, <1>2 DEF Rows, Range
  <2> QED BY <2>1, <2>2, <2>3, <2>4, <2>5, <2>6
<1>7. IsInjective(OutcomePrecedence) /\ Range(OutcomePrecedence) = Outcomes
  <2> DEFINE s == OutcomePrecedence
  <2>1. DOMAIN s = 1..4 /\ s[1] = 1 /\ s[2] = 4 /\ s[3] = 2 /\ s[4] = 3 BY DEF OutcomePrecedence
  <2>2. Outcomes = 1..4 BY DEF Outcomes, OutcomeCount
  <2> HIDE DEF s
  <2>3. \A i \in 1..4 : i = 1 \/ i = 2 \/ i = 3 \/ i = 4 OBVIOUS
  <2>4. IsInjective(s) BY <2>1, <2>3 DEF IsInjective
  <2>5. Range(s) = 1..4 BY <2>1, <2>3 DEF Range
  <2> QED BY <2>2, <2>4, <2>5 DEF s
<1> HIDE DEF p
<1> QED BY <1>2, <1>3, <1>4, <1>5, <1>6, <1>7 DEF ValidProgram, p

\* Every step keeps the verdict.
LEMMA JudgedKept ==
  ASSUME Placed, Tree, Translation, Judged, Compile
  PROVE  Judged'
PROOF
<1>1. CASE Finish
  <2>1. /\ stage = "requirement" /\ requirement > Len(policy.requirements)
        /\ stage' = IF ValidProgram(prog) THEN "compiled" ELSE "invalid program"
        /\ prog' = prog /\ policy' = policy
    BY <1>1 DEF Finish
  <2>2. requirement = Len(policy.requirements) + 1
    <3> DEFINE m == Len(policy.requirements)
    <3>1. m \in Nat /\ requirement \in 1..(m + 1) /\ requirement > m BY <2>1, SourceIs DEF Placed
    <3> HIDE DEF m
    <3> QED BY <3>1 DEF m
  <2>3. Admitted(policy) BY <2>1 DEF Placed
  <2>4. ~ValidProgram(prog) => \E n \in Nodes(policy) : ~Small(policy.nodes[n])
    BY <2>1, <2>2, <2>3, Whole
  <2>5. stage' = "compiled" => ValidProgram(prog') BY <2>1
  <2>6. stage' = "invalid program" => \E n \in Nodes(policy') : ~Small(policy'.nodes[n])
    BY <2>1, <2>4
  <2> QED BY <2>5, <2>6 DEF Judged
<1>2. CASE ~Finish
  <2>1. stage' \notin {"compiled", "invalid program"}
    BY <1>2 DEF Compile, Decode, Validate, BeginRequirement, EndApplicability, BeginClause, EndClause,
         EndRequirement, Descend, Emit, Expressing
  <2> QED BY <2>1 DEF Judged
<1> QED BY <1>1, <1>2

\* The empty program is sound.
LEMMA NoProgramIs ==
  /\ Sound(NoProgram)
  /\ NoProgram.code = <<>> /\ NoProgram.specs = <<>> /\ NoProgram.clauses = <<>>
  /\ NoProgram.clauseIDs = <<>> /\ NoProgram.requirements = <<>>
  /\ NoProgram.explanations = <<>> /\ NoProgram.remediations = <<>> /\ NoProgram.kinds = <<>>
PROOF
<1> DEFINE p == NoProgram
<1>1. /\ p.symbols = <<>> /\ p.code = <<>> /\ p.operands = <<>> /\ p.setValues = <<>>
      /\ p.specs = <<>> /\ p.kinds = <<>> /\ p.requirements = <<>> /\ p.clauseIDs = <<>>
      /\ p.clauses = <<>> /\ p.clauseKinds = <<>> /\ p.clauseRemediations = <<>>
      /\ p.remediations = <<>> /\ p.explanations = <<>>
  BY DEF NoProgram
<1>2. p \in Programs
  <2>1. /\ <<>> \in Seq(Texts) /\ <<>> \in Seq(Codes) /\ <<>> \in Seq(Nat) /\ <<>> \in Seq(Specs)
        /\ <<>> \in Seq(Asks) /\ <<>> \in Seq(Rules) /\ <<>> \in Seq(Cures)
    BY EmptySeq
  <2> QED BY <2>1 DEF NoProgram, Programs
<1>3. Len(<<>>) = 0 /\ DOMAIN <<>> = {} /\ Range(<<>>) = {} BY EmptySeq DEF Range
<1>4. \A k \in 1..Len(<<>>) : FALSE BY <1>3
<1> HIDE DEF p
<1>5. IsInjective(<<>>) BY <1>3 DEF IsInjective
<1>6. Catalogued(p) BY <1>1, <1>3, <1>4, <1>5 DEF Catalogued
<1>7. Rows(p) BY <1>1, <1>3, <1>4 DEF Rows
<1> QED BY <1>1, <1>2, <1>6, <1>7 DEF Sound, p

\* The invariant holds at first, and every step keeps it.
LEMMA InvariantStarts ==
  ASSUME Init
  PROVE  CompilerInv
PROOF
<1> DEFINE m == Len(policy.requirements)
<1>1. Placed /\ policy \in Sources BY PlacedInit DEF Placed
<1>2. /\ stage = "decode" /\ prog = NoProgram /\ stack = <<>> /\ root = 0 /\ clauseKinds = <<>>
      /\ requirement = 1 /\ clause = 1 /\ emitted = [n \in Nodes(policy) |-> 0]
  BY DEF Init
<1>3. m \in Nat /\ \A r \in 1..m : Len(policy.requirements[r].clauses) \in Nat BY <1>1, SourceIs
<1>4. Len(<<>>) = 0 /\ <<>> \in Seq(Nat) /\ <<>> \in Seq(Frames(policy)) BY EmptySeq
<1>5. \A k \in 1..Len(<<>>) : FALSE BY <1>4
<1>6. /\ Sound(prog) /\ prog.code = <<>> /\ prog.specs = <<>> /\ prog.clauses = <<>>
      /\ prog.clauseIDs = <<>> /\ prog.requirements = <<>>
      /\ prog.explanations = <<>> /\ prog.remediations = <<>>
  BY <1>2, NoProgramIs
<1>7. Path
  <2>1. emitted \in [Nodes(policy) -> 0..Len(prog.code)] /\ root \in 0..Len(prog.code)
    BY <1>2, <1>4, <1>6
  <2> QED BY <1>2, <1>4, <1>5, <2>1 DEF Path
<1>8. \A n \in Nodes(policy) : emitted[n] = 0 BY <1>2
<1>9. \A r \in 1..m : \A k \in 0..Len(policy.requirements[r].clauses) :
        RootAt(policy, r, k) \in Nodes(policy)
  BY <1>1, RootAtIs
<1>10. \A n \in Nodes(policy) : \A j \in 1..Len(ChildrenOf(policy, n)) :
         ChildrenOf(policy, n)[j] \in Nodes(policy)
  BY <1>1, TreeIs
<1>11. Fresh /\ Shut(policy, emitted) BY <1>8, <1>10 DEF Fresh, Shut
<1>12. Owned
  <2>1. \A r \in 1..m : \A k : ~Done(r, k) /\ ~Current(r, k) BY <1>2, <1>3 DEF Done, Current
  <2> QED BY <1>8, <1>9, <2>1 DEF Owned
<1>13. Numbered BY <1>4, <1>5, <1>6 DEF Numbered
<1>14. Passed = 0 /\ CostUpTo(SourceClauses(policy))[0] = 0
  <2>1. Base(policy)[0] = 0 BY <1>1, PiecesAre
  <2>2. SourceClauses(policy) \in Seq(ClauseSource) BY <1>1, PiecesAre
  <2>3. 1 - 1 = 0 OBVIOUS
  <2> QED BY <1>2, <2>1, <2>2, <2>3, CostUpToIs DEF Passed
<1>15. Tallied BY <1>2, <1>4, <1>5, <1>6, <1>14 DEF Tallied
<1>16. Named /\ Listing /\ Judged BY <1>2 DEF Named, Listing, Judged
<1>17. Noted
  <2>1. IsInjective(<<>>) BY DEF IsInjective
  <2> QED BY <1>2, <1>4, <1>5, <2>1 DEF Noted
<1>18. Rowed BY <1>5, <1>6, <1>8 DEF Rowed
<1> QED BY <1>1, <1>6, <1>7, <1>11, <1>12, <1>13, <1>15, <1>16, <1>17, <1>18
     DEF CompilerInv, Tree, Translation

LEMMA InvariantKept ==
  ASSUME CompilerInv, [Next]_vars
  PROVE  CompilerInv'
PROOF
<1>1. CASE Compile BY <1>1, PlacedKept, TreeKept, TranslationKept, JudgedKept DEF CompilerInv
<1>2. CASE UNCHANGED vars
  <2> USE <1>2 DEF vars, CompilerInv
  <2>1. Requirement' = Requirement /\ Clause' = Clause BY DEF Requirement, Clause
  <2>2. Placed' BY <2>1 DEF Placed
  <2>3. Tree' BY DEF Tree, Path, InFrame, Fresh, Owned, Numbered, Current, Done, Now
  <2>4. Passed' = Passed BY DEF Passed
  <2>5. Translation' BY <2>1, <2>4 DEF Translation, Tallied, Named, Noted, Rowed, Listing
  <2>6. Judged' BY DEF Judged
  <2> QED BY <2>2, <2>3, <2>5, <2>6
<1> QED BY <1>1, <1>2 DEF Next

\* The inductive invariant of Compile: wherever it is, the frames of
\* compileExpression are a path of the policy's tree, the program's columns hold
\* a good row for everything passed, and Program.Validate has judged it rightly.
THEOREM CompilerInvariant == Spec => []CompilerInv
PROOF
<1>1. Init => CompilerInv BY InvariantStarts
<1>2. CompilerInv /\ [Next]_vars => CompilerInv' BY InvariantKept
<1> QED BY <1>1, <1>2, PTL DEF Spec

-----------------------------------------------------------------------------
(* What the compiler promises.                                             *)

\* The type invariant follows.
LEMMA Typed ==
  ASSUME CompilerInv
  PROVE  TypeOK
PROOF
<1>1. Placed /\ Path BY DEF CompilerInv, Tree
<1>2. DOMAIN stack = 1..Len(stack) BY <1>1, SeqShape DEF Path
<1>3. ASSUME NEW k \in DOMAIN stack
      PROVE  LET children == policy.nodes[stack[k].node].children
                 done     == Len(stack[k].ids)
             IN  /\ done <= Len(children)
                 /\ stack[k].ids = [j \in 1..done |-> emitted[children[j]]]
                 /\ k < Len(stack) => done < Len(children) /\ stack[k + 1].node = children[done + 1]
  <2> DEFINE ids == stack[k].ids
             cs == ChildrenOf(policy, stack[k].node)
             d == Len(ids)
  <2>1. k \in 1..Len(stack) BY <1>2
  <2>2. InFrame(k) /\ ids \in Seq(Nat) BY <1>1, <2>1, FramesAre DEF Path
  <2>3. ids \in [1..d -> Nat] BY <2>2, SeqShape
  <2>4. \A j \in 1..d : ids[j] = emitted[cs[j]] BY <2>2 DEF InFrame
  <2>5. /\ d <= Len(cs)
        /\ k < Len(stack) => d < Len(cs) /\ stack[k + 1].node = cs[d + 1]
    BY <2>2 DEF InFrame
  <2> HIDE DEF ids, d, cs
  <2>6. ids = [j \in 1..d |-> emitted[cs[j]]] BY <2>3, <2>4
  <2> QED BY <2>5, <2>6 DEF ids, d, cs, ChildrenOf
<1> QED BY <1>1, <1>3 DEF TypeOK, Placed, Stages, Path

\* The frames of compileExpression are a path of the tree, each with its
\* first children's instructions, and no ID points beyond the program.
THEOREM TypeCorrect == Spec => []TypeOK
PROOF
<1>1. CompilerInv => TypeOK BY Typed
<1> QED BY <1>1, CompilerInvariant, PTL

\* No `in` lists CountLimit values.  The count of a longer one wraps in the
\* conversion to uint16 (SetsKept is refuted), so the next two theorems need it.
SetsFit == \A n \in Nodes(policy) : Small(policy.nodes[n])

LEMMA ExpressionsHold ==
  ASSUME CompilerInv, SetsFit
  PROVE  ExpressionsKept
PROOF
<1>1. Sound(prog) /\ Rowed BY DEF CompilerInv, Translation
<1>2. SymbolsAreTexts BY <1>1 DEF Sound, Catalogued, SymbolsAreTexts
<1>3. ASSUME NEW n \in Nodes(policy), emitted[n] # 0
      PROVE  Meaning(prog, emitted[n]) = Linking(policy.nodes[n], emitted)
  BY <1>1, <1>3 DEF Rowed, CodeRow, SetsFit
<1>4. \A n \in Nodes(policy) : Linking(policy.nodes[n], emitted) =
        [policy.nodes[n] EXCEPT !.children = [k \in DOMAIN @ |-> emitted[@[k]]]]
  BY DEF Linking
<1> QED BY <1>2, <1>3, <1>4 DEF ExpressionsKept

\* compileExpression: from the append of its instruction to the end of Compile,
\* every node of the policy is said by its instruction, whatever was compiled
\* after it, and equal texts have equal IDs.
THEOREM ExpressionsSay == Spec => [](SetsFit => ExpressionsKept)
PROOF
<1>1. CompilerInv => (SetsFit => ExpressionsKept) BY ExpressionsHold
<1> QED BY <1>1, CompilerInvariant, PTL

\* Compile never returns the diagnostic at path "program": Program.Validate
\* accepts whatever was compiled from an admitted policy.
THEOREM Validated == Spec => [](SetsFit => NeverInvalid)
PROOF
<1>1. CompilerInv => (SetsFit => NeverInvalid) BY DEF CompilerInv, Judged, SetsFit, NeverInvalid
<1> QED BY <1>1, CompilerInvariant, PTL

\* The first instructions of two kinds of a list are in its order.
LEMMA MinIs ==
  ASSUME NEW S \in SUBSET Nat, S # {}
  PROVE  Min(S) \in S /\ \A y \in S : Min(S) <= y
PROOF
<1>1. \E x \in S : \A y \in S : x <= y BY LeastExists
<1> QED BY <1>1 DEF Min

\* The first instruction of a kind in an expression, and the kinds there are.
First(p, e, n, x) == Min({e[m] : m \in {l \in TreeEvidence(p, n) : KindAt(p, l) = x}})
TreeKinds(p, n)   == {KindAt(p, m) : m \in TreeEvidence(p, n)}

\* A list of all the kinds of a tree's evidence is in the order of the first instructions.
LEMMA ListExact ==
  ASSUME NEW p, NEW e, NEW S, NEW ks \in Seq(S), NEW n, Lists(p, e, ks, n),
         \A m \in TreeEvidence(p, n) : e[m] \in Nat /\ e[m] # 0
  PROVE  /\ Range(ks) = TreeKinds(p, n)
         /\ \A i, j \in DOMAIN ks : i < j => First(p, e, n, ks[i]) < First(p, e, n, ks[j])
PROOF
<1> DEFINE E == TreeEvidence(p, n)
           K(m) == KindAt(p, m)
           F(x) == {e[m] : m \in {l \in E : K(l) = x}}
<1>1. /\ \A m \in E : e[m] # 0 => \E j \in 1..Len(ks) : ks[j] = K(m)
      /\ \A j \in 1..Len(ks) : \E m \in E : e[m] # 0 /\ K(m) = ks[j]
      /\ \A j \in 1..Len(ks) : \A i \in 1..(j - 1) : \A m \in E :
           e[m] # 0 /\ K(m) = ks[j] =>
             \E l \in E : e[l] # 0 /\ K(l) = ks[i] /\ e[l] < e[m]
  BY DEF Lists
<1>2. \A m \in E : e[m] \in Nat /\ e[m] # 0 OBVIOUS
<1>3. DOMAIN ks = 1..Len(ks) /\ Len(ks) \in Nat BY SeqShape
<1> HIDE DEF E, K
<1>4. Range(ks) = {K(m) : m \in E}
  <2>1. Range(ks) = {ks[j] : j \in 1..Len(ks)} BY <1>3 DEF Range
  <2>2. ASSUME NEW j \in 1..Len(ks) PROVE \E m \in E : K(m) = ks[j]
    <3>1. PICK m \in E : e[m] # 0 /\ K(m) = ks[j] BY <1>1
    <3> QED BY <3>1
  <2>3. ASSUME NEW m \in E PROVE \E j \in 1..Len(ks) : ks[j] = K(m)
    <3>1. e[m] # 0 BY <1>2
    <3> QED BY <1>1, <3>1
  <2> QED BY <2>1, <2>2, <2>3
<1>5. \A x : F(x) \in SUBSET Nat BY <1>2
<1>6. ASSUME NEW j \in 1..Len(ks) PROVE F(ks[j]) # {}
  <2>1. PICK m \in E : e[m] # 0 /\ K(m) = ks[j] BY <1>1
  <2>2. e[m] \in F(ks[j]) BY <2>1
  <2> QED BY <2>2
<1>7. ASSUME NEW i \in DOMAIN ks, NEW j \in DOMAIN ks, i < j PROVE Min(F(ks[i])) < Min(F(ks[j]))
  <2> DEFINE a == Min(F(ks[i]))
             b == Min(F(ks[j]))
  <2>1. i \in 1..Len(ks) /\ j \in 1..Len(ks) /\ i \in 1..(j - 1) BY <1>3, <1>7
  <2>2. a \in F(ks[i]) /\ \A y \in F(ks[i]) : a <= y BY <1>5, <1>6, <2>1, MinIs
  <2>3. b \in F(ks[j]) BY <1>5, <1>6, <2>1, MinIs
  <2> HIDE DEF a, b
  <2>4. PICK m \in E : K(m) = ks[j] /\ e[m] = b BY <2>3
  <2>5. PICK l \in E : K(l) = ks[i] /\ e[l] < e[m] BY <1>1, <1>2, <2>1, <2>4
  <2>6. e[l] \in F(ks[i]) /\ e[l] \in Nat /\ e[m] \in Nat BY <1>2, <2>5
  <2>7. a <= e[l] /\ a \in Nat BY <1>5, <2>2, <2>6
  <2>8. a < b BY <2>4, <2>5, <2>6, <2>7
  <2> QED BY <2>8 DEF a, b
<1> QED BY <1>4, <1>7 DEF E, K, First, TreeKinds

\* The names of the evidence kinds the program lists.
KindNames(p) == {Text(p, s) : s \in Range(p.kinds)}

\* The kinds of a clause are names of evidence kinds.
LEMMA KindsOfIs ==
  ASSUME NEW p, Sound(p), NEW k \in 1..Len(p.clauses)
  PROVE  KindsOf(p, p.clauses[k]) \in Seq(KindNames(p))
PROOF
<1> DEFINE c == p.clauses[k]
           n == c.kindCount
           ids == Slice(p.clauseKinds, c.kindStart, n)
           ks == KindsOf(p, c)
<1>1. p \in Programs /\ Rows(p) BY DEF Sound
<1>2. c \in Rules /\ ValidClause(p, c) BY <1>1, Columns, SeqShape DEF Rows
<1>3. c.kindStart \in Nat /\ n \in Nat /\ c.kindStart + n <= Len(p.clauseKinds)
  BY <1>2 DEF Rules, ValidClause, ValidRange
<1> HIDE DEF n
<1>4. /\ DOMAIN ids = 1..n
      /\ \A j \in 1..n : /\ c.kindStart + j \in 1..Len(p.clauseKinds)
                         /\ ids[j] = p.clauseKinds[c.kindStart + j]
  BY <1>1, <1>3, Columns, IdSlice
<1>5. ks = [j \in DOMAIN ids |-> Text(p, p.kinds[ids[j]])] BY DEF KindsOf, n
<1> HIDE DEF ids, ks, c
<1>6. ks = [j \in 1..n |-> Text(p, p.kinds[ids[j]])] BY <1>4, <1>5
<1>7. ASSUME NEW j \in 1..n PROVE Text(p, p.kinds[ids[j]]) \in KindNames(p)
  <2>1. ids[j] \in 1..Len(p.kinds) BY <1>1, <1>4 DEF Rows
  <2>2. DOMAIN p.kinds = 1..Len(p.kinds) BY <1>1, Columns, SeqShape
  <2> QED BY <2>1, <2>2 DEF KindNames, Range
<1>8. ks \in [1..n -> KindNames(p)] BY <1>6, <1>7
<1> QED BY <1>3, <1>8, FunctionIsSeq DEF ks, c

\* The row of a clause has its kinds, each once and in order.
LEMMA KindsExact ==
  ASSUME CompilerInv
  PROVE  ClauseKindsExact
PROOF
<1>1. /\ Sound(prog) /\ prog \in Programs /\ Rowed /\ Tallied /\ Placed /\ policy \in Sources
      /\ Shut(policy, emitted) /\ emitted \in [Nodes(policy) -> 0..Len(prog.code)]
  BY DEF CompilerInv, Translation, Tree, Path, Placed, Sound
<1>2. Len(prog.code) \in Nat /\ DOMAIN prog.clauses = 1..Len(prog.clauses)
  BY <1>1, Columns, SeqShape
<1>3. ASSUME NEW k \in DOMAIN prog.clauses
      PROVE  LET nodes    == EvidenceNodes(SourceClauses(policy)[k].assertion)
                 first(x) == Min({emitted[n] : n \in {m \in nodes : KindOf(m) = x}})
                 kinds    == KindsOf(prog, prog.clauses[k])
             IN  /\ Range(kinds) = {KindOf(n) : n \in nodes}
                 /\ \A i, j \in DOMAIN kinds : i < j => first(kinds[i]) < first(kinds[j])
  <2> DEFINE n == SourceClauses(policy)[k].assertion
             ks == KindsOf(prog, prog.clauses[k])
  <2>1. k \in 1..Len(prog.clauses) BY <1>2
  <2>2. k \in 1..Len(SourceClauses(policy)) BY <1>1, <2>1, RowsOfSource
  <2>3. emitted[n] # 0 /\ Lists(policy, emitted, ks, n) BY <1>1, <2>1 DEF Rowed, ClauseRow
  <2>4. n \in Nodes(policy) BY <1>1, <2>2, ClauseNode
  <2>5. ks \in Seq(KindNames(prog)) BY <1>1, <2>1, KindsOfIs
  <2> HIDE DEF n, ks
  <2>6. ASSUME NEW m \in TreeEvidence(policy, n) PROVE emitted[m] \in Nat /\ emitted[m] # 0
    <3>1. m \in Nodes(policy) /\ RootOf(policy)[m] = n BY DEF TreeEvidence
    <3>2. emitted[m] # 0 BY <1>1, <2>3, <3>1, ShutTree
    <3>3. emitted[m] \in 0..Len(prog.code) BY <1>1, <3>1
    <3> QED BY <1>2, <3>2, <3>3
  <2>7. /\ Range(ks) = TreeKinds(policy, n)
        /\ \A i, j \in DOMAIN ks :
             i < j => First(policy, emitted, n, ks[i]) < First(policy, emitted, n, ks[j])
    BY <2>3, <2>5, <2>6, ListExact
  <2>8. EvidenceNodes(n) = TreeEvidence(policy, n) BY DEF EvidenceNodes, TreeEvidence
  <2>9. \A m : KindOf(m) = KindAt(policy, m) BY DEF KindOf, KindAt
  <2>10. /\ Range(ks) = {KindOf(m) : m \in EvidenceNodes(n)}
         /\ \A x : First(policy, emitted, n, x) = Min({emitted[m] : m \in {l \in EvidenceNodes(n) : KindOf(l) = x}})
    BY <2>7, <2>8, <2>9 DEF First, TreeKinds
  <2> QED BY <2>7, <2>10 DEF n, ks
<1> QED BY <1>3 DEF ClauseKindsExact

\* The clauses say what the document's clauses do.
LEMMA ClausesHold ==
  ASSUME CompilerInv
  PROVE  ClausesKept
PROOF
<1>1. /\ Sound(prog) /\ prog \in Programs /\ Rowed /\ Tallied /\ Placed /\ policy \in Sources
      /\ Tree /\ Translation
  BY DEF CompilerInv, Translation, Placed, Sound
<1>2. DOMAIN prog.clauses = 1..Len(prog.clauses) /\ DOMAIN policy.requirements = 1..Len(policy.requirements)
  BY <1>1, Columns, SeqShape, SourceIs
<1>3. ASSUME NEW k \in DOMAIN prog.clauses
      PROVE  ClauseMeaning(prog, prog.clauses[k]) =
               [SourceClauses(policy)[k] EXCEPT !.assertion = emitted[@]]
  BY <1>1, <1>2 DEF Rowed, ClauseRow, Placing
<1>4. ASSUME stage = "compiled", NEW r \in DOMAIN policy.requirements
      PROVE  LET q == prog.requirements[r]
                 s == policy.requirements[r]
             IN  /\ Text(prog, q.symbol) = s.id /\ q.root = emitted[s.applicability]
                 /\ [k \in DOMAIN ClausesOf(prog, q) |->
                       ClauseMeaning(prog, prog.clauses[ClausesOf(prog, q)[k]])]
                    = [k \in DOMAIN s.clauses |-> [s.clauses[k] EXCEPT !.assertion = emitted[@]]]
  <2> DEFINE q == prog.requirements[r]
             s == policy.requirements[r]
             l == Len(s.clauses)
             ids == ClausesOf(prog, q)
             b == Base(policy)[r - 1]
  <2>1. /\ r \in 1..Len(policy.requirements) /\ Admitted(policy)
        /\ requirement = Len(policy.requirements) + 1
    BY <1>1, <1>2, <1>4 DEF Placed
  <2>2. /\ AskRow(policy, prog, emitted, r) /\ DOMAIN ids = 1..l
        /\ \A j \in 1..l : ids[j] = b + j
        /\ Len(prog.clauses) = Len(SourceClauses(policy))
    BY <1>1, <1>4, <2>1, FinishedIs
  <2>3. DOMAIN s.clauses = 1..l BY <1>1, <2>1, SourceIs
  <2>4. Text(prog, q.symbol) = s.id /\ q.root = emitted[s.applicability] BY <2>2 DEF AskRow
  <2>5. \A j \in 1..l : /\ b + j \in 1..Len(SourceClauses(policy))
                        /\ SourceClauses(policy)[b + j] = s.clauses[j]
    BY <1>1, <2>1, PiecesAre
  <2> HIDE DEF q, s, l, ids, b
  <2>6. ASSUME NEW j \in 1..l
        PROVE  ClauseMeaning(prog, prog.clauses[ids[j]]) = [s.clauses[j] EXCEPT !.assertion = emitted[@]]
    BY <1>2, <1>3, <2>2, <2>5
  <2>7. [k \in DOMAIN ids |-> ClauseMeaning(prog, prog.clauses[ids[k]])]
          = [k \in DOMAIN s.clauses |-> [s.clauses[k] EXCEPT !.assertion = emitted[@]]]
    BY <2>2, <2>3, <2>6
  <2> QED BY <2>4, <2>7 DEF q, s, ids
<1>5. ClauseKindsExact BY KindsExact
<1> QED BY <1>3, <1>4, <1>5 DEF ClausesKept

\* Every clause keeps its outcomes, explanations, remediations and kinds of
\* evidence, and its place in its requirement, through the ranges the result
\* package reads; the kinds are the assertion's, in the order of first use.
THEOREM ClausesSay == Spec => []ClausesKept
PROOF
<1>1. CompilerInv => ClausesKept BY ClausesHold
<1> QED BY <1>1, CompilerInvariant, PTL

-----------------------------------------------------------------------------
(* The compiled program as the engine's model sees it.                     *)

\* A symbol of the program is one of its texts.
LEMMA TextIn ==
  ASSUME NEW p \in Programs
  PROVE  /\ \A s \in 1..Len(p.symbols) : Text(p, s) \in Range(p.symbols)
         /\ \A s \in 0..Len(p.symbols) : Text(p, s) \in Range(p.symbols) \cup {NoSymbol}
PROOF
<1>1. DOMAIN p.symbols = 1..Len(p.symbols) /\ Len(p.symbols) \in Nat BY Columns, SeqShape, Lengths
<1>2. \A s \in 1..Len(p.symbols) : s # 0 BY <1>1
<1>3. \A s \in 1..Len(p.symbols) : Text(p, s) \in Range(p.symbols) BY <1>1, <1>2 DEF Text, Range
<1>4. \A s \in 0..Len(p.symbols) : s = 0 \/ s \in 1..Len(p.symbols) BY <1>1
<1>5. Text(p, 0) = NoSymbol BY DEF Text
<1> QED BY <1>3, <1>4, <1>5

\* What Program.Validate leaves of an instruction.
LEMMA CodeFits ==
  ASSUME NEW p \in Programs, NEW i \in 1..Len(p.code), ValidInstruction(p, i)
  PROVE  LET ins == p.code[i] IN
         \/ /\ ins.op = "equal" /\ ins.field \in 1..Len(FieldNames)
            /\ Text(p, ins.value) \in Range(p.symbols)
         \/ /\ ins.op = "in" /\ ins.field \in 1..Len(FieldNames)
            /\ LET set == Range(TextsOf(p, Slice(p.setValues, ins.setStart, ins.setCount)))
               IN  set \in SUBSET Range(p.symbols) /\ set # {}
         \/ ins.op = "evidence_matches" /\ ins.spec \in 1..Len(p.specs)
         \/ /\ ins.op = "all"
            /\ LET set == Range(Slice(p.operands, ins.operandStart, ins.operandCount))
               IN  set \in SUBSET (1..(i - 1)) /\ set # {}
PROOF
<1> DEFINE ins == p.code[i]
           vs == Slice(p.setValues, ins.setStart, ins.setCount)
           os == Slice(p.operands, ins.operandStart, ins.operandCount)
<1>1. ins \in Codes BY Columns, SeqShape
<1>2. /\ ins.setStart \in Nat /\ ins.setCount \in Nat
      /\ ins.operandStart \in Nat /\ ins.operandCount \in Nat
  BY <1>1 DEF Codes
<1>3. /\ ins.operandStart + ins.operandCount <= Len(p.operands)
      /\ ins.setStart + ins.setCount <= Len(p.setValues)
  BY DEF ValidInstruction, ValidRange
<1>4. DOMAIN vs = 1..ins.setCount /\ DOMAIN os = 1..ins.operandCount
  <2>1. p.setValues \in Seq(Nat) /\ p.operands \in Seq(Nat) BY Columns
  <2> HIDE DEF ins
  <2>2. DOMAIN vs = 1..ins.setCount BY <1>2, <1>3, <2>1, IdSlice
  <2>3. DOMAIN os = 1..ins.operandCount BY <1>2, <1>3, <2>1, IdSlice
  <2> QED BY <2>2, <2>3
<1>5. \/ /\ ins.op = "equal" /\ ins.field \in 1..Len(FieldNames) /\ ins.value \in 1..Len(p.symbols)
      \/ /\ ins.op = "in" /\ ins.field \in 1..Len(FieldNames) /\ ins.setCount > 0
         /\ \A s \in Range(vs) : s \in 1..Len(p.symbols)
      \/ ins.op = "evidence_matches" /\ ins.spec \in 1..Len(p.specs)
      \/ ins.op = "all" /\ ins.operandCount > 0 /\ \A o \in Range(os) : o \in 1..(i - 1)
  BY DEF ValidInstruction, ValidID
<1> HIDE DEF ins, vs, os
<1>6. ASSUME ins.setCount > 0, \A s \in Range(vs) : s \in 1..Len(p.symbols)
      PROVE  Range(TextsOf(p, vs)) \in SUBSET Range(p.symbols) /\ Range(TextsOf(p, vs)) # {}
  <2>1. Range(TextsOf(p, vs)) = {Text(p, vs[k]) : k \in 1..ins.setCount}
    BY <1>4 DEF TextsOf, Range
  <2>2. \A k \in 1..ins.setCount : vs[k] \in 1..Len(p.symbols) BY <1>4, <1>6 DEF Range
  <2>3. \A k \in 1..ins.setCount : Text(p, vs[k]) \in Range(p.symbols) BY <2>2, TextIn
  <2>4. 1 \in 1..ins.setCount BY <1>2, <1>6
  <2> QED BY <2>1, <2>3, <2>4
<1>7. ASSUME ins.operandCount > 0 PROVE Range(os) # {}
  <2>1. 1 \in 1..ins.operandCount BY <1>2, <1>7
  <2> QED BY <1>4, <2>1 DEF Range
<1>8. ins.value \in 1..Len(p.symbols) => Text(p, ins.value) \in Range(p.symbols) BY TextIn
<1>9. (\A o \in Range(os) : o \in 1..(i - 1)) => Range(os) \in SUBSET (1..(i - 1)) OBVIOUS
<1>10. CASE ins.op = "equal" /\ ins.field \in 1..Len(FieldNames) /\ ins.value \in 1..Len(p.symbols)
  BY <1>8, <1>10 DEF ins
<1>11. CASE /\ ins.op = "in" /\ ins.field \in 1..Len(FieldNames) /\ ins.setCount > 0
            /\ \A s \in Range(vs) : s \in 1..Len(p.symbols)
  BY <1>6, <1>11 DEF ins, vs
<1>12. CASE ins.op = "evidence_matches" /\ ins.spec \in 1..Len(p.specs)
  BY <1>12 DEF ins
<1>13. CASE ins.op = "all" /\ ins.operandCount > 0 /\ \A o \in Range(os) : o \in 1..(i - 1)
  BY <1>7, <1>9, <1>13 DEF ins, os
<1> QED BY <1>5, <1>10, <1>11, <1>12, <1>13

\* What it leaves of the specification of an `evidence_matches`.
LEMMA SpecFits ==
  ASSUME NEW p, Sound(p), NEW k \in 1..Len(p.specs)
  PROVE  /\ Text(p, p.kinds[p.specs[k].kind]) \in KindNames(p)
         /\ TextsOf(p, p.specs[k].wants) \in [Range(QualifierNames) -> Range(p.symbols) \cup {NoSymbol}]
PROOF
<1> DEFINE spec == p.specs[k]
<1>1. p \in Programs /\ Rows(p) BY DEF Sound
<1>2. spec \in Specs /\ ValidSpec(p, spec) BY <1>1, Columns, SeqShape DEF Rows
<1> HIDE DEF spec
<1>3. DOMAIN spec.wants = Range(QualifierNames) BY <1>2 DEF Specs
<1>4. spec.kind \in 1..Len(p.kinds) /\ \A n \in Range(QualifierNames) : spec.wants[n] \in 0..Len(p.symbols)
  BY <1>2, <1>3 DEF ValidSpec, ValidID
<1>5. DOMAIN p.kinds = 1..Len(p.kinds) BY <1>1, Columns, SeqShape
<1>6. Text(p, p.kinds[spec.kind]) \in KindNames(p) BY <1>4, <1>5 DEF KindNames, Range
<1>7. TextsOf(p, spec.wants) = [n \in Range(QualifierNames) |-> Text(p, spec.wants[n])]
  BY <1>3 DEF TextsOf
<1>8. \A n \in Range(QualifierNames) : Text(p, spec.wants[n]) \in Range(p.symbols) \cup {NoSymbol}
  BY <1>1, <1>4, TextIn
<1>9. TextsOf(p, spec.wants) \in [Range(QualifierNames) -> Range(p.symbols) \cup {NoSymbol}]
  BY <1>7, <1>8
<1> QED BY <1>6, <1>9 DEF spec

\* Every instruction is one the engine's model allows.
LEMMA InstructionsFit ==
  ASSUME Sound(prog), NEW i \in 1..Len(prog.code), ValidInstruction(prog, i)
  PROVE  Engine!IsInstruction(EngineInstruction(prog.code[i]), i)
PROOF
<1> DEFINE ins == prog.code[i]
           e == EngineInstruction(ins)
<1>1. prog \in Programs BY DEF Sound
<1>2. \/ /\ ins.op = "equal" /\ ins.field \in 1..Len(FieldNames)
         /\ Text(prog, ins.value) \in Range(prog.symbols)
      \/ /\ ins.op = "in" /\ ins.field \in 1..Len(FieldNames)
         /\ LET set == Range(TextsOf(prog, Slice(prog.setValues, ins.setStart, ins.setCount)))
            IN  set \in SUBSET Range(prog.symbols) /\ set # {}
      \/ ins.op = "evidence_matches" /\ ins.spec \in 1..Len(prog.specs)
      \/ /\ ins.op = "all"
         /\ LET set == Range(Slice(prog.operands, ins.operandStart, ins.operandCount))
            IN  set \in SUBSET (1..(i - 1)) /\ set # {}
  BY <1>1, CodeFits
<1> HIDE DEF ins
<1>3. CASE /\ ins.op = "equal" /\ ins.field \in 1..Len(FieldNames)
           /\ Text(prog, ins.value) \in Range(prog.symbols)
  <2>1. e = [op |-> "equal", field |-> ins.field, value |-> Text(prog, ins.value)]
    BY <1>3 DEF EngineInstruction
  <2> HIDE DEF e
  <2>2. e.op = "equal" /\ e.field = ins.field /\ e.value = Text(prog, ins.value) BY <2>1
  <2>3. Engine!IsInstruction(e, i) BY <1>3, <2>2 DEF Engine!IsInstruction, Engine!Fields
  <2> QED BY <2>3 DEF e, ins
<1>4. CASE /\ ins.op = "in" /\ ins.field \in 1..Len(FieldNames)
           /\ LET set == Range(TextsOf(prog, Slice(prog.setValues, ins.setStart, ins.setCount)))
              IN  set \in SUBSET Range(prog.symbols) /\ set # {}
  <2> DEFINE set == Range(TextsOf(prog, Slice(prog.setValues, ins.setStart, ins.setCount)))
  <2>1. e = [op |-> "in", field |-> ins.field, set |-> set] BY <1>4 DEF EngineInstruction
  <2>2. set \in SUBSET Range(prog.symbols) /\ set # {} BY <1>4
  <2> HIDE DEF e, set
  <2>3. e.op = "in" /\ e.field = ins.field /\ e.set = set BY <2>1
  <2>4. Engine!IsInstruction(e, i) BY <1>4, <2>2, <2>3 DEF Engine!IsInstruction, Engine!Fields
  <2> QED BY <2>4 DEF e, ins
<1>5. CASE ins.op = "evidence_matches" /\ ins.spec \in 1..Len(prog.specs)
  <2> DEFINE kind == Text(prog, prog.kinds[prog.specs[ins.spec].kind])
             want == TextsOf(prog, prog.specs[ins.spec].wants)
  <2>1. e = [op |-> "evidence_matches", kind |-> kind, want |-> want] BY <1>5 DEF EngineInstruction
  <2>2. /\ kind \in KindNames(prog)
        /\ want \in [Range(QualifierNames) -> Range(prog.symbols) \cup {NoSymbol}]
    BY <1>5, SpecFits
  <2> HIDE DEF e, kind, want
  <2>3. e.op = "evidence_matches" /\ e.kind = kind /\ e.want = want BY <2>1
  <2>4. Engine!IsInstruction(e, i) BY <2>2, <2>3 DEF Engine!IsInstruction, Engine!NoSymbol, NoSymbol, KindNames
  <2> QED BY <2>4 DEF e, ins
<1>6. CASE /\ ins.op = "all"
           /\ LET set == Range(Slice(prog.operands, ins.operandStart, ins.operandCount))
              IN  set \in SUBSET (1..(i - 1)) /\ set # {}
  <2> DEFINE set == Range(Slice(prog.operands, ins.operandStart, ins.operandCount))
  <2>1. e = [op |-> "all", operands |-> set] BY <1>6 DEF EngineInstruction
  <2>2. set \in SUBSET (1..(i - 1)) /\ set # {} BY <1>6
  <2> HIDE DEF e, set
  <2>3. e.op = "all" /\ e.operands = set BY <2>1
  <2>4. Engine!IsInstruction(e, i) BY <2>2, <2>3 DEF Engine!IsInstruction
  <2> QED BY <2>4 DEF e, ins
<1> QED BY <1>2, <1>3, <1>4, <1>5, <1>6

\* The engine's instructions are the program's.
LEMMA EngineRanges ==
  ASSUME prog \in Programs
  PROVE  Engine!Instructions = 1..Len(prog.code)
PROOF
<1> DEFINE f == [i \in DOMAIN prog.code |-> EngineInstruction(prog.code[i])]
           S == {EngineInstruction(prog.code[i]) : i \in DOMAIN prog.code}
<1>1. DOMAIN prog.code = 1..Len(prog.code) /\ Len(prog.code) \in Nat BY Columns, SeqShape, Lengths
<1>2. f \in [1..Len(prog.code) -> S] BY <1>1
<1> HIDE DEF f, S
<1>3. Len(f) = Len(prog.code) BY <1>1, <1>2, FunctionIsSeq
<1> QED BY <1>3 DEF f, Engine!Instructions

\* A clause's row is one the engine's model allows.
LEMMA ClausesFit ==
  ASSUME Sound(prog), NEW k \in 1..Len(prog.clauses), NEW s \in ClauseSource, ValidResolution(s),
         ClauseMeaning(prog, prog.clauses[k]).resolution = s.resolution,
         DOMAIN ClauseMeaning(prog, prog.clauses[k]).remediations = 1..Len(s.remediations)
  PROVE  Engine!IsClause(EngineClause(prog.clauses[k]))
PROOF
<1> DEFINE c == prog.clauses[k]
           n == c.remediationCount
           ids == Slice(prog.clauseRemediations, c.remediationStart, n)
           m == Len(prog.remediations)
           e == EngineClause(c)
<1>1. prog \in Programs /\ Rows(prog) BY DEF Sound
<1>2. c \in Rules /\ ValidClause(prog, c) BY <1>1, Columns, SeqShape DEF Rows
<1>3. /\ c.remediationStart \in Nat /\ n \in Nat
      /\ c.remediationStart + n <= Len(prog.clauseRemediations)
      /\ c.root \in 1..Len(prog.code)
  BY <1>2 DEF Rules, ValidClause, ValidRange, ValidID
<1>4. KindsOf(prog, c) \in Seq(KindNames(prog)) BY KindsOfIs
<1>5. c.outcomes = s.resolution /\ DOMAIN ids = 1..Len(s.remediations)
  BY DEF ClauseMeaning
<1> HIDE DEF n
<1>6. e = [root |-> c.root, resolution |-> c.outcomes,
           explained |-> {r \in Reasons : c.explanations[r] # 0},
           kinds |-> KindsOf(prog, c), remediations |-> ids]
  BY DEF EngineClause, n
<1> HIDE DEF c, ids, e
<1>7. /\ e.root = c.root /\ e.resolution = c.outcomes /\ e.kinds = KindsOf(prog, c)
      /\ e.remediations = ids /\ e.explained = {r \in Reasons : c.explanations[r] # 0}
  BY <1>6
<1>8. /\ ids \in Seq(Nat) /\ Len(ids) = n /\ DOMAIN ids = 1..n
      /\ \A j \in 1..n : /\ c.remediationStart + j \in 1..Len(prog.clauseRemediations)
                         /\ ids[j] = prog.clauseRemediations[c.remediationStart + j]
  <2> DEFINE column == prog.clauseRemediations
             start == c.remediationStart
  <2>1. column \in Seq(Nat) /\ start \in Nat /\ start + n <= Len(column) BY <1>1, <1>3, Columns
  <2>2. ids = Slice(column, start, n) BY DEF ids
  <2> HIDE DEF column, start
  <2>3. n \in Nat BY <1>3
  <2>4. /\ ids \in Seq(Nat) /\ Len(ids) = n /\ DOMAIN ids = 1..n
        /\ \A j \in 1..n : start + j \in 1..Len(column) /\ ids[j] = column[start + j]
    BY ONLY <2>1, <2>2, <2>3, IdSlice
  <2> QED BY <2>4 DEF column, start
<1>9. \A j \in 1..n : ids[j] \in 1..m BY <1>1, <1>8 DEF Rows
<1>10. ids \in Seq(1..m)
  <2>1. ids \in [1..n -> 1..m] BY <1>8, <1>9, SeqShape
  <2> HIDE DEF m
  <2> QED BY <1>3, <2>1, FunctionIsSeq
<1>11. n <= m
  <2>1. Len(prog.clauseRemediations) = m BY <1>1 DEF Rows
  <2>2. m \in Nat BY <1>1, Lengths
  <2> HIDE DEF m
  <2> QED BY <1>3, <2>1, <2>2
<1>12. ids # <<>> <=> \E r \in Reasons : s.resolution[r] = OutcomeRevise
  <2> DEFINE l == Len(s.remediations)
  <2>1. s.remediations \in Seq(Remedies) BY DEF ClauseSource
  <2>2. s.remediations # <<>> <=> l # 0 BY <2>1, EmptySeq
  <2>3. ids # <<>> <=> n # 0 BY <1>8, EmptySeq
  <2>4. l \in Nat /\ n \in Nat /\ 1..n = 1..l BY <1>3, <1>5, <1>8, <2>1, LenProperties
  <2>5. (\E r \in Reasons : s.resolution[r] = OutcomeRevise) <=> s.remediations # <<>>
    BY DEF ValidResolution, RemediationMatches, Revises
  <2> HIDE DEF l
  <2>6. n # 0 <=> l # 0
    <3>1. 1 \in 1..n <=> 1 \in 1..l BY <2>4
    <3> QED BY <2>4, <3>1
  <2> QED BY <2>2, <2>3, <2>5, <2>6
<1>13. s.resolution \in [Reasons -> Outcomes]
  <2>1. s.resolution \in [Reasons -> Nat] BY DEF ClauseSource
  <2>2. \A r \in Reasons : s.resolution[r] \in Outcomes BY DEF ValidResolution
  <2> QED BY <2>1, <2>2
<1>14. Engine!Instructions = 1..Len(prog.code) BY <1>1, EngineRanges
<1>15. /\ Engine!Reasons = Reasons /\ Engine!Outcomes = Outcomes
       /\ Engine!OutcomeRevise = OutcomeRevise /\ Engine!OutcomeApprove = OutcomeApprove
  BY DEF Engine!Reasons, Reasons, Engine!ReasonCount, ReasonCount, Engine!Outcomes, Outcomes,
         Engine!OutcomeCount, OutcomeCount, Engine!OutcomeRevise, OutcomeRevise,
         Engine!OutcomeApprove, OutcomeApprove
<1>16. \A r \in Reasons : c.outcomes[r] # OutcomeApprove => c.explanations[r] # 0
  BY <1>2 DEF ValidClause, ValidID
<1>17. \A r \in Reasons : e.resolution[r] # OutcomeApprove => r \in e.explained BY <1>7, <1>16
<1>18. Engine!ValidClause(e)
  BY <1>3, <1>4, <1>5, <1>7, <1>10, <1>13, <1>14, <1>15, <1>17 DEF Engine!ValidClause, KindNames
<1>19. Engine!IsClause(e)
  BY <1>5, <1>7, <1>8, <1>11, <1>12, <1>15, <1>18 DEF Engine!IsClause
<1> QED BY <1>19 DEF e, c

\* And so is a requirement.
LEMMA RequirementsFit ==
  ASSUME Sound(prog), NEW a, a.root \in 1..Len(prog.code), NEW ids \in Seq(1..Len(prog.clauses)), ids # <<>>
  PROVE  Engine!IsRequirement([root |-> a.root, clauses |-> ids])
PROOF
<1> DEFINE q == [root |-> a.root, clauses |-> ids]
<1>1. prog \in Programs BY DEF Sound
<1>2. q.root = a.root /\ q.clauses = ids OBVIOUS
<1> HIDE DEF q
<1>3. Engine!Instructions = 1..Len(prog.code) BY <1>1, EngineRanges
<1>4. DOMAIN [k \in DOMAIN prog.clauses |-> EngineClause(prog.clauses[k])] = 1..Len(prog.clauses)
  BY <1>1, Columns, SeqShape
<1>5. Engine!IsRequirement(q) BY <1>2, <1>3, <1>4 DEF Engine!IsRequirement, Engine!ValidRequirement
<1> QED BY <1>5 DEF q

\* The source of a clause's row is valid, when the policy is admitted.
LEMMA SourceClauseValid ==
  ASSUME NEW p \in Sources, Admitted(p), NEW k \in 1..Len(SourceClauses(p))
  PROVE  SourceClauses(p)[k] \in ClauseSource /\ ValidResolution(SourceClauses(p)[k])
PROOF
<1>1. PICK r \in 1..Len(p.requirements) :
        \E j \in 1..Len(p.requirements[r].clauses) : k = Base(p)[r - 1] + j
  BY PiecesAre
<1>2. PICK j \in 1..Len(p.requirements[r].clauses) : k = Base(p)[r - 1] + j BY <1>1
<1>3. SourceClauses(p)[k] = p.requirements[r].clauses[j] BY <1>2, PiecesAre
<1>4. ValidResolution(p.requirements[r].clauses[j]) BY <1>2, AdmittedIs
<1> QED BY <1>3, <1>4, ClauseNode

\* Every clause is at one place of one requirement's list.
LEMMA OwnershipFits ==
  ASSUME Placed, Tree, Translation, Admitted(policy), stage = "compiled",
         requirement = Len(policy.requirements) + 1
  PROVE  Engine!OwnedOnce
PROOF
<1> DEFINE m == Len(policy.requirements)
           n == Len(SourceClauses(policy))
           b == Base(policy)
           R == [r \in DOMAIN prog.requirements |->
                   [root |-> prog.requirements[r].root,
                    clauses |-> ClausesOf(prog, prog.requirements[r])]]
           C == [c \in DOMAIN prog.clauses |-> EngineClause(prog.clauses[c])]
           len(r) == Len(policy.requirements[r].clauses)
           places == UNION {{q} \X DOMAIN R[q].clauses : q \in DOMAIN R}
<1>1. /\ policy \in Sources /\ prog \in Programs /\ m \in Nat
      /\ \A r \in 1..m : len(r) \in Nat
  BY SourceIs DEF Placed, Translation, Sound
<1>2. DOMAIN prog.requirements = 1..m /\ DOMAIN prog.clauses = 1..n
  BY <1>1, FinishedIs, Columns, SeqShape
<1>3. /\ \A r \in 1..m : /\ DOMAIN ClausesOf(prog, prog.requirements[r]) = 1..len(r)
                          /\ \A j \in 1..len(r) : ClausesOf(prog, prog.requirements[r])[j] = b[r - 1] + j
  BY FinishedIs
<1>4. DOMAIN R = 1..m /\ DOMAIN C = 1..n BY <1>2
<1>5. \A r \in 1..m : DOMAIN R[r].clauses = 1..len(r) /\ \A j \in 1..len(r) : R[r].clauses[j] = b[r - 1] + j
  BY <1>2, <1>3
<1>6. /\ b \in [0..m -> Nat]
      /\ \A r \in 1..m : b[r] = b[r - 1] + len(r)
      /\ \A k \in 1..n : \E r \in 1..m : \E j \in 1..len(r) : k = b[r - 1] + j
  BY <1>1, PiecesAre
<1>7. \A r \in 1..m, s \in 1..m : r < s => b[r] <= b[s - 1]
  <2>1. Pieces(policy) \in Seq(Seq(ClauseSource)) /\ Len(Pieces(policy)) = m BY <1>1, PiecesAre
  <2>2. \E x : Offsets(Pieces(policy), x) BY <2>1, OffsetsExist
  <2>3. Offsets(Pieces(policy), b) BY <2>2 DEF Base
  <2> HIDE DEF b, m
  <2>4. ASSUME NEW r \in 1..m, NEW s \in 1..m, r < s PROVE b[r] <= b[s - 1]
    <3>1. r \in 0..m /\ s - 1 \in 0..m /\ r <= s - 1 BY <1>1, <2>4
    <3> QED BY SMTT(30), <2>1, <2>3, <3>1, OffsetsGrow
  <2> QED BY <2>4
<1> HIDE DEF R, C, b, n, m, len
<1>8. \A r \in 1..m, s \in 1..m : \A j \in 1..len(r), i \in 1..len(s) :
        b[r - 1] + j = b[s - 1] + i => r = s /\ j = i
  <2> SUFFICES ASSUME NEW r \in 1..m, NEW s \in 1..m, NEW j \in 1..len(r), NEW i \in 1..len(s),
                      b[r - 1] + j = b[s - 1] + i
               PROVE  r = s /\ j = i
    OBVIOUS
  <2>1. /\ r \in Nat /\ s \in Nat /\ j \in Nat /\ i \in Nat /\ j > 0 /\ i > 0
        /\ j <= len(r) /\ i <= len(s) /\ len(r) \in Nat /\ len(s) \in Nat
        /\ b[r - 1] \in Nat /\ b[s - 1] \in Nat
        /\ b[r] = b[r - 1] + len(r) /\ b[s] = b[s - 1] + len(s)
    <3>1. r - 1 \in 0..m /\ s - 1 \in 0..m BY <1>1
    <3> QED BY <1>1, <1>6, <3>1
  <2>2. ~(r < s) BY SMTT(40), <1>7, <2>1
  <2>3. ~(s < r) BY SMTT(40), <1>7, <2>1
  <2> QED BY SMTT(40), <2>1, <2>2, <2>3
<1>9. ASSUME NEW c \in DOMAIN C
      PROVE  \E p \in places : \A o \in places : R[o[1]].clauses[o[2]] = c <=> o = p
  <2>1. PICK r \in 1..m : \E j \in 1..len(r) : c = b[r - 1] + j BY <1>4, <1>6
  <2>2. PICK j \in 1..len(r) : c = b[r - 1] + j BY <2>1
  <2>3. <<r, j>> \in places
    <3>1. r \in DOMAIN R /\ j \in DOMAIN R[r].clauses BY <1>4, <1>5
    <3>2. <<r, j>> \in {r} \X DOMAIN R[r].clauses BY <3>1
    <3> QED BY <3>1, <3>2
  <2>4. ASSUME NEW o \in places PROVE R[o[1]].clauses[o[2]] = c <=> o = <<r, j>>
    <3>1. PICK s \in DOMAIN R : o \in {s} \X DOMAIN R[s].clauses OBVIOUS
    <3>2. o = <<o[1], o[2]>> /\ o[1] = s /\ o[2] \in DOMAIN R[s].clauses BY <3>1
    <3>3. s \in 1..m /\ o[2] \in 1..len(s) BY <1>4, <1>5, <3>2
    <3>4. R[s].clauses[o[2]] = b[s - 1] + o[2] BY <1>5, <3>3
    <3>5. b[s - 1] + o[2] = b[r - 1] + j <=> s = r /\ o[2] = j BY <1>8, <3>3
    <3> QED BY <2>2, <3>2, <3>4, <3>5
  <2> QED BY <2>3, <2>4
<1> QED BY <1>9 DEF Engine!OwnedOnce, R, C

\* Every remediation has one of the two actions.
LEMMA CatalogueFits ==
  ASSUME Sound(prog), ValidProgram(prog)
  PROVE  Engine!ValidCatalogue
PROOF
<1> DEFINE s == prog.remediations
<1>1. prog \in Programs BY DEF Sound
<1>2. DOMAIN s = 1..Len(s) BY <1>1, Columns, SeqShape
<1>3. \A m \in DOMAIN s : s[m].action \in {"add_evidence", "set_field"}
  BY DEF ValidProgram, ValidRemediationSpec, Range
<1> HIDE DEF s
<1> QED BY <1>2, <1>3 DEF Engine!ValidCatalogue, Engine!RemediationActions, s

\* The invariant gives the engine what it assumes.
LEMMA EngineHolds ==
  ASSUME CompilerInv
  PROVE  FitsTheEngine
PROOF
<1> SUFFICES ASSUME stage = "compiled"
             PROVE  /\ \A i \in DOMAIN prog.code : Engine!IsInstruction(EngineInstruction(prog.code[i]), i)
                    /\ \A c \in Range(prog.clauses) : Engine!IsClause(EngineClause(c))
                    /\ \A r \in DOMAIN prog.requirements :
                         Engine!IsRequirement([root |-> prog.requirements[r].root,
                                               clauses |-> ClausesOf(prog, prog.requirements[r])])
                    /\ Engine!OwnedOnce
                    /\ Engine!ValidCatalogue
  BY DEF FitsTheEngine
<1>1. /\ Sound(prog) /\ prog \in Programs /\ Rowed /\ Tallied /\ Placed /\ policy \in Sources
      /\ Tree /\ Translation /\ ValidProgram(prog) /\ Admitted(policy)
      /\ requirement = Len(policy.requirements) + 1
  BY DEF CompilerInv, Translation, Placed, Sound, Judged
<1>2. /\ DOMAIN prog.code = 1..Len(prog.code) /\ DOMAIN prog.clauses = 1..Len(prog.clauses)
      /\ DOMAIN prog.requirements = 1..Len(prog.requirements)
  BY <1>1, Columns, SeqShape
<1>3. ASSUME NEW i \in DOMAIN prog.code
      PROVE  Engine!IsInstruction(EngineInstruction(prog.code[i]), i)
  <2>1. i \in 1..Len(prog.code) /\ ValidInstruction(prog, i) BY <1>1, <1>2 DEF ValidProgram
  <2> QED BY <1>1, <2>1, InstructionsFit
<1>4. ASSUME NEW k \in 1..Len(prog.clauses)
      PROVE  Engine!IsClause(EngineClause(prog.clauses[k]))
  <2> DEFINE s == SourceClauses(policy)[k]
             x == ClauseMeaning(prog, prog.clauses[k])
  <2>1. k \in 1..Len(SourceClauses(policy)) BY <1>1, RowsOfSource
  <2>2. s \in ClauseSource /\ ValidResolution(s) BY <1>1, <2>1, SourceClauseValid
  <2>3. x = Placing(s, emitted) BY <1>1 DEF Rowed, ClauseRow
  <2>4. DOMAIN s.remediations = 1..Len(s.remediations)
    <3>1. s.remediations \in Seq(Remedies) BY <2>2 DEF ClauseSource
    <3> QED BY <3>1, SeqShape
  <2> HIDE DEF s, x
  <2>5. x.resolution = s.resolution /\ x.remediations = s.remediations
    BY <2>2, <2>3 DEF Placing, ClauseSource
  <2>6. /\ ClauseMeaning(prog, prog.clauses[k]).resolution = s.resolution
        /\ DOMAIN ClauseMeaning(prog, prog.clauses[k]).remediations = 1..Len(s.remediations)
    BY <2>4, <2>5 DEF x
  <2> QED BY <1>1, <2>2, <2>6, ClausesFit
<1>5. \A c \in Range(prog.clauses) : Engine!IsClause(EngineClause(c)) BY <1>2, <1>4 DEF Range
<1>6. ASSUME NEW r \in DOMAIN prog.requirements
      PROVE  Engine!IsRequirement([root |-> prog.requirements[r].root,
                                   clauses |-> ClausesOf(prog, prog.requirements[r])])
  <2> DEFINE a == prog.requirements[r]
             ids == ClausesOf(prog, a)
             l == Len(policy.requirements[r].clauses)
  <2>1. r \in 1..Len(policy.requirements) BY <1>1, <1>2, RowsOfSource
  <2>2. /\ a.root \in 1..Len(prog.code) /\ ids \in Seq(Nat) /\ Len(ids) = l /\ DOMAIN ids = 1..l
        /\ \A j \in 1..l : ids[j] = Base(policy)[r - 1] + j
        /\ Len(prog.clauses) = Len(SourceClauses(policy))
    BY <1>1, <2>1, FinishedIs
  <2>3. \A j \in 1..l : Base(policy)[r - 1] + j \in 1..Len(prog.clauses) BY <1>1, <2>1, <2>2, PiecesAre
  <2>4. l # 0 /\ l \in Nat BY <1>1, <2>1, AdmittedIs, SourceIs
  <2> HIDE DEF a, ids, l
  <2>5. \A j \in 1..l : ids[j] \in 1..Len(prog.clauses) BY <2>2, <2>3
  <2>6. ids \in [1..l -> 1..Len(prog.clauses)] BY <2>2, <2>5, SeqShape
  <2>7. ids \in Seq(1..Len(prog.clauses))
    <3> DEFINE S == 1..Len(prog.clauses)
    <3> HIDE DEF S
    <3> QED BY <2>4, <2>6, FunctionIsSeq DEF S
  <2>8. ids # <<>> BY <2>2, <2>4, EmptySeq
  <2>9. Engine!IsRequirement([root |-> a.root, clauses |-> ids])
    BY <1>1, <2>2, <2>7, <2>8, RequirementsFit
  <2> QED BY <2>9 DEF a, ids
<1>7. Engine!OwnedOnce BY <1>1, OwnershipFits
<1>8. Engine!ValidCatalogue BY <1>1, CatalogueFits
<1> QED BY <1>3, <1>5, <1>6, <1>7, <1>8

\* Whatever Compile returns without a diagnostic is a program the engine's
\* model assumes: operands before their consumers, satisfiable sets, clauses with
\* remediations exactly when some reason resolves to Revise.
THEOREM EngineFits == Spec => []FitsTheEngine
PROOF
<1>1. CompilerInv => FitsTheEngine BY EngineHolds
<1> QED BY <1>1, CompilerInvariant, PTL

=============================================================================
