----------------------------- MODULE StreamProofs ------------------------------
(***************************************************************************)
(* A stream never loses its place, ends cleanly only between frames, and   *)
(* answers every frame as if it were alone, for any frames of any length   *)
(* that arrive and leave in any pieces.                                    *)
(***************************************************************************)
EXTENDS Stream, SequenceTheorems, WellFoundedInduction, TLAPS

-----------------------------------------------------------------------------
(* Lists.                                                                  *)

\* A nonempty set of numbers has a least one.
LEMMA LeastNumber ==
  ASSUME NEW S \in SUBSET Nat, S # {}
  PROVE  \E x \in S : \A y \in S : x <= y
PROOF
<1>1. IsWellFoundedOn(OpToRel(<, Nat), Nat)
  BY NatLessThanWellFounded
<1>2. PICK x \in S : \A y \in S : ~(<<y, x>> \in OpToRel(<, Nat))
  BY <1>1, WFMin, Zenon
<1>3. OpToRel(<, Nat) = {ss \in Nat \X Nat : ss[1] < ss[2]}
  BY DEF OpToRel
<1>4. ASSUME NEW y \in S PROVE x <= y
  <2>1. ~(y < x) BY <1>2, <1>3
  <2> QED BY <2>1
<1> QED BY <1>4

\* A function on 1..n is a list, and a sequence of what it holds.
LEMMA FunctionIsList ==
  ASSUME NEW n \in Nat, NEW s, s = [i \in 1..n |-> s[i]]
  PROVE  /\ IsList(s) /\ Len(s) = n /\ DOMAIN s = 1..n
         /\ s \in Seq({s[i] : i \in 1..n})
PROOF
<1> DEFINE S == {s[i] : i \in 1..n}
<1>1. s \in [1..n -> S]
  OBVIOUS
<1>2. s \in Seq(S) /\ Len(s) = n
  BY <1>1
<1> QED BY <1>1, <1>2 DEF IsList

\* A list is a sequence of what it holds.
LEMMA ListIsSequence ==
  ASSUME NEW s, IsList(s)
  PROVE  Len(s) \in Nat /\ DOMAIN s = 1..Len(s) /\ s \in Seq({s[i] : i \in 1..Len(s)})
BY FunctionIsList DEF IsList

\* One more element at the end.
LEMMA AppendList ==
  ASSUME NEW s, IsList(s), NEW e
  PROVE  /\ IsList(Append(s, e)) /\ Len(Append(s, e)) = Len(s) + 1
         /\ \A i \in 1..Len(s) : Append(s, e)[i] = s[i]
         /\ Append(s, e)[Len(s) + 1] = e
PROOF
<1> DEFINE S == {s[i] : i \in 1..Len(s)} \cup {e}
<1>1. Len(s) \in Nat /\ s \in Seq({s[i] : i \in 1..Len(s)})
  BY ListIsSequence
<1>2. s \in Seq(S) /\ e \in S
  BY <1>1, SeqMonotonic
<1> HIDE DEF S
<1>3. /\ Append(s, e) \in Seq(S) /\ Len(Append(s, e)) = Len(s) + 1
      /\ \A i \in 1..Len(s) : Append(s, e)[i] = s[i]
      /\ Append(s, e)[Len(s) + 1] = e
  BY <1>2, AppendProperties
<1>4. Append(s, e) \in [1..Len(Append(s, e)) -> S] /\ Len(Append(s, e)) \in Nat
  BY <1>3, LenProperties
<1>5. IsList(Append(s, e))
  BY <1>4 DEF IsList
<1> QED BY <1>3, <1>5

-----------------------------------------------------------------------------
(* Where frames start.                                                     *)

\* The equation of Starts, for the first n frames.
StartsAt(start, frames, n) ==
  start = [k \in 1..(n + 1) |->
             IF k = 1 THEN 0 ELSE start[k - 1] + HeaderSize + frames[k - 1].size]

\* Some places satisfy the equation, so the recursive definition is sound.
LEMMA StartsExist ==
  ASSUME NEW frames
  PROVE  \A n \in Nat : \E start : StartsAt(start, frames, n)
PROOF
<1> DEFINE Bad == {n \in Nat : ~\E start : StartsAt(start, frames, n)}
<1> SUFFICES ASSUME Bad # {} PROVE FALSE
  OBVIOUS
<1>1. PICK n \in Bad : \A k \in Bad : n <= k
  BY LeastNumber
<1>2. CASE n = 0
  <2>1. StartsAt([k \in 1..1 |-> 0], frames, 0)
    BY DEF StartsAt
  <2> QED BY <1>1, <1>2, <2>1
<1>3. CASE n # 0
  <2>1. n - 1 \in Nat /\ n - 1 \notin Bad
    BY <1>1, <1>3
  <2>2. PICK g : StartsAt(g, frames, n - 1)
    BY <2>1
  <2> DEFINE next(h, k) == IF k = 1 THEN 0 ELSE h[k - 1] + HeaderSize + frames[k - 1].size
             f == [k \in 1..(n + 1) |->
                     IF k = n + 1 THEN g[n] + HeaderSize + frames[n].size ELSE g[k]]
  <2>3. \A k \in 1..n : g[k] = next(g, k)
    BY <1>1, <2>1, <2>2 DEF StartsAt
  <2>4. ASSUME NEW k \in 1..(n + 1) PROVE f[k] = next(f, k)
    <3>1. CASE k = n + 1
      <4>1. k - 1 = n /\ n \in 1..(n + 1) /\ n # n + 1 /\ k # 1
        BY <1>1, <1>3, <3>1
      <4> QED BY <3>1, <4>1
    <3>2. CASE k # n + 1
      <4>1. k \in 1..n /\ k - 1 # n + 1 /\ (k = 1 \/ k - 1 \in 1..(n + 1))
        BY <1>1, <3>2
      <4> QED BY <2>3, <3>2, <4>1
    <3> QED BY <3>1, <3>2
  <2>5. StartsAt(f, frames, n)
    <3> DEFINE h == [k \in 1..(n + 1) |-> next(f, k)]
    <3>1. f = h
      BY <2>4
    <3> QED BY <3>1 DEF StartsAt
  <2> QED BY <1>1, <2>5
<1> QED BY <1>2, <1>3

\* Each frame starts where the one before it ends.
LEMMA StartsShape ==
  ASSUME NEW peer, IsInput(peer)
  PROVE  LET start == Starts(peer.frames)
             n == Len(peer.frames)
         IN  /\ n \in Nat /\ DOMAIN peer.frames = 1..n
             /\ start[1] = 0 /\ \A k \in 1..(n + 1) : start[k] \in Nat
             /\ \A k \in 1..n : start[k + 1] = start[k] + HeaderSize + peer.frames[k].size
PROOF
<1> DEFINE start == Starts(peer.frames)
           n == Len(peer.frames)
<1>1. n \in Nat /\ DOMAIN peer.frames = 1..n
  BY ListIsSequence DEF IsInput
<1>2. StartsAt(start, peer.frames, n)
  <2>1. \E s : StartsAt(s, peer.frames, n)
    BY <1>1, StartsExist
  <2> QED BY <2>1 DEF Starts, StartsAt
<1>3. \A k \in 1..n : peer.frames[k].size \in Nat
  BY <1>1 DEF IsInput
<1> HIDE DEF start
<1>4. start[1] = 0
  BY <1>1, <1>2 DEF StartsAt
<1>5. \A k \in 1..n : start[k + 1] = start[k] + HeaderSize + peer.frames[k].size
  <2> SUFFICES ASSUME NEW k \in 1..n
               PROVE  start[k + 1] = start[k] + HeaderSize + peer.frames[k].size
    OBVIOUS
  <2>1. k + 1 \in 1..(n + 1) /\ k + 1 # 1 /\ (k + 1) - 1 = k
    BY <1>1
  <2> QED BY <1>2, <2>1 DEF StartsAt
<1>6. \A k \in 1..(n + 1) : start[k] \in Nat
  <2> DEFINE Bad == {k \in 1..(n + 1) : start[k] \notin Nat}
  <2> SUFFICES ASSUME Bad # {} PROVE FALSE
    OBVIOUS
  <2>1. PICK k \in Bad : \A j \in Bad : k <= j
    <3>1. Bad \in SUBSET Nat
      BY <1>1
    <3> QED BY <3>1, LeastNumber
  <2>2. k # 1 /\ k - 1 \in 1..n /\ (k - 1) + 1 = k
    BY <1>1, <1>4, <2>1
  <2>3. start[k - 1] \in Nat
    BY <1>1, <2>1, <2>2
  <2>4. start[k] = start[k - 1] + HeaderSize + peer.frames[k - 1].size
    BY <1>5, <2>2, Zenon
  <2>5. peer.frames[k - 1].size \in Nat /\ HeaderSize \in Nat
    BY <1>3, <2>2, StreamAssumption
  <2> QED BY <2>1, <2>3, <2>4, <2>5
<1> QED BY <1>1, <1>4, <1>5, <1>6 DEF start

-----------------------------------------------------------------------------
(* The storage of the decoder.                                             *)

\* A slice is a prefix of its cells.
IsSlice(s) ==
  /\ s = [cells |-> s.cells, len |-> s.len, nil |-> s.nil]
  /\ s.len \in Nat /\ s.nil \in BOOLEAN /\ IsList(s.cells) /\ s.len <= Len(s.cells)

\* The slice a decoder starts with.
LEMMA NilIsSlice == IsSlice(NilSlice) /\ NilSlice.len = 0 /\ NilSlice.cells = <<>>
PROOF
<1>1. NilSlice.cells = <<>> /\ NilSlice.len = 0 /\ NilSlice.nil = TRUE
  BY DEF NilSlice
<1>2. Len(<<>>) = 0 /\ IsList(<<>>)
  BY DEF IsList
<1>3. IsSlice(NilSlice)
  BY <1>1, <1>2 DEF IsSlice, NilSlice
<1> QED BY <1>1, <1>3

\* Emptying a slice replaces what is within its length.
LEMMA EmptiedShape ==
  ASSUME NEW s, IsSlice(s), NEW reset
  PROVE  LET r == Emptied(s, reset)
         IN  /\ IsSlice(r) /\ r.len = 0 /\ r.nil = s.nil
             /\ Len(r.cells) = Len(s.cells) /\ DOMAIN r.cells = 1..Len(s.cells)
             /\ \A i \in 1..Len(s.cells) :
                  r.cells[i] = IF i <= s.len THEN reset[i] ELSE s.cells[i]
PROOF
<1> DEFINE r == Emptied(s, reset)
           n == Len(s.cells)
<1>1. n \in Nat /\ DOMAIN s.cells = 1..n /\ s.len \in Nat /\ s.nil \in BOOLEAN
  BY ListIsSequence DEF IsSlice
<1>2. /\ r.cells = [i \in 1..n |-> IF i <= s.len THEN reset[i] ELSE s.cells[i]]
      /\ r.len = 0 /\ r.nil = s.nil /\ r = [cells |-> r.cells, len |-> r.len, nil |-> r.nil]
  <2> DEFINE c == [i \in 1..n |-> IF i <= s.len THEN reset[i] ELSE s.cells[i]]
  <2>1. r = [s EXCEPT !.cells = c, !.len = 0]
    BY <1>1 DEF Emptied
  <2>2. s = [cells |-> s.cells, len |-> s.len, nil |-> s.nil]
    BY DEF IsSlice
  <2> HIDE DEF c
  <2>3. r = [cells |-> c, len |-> 0, nil |-> s.nil]
    <3>1. PICK sc, sl, sn : s = [cells |-> sc, len |-> sl, nil |-> sn] /\ sn = s.nil
      BY <2>2
    <3> QED BY <2>1, <3>1
  <2> HIDE DEF r
  <2> QED BY <2>3 DEF c
<1> HIDE DEF r
<1>3. IsList(r.cells) /\ Len(r.cells) = n /\ DOMAIN r.cells = 1..n
  <2>1. r.cells = [i \in 1..n |-> r.cells[i]]
    BY <1>2
  <2> QED BY <1>1, <2>1, FunctionIsList
<1>4. IsSlice(r)
  BY <1>1, <1>2, <1>3 DEF IsSlice
<1>5. \A i \in 1..n : r.cells[i] = IF i <= s.len THEN reset[i] ELSE s.cells[i]
  BY <1>2
<1> QED BY <1>2, <1>3, <1>4, <1>5 DEF r

\* What an array of these elements leaves in the place of a slice.
ReplacedWith(d, s, array, elements) ==
  /\ IsSlice(d)
  /\ array.null => d = NilSlice
  /\ ~array.null => d.len = Len(array.rows) /\ d.nil = FALSE
  /\ ~array.null => \A i \in 1..Len(array.rows) : d.cells[i] = elements[i]
  /\ \A i \in DOMAIN d.cells : i > d.len => i \in DOMAIN s.cells /\ d.cells[i] = s.cells[i]
  /\ ~array.null /\ array.rows = <<>> => d.cells = <<>>

LEMMA ReplacedShape ==
  ASSUME NEW s, IsSlice(s), NEW array, IsList(array.rows), NEW elements
  PROVE  ReplacedWith(Replaced(s, array, elements), s, array, elements)
PROOF
<1> DEFINE d == Replaced(s, array, elements)
           rows == array.rows
           n == Len(s.cells)
           m == Len(rows)
<1>1. n \in Nat /\ DOMAIN s.cells = 1..n /\ m \in Nat /\ DOMAIN rows = 1..m
  BY ListIsSequence DEF IsSlice
<1> USE DEF ReplacedWith
<1>2. CASE array.null
  <2>1. d = NilSlice
    BY <1>2 DEF Replaced
  <2>2. \A i \in DOMAIN NilSlice.cells : FALSE
    BY NilIsSlice
  <2> QED BY <1>1, <1>2, <2>1, <2>2, NilIsSlice
<1>3. CASE ~array.null /\ rows = <<>>
  <2>1. d = [NilSlice EXCEPT !.nil = FALSE]
    BY <1>3 DEF Replaced
  <2>2. d.cells = <<>> /\ d.len = 0 /\ d.nil = FALSE
        /\ d = [cells |-> d.cells, len |-> d.len, nil |-> d.nil]
    BY <2>1 DEF NilSlice
  <2>3. Len(<<>>) = 0 /\ DOMAIN <<>> = {} /\ IsList(<<>>) /\ m = 0
    BY <1>3 DEF IsList
  <2> HIDE DEF d
  <2>4. IsSlice(d)
    <3>1. Len(d.cells) = 0 /\ IsList(d.cells)
      BY <2>2, <2>3, Zenon
    <3>2. d.len = 0 /\ d.nil \in BOOLEAN
      BY <2>2, Zenon
    <3>3. d.len \in Nat /\ d.len <= Len(d.cells)
      BY <3>1, <3>2
    <3> QED BY <2>2, <3>1, <3>2, <3>3, Zenon DEF IsSlice
  <2>5. \A i \in 1..m : FALSE
    BY <2>3
  <2>6. \A i \in DOMAIN d.cells : FALSE
    BY <2>2, <2>3
  <2> QED BY <1>1, <1>3, <2>2, <2>3, <2>4, <2>5, <2>6 DEF d
<1>4. CASE ~array.null /\ rows # <<>>
  <2> DEFINE all == (1..n) \cup (1..m)
             cells == [i \in all |-> IF i \in 1..m THEN elements[i] ELSE s.cells[i]]
  <2>1. d = [cells |-> cells, len |-> m, nil |-> FALSE]
    BY <1>1, <1>4 DEF Replaced
  <2>2. d.cells = cells /\ d.len = m /\ d.nil = FALSE
        /\ d = [cells |-> d.cells, len |-> d.len, nil |-> d.nil]
    BY <2>1
  <2>3. PICK h \in Nat : all = 1..h /\ m <= h
    <3>1. CASE n <= m BY <1>1, <3>1
    <3>2. CASE m <= n BY <1>1, <3>2
    <3> QED BY <1>1, <3>1, <3>2
  <2>4. IsList(cells) /\ Len(cells) = h /\ DOMAIN cells = 1..h
    <3>1. cells = [i \in 1..h |-> cells[i]]
      BY <2>3
    <3> QED BY <3>1, FunctionIsList
  <2>5. IsSlice(d)
    BY <1>1, <2>2, <2>3, <2>4 DEF IsSlice
  <2>6. \A i \in 1..m : cells[i] = elements[i]
    OBVIOUS
  <2>7. \A i \in 1..h : i > m => i \in 1..n /\ cells[i] = s.cells[i]
    BY <1>1, <2>3
  <2> HIDE DEF cells, d
  <2> QED BY <1>1, <1>4, <2>2, <2>4, <2>5, <2>6, <2>7 DEF d
<1> QED BY <1>2, <1>3, <1>4

\* What a slice shows is its cells within the length.
LEMMA HeldShape ==
  ASSUME NEW s, IsSlice(s)
  PROVE  s.len \in Nat /\ DOMAIN Held(s) = 1..s.len /\ Held(s) = [i \in 1..s.len |-> s.cells[i]]
PROOF
<1> DEFINE S == {s.cells[i] : i \in 1..Len(s.cells)}
           c == SubSeq(s.cells, 1, s.len)
<1>1. s.len \in Nat /\ s.len <= Len(s.cells) /\ Len(s.cells) \in Nat
  BY ListIsSequence DEF IsSlice
<1>2. \A i \in 1..s.len : s.cells[i] \in S
  BY <1>1
<1> HIDE DEF S
<1>3. /\ c \in Seq(S) /\ Len(c) = IF 1 <= s.len THEN s.len - 1 + 1 ELSE 0
      /\ \A i \in 1..(s.len - 1 + 1) : c[i] = s.cells[1 + i - 1]
  BY <1>1, <1>2, SubSeqProperties
<1>4. Len(c) = s.len /\ \A i \in 1..s.len : c[i] = s.cells[i]
  BY <1>1, <1>3
<1>5. c \in [1..s.len -> S]
  BY <1>3, <1>4, LenProperties
<1> QED BY <1>1, <1>4, <1>5 DEF Held

\* The equation of DecodeEveryRefs, for the first n arrays.
RefsDecodeAt(after, s, arrays, n) ==
  after = [k \in 0..n |-> IF k = 0 THEN s ELSE DecodeRefs(after[k - 1], arrays[k])]

\* An object that names evidence_ids not more than once: an array or nothing.
LEMMA OneRefs ==
  ASSUME NEW s, NEW arrays, IsList(arrays), Len(arrays) <= 1
  PROVE  \/ Len(arrays) = 0 /\ DecodeEveryRefs(s, arrays) = s
         \/ Len(arrays) = 1 /\ DecodeEveryRefs(s, arrays) = DecodeRefs(s, arrays[1])
PROOF
<1> DEFINE n == Len(arrays)
           f == [k \in 0..n |-> IF k = 0 THEN s ELSE DecodeRefs(s, arrays[1])]
<1>1. n = 0 \/ n = 1
  <2>1. n \in Nat
    BY DEF IsList
  <2>2. \A k \in Nat : k <= 1 => k = 0 \/ k = 1
    OBVIOUS
  <2> QED BY <2>1, <2>2, Zenon
<1>2. \E after : RefsDecodeAt(after, s, arrays, n)
  <2>1. \A k \in 0..n : k = 0 \/ (k = 1 /\ k - 1 = 0 /\ 0 \in 0..n)
    BY <1>1
  <2>2. f = [k \in 0..n |-> IF k = 0 THEN s ELSE DecodeRefs(f[k - 1], arrays[k])]
    BY <2>1
  <2> QED BY <2>2 DEF RefsDecodeAt
<1>3. PICK after : RefsDecodeAt(after, s, arrays, n) /\ DecodeEveryRefs(s, arrays) = after[n]
  BY <1>2 DEF RefsDecodeAt, DecodeEveryRefs
<1>4. after[0] = s
  BY <1>1, <1>3 DEF RefsDecodeAt
<1>5. CASE n = 0 BY <1>3, <1>4, <1>5
<1>6. CASE n = 1
  <2>1. after[1] = DecodeRefs(after[0], arrays[1])
    BY <1>3, <1>6 DEF RefsDecodeAt
  <2> QED BY <1>3, <1>4, <1>6, <2>1
<1> QED BY <1>1, <1>5, <1>6

\* A record's cell: no reference is left behind the length; nothing at all.
Neat(c) ==
  IsSlice(c.refs) /\ \A i \in DOMAIN c.refs.cells : i > c.refs.len => c.refs.cells[i] = Zero

Blank(c) ==
  /\ c.text = EmptyText /\ IsSlice(c.refs) /\ c.refs.len = 0
  /\ \A i \in DOMAIN c.refs.cells : c.refs.cells[i] = Zero

\* No cell behind the length holds anything, nor do those within it behind
\* their own.
Clear(s) ==
  \A i \in DOMAIN s.cells : (i > s.len => Blank(s.cells[i])) /\ (i <= s.len => Neat(s.cells[i]))

\* Storage with no length is clear when it is blank.
AllBlank(s) == \A i \in DOMAIN s.cells : Blank(s.cells[i])

LEMMA BlankIsClear ==
  ASSUME NEW s, AllBlank(s)
  PROVE  Clear(s)
BY DEF AllBlank, Clear, Blank, Neat

LEMMA NilIsClear == Clear(NilSlice) /\ AllBlank(NilSlice) /\ Blank(EmptyCell)
PROOF
<1>1. \A i \in DOMAIN NilSlice.cells : FALSE
  BY NilIsSlice
<1>2. EmptyCell.text = EmptyText /\ EmptyCell.refs = NilSlice
  BY DEF EmptyCell
<1> QED BY <1>1, <1>2, NilIsSlice DEF Clear, AllBlank, Blank

\* resetInput leaves no text and no reference of a neat record.
LEMMA ResetBlanks ==
  ASSUME NEW c, Neat(c)
  PROVE  Blank(ResetCell(c))
PROOF
<1> DEFINE reset == [i \in DOMAIN c.refs.cells |-> Zero]
           e == Emptied(c.refs, reset)
<1>1. ResetCell(c).text = EmptyText /\ ResetCell(c).refs = e
  BY DEF ResetCell
<1>2. IsSlice(c.refs) /\ DOMAIN c.refs.cells = 1..Len(c.refs.cells)
      /\ Len(c.refs.cells) \in Nat /\ c.refs.len \in Nat
  BY ListIsSequence DEF Neat, IsSlice
<1>3. \A i \in 1..Len(c.refs.cells) : i > c.refs.len => c.refs.cells[i] = Zero
  BY <1>2 DEF Neat
<1>4. \A i \in 1..Len(c.refs.cells) : reset[i] = Zero
  BY <1>2
<1> HIDE DEF reset
<1>5. /\ IsSlice(e) /\ e.len = 0 /\ DOMAIN e.cells = 1..Len(c.refs.cells)
      /\ \A i \in 1..Len(c.refs.cells) :
           e.cells[i] = IF i <= c.refs.len THEN reset[i] ELSE c.refs.cells[i]
  BY <1>2, EmptiedShape
<1> HIDE DEF e
<1>6. \A i \in 1..Len(c.refs.cells) : e.cells[i] = Zero
  BY <1>2, <1>3, <1>4, <1>5
<1> QED BY <1>1, <1>5, <1>6 DEF Blank

\* resetInput clears what is within the length.
LEMMA ResetShape ==
  ASSUME NEW s, IsSlice(s)
  PROVE  LET r == ResetSlice(s)
         IN  IsSlice(r) /\ r.len = 0 /\ r.nil = s.nil /\ (Clear(s) => AllBlank(r))
PROOF
<1> DEFINE reset == [i \in DOMAIN s.cells |-> ResetCell(s.cells[i])]
           r == Emptied(s, reset)
           n == Len(s.cells)
<1>1. DOMAIN s.cells = 1..n /\ n \in Nat /\ s.len \in Nat
  BY ListIsSequence DEF IsSlice
<1>2. \A i \in 1..n : reset[i] = ResetCell(s.cells[i])
  BY <1>1
<1>3. ResetSlice(s) = r
  BY DEF ResetSlice
<1> HIDE DEF reset
<1>4. /\ IsSlice(r) /\ r.len = 0 /\ r.nil = s.nil /\ DOMAIN r.cells = 1..n
      /\ \A i \in 1..n : r.cells[i] = IF i <= s.len THEN reset[i] ELSE s.cells[i]
  BY EmptiedShape
<1> HIDE DEF r
<1>5. ASSUME Clear(s), NEW i \in 1..n PROVE Blank(r.cells[i])
  <2>1. CASE i <= s.len
    <3>1. Neat(s.cells[i])
      BY <1>1, <1>5, <2>1 DEF Clear
    <3>2. r.cells[i] = ResetCell(s.cells[i])
      BY <1>2, <1>4, <2>1
    <3> QED BY <3>1, <3>2, ResetBlanks
  <2>2. CASE ~(i <= s.len)
    <3>1. i > s.len /\ r.cells[i] = s.cells[i]
      BY <1>1, <1>4, <2>2
    <3> QED BY <1>1, <1>5, <3>1 DEF Clear
  <2> QED BY <2>1, <2>2
<1> QED BY <1>3, <1>4, <1>5 DEF AllBlank

\* What Decode prepares has a cell, no length and, of clear storage, blank cells.
LEMMA PreparedShape ==
  ASSUME NEW s, IsSlice(s)
  PROVE  LET p == Prepared(s)
         IN  IsSlice(p) /\ p.len = 0 /\ p.cells # <<>> /\ (Clear(s) => AllBlank(p))
PROOF
<1> DEFINE r == ResetSlice(s)
           p == Prepared(s)
<1>1. IsSlice(r) /\ r.len = 0 /\ (Clear(s) => AllBlank(r))
  BY ResetShape
<1>2. CASE r.cells = <<>>
  <2> DEFINE one == <<EmptyCell>>
  <2>1. p = [cells |-> one, len |-> 0, nil |-> FALSE]
        /\ p.cells = one /\ p.len = 0 /\ p.nil = FALSE
    BY <1>2 DEF Prepared
  <2>2. /\ Len(one) = 1 /\ DOMAIN one = 1..1 /\ one[1] = EmptyCell
        /\ one = [i \in 1..1 |-> one[i]] /\ one # <<>>
    OBVIOUS
  <2> HIDE DEF one
  <2>3. IsList(one)
    BY <2>2 DEF IsList
  <2>4. IsSlice(p)
    BY <2>1, <2>2, <2>3 DEF IsSlice
  <2>5. \A i \in DOMAIN one : one[i] = EmptyCell
    BY <2>2
  <2>6. AllBlank(p)
    BY <2>1, <2>5, NilIsClear, Zenon DEF AllBlank
  <2> QED BY <2>1, <2>2, <2>4, <2>6
<1>3. CASE r.cells # <<>>
  <2>1. p = r
    BY <1>3 DEF Prepared
  <2> QED BY <1>1, <1>3, <2>1
<1> QED BY <1>2, <1>3

\* What an object says of its evidence_ids when it names them once or never.
FilledRefs(arrays) ==
  IF Len(arrays) = 0 \/ arrays[1].null THEN <<>>
  ELSE [i \in 1..Len(arrays[1].rows) |->
          IF arrays[1].rows[i] = NullRef THEN Zero ELSE arrays[1].rows[i]]

\* A row decoded into a cell that holds nothing.
Filled(given) ==
  [text |-> [k \in Keys |-> IF k \in DOMAIN given.text THEN given.text[k] ELSE Zero],
   refs |-> FilledRefs(given.refs)]

Shown(c) == [text |-> c.text, refs |-> Held(c.refs)]

\* evidence_ids named once are decoded over blank references as over none.
LEMMA RefsShape ==
  ASSUME NEW s, IsSlice(s), s.len = 0, \A i \in DOMAIN s.cells : s.cells[i] = Zero,
         NEW arrays, AreArrays(arrays), Len(arrays) <= 1
  PROVE  LET d == DecodeEveryRefs(s, arrays)
         IN  /\ IsSlice(d) /\ Held(d) = FilledRefs(arrays)
             /\ \A i \in DOMAIN d.cells : i > d.len => d.cells[i] = Zero
PROOF
<1> DEFINE d == DecodeEveryRefs(s, arrays)
<1>1. IsList(arrays) /\ DOMAIN arrays = 1..Len(arrays)
  BY ListIsSequence DEF AreArrays
<1>2. CASE Len(arrays) = 0
  <2>1. d = s
    BY <1>1, <1>2, OneRefs
  <2>2. Held(s) = [i \in 1..0 |-> s.cells[i]]
    BY HeldShape
  <2>3. Held(s) = <<>>
    BY <2>2
  <2>4. FilledRefs(arrays) = <<>>
    BY <1>2 DEF FilledRefs
  <2> QED BY <2>1, <2>3, <2>4
<1>3. CASE Len(arrays) = 1
  <2> DEFINE array == arrays[1]
             m == Len(array.rows)
             elements == [i \in DOMAIN array.rows |->
                            IF array.rows[i] = NullRef THEN Cell(s, i, Zero) ELSE array.rows[i]]
  <2>1. d = Replaced(s, array, elements)
    <3>1. Len(arrays) # 0
      BY <1>3
    <3>2. d = DecodeRefs(s, array)
      BY <1>1, <3>1, OneRefs, Zenon
    <3> QED BY <3>2 DEF DecodeRefs
  <2>2. IsList(array.rows) /\ DOMAIN array.rows = 1..m
    <3>1. IsList(array.rows)
      BY <1>1, <1>3 DEF AreArrays
    <3> QED BY <3>1, ListIsSequence
  <2>3. \A i \in 1..m : elements[i] = IF array.rows[i] = NullRef THEN Zero ELSE array.rows[i]
    BY <2>2 DEF Cell
  <2> HIDE DEF d, elements, array
  <2>9. ReplacedWith(d, s, array, elements)
    BY <2>1, <2>2, ReplacedShape, Zenon
  <2>4. /\ IsSlice(d)
        /\ array.null => d = NilSlice
        /\ ~array.null => d.len = m
        /\ ~array.null => \A i \in 1..m : d.cells[i] = elements[i]
        /\ \A i \in DOMAIN d.cells : i > d.len => i \in DOMAIN s.cells /\ d.cells[i] = s.cells[i]
    BY <2>9 DEF ReplacedWith
  <2>5. \A i \in DOMAIN d.cells : i > d.len => d.cells[i] = Zero
    BY <2>4
  <2>6. Held(d) = [i \in 1..d.len |-> d.cells[i]]
    BY <2>4, HeldShape
  <2>7. CASE array.null
    <3>1. Held(d) = <<>>
      <4>1. d.len = 0
        BY <2>4, <2>7, NilIsSlice
      <4> QED BY <2>6, <4>1
    <3>2. FilledRefs(arrays) = <<>>
      BY <2>7 DEF FilledRefs, array
    <3> QED BY <2>4, <2>5, <3>1, <3>2 DEF d
  <2>8. CASE ~array.null
    <3>1. FilledRefs(arrays) = [i \in 1..m |-> IF array.rows[i] = NullRef THEN Zero ELSE array.rows[i]]
      BY <1>3, <2>8 DEF FilledRefs, array
    <3>2. Held(d) = [i \in 1..m |-> elements[i]]
      BY <2>4, <2>6, <2>8
    <3> QED BY <2>3, <2>4, <2>5, <3>1, <3>2 DEF d
  <2> QED BY <2>7, <2>8
<1>4. Len(arrays) = 0 \/ Len(arrays) = 1
  BY <1>1, OneRefs
<1> QED BY <1>2, <1>3, <1>4

\* A row that names evidence_ids not more than once.
CitesOnce(row) == AreArrays(row.refs) /\ Len(row.refs) <= 1

\* Such a row is decoded over a blank cell as over no cell.
LEMMA RowShape ==
  ASSUME NEW c, Blank(c), NEW row, CitesOnce(row)
  PROVE  Neat(DecodeRow(c, row)) /\ Shown(DecodeRow(c, row)) = Filled(row)
PROOF
<1> DEFINE d == DecodeRow(c, row)
           refs == DecodeEveryRefs(c.refs, row.refs)
           text == [k \in Keys |-> IF k \in DOMAIN row.text THEN row.text[k] ELSE Zero]
<1>1. c.text = [k \in Keys |-> Zero] /\ IsSlice(c.refs) /\ c.refs.len = 0
      /\ \A i \in DOMAIN c.refs.cells : c.refs.cells[i] = Zero
  BY DEF Blank, EmptyText
<1>2. d.text = text /\ d.refs = refs
  BY <1>1 DEF DecodeRow
<1>3. /\ IsSlice(refs) /\ Held(refs) = FilledRefs(row.refs)
      /\ \A i \in DOMAIN refs.cells : i > refs.len => refs.cells[i] = Zero
  BY <1>1, RefsShape DEF CitesOnce
<1> HIDE DEF d, refs, text
<1>4. Neat(d)
  BY <1>2, <1>3 DEF Neat
<1>5. Shown(d) = Filled(row)
  BY <1>2, <1>3 DEF Shown, Filled, text
<1> QED BY <1>4, <1>5 DEF d

\* Every row names evidence_ids not more than once.
RowsCiteOnce(array) == \A i \in DOMAIN array.rows : CitesOnce(array.rows[i])

\* The array replaces the slice; its rows are decoded over the cells.
ReplacedBy(d, s, array) ==
  /\ IsSlice(d)
  /\ array.null => d = NilSlice
  /\ ~array.null => d.len = Len(array.rows) /\ d.nil = FALSE
  /\ AllBlank(s) /\ RowsCiteOnce(array) =>
       /\ Clear(d)
       /\ ~array.null => \A i \in 1..Len(array.rows) : Shown(d.cells[i]) = Filled(array.rows[i])
  /\ ~array.null /\ array.rows = <<>> => d.cells = <<>>

\* What decoding an array leaves is such a slice.
LEMMA ArrayShape ==
  ASSUME NEW s, IsSlice(s), NEW array, IsList(array.rows)
  PROVE  ReplacedBy(DecodeArray(s, array), s, array)
PROOF
<1> DEFINE d == DecodeArray(s, array)
           rows == array.rows
           m == Len(rows)
           elements == [i \in DOMAIN rows |-> DecodeRow(Cell(s, i, EmptyCell), rows[i])]
<1>1. m \in Nat /\ DOMAIN rows = 1..m
  BY ListIsSequence
<1>2. d = Replaced(s, array, elements)
  BY DEF DecodeArray
<1>3. \A i \in 1..m : elements[i] = DecodeRow(Cell(s, i, EmptyCell), rows[i])
  BY <1>1
<1> HIDE DEF d, elements
<1>6. ReplacedWith(d, s, array, elements)
  BY <1>2, ReplacedShape, Zenon
<1>4. /\ IsSlice(d)
      /\ array.null => d = NilSlice
      /\ ~array.null => d.len = m /\ d.nil = FALSE
      /\ ~array.null => \A i \in 1..m : d.cells[i] = elements[i]
      /\ \A i \in DOMAIN d.cells : i > d.len => i \in DOMAIN s.cells /\ d.cells[i] = s.cells[i]
      /\ ~array.null /\ rows = <<>> => d.cells = <<>>
  BY <1>6 DEF ReplacedWith
<1>5. ASSUME AllBlank(s), RowsCiteOnce(array)
      PROVE  /\ Clear(d)
             /\ ~array.null => \A i \in 1..m : Shown(d.cells[i]) = Filled(rows[i])
  <2>1. \A i \in 1..m : Blank(Cell(s, i, EmptyCell))
    BY <1>5, NilIsClear DEF AllBlank, Cell
  <2>2. \A i \in 1..m : CitesOnce(rows[i])
    BY <1>1, <1>5 DEF RowsCiteOnce
  <2>3. \A i \in 1..m : Neat(elements[i]) /\ Shown(elements[i]) = Filled(rows[i])
    BY <1>3, <2>1, <2>2, RowShape
  <2>4. \A i \in DOMAIN d.cells : i > d.len => Blank(d.cells[i])
    BY <1>4, <1>5 DEF AllBlank
  <2>5. CASE array.null
    BY <1>4, <2>5, NilIsClear
  <2>6. CASE ~array.null
    <3>1. ASSUME NEW i \in DOMAIN d.cells, i <= d.len PROVE Neat(d.cells[i])
      <4>1. DOMAIN d.cells = 1..Len(d.cells) /\ Len(d.cells) \in Nat
        BY <1>4, ListIsSequence DEF IsSlice
      <4>2. i \in 1..m
        BY <1>1, <1>4, <2>6, <3>1, <4>1
      <4> QED BY <1>4, <2>3, <2>6, <4>2
    <3>2. Clear(d)
      BY <2>4, <3>1 DEF Clear
    <3> QED BY <1>4, <2>3, <2>6, <3>2
  <2> QED BY <2>5, <2>6
<1> QED BY <1>4, <1>5 DEF ReplacedBy, d

\* The equation of DecodeArrays, for the first n arrays.
DecodesAt(after, s, arrays, n) ==
  after = [k \in 0..n |-> IF k = 0 THEN s ELSE DecodeArray(after[k - 1], arrays[k])]

\* Some slices satisfy the equation, so the recursive definition is sound.
LEMMA DecodesExist ==
  ASSUME NEW s, NEW arrays
  PROVE  \A n \in Nat : \E after : DecodesAt(after, s, arrays, n)
PROOF
<1> DEFINE Bad == {n \in Nat : ~\E after : DecodesAt(after, s, arrays, n)}
<1> SUFFICES ASSUME Bad # {} PROVE FALSE
  OBVIOUS
<1>1. PICK n \in Bad : \A k \in Bad : n <= k
  BY LeastNumber
<1>2. CASE n = 0
  <2>1. DecodesAt([k \in 0..0 |-> s], s, arrays, 0)
    BY DEF DecodesAt
  <2> QED BY <1>1, <1>2, <2>1
<1>3. CASE n # 0
  <2>1. n - 1 \in Nat /\ n - 1 \notin Bad
    BY <1>1, <1>3
  <2>2. PICK g : DecodesAt(g, s, arrays, n - 1)
    BY <2>1
  <2> DEFINE next(h, k) == IF k = 0 THEN s ELSE DecodeArray(h[k - 1], arrays[k])
             f == [k \in 0..n |-> IF k = n THEN DecodeArray(g[n - 1], arrays[n]) ELSE g[k]]
  <2>3. \A k \in 0..(n - 1) : g[k] = next(g, k)
    BY <1>1, <2>1, <2>2 DEF DecodesAt
  <2>4. ASSUME NEW k \in 0..n PROVE f[k] = next(f, k)
    <3>1. CASE k = n
      <4>1. k - 1 \in 0..n /\ k - 1 # n /\ k # 0 /\ k - 1 = n - 1
        BY <1>1, <1>3, <3>1
      <4> QED BY <3>1, <4>1
    <3>2. CASE k # n
      <4>1. k \in 0..(n - 1) /\ k - 1 # n /\ (k = 0 \/ k - 1 \in 0..n)
        BY <1>1, <3>2
      <4> QED BY <2>3, <3>2, <4>1
    <3> QED BY <3>1, <3>2
  <2>5. DecodesAt(f, s, arrays, n)
    <3> DEFINE h == [k \in 0..n |-> next(f, k)]
    <3>1. f = h
      BY <2>4
    <3> QED BY <3>1 DEF DecodesAt
  <2> QED BY <1>1, <2>5
<1> QED BY <1>2, <1>3

\* Arrays that follow one another: the last state of the slice.
LEMMA ArraysSteps ==
  ASSUME NEW s, NEW arrays, IsList(arrays)
  PROVE  \E after : /\ DecodesAt(after, s, arrays, Len(arrays))
                    /\ DecodeArrays(s, arrays) = after[Len(arrays)]
PROOF
<1>1. Len(arrays) \in Nat
  BY DEF IsList
<1>2. \E after : DecodesAt(after, s, arrays, Len(arrays))
  BY <1>1, DecodesExist
<1> QED BY <1>2 DEF DecodesAt, DecodeArrays

\* However many arrays a document names, what is left is a slice.
LEMMA ArraysShape ==
  ASSUME NEW s, IsSlice(s), NEW arrays, IsList(arrays),
         \A i \in DOMAIN arrays : IsList(arrays[i].rows)
  PROVE  IsSlice(DecodeArrays(s, arrays))
PROOF
<1> DEFINE n == Len(arrays)
<1>1. n \in Nat /\ DOMAIN arrays = 1..n
  BY ListIsSequence
<1>2. PICK after : DecodesAt(after, s, arrays, n) /\ DecodeArrays(s, arrays) = after[n]
  BY ArraysSteps
<1> DEFINE Bad == {k \in 0..n : ~IsSlice(after[k])}
<1>3. Bad = {}
  <2> SUFFICES ASSUME Bad # {} PROVE FALSE
    OBVIOUS
  <2>1. PICK k \in Bad : \A j \in Bad : k <= j
    <3>1. Bad \in SUBSET Nat
      BY <1>1
    <3> QED BY <3>1, LeastNumber
  <2>2. CASE k = 0
    <3>1. after[0] = s
      BY <1>1, <1>2 DEF DecodesAt
    <3> QED BY <2>1, <2>2, <3>1
  <2>3. CASE k # 0
    <3>1. k \in 1..n /\ k \in 0..n /\ k - 1 \in 0..n /\ k - 1 \notin Bad
      BY <1>1, <2>1, <2>3
    <3>2. IsSlice(after[k - 1]) /\ IsList(arrays[k].rows)
      BY <1>1, <3>1
    <3>3. after[k] = DecodeArray(after[k - 1], arrays[k])
      BY <1>2, <2>3, <3>1 DEF DecodesAt
    <3>4. IsSlice(after[k])
      BY <3>2, <3>3, ArrayShape, Zenon DEF ReplacedBy
    <3> QED BY <2>1, <3>4
  <2> QED BY <2>2, <2>3
<1> QED BY <1>1, <1>2, <1>3

\* A document that names the key not more than once: an array or nothing.
LEMMA OneArray ==
  ASSUME NEW s, NEW arrays, IsList(arrays), Len(arrays) <= 1
  PROVE  \/ Len(arrays) = 0 /\ DecodeArrays(s, arrays) = s
         \/ Len(arrays) = 1 /\ DecodeArrays(s, arrays) = DecodeArray(s, arrays[1])
PROOF
<1>1. Len(arrays) \in Nat
  BY DEF IsList
<1>2. PICK after : /\ DecodesAt(after, s, arrays, Len(arrays))
                   /\ DecodeArrays(s, arrays) = after[Len(arrays)]
  BY ArraysSteps
<1>3. after[0] = s
  BY <1>1, <1>2 DEF DecodesAt
<1>4. CASE Len(arrays) = 0
  BY <1>2, <1>3, <1>4
<1>5. CASE Len(arrays) = 1
  <2>1. after[1] = DecodeArray(after[0], arrays[1])
    BY <1>2, <1>5 DEF DecodesAt
  <2> QED BY <1>2, <1>3, <1>5, <2>1
<1>6. Len(arrays) = 0 \/ Len(arrays) = 1
  <2>1. \A n \in Nat : n <= 1 => n = 0 \/ n = 1
    OBVIOUS
  <2> QED BY <1>1, <2>1, Zenon
<1> QED BY <1>4, <1>5, <1>6, Zenon

\* What the records of a slice show.
LEMMA ContentsShape ==
  ASSUME NEW s, IsSlice(s)
  PROVE  Contents(s) = [i \in 1..s.len |-> Shown(s.cells[i])]
BY HeldShape DEF Contents, Shown

\* What a frame leaves in clear storage: its own rows, whatever was there.
LEMMA ArraysAlike ==
  ASSUME NEW s, IsSlice(s), Clear(s), NEW t, IsSlice(t), Clear(t),
         NEW arrays, AreArrays(arrays), Len(arrays) <= 1,
         \A i \in DOMAIN arrays : RowsCiteOnce(arrays[i])
  PROVE  LET a == DecodeArrays(Prepared(s), arrays)
             b == DecodeArrays(Prepared(t), arrays)
         IN  IsSlice(a) /\ Clear(a) /\ (Given(a) <=> Given(b)) /\ Contents(a) = Contents(b)
PROOF
<1> DEFINE p == Prepared(s)
           q == Prepared(t)
           a == DecodeArrays(p, arrays)
           b == DecodeArrays(q, arrays)
<1>1. /\ IsSlice(p) /\ p.len = 0 /\ p.cells # <<>> /\ AllBlank(p)
      /\ IsSlice(q) /\ q.len = 0 /\ q.cells # <<>> /\ AllBlank(q)
  BY PreparedShape
<1>2. IsList(arrays) /\ Len(arrays) \in Nat /\ DOMAIN arrays = 1..Len(arrays)
  BY ListIsSequence DEF AreArrays
<1> HIDE DEF p, q
<1>3. CASE Len(arrays) = 0
  <2>1. a = p /\ b = q
    BY <1>2, <1>3, OneArray
  <2>2. ~Given(p) /\ ~Given(q)
    BY <1>1 DEF Given
  <2>3. Clear(p)
    BY <1>1, BlankIsClear
  <2>4. Contents(p) = Contents(q)
    <3>1. /\ Contents(p) = [i \in 1..0 |-> Shown(p.cells[i])]
          /\ Contents(q) = [i \in 1..0 |-> Shown(q.cells[i])]
      BY <1>1, ContentsShape, Zenon
    <3> QED BY <3>1
  <2> QED BY <1>1, <2>1, <2>2, <2>3, <2>4 DEF p, q
<1>4. CASE Len(arrays) = 1
  <2> DEFINE array == arrays[1]
             m == Len(array.rows)
  <2>1. a = DecodeArray(p, array) /\ b = DecodeArray(q, array)
    <3>1. Len(arrays) # 0 /\ Len(arrays) <= 1
      BY <1>4
    <3> QED BY <1>2, <3>1, OneArray, Zenon
  <2>2. IsList(array.rows) /\ RowsCiteOnce(array)
    BY <1>2, <1>4 DEF AreArrays
  <2>3. /\ IsSlice(a) /\ IsSlice(b) /\ Clear(a)
        /\ array.null => a = NilSlice /\ b = NilSlice
        /\ ~array.null => a.len = m /\ b.len = m /\ a.nil = FALSE /\ b.nil = FALSE
        /\ ~array.null => \A i \in 1..m : Shown(a.cells[i]) = Filled(array.rows[i])
        /\ ~array.null => \A i \in 1..m : Shown(b.cells[i]) = Filled(array.rows[i])
        /\ ~array.null /\ array.rows = <<>> => a.cells = <<>> /\ b.cells = <<>>
    <3>1. ReplacedBy(a, p, array) /\ ReplacedBy(b, q, array)
      BY <1>1, <2>1, <2>2, ArrayShape, Zenon
    <3> HIDE DEF a, b, array
    <3> QED BY <1>1, <2>2, <3>1, Zenon DEF ReplacedBy
  <2> HIDE DEF a, b, array
  <2>4. CASE array.null
    BY <2>3, <2>4 DEF a, b, p, q
  <2>5. CASE ~array.null
    <3>1. Given(a) <=> Given(b)
      <4>1. CASE array.rows = <<>>
        BY <2>3, <2>5, <4>1 DEF Given
      <4>2. CASE array.rows # <<>>
        <5>1. m \in Nat /\ m # 0
          <6>1. m \in Nat /\ array.rows = [i \in 1..m |-> array.rows[i]]
            BY <2>2 DEF IsList
          <6>2. m = 0 => array.rows = [i \in 1..0 |-> array.rows[i]]
            BY <6>1
          <6>3. [i \in 1..0 |-> array.rows[i]] = <<>>
            OBVIOUS
          <6> QED BY <4>2, <6>1, <6>2, <6>3
        <5>2. a.len # 0 /\ b.len # 0 /\ a.nil = FALSE /\ b.nil = FALSE
          BY <2>3, <2>5, <5>1
        <5> QED BY <5>2 DEF Given
      <4> QED BY <4>1, <4>2
    <3>2. Contents(a) = Contents(b)
      <4>1. /\ Contents(a) = [i \in 1..m |-> Shown(a.cells[i])]
            /\ Contents(b) = [i \in 1..m |-> Shown(b.cells[i])]
        BY <2>3, <2>5, ContentsShape, Zenon
      <4>2. \A i \in 1..m : Shown(a.cells[i]) = Shown(b.cells[i])
        BY <2>3, <2>5
      <4> QED BY <4>1, <4>2
    <3> QED BY <2>3, <3>1, <3>2 DEF a, b, p, q
  <2> QED BY <2>4, <2>5
<1> QED BY <1>2, <1>3, <1>4

\* A document that names neither array more than once, and none of whose
\* requests names evidence_ids more than once.
NamesOnce(doc) ==
  /\ Len(doc.requests) <= 1 /\ Len(doc.evidence) <= 1
  /\ \A i \in DOMAIN doc.requests : \A j \in DOMAIN doc.requests[i].rows :
       Len(doc.requests[i].rows[j].refs) <= 1

\* Decoding leaves slices, whether it succeeds or not.
LEMMA DecodedSlices ==
  ASSUME NEW req, IsSlice(req), NEW ev, IsSlice(ev), NEW doc, IsDocument(doc)
  PROVE  LET d == Decoded(req, ev, doc) IN IsSlice(d.requests) /\ IsSlice(d.evidence)
PROOF
<1> DEFINE d == Decoded(req, ev, doc)
           p == Prepared(req)
           q == Prepared(ev)
           req1 == DecodeArrays(p, doc.requests)
           ev1 == DecodeArrays(q, doc.evidence)
<1>1. IsSlice(p) /\ IsSlice(q)
  BY PreparedShape
<1>2. IsSlice(req1) /\ IsSlice(ev1)
  BY <1>1, ArraysShape DEF IsDocument, AreArrays
<1>3. /\ IsSlice(ResetSlice(p)) /\ IsSlice(ResetSlice(q))
      /\ IsSlice(ResetSlice(req1)) /\ IsSlice(ResetSlice(ev1))
  BY <1>1, <1>2, ResetShape
<1>4. \/ d.requests = req /\ d.evidence = ev
      \/ d.requests = ResetSlice(p) /\ d.evidence = ResetSlice(q)
      \/ d.requests = ResetSlice(req1) /\ d.evidence = ResetSlice(ev1)
      \/ d.requests = req1 /\ d.evidence = ev1
  BY DEF Decoded
<1> HIDE DEF d, p, q, req1, ev1
<1> QED BY <1>2, <1>3, <1>4 DEF d

\* A document is decoded into clear storage as into no storage.
LEMMA DecodedAlike ==
  ASSUME NEW req, IsSlice(req), Clear(req), NEW ev, IsSlice(ev), Clear(ev),
         NEW doc, IsDocument(doc), NamesOnce(doc)
  PROVE  LET d == Decoded(req, ev, doc)
             alone == Decoded(NilSlice, NilSlice, doc)
         IN  /\ Clear(d.requests) /\ Clear(d.evidence)
             /\ d.ok = alone.ok
             /\ d.ok => /\ Contents(d.requests) = Contents(alone.requests)
                        /\ Contents(d.evidence) = Contents(alone.evidence)
PROOF
<1> DEFINE d == Decoded(req, ev, doc)
           alone == Decoded(NilSlice, NilSlice, doc)
           p == Prepared(req)
           q == Prepared(ev)
           req1 == DecodeArrays(p, doc.requests)
           ev1 == DecodeArrays(q, doc.evidence)
           req0 == DecodeArrays(Prepared(NilSlice), doc.requests)
           ev0 == DecodeArrays(Prepared(NilSlice), doc.evidence)
<1>1. /\ IsSlice(req1) /\ Clear(req1) /\ (Given(req1) <=> Given(req0))
      /\ Contents(req1) = Contents(req0)
      /\ IsSlice(ev1) /\ Clear(ev1) /\ (Given(ev1) <=> Given(ev0))
      /\ Contents(ev1) = Contents(ev0)
  <2>1. /\ AreArrays(doc.requests) /\ Len(doc.requests) <= 1
        /\ AreArrays(doc.evidence) /\ Len(doc.evidence) <= 1
    BY DEF IsDocument, NamesOnce
  <2>2. \A i \in DOMAIN doc.requests : RowsCiteOnce(doc.requests[i])
    BY DEF IsDocument, NamesOnce, RowsCiteOnce, CitesOnce
  <2>3. AreArrays(<<>>) /\ Len(<<>>) <= 1
    BY DEF AreArrays, IsList
  <2>4. \A i \in DOMAIN doc.evidence : RowsCiteOnce(doc.evidence[i])
    BY <2>3 DEF IsDocument, RowsCiteOnce, CitesOnce
  <2> QED BY <2>1, <2>2, <2>4, NilIsSlice, NilIsClear, ArraysAlike
<1>2. IsSlice(p) /\ Clear(p) /\ IsSlice(q) /\ Clear(q)
  BY PreparedShape, BlankIsClear
<1>3. /\ Clear(ResetSlice(p)) /\ Clear(ResetSlice(q))
      /\ Clear(ResetSlice(req1)) /\ Clear(ResetSlice(ev1))
  BY <1>1, <1>2, ResetShape, BlankIsClear
<1>4. \/ /\ doc.form = "other"
         /\ d = [requests |-> req, evidence |-> ev, ok |-> FALSE]
      \/ /\ doc.form = "syntax"
         /\ d = [requests |-> ResetSlice(p), evidence |-> ResetSlice(q), ok |-> FALSE]
      \/ /\ doc.form \notin {"other", "syntax"}
         /\ doc.form = "unknown field" \/ ~Given(req1) \/ ~Given(ev1)
         /\ d = [requests |-> ResetSlice(req1), evidence |-> ResetSlice(ev1), ok |-> FALSE]
      \/ /\ doc.form \notin {"other", "syntax", "unknown field"} /\ Given(req1) /\ Given(ev1)
         /\ d = [requests |-> req1, evidence |-> ev1, ok |-> TRUE]
  BY DEF Decoded
<1>5. /\ doc.form \in {"other", "syntax", "unknown field"} \/ ~Given(req0) \/ ~Given(ev0) =>
           alone.ok = FALSE
      /\ doc.form \notin {"other", "syntax", "unknown field"} /\ Given(req0) /\ Given(ev0) =>
           alone = [requests |-> req0, evidence |-> ev0, ok |-> TRUE]
  BY DEF Decoded
<1> HIDE DEF d, alone, p, q, req1, ev1, req0, ev0
<1> DEFINE Good ==
      /\ Clear(d.requests) /\ Clear(d.evidence) /\ d.ok = alone.ok
      /\ d.ok => /\ Contents(d.requests) = Contents(alone.requests)
                 /\ Contents(d.evidence) = Contents(alone.evidence)
<1>6. ASSUME d = [requests |-> req, evidence |-> ev, ok |-> FALSE] /\ alone.ok = FALSE
      PROVE  Good
  <2>1. d.requests = req /\ d.evidence = ev /\ d.ok = FALSE
    BY <1>6
  <2> QED BY <1>6, <2>1, Zenon
<1>7. ASSUME /\ d = [requests |-> ResetSlice(p), evidence |-> ResetSlice(q), ok |-> FALSE]
             /\ alone.ok = FALSE
      PROVE  Good
  <2>1. d.requests = ResetSlice(p) /\ d.evidence = ResetSlice(q) /\ d.ok = FALSE
    BY <1>7
  <2> QED BY <1>3, <1>7, <2>1, Zenon
<1>8. ASSUME /\ d = [requests |-> ResetSlice(req1), evidence |-> ResetSlice(ev1), ok |-> FALSE]
             /\ alone.ok = FALSE
      PROVE  Good
  <2>1. d.requests = ResetSlice(req1) /\ d.evidence = ResetSlice(ev1) /\ d.ok = FALSE
    BY <1>8
  <2> QED BY <1>3, <1>8, <2>1, Zenon
<1>9. ASSUME /\ d = [requests |-> req1, evidence |-> ev1, ok |-> TRUE]
             /\ alone = [requests |-> req0, evidence |-> ev0, ok |-> TRUE]
      PROVE  Good
  <2>1. /\ d.requests = req1 /\ d.evidence = ev1 /\ d.ok = TRUE
        /\ alone.requests = req0 /\ alone.evidence = ev0 /\ alone.ok = TRUE
    BY <1>9
  <2> QED BY <1>1, <2>1, Zenon
<1> HIDE DEF Good
<1>10. Good
  BY <1>1, <1>4, <1>5, <1>6, <1>7, <1>8, <1>9, Zenon
<1> QED BY <1>10 DEF Good, d, alone

-----------------------------------------------------------------------------
(* The invariants.                                                         *)

\* The bytes read, the frame being served and the frames answered agree.
PlaceInv ==
  /\ input \in Inputs /\ consumed \in 0..input.bytes /\ got \in Nat /\ sent \in Nat
  /\ pc \in {"header", "size", "payload", "decode", "evaluate", "encode", "write", "stopped"}
  /\ exit \in {"running", "success", "failure"} /\ (pc = "stopped" <=> exit # "running")
  /\ IsList(delivered) /\ Len(delivered) <= Len(input.frames)
  /\ pc \notin {"header", "stopped"} => Len(delivered) < Len(input.frames)
  /\ IsSlice(requests) /\ IsSlice(evidence)
  /\ pc = "header" => got < HeaderSize /\ consumed = InFrame + got
  /\ pc = "size" => consumed = InFrame + HeaderSize
  /\ pc = "payload" => got < Frame.size /\ consumed = InFrame + HeaderSize + got
  /\ pc \in {"decode", "evaluate", "encode", "write"} =>
       consumed = InFrame + HeaderSize + Frame.size
  /\ CleanExitAnswersAll

\* What is under way is the frame's own: storage that later frames may be
\* decoded over is clear, and what is written is what the frame alone yields.
AnswerInv ==
  /\ Clear(requests) /\ Clear(evidence)
  /\ pc = "evaluate" =>
       LET alone == Decoded(NilSlice, NilSlice, Frame.doc)
       IN  /\ alone.ok
           /\ Contents(requests) = Contents(alone.requests)
           /\ Contents(evidence) = Contents(alone.evidence)
  /\ pc \in {"encode", "write"} => response = AnswerAlone(Frame.doc)
  /\ AnswersItsFrame /\ OnlyTransportStops

\* The frame being served.
LEMMA FrameShape ==
  ASSUME PlaceInv
  PROVE  LET k == Len(delivered) + 1
             n == Len(input.frames)
         IN  /\ IsInput(input) /\ n \in Nat /\ k \in 1..(n + 1)
             /\ InFrame = StartOf(k) /\ StartOf(k) \in Nat
             /\ StartOf(1) = 0 /\ input.bytes \in 0..StartOf(n + 1)
             /\ k <= n => /\ k \in DOMAIN input.frames /\ Frame = input.frames[k]
                          /\ Frame.size \in Nat /\ IsDocument(Frame.doc)
                          /\ StartOf(k + 1) = StartOf(k) + HeaderSize + Frame.size
                          /\ StartOf(k + 1) \in Nat
PROOF
<1> DEFINE k == Len(delivered) + 1
           n == Len(input.frames)
<1>1. IsInput(input) /\ IsList(delivered) /\ Len(delivered) <= n
  BY StreamAssumption DEF PlaceInv
<1>2. Len(delivered) \in Nat
  BY <1>1 DEF IsList
<1>3. /\ n \in Nat /\ DOMAIN input.frames = 1..n
      /\ StartOf(1) = 0 /\ \A j \in 1..(n + 1) : StartOf(j) \in Nat
      /\ \A j \in 1..n : StartOf(j + 1) = StartOf(j) + HeaderSize + input.frames[j].size
  BY <1>1, StartsShape DEF StartOf
<1>4. input.bytes \in 0..StartOf(n + 1)
  BY <1>1 DEF IsInput, StartOf
<1>5. \A j \in 1..n : input.frames[j].size \in Nat /\ IsDocument(input.frames[j].doc)
  BY <1>1, <1>3 DEF IsInput
<1>6. k \in 1..(n + 1) /\ (k <= n => k \in 1..n /\ k + 1 \in 1..(n + 1))
  BY <1>1, <1>2, <1>3
<1>7. InFrame = StartOf(k) /\ Frame = input.frames[k]
  BY DEF InFrame, Frame
<1> HIDE DEF k, n
<1> QED BY <1>1, <1>3, <1>4, <1>5, <1>6, <1>7 DEF k, n

\* Nothing has been read before the first step.
LEMMA InitPlace == Init => PlaceInv
PROOF
<1> SUFFICES ASSUME Init PROVE PlaceInv
  OBVIOUS
<1>1. IsInput(input) /\ HeaderSize \in Nat \ {0}
  BY StreamAssumption DEF Init
<1>2. delivered = <<>> /\ consumed = 0 /\ got = 0 /\ sent = 0 /\ pc = "header" /\ exit = "running"
  BY DEF Init
<1>3. Len(delivered) = 0 /\ IsList(delivered)
  BY <1>2 DEF IsList
<1>4. Len(input.frames) \in Nat /\ StartOf(1) = 0
  BY <1>1, StartsShape DEF StartOf
<1>5. StartOf(Len(input.frames) + 1) \in Nat /\ input.bytes \in 0..StartOf(Len(input.frames) + 1)
  <2>1. Len(input.frames) + 1 \in 1..(Len(input.frames) + 1)
    BY <1>4
  <2> QED BY <1>1, <2>1, StartsShape DEF IsInput, StartOf
<1>6. InFrame = 0
  BY <1>3, <1>4 DEF InFrame
<1>7. IsSlice(requests) /\ IsSlice(evidence)
  BY NilIsSlice DEF Init
<1> QED BY <1>1, <1>2, <1>3, <1>4, <1>5, <1>6, <1>7 DEF Init, PlaceInv, CleanExitAnswersAll

\* A step of the reader, and the check of the length it has read.
LEMMA ReadKeepsPlace ==
  ASSUME PlaceInv, ReadHeader \/ CheckSize \/ ReadPayload \/ EndOfInput \/ ReadFails
  PROVE  PlaceInv'
PROOF
<1> DEFINE k == Len(delivered) + 1
           n == Len(input.frames)
<1>1. /\ n \in Nat /\ k \in 1..(n + 1) /\ InFrame = StartOf(k) /\ StartOf(k) \in Nat
      /\ input.bytes \in 0..StartOf(n + 1)
      /\ k <= n => Frame.size \in Nat /\ StartOf(k + 1) = StartOf(k) + HeaderSize + Frame.size
                   /\ StartOf(k + 1) \in Nat
      /\ Len(delivered) \in Nat
  BY FrameShape, ListIsSequence DEF PlaceInv
<1>2. HeaderSize \in Nat /\ HeaderSize > 0 /\ consumed \in Nat /\ got \in Nat /\ input.bytes \in Nat
      /\ consumed <= input.bytes
  BY <1>1, StreamAssumption DEF PlaceInv
<1>3. /\ input' = input /\ delivered' = delivered /\ requests' = requests /\ evidence' = evidence
      /\ sent' = sent /\ InFrame' = InFrame /\ Frame' = Frame
  BY DEF ReadHeader, CheckSize, ReadPayload, EndOfInput, ReadFails, codec, writer, InFrame, StartOf,
         Frame
<1> DEFINE Kept ==
      /\ consumed' \in 0..input.bytes /\ got' \in Nat
      /\ pc' \in {"header", "size", "payload", "decode", "stopped"}
      /\ exit' \in {"running", "success", "failure"} /\ (pc' = "stopped" <=> exit' # "running")
      /\ pc' \notin {"header", "stopped"} => Len(delivered) < n
      /\ pc' = "header" => got' < HeaderSize /\ consumed' = InFrame + got'
      /\ pc' = "size" => consumed' = InFrame + HeaderSize
      /\ pc' = "payload" => got' < Frame.size /\ consumed' = InFrame + HeaderSize + got'
      /\ pc' = "decode" => consumed' = InFrame + HeaderSize + Frame.size
      /\ exit' = "success" => input.bytes = InFrame
<1>4. ASSUME ReadHeader PROVE Kept
  <2>1. PICK m \in 1..(HeaderSize - got) : Read(m)
    BY <1>4 DEF ReadHeader
  <2>2. pc = "header" /\ got < HeaderSize /\ consumed = InFrame + got /\ exit = "running"
    BY <1>4 DEF ReadHeader, PlaceInv
  <2>3. /\ consumed' = consumed + m /\ got' = got + m /\ consumed + m <= input.bytes
        /\ m \in Nat /\ m > 0 /\ got + m <= HeaderSize
    BY <1>2, <2>1, <2>2 DEF Read
  <2>4. k # n + 1
    BY <1>1, <1>2, <2>2, <2>3
  <2>5. Len(delivered) < n
    BY <1>1, <2>4
  <2>6. exit' = "running" /\ pc' = IF got' = HeaderSize THEN "size" ELSE "header"
    BY <1>4, <2>2 DEF ReadHeader
  <2>7. InFrame \in Nat
    BY <1>1
  <2>8. consumed' \in 0..input.bytes /\ got' \in Nat /\ got' <= HeaderSize
        /\ consumed' = InFrame + got'
    BY <1>2, <2>2, <2>3, <2>7
  <2>9. CASE got' = HeaderSize
    <3>1. pc' = "size" /\ consumed' = InFrame + HeaderSize
      BY <2>6, <2>8, <2>9
    <3> QED BY <2>5, <2>6, <2>8, <3>1
  <2>10. CASE got' # HeaderSize
    <3>1. pc' = "header" /\ got' < HeaderSize
      BY <1>2, <2>6, <2>8, <2>10
    <3> QED BY <2>6, <2>8, <3>1
  <2> QED BY <2>9, <2>10
<1>5. ASSUME CheckSize PROVE Kept
  <2>1. /\ pc = "size" /\ consumed' = consumed /\ got' = 0 /\ exit = "running"
        /\ consumed = InFrame + HeaderSize /\ Len(delivered) < n
    BY <1>5 DEF CheckSize, PlaceInv
  <2>2. \/ exit' = "failure" /\ pc' = "stopped"
        \/ exit' = exit /\ Frame.size > 0 /\ pc' = "payload"
        \/ exit' = exit /\ ~(Frame.size > 0) /\ pc' = "decode"
    BY <1>5 DEF CheckSize, Stop, NeedsPayload
  <2>3. Frame.size \in Nat /\ InFrame \in Nat
    BY <1>1, <2>1
  <2> QED BY <1>2, <2>1, <2>2, <2>3
<1>6. ASSUME ReadPayload PROVE Kept
  <2>1. PICK m \in 1..(PayloadSize - got) : Read(m)
    BY <1>6 DEF ReadPayload
  <2>2. /\ pc = "payload" /\ got < Frame.size /\ consumed = InFrame + HeaderSize + got
        /\ exit = "running" /\ Len(delivered) < n
    BY <1>6 DEF ReadPayload, PlaceInv
  <2>3. Frame.size \in Nat /\ InFrame \in Nat
    BY <1>1, <2>2
  <2>4. /\ consumed' = consumed + m /\ got' = got + m /\ consumed + m <= input.bytes
        /\ m \in Nat /\ got + m <= Frame.size
    BY <1>2, <2>1, <2>2, <2>3 DEF Read, PayloadSize
  <2>5. exit' = "running" /\ pc' = IF got' = Frame.size THEN "decode" ELSE "payload"
    BY <1>6, <2>2 DEF ReadPayload, PayloadSize
  <2>6. consumed' \in 0..input.bytes /\ got' \in Nat /\ got' <= Frame.size
        /\ consumed' = InFrame + HeaderSize + got'
    BY <1>2, <2>2, <2>3, <2>4
  <2> QED BY <2>2, <2>3, <2>5, <2>6
<1>7. ASSUME EndOfInput \/ ReadFails PROVE Kept
  <2>1. consumed' = consumed /\ got' = got /\ pc' = "stopped"
    BY <1>7 DEF EndOfInput, ReadFails, Stop, reader
  <2>2. exit' \in {"success", "failure"}
    BY <1>7 DEF EndOfInput, ReadFails, Stop
  <2>3. exit' = "success" => consumed = input.bytes /\ pc = "header" /\ got = 0
    BY <1>7 DEF EndOfInput, ReadFails, Stop, AtBoundary
  <2>4. exit' = "success" => input.bytes = InFrame
    BY <1>1, <2>3 DEF PlaceInv
  <2> QED BY <1>2, <2>1, <2>2, <2>4
<1>8. Kept
  BY <1>4, <1>5, <1>6, <1>7
<1> HIDE DEF Kept
<1>9. InFrame = StartOf(k) /\ InFrame' = InFrame
  BY <1>1, <1>3
<1> QED BY <1>3, <1>8, <1>9 DEF Kept, PlaceInv, CleanExitAnswersAll, InFrame, StartOf

\* Decoding, evaluating and encoding stay at the end of the frame.
LEMMA ProcessKeepsPlace ==
  ASSUME PlaceInv, Decode \/ Evaluate \/ Encode
  PROVE  PlaceInv'
PROOF
<1>1. /\ input' = input /\ delivered' = delivered /\ consumed' = consumed /\ got' = got
      /\ sent' \in Nat /\ InFrame' = InFrame /\ Frame' = Frame
      /\ pc \in {"decode", "evaluate", "encode"}
  BY DEF Decode, Evaluate, Encode, reader, InFrame, StartOf, Frame, PlaceInv
<1>2. /\ pc' \in {"evaluate", "encode", "write", "stopped"}
      /\ exit' \in {"running", "failure"} /\ (pc' = "stopped" <=> exit' # "running")
  BY DEF Decode, Evaluate, Encode, Stop, PlaceInv
<1>3. IsSlice(requests') /\ IsSlice(evidence')
  <2>1. CASE Decode
    <3>1. IsDocument(Frame.doc)
      <4>1. Len(delivered) + 1 <= Len(input.frames)
        <5>1. /\ Len(delivered) \in Nat /\ Len(input.frames) \in Nat
             /\ Len(delivered) < Len(input.frames)
          BY <1>1, FrameShape, ListIsSequence DEF PlaceInv
        <5> QED BY <5>1
      <4> QED BY <4>1, FrameShape
    <3>2. IsSlice(requests) /\ IsSlice(evidence)
      BY DEF PlaceInv
    <3> QED BY <2>1, <3>1, <3>2, DecodedSlices DEF Decode
  <2>2. CASE Evaluate \/ Encode
    BY <2>2 DEF Evaluate, Encode, codec, PlaceInv
  <2> QED BY <2>1, <2>2
<1> QED BY <1>1, <1>2, <1>3 DEF PlaceInv, CleanExitAnswersAll, InFrame, StartOf

\* The last byte of a response ends the frame it answers.
LEMMA WriteKeepsPlace ==
  ASSUME PlaceInv, Write \/ WriteFails
  PROVE  PlaceInv'
PROOF
<1> DEFINE k == Len(delivered) + 1
           n == Len(input.frames)
<1>1. /\ pc = "write" /\ exit = "running" /\ Len(delivered) \in Nat /\ n \in Nat
      /\ Len(delivered) < n /\ consumed = InFrame + HeaderSize + Frame.size
  <2>1. pc = "write"
    BY DEF Write, WriteFails
  <2> QED BY <2>1, FrameShape, ListIsSequence DEF PlaceInv
<1>2. InFrame = StartOf(k) /\ StartOf(k + 1) = StartOf(k) + HeaderSize + Frame.size
  <2>1. k <= n
    BY <1>1
  <2> QED BY <2>1, FrameShape
<1>3. /\ input' = input /\ consumed' = consumed /\ requests' = requests /\ evidence' = evidence
  BY DEF Write, WriteFails, reader, codec
<1>4. sent' \in Nat
  <2>1. \E m \in 0..Offered : sent' = sent + m
    BY DEF Write, WriteFails
  <2>2. sent \in Nat
    BY DEF PlaceInv
  <2> QED BY <2>1, <2>2
<1>5. CASE delivered' = delivered /\ got' = got
            /\ ((pc' = "write" /\ exit' = "running") \/ (pc' = "stopped" /\ exit' = "failure"))
  <2>1. InFrame' = InFrame /\ Frame' = Frame
    BY <1>3, <1>5 DEF InFrame, StartOf, Frame
  <2> QED BY <1>1, <1>3, <1>4, <1>5, <2>1 DEF PlaceInv, CleanExitAnswersAll, InFrame, StartOf
<1>6. CASE delivered' = Append(delivered, response) /\ pc' = "header" /\ got' = 0 /\ exit' = exit
  <2>1. IsList(delivered') /\ Len(delivered') = Len(delivered) + 1
    BY <1>6, AppendList DEF PlaceInv
  <2>2. InFrame' = consumed
    <3>1. InFrame' = StartOf(k + 1)
      BY <1>3, <2>1 DEF InFrame, StartOf
    <3> QED BY <1>1, <1>2, <3>1
  <2>3. got' < HeaderSize /\ consumed' = InFrame' + got'
    <3>1. consumed \in Int /\ HeaderSize \in Nat \ {0}
      BY StreamAssumption DEF PlaceInv
    <3> QED BY <1>3, <1>6, <2>2, <3>1
  <2>4. Len(delivered') <= n
    BY <1>1, <2>1
  <2> QED BY <1>1, <1>3, <1>4, <1>6, <2>1, <2>3, <2>4 DEF PlaceInv, CleanExitAnswersAll
<1>7. ASSUME Write PROVE PlaceInv'
  <2>1. CASE sent' = HeaderSize + ResponseSize(response)
    <3>1. delivered' = Append(delivered, response) /\ pc' = "header" /\ got' = 0 /\ exit' = exit
      BY <1>7, <2>1 DEF Write
    <3> QED BY <1>6, <3>1
  <2>2. CASE sent' # HeaderSize + ResponseSize(response)
    <3>1. delivered' = delivered /\ got' = got /\ pc' = "write" /\ exit' = "running"
      BY <1>1, <1>7, <2>2 DEF Write
    <3> QED BY <1>5, <3>1, Zenon
  <2> QED BY <2>1, <2>2
<1>8. ASSUME WriteFails PROVE PlaceInv'
  <2>1. delivered' = delivered /\ got' = got /\ pc' = "stopped" /\ exit' = "failure"
    BY <1>8 DEF WriteFails, Stop, reader
  <2> QED BY <1>5, <2>1
<1> QED BY <1>7, <1>8

\* The invariant is inductive.
LEMMA NextPlace == PlaceInv /\ [Next]_vars => PlaceInv'
PROOF
<1>1. ASSUME PlaceInv, UNCHANGED vars PROVE PlaceInv'
  BY <1>1 DEF vars, reader, codec, writer, PlaceInv, CleanExitAnswersAll, InFrame, StartOf, Frame
<1> QED BY <1>1, ReadKeepsPlace, ProcessKeepsPlace, WriteKeepsPlace DEF Next, Progress

-----------------------------------------------------------------------------
(* What is answered.                                                       *)

\* No document that arrives names an array twice, nor does a request in it
\* name its evidence_ids twice (stream_twice shows what happens to one that does).
NamedOnce ==
  \A peer \in Inputs : \A k \in DOMAIN peer.frames : NamesOnce(peer.frames[k].doc)

\* The frame that is being answered is there.
LEMMA FrameServed ==
  ASSUME PlaceInv, pc \notin {"header", "stopped"}
  PROVE  /\ Len(delivered) \in Nat /\ DOMAIN delivered = 1..Len(delivered)
         /\ Len(delivered) + 1 \in DOMAIN input.frames
         /\ Frame = input.frames[Len(delivered) + 1] /\ IsDocument(Frame.doc)
         /\ NamedOnce => NamesOnce(Frame.doc)
PROOF
<1>1. Len(delivered) \in Nat /\ DOMAIN delivered = 1..Len(delivered)
  BY ListIsSequence DEF PlaceInv
<1>2. Len(delivered) < Len(input.frames) /\ Len(input.frames) \in Nat
  BY FrameShape DEF PlaceInv
<1>3. Len(delivered) + 1 <= Len(input.frames)
  BY <1>1, <1>2
<1>4. /\ Len(delivered) + 1 \in DOMAIN input.frames
      /\ Frame = input.frames[Len(delivered) + 1] /\ IsDocument(Frame.doc)
  BY <1>3, FrameShape
<1>5. NamedOnce => NamesOnce(Frame.doc)
  BY <1>4 DEF NamedOnce, PlaceInv
<1> QED BY <1>1, <1>4, <1>5

\* Nothing is answered before the first step.
LEMMA InitAnswer == Init => AnswerInv
PROOF
<1> SUFFICES ASSUME Init PROVE AnswerInv
  OBVIOUS
<1>1. Clear(requests) /\ Clear(evidence)
  BY NilIsClear DEF Init
<1>2. AnswersItsFrame
  BY DEF Init, AnswersItsFrame
<1> QED BY <1>1, <1>2 DEF Init, AnswerInv, OnlyTransportStops

\* A stream that the reader stops was cut short or has too long a frame.
LEMMA ReadKeepsAnswer ==
  ASSUME PlaceInv, AnswerInv, ReadHeader \/ CheckSize \/ ReadPayload \/ EndOfInput \/ ReadFails
  PROVE  AnswerInv'
PROOF
<1> DEFINE k == Len(delivered) + 1
<1>1. /\ input' = input /\ requests' = requests /\ evidence' = evidence
      /\ response' = response /\ delivered' = delivered
      /\ pc' \in {"header", "size", "payload", "decode", "stopped"}
      /\ exit = "running"
  BY DEF ReadHeader, CheckSize, ReadPayload, EndOfInput, ReadFails, codec, writer, Stop, PlaceInv
<1>2. Clear(requests)' /\ Clear(evidence)' /\ AnswersItsFrame'
  BY <1>1 DEF AnswerInv, AnswersItsFrame, Clear
<1>3. ASSUME exit' = "failure", ~fault'
      PROVE  /\ StartOf(k) < input.bytes
             /\ \/ input.bytes < StartOf(k + 1)
                \/ StartOf(k) + HeaderSize <= input.bytes /\ Frame.size > MaxInput
  <2>1. CASE ReadHeader \/ ReadPayload \/ ReadFails
    BY <1>1, <1>3, <2>1 DEF ReadHeader, ReadPayload, ReadFails
  <2>2. CASE CheckSize
    <3>1. pc = "size" /\ Frame.size > MaxInput
      BY <1>1, <1>3, <2>2 DEF CheckSize, TooLong
    <3>2. /\ consumed = StartOf(k) + HeaderSize /\ consumed <= input.bytes
          /\ StartOf(k) \in Nat /\ HeaderSize \in Nat \ {0} /\ consumed \in Nat
          /\ input.bytes \in Nat
      BY <3>1, FrameShape, StreamAssumption DEF PlaceInv
    <3>3. StartOf(k) < input.bytes /\ StartOf(k) + HeaderSize <= input.bytes
      BY <3>2
    <3> QED BY <3>1, <3>3
  <2>3. CASE EndOfInput
    <3>1. consumed = input.bytes /\ ((pc = "header" /\ got # 0) \/ pc = "payload")
      BY <1>3, <2>3 DEF EndOfInput, Stop, AtBoundary
    <3>2. InFrame = StartOf(k) /\ StartOf(k) \in Nat /\ HeaderSize \in Nat \ {0} /\ got \in Nat
      BY FrameShape, StreamAssumption DEF PlaceInv
    <3>3. CASE pc = "header" /\ got # 0
      <4>1. got < HeaderSize /\ consumed = InFrame + got
        BY <3>3 DEF PlaceInv
      <4>2. StartOf(k) < input.bytes
        BY <3>1, <3>2, <3>3, <4>1
      <4>3. Len(delivered) + 1 <= Len(input.frames)
        <5>1. /\ Len(delivered) \in Nat /\ Len(input.frames) \in Nat
              /\ Len(delivered) <= Len(input.frames)
              /\ input.bytes \in 0..StartOf(Len(input.frames) + 1)
          BY FrameShape, ListIsSequence DEF PlaceInv
        <5>2. k # Len(input.frames) + 1
          BY <3>2, <4>2, <5>1
        <5> QED BY <5>1, <5>2
      <4>4. Frame.size \in Nat /\ StartOf(k + 1) = StartOf(k) + HeaderSize + Frame.size
        BY <4>3, FrameShape
      <4> QED BY <3>1, <3>2, <4>1, <4>2, <4>4
    <3>4. CASE pc = "payload"
      <4>1. got < Frame.size /\ consumed = InFrame + HeaderSize + got
        BY <3>4 DEF PlaceInv
      <4>2. Len(delivered) + 1 <= Len(input.frames)
        <5>1. Len(delivered) < Len(input.frames) /\ Len(delivered) \in Nat
              /\ Len(input.frames) \in Nat
          BY <3>4, FrameShape, FrameServed DEF PlaceInv
        <5> QED BY <5>1
      <4>3. Frame.size \in Nat /\ StartOf(k + 1) = StartOf(k) + HeaderSize + Frame.size
        BY <4>2, FrameShape
      <4> QED BY <3>1, <3>2, <4>1, <4>3
    <3> QED BY <3>1, <3>3, <3>4
  <2> QED BY <2>1, <2>2, <2>3
<1>4. OnlyTransportStops'
  BY <1>1, <1>3 DEF OnlyTransportStops, StartOf, Frame
<1> QED BY <1>1, <1>2, <1>4 DEF AnswerInv

\* Decoding yields the frame's own rows, and refuses what it would refuse alone.
LEMMA DecodeKeepsAnswer ==
  ASSUME NamedOnce, PlaceInv, AnswerInv, Decode
  PROVE  AnswerInv'
PROOF
<1> DEFINE d == Decoded(requests, evidence, Frame.doc)
           alone == Decoded(NilSlice, NilSlice, Frame.doc)
<1>1. /\ pc = "decode" /\ exit = "running" /\ exit' = exit /\ input' = input
      /\ delivered' = delivered /\ Frame' = Frame
      /\ requests' = d.requests /\ evidence' = d.evidence
      /\ IF d.ok THEN pc' = "evaluate" ELSE pc' = "encode" /\ response' = InputError
  BY DEF Decode, Frame, PlaceInv
<1>2. IsDocument(Frame.doc) /\ NamesOnce(Frame.doc)
  BY <1>1, FrameServed
<1>3. /\ Clear(d.requests) /\ Clear(d.evidence) /\ d.ok = alone.ok
      /\ d.ok => /\ Contents(d.requests) = Contents(alone.requests)
                 /\ Contents(d.evidence) = Contents(alone.evidence)
  BY <1>2, DecodedAlike DEF PlaceInv, AnswerInv
<1>4. ~d.ok => AnswerAlone(Frame.doc) = InputError
  BY <1>3 DEF AnswerAlone
<1> HIDE DEF d, alone
<1>5. Clear(requests)' /\ Clear(evidence)'
  BY <1>1, <1>3 DEF Clear
<1>6. pc' = "evaluate" => /\ alone.ok /\ Contents(requests)' = Contents(alone.requests)
                          /\ Contents(evidence)' = Contents(alone.evidence)
  BY <1>1, <1>3 DEF Contents
<1>7. pc' \in {"encode", "write"} => response' = AnswerAlone(Frame.doc)
  BY <1>1, <1>4
<1>8. AnswersItsFrame' /\ OnlyTransportStops'
  BY <1>1 DEF AnswerInv, AnswersItsFrame, OnlyTransportStops
<1> QED BY <1>1, <1>5, <1>6, <1>7, <1>8 DEF AnswerInv, alone

\* The session's answer to the frame, and whether it fits a response.
LEMMA ProcessKeepsAnswer ==
  ASSUME PlaceInv, AnswerInv, Evaluate \/ Encode
  PROVE  AnswerInv'
PROOF
<1>1. /\ input' = input /\ delivered' = delivered /\ Frame' = Frame /\ exit = "running"
      /\ requests' = requests /\ evidence' = evidence /\ fault' = fault
  BY DEF Evaluate, Encode, codec, Frame, PlaceInv
<1>2. Clear(requests)' /\ Clear(evidence)' /\ AnswersItsFrame'
  BY <1>1 DEF AnswerInv, AnswersItsFrame, Clear
<1>3. CASE Evaluate
  <2>1. pc = "evaluate" /\ pc' = "encode" /\ exit' = exit
        /\ response' = Answer(Contents(requests), Contents(evidence))
    BY <1>3 DEF Evaluate
  <2>2. response' = AnswerAlone(Frame.doc)
    BY <2>1 DEF AnswerInv, AnswerAlone
  <2>3. OnlyTransportStops'
    BY <1>1, <2>1 DEF OnlyTransportStops
  <2> QED BY <1>1, <1>2, <2>1, <2>2, <2>3 DEF AnswerInv
<1>4. CASE Encode
  <2>1. /\ pc = "encode" /\ response' = response
        /\ \/ ResponseSize(response) > MaxResponse /\ pc' = "stopped"
           \/ pc' = "write" /\ exit' = exit
    BY <1>4 DEF Encode, Stop
  <2>2. response = AnswerAlone(Frame.doc)
    BY <2>1 DEF AnswerInv
  <2>3. StartOf(Len(delivered) + 1) < input.bytes /\ StartOf(Len(delivered) + 2) <= input.bytes
    <3>1. /\ Len(delivered) \in Nat /\ Len(input.frames) \in Nat
          /\ Len(delivered) < Len(input.frames)
      BY <2>1, FrameShape, FrameServed DEF PlaceInv
    <3>2. Len(delivered) + 1 <= Len(input.frames) /\ (Len(delivered) + 1) + 1 = Len(delivered) + 2
      BY <3>1
    <3>3. /\ InFrame = StartOf(Len(delivered) + 1) /\ StartOf(Len(delivered) + 1) \in Nat
          /\ StartOf(Len(delivered) + 2) = StartOf(Len(delivered) + 1) + HeaderSize + Frame.size
          /\ Frame.size \in Nat /\ input.bytes \in Nat
      BY <3>2, FrameShape
    <3>4. /\ consumed = InFrame + HeaderSize + Frame.size /\ consumed <= input.bytes
          /\ HeaderSize \in Nat \ {0}
      BY <2>1, <3>3, StreamAssumption DEF PlaceInv
    <3> QED BY <3>3, <3>4
  <2>4. (Len(delivered) + 1) + 1 = Len(delivered) + 2
    BY <2>1, FrameServed
  <2>5. OnlyTransportStops'
    BY <1>1, <2>1, <2>2, <2>3, <2>4 DEF OnlyTransportStops, StartOf
  <2> QED BY <1>1, <1>2, <2>1, <2>2, <2>5 DEF AnswerInv
<1> QED BY <1>3, <1>4

\* What is delivered answers the frame it follows.
LEMMA WriteKeepsAnswer ==
  ASSUME PlaceInv, AnswerInv, Write \/ WriteFails
  PROVE  AnswerInv'
PROOF
<1>1. /\ pc = "write" /\ exit = "running" /\ input' = input
      /\ requests' = requests /\ evidence' = evidence /\ response' = response
  BY DEF Write, WriteFails, codec, PlaceInv
<1>2. Clear(requests)' /\ Clear(evidence)'
  BY <1>1 DEF AnswerInv, Clear
<1>3. /\ Len(delivered) \in Nat /\ DOMAIN delivered = 1..Len(delivered)
      /\ Frame = input.frames[Len(delivered) + 1]
  BY <1>1, FrameServed
<1>4. response = AnswerAlone(Frame.doc)
  BY <1>1 DEF AnswerInv
<1>5. CASE delivered' = Append(delivered, response) /\ pc' = "header" /\ exit' = exit
  <2>1. /\ IsList(delivered') /\ Len(delivered') = Len(delivered) + 1
        /\ \A i \in 1..Len(delivered) : delivered'[i] = delivered[i]
        /\ delivered'[Len(delivered) + 1] = response
    BY <1>5, AppendList DEF PlaceInv
  <2>2. DOMAIN delivered' = 1..(Len(delivered) + 1)
    BY <2>1, ListIsSequence, Zenon
  <2>3. AnswersItsFrame'
    <3> SUFFICES ASSUME NEW i \in 1..(Len(delivered) + 1)
                 PROVE  delivered'[i] = AnswerAlone(input.frames[i].doc)
      BY <1>1, <2>2 DEF AnswersItsFrame
    <3>1. CASE i \in 1..Len(delivered)
      BY <1>3, <2>1, <3>1 DEF AnswerInv, AnswersItsFrame
    <3>2. CASE i = Len(delivered) + 1
      BY <1>3, <1>4, <2>1, <3>2
    <3> QED BY <1>3, <3>1, <3>2
  <2>4. OnlyTransportStops'
    BY <1>1, <1>5 DEF OnlyTransportStops
  <2> QED BY <1>2, <1>5, <2>3, <2>4 DEF AnswerInv
<1>6. CASE /\ delivered' = delivered
           /\ (pc' = "write" /\ exit' = exit) \/ (pc' = "stopped" /\ fault')
  <2>1. Frame' = Frame
    BY <1>1, <1>6 DEF Frame
  <2>2. AnswersItsFrame' /\ OnlyTransportStops'
    BY <1>1, <1>6 DEF AnswerInv, AnswersItsFrame, OnlyTransportStops
  <2> QED BY <1>1, <1>2, <1>4, <1>6, <2>1, <2>2 DEF AnswerInv
<1>7. ASSUME Write PROVE AnswerInv'
  <2>1. CASE sent' = HeaderSize + ResponseSize(response)
    <3>1. delivered' = Append(delivered, response) /\ pc' = "header" /\ exit' = exit
      BY <1>7, <2>1 DEF Write
    <3> QED BY <1>5, <3>1, Zenon
  <2>2. CASE sent' # HeaderSize + ResponseSize(response)
    <3>1. delivered' = delivered /\ pc' = "write" /\ exit' = exit
      BY <1>1, <1>7, <2>2 DEF Write
    <3> QED BY <1>6, <3>1, Zenon
  <2> QED BY <2>1, <2>2
<1>8. ASSUME WriteFails PROVE AnswerInv'
  <2>1. delivered' = delivered /\ pc' = "stopped" /\ fault'
    BY <1>8 DEF WriteFails, Stop
  <2> QED BY <1>6, <2>1, Zenon
<1> QED BY <1>7, <1>8

\* The invariant is inductive while no document names an array twice.
LEMMA NextAnswer == NamedOnce /\ PlaceInv /\ AnswerInv /\ [Next]_vars => AnswerInv'
PROOF
<1>1. ASSUME AnswerInv, UNCHANGED vars PROVE AnswerInv'
  <2>1. Clear(requests)' /\ Clear(evidence)'
    BY <1>1 DEF vars, codec, AnswerInv, Clear
  <2> QED BY <1>1, <2>1
          DEF vars, reader, codec, writer, AnswerInv, AnswersItsFrame, OnlyTransportStops, StartOf,
              Frame
<1> QED BY <1>1, ReadKeepsAnswer, DecodeKeepsAnswer, ProcessKeepsAnswer, WriteKeepsAnswer
        DEF Next, Progress

-----------------------------------------------------------------------------
(* Theorems.                                                               *)

\* The stream keeps its place: what has been read is the frames answered, and
\* the part of the next one that the loop is at (FrameReader.Read).
THEOREM StreamKeepsPlace == Spec => []PlaceInv
PROOF
<1>1. Init => PlaceInv BY InitPlace
<1>2. PlaceInv /\ [Next]_vars => PlaceInv' BY NextPlace
<1> QED BY <1>1, <1>2, PTL DEF Spec

\* The typing and the alignment of the stream, for frames of any size that
\* arrive in any pieces.
THEOREM StreamTypes == Spec => []TypeOK
PROOF
<1>1. PlaceInv => TypeOK
  BY DEF PlaceInv, TypeOK, IsSlice
<1> QED BY <1>1, StreamKeepsPlace, PTL

\* A frame cut short is never taken for the end of the stream
\* (FrameReader.Read's io.EOF and io.ErrUnexpectedEOF).
THEOREM CleanExits == Spec => []CleanExitAnswersAll
PROOF
<1>1. PlaceInv => CleanExitAnswersAll
  BY DEF PlaceInv
<1> QED BY <1>1, StreamKeepsPlace, PTL

\* Every response is what a process that never saw another frame would send,
\* and only the transport and the limits stop the stream, if no document names
\* an array twice at either level (JSONCodec.Decode over the slices it reuses,
\* those of the requests and records and that of each request's evidence_ids).
THEOREM FramesAreAlone ==
  ASSUME NamedOnce
  PROVE  Spec => []AnswersItsFrame /\ []OnlyTransportStops
PROOF
<1>1. Init => AnswerInv BY InitAnswer
<1>2. PlaceInv /\ AnswerInv /\ [Next]_vars => AnswerInv' BY NextAnswer
<1>3. AnswerInv => AnswersItsFrame /\ OnlyTransportStops BY DEF AnswerInv
<1> QED BY <1>1, <1>2, <1>3, StreamKeepsPlace, PTL DEF Spec
=============================================================================
