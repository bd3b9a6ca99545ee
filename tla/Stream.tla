------------------------------- MODULE Stream --------------------------------
(***************************************************************************)
(* verifoxx --stream: length-prefixed frames read from stdin, one response *)
(* written to stdout for each, through one codec and one session.          *)
(*                                                                         *)
(* A frame is its length and what its payload says; bytes are counted, not *)
(* spelled.  A response shows the pack it answers: what a session makes of *)
(* a pack depends on the pack alone (SessionContract!Implements).          *)
(***************************************************************************)
EXTENDS Naturals, Sequences, FiniteSets

CONSTANTS
  Keys,        \* the text fields of a request and of an evidence record, "id" one of them
  Ids,         \* well-formed IDs: non-empty and trimmed
  NullRef,     \* a `null` among evidence_ids
  HeaderSize,  \* bytes of a frame's length (four in the code)
  MaxInput,    \* MaxInputPayload
  MaxResponse, \* MaxOutputPayload, the limit of the response buffer
  MaxRecords,  \* the builder's limit on requests and on evidence records
  MaxEdges,    \* the builder's limit on evidence references
  Inputs       \* [frames |-> sequence of frames, bytes |-> how many arrive]

\* A sequence, a document and an input, as far as the definitions look.
IsList(s) == Len(s) \in Nat /\ s = [i \in 1..Len(s) |-> s[i]]

\* A row has the texts it names, and an array for each time it names
\* evidence_ids, which only a request may.
AreArrays(arrays) == IsList(arrays) /\ \A i \in DOMAIN arrays : IsList(arrays[i].rows)

IsDocument(doc) ==
  /\ AreArrays(doc.requests) /\ AreArrays(doc.evidence)
  /\ \A i \in DOMAIN doc.requests : \A j \in DOMAIN doc.requests[i].rows :
       AreArrays(doc.requests[i].rows[j].refs)
  /\ \A i \in DOMAIN doc.evidence : \A j \in DOMAIN doc.evidence[i].rows :
       doc.evidence[i].rows[j].refs = <<>>

\* Where each frame starts, and the last one ends.
Starts(frames) ==
  LET start[k \in 1..(Len(frames) + 1)] ==
        IF k = 1 THEN 0 ELSE start[k - 1] + HeaderSize + frames[k - 1].size
  IN  start

IsInput(peer) ==
  /\ IsList(peer.frames)
  /\ \A k \in DOMAIN peer.frames : peer.frames[k].size \in Nat /\ IsDocument(peer.frames[k].doc)
  /\ peer.bytes \in 0..Starts(peer.frames)[Len(peer.frames) + 1]

Zero == ""   \* Go's zero string

ASSUME StreamAssumption ==
  /\ HeaderSize \in Nat \ {0} /\ MaxInput \in Nat /\ MaxResponse \in Nat \ {0}
  /\ MaxRecords \in Nat /\ MaxEdges \in Nat
  /\ "id" \in Keys /\ Zero \notin Ids
  /\ \A peer \in Inputs : IsInput(peer)

VARIABLES
  input,      \* what the peer sends before it closes
  consumed,   \* bytes read of it
  pc,         \* where runStream is
  got,        \* bytes io.ReadFull has of the header or payload
  requests, evidence,   \* codec.input: the cells of a slice and its length
  response,   \* codec.response
  sent,       \* bytes writeFull has written of header and payload
  delivered,  \* the responses written
  exit,       \* "running", then "success" (status 0) or "failure" (status 1)
  fault       \* whether the source or the destination failed

codec  == <<requests, evidence>>
reader == <<consumed, got>>
writer == <<response, sent, delivered>>
vars   == <<input, pc, reader, codec, writer, exit, fault>>

\* A record in its cell: its texts and the slice of its evidence_ids.
NilSlice   == [cells |-> <<>>, len |-> 0, nil |-> TRUE]
EmptyText  == [k \in Keys |-> Zero]
EmptyCell  == [text |-> EmptyText, refs |-> NilSlice]
NoResponse == [ok |-> FALSE]

Init ==
  /\ input \in Inputs
  /\ consumed = 0 /\ got = 0 /\ pc = "header"
  /\ requests = NilSlice /\ evidence = NilSlice
  /\ response = NoResponse /\ sent = 0 /\ delivered = <<>>
  /\ exit = "running" /\ fault = FALSE

\* Every frame is answered before the next is read.
Frame == input.frames[Len(delivered) + 1]

Stop(status) == exit' = status /\ pc' = "stopped"

-----------------------------------------------------------------------------
(* FrameReader.Read, over a source that returns what it has.               *)

\* A mutant: the payload is counted from the start of the frame.
PayloadAndHeader == HeaderSize + Frame.size

PayloadSize == Frame.size

\* Mutants: an empty payload is waited for; the limit itself is too long.
Always(size) == TRUE
AtLimit(size) == size >= MaxInput

NeedsPayload(size) == size > 0
TooLong(size)      == size > MaxInput

Read(n) ==
  /\ n > 0 /\ consumed + n <= input.bytes
  /\ consumed' = consumed + n /\ got' = got + n

ReadHeader ==
  /\ pc = "header"
  /\ \E n \in 1..(HeaderSize - got) : Read(n)
  /\ pc' = IF got' = HeaderSize THEN "size" ELSE "header"
  /\ UNCHANGED <<input, codec, writer, exit, fault>>

\* The length is checked before the buffer grows.
CheckSize ==
  /\ pc = "size"
  /\ got' = 0
  /\ IF TooLong(Frame.size) THEN Stop("failure")
     ELSE pc' = (IF NeedsPayload(Frame.size) THEN "payload" ELSE "decode") /\ UNCHANGED exit
  /\ UNCHANGED <<input, consumed, codec, writer, fault>>

ReadPayload ==
  /\ pc = "payload"
  /\ \E n \in 1..(PayloadSize - got) : Read(n)
  /\ pc' = IF got' = PayloadSize THEN "decode" ELSE "payload"
  /\ UNCHANGED <<input, codec, writer, exit, fault>>

\* A mutant: a partial header passes for the end of the stream.
NoPayloadYet == pc = "header"

AtBoundary == pc = "header" /\ got = 0

\* The source ends: cleanly at a frame boundary only.
EndOfInput ==
  /\ pc \in {"header", "payload"} /\ consumed = input.bytes
  /\ Stop(IF AtBoundary THEN "success" ELSE "failure")
  /\ UNCHANGED <<input, reader, codec, writer, fault>>

\* Any other error of the source, at a boundary too, is a failure.
ReadFails ==
  /\ pc \in {"header", "payload"}
  /\ fault' = TRUE /\ Stop("failure")
  /\ UNCHANGED <<input, reader, codec, writer>>

-----------------------------------------------------------------------------
(* JSONCodec.Decode into storage of the frame before.                      *)

\* The cells within the length become those of `reset`, the rest stay.
Emptied(slice, reset) ==
  [slice EXCEPT !.cells = [i \in DOMAIN @ |-> IF i <= slice.len THEN reset[i] ELSE @[i]],
                !.len = 0]

\* A mutant: the length of a record's evidence_ids is reset, its cells are not.
ResetCellOnly(cell) == [text |-> EmptyText, refs |-> [cell.refs EXCEPT !.len = 0]]

\* resetInput: a record within the length is cleared and keeps the storage of
\* its evidence_ids, cleared within its own length.
ResetCell(cell) ==
  [text |-> EmptyText, refs |-> Emptied(cell.refs, [i \in DOMAIN cell.refs.cells |-> Zero])]
ResetSlice(slice) == Emptied(slice, [i \in DOMAIN slice.cells |-> ResetCell(slice.cells[i])])

\* Decode gives empty storage one cell.
Prepared(slice) ==
  LET reset == ResetSlice(slice)
  IN  IF reset.cells = <<>> THEN [cells |-> <<EmptyCell>>, len |-> 0, nil |-> FALSE] ELSE reset

\* encoding/json decodes an array over the cells of the slice, one by one, and
\* leaves those behind its end.  `null` yields nil, `[]` a slice of no cells.
Replaced(slice, array, elements) ==
  IF array.null THEN NilSlice
  ELSE IF array.rows = <<>> THEN [NilSlice EXCEPT !.nil = FALSE]
  ELSE [cells |-> [i \in DOMAIN slice.cells \cup DOMAIN array.rows |->
                     IF i \in DOMAIN array.rows THEN elements[i] ELSE slice.cells[i]],
        len |-> Len(array.rows), nil |-> FALSE]

Cell(slice, i, empty) == IF i \in DOMAIN slice.cells THEN slice.cells[i] ELSE empty

\* A `null` keeps what the cell held.
DecodeRefs(slice, array) ==
  Replaced(slice, array,
    [i \in DOMAIN array.rows |->
       IF array.rows[i] = NullRef THEN Cell(slice, i, Zero) ELSE array.rows[i]])

\* An object may name a key more than once; each time is decoded in turn.
DecodeEveryRefs(slice, arrays) ==
  LET after[k \in 0..Len(arrays)] ==
        IF k = 0 THEN slice ELSE DecodeRefs(after[k - 1], arrays[k])
  IN  after[Len(arrays)]

\* A key that is absent, or `null`, keeps what the cell held.
DecodeRow(cell, row) ==
  [text |-> [k \in Keys |-> IF k \in DOMAIN row.text THEN row.text[k] ELSE cell.text[k]],
   refs |-> DecodeEveryRefs(cell.refs, row.refs)]

DecodeArray(slice, array) ==
  Replaced(slice, array,
    [i \in DOMAIN array.rows |-> DecodeRow(Cell(slice, i, EmptyCell), array.rows[i])])

DecodeArrays(slice, arrays) ==
  LET after[k \in 0..Len(arrays)] ==
        IF k = 0 THEN slice ELSE DecodeArray(after[k - 1], arrays[k])
  IN  after[Len(arrays)]

\* Neither nil nor the prepared storage, untouched.
Given(slice) == ~slice.nil /\ ~(slice.len = 0 /\ slice.cells # <<>>)

\* Both slices after Decode, and whether it succeeded.
Decoded(req, ev, doc) ==
  LET req1 == DecodeArrays(Prepared(req), doc.requests)
      ev1  == DecodeArrays(Prepared(ev), doc.evidence)
  IN  IF doc.form = "other" THEN [requests |-> req, evidence |-> ev, ok |-> FALSE]
      ELSE IF doc.form = "syntax"
        THEN [requests |-> ResetSlice(Prepared(req)), evidence |-> ResetSlice(Prepared(ev)),
              ok |-> FALSE]
      ELSE IF doc.form = "unknown field" \/ ~Given(req1) \/ ~Given(ev1)
        THEN [requests |-> ResetSlice(req1), evidence |-> ResetSlice(ev1), ok |-> FALSE]
      ELSE [requests |-> req1, evidence |-> ev1, ok |-> TRUE]

\* What a slice shows.
Held(slice) == SubSeq(slice.cells, 1, slice.len)
Contents(slice) ==
  LET held == Held(slice)
  IN  [i \in DOMAIN held |-> [text |-> held[i].text, refs |-> Held(held[i].refs)]]

InputError == [ok |-> FALSE]

Decode ==
  LET decoded == Decoded(requests, evidence, Frame.doc)
  IN  /\ pc = "decode"
      /\ requests' = decoded.requests /\ evidence' = decoded.evidence
      /\ IF decoded.ok THEN pc' = "evaluate" /\ UNCHANGED response
                       ELSE pc' = "encode" /\ response' = InputError
      /\ UNCHANGED <<input, reader, sent, delivered, exit, fault>>

-----------------------------------------------------------------------------
(* streamProcessor.Process: evaluate, encode and write.                    *)

\* Well-formed IDs, each of them once.
Identified(records) ==
  /\ \A i \in DOMAIN records : records[i].text["id"] \in Ids
  /\ \A i, j \in DOMAIN records : i # j => records[i].text["id"] # records[j].text["id"]

References(req) == UNION {{i} \X DOMAIN req[i].refs : i \in DOMAIN req}

\* What Session.Evaluate returns: an input error where the builder refuses the
\* pack, and never an internal error (EvaluateNeverFails).
Answer(req, ev) ==
  IF /\ Len(req) <= MaxRecords /\ Len(ev) <= MaxRecords
     /\ Identified(req) /\ Identified(ev)
     /\ \A i \in DOMAIN req : \A j \in DOMAIN req[i].refs : req[i].refs[j] \in Ids
     /\ Cardinality(References(req)) <= MaxEdges
    THEN [ok |-> TRUE, requests |-> req, evidence |-> ev]
    ELSE InputError

Evaluate ==
  /\ pc = "evaluate"
  /\ response' = Answer(Contents(requests), Contents(evidence))
  /\ pc' = "encode"
  /\ UNCHANGED <<input, reader, codec, sent, delivered, exit, fault>>

\* A result for every request; an error message is cut to a short length.
ResponseSize(resp) == 1 + (IF resp.ok THEN Len(resp.requests) ELSE 0)

Encode ==
  /\ pc = "encode"
  /\ sent' = 0
  /\ IF ResponseSize(response) > MaxResponse THEN Stop("failure")
     ELSE pc' = "write" /\ UNCHANGED exit
  /\ UNCHANGED <<input, reader, codec, response, delivered, fault>>

\* What writeFull offers: the rest of the header, then of the payload.
Offered ==
  IF sent < HeaderSize THEN HeaderSize - sent ELSE HeaderSize + ResponseSize(response) - sent

\* The writer takes part of what it is offered.
Write ==
  /\ pc = "write"
  /\ \E n \in 1..Offered : sent' = sent + n
  /\ IF sent' = HeaderSize + ResponseSize(response)
       THEN delivered' = Append(delivered, response) /\ pc' = "header" /\ got' = 0
       ELSE UNCHANGED <<delivered, pc, got>>
  /\ UNCHANGED <<input, consumed, codec, response, exit, fault>>

\* It fails, before or after it took something, or takes nothing.
WriteFails ==
  /\ pc = "write"
  /\ \E n \in 0..Offered : sent' = sent + n
  /\ fault' = TRUE /\ Stop("failure")
  /\ UNCHANGED <<input, reader, codec, response, delivered>>

-----------------------------------------------------------------------------
Progress ==
  \/ ReadHeader \/ CheckSize \/ ReadPayload \/ EndOfInput
  \/ Decode \/ Evaluate \/ Encode \/ Write

Next == Progress \/ ReadFails \/ WriteFails

\* The peer goes on sending until it closes, and takes what is written; that
\* reads or writes fail is never relied upon.
Spec == Init /\ [][Next]_vars /\ WF_vars(Progress)

-----------------------------------------------------------------------------
(* What the stream promises.                                               *)

StartOf(k) == Starts(input.frames)[k]

InFrame == StartOf(Len(delivered) + 1)

\* The type invariant; the bytes read are aligned with the frame being served,
\* since a stream that loses its place cannot find it again.
TypeOK ==
  /\ exit \in {"running", "success", "failure"}
  /\ pc = "stopped" <=> exit # "running"
  /\ Len(delivered) <= Len(input.frames)
  /\ \A slice \in {requests, evidence} : slice.len <= Len(slice.cells)
  /\ pc = "header"  => consumed = InFrame + got
  /\ pc = "payload" => consumed = InFrame + HeaderSize + got
  /\ pc \in {"decode", "evaluate", "encode", "write"} =>
       consumed = InFrame + HeaderSize + Frame.size

\* What a process that has seen no other frame answers.
AnswerAlone(doc) ==
  LET decoded == Decoded(NilSlice, NilSlice, doc)
  IN  IF decoded.ok THEN Answer(Contents(decoded.requests), Contents(decoded.evidence))
                    ELSE InputError

\* Responses come in the order of the frames, and each answers its frame
\* alone: no row or field of an earlier frame, accepted or refused, is in it
\* (design of the stream: "Repeated frames do not retain stale rows, evidence,
\* provenance, or output").
AnswersItsFrame ==
  \A k \in DOMAIN delivered : delivered[k] = AnswerAlone(input.frames[k].doc)

\* Exit status 0 means that every byte that arrived belongs to a frame that was
\* answered: a frame cut short is never taken for the end of the stream.
CleanExitAnswersAll ==
  exit = "success" => input.bytes = StartOf(Len(delivered) + 1)

\* Unless the source or the destination fails, only a frame that is cut short
\* or too long and a too large response stop the stream: a frame that is read
\* whole, however invalid its content, is answered (README: "Complete invalid
\* JSON or input receives an error frame and processing continues").
OnlyTransportStops ==
  exit = "failure" /\ ~fault =>
    LET k == Len(delivered) + 1
    IN  /\ StartOf(k) < input.bytes
        /\ \/ input.bytes < StartOf(k + 1)
           \/ StartOf(k) + HeaderSize <= input.bytes /\ Frame.size > MaxInput
           \/ StartOf(k + 1) <= input.bytes /\ ResponseSize(AnswerAlone(Frame.doc)) > MaxResponse
=============================================================================
