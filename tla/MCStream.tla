------------------------------ MODULE MCStream ------------------------------
(* Stream over a small set of frames, every one of them after every other. *)
EXTENDS Stream

MCKeys == {"id", "state"}
MCIds  == {"a", "b", "c", "d", "e", "f", "g", "h"}

Document(form, reqs, ev) == [form |-> form, requests |-> reqs, evidence |-> ev]
Framed(size, doc)        == [size |-> size, doc |-> doc]
Rows(rows)               == [null |-> FALSE, rows |-> rows]
Null                     == [null |-> TRUE, rows |-> <<>>]
Pack(reqs, ev)           == Document("object", <<Rows(reqs)>>, <<Rows(ev)>>)

Text(x, y)        == [k \in MCKeys |-> IF k = "id" THEN x ELSE y]
Row(x, y)         == [text |-> Text(x, y), refs |-> <<>>]
Id(x)             == [text |-> [k \in {"id"} |-> x], refs |-> <<>>]
Anonymous(y)      == [text |-> [k \in {"state"} |-> y], refs |-> <<>>]
Citing(row, refs) == [row EXCEPT !.refs = Append(@, refs)]

Two == <<Citing(Row("a", "x"), Rows(<<"e", "f">>)), Citing(Row("b", "y"), Rows(<<"e">>))>>

\* Packs that grow and shrink, with fields present and absent.
PackOfTwo   == Framed(2, Pack(Two, <<Row("e", "z"), Id("f")>>))
PackOfOne   == Framed(1, Pack(<<Id("c")>>, <<Id("g")>>))
EmptyPack   == Framed(1, Pack(<<>>, <<>>))
\* Requests that leave out what an earlier frame may have put in their cells.
Sparse      == Framed(1, Pack(<<Citing(Id("d"), Null), Citing(Id("h"), Rows(<<>>))>>,
                              <<Id("e"), Id("g")>>))
Citation    == Framed(1, Pack(<<Citing(Id("d"), Rows(<<"g", NullRef>>))>>, <<Id("g")>>))
\* Refused by the decoder, with and without touching the storage.
NullPack    == Framed(1, Document("object", <<Null>>, <<Rows(<<Id("e")>>)>>))
NoEvidence  == Framed(1, Document("object", <<Rows(Two)>>, <<>>))
NotAnObject == Framed(0, Document("other", <<>>, <<>>))
Malformed   == Framed(1, Document("syntax", <<Rows(Two)>>, <<Rows(<<Row("e", "z")>>)>>))
Unknown     == Framed(1, Document("unknown field", <<Rows(Two)>>, <<Rows(<<Row("e", "z")>>)>>))
\* Refused by the builder.
Repeated    == Framed(1, Pack(<<Id("a"), Id("a")>>, <<>>))
Nameless    == Framed(1, Pack(<<Id("a"), Anonymous("y")>>, <<>>))
TooMany     == Framed(1, Pack(<<Id("a"), Id("b"), Id("c"), Id("d")>>, <<>>))
\* Beyond a limit: of the frame, of the response.
TooLongFrame == Framed(3, Pack(<<>>, <<>>))
TooManyRows  == Framed(1, Pack(<<Id("a"), Id("b"), Id("c")>>, <<>>))

Frames == { PackOfTwo, PackOfOne, EmptyPack, Sparse, Citation, NullPack, NoEvidence, NotAnObject,
            Malformed, Unknown, Repeated, Nameless, TooMany, TooLongFrame, TooManyRows }

RECURSIVE Total(_)
Total(frames) == IF frames = <<>> THEN 0 ELSE HeaderSize + Head(frames).size + Total(Tail(frames))

Whole(frames) == [frames |-> frames, bytes |-> Total(frames)]

\* Any two frames, cut anywhere; any two and then one that shows what is left.
MCInputs ==
  LET pairs == {<<>>} \cup {<<f>> : f \in Frames} \cup {<<f, g>> : f, g \in Frames}
  IN  UNION {{[frames |-> s, bytes |-> n] : n \in 0..Total(s)} : s \in pairs}
      \cup {Whole(<<f, g, h>>) : f, g \in Frames, h \in {Sparse, Citation, Nameless}}

\* A document that names `requests` twice, or a request that names
\* `evidence_ids` twice, the second time with fewer elements.
NamedTwice == Framed(1, Document("object", <<Rows(Two), Rows(<<Id("c")>>)>>, <<Rows(<<>>)>>))
CitesTwice == Framed(1, Pack(<<Citing(Citing(Id("c"), Rows(<<"e", "f">>)), Rows(<<"g">>))>>, <<>>))

RequestsTwice == {Whole(<<NamedTwice, f>>) : f \in Frames}
RefsTwice     == {Whole(<<CitesTwice, f>>) : f \in Frames}
ArraysTwice   == RequestsTwice \cup RefsTwice
=============================================================================
