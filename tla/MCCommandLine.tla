--------------------------- MODULE MCCommandLine ----------------------------
(***************************************************************************)
(* One process that serves any stream of MCStream, or two that write the   *)
(* same result file, or one for each other way to use the command line.    *)
(***************************************************************************)
EXTENDS MCStream, CommandLine

CONSTANTS main, other, nothing, earlier

OneShot ==
  [flags |-> "good", stream |-> FALSE, given |-> {}, policy |-> "valid",
   requests |-> Rows(Two), evidence |-> Rows(<<Id("e")>>),
   output |-> "results.json"]
Streaming == [OneShot EXCEPT !.stream = TRUE]

\* The other command lines: each has one thing that changes the way.
Uses ==
  { [OneShot EXCEPT !.output = "-"],
    [OneShot EXCEPT !.flags = "bad"],
    [OneShot EXCEPT !.given = {"output"}],
    [OneShot EXCEPT !.policy = "invalid"],
    [OneShot EXCEPT !.requests = Rows(<<Id("a"), Id("a")>>)],
    [OneShot EXCEPT !.requests = Rows(<<Id("a"), Id("b"), Id("c"), Id("d")>>)],
    [OneShot EXCEPT !.evidence = Rows(<<Anonymous("x")>>)],
    [OneShot EXCEPT !.requests = Null, !.evidence = Rows(<<>>)],
    [OneShot EXCEPT !.requests = Rows(<<Id(" a")>>)],
    [OneShot EXCEPT !.requests = Rows(<<Citing(Id("a"), Rows(<<" e">>))>>)],
    [OneShot EXCEPT !.requests = Rows(<<Citing(Id("a"), Rows(<<"e", "e", "e", "e">>))>>)],
    [Streaming EXCEPT !.given = {"requests"}],
    [Streaming EXCEPT !.policy = "invalid"] }

Command(first, second) == [process \in {main, other} |-> IF process = main THEN first ELSE second]

MCCommands ==
  {Command(Streaming, nothing), Command(OneShot, OneShot)}
    \cup {Command(use, nothing) : use \in Uses}
=============================================================================
