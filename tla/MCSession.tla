----------------------------- MODULE MCSession ------------------------------
(***************************************************************************)
(* A policy with every opcode, nested conjunctions, evidence of two kinds, *)
(* every outcome and remediations, and the packs submitted to it.          *)
(***************************************************************************)
EXTENDS SessionContract

MCValidValues == <<{"ext", "int"}, {"local", "remote"}>>
MCSymbols     == {"int", "local", "remote", "approval", "attest", "valid", "boss", "current"}
MCStrings     == MCSymbols \cup {"", "ext", "bogus", "stale", "revoked", "conflicting",
                                 "other", "one_valid_one_revoked"}
MCKinds       == {"approval", "attest"}
MCQualifiers  == {"status", "timestamp_state", "reviewer"}
MCIds         == {"q1", "q2", "e1", "e2", "gone"}

Want(s, t, v) == [status |-> s, timestamp_state |-> t, reviewer |-> v]
Equal(f, v)   == [op |-> "equal", field |-> f, value |-> v]
In(f, set)    == [op |-> "in", field |-> f, set |-> set]
All(operands) == [op |-> "all", operands |-> operands]
Ev(kind, w)   == [op |-> "evidence_matches", kind |-> kind, want |-> w]

MCCode ==
  <<Equal(1, "int"),
      In(2, {"local"}), Ev("approval", Want("valid", "", "boss")), All({2, 3}),
      Ev("attest", Want("valid", "current", "")),
    Equal(2, "remote"),
      In(1, {"int"}), Ev("approval", Want("", "current", "")), All({7, 8}),
      Equal(2, "remote"), All({9, 10})>>

\* Outcomes for satisfied, false, missing, invalid, stale, unclear,
\* unverifiable, conflict.
MCClauses ==
  <<[root |-> 4, resolution |-> <<1, 2, 3, 3, 4, 4, 4, 4>>, kinds |-> <<"approval">>,
     remediations |-> <<1, 2>>, explained |-> 2..8],
    [root |-> 5, resolution |-> <<1, 4, 4, 2, 2, 1, 4, 2>>, kinds |-> <<"attest">>,
     remediations |-> <<>>, explained |-> Reasons \ {1, 6}],
    [root |-> 11, resolution |-> <<1, 3, 2, 4, 4, 4, 4, 3>>, kinds |-> <<"approval">>,
     remediations |-> <<3>>, explained |-> Reasons]>>

MCAction == <<"add_evidence", "set_field", "set_field">>

MCRequirements == <<[root |-> 1, clauses |-> <<1, 2>>], [root |-> 6, clauses |-> <<3>>]>>

Record(id, type, s, t, v, rs) ==
  [id |-> id, type |-> type, qualifiers |-> Want(s, t, v), reviewerState |-> rs]
Request(id, trust, env, refs) == [id |-> id, fields |-> <<trust, env>>, refs |-> refs]

Approvals ==
  {Record("e1", "approval", "valid", "current", "boss", ""),
   Record("e1", "approval", "valid", "current", "ext", ""),
   Record("e1", "approval", "valid", "", "", ""),
   Record("e1", "approval", "valid", "stale", "boss", ""),
   Record("e1", "approval", "revoked", "current", "boss", ""),
   Record("e1", "approval", "valid", "current", "boss", "one_valid_one_revoked"),
   Record("e1", "other", "conflicting", "", "", "")}
Others ==
  {Record("e2", "attest", "valid", "current", "", ""),
   Record("e2", "approval", "conflicting", "current", "boss", ""),
   Record("e2", "attest", "valid", "current", "", "revoked")}

RefLists == {<<>>, <<"e1">>, <<"e2">>, <<"e1", "e2">>, <<"e1", "gone">>, <<"gone", "e2">>,
             <<"e2", "e2">>}

\* One request against every evidence state.
OneRowPacks ==
  {[requests |-> <<Request("q1", trust, env, refs)>>, evidence |-> <<a, b>>] :
     trust \in {"", "int", "ext", "bogus"}, env \in {"", "local", "remote", "bogus"},
     refs \in RefLists, a \in Approvals, b \in Others}

\* Packs of zero, one and two rows to follow one another, and refused ones.
Good == Record("e1", "approval", "valid", "current", "boss", "")
Fine == Record("e2", "attest", "valid", "current", "", "")
Bad  == Record("e1", "approval", "conflicting", "stale", "", "revoked")
Bare == Record("e2", "other", "", "", "", "")

ReusePacks ==
  LET ask(requests, evidence) == [requests |-> requests, evidence |-> evidence]
      full  == Request("q1", "int", "local", <<"e1", "e2">>)
      twin  == Request("q2", "int", "local", <<"e2", "gone">>)
      far   == Request("q2", "int", "remote", <<"e1">>)
      blank == Request("q1", "", "bogus", <<>>)
      lost  == Request("q1", "int", "local", <<"e1", "e1", "e2", "gone">>)
      amend == <<Request("q1", "int", "local", <<"e2">>), Request("q2", "ext", "remote", <<>>)>>
  IN  {ask(<<>>, <<>>), ask(<<full>>, <<Good, Fine>>), ask(<<full>>, <<Bad, Fine>>),
       ask(<<full, far>>, <<Good, Fine>>), ask(<<Request("q1", "ext", "local", <<"e2">>)>>, <<Fine>>),
       ask(<<far, full>>, <<Bad, Bare>>),
       ask(<<blank, twin>>, <<Bare>>), ask(<<blank>>, <<>>), ask(<<full, twin>>, <<Fine, Good>>),
       ask(<<full, [twin EXCEPT !.id = "q1"]>>, <<>>), ask(<<blank>>, <<Good, Good>>),
       ask(<<[blank EXCEPT !.refs = <<" e1">>]>>, <<>>), ask(<<blank, blank, blank>>, <<>>),
       ask(<<[blank EXCEPT !.refs = <<"e1", "e1", "e1", "e1", "e1">>]>>, <<Good>>),
       ask(<<lost>>, <<Good, Fine>>), ask(amend, <<Fine>>), ask(<<>>, <<[Bare EXCEPT !.id = "gone"]>>)}

\* A caller that asks once.
OneShotNext == (status = "none" /\ Submit) \/ Evaluate
OneShotSpec == Init /\ [][OneShotNext]_vars /\ WF_vars(Evaluate)
=============================================================================
