----------------------------- MODULE MCCompiler ------------------------------
(***************************************************************************)
(* The policies given to the compiler: every combination of a few          *)
(* applicabilities and assertions under one and two clauses, and a policy  *)
(* for each guard of the validation; and policies with a long `in`.        *)
(***************************************************************************)
EXTENDS Compiler

Callers ==
  <<"int", "k1", "k2", "k3", "k4", "k5", "k6", "k7", "k8", "k9", "k10", "k11", "k12", "k13", "k14">>
MCTexts == Range(Callers) \cup
  {"", " ", "R1", "R1 ", "R2", "C1", "C1 ", "C2", "C3", "trust", "env", "requester", "int", "ext", "local",
   "remote", "approval", "attest", "valid", "boss", "why", "because", "long", "bogus", "do"}
MCTrim == [t \in MCTexts |-> CASE t = " " -> "" [] t = "R1 " -> "R1" [] t = "C1 " -> "C1"
                               [] OTHER -> t]
MCFieldNames       == <<"trust", "env", "requester">>
MCValidFieldValues == <<{"int", "ext"}, {"local", "remote", "int"},
                        {t \in MCTexts : MCTrim[t] = t /\ t # NoSymbol}>>
MCQualifierNames   == <<"status", "reviewer">>

-----------------------------------------------------------------------------
(* Expressions as trees, and their table.                                  *)

NoExpression == [op |-> "bogus", field |-> "", value |-> "", values |-> <<>>, children |-> <<>>,
           evidence |-> NoEvidence]
Eq(f, v)      == [NoExpression EXCEPT !.op = "equal", !.field = f, !.value = v]
In(f, vs)     == [NoExpression EXCEPT !.op = "in", !.field = f, !.values = vs]
All(children) == [NoExpression EXCEPT !.op = "all", !.children = children]
Ev(kind, s, r) ==
  [NoExpression EXCEPT !.op = "evidence_matches",
                 !.evidence = [kind |-> kind, qualifiers |-> [status |-> s, reviewer |-> r]]]

\* The nodes of a tree whose root is number at, children after their parents.
RECURSIVE Table(_, _)
Table(tree, at) ==
  LET next(acc) == at + 1 + Len(acc.nodes)
      place(acc, child) == [nodes |-> acc.nodes \o Table(child, next(acc)),
                            ids   |-> Append(acc.ids, next(acc))]
      placed == FoldLeft(place, [nodes |-> <<>>, ids |-> <<>>], tree.children)
  IN  <<[tree EXCEPT !.children = placed.ids]>> \o placed.nodes

\* A policy from requirements that hold their expressions.
Source(requirements) ==
  LET trees  == FlattenSeq([r \in DOMAIN requirements |->
                   <<requirements[r].applicability>>
                     \o [k \in DOMAIN requirements[r].clauses |->
                           requirements[r].clauses[k].assertion]])
      table  == Table(All(trees), 0)
      before(r) == FoldLeft(LAMBDA n, q : n + 1 + Len(q.clauses), 0,
                            SubSeq(requirements, 1, r - 1))
      place(r, k) == table[1].children[before(r) + 1 + k]
  IN  [name |-> "R1", version |-> "C1", nodes |-> Tail(table),
       requirements |->
         [r \in DOMAIN requirements |->
            [id |-> requirements[r].id, applicability |-> place(r, 0),
             clauses |-> [k \in DOMAIN requirements[r].clauses |->
                            [requirements[r].clauses[k] EXCEPT !.assertion = place(r, k)]]]]]

-----------------------------------------------------------------------------

Rejects  == <<1, 2, 4, 4, 4, 4, 4, 4>>
Revising == <<1, 3, 3, 2, 4, 1, 4, 4>>
Reasoned == <<"", "why", "because", "why", "approval", "approval", "why", "why">>

AddEvidence(kind, d) ==
  [action |-> "add_evidence", description |-> d, evidenceKind |-> kind, field |-> "", value |-> ""]
SetField(f, v, d) ==
  [action |-> "set_field", description |-> d, evidenceKind |-> "", field |-> f, value |-> v]

Plain(id, assertion) ==
  [id |-> id, assertion |-> assertion, resolution |-> Rejects, explanations |-> Reasoned,
   remediations |-> <<>>]
Remedied(id, assertion, remediations) ==
  [Plain(id, assertion) EXCEPT !.resolution = Revising, !.remediations = remediations]
Both == <<AddEvidence("attest", "do"), SetField("env", "remote", "why")>>

Ask(id, applicability, clauses) ==
  [id |-> id, applicability |-> applicability, clauses |-> clauses]
One(applicability, clause1) == Source(<<Ask("R1", applicability, <<clause1>>)>>)

Applicabilities ==
  {Eq("trust", "int"), In("env", <<"remote", "int">>),
   All(<<Eq("env", "int"), In("trust", <<"int">>)>>)}
\* n requesters.  A bound of MCSources: no `in` has CountLimit values.
Requesters(n) == SubSeq(Callers, 1, n)
Assertions ==
  {In("requester", Requesters(CountLimit - 1)),
   Eq("env", "local"), Ev("approval", "valid", ""),
   In("env", <<"local", "int", "remote">>),
   All(<<Ev("attest", "", "boss"), Ev("approval", "valid", "boss"), Ev("attest", "valid", "")>>),
   All(<<All(<<Ev("approval", "", ""), Eq("trust", "ext")>>), In("trust", <<"ext", "int">>)>>)}

Combined ==
  {One(a, Remedied("C1", b, Both)) : a \in Applicabilities, b \in Assertions}
    \cup {Source(<<Ask("R1", a, <<Plain("C1", b), Remedied("C2", c, Both)>>)>>) :
            a \in Applicabilities \ {In("env", <<"remote", "int">>)}, b \in Assertions, c \in Assertions}
    \cup {Source(<<Ask("R1", a, <<Remedied("C1", b, <<SetField("trust", "int", "")>>)>>),
                   Ask("R2", a, <<Plain("C2", b), Remedied("C3", Eq("env", "local"), Both)>>)>>) :
            a \in Applicabilities, b \in Assertions}

\* A policy at a limit, or past a guard of the decoder or of Policy.Validate.
Base == Eq("env", "local")
Fill(n, x) == [k \in 1..n |-> x]
Clause1 == Plain("C1", Base)
Special ==
  {One(Base, Plain("C1", e)) : e \in
     {All(<<>>), All(Fill(11, Base)), All(Fill(12, Base)), All(Fill(14, Base)), All(<<All(<<Base>>)>>),
      All(<<All(<<All(<<Base>>)>>)>>), [Base EXCEPT !.values = <<"local">>],
      [Base EXCEPT !.evidence = Ev("attest", "", "").evidence],
      [All(<<Base>>) EXCEPT !.value = "local"], Eq("bogus", "local"), Eq("env", "ext"), Eq("env", " "),
      In("env", <<>>), In("env", <<"local", "local">>), In("env", <<"ext">>),
      [In("env", <<"int">>) EXCEPT !.value = "int"], Ev("bogus", "", ""), Ev("", "valid", ""),
      [Ev("attest", "", "") EXCEPT !.field = "env"], NoExpression}}
  \cup {One(Ev("attest", "", ""), Clause1)}
  \cup {One(Base, c) : c \in
     {[Clause1 EXCEPT !.resolution = Revising], [Clause1 EXCEPT !.remediations = Both],
      [Clause1 EXCEPT !.resolution[3] = 0], [Clause1 EXCEPT !.explanations[2] = " "],
      [Clause1 EXCEPT !.explanations[2] = ""],
      [Clause1 EXCEPT !.explanations[2] = "long"], [Clause1 EXCEPT !.id = " "],
      Remedied("C1", Base, <<AddEvidence("bogus", "do")>>),
      Remedied("C1", Base, <<AddEvidence("attest", "long")>>),
      Remedied("C1", Base, <<[AddEvidence("attest", "do") EXCEPT !.field = "env"]>>),
      Remedied("C1", Base, <<SetField("trust", "local", "do")>>),
      Remedied("C1", Base, <<[SetField("trust", "int", "do") EXCEPT !.evidenceKind = "attest"]>>),
      Remedied("C1", Base, Fill(11, SetField("trust", "int", "do"))),
      Remedied("C1", Base, Fill(16, SetField("trust", "int", "")))}}
  \cup {Source(<<>>), Source(<<Ask("R1", Base, <<>>)>>),
        Source(<<Ask("R1", Base, <<Clause1>>), Ask("R1 ", Base, <<Plain("C2", Base)>>)>>),
        Source(<<Ask("R1", Base, <<Clause1>>), Ask("R2", Base, <<Plain("C1 ", Base)>>)>>),
        [One(Base, Clause1) EXCEPT !.name = " "], [One(Base, Clause1) EXCEPT !.version = ""]}

MCSources == Combined \cup Special

\* An `in` of CountLimit values, and of one more.
MCWideSources ==
  {One(Base, Plain("C1", In("requester", Requesters(n)))) : n \in CountLimit..(CountLimit + 1)}
=============================================================================
