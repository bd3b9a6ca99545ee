------------------------------ MODULE Service -------------------------------
(***************************************************************************)
(* What a session promises its caller: a pack is either refused as a whole *)
(* or answered in one step, row by row, each from the pack alone and from  *)
(* nothing that was asked before.                                          *)
(***************************************************************************)
EXTENDS Sequences

CONSTANTS
  Packs,            \* what a caller may ask
  Acceptable(_),    \* the packs that are answered
  Decide(_, _)      \* the answer to one request, given the evidence

VARIABLES asked, reply

NoPack  == [requests |-> <<>>, evidence |-> <<>>, pending |-> FALSE]
Pending(p) == [requests |-> p.requests, evidence |-> p.evidence, pending |-> TRUE]
Reply(outcome, results) == [status |-> outcome, refused |-> <<>>, results |-> results]
Refusal(p) == [status |-> "input_error", refused |-> <<p>>, results |-> <<>>]

Init == asked = NoPack /\ reply = Reply("none", <<>>)

Refuse == /\ asked = NoPack
          /\ \E p \in Packs : ~Acceptable(p) /\ reply' = Refusal(p)
          /\ UNCHANGED asked

Ask == /\ asked = NoPack
       /\ reply' = Reply("none", <<>>)
       /\ \E p \in Packs : asked' = Pending(p) /\ Acceptable(p)

Answer == /\ asked # NoPack
          /\ asked' = NoPack
          /\ reply' = Reply("ok", [r \in DOMAIN asked.requests |->
                                     Decide(asked.requests[r], asked.evidence)])

Next == Refuse \/ Ask \/ Answer

Spec == Init /\ [][Next]_<<asked, reply>>
=============================================================================
