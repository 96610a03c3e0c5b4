------------------------------ MODULE MCAgents ------------------------------
(***************************************************************************)
(* Agents over every short answer, and over every short reason.            *)
(***************************************************************************)
EXTENDS Agents

Good == <<"write_file", "run_tests">>

\* A plan and a verdict that are right, and each way to get one wrong.
Objects ==
  {[rationale |-> "r", steps |-> s] :
      s \in {Good, <<>>, <<"run_tests", "rm">>, <<"rm", "run_tests">>, <<None>>}}
  \cup {[rationale |-> "r"], [steps |-> Good], [reason |-> <<"specific">>]}
  \cup {[accepted |-> b, reason |-> <<"specific">>] : b \in {TRUE, FALSE, None}}

Plan0 == [rationale |-> "r", steps |-> Good]

\* Every text of up to five pieces around a plan, and every shorter one
\* around every object.
Texts == [said : BoundedSeq(Piece, 5), via : {"client"}, cut : {0}, object : {Plan0}]
         \cup [said : BoundedSeq(Piece, 3) \cup {None}, via : {"client"}, cut : {0}, object : Objects]

\* Every reason of up to five pieces, in a verdict on its own or in a fence.
Reasons == [said : {<<"obj">>, <<"prose", "fence", "json", "obj", "fence">>}, via : {"client"},
            cut : {0}, object : [accepted : BOOLEAN, reason : BoundedSeq(ReasonPiece, 5)]]

\* Texts of up to three pieces as the two providers give them: in one piece,
\* or cut at any point.
Replies ==
  UNION {[said : [1..n -> Piece], via : {"openai", "anthropic"}, cut : 0..n, object : {Plan0}] :
           n \in 0..3}

Inputs == Texts \cup Reasons \cup Replies
=============================================================================
