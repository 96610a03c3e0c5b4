------------------------------- MODULE Agents -------------------------------
(***************************************************************************)
(* What the planner and the reviewer make of an LLM's answer: extract_json *)
(* (json_utils.py), then the schema and the rules of Planner.plan and      *)
(* Reviewer.review.  The answer is what LLMClient.complete makes of the    *)
(* reply of a provider.                                                    *)
(*                                                                         *)
(* A text is a sequence of pieces, as coarse as extract_json sees them:    *)
(*   "obj"            the text of a JSON object                            *)
(*   "open", "close"  the two halves of that text, cut inside a string     *)
(*   "fence"          three backquotes                                     *)
(*   "json"           the word, a language tag after a fence               *)
(*   "{}", "[]"       an empty object, an array                            *)
(*   "huge", "deep"   JSON that breaks json.loads: an integer of more      *)
(*                    digits than int() converts, brackets nested deeper   *)
(*                    than the stack                                       *)
(*   "prose"          anything else                                        *)
(* White space between the pieces is left out.                             *)
(***************************************************************************)
EXTENDS Integers, Sequences, SequencesExt

CONSTANTS
  Answers,   \* what an LLM may answer: [said, via, cut, object]
  None       \* Python's None, and the absence of a value

VARIABLES
  answer,    \* what the LLM said, how that reaches the client, and the
             \* object that the piece "obj" stands for
  role,      \* who asked: "none" | "planner" | "reviewer"
  outcome    \* "none" | "plan" | "verdict" | "malformed" | "raw" | "llm error"

vars == <<answer, role, outcome>>

Real == INSTANCE RealLLM

Piece == {"obj", "open", "close", "fence", "json", "{}", "[]", "huge", "deep", "prose"}

\* A reason, in pieces: "bad" stands for each of _GENERIC_REASONS in any case,
\* "specific" for other words.
ReasonPiece == {"bad", "specific", "blank", "dot"}

\* Only another client than the two providers' may fail to return a string.
ASSUME AgentsAssumption ==
  /\ None \notin Seq(Piece)
  /\ \A a \in Answers :
       /\ a.via \in {"client", "openai", "anthropic"}
       /\ \/ a.said \in Seq(Piece) /\ a.cut \in 0..Len(a.said)
          \/ a.said = None /\ a.via = "client"
       /\ "reason" \in DOMAIN a.object => a.object.reason \in Seq(ReasonPiece)

TypeOK ==
  /\ answer.said = None \/ answer.said \in Seq(Piece)
  /\ role \in {"none", "planner", "reviewer"}
  /\ outcome \in {"none", "plan", "verdict", "malformed", "raw", "llm error"}

-----------------------------------------------------------------------------
(***************************************************************************)
(* extract_json.                                                           *)
(***************************************************************************)
IsFence(p) == p = "fence"

WidestBlock(text) ==   \* mutant: a greedy group, up to the last fence
  LET open  == SelectInSeq(text, IsFence)
      close == SelectLastInSubSeq(text, open + 1, Len(text), IsFence)
      first == IF text[open + 1] = "json" THEN open + 2 ELSE open + 1
  IN  IF open = 0 \/ close = 0 THEN text ELSE SubSeq(text, first, close - 1)

\* What stands between the first fence, with its tag, and the next one; the
\* whole text if there are no two fences.
Candidate(text) ==
  LET open  == SelectInSeq(text, IsFence)
      close == SelectInSubSeq(text, open + 1, Len(text), IsFence)
      first == IF text[open + 1] = "json" THEN open + 2 ELSE open + 1
  IN  IF open = 0 \/ close = 0 THEN text ELSE SubSeq(text, first, close - 1)

\* The two halves of an object with the rest of its string between them,
\* where quotes would be escaped.
Whole(c) ==
  /\ Len(c) >= 2 /\ c[1] = "open" /\ c[Len(c)] = "close"
  /\ \A k \in 2..(Len(c) - 1) : c[k] \notin {"open", "close", "obj"}

IsObject(c) == c = <<"obj">> \/ Whole(c)

RepairTruncated(c) ==   \* mutant: an object cut off is completed
  CASE c = <<>> -> "malformed"
    [] c # <<>> /\ c[1] \in {"obj", "open"} -> "object"
    [] OTHER -> "malformed"

\* json.loads fails at the first fault, and only JSONDecodeError is caught.
Parsed(c) ==
  CASE c = <<>>      -> "malformed"
    [] IsObject(c)   -> "object"
    [] c = <<"{}">>  -> "{}"
    [] c # <<>> /\ c[1] \in {"huge", "deep"} -> "raw"
    [] OTHER         -> "malformed"

\* A message of Anthropic's: what was said in two text blocks, cut after n
\* pieces, each after a block of another type.
Message(said, n) ==
  LET Block(type, text) == [type |-> type, text |-> text]
  IN  <<Block("thinking", <<"obj">>), Block("text", SubSeq(said, 1, n)),
        Block("thinking", <<"obj">>), Block("text", SubSeq(said, n + 1, Len(said)))>>

\* LLMClient.complete, of RealLLMClient (a message that says nothing may have
\* no content) and of any other client.
Text ==
  CASE answer.via = "openai" ->
         Real!complete_openai(IF answer.said = <<>> THEN None ELSE answer.said)
    [] answer.via = "anthropic" -> Real!complete_anthropic(Message(answer.said, answer.cut))
    [] answer.via = "client"    -> answer.said

extract_json(text) == IF text = None THEN "malformed" ELSE Parsed(Candidate(text))

-----------------------------------------------------------------------------
(***************************************************************************)
(* The objects, as records of the fields they have.  A step that lacks a   *)
(* field and an `accepted' that is no truth value are None.                *)
(***************************************************************************)
VALID_TOOLS == {"read_file", "write_file", "run_tests", "list_files"}

Has(o, field) == field \in DOMAIN o

MatchesPlan(o) ==
  /\ Has(o, "rationale")
  /\ Has(o, "steps") => \A k \in DOMAIN o.steps : o.steps[k] # None

\* Planner.plan, once the answer is there: what is not a plan is malformed,
\* as is a plan with no steps or a step with an unknown tool.
Usable(o) ==
  /\ MatchesPlan(o)
  /\ Has(o, "steps") /\ o.steps # <<>>
  /\ \A k \in DOMAIN o.steps : o.steps[k] \in VALID_TOOLS

MatchesVerdict(o) == Has(o, "accepted") /\ o.accepted # None /\ Has(o, "reason")

Blank(r) == \A k \in DOMAIN r : r[k] = "blank"

\* str.strip, and rstrip(".").
Strip(r) ==
  IF Blank(r) THEN <<>>
  ELSE SubSeq(r, SelectInSeq(r, LAMBDA p : p # "blank"), SelectLastInSeq(r, LAMBDA p : p # "blank"))

StripDots(r) == SubSeq(r, 1, SelectLastInSeq(r, LAMBDA p : p # "dot"))

DotsFirst(r) == Strip(StripDots(r)) = <<"bad">>   \* mutant: the order swapped

AnyGenericWord(r) == \E k \in DOMAIN r : r[k] = "bad"   \* mutant: `in' on the string

Generic(r) == StripDots(Strip(r)) = <<"bad">>

\* Reviewer.review, once the answer is there.
Fair(o) ==
  /\ MatchesVerdict(o)
  /\ ~ Blank(o.reason)
  /\ ~ o.accepted => ~ Generic(o.reason)

\* From the text to what the agent returns or raises; {} matches no schema.
Judged(good, value) ==
  LET json == extract_json(Text)
  IN  CASE json = "raw"    -> "raw"
        [] json = "object" -> IF good THEN value ELSE "malformed"
        [] OTHER           -> "malformed"

-----------------------------------------------------------------------------
Init == answer \in Answers /\ role = "none" /\ outcome = "none"

Plan ==
  /\ role = "none" /\ role' = "planner"
  /\ outcome' = Judged(Usable(answer.object), "plan")
  /\ UNCHANGED answer

Review ==
  /\ role = "none" /\ role' = "reviewer"
  /\ outcome' = Judged(Fair(answer.object), "verdict")
  /\ UNCHANGED answer

\* LLMClient.complete raises, which neither agent catches.
CompleteRaises ==
  /\ role = "none" /\ role' \in {"planner", "reviewer"}
  /\ outcome' = "llm error" /\ UNCHANGED answer

Next == Plan \/ Review \/ CompleteRaises

Spec == Init /\ [][Next]_vars

-----------------------------------------------------------------------------
(***************************************************************************)
(* Properties.                                                             *)
(***************************************************************************)
\* The text holds, as its first fenced block, just an object.
OneBlock(text) ==
  \E n \in 2..(Len(text) - 1), start \in 1..2 :
    /\ start < n
    /\ text[n] = "obj" /\ text[n + 1] = "fence" /\ text[n - start] = "fence"
    /\ start = 2 => text[n - 1] = "json"
    /\ \A k \in 1..(n - start - 1) : text[k] # "fence"

\* An LLM has answered, and the object it wrote is what the agent asked for.
AnsweredWell ==
  /\ outcome \notin {"none", "llm error"} /\ answer.said # None
  /\ IF role = "planner" THEN Usable(answer.object) ELSE Fair(answer.object)

Used == outcome \in {"plan", "verdict"}

\* "Real LLMs routinely wrap JSON in markdown code fences": a good object in
\* a fence is used whatever prose, brackets or further blocks stand around it,
\* and however the provider cuts the message into blocks.
FencedObjectUsed == AnsweredWell /\ OneBlock(answer.said) => Used

\* An agent acts on an object only if the LLM said all of it: never on one
\* that it was cut off writing, and never on one that it only thought of.
NothingInvented ==
  Used =>
    \E m, n \in 1..Len(answer.said) : m <= n /\ IsObject(SubSeq(answer.said, m, n))

\* Where a reason says something, blanks and dots aside.
Words(r) == {k \in DOMAIN r : r[k] \notin {"blank", "dot"}}

\* It says nothing, or one generic word.
Vague(r) == \A j, k \in Words(r) : j = k /\ r[k] = "bad"

\* A well-formed verdict whose reason says more than that it is wrong is
\* never refused, on its own or in a fence, even if it contains "bad".
SpecificReasonKept ==
  role = "reviewer" /\ outcome \in {"malformed", "raw"} /\ answer.said # None
    /\ (answer.said = <<"obj">> \/ OneBlock(answer.said)) /\ MatchesVerdict(answer.object)
  => Vague(answer.object.reason)

\* "Rejects with an empty or generically-worded reason are themselves treated
\* as malformed output": no verdict has a blank reason, and no rejection one of
\* blanks, a generic word, full stops directly after it, and blanks.  (Full
\* stops anywhere else make another reason of it: see RejectionsSpecific.)
GenericReasonRefused ==
  outcome = "verdict" =>
    /\ \E k \in DOMAIN answer.object.reason : answer.object.reason[k] # "blank"
    /\ ~ answer.object.accepted =>
         \A before, dots, after \in 0..Len(answer.object.reason) :
           answer.object.reason # [k \in 1..before |-> "blank"] \o <<"bad">>
                                    \o [k \in 1..dots |-> "dot"] \o [k \in 1..after |-> "blank"]

-----------------------------------------------------------------------------
(***************************************************************************)
(* What the repository says of the agents and the code does not do.        *)
(***************************************************************************)
\* "Real LLMs routinely [...] add a stray sentence before/after it.  This is
\* deliberately forgiving about that."
ForgivesProse ==
  AnsweredWell /\ SelectSeq(answer.said, LAMBDA p : p # "prose") = <<"obj">> => Used

\* "Raises MalformedResponseError (never a raw exception type) if the text
\* cannot be parsed into a JSON object."
NeverRaw == outcome # "raw"

\* "Parse text as JSON, stripping a single markdown code fence if present":
\* a text that is a good JSON object is used, whatever its strings hold.
ObjectParsed == AnsweredWell /\ IsObject(answer.said) => Used

\* "Every rejection must cite specifics."
RejectionsSpecific ==
  outcome = "verdict" /\ ~ answer.object.accepted =>
    ~ Vague(answer.object.reason)
=============================================================================
