---------------------------- MODULE AgentsProofs ----------------------------
(***************************************************************************)
(* Proofs of what the planner and the reviewer make of every answer, of    *)
(* any length, however it is wrapped and however its provider cuts it.     *)
(***************************************************************************)
EXTENDS Agents, SequenceTheorems, WellFoundedInduction, TLAPS

(***************************************************************************)
(* The operators that pick a place in a sequence.                          *)
(***************************************************************************)
\* A set of naturals has a least member.
LEMMA LeastOf ==
  ASSUME NEW S \in SUBSET Nat, S # {}
  PROVE  Min(S) \in S /\ \A y \in S : Min(S) <= y
  <1>1. PICK x \in S : \A y \in S : ~ (<<y, x>> \in OpToRel(<, Nat))
    BY NatLessThanWellFounded, WFMin, Zenon
  <1>2. \A y \in S : x <= y
    <2> SUFFICES ASSUME NEW y \in S, y < x PROVE FALSE
      OBVIOUS
    <2>1. <<y, x>> \in OpToRel(<, Nat)
      <3>1. <<y, x>> \in Nat \X Nat /\ <<y, x>>[1] = y /\ <<y, x>>[2] = x
        OBVIOUS
      <3> QED BY <3>1 DEF OpToRel
    <2> QED BY <1>1, <2>1
  <1> QED BY <1>2 DEF Min

\* A bounded one has a greatest: the least of what is left to the bound.
LEMMA GreatestOf ==
  ASSUME NEW n \in Nat, NEW S \in SUBSET (0..n), S # {}
  PROVE  Max(S) \in S /\ \A y \in S : y <= Max(S)
  <1> DEFINE T == {n - y : y \in S}
  <1>1. T \in SUBSET Nat /\ T # {}
    <2>1. \A y \in S : y \in 0..n /\ n - y \in Nat /\ n - y \in T
      OBVIOUS
    <2>2. \A t \in T : \E y \in S : t = n - y
      OBVIOUS
    <2> QED BY <2>1, <2>2
  <1>2. PICK x \in S : \A y \in S : n - x <= n - y
    <2>1. Min(T) \in T /\ \A t \in T : Min(T) <= t
      BY <1>1, LeastOf
    <2> QED BY <2>1
  <1>3. \A y \in S : y <= x
    BY <1>2
  <1> QED BY <1>3 DEF Max

\* The first fence of a text, or 0.
LEMMA FirstFence ==
  ASSUME NEW text \in Seq(Piece)
  PROVE  LET open == SelectInSeq(text, IsFence)
         IN  /\ open \in 0..Len(text)
             /\ open # 0 => text[open] = "fence"
             /\ \A k \in 1..Len(text) : text[k] = "fence" => open # 0 /\ open <= k
  <1> DEFINE I == {k \in 1..Len(text) : text[k] = "fence"}
  <1>1. SelectInSeq(text, IsFence) = IF I # {} THEN Min(I) ELSE 0
    BY DEF SelectInSeq, IsFence
  <1>2. Len(text) \in Nat
    OBVIOUS
  <1>3. CASE I = {}
    BY <1>1, <1>2, <1>3
  <1>4. CASE I # {}
    <2>1. I \in SUBSET Nat
      BY <1>2
    <2>2. Min(I) \in I /\ \A y \in I : Min(I) <= y
      BY <1>4, <2>1, LeastOf
    <2> QED BY <1>1, <1>2, <1>4, <2>2
  <1> QED BY <1>3, <1>4

\* The first fence from a place on, or 0.
LEMMA NextFence ==
  ASSUME NEW text \in Seq(Piece), NEW from \in 1..(Len(text) + 1)
  PROVE  LET close == SelectInSubSeq(text, from, Len(text), IsFence)
         IN  /\ close = 0 \/ (close \in from..Len(text) /\ text[close] = "fence")
             /\ \A k \in from..Len(text) : text[k] = "fence" => close # 0 /\ close <= k
  <1> DEFINE I == {k \in from..Len(text) : text[k] = "fence"}
  <1>1. SelectInSubSeq(text, from, Len(text), IsFence) = IF I # {} THEN Min(I) ELSE 0
    BY DEF SelectInSubSeq, IsFence
  <1>2. Len(text) \in Nat /\ from \in Nat /\ from >= 1
    OBVIOUS
  <1>3. CASE I = {}
    BY <1>1, <1>2, <1>3
  <1>4. CASE I # {}
    <2>1. I \in SUBSET Nat
      BY <1>2
    <2>2. Min(I) \in I /\ \A y \in I : Min(I) <= y
      BY <1>4, <2>1, LeastOf
    <2> HIDE DEF I
    <2>3. SelectInSubSeq(text, from, Len(text), IsFence) = Min(I)
      BY <1>1, <1>4
    <2>4. Min(I) \in from..Len(text) /\ text[Min(I)] = "fence" /\ Min(I) # 0
      BY <1>2, <2>2 DEF I
    <2>5. \A k \in from..Len(text) : text[k] = "fence" => Min(I) <= k
      BY <2>2 DEF I
    <2> QED BY <2>3, <2>4, <2>5
  <1> QED BY <1>3, <1>4

-----------------------------------------------------------------------------
(***************************************************************************)
(* The text of a reply is what the LLM said.                               *)
(***************************************************************************)
\* Four pieces, two of them empty, make the other two joined.
LEMMA FlattenFour ==
  ASSUME NEW S, NEW a \in Seq(S), NEW b \in Seq(S)
  PROVE  Real!FlattenSeq(<<<<>>, a, <<>>, b>>) = a \o b
  <1> DEFINE q    == <<<<>>, a, <<>>, b>>
             F(f) == [j \in 1..Len(q) |-> IF j = 1 THEN q[j] ELSE f[j - 1] \o q[j]]
             g    == <<<<>>, a, a, a \o b>>
             f    == CHOOSE h : h = F(h)
  <1>1. Len(q) = 4 /\ q[1] = <<>> /\ q[2] = a /\ q[3] = <<>> /\ q[4] = b
    OBVIOUS
  <1>2. <<>> \o a = a /\ a \o <<>> = a
    BY ConcatEmptySeq
  <1>3. g = F(g)
    <2>1. F(g) = [j \in 1..4 |-> IF j = 1 THEN q[j] ELSE g[j - 1] \o q[j]]
      BY <1>1
    <2>2. /\ DOMAIN g = 1..4 /\ g = [j \in 1..4 |-> g[j]]
          /\ g[1] = <<>> /\ g[2] = a /\ g[3] = a /\ g[4] = a \o b
      OBVIOUS
    <2>3. ASSUME NEW j \in 1..4
          PROVE  g[j] = IF j = 1 THEN q[j] ELSE g[j - 1] \o q[j]
      <3> HIDE DEF q, g
      <3>1. j = 1 \/ j = 2 \/ j = 3 \/ j = 4
        OBVIOUS
      <3>2. CASE j = 1
        BY <1>1, <2>2, <3>2
      <3>3. CASE j = 2
        BY <1>1, <1>2, <2>2, <3>3
      <3>4. CASE j = 3
        BY <1>1, <1>2, <2>2, <3>4
      <3>5. CASE j = 4
        <4>1. j - 1 = 3 /\ j # 1
          BY <3>5
        <4> QED BY <1>1, <2>2, <3>5, <4>1, Zenon
      <3> QED BY <3>1, <3>2, <3>3, <3>4, <3>5
    <2> HIDE DEF q, F, g
    <2>4. [j \in 1..4 |-> g[j]] = [j \in 1..4 |-> IF j = 1 THEN q[j] ELSE g[j - 1] \o q[j]]
      BY <2>3
    <2> QED BY <2>1, <2>2, <2>4, Zenon
  <1>4. f = F(f)
    BY <1>3
  <1>5. f[4] = a \o b
    <2> HIDE DEF f, q, g
    <2>1. f = [j \in 1..4 |-> IF j = 1 THEN q[j] ELSE f[j - 1] \o q[j]]
      BY <1>4, <1>1
    <2>2. \A j \in 1..4 : f[j] = IF j = 1 THEN q[j] ELSE f[j - 1] \o q[j]
      BY <2>1
    <2>3. f[1] = <<>>
      BY <1>1, <2>2
    <2>4. f[2] = f[1] \o q[2] /\ f[3] = f[2] \o q[3] /\ f[4] = f[3] \o q[4]
      <3>1. /\ 2 \in 1..4 /\ 3 \in 1..4 /\ 4 \in 1..4 /\ 2 # 1 /\ 3 # 1 /\ 4 # 1
            /\ 2 - 1 = 1 /\ 3 - 1 = 2 /\ 4 - 1 = 3
        OBVIOUS
      <3>2. \A j \in 1..4 : j # 1 => f[j] = f[j - 1] \o q[j]
        BY <2>2, Zenon
      <3>3. f[2] = f[2 - 1] \o q[2] /\ f[3] = f[3 - 1] \o q[3] /\ f[4] = f[4 - 1] \o q[4]
        BY <3>1, <3>2, Zenon
      <3> QED BY <3>1, <3>3, Zenon
    <2>5. f[2] = a
      BY <1>1, <1>2, <2>3, <2>4, Zenon
    <2>6. f[3] = a
      BY <1>1, <1>2, <2>4, <2>5, Zenon
    <2> QED BY <1>1, <2>4, <2>6, Zenon
  <1>6. Real!FlattenSeq(q) = f[4]
    BY <1>1 DEF Real!FlattenSeq
  <1> QED BY <1>5, <1>6

\* A text cut in two.
LEMMA CutAndJoined ==
  ASSUME NEW said \in Seq(Piece), NEW n \in 0..Len(said)
  PROVE  /\ SubSeq(said, 1, n) \in Seq(Piece) /\ SubSeq(said, n + 1, Len(said)) \in Seq(Piece)
         /\ SubSeq(said, 1, n) \o SubSeq(said, n + 1, Len(said)) = said
  <1>1. Len(said) \in Nat /\ \A k \in 1..Len(said) : said[k] \in Piece
    BY LenProperties, ElementOfSeq
  <1>2. SubSeq(said, 1, n) \in Seq(Piece) /\ SubSeq(said, n + 1, Len(said)) \in Seq(Piece)
    BY <1>1, SubSeqProperties
  <1>3. SubSeq(said, 1, n) \o SubSeq(said, n + 1, Len(said)) = SubSeq(said, 1, Len(said))
    <2>1. 1 \in 1..(Len(said) + 1) /\ n \in (1 - 1)..Len(said) /\ Len(said) \in n..Len(said)
      BY <1>1
    <2> QED BY <2>1, ConcatAdjacentSubSeq
  <1> QED BY <1>2, <1>3, SubSeqFull

\* The blocks of a message that are no text leave no trace in it.
LEMMA MessageText ==
  ASSUME NEW said \in Seq(Piece), NEW n \in 0..Len(said)
  PROVE  Real!complete_anthropic(Message(said, n)) = said
  <1> DEFINE a == SubSeq(said, 1, n)
             b == SubSeq(said, n + 1, Len(said))
             m == Message(said, n)
             q == [k \in DOMAIN m |-> IF Real!IsText(m[k]) THEN m[k].text ELSE <<>>]
  <1>1. a \in Seq(Piece) /\ b \in Seq(Piece) /\ a \o b = said
    BY CutAndJoined
  <1>2. q = <<<<>>, a, <<>>, b>>
    <2> HIDE DEF a, b
    <2>1. m = <<[type |-> "thinking", text |-> <<"obj">>], [type |-> "text", text |-> a],
                [type |-> "thinking", text |-> <<"obj">>], [type |-> "text", text |-> b]>>
      BY DEF Message, a, b
    <2> HIDE DEF m
    <2>2. DOMAIN m = 1..4
      BY <2>1
    <2>3. /\ ~ Real!IsText(m[1]) /\ Real!IsText(m[2]) /\ ~ Real!IsText(m[3]) /\ Real!IsText(m[4])
          /\ m[2].text = a /\ m[4].text = b
      BY <2>1 DEF Real!IsText
    <2> QED BY <2>2, <2>3
  <1>3. Real!FlattenSeq(q) = said
    <2> HIDE DEF q, a, b, m
    <2> QED BY <1>1, <1>2, FlattenFour
  <1> QED BY <1>3, Zenon DEF Real!complete_anthropic

\* Whatever client it goes through.
LEMMA TextSaid ==
  ASSUME answer \in Answers
  PROVE  /\ answer.said # None => answer.said \in Seq(Piece)
         /\ Text = answer.said
  <1>1. CASE answer.said \in Seq(Piece) /\ answer.cut \in 0..Len(answer.said)
    <2>1. CASE answer.via = "openai"
      <3>1. Real!complete_openai(IF answer.said = <<>> THEN None ELSE answer.said) = answer.said
        <4>1. answer.said # None
          BY <1>1, AgentsAssumption
        <4> QED BY <4>1 DEF Real!complete_openai
      <3> QED BY <1>1, <2>1, <3>1 DEF Text
    <2>2. CASE answer.via = "anthropic"
      <3>1. Real!complete_anthropic(Message(answer.said, answer.cut)) = answer.said
        BY <1>1, MessageText
      <3> QED BY <1>1, <2>2, <3>1 DEF Text
    <2>3. CASE answer.via = "client"
      BY <1>1, <2>3 DEF Text
    <2> QED BY <2>1, <2>2, <2>3, AgentsAssumption
  <1>2. CASE answer.said = None /\ answer.via = "client"
    BY <1>2 DEF Text
  <1> QED BY <1>1, <1>2, AgentsAssumption

-----------------------------------------------------------------------------
(***************************************************************************)
(* What extract_json makes of the text.                                    *)
(***************************************************************************)
\* A sequence of one element.
LEMMA OneElement ==
  ASSUME NEW S, NEW s \in Seq(S), Len(s) = 1
  PROVE  s = <<s[1]>>
  <1> DEFINE t == <<s[1]>>
  <1>1. s[1] \in S
    BY ElementOfSeq
  <1>2. t \in Seq(S) /\ Len(t) = 1 /\ t[1] = s[1]
    BY <1>1
  <1> HIDE DEF t
  <1>3. \A k \in 1..Len(s) : s[k] = t[k]
    BY <1>2
  <1>4. s = t
    BY <1>2, <1>3, SeqEqual
  <1> QED BY <1>4 DEF t

\* The candidate is the text or a part of it.
LEMMA CandidatePart ==
  ASSUME NEW text \in Seq(Piece), Candidate(text) # <<>>
  PROVE  \E m, n \in 1..Len(text) : m <= n /\ Candidate(text) = SubSeq(text, m, n)
  <1> DEFINE open  == SelectInSeq(text, IsFence)
             close == SelectInSubSeq(text, open + 1, Len(text), IsFence)
             first == IF text[open + 1] = "json" THEN open + 2 ELSE open + 1
  <1>1. Candidate(text) = IF open = 0 \/ close = 0 THEN text ELSE SubSeq(text, first, close - 1)
    BY DEF Candidate
  <1>2. Len(text) \in Nat
    BY LenProperties
  <1>3. open \in 0..Len(text)
    BY FirstFence
  <1>4. close = 0 \/ close \in (open + 1)..Len(text)
    <2>1. open + 1 \in 1..(Len(text) + 1)
      BY <1>2, <1>3
    <2> HIDE DEF open
    <2> QED BY <2>1, NextFence
  <1>5. first \in Nat /\ first >= open + 1
    BY <1>2, <1>3
  <1> HIDE DEF open, close, first
  <1>6. CASE open = 0 \/ close = 0
    <2>1. Candidate(text) = text /\ text # <<>>
      BY <1>1, <1>6
    <2>2. Len(text) >= 1
      BY <1>2, <2>1, EmptySeq
    <2>3. SubSeq(text, 1, Len(text)) = text
      BY SubSeqFull
    <2> QED BY <1>2, <2>1, <2>2, <2>3
  <1>7. CASE open # 0 /\ close # 0
    <2>1. Candidate(text) = SubSeq(text, first, close - 1)
      BY <1>1, <1>7
    <2>2. first \in Int /\ close - 1 \in Int
      BY <1>2, <1>3, <1>4, <1>5, <1>7
    <2>3. first <= close - 1
      <3> SUFFICES ASSUME close - 1 < first PROVE FALSE
        BY <2>2
      <3> QED BY <2>1, <2>2, SubSeqEmpty
    <2>4. first \in 1..Len(text) /\ close - 1 \in 1..Len(text)
      BY <1>2, <1>3, <1>4, <1>5, <1>7, <2>2, <2>3
    <2> QED BY <2>1, <2>3, <2>4
  <1> QED BY <1>6, <1>7

\* Of a text whose first fenced block is just an object, it is the object.
LEMMA CandidateBlock ==
  ASSUME NEW text \in Seq(Piece), OneBlock(text)
  PROVE  Candidate(text) = <<"obj">>
  <1> DEFINE open  == SelectInSeq(text, IsFence)
             close == SelectInSubSeq(text, open + 1, Len(text), IsFence)
             first == IF text[open + 1] = "json" THEN open + 2 ELSE open + 1
  <1>1. Candidate(text) = IF open = 0 \/ close = 0 THEN text ELSE SubSeq(text, first, close - 1)
    BY DEF Candidate
  <1>2. Len(text) \in Nat
    BY LenProperties
  <1>3. PICK n \in 2..(Len(text) - 1), start \in 1..2 :
          /\ start < n
          /\ text[n] = "obj" /\ text[n + 1] = "fence" /\ text[n - start] = "fence"
          /\ start = 2 => text[n - 1] = "json"
          /\ \A k \in 1..(n - start - 1) : text[k] # "fence"
    BY DEF OneBlock
  <1>4. open = n - start
    <2>1. /\ open \in 0..Len(text)
          /\ open # 0 => text[open] = "fence"
          /\ \A k \in 1..Len(text) : text[k] = "fence" => open # 0 /\ open <= k
      BY FirstFence
    <2> HIDE DEF open
    <2>2. n - start \in 1..Len(text)
      BY <1>2, <1>3
    <2>3. open # 0 /\ open <= n - start /\ text[open] = "fence"
      BY <1>3, <2>1, <2>2
    <2>4. ~ (open \in 1..(n - start - 1))
      BY <1>3, <2>3
    <2> QED BY <1>2, <2>1, <2>2, <2>3, <2>4
  <1>5. close = n + 1
    <2>1. open + 1 \in 1..(Len(text) + 1) /\ open + 1 = n - start + 1
      BY <1>2, <1>3, <1>4
    <2> HIDE DEF open
    <2>2. /\ close = 0 \/ (close \in (open + 1)..Len(text) /\ text[close] = "fence")
          /\ \A k \in (open + 1)..Len(text) : text[k] = "fence" => close # 0 /\ close <= k
      BY <2>1, NextFence
    <2> HIDE DEF close
    <2>3. n + 1 \in (open + 1)..Len(text)
      BY <1>2, <1>3, <2>1
    <2>4. close # 0 /\ close <= n + 1 /\ close \in (open + 1)..Len(text) /\ text[close] = "fence"
      BY <1>3, <2>2, <2>3
    <2>5. close # n
      BY <1>3, <2>4
    <2>6. start = 2 => close # n - 1
      BY <1>3, <2>4
    <2>7. close >= n - start + 1 /\ close \in Nat
      BY <1>2, <2>1, <2>4
    <2> QED BY <1>2, <1>3, <2>4, <2>5, <2>6, <2>7
  <1>6. first = n
    <2> HIDE DEF open
    <2>1. CASE start = 1
      BY <1>3, <1>4, <2>1
    <2>2. CASE start = 2
      BY <1>3, <1>4, <2>2
    <2> QED BY <2>1, <2>2
  <1> HIDE DEF open, close, first
  <1>7. Candidate(text) = SubSeq(text, n, n)
    BY <1>1, <1>2, <1>3, <1>4, <1>5, <1>6
  <1>8. SubSeq(text, n, n) = <<text[n]>>
    <2>1. n \in 1..Len(text) /\ text[n] \in Piece
      BY <1>2, <1>3, ElementOfSeq
    <2>2. /\ SubSeq(text, n, n) \in Seq(Piece) /\ Len(SubSeq(text, n, n)) = 1
          /\ SubSeq(text, n, n)[1] = text[n]
      BY <2>1, SubSeqProperties
    <2> QED BY <2>2, OneElement
  <1> QED BY <1>3, <1>7, <1>8

\* An object is parsed from a candidate that is one, and from no other.
LEMMA ParsedObject ==
  ASSUME NEW c
  PROVE  /\ c = <<"obj">> => Parsed(c) = "object"
         /\ Parsed(c) = "object" => IsObject(c) /\ c # <<>>
  <1>1. CASE c = <<>>
    <2>1. ~ IsObject(c) /\ c # <<"{}">> /\ c # <<"obj">>
      BY <1>1 DEF IsObject, Whole
    <2> HIDE DEF IsObject
    <2> QED BY <1>1, <2>1 DEF Parsed
  <1>2. CASE c # <<>> /\ IsObject(c)
    <2>1. c[1] \in {"obj", "open"}
      BY <1>2 DEF IsObject, Whole
    <2>2. c # <<"{}">>
      <3>1. <<"{}">>[1] = "{}" /\ "{}" \notin {"obj", "open"}
        OBVIOUS
      <3> QED BY <2>1, <3>1, Zenon
    <2>3. c[1] \notin {"huge", "deep"}
      BY <2>1
    <2> QED BY <1>2, <2>2, <2>3 DEF Parsed
  <1>3. CASE c # <<>> /\ ~ IsObject(c)
    <2>1. c # <<"obj">>
      BY <1>3 DEF IsObject
    <2>2. Parsed(c) # "object"
      BY <1>3 DEF Parsed
    <2> QED BY <2>1, <2>2
  <1> QED BY <1>1, <1>2, <1>3

\* From the text to the outcome.
LEMMA JudgedCases ==
  ASSUME NEW good \in BOOLEAN, NEW value \in {"plan", "verdict"}
  PROVE  /\ Judged(good, value) \in {value, "malformed", "raw"}
         /\ Judged(good, value) = value => extract_json(Text) = "object" /\ good
         /\ Judged(good, value) # value => extract_json(Text) # "object" \/ ~ good
  <1> DEFINE json == extract_json(Text)
  <1> HIDE DEF json
  <1>1. Judged(good, value) = CASE json = "raw"    -> "raw"
                                [] json = "object" -> IF good THEN value ELSE "malformed"
                                [] OTHER           -> "malformed"
    BY DEF Judged, json
  <1>2. CASE json = "raw"
    BY <1>1, <1>2 DEF json
  <1>3. CASE json = "object"
    BY <1>1, <1>3 DEF json
  <1>4. CASE json # "raw" /\ json # "object"
    BY <1>1, <1>4 DEF json
  <1> QED BY <1>2, <1>3, <1>4

\* The rules of the two agents are tests.
LEMMA RulesBoolean ==
  ASSUME NEW o
  PROVE  Usable(o) \in BOOLEAN /\ Fair(o) \in BOOLEAN
  BY DEF Usable, Fair

-----------------------------------------------------------------------------
(***************************************************************************)
(* The outcome is what the answer and the role make it.                    *)
(***************************************************************************)
OutcomeInv ==
  /\ answer \in Answers
  /\ \/ role = "none" /\ outcome = "none"
     \/ role \in {"planner", "reviewer"} /\ outcome = "llm error"
     \/ role = "planner" /\ outcome = Judged(Usable(answer.object), "plan")
     \/ role = "reviewer" /\ outcome = Judged(Fair(answer.object), "verdict")

\* What the agent returns or raises, from an initial state on.
LEMMA OutcomeAlways == Spec => []OutcomeInv
  <1>1. Init => OutcomeInv
    BY DEF Init, OutcomeInv
  <1>2. ASSUME OutcomeInv, [Next]_vars
        PROVE  OutcomeInv'
    <2>1. CASE Plan
      <3>1. answer' = answer /\ role' = "planner" /\ outcome' = Judged(Usable(answer.object), "plan")
        BY <2>1 DEF Plan
      <3>2. Judged(Usable(answer.object), "plan")' = Judged(Usable(answer.object), "plan")
        BY <3>1 DEF Judged, Text
      <3> QED BY <1>2, <3>1, <3>2, Zenon DEF OutcomeInv
    <2>2. CASE Review
      <3>1. answer' = answer /\ role' = "reviewer" /\ outcome' = Judged(Fair(answer.object), "verdict")
        BY <2>2 DEF Review
      <3>2. Judged(Fair(answer.object), "verdict")' = Judged(Fair(answer.object), "verdict")
        BY <3>1 DEF Judged, Text
      <3> QED BY <1>2, <3>1, <3>2, Zenon DEF OutcomeInv
    <2>3. CASE CompleteRaises
      BY <1>2, <2>3, Zenon DEF CompleteRaises, OutcomeInv
    <2>4. CASE UNCHANGED vars
      <3>1. answer' = answer /\ role' = role /\ outcome' = outcome
        BY <2>4 DEF vars
      <3>2. /\ Judged(Usable(answer.object), "plan")' = Judged(Usable(answer.object), "plan")
            /\ Judged(Fair(answer.object), "verdict")' = Judged(Fair(answer.object), "verdict")
        BY <3>1 DEF Judged, Text
      <3> QED BY <1>2, <3>1, <3>2, Zenon DEF OutcomeInv
    <2> QED BY <1>2, <2>1, <2>2, <2>3, <2>4 DEF Next
  <1> QED BY <1>1, <1>2, PTL DEF Spec

\* In terms of the answer: what was said, and whether the rules pass it.
LEMMA OutcomeCases ==
  ASSUME OutcomeInv
  PROVE  /\ answer.said # None => answer.said \in Seq(Piece)
         /\ Used => extract_json(answer.said) = "object"
         /\ outcome = "plan" => Usable(answer.object)
         /\ outcome = "verdict" => Fair(answer.object)
         /\ outcome \notin {"none", "llm error"} /\ ~ Used =>
              \/ extract_json(answer.said) # "object"
              \/ role = "planner" /\ ~ Usable(answer.object)
              \/ role = "reviewer" /\ ~ Fair(answer.object)
         /\ outcome \in {"none", "llm error", "plan", "verdict", "malformed", "raw"}
         /\ role \in {"none", "planner", "reviewer"}
  <1> DEFINE p == Judged(Usable(answer.object), "plan")
             v == Judged(Fair(answer.object), "verdict")
             u == Usable(answer.object)
             f == Fair(answer.object)
             e == extract_json(Text)
  <1>1. Text = answer.said /\ (answer.said # None => answer.said \in Seq(Piece))
    BY TextSaid DEF OutcomeInv
  <1>2. /\ p \in {"plan", "malformed", "raw"}
        /\ p = "plan" => e = "object" /\ u
        /\ p # "plan" => e # "object" \/ ~ u
    <2>1. u \in BOOLEAN
      BY RulesBoolean
    <2> HIDE DEF u
    <2> QED BY <2>1, JudgedCases DEF u
  <1>3. /\ v \in {"verdict", "malformed", "raw"}
        /\ v = "verdict" => e = "object" /\ f
        /\ v # "verdict" => e # "object" \/ ~ f
    <2>1. f \in BOOLEAN
      BY RulesBoolean
    <2> HIDE DEF f
    <2> QED BY <2>1, JudgedCases DEF f
  <1>4. e = extract_json(answer.said)
    BY <1>1
  <1>5. \/ role = "none" /\ outcome = "none"
        \/ role \in {"planner", "reviewer"} /\ outcome = "llm error"
        \/ role = "planner" /\ outcome = p
        \/ role = "reviewer" /\ outcome = v
    BY DEF OutcomeInv
  <1> HIDE DEF p, v, u, f, e
  <1>6. /\ Used => e = "object"
        /\ outcome = "plan" => u
        /\ outcome = "verdict" => f
        /\ outcome \notin {"none", "llm error"} /\ ~ Used =>
              e # "object" \/ (role = "planner" /\ ~ u) \/ (role = "reviewer" /\ ~ f)
        /\ outcome \in {"none", "llm error", "plan", "verdict", "malformed", "raw"}
        /\ role \in {"none", "planner", "reviewer"}
    BY <1>2, <1>3, <1>5 DEF Used
  <1> QED BY <1>1, <1>4, <1>6, Zenon DEF u, f

\* The types: what the agents return and raise, for every answer.
THEOREM AgentsTypeCorrect == Spec => []TypeOK
  <1>1. OutcomeInv => TypeOK
    <2> SUFFICES ASSUME OutcomeInv PROVE TypeOK
      OBVIOUS
    <2> QED BY OutcomeCases DEF TypeOK
  <1> QED BY <1>1, OutcomeAlways, PTL

\* An object in the first fence is the answer.
LEMMA BlockUsed ==
  ASSUME NEW s \in Seq(Piece), s # None, OneBlock(s)
  PROVE  extract_json(s) = "object"
  <1>1. Candidate(s) = <<"obj">>
    BY CandidateBlock
  <1>2. Parsed(Candidate(s)) = "object"
    BY <1>1, ParsedObject
  <1> QED BY <1>2 DEF extract_json

\* json_utils.extract_json: a good object in the first fence of the text is
\* used, whatever stands around it and however the message is cut.
THEOREM FencedObjectUsedHolds == Spec => []FencedObjectUsed
  <1>1. OutcomeInv => FencedObjectUsed
    <2> SUFFICES ASSUME OutcomeInv, AnsweredWell, OneBlock(answer.said), ~ Used
                 PROVE  FALSE
      BY DEF FencedObjectUsed
    <2>1. answer.said \in Seq(Piece) /\ answer.said # None
      BY OutcomeCases DEF AnsweredWell
    <2>2. extract_json(answer.said) = "object"
      BY <2>1, BlockUsed
    <2>3. role = "planner" => Usable(answer.object)
      BY Zenon DEF AnsweredWell
    <2>4. role = "reviewer" => Fair(answer.object)
      BY Zenon DEF AnsweredWell
    <2> QED BY <2>2, <2>3, <2>4, OutcomeCases DEF AnsweredWell
  <1> QED BY <1>1, OutcomeAlways, PTL

\* json_utils.extract_json and RealLLMClient.complete: an agent acts only on
\* an object that stands whole in what the LLM said.
THEOREM NothingInventedHolds == Spec => []NothingInvented
  <1>1. OutcomeInv => NothingInvented
    <2> SUFFICES ASSUME OutcomeInv, Used
                 PROVE  \E m, n \in 1..Len(answer.said) :
                          m <= n /\ IsObject(SubSeq(answer.said, m, n))
      BY DEF NothingInvented
    <2>1. extract_json(answer.said) = "object"
      BY OutcomeCases
    <2>2. answer.said # None /\ Parsed(Candidate(answer.said)) = "object"
      BY <2>1 DEF extract_json
    <2>3. answer.said \in Seq(Piece)
      BY <2>2, OutcomeCases
    <2>4. IsObject(Candidate(answer.said)) /\ Candidate(answer.said) # <<>>
      BY <2>2, ParsedObject
    <2> QED BY <2>3, <2>4, CandidatePart
  <1> QED BY <1>1, OutcomeAlways, PTL

-----------------------------------------------------------------------------
(***************************************************************************)
(* Reasons.                                                                *)
(***************************************************************************)
\* A part of a sequence.
LEMMA Part ==
  ASSUME NEW S, NEW s \in Seq(S), NEW a \in Nat, NEW b \in Nat, 1 <= a, b <= Len(s), a <= b + 1
  PROVE  /\ SubSeq(s, a, b) \in Seq(S) /\ Len(SubSeq(s, a, b)) = b - a + 1
         /\ \A k \in 1..(b - a + 1) : SubSeq(s, a, b)[k] = s[a + k - 1]
  <1>1. \A k \in 1..Len(s) : s[k] \in S
    BY ElementOfSeq
  <1>2. Len(s) \in Nat
    BY LenProperties
  <1>3. \A k \in a..b : s[k] \in S
    BY <1>1, <1>2
  <1>4. /\ SubSeq(s, a, b) \in Seq(S)
        /\ Len(SubSeq(s, a, b)) = IF a <= b THEN b - a + 1 ELSE 0
        /\ \A k \in 1..(b - a + 1) : SubSeq(s, a, b)[k] = s[a + k - 1]
    BY <1>3, SubSeqProperties
  <1> QED BY <1>4

\* str.strip keeps what stands between the first and the last that is no blank.
LEMMA StripPart ==
  ASSUME NEW r \in Seq(ReasonPiece), ~ Blank(r)
  PROVE  \E a, b \in Nat :
           /\ 1 <= a /\ a <= b /\ b <= Len(r)
           /\ Strip(r) = SubSeq(r, a, b) /\ r[a] # "blank" /\ r[b] # "blank"
           /\ \A k \in 1..Len(r) : r[k] # "blank" => a <= k /\ k <= b
  <1> DEFINE I == {k \in 1..Len(r) : r[k] # "blank"}
  <1>1. Len(r) \in Nat /\ DOMAIN r = 1..Len(r)
    BY LenProperties
  <1>2. I # {}
    <2>1. PICK k \in DOMAIN r : r[k] # "blank"
      BY DEF Blank
    <2>2. k \in I
      BY <1>1, <2>1
    <2> QED BY <2>2
  <1>3. \A k \in I : k \in Nat /\ k \in 0..Len(r)
    BY <1>1
  <1>4. SelectInSeq(r, LAMBDA p : p # "blank") = Min(I)
    BY <1>2 DEF SelectInSeq
  <1>5. SelectLastInSeq(r, LAMBDA p : p # "blank") = Max(I)
    BY <1>2 DEF SelectLastInSeq
  <1>6. \A k \in 1..Len(r) : r[k] # "blank" => k \in I
    OBVIOUS
  <1>7. \A k \in I : k \in 1..Len(r) /\ r[k] # "blank"
    OBVIOUS
  <1> HIDE DEF I
  <1>8. Strip(r) = SubSeq(r, Min(I), Max(I))
    BY <1>4, <1>5 DEF Strip
  <1>9. Min(I) \in I /\ \A y \in I : Min(I) <= y
    <2>1. I \in SUBSET Nat
      BY <1>3
    <2> QED BY <1>2, <2>1, LeastOf
  <1>10. Max(I) \in I /\ \A y \in I : y <= Max(I)
    <2>1. I \in SUBSET (0..Len(r))
      BY <1>3
    <2> QED BY <1>1, <1>2, <2>1, GreatestOf
  <1>11. /\ Min(I) \in Nat /\ Max(I) \in Nat /\ 1 <= Min(I) /\ Min(I) <= Max(I) /\ Max(I) <= Len(r)
         /\ r[Min(I)] # "blank" /\ r[Max(I)] # "blank"
    BY <1>1, <1>7, <1>9, <1>10
  <1>12. \A k \in 1..Len(r) : r[k] # "blank" => Min(I) <= k /\ k <= Max(I)
    BY <1>6, <1>9, <1>10
  <1> QED BY <1>8, <1>11, <1>12

\* rstrip(".") keeps what stands up to the last that is no dot.
LEMMA DotsPart ==
  ASSUME NEW r \in Seq(ReasonPiece)
  PROVE  \E c \in Nat :
           /\ c <= Len(r) /\ StripDots(r) = SubSeq(r, 1, c)
           /\ c # 0 => r[c] # "dot"
           /\ \A k \in 1..Len(r) : r[k] # "dot" => k <= c
  <1> DEFINE I == {k \in 1..Len(r) : r[k] # "dot"}
             c == IF I # {} THEN Max(I) ELSE 0
  <1>1. Len(r) \in Nat
    BY LenProperties
  <1>2. I \in SUBSET (0..Len(r))
    BY <1>1
  <1>3. SelectLastInSeq(r, LAMBDA p : p # "dot") = c
    BY DEF SelectLastInSeq
  <1>4. StripDots(r) = SubSeq(r, 1, c)
    BY <1>3, Zenon DEF StripDots
  <1>5. I # {} => c \in I /\ \A y \in I : y <= c
    <2> HIDE DEF I
    <2> QED BY <1>1, <1>2, GreatestOf
  <1>6. I = {} => c = 0
    OBVIOUS
  <1>7. \A k \in 1..Len(r) : r[k] # "dot" => k \in I
    OBVIOUS
  <1>8. \A k \in I : k \in 1..Len(r) /\ r[k] # "dot"
    OBVIOUS
  <1> HIDE DEF I, c
  <1>9. c \in Nat /\ c <= Len(r) /\ (c # 0 => r[c] # "dot")
    BY <1>1, <1>5, <1>6, <1>8
  <1>10. \A k \in 1..Len(r) : r[k] # "dot" => k <= c
    BY <1>5, <1>7
  <1> QED BY <1>4, <1>9, <1>10

\* A blank reason says nothing.
LEMMA BlankVague ==
  ASSUME NEW r, Blank(r)
  PROVE  Vague(r)
  BY DEF Blank, Vague, Words

\* Of the front of a sequence that is one element.
LEMMA FrontOfOne ==
  ASSUME NEW S, NEW s \in Seq(S), NEW c \in Nat, c <= Len(s), NEW e, SubSeq(s, 1, c) = <<e>>
  PROVE  c = 1 /\ s[1] = e
  <1>1. /\ Len(SubSeq(s, 1, c)) = c - 1 + 1
        /\ \A k \in 1..(c - 1 + 1) : SubSeq(s, 1, c)[k] = s[1 + k - 1]
    <2>1. 1 \in Nat /\ 1 <= 1 /\ 1 <= c + 1
      OBVIOUS
    <2> QED BY <2>1, Part
  <1>2. Len(<<e>>) = 1 /\ <<e>>[1] = e
    OBVIOUS
  <1>3. c = 1
    BY <1>1, <1>2
  <1>4. SubSeq(s, 1, c)[1] = s[1]
    BY <1>1, <1>3
  <1> QED BY <1>2, <1>3, <1>4

\* A reason refused as generic says no more than a generic word.
LEMMA GenericVague ==
  ASSUME NEW r \in Seq(ReasonPiece), ~ Blank(r), Generic(r)
  PROVE  Vague(r)
  <1>1. Len(r) \in Nat /\ DOMAIN r = 1..Len(r)
    BY LenProperties
  <1>2. PICK a \in Nat, b \in Nat :
          /\ 1 <= a /\ a <= b /\ b <= Len(r)
          /\ Strip(r) = SubSeq(r, a, b) /\ r[a] # "blank" /\ r[b] # "blank"
          /\ \A k \in 1..Len(r) : r[k] # "blank" => a <= k /\ k <= b
    BY StripPart
  <1>3. /\ Strip(r) \in Seq(ReasonPiece) /\ Len(Strip(r)) = b - a + 1
        /\ \A k \in 1..(b - a + 1) : Strip(r)[k] = r[a + k - 1]
    BY <1>2, Part
  <1>4. PICK c \in Nat :
          /\ c <= Len(Strip(r)) /\ StripDots(Strip(r)) = SubSeq(Strip(r), 1, c)
          /\ c # 0 => Strip(r)[c] # "dot"
          /\ \A k \in 1..Len(Strip(r)) : Strip(r)[k] # "dot" => k <= c
    BY <1>3, DotsPart
  <1>5. c = 1 /\ Strip(r)[1] = "bad"
    <2>1. SubSeq(Strip(r), 1, c) = <<"bad">>
      BY <1>4 DEF Generic
    <2> QED BY <1>3, <1>4, <2>1, FrontOfOne
  <1>6. ASSUME NEW k \in Words(r)
        PROVE  k = a /\ r[k] = "bad"
    <2>1. k \in 1..Len(r) /\ r[k] # "blank" /\ r[k] # "dot"
      BY <1>1 DEF Words
    <2>2. a <= k /\ k <= b
      BY <1>2, <2>1
    <2>3. k - a + 1 \in 1..(b - a + 1) /\ a + (k - a + 1) - 1 = k
      BY <2>1, <2>2
    <2>4. Strip(r)[k - a + 1] = r[k]
      BY <1>3, <2>3
    <2>5. k - a + 1 <= 1
      BY <1>3, <1>4, <1>5, <2>1, <2>3, <2>4
    <2>6. k = a
      BY <2>1, <2>2, <2>5
    <2> QED BY <1>5, <2>4, <2>6
  <1> QED BY <1>6 DEF Vague

\* A generic word between blanks, with full stops after it, is generic.
LEMMA GenericShape ==
  ASSUME NEW r \in Seq(ReasonPiece), NEW f \in Nat, NEW g \in Nat,
         1 <= f, f <= g, g <= Len(r), r[f] = "bad",
         \A k \in (f + 1)..g : r[k] = "dot",
         \A k \in 1..Len(r) : k < f \/ g < k => r[k] = "blank"
  PROVE  ~ Blank(r) /\ Generic(r)
  <1>1. Len(r) \in Nat /\ DOMAIN r = 1..Len(r)
    BY LenProperties
  <1>2. ~ Blank(r)
    <2>1. f \in DOMAIN r
      BY <1>1
    <2> QED BY <2>1 DEF Blank
  <1>3. PICK a \in Nat, b \in Nat :
          /\ 1 <= a /\ a <= b /\ b <= Len(r)
          /\ Strip(r) = SubSeq(r, a, b) /\ r[a] # "blank" /\ r[b] # "blank"
          /\ \A k \in 1..Len(r) : r[k] # "blank" => a <= k /\ k <= b
    BY <1>2, StripPart
  <1>4. a = f /\ b = g
    <2>1. f \in 1..Len(r) /\ g \in 1..Len(r) /\ a \in 1..Len(r) /\ b \in 1..Len(r)
      BY <1>1, <1>3
    <2>2. r[f] # "blank" /\ r[g] # "blank"
      <3>1. g = f \/ g \in (f + 1)..g
        OBVIOUS
      <3> QED BY <3>1
    <2>3. a <= f /\ g <= b
      BY <1>3, <2>1, <2>2
    <2>4. f <= a /\ b <= g
      BY <1>3, <2>1
    <2> QED BY <2>1, <2>3, <2>4
  <1> DEFINE s == Strip(r)
  <1>5. /\ s \in Seq(ReasonPiece) /\ Len(s) = g - f + 1
        /\ \A k \in 1..(g - f + 1) : s[k] = r[f + k - 1]
    BY <1>3, <1>4, Part
  <1> HIDE DEF s
  <1>6. PICK c \in Nat :
          /\ c <= Len(s) /\ StripDots(s) = SubSeq(s, 1, c)
          /\ c # 0 => s[c] # "dot"
          /\ \A k \in 1..Len(s) : s[k] # "dot" => k <= c
    BY <1>5, DotsPart
  <1>7. s[1] = "bad"
    <2>1. 1 \in 1..(g - f + 1) /\ f + 1 - 1 = f
      OBVIOUS
    <2> QED BY <1>5, <2>1
  <1>8. c = 1
    <2>1. 1 \in 1..Len(s)
      BY <1>5
    <2>2. 1 <= c
      BY <1>6, <1>7, <2>1
    <2>3. ASSUME 1 < c PROVE FALSE
      <3>1. c \in 1..(g - f + 1) /\ f + c - 1 \in (f + 1)..g
        BY <1>5, <1>6, <2>3
      <3>2. s[c] = r[f + c - 1]
        BY <1>5, <3>1
      <3> QED BY <1>6, <2>3, <3>1, <3>2
    <2> QED BY <2>2, <2>3
  <1>9. SubSeq(s, 1, 1) = <<"bad">>
    <2>1. 1 \in Nat /\ 1 <= 1 /\ 1 <= Len(s) /\ 1 <= 1 + 1
      BY <1>5
    <2>2. /\ SubSeq(s, 1, 1) \in Seq(ReasonPiece) /\ Len(SubSeq(s, 1, 1)) = 1 - 1 + 1
          /\ \A k \in 1..(1 - 1 + 1) : SubSeq(s, 1, 1)[k] = s[1 + k - 1]
      BY <1>5, <2>1, Part
    <2>3. SubSeq(s, 1, 1)[1] = "bad" /\ Len(SubSeq(s, 1, 1)) = 1
      BY <1>7, <2>2
    <2> QED BY <2>2, <2>3, OneElement
  <1>10. Generic(r)
    BY <1>6, <1>8, <1>9 DEF Generic, s
  <1> QED BY <1>2, <1>10

\* Two sequences joined.
LEMMA Joined ==
  ASSUME NEW s \in Seq(ReasonPiece), NEW t \in Seq(ReasonPiece), NEW q, q = s \o t
  PROVE  /\ q \in Seq(ReasonPiece) /\ Len(q) = Len(s) + Len(t)
         /\ \A k \in 1..(Len(s) + Len(t)) : q[k] = IF k <= Len(s) THEN s[k] ELSE t[k - Len(s)]
  BY ConcatProperties

\* The same, put together from its parts.
LEMMA GenericJoined ==
  ASSUME NEW before \in Nat, NEW dots \in Nat, NEW after \in Nat
  PROVE  LET r == [k \in 1..before |-> "blank"] \o <<"bad">>
                    \o [k \in 1..dots |-> "dot"] \o [k \in 1..after |-> "blank"]
         IN  ~ Blank(r) /\ Generic(r)
  <1> DEFINE x == [k \in 1..before |-> "blank"]
             y == <<"bad">>
             z == [k \in 1..dots |-> "dot"]
             w == [k \in 1..after |-> "blank"]
             f == before + 1
             g == before + 1 + dots
             u == x \o y
             v == u \o z
             r == v \o w
  <1>1. /\ x \in Seq(ReasonPiece) /\ Len(x) = before /\ \A k \in 1..before : x[k] = "blank"
        /\ y \in Seq(ReasonPiece) /\ Len(y) = 1 /\ y[1] = "bad"
        /\ z \in Seq(ReasonPiece) /\ Len(z) = dots /\ \A k \in 1..dots : z[k] = "dot"
        /\ w \in Seq(ReasonPiece) /\ Len(w) = after /\ \A k \in 1..after : w[k] = "blank"
    BY DEF ReasonPiece
  <1> HIDE DEF x, y, z, w
  <1>2. /\ u \in Seq(ReasonPiece) /\ Len(u) = f
        /\ \A k \in 1..f : u[k] = IF k <= before THEN x[k] ELSE y[k - before]
    <2>1. x \in Seq(ReasonPiece) /\ y \in Seq(ReasonPiece)
      BY <1>1
    <2> HIDE DEF u
    <2>2. /\ u \in Seq(ReasonPiece) /\ Len(u) = Len(x) + Len(y)
          /\ \A k \in 1..(Len(x) + Len(y)) : u[k] = IF k <= Len(x) THEN x[k] ELSE y[k - Len(x)]
      BY <2>1, Joined, ZenonT(40) DEF u
    <2> QED BY <1>1, <2>2
  <1> HIDE DEF u
  <1>3. /\ v \in Seq(ReasonPiece) /\ Len(v) = g
        /\ \A k \in 1..g : v[k] = IF k <= f THEN u[k] ELSE z[k - f]
    <2>1. u \in Seq(ReasonPiece) /\ z \in Seq(ReasonPiece)
      BY <1>1, <1>2
    <2> HIDE DEF v
    <2>2. /\ v \in Seq(ReasonPiece) /\ Len(v) = Len(u) + Len(z)
          /\ \A k \in 1..(Len(u) + Len(z)) : v[k] = IF k <= Len(u) THEN u[k] ELSE z[k - Len(u)]
      BY <2>1, Joined, ZenonT(40) DEF v
    <2> QED BY <1>1, <1>2, <2>2
  <1> HIDE DEF v
  <1>4. /\ r \in Seq(ReasonPiece) /\ Len(r) = g + after
        /\ \A k \in 1..(g + after) : r[k] = IF k <= g THEN v[k] ELSE w[k - g]
    <2>1. v \in Seq(ReasonPiece) /\ w \in Seq(ReasonPiece)
      BY <1>1, <1>3
    <2> HIDE DEF r
    <2>2. /\ r \in Seq(ReasonPiece) /\ Len(r) = Len(v) + Len(w)
          /\ \A k \in 1..(Len(v) + Len(w)) : r[k] = IF k <= Len(v) THEN v[k] ELSE w[k - Len(v)]
      BY <2>1, Joined, ZenonT(40) DEF r
    <2> QED BY <1>1, <1>3, <2>2
  <1> HIDE DEF r
  <1>5. ASSUME NEW k \in 1..(g + after)
        PROVE  r[k] = IF k <= before THEN "blank" ELSE IF k <= f THEN "bad"
                      ELSE IF k <= g THEN "dot" ELSE "blank"
    <2>1. r[k] = IF k <= g THEN v[k] ELSE "blank"
      BY <1>1, <1>4
    <2>2. k <= g => v[k] = IF k <= f THEN u[k] ELSE "dot"
      BY <1>1, <1>3
    <2>3. k <= f => u[k] = IF k <= before THEN "blank" ELSE "bad"
      BY <1>1, <1>2
    <2> QED BY <2>1, <2>2, <2>3
  <1>6. /\ f \in Nat /\ g \in Nat /\ 1 <= f /\ f <= g /\ g <= Len(r) /\ r[f] = "bad"
        /\ \A k \in (f + 1)..g : r[k] = "dot"
        /\ \A k \in 1..Len(r) : k < f \/ g < k => r[k] = "blank"
    BY <1>4, <1>5
  <1> HIDE DEF f, g
  <1>7. ~ Blank(r) /\ Generic(r)
    BY <1>4, <1>6, GenericShape
  <1> QED BY <1>7 DEF r, v, u, x, y, z, w

\* What the types say of a verdict's reason.
LEMMA ReasonTyped ==
  ASSUME OutcomeInv, MatchesVerdict(answer.object)
  PROVE  answer.object.reason \in Seq(ReasonPiece)
  BY AgentsAssumption DEF OutcomeInv, MatchesVerdict, Has

\* An object on its own is the answer.
LEMMA BareUsed ==
  ASSUME NEW s \in Seq(Piece), s # None, s = <<"obj">>
  PROVE  extract_json(s) = "object"
  <1>1. Len(s) = 1 /\ s[1] = "obj"
    OBVIOUS
  <1>2. SelectInSeq(s, IsFence) = 0
    <2>1. /\ SelectInSeq(s, IsFence) \in 0..1
          /\ SelectInSeq(s, IsFence) # 0 => s[SelectInSeq(s, IsFence)] = "fence"
      BY <1>1, FirstFence
    <2> QED BY <1>1, <2>1
  <1>3. Candidate(s) = <<"obj">>
    BY <1>2 DEF Candidate
  <1> QED BY <1>3, ParsedObject DEF extract_json

\* Reviewer.review: a well-formed verdict, on its own or in a fence, is refused
\* only for a reason that says nothing, or no more than a generic word, however
\* long it is.
THEOREM SpecificReasonKeptHolds == Spec => []SpecificReasonKept
  <1>1. OutcomeInv => SpecificReasonKept
    <2> SUFFICES ASSUME OutcomeInv, role = "reviewer", outcome \in {"malformed", "raw"},
                        answer.said # None, MatchesVerdict(answer.object),
                        answer.said = <<"obj">> \/ OneBlock(answer.said)
                 PROVE  Vague(answer.object.reason)
      BY Zenon DEF SpecificReasonKept
    <2>1. extract_json(answer.said) = "object"
      <3>1. answer.said \in Seq(Piece)
        BY OutcomeCases
      <3> QED BY <3>1, BareUsed, BlockUsed
    <2>2. ~ Fair(answer.object)
      <3>1. ~ Used
        BY DEF Used
      <3> QED BY <2>1, <3>1, OutcomeCases
    <2>3. Blank(answer.object.reason) \/ Generic(answer.object.reason)
      BY <2>2, Zenon DEF Fair
    <2>4. answer.object.reason \in Seq(ReasonPiece)
      BY ReasonTyped
    <2> QED BY <2>3, <2>4, BlankVague, GenericVague
  <1> QED BY <1>1, OutcomeAlways, PTL

\* Reviewer.review: a verdict with a blank reason is never returned, nor a
\* rejection for nothing but a generic word: any number of blanks, the word,
\* any number of full stops directly after it, any number of blanks.
THEOREM GenericReasonRefusedHolds == Spec => []GenericReasonRefused
  <1>1. OutcomeInv => GenericReasonRefused
    <2>1. ASSUME OutcomeInv, outcome = "verdict"
          PROVE  Fair(answer.object)
      BY <2>1, OutcomeCases
    <2>2. ASSUME OutcomeInv, outcome = "verdict"
          PROVE  \E k \in DOMAIN answer.object.reason : answer.object.reason[k] # "blank"
      BY <2>1, <2>2, Zenon DEF Fair, Blank
    <2>3. ASSUME OutcomeInv, outcome = "verdict", ~ answer.object.accepted,
                 NEW before \in 0..Len(answer.object.reason),
                 NEW dots \in 0..Len(answer.object.reason),
                 NEW after \in 0..Len(answer.object.reason),
                 answer.object.reason = [k \in 1..before |-> "blank"] \o <<"bad">>
                        \o [k \in 1..dots |-> "dot"] \o [k \in 1..after |-> "blank"]
          PROVE  FALSE
      <3>1. before \in Nat /\ dots \in Nat /\ after \in Nat
        BY <2>3
      <3>2. Generic(answer.object.reason)
        BY <2>3, <3>1, GenericJoined
      <3> QED BY <2>1, <2>3, <3>2, Zenon DEF Fair
    <2> QED BY <2>2, <2>3, Zenon DEF GenericReasonRefused
  <1> QED BY <1>1, OutcomeAlways, PTL
=============================================================================
