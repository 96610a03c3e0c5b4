------------------------------ MODULE RealLLM -------------------------------
(***************************************************************************)
(* The client of a hosted LLM (llm/real.py): which provider it is made     *)
(* for, and what text it makes of the provider's reply.  Keys are set or   *)
(* not; the names of the models are left out.                              *)
(***************************************************************************)
EXTENDS Sequences, SequencesExt

CONSTANT None   \* Python's None; here also: a RuntimeError

Provider == {"anthropic", "openai"}

\* Where the API keys may be: in the process's environment and in a .env file,
\* which is read only if the dotenv package is installed.  `.env.example' has
\* both variables, blank.
Variable == [Provider -> {"unset", "blank", "key"}]
Environment == [process : Variable, dotenv : Variable, installed : BOOLEAN]

\* load_dotenv leaves a variable alone that the process has, be it blank.
environ(env, p) ==
  IF env.process[p] = "unset" /\ env.installed THEN env.dotenv[p] ELSE env.process[p]

AnyVariableCounts(env) ==   \* mutant: `is not None' for the truth of the string
  CASE environ(env, "anthropic") # "unset" -> "anthropic"
    [] environ(env, "anthropic") = "unset" /\ environ(env, "openai") # "unset" -> "openai"
    [] OTHER -> None

\* The provider of the client, None if there is no key.
from_env(env) ==
  CASE environ(env, "anthropic") = "key" -> "anthropic"
    [] environ(env, "anthropic") # "key" /\ environ(env, "openai") = "key" -> "openai"
    [] OTHER -> None

IsText(block) == block.type = "text"

\* The text blocks of a message, joined; there may be others between them.
complete_anthropic(content) ==
  FlattenSeq([k \in DOMAIN content |-> IF IsText(content[k]) THEN content[k].text ELSE <<>>])

\* A message without content has None.
complete_openai(content) == IF content = None THEN <<>> ELSE content
=============================================================================
