----------------------------- MODULE ToolDialogue -----------------------------
(****************************************************************************)
(* What the model is told of a turn (agent/routing.py, agent/llm.py): the    *)
(* question, then rounds of calls and what was observed of each.  The turns  *)
(* are neutral; each provider's client writes them in the form its service   *)
(* accepts, and a service refuses a round whose answers do not pair.         *)
(****************************************************************************)
EXTENDS Integers, Sequences

\* Turn
UserTurn == [role |-> "user", names |-> <<>>]
CallTurn(calls) == [role |-> "call", names |-> [i \in DOMAIN calls |-> calls[i].name]]
Observation(call) == [role |-> "observation", names |-> <<call.name>>]

---------------------------------------------------------------------------
\* _openai_turns: every call of a round has an id, and the observations that
\* follow take the ids in their order.

\* Slip: a call is numbered within its round only.
OpenAiIdOfRound(index, position) == <<0, position>>
OpenAiId(index, position) == <<index, position>>

\* What one turn adds to the messages and leaves of the ids that await an answer.
OpenAiTurn(acc, index, turn) ==
    LET ids == [position \in DOMAIN turn.names |-> OpenAiId(index, position)]
        said(role, of) == Append(acc.messages, [role |-> role, ids |-> of, names |-> turn.names])
    IN  CASE turn.role = "user" -> [messages |-> said("user", <<>>), pending |-> acc.pending]
          [] turn.role = "call" -> [messages |-> said("assistant", ids), pending |-> ids]
          [] turn.role = "observation" ->
               IF acc.pending = <<>> THEN [messages |-> said("tool", <<<<index, 0>>>>), pending |-> <<>>]
               ELSE [messages |-> said("tool", <<Head(acc.pending)>>), pending |-> Tail(acc.pending)]

OpenAiSaid(turns) ==
    LET said[n \in 0..Len(turns)] ==
          IF n = 0 THEN [messages |-> <<>>, pending |-> <<>>] ELSE OpenAiTurn(said[n - 1], n, turns[n])
    IN  said[Len(turns)]

OpenAiMessages(turns) == OpenAiSaid(turns).messages

\* _gemini_contents: the observations of a round are one content of the user.
Flushed(acc) ==
    IF acc.pending = <<>> THEN acc.contents
    ELSE Append(acc.contents, [role |-> "user", of |-> "response", names |-> acc.pending])

GeminiTurn(acc, turn) ==
    IF turn.role = "observation" THEN [contents |-> acc.contents, pending |-> acc.pending \o turn.names]
    ELSE [contents |-> Append(Flushed(acc),
                              IF turn.role = "call" THEN [role |-> "model", of |-> "call", names |-> turn.names]
                              ELSE [role |-> "user", of |-> "text", names |-> <<>>]),
          pending |-> <<>>]

GeminiSaid(turns) ==
    LET said[n \in 0..Len(turns)] ==
          IF n = 0 THEN [contents |-> <<>>, pending |-> <<>>] ELSE GeminiTurn(said[n - 1], turns[n])
    IN  said[Len(turns)]

GeminiContents(turns) == Flushed(GeminiSaid(turns))

---------------------------------------------------------------------------
\* What the services demand of a dialogue in which every call was observed.

\* Every id is of one call, and each call's answer comes under its id and its
\* name before the model speaks again.
OpenAiAccepts(turns) ==
    LET messages == OpenAiMessages(turns)
        spoken == {i \in DOMAIN messages : messages[i].role = "assistant"}
    IN  /\ \A i, j \in spoken : i # j =>
              {messages[i].ids[k] : k \in DOMAIN messages[i].ids}
              \cap {messages[j].ids[k] : k \in DOMAIN messages[j].ids} = {}
        /\ \A i \in spoken : \A k \in DOMAIN messages[i].ids :
              /\ i + k \in DOMAIN messages
              /\ messages[i + k] = [role |-> "tool", ids |-> <<messages[i].ids[k]>>, names |-> <<messages[i].names[k]>>]
        /\ \A i \in DOMAIN messages : messages[i].role = "tool" =>
              \E j \in spoken : j < i /\ i <= j + Len(messages[j].ids)

\* What follows the calls of the model is one content with all their answers.
GeminiAccepts(turns) ==
    LET contents == GeminiContents(turns)
    IN  /\ \A i \in DOMAIN contents : contents[i].of = "call" =>
              /\ i + 1 \in DOMAIN contents
              /\ contents[i + 1] = [role |-> "user", of |-> "response", names |-> contents[i].names]
        /\ \A i \in DOMAIN contents : contents[i].of = "response" => i > 1 /\ contents[i - 1].of = "call"
================================================================================
