----------------------------- MODULE MCStreamRelay -----------------------------
(***************************************************************************)
(* Streams of up to MaxLines lines. The payloads are one of each kind the  *)
(* filter tells apart; the reports of usage come in a line the tracker's   *)
(* tail holds and in one it does not.                                      *)
(***************************************************************************)
EXTENDS StreamRelay

Completed == "response.completed"

MCTypes == {"ping", "other", Completed} \cup LegacyTypes
             \cup {"response.reasoning_text.delta", "response.reasoning_text.done"}
MCStreamTypes == MCTypes \ ({"ping", "other"} \cup LegacyTypes)

Object(type, usage, size) == [form |-> "object", type |-> type, usage |-> usage, size |-> size]
NotObject(form) == [form |-> form, type |-> "other", usage |-> 0, size |-> 1]

MCPayloads ==
  {NotObject(form) : form \in {"ping", "text", "empty"}}
    \cup {Object(Completed, 1, 1), Object(Completed, 2, 3),
          Object("response.reasoning.delta", 0, 1), Object("ping", 0, 1), Object("other", 0, 1)}

\* For streams of any shape: a ping and an event the client knows.
MCFewPayloads == {NotObject("ping"), Object(Completed, 1, 1)}
===============================================================================
