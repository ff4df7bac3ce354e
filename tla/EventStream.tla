------------------------------ MODULE EventStream ------------------------------
(***************************************************************************)
(* Server-sent events as the relay sees them: the payloads of data lines,  *)
(* what the Responses filter decides about each (internal/proxy/sse.go,    *)
(* responsesanitize.go), and the event-stream parser of the two ends,      *)
(* which joins the lines between two blank lines to one event.             *)
(***************************************************************************)
EXTENDS Naturals, Sequences

CONSTANTS Types,        \* values of "type" in payloads and of event lines
          StreamTypes,  \* responsesStreamEventTypes and the intercepted ones
          Usages,       \* usage reports, 0 being none
          Sizes,        \* lengths of data lines
          Payloads      \* the payloads of data lines

(***************************************************************************)
(* A payload is, by its text: nothing, the bare word ping, other text that *)
(* is not JSON ([DONE] is one), a JSON object, JSON of another kind, or    *)
(* text that starts like an object and is not one.                         *)
(***************************************************************************)
Forms == {"empty", "ping", "text", "object", "value", "broken"}

AllPayloads == [form : Forms, type : Types, usage : Usages, size : Sizes]

LegacyTypes == {"response.reasoning.delta", "response.reasoning.done"}

NoName == ""  \* no event line

ASSUME StreamAssumption ==
  /\ Payloads \subseteq AllPayloads
  /\ Sizes \subseteq Nat \ {0}
  /\ Usages \subseteq Nat /\ 0 \in Usages
  /\ NoName \notin Types
  /\ "ping" \notin StreamTypes
  /\ LegacyTypes \cap StreamTypes = {}
  /\ {"response.reasoning_text.delta", "response.reasoning_text.done"} \subseteq StreamTypes \cap Types

isPingPayload(p) == p.form = "ping" \/ (p.form = "object" /\ p.type = "ping")

isUnknownResponsesEventPayload(p) ==
  \/ p.form = "object" /\ p.type \notin StreamTypes
  \/ p.form \in {"broken", "value"}

dropUnknownResponsesEvent(p) == p.form = "empty" \/ isUnknownResponsesEventPayload(p)

rewriteLegacyReasoningEventNames(type) ==
  CASE type = "response.reasoning.delta" -> "response.reasoning_text.delta"
    [] type = "response.reasoning.done"  -> "response.reasoning_text.done"
    [] OTHER -> type

renameLegacyReasoningPayload(p) ==
  IF p.form = "object" THEN [p EXCEPT !.type = rewriteLegacyReasoningEventNames(@)] ELSE p
-------------------------------------------------------------------------------
(***************************************************************************)
(* The parser. name is what the event line said, "" without one; data are  *)
(* the payloads so far. A blank line hands over an event if it has data.   *)
(***************************************************************************)
Between == [name |-> NoName, data |-> <<>>]

NameLine(parser, name) == [parser EXCEPT !.name = name]

DataLine(parser, p) == [parser EXCEPT !.data = Append(@, p)]

BlankLine(events, parser) ==
  IF parser.data = <<>> THEN events ELSE Append(events, parser)
===============================================================================
