-------------------------------- MODULE Exchange --------------------------------
(***************************************************************************)
(* What one successful exchange does to the data that passes through it    *)
(* (internal/proxy/proxy.go): the request that is built for the upstream,  *)
(* the answer that is relayed chunk by chunk, and what the audit row keeps *)
(* of both. Exchanges share no data, so that a behaviour is one of them.   *)
(* How an exchange may fail is the module ProxyRequest.                    *)
(***************************************************************************)
EXTENDS UpstreamHeaders, BodyRewrite, UsageMetrics

(***************************************************************************)
(* An exchange to model: the gateway (adapter and headers), the client's   *)
(* headers and document, and the chunks of the upstream's answer. A chunk  *)
(* has fields of the tool call the model makes, and what it tells of the   *)
(* tokens used: counts in one of the dialects, or nothing.                 *)
(***************************************************************************)
CONSTANT Exchanges

\* The dialects of the other ends' protocols, and what each can tell: see Reported.
DialectsOf(protocol) ==
  CASE protocol = "responses" -> {"responses_details", "responses_plain"}
    [] protocol = "anthropic" -> {"anthropic"}
    [] OTHER -> {"chat_hit_miss", "chat_details", "chat_plain"}

Tellable(dialect) ==
  {n \in [input : Nat, read : Nat, write : Nat, output : Nat, reasoning : Nat] :
     /\ dialect \in {"chat_plain", "responses_plain"} => n.read = 0 /\ n.write = 0
     /\ dialect = "chat_hit_miss" => n.write = 0
     /\ dialect \notin {"chat_details", "responses_details"} => n.reasoning = 0}

Tells(call, field) == field \in DOMAIN call /\ call[field] # ""

\* An upstream speaks one dialect of its protocol at a time, and names the
\* tool calls of an answer that is not streamed.
AnswerAssumption(x) ==
  /\ x.answer \in Seq(Range(x.answer))
  /\ \A chunk \in Range(x.answer) :
       /\ chunk.dialect # "none" =>
            /\ chunk.dialect \in DialectsOf(x.gateway.headers.protocol)
            /\ chunk.counts \in Tellable(chunk.dialect)
       /\ x.gateway.adapter = "st" /\ ~ x.client.stream =>
            \A field \in {"id", "name"} \cap DOMAIN chunk.call : Tells(chunk.call, field)

ListEntries == [type : STRING \ {"<scalar>"}, fields : SUBSET STRING]
ToolCalls == [id : STRING, whole : BOOLEAN, type : STRING]
ChatMessages == [role : STRING, calls : Seq(ToolCalls), answers : STRING]
RequestDocuments ==
  [members : Seq([key : STRING, items : Seq(ListEntries) \cup {Scalar}]),
   messages : Seq(ChatMessages)]

\* A request to Anthropic has messages, and the answer of a tool calls no other.
DocumentAssumption(x) ==
  /\ x.document \in RequestDocuments
  /\ x.gateway.adapter = "anth" => HasKey(x.document.members, "messages")
  /\ \A message \in Range(x.document.messages) : message.role = "tool" => message.calls = <<>>

ASSUME ExchangesAssumption ==
  \A x \in Exchanges :
    /\ x.gateway.adapter \in {"std", "ds", "anth", "st", "oaic"}
    /\ x.gateway.headers \in GatewayHeaders
    /\ x.gateway.adapter = "anth" => x.gateway.headers.protocol = "anthropic"
    /\ x.client \in ClientHeaders
    /\ x.client.bearer => "authorization" \in x.client.names
    /\ DocumentAssumption(x)
    /\ AnswerAssumption(x)

VARIABLES stage,     \* "idle", "received", "sent" or "done"
          exchange,  \* the one this behaviour is about
          sent,      \* headers and document of the upstream request
          relayed,   \* the chunks passed to the client
          row        \* what the audit row says (its usage: what it will say)

vars == <<stage, exchange, sent, relayed, row>>

NoHeaders == [name \in Names |-> None]
NoDocument == [members |-> <<>>, messages |-> <<>>]
NoUsage == [counts |-> Metrics(0, 0, 0, FALSE), OutputTokens |-> 0, ReasoningTokens |-> 0,
            PromptTokens |-> 0]

Init ==
  /\ stage = "idle"
  /\ exchange \in Exchanges
  /\ sent = [headers |-> NoHeaders, document |-> NoDocument]
  /\ relayed = <<>>
  /\ row = [client |-> NoHeaders, upstream |-> NoHeaders, usage |-> NoUsage]
-------------------------------------------------------------------------------
(***************************************************************************)
(* The other ends. Each upstream reports the tokens it used in the dialect *)
(* of its protocol: the counts below are input tokens that were not in its *)
(* cache, read from it and written to it, output and, of those, reasoning. *)
(***************************************************************************)
Reported(dialect, n) ==
  CASE dialect = "chat_hit_miss" ->
         [prompt_tokens |-> n.input + n.read, prompt_cache_hit_tokens |-> n.read,
          prompt_cache_miss_tokens |-> n.input, completion_tokens |-> n.output]
    [] dialect = "chat_details" ->
         [key \in {"prompt_tokens", "completion_tokens", "prompt_tokens_details.cached_tokens",
                   "prompt_tokens_details.cache_write_tokens",
                   "completion_tokens_details.reasoning_tokens"} |->
            CASE key = "prompt_tokens" -> n.input + n.read + n.write
              [] key = "completion_tokens" -> n.output
              [] key = "prompt_tokens_details.cached_tokens" -> n.read
              [] key = "prompt_tokens_details.cache_write_tokens" -> n.write
              [] key = "completion_tokens_details.reasoning_tokens" -> n.reasoning]
    [] dialect = "chat_plain" ->
         [prompt_tokens |-> n.input, completion_tokens |-> n.output]
    [] dialect = "responses_details" ->
         [key \in {"input_tokens", "output_tokens", "input_tokens_details.cached_tokens",
                   "input_tokens_details.cache_write_tokens",
                   "output_tokens_details.reasoning_tokens"} |->
            CASE key = "input_tokens" -> n.input + n.read + n.write
              [] key = "output_tokens" -> n.output
              [] key = "input_tokens_details.cached_tokens" -> n.read
              [] key = "input_tokens_details.cache_write_tokens" -> n.write
              [] key = "output_tokens_details.reasoning_tokens" -> n.reasoning]
    [] dialect = "responses_plain" ->
         [input_tokens |-> n.input, output_tokens |-> n.output]
    [] dialect = "anthropic" ->
         [input_tokens |-> n.input, cache_read_input_tokens |-> n.read,
          cache_creation_input_tokens |-> n.write, output_tokens |-> n.output]

\* The Responses protocol reports its usage inside its response object.
Event(dialect, n) ==
  IF dialect \in {"responses_details", "responses_plain"}
    THEN [usage |-> <<>>, response |-> Reported(dialect, n)]
    ELSE [usage |-> Reported(dialect, n), response |-> <<>>]

\* A client puts the chunks of a tool call together: of each field the last value.
Merged(chunks) ==
  [field \in UNION {DOMAIN chunk : chunk \in Range(chunks)} |->
     chunks[SelectLastInSeq(chunks, LAMBDA chunk : field \in DOMAIN chunk)][field]]
-------------------------------------------------------------------------------
\* newAuditLog, and reading the request.
Receive ==
  /\ stage = "idle"
  /\ stage' = "received"
  /\ row' = [row EXCEPT !.client =
               sanitizeHeaders([name \in Names |-> Get(exchange.client, name)])]
  /\ UNCHANGED <<exchange, sent, relayed>>

buildUpstreamRequest ==
  LET gateway == exchange.gateway
      rewritten == TransformRequestBody(gateway.adapter, exchange.document)
      headers == buildUpstreamHeaders(exchange.client, gateway.headers)
  IN /\ stage = "received"
     /\ stage' = "sent"
     /\ sent' = [headers |-> headers,
                 document |->
                   IF gateway.headers.protocol = "responses"
                     THEN [rewritten EXCEPT !.members =
                             injectPromptCacheKey(@, grokSessionID(exchange.client))]
                     ELSE rewritten]
     /\ row' = [row EXCEPT !.upstream = sanitizeHeaders(headers)]
     /\ UNCHANGED <<exchange, relayed>>

\* Mutant of UsageAfter: the first usage that is told is kept.
UsageFirst(told, chunk, protocol) ==
  IF chunk.dialect = "none" \/ told # NoUsage THEN told
  ELSE extractUsageFromRoot(Event(chunk.dialect, chunk.counts), protocol)

\* observeLine, ExtractUsage: an event that tells usage replaces what was told before.
UsageAfter(told, chunk, protocol) ==
  IF chunk.dialect = "none" THEN told
  ELSE extractUsageFromRoot(Event(chunk.dialect, chunk.counts), protocol)

\* One chunk of the answer; an answer that is not streamed is one.
RelayChunk ==
  LET gateway == exchange.gateway
      chunk == exchange.answer[Len(relayed) + 1]
  IN /\ stage = "sent" /\ Len(relayed) < Len(exchange.answer)
     /\ relayed' = Append(relayed,
                     TransformChunk(gateway.adapter, exchange.client.stream, chunk.call))
     /\ row' = [row EXCEPT !.usage = UsageAfter(@, chunk, gateway.headers.protocol)]
     /\ UNCHANGED <<stage, exchange, sent>>

Finish ==
  /\ stage = "sent" /\ Len(relayed) = Len(exchange.answer)
  /\ stage' = "done"
  /\ UNCHANGED <<exchange, sent, relayed, row>>

Next == Receive \/ buildUpstreamRequest \/ RelayChunk \/ Finish

Spec == Init /\ [][Next]_vars
-------------------------------------------------------------------------------
Built == stage \in {"sent", "done"}
adapter == exchange.gateway.adapter
protocol == exchange.gateway.headers.protocol
client == exchange.client
before == exchange.document
after == sent.document

\* The keys the adapters may change.
Edited == CASE adapter = "std" -> {"stream_tool_calls", "tools", "include"}
            [] adapter = "ds" -> {"stream_tool_calls", "tools", "include", "reasoning", "input"}
            [] adapter = "anth" -> {"tools"}
            [] OTHER -> {}

Types(items) == [i \in DOMAIN items |-> items[i].type]
Keys(members) == {member.key : member \in Range(members)}

(***************************************************************************)
(* The document the upstream reads (of every key the last value) differs   *)
(* from the client's only where the gateway's dialect demands it: other    *)
(* members are all there; of the tools and the include values those of the *)
(* standard are kept, in order, and no others; the domains to exclude from *)
(* a web search arrive under their standard name, and every other field of *)
(* a tool as it was; of the Responses protocol no list becomes empty.      *)
(* Excepted by name is what the Anthropic adapter does when it drops a     *)
(* tool (ToolIsDropped): all numbers of the document have been a float64.  *)
(* (adapter_*.go, responsesanitize.go.)                                    *)
(***************************************************************************)
OldTools == ItemsOf(before.members, "tools")
NewTools == ItemsOf(after.members, "tools")

\* The tools the dialect knows, or cannot judge.
ToolsTold ==
  Kept(OldTools, {i \in DOMAIN OldTools :
                    \/ OldTools[i].type = Unreadable
                    \/ IF adapter = "anth" THEN "name" \in OldTools[i].fields
                       ELSE OldTools[i].type \in standardResponsesToolTypes})

ToolIsDropped == adapter = "anth" /\ OldTools # Scalar /\ ToolsTold # OldTools

\* What is left of the items of a value that the adapter does not edit.
Arriving(items) == IF ToolIsDropped THEN rounded(items) ELSE items

SearchTranslated(told, new) ==
  /\ new.type = told.type
  /\ told.fields \ {"excluded_domains"} \subseteq new.fields
  /\ IF told.type = "web_search"
       THEN /\ "excluded_domains" \notin new.fields
            /\ "excluded_domains" \in told.fields => "blocked_domains" \in new.fields
       ELSE new = told

ToolsConform ==
  IF OldTools = Scalar THEN NewTools = OldTools
  ELSE IF adapter = "anth" THEN NewTools = Arriving(ToolsTold)
  ELSE /\ DOMAIN NewTools = DOMAIN ToolsTold
       /\ \A i \in DOMAIN NewTools : SearchTranslated(ToolsTold[i], NewTools[i])

NoListEmptied ==
  \A key \in {"tools", "include"} :
    HasKey(after.members, key) /\ ItemsOf(before.members, key) # <<>>
      => ItemsOf(after.members, key) # <<>>

ReasoningConforms ==
  /\ ~ HasKey(after.members, "stream_tool_calls")
  /\ \A value \in Range(ItemsOf(after.members, "include")) :
       value \in Range(Scalar) \/ value.type \in standardResponsesIncludeValues
  /\ adapter = "ds" =>
       /\ ~ HasKey(after.members, "include")
       /\ \A item \in Range(ItemsOf(after.members, "reasoning")) : item.type # "minimal"
       /\ \A item \in Range(ItemsOf(after.members, "input")) :
            item.type = "reasoning" => item.fields \cap {"summary", "encrypted_content"} = {}
       /\ Len(ItemsOf(after.members, "input")) = Len(ItemsOf(before.members, "input"))
  /\ adapter = "std" =>
       LET old == Types(ItemsOf(before.members, "include"))
       IN Types(ItemsOf(after.members, "include"))
            = Kept(old, {i \in DOMAIN old :
                           old[i] \in standardResponsesIncludeValues \cup {"<scalar>"}})

RewriteConforms ==
  Built /\ adapter \in {"std", "ds", "anth"} =>
    /\ \A key \in (Keys(before.members) \cup Keys(after.members))
                    \ (Edited \cup {"prompt_cache_key"}) :
         /\ HasKey(after.members, key) /\ HasKey(before.members, key)
         /\ ItemsOf(after.members, key) = Arriving(ItemsOf(before.members, key))
    /\ ToolsConform
    /\ adapter # "anth" => NoListEmptied /\ ReasoningConforms

(***************************************************************************)
(* A chat upstream is told of no answer of a tool without the call it      *)
(* answers, and of no call it could not read; yet every whole call, every  *)
(* answer to one and every other message is passed on, in order.           *)
(* (sanitizeSenseNovaToolCallHistory, transformToolCallType.)              *)
(***************************************************************************)
CallsIn(messages) == UNION {Range(message.calls) : message \in Range(messages)}

ToolHistoryClosed ==
  Built /\ adapter \in {"st", "oaic"} =>
    LET whole == {call.id : call \in {c \in CallsIn(before.messages) : c.id # "" /\ c.whole}}
    IN /\ {call.id : call \in CallsIn(after.messages)} = whole
       /\ \A call \in CallsIn(after.messages) :
            call.whole /\ (adapter = "st" => call.type # "function")
       /\ [i \in DOMAIN after.messages |-> <<after.messages[i].role, after.messages[i].answers>>]
            = LET old == before.messages
                  told == Kept(old, {i \in DOMAIN old :
                                       old[i].role = "tool" => old[i].answers \in whole})
              IN [i \in DOMAIN told |-> <<told[i].role, told[i].answers>>]

(***************************************************************************)
(* The tool call a client puts together from SenseNova's answer has the    *)
(* identifier and the name the upstream gave it last, and the standard     *)
(* type, although later chunks repeat them empty; and no answer ends for   *)
(* an empty reason. What other gateways send is passed on as it is.        *)
(***************************************************************************)
ToolCallKeepsIdentity ==
  stage = "done" =>
    LET calls == [i \in DOMAIN exchange.answer |-> exchange.answer[i].call]
        read == Merged(relayed)
    IN IF adapter # "st" THEN relayed = calls
       ELSE /\ \A field \in {"id", "name"}, i \in DOMAIN calls :
                 Tells(calls[i], field) /\ (\A j \in DOMAIN calls : Tells(calls[j], field) => j <= i)
                   => field \in DOMAIN read /\ read[field] = calls[i][field]
            /\ \A i \in DOMAIN relayed :
                 /\ "type" \in DOMAIN relayed[i] => relayed[i]["type"] # "function_call"
                 /\ "finish_reason" \in DOMAIN relayed[i] => relayed[i]["finish_reason"] # ""

(***************************************************************************)
(* The row counts what the upstream meant by the last usage it told, in    *)
(* whichever dialect: every input token once, in its column, so that the   *)
(* share read from the cache is a share of the whole prompt.               *)
(***************************************************************************)
UsageIsTruth ==
  LET last == SelectLastInSeq(exchange.answer, LAMBDA chunk : chunk.dialect # "none")
      n == exchange.answer[last].counts
  IN stage = "done" /\ last # 0 =>
       /\ row.usage.PromptTokens = n.input + n.read + n.write
       /\ row.usage.counts.CacheReadTokens = n.read
       /\ row.usage.counts.CacheWriteTokens = n.write
       /\ row.usage.counts.InputTokens = n.input
       /\ row.usage.OutputTokens = n.output
       /\ row.usage.ReasoningTokens = n.reasoning

(***************************************************************************)
(* The session the client is in is the one the upstream sees, in every     *)
(* header of the gateway's affinity and as prompt_cache_key, unless the    *)
(* client says otherwise itself; an OpenCode upstream always sees one, and *)
(* an invented one only if the client names none in any header that could. *)
(* (applySessionAffinity, resolveOpenCodeSessionID, injectPromptCacheKey.) *)
(***************************************************************************)
SessionSources == {"x-opencode-session", "x-grok-session-id", "x-grok-conv-id",
                   "x-session-id", "session_id", "x-client-request-id"}

SessionReachesUpstream ==
  Built =>
    LET gateway == exchange.gateway.headers
        session == grokSessionID(client)
        openCode == gateway.opencode \/ gateway.affinity = "opencode"
        own(name) == IF name \in client.names THEN {name} ELSE {}
    IN /\ session # None =>
            \A name \in affinityHeaders(gateway) :
              sent.headers[name] \in {session} \cup own(name)
       /\ openCode => sent.headers["x-opencode-session"] # None
       /\ sent.headers["x-opencode-session"] = FreshSession =>
            client.names \cap SessionSources = {}
       /\ session # None =>
            \A name \in SessionNames :
              sent.headers[name] \in {None, session} \cup own(name)
       /\ session # None /\ protocol = "responses" =>
            ItemsOf(after.members, "prompt_cache_key")
              = IF HasKey(before.members, "prompt_cache_key")
                  THEN ItemsOf(before.members, "prompt_cache_key") ELSE <<Item(session, {})>>

(***************************************************************************)
(* Whatever the client sends and the gateway's list allows: the transport  *)
(* alone negotiates encodings and connections (the answer could not be     *)
(* rewritten otherwise), an authorization or x-api-key header of the       *)
(* client's arrives as it was, an upstream that speaks Anthropic's         *)
(* protocol gets a bearer token also as x-api-key, no Anthropic header     *)
(* reaches another protocol, and the audit row shows every header as it    *)
(* was except the credentials, which it shows redacted if at all.          *)
(* (buildUpstreamHeaders, applyGrokHeaderTranslations, sanitizeHeaders.)   *)
(***************************************************************************)
HeadersSafe ==
  Built =>
    /\ \A name \in {"accept-encoding", "content-encoding", "content-length", "host",
                     "connection", "transfer-encoding"} : sent.headers[name] = None
    /\ \A name \in {"authorization", "x-api-key"} \cap client.names : sent.headers[name] = name
    /\ protocol = "anthropic" /\ client.bearer => sent.headers["x-api-key"] # None
    /\ protocol # "anthropic" => \A name \in AnthropicNames : sent.headers[name] = None
    /\ \A name \in Names :
         IF name \in {"authorization", "x-api-key", "cookie"}
           THEN {row.client[name], row.upstream[name]} \subseteq {None, Redacted}
           ELSE row.client[name] = Get(client, name) /\ row.upstream[name] = sent.headers[name]
===============================================================================
