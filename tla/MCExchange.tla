------------------------------- MODULE MCExchange -------------------------------
(***************************************************************************)
(* Exchanges for TLC, in four slices: headers, documents, histories and    *)
(* answers vary one at a time, since none of them depends on another.      *)
(***************************************************************************)
EXTENDS Exchange

Lists(S, n) == UNION {[1 .. k -> S] : k \in 0 .. n}

protocolOf == [std |-> "responses", ds |-> "responses", st |-> "chat_completions",
               oaic |-> "openai_compatible", anth |-> "anthropic"]
Adapters == DOMAIN protocolOf

Gateways(adapters, affinities, openCodes, forwards) ==
  {[adapter |-> a,
    headers |-> [protocol |-> protocolOf[a], affinity |-> affinity, opencode |-> oc,
                 forward |-> forward, override |-> oc]] :
     a \in adapters, affinity \in affinities, oc \in openCodes, forward \in forwards}

PlainGateways(adapters) == Gateways(adapters, {"openai"}, {FALSE}, {{}})

PlainClient(stream) == [names |-> {"authorization"}, bearer |-> TRUE, stream |-> stream]
PlainDocument == [members |-> <<Member("model", <<Item("m", {})>>), Member("messages", Scalar)>>,
                  messages |-> <<Message("user", <<>>, "")>>]
Chunk(call, dialect, counts) == [call |-> call, dialect |-> dialect, counts |-> counts]
Counts(i, r, w, o, t) == [input |-> i, read |-> r, write |-> w, output |-> o, reasoning |-> t]
Silent(call) == Chunk(call, "none", Counts(0, 0, 0, 0, 0))
PlainAnswer == <<Silent([finish_reason |-> "stop"])>>

Exchanging(gateways, clients, documents, answers) ==
  [gateway : gateways, client : clients, document : documents, answer : answers]
-------------------------------------------------------------------------------
\* Headers: sessions of the client's, credentials, and all the rest or nothing.
Sessions == SUBSET {"x-grok-session-id", "x-grok-conv-id", "session_id", "x-opencode-session"}
              \cup {{"x-session-id"}, {"x-client-request-id"},
                    {"x-grok-conv-id", "x-session-id", "x-client-request-id"}}
Keyrings == {{}, {"authorization"}, {"authorization", "x-api-key"}, {"x-api-key"}}
Rest == Names \ (UNION Sessions \cup UNION Keyrings)
OddForwards == {{}, {"accept-encoding", "connection", "cookie", "authorization", "session_id",
                     "anthropic-beta"}}

HeaderExchanges ==
  Exchanging(
    Gateways(Adapters, {"openai", "openrouter", "opencode", "off"}, BOOLEAN, OddForwards),
    {c \in [names : {s \cup k \cup r : s \in Sessions, k \in Keyrings, r \in {{}, Rest}},
            bearer : BOOLEAN, stream : {TRUE}] : c.bearer => "authorization" \in c.names},
    {PlainDocument}, {PlainAnswer})
-------------------------------------------------------------------------------
\* Documents: any two members, and three of the most different ones.
Tools == {Item("function", {"name"}), Item("grok_tool", {}), Item(Unreadable, {}),
          Item("web_search", {"name", "excluded_domains"}),
          Item("web_search", {"name", "empty excluded_domains"}),
          Item("web_search_preview", {"excluded_domains"})}
Includes == {Item("reasoning.encrypted_content", {}), Item("grok_include", {})}
Inputs == {Item("message", {}), Item("reasoning", {"summary", "encrypted_content"})}

ToolMembers == {Member("tools", items) : items \in Lists(Tools, 2) \cup {Scalar}}
OtherMembers ==
  {Member("include", items) : items \in Lists(Includes, 2) \cup {Scalar}}
    \cup {Member("input", items) : items \in Lists(Inputs, 2) \cup {Scalar}}
    \cup {Member("reasoning", items) : items \in {<<Item("minimal", {})>>, <<Item("high", {})>>, Scalar}}
    \cup {Member(key, <<Item("v", {})>>) :
            key \in {"stream_tool_calls", "messages", "prompt_cache_key", "model"}}
    \cup {Member("seed", <<Item("v", {Precise})>>),
          Member("tools", <<Item("function", {"name", Precise}), Item("grok_tool", {})>>)}
FewMembers ==
  {Member("tools", <<Item("grok_tool", {})>>), Member("tools", <<Item("function", {"name"})>>),
   Member("include", <<Item("grok_include", {})>>), Member("messages", Scalar),
   Member("stream_tool_calls", Scalar), Member("seed", <<Item("v", {Precise})>>)}

Documents == Lists(ToolMembers \cup OtherMembers, 2) \cup Lists(FewMembers, 3)

\* (A request to Anthropic has messages.)
DocumentExchanges ==
  UNION {Exchanging(
           PlainGateways({id}),
           {[names |-> {"x-grok-session-id"}, bearer |-> FALSE, stream |-> FALSE]},
           {[members |-> IF id = "anth" THEN <<Member("messages", Scalar)>> \o m ELSE m,
             messages |-> <<>>] : m \in Documents},
           {PlainAnswer}) : id \in {"std", "ds", "anth"}}
-------------------------------------------------------------------------------
\* Histories of two messages with any calls, and of three with one each.
Calls == {ToolCall("c1", TRUE, "function"), ToolCall("c1", FALSE, "function"),
          ToolCall("", TRUE, "function"), ToolCall("c2", TRUE, "custom")}
Says(n) == {Message("assistant", calls, "") : calls \in Lists(Calls, n)}
Answers == {Message("tool", <<>>, id) : id \in {"", "c1", "c2"}}

HistoryExchanges ==
  Exchanging(PlainGateways({"st", "oaic"}), {PlainClient(FALSE)},
             {[members |-> <<>>, messages |-> m] :
                m \in Lists(Says(2) \cup Answers \cup {Message("user", <<>>, "")}, 2)
                        \cup Lists(Says(1) \cup Answers, 3)},
             {PlainAnswer})
-------------------------------------------------------------------------------
\* Answers: the chunks of one tool call, and what each dialect can tell.
\* (A field that is "-" is absent.)
CallChunks ==
  {Restrict(call, {field \in DOMAIN call : call[field] # "-"}) :
     call \in [id : {"-", "", "c1"}, name : {"-", "", "f"}, type : {"-", "function_call"},
               finish_reason : {"-", ""}]}

CallExchanges ==
  Exchanging(PlainGateways({"st", "oaic"}), {PlainClient(TRUE)}, {PlainDocument},
             {[i \in DOMAIN calls |-> Silent(calls[i])] : calls \in Lists(CallChunks, 2)})
    \cup Exchanging(PlainGateways({"st"}), {PlainClient(FALSE)}, {PlainDocument},
                    {<<Silent(call)>> : call \in {c \in CallChunks :
                       \A field \in {"id", "name"} \cap DOMAIN c : c[field] # ""}})

Numbers == {c \in [input : 0 .. 2, read : 0 .. 2, write : 0 .. 1, output : 0 .. 1, reasoning : 0 .. 1] :
              c.reasoning <= c.output}
Telling(dialect) == {Chunk(<<>>, dialect, n) : n \in {c \in Numbers : c \in Tellable(dialect)}}

Dialects == {<<"st", "chat_hit_miss">>, <<"st", "chat_plain">>, <<"oaic", "chat_details">>,
             <<"std", "responses_details">>, <<"ds", "responses_plain">>, <<"anth", "anthropic">>}

UsageExchanges ==
  UNION {Exchanging(PlainGateways({d[1]}), {PlainClient(TRUE)}, {PlainDocument},
                    {<<first, Silent(<<>>), last>> :
                       first \in {Silent(<<>>), Chunk(<<>>, d[2], Counts(0, 0, 0, 0, 0)),
                                 Chunk(<<>>, d[2], Counts(1, 0, 0, 1, 0))},
                       last \in Telling(d[2])}) : d \in Dialects}
-------------------------------------------------------------------------------
AllExchanges == HeaderExchanges \cup DocumentExchanges \cup HistoryExchanges
                  \cup CallExchanges \cup UsageExchanges
===============================================================================
