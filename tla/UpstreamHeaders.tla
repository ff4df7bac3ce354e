----------------------------- MODULE UpstreamHeaders -----------------------------
(***************************************************************************)
(* The headers of the request that goes upstream                           *)
(* (internal/proxy/headers.go and buildUpstreamRequest). Constant-level.   *)
(*                                                                         *)
(* A header map is a function from names (in lower case, as names compare) *)
(* to where the value comes from: the client header it was copied from, or *)
(* one of Made below; None if the header is absent. Nothing depends on the *)
(* text of a value, except whether credentials are a bearer token.         *)
(***************************************************************************)
EXTENDS SequencesExt

None == ""

\* Values the program makes itself.
RequestID == "<the id of the audit row>"
FreshSession == "<sess- and a new id>"
BearerToken == "<the token of authorization>"
ClientVersion == "<identifier/version>"
DefaultAgent == "<the user agent of the client the proxy is for>"
Override == "<the user agent set for the gateway>"
Redacted == "[REDACTED]"

SessionNames == {"session_id", "x-client-request-id", "x-session-affinity", "x-session-id",
                 "x-opencode-session"}
AnthropicNames == {"anthropic-version", "anthropic-beta",
                   "anthropic-dangerous-direct-browser-access"}

\* Of the names in one table that are treated alike, one or two are kept.
hopByHopHeaders == {"connection", "transfer-encoding"}

\* Mutant of alwaysStripRequestHeaders: the client's encodings are passed on.
stripNoEncoding == {"content-length", "host"}

alwaysStripRequestHeaders == {"accept-encoding", "content-encoding", "content-length", "host"}

defaultForwardHeaders ==
  {"accept", "user-agent", "x-request-id", "x-correlation-id", "x-client-request-id",
   "x-session-id", "session_id", "x-opencode-session", "traceparent"}

Credentials == {"authorization", "x-api-key", "cookie"}

Names == SessionNames \cup AnthropicNames \cup defaultForwardHeaders \cup Credentials
           \cup {"connection", "transfer-encoding", "accept-encoding", "content-encoding",
                 "content-length", "host", "content-type", "x-grok-session-id",
                 "x-grok-conv-id", "x-grok-req-id", "x-grok-client-identifier",
                 "x-grok-client-version", "x-opencode-client"}

(***************************************************************************)
(* What a gateway's configuration says about headers; opencode stands for  *)
(* isOpenCodeBaseURL(BaseURL). An unknown affinity is the default.         *)
(***************************************************************************)
Protocols == {"responses", "chat_completions", "openai_compatible", "anthropic"}
GatewayHeaders == [protocol : Protocols,
                   affinity : {"openai", "openrouter", "opencode", "off"},
                   opencode : BOOLEAN,
                   forward : SUBSET Names,  \* empty for the default
                   override : BOOLEAN]

\* A client's request: the headers it has, one of them perhaps a bearer token.
ClientHeaders == [names : SUBSET Names, bearer : BOOLEAN, stream : BOOLEAN]
-------------------------------------------------------------------------------
Get(client, name) == IF name \in client.names THEN name ELSE None

\* The first of the headers listed that the client sent.
FirstOf(client, listed) ==
  LET i == SelectInSeq(listed, LAMBDA name : name \in client.names)
  IN IF i = 0 THEN None ELSE listed[i]

Default(dst, name, value) == IF dst[name] = None THEN [dst EXCEPT ![name] = value] ELSE dst

\* Mutant of copyForwardHeaders: an allowed header of the connection is copied.
copyAllowed(client, allowed) ==
  [name \in Names |-> IF name \in allowed THEN Get(client, name) ELSE None]

copyForwardHeaders(client, allowed) ==
  [name \in Names |->
     IF name \in allowed \ (hopByHopHeaders \cup alwaysStripRequestHeaders)
       THEN Get(client, name) ELSE None]

stripUnforwardableRequestHeaders(dst) ==
  [name \in Names |-> IF name \in alwaysStripRequestHeaders THEN None ELSE dst[name]]

grokSessionID(client) == FirstOf(client, <<"x-grok-session-id", "x-grok-conv-id">>)
-------------------------------------------------------------------------------
(***************************************************************************)
(* Session affinity.                                                       *)
(***************************************************************************)
affinityHeaders(gateway) ==
  CASE gateway.affinity = "openrouter" -> {"x-session-id"}
    [] gateway.affinity = "opencode" -> {"x-opencode-session"}
    [] gateway.affinity = "off" -> {}
    [] gateway.affinity = "openai" ->
         CASE gateway.protocol = "anthropic" -> {"x-session-affinity"}
           [] gateway.protocol \in {"chat_completions", "openai_compatible"} ->
                {"session_id", "x-client-request-id", "x-session-affinity"}
           [] gateway.protocol = "responses" -> {"session_id", "x-client-request-id"}

applySessionAffinity(dst, gateway, session) ==
  [name \in Names |->
     IF name \in affinityHeaders(gateway) /\ dst[name] = None THEN session ELSE dst[name]]

\* Mutant of resolveOpenCodeSessionID: the proxy's own id before the client's.
resolveFreshFirst(client) ==
  LET named == FirstOf(client, <<"x-opencode-session">>)
  IN IF named = None THEN FreshSession ELSE named

resolveOpenCodeSessionID(client) ==
  LET named == FirstOf(client, <<"x-opencode-session", "x-grok-session-id", "x-grok-conv-id",
                                 "x-session-id", "session_id", "x-client-request-id">>)
  IN IF named = None THEN FreshSession ELSE named

applyOpenCodeSession(dst, client) ==
  IF dst["x-opencode-session"] # None THEN dst
  ELSE Default(Default(dst, "x-opencode-session", resolveOpenCodeSessionID(client)),
               "x-opencode-client", Get(client, "x-grok-client-identifier"))

applySessions(dst, client, gateway) ==
  LET affine == applySessionAffinity(dst, gateway, grokSessionID(client))
  IN IF gateway.opencode \/ gateway.affinity = "opencode"
       THEN applyOpenCodeSession(affine, client)
       ELSE affine
-------------------------------------------------------------------------------
applyRequestIDs(dst, client) ==
  Default(Default(dst, "x-correlation-id", Get(client, "x-grok-req-id")),
          "x-request-id", RequestID)

\* Mutant of applyCredentials: the token is looked for before it was copied.
applyCredentialsEarly(dst, client, gateway) ==
  LET token == IF /\ gateway.protocol = "anthropic"
                  /\ dst["authorization"] # None /\ client.bearer
                 THEN BearerToken ELSE None
  IN Default(Default(Default(dst, "x-api-key", token),
                     "authorization", Get(client, "authorization")),
             "x-api-key", Get(client, "x-api-key"))

applyCredentials(dst, client, gateway) ==
  LET copied == Default(Default(dst, "authorization", Get(client, "authorization")),
                        "x-api-key", Get(client, "x-api-key"))
  IN IF gateway.protocol = "anthropic" /\ copied["authorization"] # None /\ client.bearer
       THEN Default(copied, "x-api-key", BearerToken)
       ELSE copied

applyUserAgent(dst, client) ==
  LET identifier == Get(client, "x-grok-client-identifier")
  IN Default(dst, "user-agent",
             IF "user-agent" \in client.names THEN "user-agent"
             ELSE IF identifier = None THEN DefaultAgent
             ELSE IF "x-grok-client-version" \in client.names THEN ClientVersion
             ELSE identifier)

applyAccept(dst, client, gateway) ==
  IF gateway.protocol = "anthropic"
    THEN [dst EXCEPT !["accept"] = "application/json"]
    ELSE Default(dst, "accept",
                 IF client.stream THEN "text/event-stream" ELSE "application/json")

\* Mutant of applyAnthropic: they are filled in, and for others left as they are.
applyAnthropicAlways(dst, client, gateway) ==
  IF gateway.protocol # "anthropic" THEN dst
  ELSE [name \in Names |->
          IF name \in AnthropicNames /\ dst[name] = None THEN Get(client, name) ELSE dst[name]]

applyAnthropic(dst, client, gateway) ==
  IF gateway.protocol # "anthropic"
    THEN [name \in Names |-> IF name \in AnthropicNames THEN None ELSE dst[name]]
    ELSE LET filled == [name \in Names |->
                          IF name \in AnthropicNames /\ dst[name] = None
                            THEN Get(client, name) ELSE dst[name]]
         IN Default(Default(filled, "anthropic-version", "2023-06-01"),
                    "anthropic-dangerous-direct-browser-access", "true")

applyGrokHeaderTranslations(dst, client, gateway) ==
  LET sessions == applySessions(dst, client, gateway)
      identified == applyCredentials(applyRequestIDs(sessions, client), client, gateway)
  IN applyAnthropic(applyAccept(applyUserAgent(identified, client), client, gateway),
                    client, gateway)

(***************************************************************************)
(* buildUpstreamHeaders and the writes that follow it.                     *)
(***************************************************************************)
buildUpstreamHeaders(client, gateway) ==
  LET allowed == IF gateway.forward = {} THEN defaultForwardHeaders ELSE gateway.forward
      built == stripUnforwardableRequestHeaders(
                 applyGrokHeaderTranslations(copyForwardHeaders(client, allowed),
                                             client, gateway))
  IN [built EXCEPT !["content-type"] = "application/json",
                   !["content-length"] = None,
                   !["user-agent"] = IF gateway.override THEN Override ELSE @]
-------------------------------------------------------------------------------
\* Mutant of SensitiveHeader: keys that are not bearer tokens are shown.
SensitiveAuthorization(name) == name \in {"authorization", "cookie"}

SensitiveHeader(name) == name \in Credentials

\* headersJSON: what the audit row keeps of headers.
sanitizeHeaders(headers) ==
  [name \in DOMAIN headers |->
     IF headers[name] # None /\ SensitiveHeader(name) THEN Redacted ELSE headers[name]]
===============================================================================
