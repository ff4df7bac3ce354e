------------------------------- MODULE BodyRewrite -------------------------------
(***************************************************************************)
(* What the adapters do to a request document on its way up and to an      *)
(* answer on its way down (internal/proxy/adapter*.go, jsonrewrite.go,     *)
(* responsesanitize.go). Constant-level.                                   *)
(*                                                                         *)
(* A document is the sequence of its top-level members and, for the chat   *)
(* protocols, of its messages. A key may occur twice: whoever parses the   *)
(* document takes the last occurrence, and so do the adapters. Left out    *)
(* are the byte scanner (separators, white space, escapes), the quick      *)
(* searches for a key that only save a parse, and the order of the keys of *)
(* a document that is written anew.                                        *)
(***************************************************************************)
EXTENDS SequencesExt

\* The type of an entry of a list that is not of the expected shape.
Unreadable == "<unreadable>"

\* An entry of a list: its type, and those of its fields that matter.
Item(type, fields) == [type |-> type, fields |-> fields]

\* A field that is a number a float64 does not hold (an integer above 2^53,
\* say), and what is left of it when it has been one.
Precise == "<precise number>"
Rounded == "<rounded number>"

\* A value that is not of the expected shape as a whole (an include list with
\* something else than strings in it, for one).
Scalar == <<Item("<scalar>", {})>>

\* The entries of a list at some positions, in order. (SelectSeq, of which
\* nothing can be proved, since it is recursive.)
Nth(positions, n) == CHOOSE i \in positions : Cardinality({j \in positions : j <= i}) = n
Kept(list, positions) == [n \in 1 .. Cardinality(positions) |-> list[Nth(positions, n)]]

\* A member of a document. The value of reasoning is its effort, as one item.
Member(key, items) == [key |-> key, items |-> items]

HasKey(members, key) == \E member \in Range(members) : member.key = key

\* The value a parser sees. (Of no use for a key that does not occur.)
LastValue(members, key) ==
  members[SelectLastInSeq(members, LAMBDA member : member.key = key)]

(***************************************************************************)
(* applyTopLevelMemberEdits: every occurrence of an edited key is deleted  *)
(* or gets the new value, everything else is left as it is. edits maps     *)
(* keys to new values; an empty value means that the member is deleted.    *)
(***************************************************************************)
\* Mutant of applyTopLevelMemberEdits: only the first occurrence is edited.
editFirst(members, edits) ==
  LET first(key) == SelectInSeq(members, LAMBDA member : member.key = key)
      edited == [i \in DOMAIN members |->
                   IF members[i].key \in DOMAIN edits /\ first(members[i].key) = i
                     THEN Member(members[i].key, edits[members[i].key]) ELSE members[i]]
  IN Kept(edited, {i \in DOMAIN edited :
                     ~ (edited[i].key \in DOMAIN edits /\ edited[i].items = <<>>)})

applyTopLevelMemberEdits(members, edits) ==
  LET deleted(key) == key \in DOMAIN edits /\ edits[key] = <<>>
      kept == Kept(members, {i \in DOMAIN members : ~ deleted(members[i].key)})
  IN [i \in DOMAIN kept |-> IF kept[i].key \in DOMAIN edits
                              THEN Member(kept[i].key, edits[kept[i].key]) ELSE kept[i]]

\* The items of key, or <<>> if it does not occur.
ItemsOf(members, key) ==
  IF HasKey(members, key) THEN LastValue(members, key).items ELSE <<>>

\* A value that is not of the expected shape is not touched.
CleanedOf(members, key, Clean(_)) ==
  LET items == ItemsOf(members, key)
  IN IF items = Scalar THEN items ELSE Clean(items)

(***************************************************************************)
(* The edits an adapter asks for: the keys in gone are deleted, the others *)
(* get the value that cleaned has for them, if that is a change.           *)
(***************************************************************************)
EditsOf(members, gone, cleaned) ==
  [key \in {k \in gone \cup DOMAIN cleaned :
              HasKey(members, k) /\ (k \in gone \/ cleaned[k] # ItemsOf(members, k))}
     |-> IF key \in gone THEN <<>> ELSE cleaned[key]]
-------------------------------------------------------------------------------
(***************************************************************************)
(* The Responses protocol. One type stands for the types that are not      *)
(* standard, and a few for those that are. The field "excluded_domains" of *)
(* a tool is a list of domains with something in it: an empty list is left *)
(* alone, like that of a tool of another type, and is another field.       *)
(***************************************************************************)
standardResponsesToolTypes == {"function", "web_search", "web_search_preview"}

standardResponsesIncludeValues == {"reasoning.encrypted_content", "web_search_call.results"}

renameExcludedDomains(entry) ==
  [entry EXCEPT !.fields = (@ \ {"excluded_domains"}) \cup {"blocked_domains"}]

\* Mutant of sanitizeResponsesTools: the domains to exclude are not translated.
keepExcludedDomains(items) ==
  Kept(items, {i \in DOMAIN items : items[i].type \in standardResponsesToolTypes \cup {Unreadable}})

sanitizeResponsesTools(items) ==
  LET kept == Kept(items, {i \in DOMAIN items :
                             items[i].type \in standardResponsesToolTypes \cup {Unreadable}})
  IN [i \in DOMAIN kept |->
        IF kept[i].type = "web_search" /\ "excluded_domains" \in kept[i].fields
          THEN renameExcludedDomains(kept[i]) ELSE kept[i]]

sanitizeResponsesInclude(items) ==
  Kept(items, {i \in DOMAIN items : items[i].type \in standardResponsesIncludeValues})

sanitizeResponsesRequest(members) ==
  applyTopLevelMemberEdits(members,
    EditsOf(members, {"stream_tool_calls"},
            [tools |-> CleanedOf(members, "tools", sanitizeResponsesTools),
             include |-> CleanedOf(members, "include", sanitizeResponsesInclude)]))

mapDeepSeekReasoningEffort(items) ==
  [i \in DOMAIN items |-> IF items[i].type = "minimal"
                            THEN [items[i] EXCEPT !.type = "low"] ELSE items[i]]

stripUnsupportedReasoningFields(items) ==
  [i \in DOMAIN items |->
     IF items[i].type = "reasoning"
       THEN [items[i] EXCEPT !.fields = @ \ {"summary", "encrypted_content"}] ELSE items[i]]

adaptResponsesRequestForDeepSeek(members) ==
  applyTopLevelMemberEdits(members,
    EditsOf(members, {"include"},
            [reasoning |-> CleanedOf(members, "reasoning", mapDeepSeekReasoningEffort),
             input |-> CleanedOf(members, "input", stripUnsupportedReasoningFields)]))

\* Mutant of insertTopLevelJSONMember: a value of the client's is overruled.
overruleJSONMember(members, key, items) == Append(members, Member(key, items))

insertTopLevelJSONMember(members, key, items) ==
  IF HasKey(members, key) THEN members ELSE Append(members, Member(key, items))

\* The session (of at most 64 characters; longer ones are cut) is added to a
\* document that does not say itself where to look for its prompt.
injectPromptCacheKey(members, session) ==
  IF session = "" THEN members
  ELSE insertTopLevelJSONMember(members, "prompt_cache_key", <<Item(session, {})>>)
-------------------------------------------------------------------------------
(***************************************************************************)
(* Anthropic: tools without a name are dropped. A document that is changed *)
(* is written anew from a map, so that a key occurs once, and every number *)
(* in it, wherever it stands, has been a float64.                          *)
(***************************************************************************)
rounded(items) ==
  [i \in DOMAIN items |->
     IF Precise \in items[i].fields
       THEN [items[i] EXCEPT !.fields = (@ \ {Precise}) \cup {Rounded}] ELSE items[i]]

\* Mutant of remarshal: of a key that occurs twice the first value is written.
remarshalFirst(members) ==
  LET kept == Kept(members, {i \in DOMAIN members :
                               \A j \in DOMAIN members : members[j].key = members[i].key => i <= j})
  IN [i \in DOMAIN kept |-> Member(kept[i].key, rounded(kept[i].items))]

remarshal(members) ==
  LET kept == Kept(members, {i \in DOMAIN members :
                               \A j \in DOMAIN members : members[j].key = members[i].key => j <= i})
  IN [i \in DOMAIN kept |-> Member(kept[i].key, rounded(kept[i].items))]

dropUnnamedTools(items) ==
  Kept(items, {i \in DOMAIN items : "name" \in items[i].fields \/ items[i].type = Unreadable})

sanitizeAnthropicRequest(members) ==
  LET tools == ItemsOf(members, "tools")
      named == CleanedOf(members, "tools", dropUnnamedTools)
      again == remarshal(members)
  IN IF ~ HasKey(members, "messages") \/ named = tools THEN members
     ELSE [i \in DOMAIN again |-> IF again[i].key = "tools" THEN Member("tools", rounded(named))
                                  ELSE again[i]]
-------------------------------------------------------------------------------
(***************************************************************************)
(* The chat protocols. A message has the tool calls it makes and, if it is *)
(* the answer of a tool, the identifier of the call it answers. A call is  *)
(* whole if it has a function with a name and arguments. "" is an          *)
(* identifier that is missing or blank.                                    *)
(***************************************************************************)
Message(role, calls, answers) == [role |-> role, calls |-> calls, answers |-> answers]
ToolCall(id, whole, type) == [id |-> id, whole |-> whole, type |-> type]

transformToolCallType(messages, from, to) ==
  [i \in DOMAIN messages |->
     [messages[i] EXCEPT !.calls =
        [j \in DOMAIN @ |-> IF @[j].type = from THEN [@[j] EXCEPT !.type = to] ELSE @[j]]]]

validSenseNovaToolCall(call) == call.id # "" /\ call.whole
keepValidCalls(calls) == Kept(calls, {i \in DOMAIN calls : validSenseNovaToolCall(calls[i])})

\* Mutant of sanitizeSenseNovaToolCallHistory: a call is known before it is checked.
knowEveryCall(messages) ==
  LET filtered == [i \in DOMAIN messages |->
                     [messages[i] EXCEPT !.calls = keepValidCalls(@)]]
      callIDs == {call.id : call \in UNION {Range(messages[i].calls) : i \in DOMAIN messages}}
  IN Kept(filtered, {i \in DOMAIN filtered :
                       filtered[i].role = "tool" => filtered[i].answers \in callIDs})

sanitizeSenseNovaToolCallHistory(messages) ==
  LET filtered == [i \in DOMAIN messages |->
                     [messages[i] EXCEPT !.calls = keepValidCalls(@)]]
      validCallIDs == {call.id : call \in UNION {Range(filtered[i].calls) : i \in DOMAIN filtered}}
  IN Kept(filtered, {i \in DOMAIN filtered :
                       filtered[i].role = "tool" => filtered[i].answers \in validCallIDs})

(***************************************************************************)
(* A chunk of SenseNova's answer: a function from the fields of one tool   *)
(* call (and finish_reason) that the chunk has to their values. An answer  *)
(* that is not streamed is one chunk.                                      *)
(***************************************************************************)
transformSenseNovaResponseBody(chunk) ==
  [field \in DOMAIN chunk |->
     IF field = "type" /\ chunk[field] = "function_call" THEN "function"
     ELSE IF field = "finish_reason" /\ chunk[field] = "" THEN "null"
     ELSE chunk[field]]

\* Mutant of stripEmptySenseNovaToolCallDeltaFields: an empty name is passed on.
stripEmptyID(chunk) ==
  Restrict(chunk, {field \in DOMAIN chunk : ~ (field = "id" /\ chunk[field] = "")})

stripEmptySenseNovaToolCallDeltaFields(chunk) ==
  Restrict(chunk, {field \in DOMAIN chunk : ~ (field \in {"id", "name"} /\ chunk[field] = "")})

transformSenseNovaPayload(chunk) ==
  stripEmptySenseNovaToolCallDeltaFields(transformSenseNovaResponseBody(chunk))
-------------------------------------------------------------------------------
(***************************************************************************)
(* The adapters, by the identifier of the built-in gateway.                *)
(***************************************************************************)
TransformRequestBody(adapter, document) ==
  CASE adapter = "std" ->
         [document EXCEPT !.members = sanitizeResponsesRequest(@)]
    [] adapter = "ds" ->
         [document EXCEPT !.members =
            adaptResponsesRequestForDeepSeek(sanitizeResponsesRequest(@))]
    [] adapter = "anth" ->
         [document EXCEPT !.members = sanitizeAnthropicRequest(@)]
    [] adapter = "st" ->
         [document EXCEPT !.messages =
            sanitizeSenseNovaToolCallHistory(
              transformToolCallType(@, "function", "function_call"))]
    [] adapter = "oaic" ->
         [document EXCEPT !.messages = sanitizeSenseNovaToolCallHistory(@)]

\* TransformResponseBody and, of a stream, TransformSSE. (What the filter of
\* the Responses adapters does to a stream is the module SSEFilter.)
TransformChunk(adapter, stream, chunk) ==
  IF adapter # "st" THEN chunk
  ELSE IF stream THEN transformSenseNovaPayload(chunk)
  ELSE transformSenseNovaResponseBody(chunk)
===============================================================================
