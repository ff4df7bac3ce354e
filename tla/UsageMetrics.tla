------------------------------ MODULE UsageMetrics ------------------------------
(***************************************************************************)
(* How the token counts of an audit row are computed from the usage an     *)
(* upstream reports (internal/proxy/usage.go, extractUsageFromRoot).       *)
(* Constant-level.                                                         *)
(*                                                                         *)
(* A usage object is a function from its keys to numbers; the key of a     *)
(* number in a nested object is the pair of the two keys, as "outer.key".  *)
(* int64 and the truncation of fractions are left out.                     *)
(***************************************************************************)
EXTENDS SequencesExt

\* firstNumberOK and firstNumber: the value of the first of the keys there is.
Given(usage, keys) == \E i \in DOMAIN keys : keys[i] \in DOMAIN usage

firstNumber(usage, keys) ==
  LET i == SelectInSeq(keys, LAMBDA key : key \in DOMAIN usage)
  IN IF i = 0 THEN 0 ELSE usage[keys[i]]

\* max(0, total - hit - write)
Less(total, hit, write) == IF total > hit + write THEN total - (hit + write) ELSE 0

Metrics(input, read, write, supported) ==
  [InputTokens |-> input, CacheReadTokens |-> read, CacheWriteTokens |-> write,
   CacheSupported |-> supported]

hitKeys == <<"prompt_cache_hit_tokens", "cache_read_input_tokens", "cache_read_tokens",
             "prompt_tokens_details.cached_tokens", "prompt_tokens_details.cache_read_tokens">>
missKeys == <<"prompt_cache_miss_tokens", "input_tokens", "uncached_input_tokens">>

\* Mutant of extractChatUsage: the tokens from the cache are counted as input too.
chatCountsTwice(usage) ==
  LET hit == firstNumber(usage, hitKeys)
  IN Metrics(firstNumber(usage, <<"prompt_tokens">>), hit, 0, hit > 0)

extractChatUsage(usage) ==
  LET hit == firstNumber(usage, hitKeys)
      write == firstNumber(usage, <<"cache_write_input_tokens", "cache_write_tokens",
                                    "prompt_tokens_details.cache_write_tokens">>)
      total == firstNumber(usage, <<"prompt_tokens">>)
  IN IF Given(usage, hitKeys) /\ Given(usage, missKeys)
       THEN Metrics(firstNumber(usage, missKeys), hit, write, TRUE)
     ELSE IF Given(usage, hitKeys) /\ Given(usage, <<"prompt_tokens">>)
       THEN Metrics(Less(total, hit, write), hit, write, TRUE)
     ELSE Metrics(total, 0, 0, FALSE)

extractAnthropicUsage(usage) ==
  LET totals == <<"input_tokens", "prompt_tokens">>
      hits == <<"cache_read_input_tokens", "cache_read_tokens", "cached_tokens">>
      writes == <<"cache_creation_input_tokens", "cache_write_tokens">>
  IN Metrics(firstNumber(usage, totals), firstNumber(usage, hits), firstNumber(usage, writes),
             Given(usage, totals) /\ (Given(usage, hits) \/ Given(usage, writes)))

extractResponsesUsage(usage) ==
  LET totals == <<"input_tokens", "prompt_tokens">>
      hits == <<"cache_read_input_tokens", "cache_read_tokens",
                "input_tokens_details.cached_tokens", "input_tokens_details.cache_read_tokens">>
      total == firstNumber(usage, totals)
      hit == firstNumber(usage, hits)
      write == firstNumber(usage, <<"cache_write_input_tokens", "cache_write_tokens",
                                    "input_tokens_details.cache_write_tokens">>)
      both == Given(usage, totals) /\ Given(usage, hits)
  IN Metrics(IF both THEN Less(total, hit, write) ELSE total, hit, write, both)

\* The first that is not 0 of the three places of the reasoning tokens.
reasoningTokens(usage) ==
  LET places == <<"output_tokens_details.reasoning_tokens", "reasoning_tokens",
                  "completion_tokens_details.reasoning_tokens">>
      i == SelectInSeq(places, LAMBDA key : key \in DOMAIN usage /\ usage[key] # 0)
  IN IF i = 0 THEN 0 ELSE usage[places[i]]

(***************************************************************************)
(* extractUsageFromRoot. An event has a usage object of its own, or one in *)
(* its response object, which is preferred; <<>> is the one it has not.    *)
(***************************************************************************)
extractUsageFromRoot(event, protocol) ==
  LET usage == IF event.response # <<>> THEN event.response ELSE event.usage
      counts == CASE protocol \in {"chat_completions", "openai_compatible"} ->
                       extractChatUsage(usage)
                  [] protocol = "anthropic" -> extractAnthropicUsage(usage)
                  [] protocol = "responses" -> extractResponsesUsage(usage)
      prompt == counts.InputTokens + counts.CacheReadTokens + counts.CacheWriteTokens
  IN [counts |-> counts,
      OutputTokens |-> firstNumber(usage, <<"output_tokens", "completion_tokens">>),
      ReasoningTokens |-> reasoningTokens(usage),
      PromptTokens |-> IF prompt # 0 THEN prompt
                       ELSE firstNumber(usage, <<"prompt_tokens", "input_tokens">>)]
===============================================================================
