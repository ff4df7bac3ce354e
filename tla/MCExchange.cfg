SPECIFICATION Spec
CONSTANT Exchanges <- AllExchanges
INVARIANT RewriteConforms
INVARIANT ToolHistoryClosed
INVARIANT ToolCallKeepsIdentity
INVARIANT UsageIsTruth
INVARIANT SessionReachesUpstream
INVARIANT HeadersSafe
CHECK_DEADLOCK FALSE
