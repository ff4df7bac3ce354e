------------------------------- MODULE LogStore -------------------------------
(***************************************************************************)
(* The log table and what is asked of it: the rows that finished requests  *)
(* leave (Insert), what takes them away (the retention, DELETE /api/logs), *)
(* and the calls of the console that need more than one look at the table  *)
(* (internal/store/storage.go, storage_timeseries.go, the log handlers of  *)
(* internal/web/app.go and parseFilter of web.go).                         *)
(*                                                                         *)
(* The store has one connection, so every statement is atomic, but nothing *)
(* keeps rows from coming and going between two statements of a call. One  *)
(* call is followed at a time: calls only read and do not meet.            *)
(*                                                                         *)
(* Time counts fractions of a second, PerSecond to the second: a row has   *)
(* the time its request arrived, with its fraction, and is stored when the *)
(* request has ended. No two requests arrive in the same nanosecond, so    *)
(* the time also names the row. Of the filter the search in the model's    *)
(* name is left out, of the sums all but one that counts every row and one *)
(* that counts the rows whose usage reports a cache.                       *)
(***************************************************************************)
EXTENDS Integers, FiniteSets, FiniteSetsExt

CONSTANTS Kinds,         \* what requests differ in but their time
          Filters,       \* filters that are asked for
          Limits,        \* values of ?limit= and ?buckets=, 0 for none given
          MaxTime,       \* bound on the clock
          PerSecond,     \* fractions of a second
          MaxRows,       \* bound on the rows in the table
          Retention,     \* log retention; 0 keeps rows for ever
          DefaultLimit,  \* rows of a page when no limit is given
          MaxLimit,      \* most rows of a page
          DefaultBuckets, MaxBuckets,
          Anything       \* no restriction to one gateway

Never == -1  \* a bound of a filter that is not given
Times == 0..MaxTime

ASSUME ConstantsAssumption ==
  /\ MaxTime \in Nat /\ PerSecond \in Nat \ {0} /\ Retention \in Nat
  /\ Limits \subseteq Nat /\ MaxLimit \in Nat /\ DefaultLimit \in 1..MaxLimit
  /\ MaxBuckets \in Nat /\ DefaultBuckets \in 1..MaxBuckets
  /\ \A k \in Kinds : /\ k.code \in Nat /\ k.tokens \in Nat
                      /\ k.success \in BOOLEAN /\ k.cached \in BOOLEAN
                      /\ k.gateway # Anything
  /\ \A f \in Filters : /\ DOMAIN f = {"gateway", "status", "from", "to"}
                        /\ {f.from, f.to} \subseteq Times \cup {Never}

VARIABLES rows,   \* table request_logs
          now,    \* the clock
          call,   \* the call under way, with what came and went since it began
          answer  \* what the last step answered, None if it answered nothing

vars == <<rows, now, call, answer>>

Rows == [started : Times, kind : Kinds]

None == [op |-> "none"]

\* new: the rows stored since the call began that are still there;
\* cut: rows were taken away since.
Idle == [op |-> "idle", new |-> {}, cut |-> FALSE]
-------------------------------------------------------------------------------
(***************************************************************************)
(* Filters and statements.                                                 *)
(***************************************************************************)
StatusMatches(status, r) ==
  \/ status.kind = "any"
  \/ status.kind = "success" /\ r.kind.success
  \/ status.kind = "failure" /\ ~r.kind.success
  \/ status.kind = "class" /\ r.kind.code \in status.n * 100..status.n * 100 + 99
  \/ status.kind = "code" /\ r.kind.code = status.n

\* buildLogFilter: a status that is none of these selects nothing.
Matches(f, r) == /\ f.gateway \in {r.kind.gateway, Anything}
                 /\ StatusMatches(f.status, r)
                 /\ f.from = Never \/ r.started >= f.from
                 /\ f.to = Never \/ r.started <= f.to

Select(f, S) == {r \in S : Matches(f, r)}

\* parseFilter: a limit that is no positive number counts as not given.
Limit(asked) == IF asked > 0 THEN Min({asked, MaxLimit}) ELSE DefaultLimit

Newer(r, S) == {x \in S : x.started > r.started}

\* Mutant of Page: the oldest rows first.
PageOldestFirst(f, S, limit, offset) ==
  LET T == Select(f, S)
  IN {r \in T : Cardinality({x \in T : x.started < r.started})
                  \in offset..offset + limit - 1}

\* List: ORDER BY started_at DESC LIMIT limit OFFSET offset.
Page(f, S, limit, offset) ==
  LET T == Select(f, S)
  IN {r \in T : Cardinality(Newer(r, T)) \in offset..offset + limit - 1}

\* RecentByGateway: ROW_NUMBER() OVER (PARTITION BY gateway_id ...) <= n.
RecentByGateway(f, S, n) ==
  LET T == Select(f, S)
      partition(r) == {x \in T : x.kind.gateway = r.kind.gateway}
      recent == {r \in T : Cardinality(Newer(r, partition(r))) + 1 <= n}
  IN [g \in {r.kind.gateway : r \in recent} |-> {r \in recent : r.kind.gateway = g}]

\* metricsAggregates.
Aggregate(T) == [requests |-> Cardinality(T),
                 successes |-> Cardinality({r \in T : r.kind.success}),
                 promptTokens |-> MapThenSumSet(LAMBDA r : r.kind.tokens, T),
                 cacheTokens |-> MapThenSumSet(LAMBDA r : r.kind.tokens,
                                               {r \in T : r.kind.cached})]

\* Mutant of metricsByGateway: the restrictions of the filter are lost.
metricsOfEverything(f, S) ==
  [g \in {r.kind.gateway : r \in S} |-> Aggregate({r \in S : r.kind.gateway = g})]

metricsByGateway(f, S) ==
  LET T == Select(f, S)
  IN [g \in {r.kind.gateway : r \in T} |-> Aggregate({r \in T : r.kind.gateway = g})]
-------------------------------------------------------------------------------
(***************************************************************************)
(* The store opens whatever an earlier run of the program left.            *)
(***************************************************************************)
Init == /\ now \in Times
        /\ \E T \in UNION {kSubset(n, 0..now) : n \in 0..MaxRows} :
             \E k \in [T -> Kinds] :
               rows = {[started |-> t, kind |-> k[t]] : t \in T}
        /\ call = Idle
        /\ answer = None

Tick == /\ now < MaxTime
        /\ now' = now + 1
        /\ answer' = None
        /\ UNCHANGED <<rows, call>>

(***************************************************************************)
(* A request that arrived now or earlier has ended and is stored.          *)
(***************************************************************************)
Insert(r) ==
  /\ Cardinality(rows) < MaxRows
  /\ r.started <= now
  /\ \A x \in rows : x.started # r.started
  /\ rows' = rows \cup {r}
  /\ call' = [call EXCEPT !.new = IF call = Idle THEN {} ELSE @ \cup {r}]
  /\ answer' = None
  /\ UNCHANGED now

\* Store.Delete; without a time it deletes everything.
Delete(before) ==
  LET kept == {r \in rows : before # Never /\ r.started >= before}
  IN /\ rows' = kept
     /\ call' = [call EXCEPT !.new = @ \cap kept,
                             !.cut = IF call = Idle \/ kept = rows THEN @ ELSE TRUE]
     /\ answer' = None
     /\ UNCHANGED now

PruneOlderThan == /\ Retention > 0
                  /\ Delete(now - Retention)

deleteLogs == \E before \in Times \cup {Never} : Delete(before)
-------------------------------------------------------------------------------
(***************************************************************************)
(* GET /api/logs, page after page: a page is listed, then the rows are     *)
(* counted, and the console offers the next page at the offset of what it  *)
(* has loaded as long as that is less than the count.                      *)
(***************************************************************************)
AskLogs(f, asked) ==
  /\ call = Idle
  /\ call' = [op |-> "walk", stage |-> "list", f |-> f, limit |-> Limit(asked),
              loaded |-> 0, seen |-> {}, new |-> {}, cut |-> FALSE]
  /\ answer' = None
  /\ UNCHANGED <<rows, now>>

ListPage ==
  /\ call.op = "walk" /\ call.stage = "list"
  /\ LET items == Page(call.f, rows, call.limit, call.loaded)
     IN call' = [call EXCEPT !.stage = "count", !.seen = @ \cup items,
                             !.loaded = @ + Cardinality(items)]
  /\ answer' = None
  /\ UNCHANGED <<rows, now>>

CountRows ==
  /\ call.op = "walk" /\ call.stage = "count"
  /\ LET total == Cardinality(Select(call.f, rows))
         more == call.loaded < total
     IN /\ answer' = [op |-> "logs", call |-> call, more |-> more]
        /\ \/ more /\ call' = [call EXCEPT !.stage = "list"]
           \/ call' = Idle
  /\ UNCHANGED <<rows, now>>

(***************************************************************************)
(* GET /api/metrics: the totals and, unless one gateway was asked for, the *)
(* same for every gateway. GET /api/pulse is one statement and leaves the  *)
(* gateway of the filter out.                                              *)
(***************************************************************************)
AskMetrics(f) ==
  /\ call = Idle
  /\ IF f.gateway # Anything
     THEN /\ answer' = [op |-> "metrics", f |-> f, total |-> Aggregate(Select(f, rows)),
                        byGateway |-> <<>>, cut |-> FALSE, new |-> {}]
          /\ UNCHANGED call
     ELSE /\ call' = [op |-> "metrics", f |-> f, total |-> Aggregate(Select(f, rows)),
                      new |-> {}, cut |-> FALSE]
          /\ answer' = None
  /\ UNCHANGED <<rows, now>>

GroupMetrics ==
  /\ call.op = "metrics"
  /\ answer' = [op |-> "metrics", f |-> call.f, total |-> call.total,
                byGateway |-> metricsByGateway(call.f, rows),
                cut |-> call.cut, new |-> call.new]
  /\ call' = Idle
  /\ UNCHANGED <<rows, now>>

AskPulse(f, asked) ==
  LET g == [f EXCEPT !.gateway = Anything]
  IN /\ call = Idle
     /\ answer' = [op |-> "pulse", f |-> g, n |-> Limit(asked),
                   recent |-> RecentByGateway(g, rows, Limit(asked))]
     /\ UNCHANGED <<rows, now, call>>

(***************************************************************************)
(* GET /api/metrics/timeseries.                                            *)
(***************************************************************************)
Buckets(asked) == IF asked > 0 THEN Min({asked, MaxBuckets}) ELSE DefaultBuckets

Second(t) == t \div PerSecond
NextSecond(t) == ((t + PerSecond - 1) \div PerSecond) * PerSecond

\* The end is the last bound or now, rounded up to a second; the beginning
\* is the filter's or has to be looked up.
AskTimeSeries(f, asked) ==
  /\ call = Idle
  /\ LET to == NextSecond(IF f.to # Never /\ f.to < now THEN f.to ELSE now)
     IN call' = [op |-> "series", f |-> f, n |-> Buckets(asked), to |-> to,
                 from |-> IF f.from = Never THEN Never ELSE Min({f.from, to}),
                 new |-> {}, cut |-> FALSE]
  /\ answer' = None
  /\ UNCHANGED <<rows, now>>

EarliestRow ==
  /\ call.op = "series" /\ call.from = Never
  /\ call' = [call EXCEPT !.from =
                Min({call.to} \cup {r.started : r \in rows})]
  /\ answer' = None
  /\ UNCHANGED <<rows, now>>

\* Mutants: the number of whole seconds is divided without rounding up; the
\* first bucket begins with the window instead of at a multiple of the step.
StepDown(seconds, n) == Max({1, seconds \div n})
FirstUnaligned(from, step) == Second(from)

Step(seconds, n) == Max({1, (seconds + n - 1) \div n})
First(from, step) == Second(from) - (Second(from) % step)

GroupTimeSeries ==
  /\ call.op = "series" /\ call.from # Never
  /\ LET step == Step((call.to - call.from) \div PerSecond, call.n)
         first == First(call.from, step)
         group(e) == {r \in Select(call.f, rows) :
                        (Second(r.started) \div step) * step = e}
         listed == {e \in first..Second(call.to) - 1 : (e - first) % step = 0}
     IN answer' = [op |-> "series", f |-> call.f, n |-> call.n, to |-> call.to,
                   step |-> step, new |-> call.new,
                   buckets |-> [e \in listed |-> Aggregate(group(e))]]
  /\ call' = Idle
  /\ UNCHANGED <<rows, now>>
-------------------------------------------------------------------------------
Ask == \E f \in Filters : \/ AskMetrics(f)
                          \/ \E asked \in Limits : \/ AskLogs(f, asked)
                                                   \/ AskPulse(f, asked)
                                                   \/ AskTimeSeries(f, asked)

Next == \/ Tick
        \/ \E r \in Rows : Insert(r)
        \/ PruneOlderThan
        \/ deleteLogs
        \/ Ask
        \/ ListPage
        \/ CountRows
        \/ GroupMetrics
        \/ EarliestRow
        \/ GroupTimeSeries

Spec == Init /\ [][Next]_vars
-------------------------------------------------------------------------------
(***************************************************************************)
(* Type invariant; the times of rows are distinct and past.                *)
(***************************************************************************)
Walks == [op : {"walk"}, stage : {"list", "count"}, f : Filters,
          limit : 1..MaxLimit, loaded : Nat, seen : SUBSET Rows,
          new : SUBSET Rows, cut : BOOLEAN]

Sums == {Aggregate(T) : T \in SUBSET Rows}

Totals == [op : {"metrics"}, f : Filters, total : Sums,
           new : SUBSET Rows, cut : BOOLEAN]

Charts == [op : {"series"}, f : Filters, n : 1..MaxBuckets, to : Nat,
           from : Nat \cup {Never}, new : SUBSET Rows, cut : BOOLEAN]

TypeOK == /\ now \in Times
          /\ rows \subseteq Rows
          /\ \A r \in rows : r.started <= now
          /\ \A r, x \in rows : r.started = x.started => r = x
          /\ call \in Walks \cup Totals \cup Charts \cup {Idle}
          /\ call.new \subseteq rows

(***************************************************************************)
(* Someone who loads page after page until the console says that all is    *)
(* shown has seen every matching row that was there all the while,         *)
(* although pages are counted off by an offset and rows came and went      *)
(* between the pages and between a page and its count: new rows and the    *)
(* deletion of old ones both leave what has not been shown yet behind the  *)
(* offset (storage.go:188-191, app.go:474-485, logs.js:134-199).           *)
(***************************************************************************)
WalkMissesNothing ==
  answer.op = "logs" /\ ~answer.more =>
    Select(answer.call.f, rows \ answer.call.new) \subseteq answer.call.seen

(***************************************************************************)
(* The chart accounts for every request (storage_timeseries_test.go:90):   *)
(* each selected row is counted in the one listed bucket that covers its   *)
(* second, and there is at most one bucket more than was asked for. Left   *)
(* out are only a row that arrived exactly at the end of the window when a *)
(* bucket would begin there, and rows stored while the call was under way  *)
(* (storage_timeseries.go:44-69, 81-92, 113-121).                          *)
(***************************************************************************)
Covers(e, r) == Second(r.started) \in e..e + answer.step - 1

LeftOut(r) == \/ r \in answer.new
              \/ r.started = answer.to /\ Second(answer.to) % answer.step = 0

SeriesCountsEveryRow ==
  answer.op = "series" =>
    LET selected == Select(answer.f, rows)
        shown == DOMAIN answer.buckets
    IN /\ \A r \in selected : LeftOut(r) \/ \E e \in shown : Covers(e, r)
       /\ \A e \in shown :
            answer.buckets[e] = Aggregate({r \in selected : Covers(e, r)})
       /\ Cardinality(shown) <= answer.n + 1

SumOfParts(part, field) == MapThenSumSet(LAMBDA g : part[g][field], DOMAIN part)

(***************************************************************************)
(* What is shown of one gateway among all is what the same question about  *)
(* that gateway alone would show, and the parts add up to the totals       *)
(* unless rows came or went between the two statements (storage.go:        *)
(* 194-220, 249-272, 316-351).                                             *)
(***************************************************************************)
GatewayViewsAgree ==
  /\ answer.op = "metrics" /\ answer.f.gateway = Anything =>
       LET part == answer.byGateway
       IN /\ \A g \in DOMAIN part :
               part[g] = Aggregate(Select([answer.f EXCEPT !.gateway = g], rows))
          /\ answer.new = {} /\ ~answer.cut =>
               \A field \in DOMAIN answer.total :
                 answer.total[field] = SumOfParts(part, field)
  /\ answer.op = "pulse" =>
       \A g \in {k.gateway : k \in Kinds} :
         Page([answer.f EXCEPT !.gateway = g], rows, answer.n, 0)
           = IF g \in DOMAIN answer.recent THEN answer.recent[g] ELSE {}
===============================================================================
