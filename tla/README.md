# Verification of grok-gateway-proxy

The program is a local gateway for large-language-model clients: it accepts
OpenAI-, Anthropic- and Responses-style requests on one port, forwards each to
the upstream its gateway is configured for, relays the answer (often as an event
stream), stores an audit row of every request in SQLite and shows the rows in a
console page that is refreshed by server-sent events. This directory holds TLA+
models of its parts, TLC configurations that check them on small instances, and
proofs, checked by TLAPS, that the most important properties hold for every
instance.

Paths are relative to the repository; `proxy/`, `store/`, `config/`, `web/` are
short for `src/internal/...`.

Contents: [1 Inventory](#1-inventory) · [2 The modules](#2-the-modules) ·
[3 The runs](#3-the-runs) · [4 Fairness](#4-fairness) · [5 The proofs](#5-the-proofs) ·
[6 Where the code and its documents disagree](#6-where-the-code-and-its-documents-disagree) ·
[7 What is not modelled](#7-what-is-not-modelled) · [8 What is left](#8-what-is-left)

## 1 Inventory

### Components, their state and their operations

| Component | State it keeps | Operations |
| --- | --- | --- |
| body admission (`proxy/admission.go`) | free bytes of a 64 MiB budget, a mutex and a condition variable; per waiter a cancel callback and a 30 s timer | `reserve`, `release`, callbacks that broadcast |
| request pipeline (`proxy/proxy.go`, `web/middleware.go`) | per request: the audit entry, what the client was sent, the body with its charge, its rewrite and its copies without | `ServeHTTP`: admit, read, resolve, build, do, relay or copy; deferred release, `finalizeLog`, panic recovery |
| stream filter and relay (`proxy/sse.go`, `capture.go`, `responsesanitize.go`) | held event line, skip flag, pending output; the capped capture | `Read`, `copyStream`, `cappedBuffer.Write` |
| usage tracker (`proxy/usage.go`) | unfinished tail of the stream, skip flag, the last usage seen | `observe`, the per-protocol arithmetic |
| headers and session affinity (`proxy/headers.go`) | none | which headers go upstream, which are redacted, the session identifier |
| rewriting (`proxy/jsonrewrite.go`, `adapter_*.go`) | none | member edits, tool-call clean-up, protocol adapters |
| configuration (`config/config.go`, handlers in `web/app.go`) | running configuration under a lock, its file | load, validate, four kinds of management request, commit with rollback |
| upstream clients (`proxy/client.go`, `proxy.go`) | four `http.Client`s built from the proxy URL | replaced by `PATCH /api/proxy` |
| log store (`store/storage*.go`) | one SQLite connection; table, version marker | insert, filters, list, metrics, time series, delete, prune, reclaim |
| migration (`store/storage_migrate.go`, `storage_compress.go`) | columns, rows, `schema_version` | columns, back-fill, three passes in batches, marker |
| change events (`store/storage_notify.go`, `web/app.go`) | subscriber channels of capacity one under a mutex | `NotifyChange`, subscribe, unsubscribe, the `/api/events` loop |
| health (`web/app.go`) | map of the last probe of each gateway | periodic and manual probes, `/healthz` |
| routing and guards (`web/app.go`, `web/middleware.go`) | none | route order, `MatchGateway`, same-origin guard, panic recovery |
| program and maintenance (`main.go`, `web/app.go`) | goroutines: main, signal, maintenance, reclaims; the flag `reclaiming` | start, prune, VACUUM, checkpoint, drain, close, exit |
| console page (`web/static/js`) | the page's list and its signature, what the table shows, the loads under way, the refresh timer | load, append, debounced refresh, reconnect |

### How they interact

A request reserves its declared length from the admission budget, is read, routed
by the configuration of that moment, transformed, and sent with one of the four
clients. The answer's bytes go to the upstream capture as they are, and through the
stream filter to the usage tracker, the client and the client capture. Returning
runs the deferred calls in reverse: the charge is returned, then the row is
inserted. The insert calls `NotifyChange`, which offers a token to every
subscriber; the `/api/events` handler turns tokens into events, on which the page
reads the list again. Management requests change the configuration under its
lock, save it, and for the proxy URL replace the clients; requests and health probes
in flight go on with what they read of it before. The hourly maintenance and every
deletion remove rows and have the file shrunk, one reclaim at a time. A signal makes
one goroutine drain the server while `main` returns from `ListenAndServe`.

### Behaviours that are hard, and what correctness is

* **admission** — waiters woken by a release, a cancellation or a timer that
  may fire between a check and the wait. No byte is lost or minted; nobody sleeps
  through what he waits for; everyone returns.
* **requests** — a dozen ways to end, some after the status line was sent,
  one by a panic. The row agrees with what the client was sent, a success in it
  means the whole answer was delivered, the budget is free before the slow insert.
* **streams** — lines cut anywhere, lines held back or dropped, a reader that
  fails with bytes in hand. The client parses exactly the events it should, and
  the capture and the usage describe what was sent.
* **change events** — a close racing a send, tokens dropped when a channel is
  full, clients that stop reading. No change is missed and nobody is held up.
* **configuration** — a change is installed before it is saved; saves fail and
  the program may crash anywhere. File and memory agree but for defaults, the file can always be
  loaded, a change is applied whole or not at all, and none is undone by another.
* **migration** — passes repeated on partly converted rows after a crash. The
  marker means the work is done, and no repetition changes what is read.
* **rewriting** — documents with repeated keys and odd entries, tool calls that
  arrive in pieces, histories cut in the middle, four ways to count tokens. What is
  sent conforms to the upstream, a call keeps its identity, the row counts what the
  upstream said, no credential is kept in clear.
* **routing and health** — a request looks its gateway up twice and its client
  later still, a probe writes its result long after it read what to ask. What is done
  is what *one* configuration in force meanwhile says, and late results do not last.
* **log store** — calls of several statements while rows come and go between
  them. Paging misses no row that stayed, every row is counted in exactly one bucket.
* **maintenance** — deletions that find a reclaim already running. The space they
  freed is not forgotten.
* **console page** — events without data, a timer that each event restarts, loads
  that overlap, fail and answer out of order. In the end the page shows the log.
* **shutdown** — two goroutines that end each other.

`PROJECT.json` lists the hazards line by line with the properties that watch them.

## 2 The modules

| Module | Models | Extends / uses |
| --- | --- | --- |
| `BodyBudget` | what admission promises: an atomic budget | |
| `BodyAdmission` | `admission.go`, one action per stretch between lock operations | `INSTANCE BodyBudget` as its abstract specification |
| `ProxyRequest` | `ServeHTTP` with its returns and deferred calls | `INSTANCE BodyBudget` for admission |
| `EventStream` | payloads as far as the filter tells them apart, and the parser of an event stream on both sides | |
| `SSEFilter` | the filtering reader, one action per line read | `EventStream` |
| `StreamRelay` | `copyStream` with the filter or without, the usage tracker and the capture | `SSEFilter` |
| `UpstreamHeaders` | `buildUpstreamHeaders`, step by step, and the redaction of the row's copies | |
| `BodyRewrite` | member edits, the adapters' documents, tool-call history and chunks | |
| `UsageMetrics` | the arithmetic of each dialect's usage, merged over chunks | |
| `Exchange` | one exchange through the three: request built, chunks relayed, row finished | `UpstreamHeaders`, `BodyRewrite`, `UsageMetrics` |
| `ChangeFeed` | what an event stream promises its client | |
| `ChangeEvents` | broker and `/api/events` handler | `INSTANCE ChangeFeed` as its abstract specification |
| `ConsolePage` | event source, debounced refresh and log table in the browser | `ChangeFeed`, whose steps are part of its own |
| `GatewayConfigs` | loading, merging, validation and the change each request asks for | |
| `ConfigRegister` | what the store promises: a register changed by whole accepted requests | `GatewayConfigs` |
| `ConfigStore` | start, handlers, commit, save, rollback, clients, crashes | `GatewayConfigs`, `INSTANCE ConfigRegister` |
| `ProxyInstall` | `ConfigStore` with two histories that tell which changes of the proxy URL met | `ConfigStore` |
| `Routing` | guard, the two lookups of a gateway, the client, and management requests in between | |
| `HealthProbe` | the ticker's rounds and the manual test | `Routing` |
| `LogStore` | rows, retention, deletion, filter, paging, metrics, time series, pulse | |
| `Program` | start, maintenance, deletions and reclaims, signal, drain, exit | |
| `Migration` | opening the log database | |
| `BodyAdmissionProofs`, `StreamRelayProofs`, `ChangeEventsProofs`, `ConfigStoreProofs`, `ProgramProofs`, `MigrationProofs` | theorems about the module named first | that module, `TLAPS` |
| `AuditLogProofs` | theorems about the row a request leaves and what is read of the rows | `ProxyRequest`, `LogStore` |
| `UpstreamProofs` | theorems about what is sent upstream and what comes back | `Exchange`, `Routing` through `HealthProbe` |
| `MC*` | values of the constants for TLC | |

`PROJECT.json` ("map") names the lines each definition stands for. Where a state
variable is not a field of the code it is said in the module: `told`, `version` in
`ChangeEvents`, `want`, `got` in `SSEFilter`, `sent`, `seen`, `whole` in
`ProxyRequest`, `possible` in `StreamRelay`, `inForce` in `Routing`, `shared`, `raced` in
`ProxyInstall` and `Routing`, `excused` in `Program`, and `seen`, `late`, `lost` in
`ConsolePage` are histories that the properties need. From `inForce` on they name
exceptions or the time a property is about; each says in its comment which code causes it.

**Granularity.** In `BodyAdmission` the code between two mutex operations is one
action, `cond.Wait` two (parking unlocks, waking locks again), `time.AfterFunc`
and `context.AfterFunc` callbacks are goroutines of their own. In `ChangeEvents`
`NotifyChange` takes the mutex, offers to one subscriber at a time and unlocks,
because a `select` with a default is atomic but the loop is not. In `ConfigStore`
the commit (lock, change, validate) and the save (write, rename) are separate, and
so are reading the URL back and installing the clients; a crash may come between
any two. In `Migration` a batch is one action because it is one transaction; the
back-fill is one statement. In `LogStore` and `Program` an action is one statement: the
store has a single connection. In `Routing` the body is read between the two lookups, and
a change of the proxy URL is committed, read back, installed and answered for in four
steps; in `HealthProbe` the answer comes between reading the configuration and writing the
map, and in `ConsolePage` a load is sent, answered and shown in three steps.

**Composition.** `ConsolePage` does not repeat the broker: it uses `ChangeFeed`, which
`ChangeEvents` is shown to implement, so that what the page catches up with follows
from both. `ProxyRequest` likewise uses `BodyBudget`, which `BodyAdmission` implements,
and `HealthProbe` runs in the configuration that `Routing` changes.

**Mutants.** An operator with a comment `Mutant of X` is not part of the model: it
is `X` with a plausible error, and shows which property notices if the code had it.

## 3 The runs

| Run | Configuration | Shows |
| --- | --- | --- |
| `admission` | two slots, budget 3, largest body 2: one large and one small body fit, two large ones do not | `BudgetConserved`, `NoLostWakeup`; `ReserveReturns` even if nobody ever releases; refinement of `BodyBudget` with its fairness |
| `request` | two handlers, same budget, chunked bodies of 1, 3 and 4 units (one, two past the largest), a capture limit of 1, rewritten bodies of any size up to the original | `RowTellsOutcome`: the row has the status that was sent, a success means everything was delivered, a failure is explained; `ChargeCoversBody`: the body read is held only under its charge, which is back before the insert, and what is not charged ends with the charge or with the row; `EveryRequestAnswered` while another streams for ever |
| `stream` | up to six lines (two whole events), chunks of 1 or 3 against a tail bound of 1, a capture of 5, a reader buffer of 2 | client and upstream parsers agree event by event, usage is the last complete line's, capture is a flagged prefix, "complete" means everything was handed over |
| `exchange` | 38,977 exchanges in four slices: headers, documents, tool histories, answers | what is sent conforms to the upstream's protocol and is otherwise what the client wrote, but for one named exception; no tool answer without its call, a call keeps id and name over its chunks, the row's counts are the upstream's, a session is sent under every name its upstream reads and invented only where the client names none, headers are clean and redacted |
| `events` | two writers with two changes, one client that reads, one that may stop | no send on a closed channel, no change missed, writers never held up, subscriptions given back, refinement of `ChangeFeed` with its fairness |
| `console_page` | one page on `ChangeFeed`, two changes, two loads under way at a time, two loads of the user's, one broken stream | once changes end the table shows the log as it is, but for four named exceptions |
| `config` | two concurrent management requests of fifteen kinds, one built-in, one custom and one legacy gateway, no file, a complete one, one of a removed build, one older than the built-in | file loadable, a restart loads what runs but for the values that count as left out (`SavedIsRunning`), model keys stay distinct, clients follow the proxy URL unless two changes of it met, refinement of `ConfigRegister` |
| `live` | a built-in and a custom gateway, a console path of the same form, two changes of gateways or proxy, which may be under way at once, a request or a test, the ticker | a request ends as one configuration in force while it was served has it (`AnsweredAsConfigured`), through a proxy configured then unless its clients come from changes of the proxy that met (`SentAsConfigured`); `HealthSettles` |
| `log_store` | tables of up to three rows, three seconds of two halves, pages of one or two rows, charts of one or two buckets, three filters | paging misses nothing, every row in exactly one bucket, the views by gateway agree |
| `program` | two requests, two deletions, a row of an earlier run | a signal ends the program, freed space is not forgotten and comes back |
| `shutdown_drain` | the same | expected violation, see 6 |
| `migration` | three rows of four ages and five databases, batches of two | marker only over finished work, no step changes what is read in the end, a start ends |

**Why the bounds are enough.** Admission: a waiter, a holder and a callback of
each kind are all present with two slots; the safety properties are proved for
every `N`. Requests interact only through the budget, which two requests exhaust; proved for any
number.
A stream's filter remembers at most one event line and one flag, so that two events
reach every state of it, each from each; proved for any length. Events: the second change is the one that
meets a full channel or a handler between draining and writing; the safety is proved
for any number. A page: two overlapping loads give an answer that is late, and a third
only another one; the second change is the one that comes during the load of the first,
or empties what the first one made.
Configuration: the rules compare pairs of gateways, and races
need two requests, which are alike (hence the symmetry); the requests change one setting or
two that meet in a rule, since a patch treats each field by itself; proved for all sets,
with any requests. Live: requests, tests and rounds meet only in
the configuration, so that one request or test (`MaxServed` = 1) beside the ticker is
enough; two changes give one between the lookups and one between the second lookup and
the client, a change and its undoing, or two changes of the proxy that meet; proved for
any number. Log store: a page of one and a row before and
after it are three rows; a call of two statements can be met by a row that comes and one
that goes; half seconds and steps of two or three seconds give every position of a row to
the edges of a bucket; proved for any table. Program: the second deletion is
the one that meets the reclaim of the first in every state of it; proved for any number.
Migration: three rows against batches of
two give a full batch, a short one and an empty one; proved for any table. Exchanges: the
edits of a member look at it and at the last of the same key, so that any two members
and three of the most different ones meet every combination; a tool answer is matched
with the calls of one assistant message, so that three messages give an answer that is
early, late, repeated or missing; the merging of usage keeps one value per field, so
that a chunk before and one after suffice; proved for any exchange. Headers, documents,
histories and answers vary one at a time because no operator reads two of them, except
that the session found in the headers is put into the document, which the document
slice has.

`CHECK_DEADLOCK FALSE` is set in `program` and `shutdown_drain`, where the process has
ended, and where the input is bounded: a stream of at most `MaxLines` lines, one
exchange per behaviour, a page with nothing left to load after the last change.

## 4 Fairness

* **Goroutines run** (weak fairness on their steps), as the Go scheduler gives.
* **A contended `sync.Mutex` is got** (strong fairness on the lock step): it
  has a starvation mode since Go 1.9. `sync.Cond` gives nothing by itself.
* **A `select` with several ready cases takes each in the long run** (strong
  fairness in the `/api/events` loop): it chooses at random.
* **Timers and context callbacks fire** once due.
* **What is not assumed:** that upstream sends or ends, that a client reads, or that
  a holder ever releases. `EveryRequestAnswered` lets a stream last for ever and
  only demands deadlines where the code sets them (`HasDeadline`); `ReserveReturns`
  rests on the timer alone. `ImplementsFeed` assumes that a client not in `Slow`
  reads or leaves; `SubscriptionReleased` that a write to a client that is gone ends.
* **Health:** the ticker ticks, a probe ends (its client has a timeout of 5 s), a
  management request that has committed goes on. No request and no change has to come.
* **The page:** the event source reconnects, callbacks run and a fetch ends, well or
  not. That the 250 ms timer goes off at all rests on the changes coming to an end,
  which is what `PageCatchesUp` is about.
* **The program:** main, maintenance, reclaims and the goroutine of the signal run.
  Requests need not end: it is the drain's timeout that ends the wait.
* **Migration:** the program's own steps; crashes have none, and a start is not
  obliged to happen.

## 5 The proofs

All are for arbitrary values of the constants under the module's named assumption, and
between them they state every safety property that a run checks. Each rests on
an inductive invariant, the reason for which is given here.

* **`BodyAdmissionProofs`.** `IInv` = types, `MutexHeld` (one goroutine between
  lock and unlock), `CallbacksArmed` (a waiter's timer and cancellation are armed,
  or it is overdue), `NoLostWakeup`, and `Ledger`. Conservation alone is not
  inductive, since a release needs to know the holder's charge is part of the total:
  `Ledger` states the sum as a running total over the slots. Theorems:
  `TypeCorrectness`, `Conservation`, `WakeupSafety`, and `Refinement`: each step of
  the monitor is a step of `BodyBudget` or a stutter.
* **`StreamRelayProofs`.** `FilterInv` says that the filter is before the data line
  of an event, when it has handed on nothing of it but may hold its event line, or
  after it, when client and upstream differ by the renaming only. The capture is
  arithmetic (`CaptureInv`). `UsageIsLast` speaks of what the tracker says between two
  chunks; what makes it inductive is `TrackInv`: what is pending is lines, the first of
  them perhaps begun in an earlier chunk, and of that one the tracker holds exactly the
  units that are missing, or has given it up because more than the limit are
  (`LinesKnown`); what is pending ends with a line as long as upstream sends
  (`Aligned`), so that the filter may put its next lines behind it. The tracker over a
  chunk is a fold, followed unit by unit (`ObserveFolds`, `AllowFolds`, `ChunkObserved`).
  Theorems: `StreamFaithful`, `CaptureIsHonest`, `CompletionMeansAll`, `UsageIsTheLast`,
  `RelayTypes`.
* **`ChangeEventsProofs`.** `NoChangeLost` strengthened with the mutex and subscription
  discipline: a client that is behind has a token, is about to write, or a writer
  that will still reach it. Theorems: `NoLostChange`, `ChannelSafety`,
  `EventsTypeCorrect`, and `FeedSafety`: every step is one of `ChangeFeed` or a stutter.
* **`ConfigStoreProofs`.** Theorems: `StoreTypeCorrect`, `AlwaysLoadable`,
  `RunningIsSaved`, `KeysKept`, and `StoreRefinement`: the file, seen through
  `LoadConfig`, is a register that changes by one accepted request at a time. A load
  replaces what counts as left out, so that the configuration in memory need not be the
  one on disk: the invariant has `LoadConfig(file) = Reloaded(mem)`, and `RequestsAgree`
  shows that a request accepted of `mem` is accepted of `Reloaded(mem)` and comes to the
  same once it is saved and loaded.
  `ClientsFollow` is about `ProxyInstall`. Its invariant says of two changes of the
  proxy URL under way at once that both are in `shared` (`Meeting`), and of one that is
  alone that what it read is what is configured, and that no other one is left to
  overwrite what it installs (`InstallsRead`, `SavingAlone`, `SavingShared`).
* **`AuditLogProofs`.** *The row.* `RowTellsOutcome` speaks of requests that have ended.
  `RequestInv` ties three things to the handler's place, at every place: the row being
  filled in, the status the response writer has let through, and the status line the
  client got. `ChargeCoversBody` needs that each place holds exactly the charge it should
  and that the charges add up to what the budget lacks; what is not charged has an invariant
  of its own on top of it, `CopiesInv`, with what each place holds in copies
  (`CopiesAt`). Theorems: `RowIsTrue`, `BodiesAreCharged`.
  *The rows.* `WalkMissesNothing` speaks of the end of a walk. `Behind` holds
  all along: a row that was there from the beginning has been shown or has at least as
  many newer ones as were loaded, so that it is still behind the offset. New rows only
  add to the newer ones, and a deletion that spares a row spares all newer ones. It rests
  on times being distinct and on cardinalities of subsets. For a chart, `InWindow`: from
  its first statement to its last the window it asked for stays around the rows it began
  with; that every second of the window is in exactly one bucket, and that there is at
  most one bucket more than asked for, is arithmetic of quotients (`FirstAligned`,
  `MultipleListed`, `FewListed`). For the metrics, `TotalStands`: the total counted first
  stays that of the table until the table changes; that the gateways add up to it is a
  sum over a partition (`PartsAddUp`). Theorems: `LogTypes`, `NothingMissed`,
  `ChartIsComplete`, `GatewaysAddToTotals`.
* **`ProgramProofs`.** A deletion that finds the flag set starts nothing, so that
  `NoSpaceForgotten` needs `FlagMeansReclaim`: whenever the flag is set somebody's
  reclaim is under way. Theorems: `ProgramTypes`, `SpaceRemembered`.
* **`UpstreamProofs`.** *Where to.* A request's answer is a matter of one configuration,
  but it reads two and its client belongs to a third. `RoutingInv` says of a request that
  is being served what it has met: after each lookup some configuration in force since it
  came agrees with everything read so far, and the clients are those of the proxy URL in
  force or of one that is being replaced, unless changes that met installed them
  (`ClientsInv`). A change that has met no other is the only one, so that the URL it has
  read back is still in force (`PendingAlone`). Theorems: `RequestsFollowConfig`,
  `RequestsFollowProxy`.
  *What is sent.* `IInv`: headers, document and row are those that the code makes of this
  exchange. The rest is about the operators. Of the headers each lemma says which names
  one write leaves alone, from the copy (`Clean`: nothing of the connection, a credential
  only as the client sent it) over the sessions (`SessionsTell`) to the credentials
  (`Keyed`). A document is followed through the adapter's edits (`BuiltDocument`): an edit
  keeps entries at some positions, the rank of a position is the place of its entry in
  what is kept, and so the last member of a key stays the last, which is the one that
  the upstream reads. A history is walked message by message: what is
  sent of it names the calls that were whole, and after each its answers.
  Theorems: `HeadersAreSafe`, `SessionsReach`, `RewritesConform`, `HistoriesAreClosed`.
  *What comes back.* `AnswerInv` says of each chunk passed on what the client reads in it,
  and of the row that it has the last usage told; `Truth` says in which columns a usage is
  counted. Theorems: `CallsKeepIdentity`, `UsageIsCounted`.
  Assumed is `ExchangesAssumption`, which says what an exchange is: header maps of the
  right type, a bearer only where there is an authorization header, and documents and
  answers as the protocols have them. Of gateways it says that the Anthropic adapter
  serves that protocol only, which `ValidateConfig` sees to (`config.go:444`, `463`); of
  documents that a request to Anthropic has messages, and that a tool's answer
  calls no tool; of answers, that an upstream keeps to one dialect of its protocol and names
  the calls of an answer that is not streamed. Of exchanges
  outside of it nothing is claimed.
* **`MigrationProofs`.** `IInv` = types, `Versions` (which pass may run under which
  marker and columns) and `Done`: earlier passes hold of every row, the current one
  of the finished columns and of the rows up to the last id read, and `Filled` (a
  further back-fill would change nothing). The marker's meaning is not inductive
  without them. Theorems: `TypeCorrect`, `NoMarkerWithoutWork`, `NothingIsChanged`.
  The last rests on `SameCell`: what scrubbing, compressing and filling never change
  about a cell.

**Data.** Nothing here is an induction by the library's theorems, which the provers
cannot instantiate. Where an operator goes over a sequence or a set, the induction is
by a least counterexample: a set of numbers that is not empty has a least one
(`LeastExists`, from `WFMin`), and so the first unit, row or message at which a claim
fails would be one at which it does not. That the recursive functions inside `FoldLeft`
and `SumFunctionOnSet` exist at all is shown in the same way (`FoldingExists`).

**What the proofs changed in the models.** Four definitions had a `CASE` two of whose
arms could hold at once, where TLC takes the first and the semantics leaves it open:
`Refused`, `PatchGateway` and `DeleteGateway` in `Routing`, and the status in `Finalized` of
`ProxyRequest`. The code decides in order, and the arms now say so. The assumptions on
documents and answers were found missing by proofs that failed without them.

**Model-checked only** is what is beyond a proof of this kind: liveness and the rest of
what rests on fairness or `ENABLED`. These are `ReserveReturns`, `EveryRequestAnswered`,
`NotifyReturns`, `SubscriptionReleased`, `SignalEndsProgram`, `SpaceComesBack`,
`StartEnds`, `HealthSettles`, `PageCatchesUp`, and of `ImplementsBudget` and
`ImplementsFeed` the fairness of the abstract specification; that each step is
one of it or a stutter is proved (`Refinement`, `FeedSafety`). `ConsolePage`
has no safety property of its own.

## 6 Where the code and its documents disagree

`shutdown_drain` is a run that is expected to fail, quoted in `PROJECT.json` under
"findings": `main` does not wait for the drain (`main.go:169`), although the flag at
main.go:29 promises that requests in flight are waited for.

Others are exceptions that a property names, so that it says what does hold:

1. `ChargeCoversBody` — a chunked body is charged `maxBodyBytes` but read up to one
   byte more (`proxy.go:156`), where README.md:73 promises a budget of 64 MB for the
   bodies in flight. Three more things of a body are held that nobody is charged for: the
   body an adapter has rewritten (`proxy.go:230`), as long as the original, and the row's
   copies of both (`proxy.go:165`, `242`), which outlive the charge until the insert has
   ended (up to 15 s) and are whole bodies when `body_capture_limit_kb` is 0
   (`proxy.go:407`). The property bounds them per request; what all requests hold
   together the budget does not bound. Answers are not charged either.
2. `InstalledUnlessRaced`, `SentAsConfigured`, `HealthSettles` — two concurrent `PATCH
   /api/proxy` may leave the clients on the older URL (`app.go:424-432`), where a test
   (`client_test.go:83`) expects all clients to be those of the last one. Requests and
   health probes are then sent through it until the next change, although the other one
   was answered for. Changes one after the other never do this.
3. `EventsFaithful` — holds for events of one data line (`Tidy`). Of an event with
   several, a dropped last line takes the terminating blank line with it (`sse.go:77`);
   a test (`responsesanitize_test.go:26`) guards against that for another order of
   lines. `KeptEventTerminated` in `SSEFilter` states it, no run checks it: to see it
   violated, set `Tidy = FALSE` and `Payloads <- MCFewPayloads` in `MCStreamRelay.cfg` and
   check it as an invariant.
4. `NoSpaceForgotten` — a deletion that comes between the VACUUM of another one's reclaim
   and its end leaves its pages in the file until the next one (`app.go:510`); a test
   (`app_test.go:438`) covers deletions one at a time.
5. `PageCatchesUp` — a late answer is shown over a newer one until the next event
   (`logs.js:144`). A silent load that finds the signature unchanged changes nothing
   (`logs.js:150`), so that the error message of a refresh that failed stays; and if the
   log is emptied while its next page is loaded, the empty page leaves the signature of an
   empty log with the old rows on the screen (`logs.js:148-156`), which then stay until the
   user refreshes or the log has rows again.
6. `RewriteConforms` — the Anthropic adapter drops tools without a name by decoding the
   whole document and writing it anew (`adapter_anthropic.go:45-74`). All numbers in it
   have then been a `float64`, so that an integer above 2^53 in any member is another
   one upstream, while the Responses adapters edit bytes so that number literals stay as
   they are (`responsesanitize.go:121`) and SenseNova's decodes with `UseNumber`. It may
   also leave an empty list of tools, which the Responses adapters avoid because some
   upstreams read it as a request for none (`responsesanitize.go:145`).
7. `SavedIsRunning` — `PATCH /api/gateways/{id}` accepts, answers with and saves an empty
   user agent, `grok-gateway-proxy/dev` and an empty affinity; the next start replaces the
   first two by the user agent of the build and the third by `openai`
   (`config.go:278-280`, `291-293`, `300-305`). Requests notice only if the gateway
   overrides the client's user agent by `grok-gateway-proxy/dev` in a build of another
   version: until the restart they carry it, and afterwards the build's.
8. `HealthSettles` — of a gateway that was disabled or deleted `/healthz` shows the last
   result for good; nothing takes entries out of the map (`app.go:190`).

Three smaller ones were met on the way. A file older than
a built-in gateway may load with two gateways of one display name, which README.md:23
says is refused (only changes are validated for it). `headers.go:361` calls the
fallback session stable, while `headers.go:378` makes a new one for every request. And
`headers.go:389` says that the two `x-opencode-*` headers are always sent as a pair:
where the affinity step has already set the session, `applyOpenCodeSession` returns
before it sets the client.

## 7 What is not modelled

* **Inside modelled parts.** The error body of a streamed request that is read without
  a deadline before its status line is passed on is outside `EveryRequestAnswered`;
  panics between recording the status and writing it. The scalar settings of the
  configuration (listen address, timeouts, retention, capture limit) and the fields of a
  gateway that are stored and loaded as they are (enabled, forwarded headers, use of the
  proxy) take no part in the rules of loading and saving. Two facts about them are noted
  instead: the values of the command line are put into the configuration
  (`main.go:67-73`), so that the next save of something else writes them to the file; and
  days are multiplied into nanoseconds without an upper bound (`config.go:321`), so that
  a retention of more than 106,751 days overflows 64 bits. In the tracker, the last line of a stream that is
  not terminated is never observed, as in the code. In the migration, columns the
  passes treat alike are one; rows of version 3 whose upstream never answered are
  back-filled, as the code does, and timestamps of 30 characters that are not UTC
  ("odd") are never normalised.
* **In `Exchange`.** A document is its list of members as the scanner delivers them: the
  byte scanner (separators, escapes, white space) and the searches that only save a
  parse are left out, as are several values under one header name, the clamp of a
  session to 64 characters, the order of the keys of a document written anew, and the path
  of the upstream URL. Numbers in a document are only told apart by whether a `float64`
  holds them (`Precise`). Token counts are small
  naturals; Anthropic's pass through `float64`, exact up to 2^53.
* **In `LogStore`.** The search in a model's name, percentages, the columns that are
  only stored, and `strftime`, which rounds the last half millisecond of a second up.
  One call is followed at a time, since calls only read.
* **In `Routing` and `HealthProbe`.** What an upstream answers, the security headers, and
  paths: every prefix is its gateway's id, so that no path has two gateways.
* **In `Program`.** Parsing flags and the environment, opening the store (`Migration`) and
  loading the configuration (`ConfigStore`), which end before the goroutines start.
* **In `ConsolePage`.** The drawer, the overview, the gateway cards and the health badge,
  which are refreshed on the same event in the same way, and the rows "load more" adds to a list. The
  record in the drawer (`drawer.js:46`) is exposed to late answers as the table is.
* **Whole parts.** Rendering, formatting, static files and setup snippets keep no
  state.

## 8 What is left

All components with state have a module, and every safety property a run checks is
proved. What a continuation would add:

1. The drawer and the overview as further tables of `ConsolePage`, each with its own
   answers, and the scalar settings of section 7 in `ConfigStore`.
2. For `ConsolePage` the safety half of catching up: what is shown was the log at some
   time, and whoever is behind has a load, a timer or a broken stream to come.
3. `shutdown_drain` as a property that holds, if `main` comes to wait for the drain.

Each new property replaces a shallower one where two say nearly the same, so that the
list stays short enough to be read.
