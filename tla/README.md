# A verification project for the Elastic RUM agent

This directory models the core of the Elastic APM real user monitoring agent (`packages/rum-core`,
`packages/rum` and the framework integrations of this repository) in TLA+. The models are checked with TLC
on small instances; theorems about them are proved with TLAPS for every value of the constants.

Paths below are relative to `src/packages/rum-core/src/` unless they start with `packages/` or `docs/`.

## 1. The system

The agent is a single-threaded JavaScript library inside a web page. Nothing in it runs in parallel, but it is
entered from everywhere: by the application through the public API, by wrapped browser functions
(`XMLHttpRequest`, `fetch`, `history.pushState`, `addEventListener`), by timers, promise continuations and
performance observers, and again from inside itself through the application's own callbacks. Its
difficulty lies in the order of those entries. A *macrotask* (a script, a timer, an event) runs to the end and is
followed by all pending *microtasks* (promise continuations); the models keep this distinction where the code depends
on it.

### 1.1 Components

**Transaction service** (`performance-monitoring/transaction-service.js`, `transaction.js`, `span-base.js`,
`span.js`, `bootstrap.js`, `state.js`).
*State:* the current transaction; of each transaction its type, options, `_activeSpans`, `_activeTasks`, `blocked`,
`spans`, `ended`; of each span its end and its transaction; one shared `PerfEntryRecorder`; the page's
`lastHiddenStart`. *Operations:* `startTransaction` (new, reuse, replace, unmanaged), `startSpan` (also creating a
temporary transaction), `span.end`, `transaction.end`, `addTask`, `removeTask`, `block`, `detectFinish`, and the
microtask of `handleTransactionEnd`. *Interaction:* called by every other component; sends `transaction:start` and
`transaction:end` to observers, the last of which hands the payload to the APM server component. *Hard:* `end` is
re-entered through `span.end` → `_onSpanEnd` → `removeTask` → `detectFinish`; the verdict on an ended transaction is
taken in a later microtask from shared state; the recorder and the current transaction are shared by transactions
that overlap. *Correct if:* spans are recorded once, at most one managed transaction runs, what is finished ends and
what waits does not, an ended transaction stays closed, and each is sent or discarded once, for the right reason.

**Performance observers** (`performance-monitoring/metrics.js`). *State:* which entry types are observed, the metrics
collected so far. *Operations:* start, stop, the callback with entries. *Hard:* entries arrive in later tasks and go
to whatever transaction is current then. *Correct if:* the observers run exactly while a transaction wants them.

**Event queue and APM server** (`common/apm-server.js`, `queue.js`, `throttle.js`). *State:* the queue's `items` and
`timeoutId`, the throttle's `counter` and timer, requests in flight. *Operations:* `addError`, `addTransaction`,
`flush` (by timer and by limit), `sendEvents`, `_postJson`, `_makeHttpRequest`, `fetchConfig`. *Interaction:* calls the
application's filters and `apmRequest` inside a flush; posts to the APM server. *Hard:* `flush` runs `onFlush` before it
clears, so an exception or a re-entrant `captureError` in between acts on the old queue; two timers that do not know of
each other; compression is asynchronous and may fail at several places. *Correct if:* events leave once and in order, none
waits without a timer or is lost unaccounted, and throttling bounds what is sent and ends.

**Payload** (`common/compress.js`, `ndjson.js`, `truncate.js`). Stateless; may throw, may never settle.

**API call instrumentation** (`performance-monitoring/performance-monitoring.js`, `common/patching/xhr-patch.js`,
`fetch-patch.js`, `history-patch.js`, `index.js`, `patch-utils.js`). *State:* one task per call with its state, its span
and status; `globalState.fetchInProgress`. *Operations:* `open`, `send`, the event listeners of a request, `fetch`, its
continuation, `pushState`. *Interaction:* each call is a blocking span of the current transaction, or of a new
`http-request` one. *Hard:* a request is aborted, opened again, sent twice, fails synchronously, and its object dispatches several
events to all the listeners it ever got; all of it between arbitrary other calls. *Correct if:* each call's span ends
once, with the outcome of its own request, and no transaction is left waiting or running for nothing.

**Event target patch** (`common/patching/event-target-patch.js`). *State:* per element a registry of wrapped listeners.
*Operations:* `addEventListener`, `removeEventListener`, the wrapper. *Hard:* the registry must stay in step with the
browser's own list, which also changes by `{once}` and through listeners added before the patch. *Correct if:* the
application sees exactly the listeners it would see without the agent.

**Span timing and breakdown** (`performance-monitoring/breakdown.js`, `adjustTransactionTime`, `adjustTransaction`,
`groupSmallContinuouslySimilarSpans`). Pure functions of a transaction's spans. *Hard:* they sort, truncate and merge
in place, one after the other. *Correct if:* spans lie within the transaction, and self times add up.

**Configuration and session** (`common/config-service.js`, `setSession`, `fetchConfig`). *State:* the configuration, its
copy in `sessionStorage` or `localStorage`, the session's id, sequence number and timestamp, shared by all tabs of the
origin. *Hard:* read-modify-write of storage by several tabs; a request with an `etag` that is answered 304 later.
*Correct if:* page loads of one session get increasing numbers, and a 304 yields the configuration it speaks of.

**Agent initialisation** (`packages/rum/src/apm-base.js`, `index.js`, `common/service-factory.js`, `instrument.js`).
*State:* enabled, initialised, active. *Operations:* `init`, `config`, `fetchCentralConfig`, `_sendPageLoadMetrics`.
*Hard:* the page-load transaction starts after an answer that may not come, before or after `load`. *Correct if:* it is
sent exactly once whatever the request does.

**Event handler** (`common/event-handler.js`): lists of observers, iterated while observers unsubscribe.
**After frame** (`common/after-frame.js`): a callback raced by `requestAnimationFrame` and a timeout.
**Framework integrations** (`packages/rum-react`, `rum-vue`, `rum-angular`) and **OpenTracing** (`opentracing/`):
callers of the transaction service. **Error logging** (`error-logging/`): stateless; turns events into errors for
`addError`. **Navigation timing** (`capture-navigation.js`), **context and utilities** (`common/context.js`, `url.js`,
`utils.js`, …): pure data. Build and test tooling is not part of the agent.

`PROJECT.json` lists the same components with the modules that cover them, and the hazards of the code, each at its
line with the properties that would catch it going wrong.

### 1.2 How the parts meet

    application ── API ──────────────┐                        filters, apmRequest (application)
    XHR / fetch / history / click    ▼                               ▲
       └─ patches ─ processAPICalls ─► TransactionService ─ end ─► microtask ─ transaction:end
    performance observers ──────────►  (current transaction)          │
    visibilitychange ─ lastHiddenStart ┘                              ▼
    errors ───────────────────────────────────────────► throttle ─► Queue ─► sendEvents ─► POST

## 2. The modules

| module | models | checked by | proved in |
|---|---|---|---|
| `TransactionService` | the transaction service and the recorder's start and stop | `MCTransactionService` | `TransactionService_proof` |
| `TransactionLifecycle` | abstract: what the service promises about one transaction | `TransactionLifecycle.cfg` | `TransactionService_proof` |
| `EventQueue` | adding, throttling, flushing, filtering, compressing, posting | `MCEventQueue` | `EventQueue_proof` |
| `EventDelivery` | abstract: what happens to a captured event | `EventDelivery.cfg` | `EventQueue_proof` |
| `ApiCalls` | XMLHttpRequest and fetch patches and `processAPICalls`, on top of `TransactionService` | `MCApiCalls` | `Instrumentation_proof` |
| `RouteChanges` | the React, Vue and Angular integrations and `afterFrame`, on top of `TransactionService` | `MCRouteChanges` | `Instrumentation_proof` |
| `Report` | what is computed of one transaction: timeline, metrics, adjusted times, breakdown, grouping, payload | `MCReport` | `Timeline_proof`, `Report_proof` |
| `Agent` | initialisation, central configuration, stored configuration, session, page load, over several tabs | `MCAgent` | `Agent_proof` |
| `EventTarget` | abstract: the DOM's list of listeners of one element | `EventTargetPatch.cfg` | `EventTargetPatch_proof` |
| `EventTargetPatch` | the patched `addEventListener` and `removeEventListener` | `MCEventTargetPatch` | `EventTargetPatch_proof` |
| `Payload` | the data of an event: contexts, truncation, the short names of the intake | `MCPayload` | `Payload_proof` |

`MC…` modules only name sets for the configurations and the symmetry. Operators whose comment begins with *Mutant* are
wrong variants of the operator that follows them; nothing uses them, and `PROJECT.json` says which property each one breaks.

How they meet: `ApiCalls` and `RouteChanges` extend `TransactionService` and call its operators, so that their actions are
the whole synchronous call. `TransactionService` says *when* a transaction ends and whether it is sent; `Report` is what
`Settle` then computes of its spans; `Agent` holds the page-load transaction as a phase only, with the session it gets; what
leaves is an event of `EventQueue`, whose data is `Payload`.

### 2.1 TransactionService

One action is one synchronous call into the agent, one event handler or one microtask. A call may end transactions and
spans recursively, so the methods are operators from a *heap* (transactions, spans, recorder, microtask queue) to the heap
after the call: `End`, `DetectFinish`, `RemoveTaskOf`, `OnSpanEnd`, `SpanEnd`, `OpenSpan`. Each action applies their
composition, in the order of the code. `End` is not recursive although the code is: `ended` is set
before the spans are truncated, so the inner `detectFinish` → `end` returns at once; what remains is that each active
span is recorded and loses its task.

| code | model |
|---|---|
| `_activeSpans`, `_activeTasks`, `blocked`, `ended`, `options` | fields of `tr[t]` |
| `span.ended`, pushing on `transaction.spans`, `TRUNCATED_TYPE` | `span[s].status`, `.recorded`, `.truncated` |
| `currentTransaction` | `current` |
| `startTransaction` | `StartManagedNew`, `StartManagedReuse`, `StartManagedReplace`, `StartUnmanaged` |
| `TransactionService.startSpan` | `StartTemporary` without a current transaction, else `StartSpan` |
| `handleTransactionEnd`, synchronous part | `CallOnEnd`, through the hook a managed transaction gets |
| its `Promise.resolve().then(…)` | `microtasks`, `Settle` |
| `recorder.start`, `stop`, the callback | `StartedObservers`, `CallOnEnd`, `ObserveEntries` |
| `visibilitychange`, `lastHiddenStart` | `Hide`, `Show` |

A temporary transaction has no hook: it vanishes when it ends, and if it is reused by `startTransaction` it gets the hook
then. `Settle` takes the verdict: hidden, ignored (`shouldIgnoreTransaction`, or still temporary) or sent. Observers,
page events and timers are macrotasks and run only when `microtasks` is empty; API calls may also come from a
microtask, between the end of a transaction and its verdict. `sent`, `discarded`, `announced` and `exposed` are history.

`TransactionLifecycle` has only phases: unused, running, ending, reported or discarded, the replacement of the managed
transaction, and the taint of a hidden page. `ImplementsLifecycle` maps the service to it.

### 2.2 EventQueue

`Add` is `throttleEvents` with `Queue.add`; a full queue puts its items on the stack `flushes`. While that stack is not empty
the main thread is inside `onFlush`: the only steps are those of the application's filters, which return (`FilterKeeps`,
`FilterDrops`), throw (`FilterThrows`) or call `captureError` (`FilterCaptures`, which may flush again, recursively). A
return runs `Clear`; an exception unwinds the whole stack without it. A batch is then compressed, posted, rejected by
`apmRequest`, delivered or lost. `Poison` events make the serialisation itself throw, which `compressMarks`
does for marks without `navigationTiming`. Time is two countdowns.

`EventDelivery` gives each event a status: refused, queued, sending, filtered, delivered or lost, with all the waiting
events leaving in one flush. The mapping is `Fate`; an event that two batches took, or one that is in a batch and waits again, has
a status `EventDelivery` does not know.

### 2.3 ApiCalls

Extends `TransactionService`: a call's start and end are its operators, composed with the state of the tasks. The browser
side of an `XMLHttpRequest` (phase, status, queue of events, listeners) is external and as liberal as browsers are: `open`
on a request under way terminates it without events, and may or may not silence those of a request that just ended. Between
two listeners of one event the application may do anything, since its own listeners run there. `result` is the history of what became of a call's own request,
`mixed` marks the calls whose object was opened again before they noticed the end, and those sent while an event of an earlier request
was still to come (`Mixed`, `SendAsync`). A `fetch` settles its promise in one step and
runs the agent's microtask in another. Of the application's calls into the service, `addTask`, `removeTask` and `block` are left
to the `Transactions` run: they hold and release a transaction as the application's own blocking spans do here.

### 2.4 RouteChanges

A page uses one framework, chosen at the start. A React instance keeps the transaction its constructor got (`Construct`,
`DidMount`, `WillUnmount`); Vue and Angular keep the last navigation's in one variable, `routed`, which the callbacks of
earlier navigations read too (`Subject`). A constructed instance may never be mounted, a navigation may end, fail, or be
cancelled, which no integration notices. `AfterFrame` sets an animation frame and a timeout; whichever runs first
cancels the other and sets a second timer for the callback. A hidden page gets no animation frames. `Elsewhere` is the
rest of the page: other transactions, one blocking span, the clock, visibility.

### 2.5 Report

The clock counts from the start of the navigation. While the transaction runs, the browser makes entries (long tasks,
paints, inputs, layout shifts, resources, measures) and the application spans and marks; the `PerformanceObserver`
delivers entries in batches, later (`Observe`). `End` is the synchronous end, with its verdict on the entries that were not
delivered; `Settle` is the microtask, in the order of the code: `captureNavigation`, `AddExperience`,
`adjustTransactionTime`, `captureBreakdown`, and `createTransactionPayload` with `adjustTransaction`, `filterTransaction` and
`groupSmallContinuouslySimilarSpans`. These are pure operators over sequences of spans, folds where the code loops.
Histories keep the spans before the adjustment (`raw`), the instants of the marks and the end that `end()` set. `metrics` is one object of
the module for all transactions: `EarlierObserve` is what managed transactions before this one counted in it, of long tasks that stay buffered for
the next observer. `End` takes the end its caller gives, of a managed transaction too.

### 2.6 Agent

`page` is a record for each tab with its agent, which goes when the page does (`Open`). `InitAgent` is `init`, with
every early return; the request for the central configuration reads the stored one when it is made (`localConfig`) and
uses it when the answer comes (`NotModified`, `Fetched`, `FetchFails`). `Settle` is the end of the page load with
`setSession`. `storage` has a key for `localStorage` and one for each tab's `sessionStorage`; which of them an agent
uses depends on `config.session` at that time (`Key`). The server publishes configurations in an order fixed by
`Published`; rates are integers in units of 1/100000, so that `Normalise` is exact.

### 2.7 EventTarget and EventTargetPatch

`EventTarget` is the DOM's algorithm for one element and one event: a list without duplicates, `{once}`, a dispatch with a capturing
and a bubbling phase that calls the listeners that were listed when the phase began and still are, and nested dispatches.
`EventTargetPatch` runs one instance of it with the callbacks the browser gets, wrapped or not, and adds the registry. `Page`
is a second instance with each wrapper taken for the listener it wraps: `ImplementsEventTarget` says that this, what the
application can see, is a behaviour of a plain element.

### 2.8 Payload

An object is the set of paths of its inner objects and a function from the paths of its values to values; a value
keeps the path where it was captured, so that values cannot be confused, and only its kind and length. `Capture` builds an
event of each sort with any combination of contexts and one value that is empty, undefined, zero, at the limit or too long,
and truncates it (`truncateModel` with the models of `truncate.js`); `Send` renames (`compress…`). `V3_MAPPING`, the
reference of `WireReadsBack`, is the list of names in `test/common/compress.spec.js`, not the code's.

## 3. Runs

Two cores finish each run in about three minutes or less.

| run | question | instance |
|---|---|---|
| `Transactions` | spans, tasks, blocks, ends and replacement in any order | 2 transactions, 2 spans, 1 task; page-load, http-request, unmanaged; clock stopped |
| `TransactionLifecycle` | reuse thresholds, visibility, verdicts, refinement, liveness | 2 transactions, no spans; clock 1..2 |
| `EventQueue` | limit, exceptions, re-entrance, loss | 4 events, one of them unserialisable; queue limit 2, throttle limit 3 |
| `EventDelivery` | the two timers, liveness, refinement | 4 events; no queue limit, throttle limit 2 in 3 ticks, flush every 2 |
| `ApiCalls` | calls against everything else | 1 XMLHttpRequest sent twice, 1 fetch, 2 transactions, 2 spans |
| `RouteChanges` | renders, redirects, navigations, hidden pages, liveness | 2 instances or navigations, 2 frames, 2 transactions, 1 span, clock 1..2 |
| `Report` | do the parts of a report agree with each other and with what happened | clock 0..4; 8 mixes of up to 2 entries that meet; 2 timings; an end at, before or after the instant |
| `Agent` | tabs, late answers, storage, sessions, liveness | 2 tabs, 3 page loads, 3 published versions (the second without a rate), 4 configurations, clock 1..2 |
| `EventTargetPatch` | registry against list, nested clicks, refinement | 2 functions, 1 object, 3 listeners, 2 clicks, depth 2 |
| `Payload` | truncation and renaming | every sort of event, every combination of contexts, 4 lengths |
| `StuckQueue`, `ErrorTypeLost` | a statement of the documentation or of a test that the code does not keep | the smallest that shows it |

### 3.1 What they show

*Transactions.* `SpansAccounted`: a running span is active in a running transaction; an ended one was recorded once and is active
nowhere. `OneManaged`: two managed transactions never run at once. `ObserversFollowCurrent`: the recorder never
outlives the transaction it was started for. `SettledOnce`: an ended transaction is in the microtask queue once, or has
one verdict. `NoForgottenFinish`: the very step that leaves a transaction with nothing to wait for ends it.
`BlockingSpanHolds`: nothing but an explicit end or a replacement cuts a blocking span off. `ClosedAfterEnd`: no late call reopens
an ended transaction, lets a span join it, or records or truncates one of its spans again. The data that late calls write is not in it (section 5).

*TransactionLifecycle.* `HiddenVerdict`: a transaction is discarded as hidden exactly if the page became hidden
during it, although the code only compares one shared timestamp, later. `ImplementsLifecycle` adds the order of the phases,
the end of the replaced transaction and that every verdict comes.

*EventQueue.* `EventsKept`: unless a filter captures errors, batches are consecutive pieces of what was added, none twice,
also after exceptions; what vanishes without being in any batch was captured by a filter, inside
the flush whose `_clear` then drops it. With re-entrance the order and "once" are lost too.

*EventDelivery.* `WaitingIsScheduled`: an event that waits has a timer. `SentPerWindowBounded`: one throttling window sends
at most `2 * eventsLimit - 1` events, since the throttle counts additions and the queue sends later. `ThrottleOpens`:
throttling ends. `ImplementsDelivery`: an event is refused, filtered, delivered or lost, once; none is taken into two batches, and nothing waits forever. This run
has no exceptions and no hanging compression, with which it is false (3.2).

*ApiCalls.* `NothingHangs`: when a request object's events are over, every call made with it has ended, and
an `http-request` transaction always waits for something. `OutcomeAgrees`: the span of a call ends only when the call's own request is over, and
its outcome is that of this request, however often the object was used before; excepted are the `mixed` calls, rejected fetches and sends that throw (3.2). `OutcomesAreFinal`: an outcome is set once; when a call's end ends an `http-request` transaction, the
transaction's outcome is this call's, whichever call wrote it before.

*RouteChanges.* `RouteTypeOK` contains that the race of frame and timeout runs a callback at most once. `FinishedOrHeld`: after the
integration asked a transaction to finish, that transaction ended or is held by something that will end it, although Vue's
and Angular's callbacks may ask a later one. `RouteChangeEnds`: a rendered route change gets there, on a hidden page too.

*Report.* `EverySpanReported`: adding the timeline, adjusting, filtering and grouping leave exactly the spans that last for some time
within the transaction, counted, and all within it. `TimesAgree`: the breakdown of a soft navigation adds up to the time and the self times,
marks keep their instant when the start moves, and what the agent adds never prolongs a transaction beyond the instant it was ended at: only
a span with a later end that the application gave does, or, if `end()` was given an earlier end, what the page did until it was called. `OneSpanPerCall`: a request is reported by
its patched call or by its resource timing, not by both. `ExperienceAgrees`: counted long tasks are the ones reported as spans and, once more, those that
earlier transactions counted.

*Agent.* `InitialisedOnce`: `init` and `config` in any order start one page load and one set of listeners, and none for an agent that is
inactive. `StoredAsPublished`, `SamplesAsPublished`: what is stored or applied under an etag is what the server published under it, also
if another tab stores meanwhile and the answer is "not modified"; if that version has no rate, it is the rate of another published version, the one
it was merged into (3.2). `NumberedInOrder`: page loads that do not overlap are numbered without gaps, and a session
ends exactly when it expired. `PageLoadSettles`: the page load is sent whatever becomes of the request and whenever the page completes.

*EventTargetPatch.* `WrapperIsFound`: what is listed under a wrapper can be found and removed, also after `{once}`. `PendingIsRunning`:
SCHEDULE and INVOKE come in pairs, innermost first, also when listeners throw and click. `ImplementsEventTarget`: the
application sees a plain element.

*Payload.* `TruncationFits`: required values are there, named ones within the limit, and nothing else disappears or changes.
`WireReadsBack`: every value is posted under its own name of the intake, and none is dropped but those `LeftOut` lists.

### 3.2 Where the code and its documents differ

Two runs end in a violation; `PROJECT.json` quotes the lines.

- `StuckQueue`: after a flush that threw, `timeoutId` stays set and no later `add` sets a timer (with no queue limit, the queue is stuck).
  A transaction with custom marks throws there with `apiVersion` 3.
- `ErrorTypeLost`: `compressError` reads `error.type`, which no error has; the type is `exception.type` and is lost.

Met while modelling, and left as restrictions or exceptions of the properties above rather than as runs.

Transactions and route changes:
- A temporary transaction that `startTransaction` redefines is sent, but `transaction:start` was never
  fired for it (`transaction-service.js:215`; `docs/agent-api.asciidoc:283`).
- The end of an unmanaged transaction stops the one recorder while the managed one runs on (`transaction-service.js:240`), and a
  managed transaction that reuses a temporary one never starts it.
- A transaction that starts and ends on a hidden page is sent; only *becoming* hidden counts (`CHANGELOG.asciidoc:178`).
- A React redirect within the reuse threshold: the first component's unmount asks the transaction that was reused for the second to
  finish, before that one is mounted. In Vue and Angular, a callback may finish a later navigation's transaction
  early, and a cancelled navigation of Angular is never finished, until a later transaction replaces it.

Calls, events and listeners:
- The throttle lets more than `eventsLimit` events be *sent* in a window (`docs/configuration.asciidoc:248` speaks of
  sending), hence the bound `2 * eventsLimit - 1`.
- A compression stream that fails while it is read leaves `compressPayload` pending forever
  (`Hang`), so `EventDelivery` assumes it does not.
- A rejected `fetch` has no response and its `Request` no status, so its span's outcome is
  "success"; `OutcomeAgrees` leaves rejected fetches out.
- Listeners stay on the object, although a comment calls them those "for the current request" (`xhr-patch.js:99`). A call whose object was opened again before its end was noticed takes the outcome of the later request, and never ends if none is sent
  (`NoCallForgotten` speaks of objects whose last request is done). A call that is sent from a listener of the previous request's event is ended by the rest of that
  event, as a failure. Besides rejected fetches and sends that throw, `OutcomeAgrees` excepts only these calls (`mixed`).
- A listener that was added before the patch and is added again after it is called twice, since the browser has it once as it
  is and once wrapped (`event-target-patch.js:60`): `AddAgain` and `AddWrapped` exclude it. A capture argument that is truthy but not a boolean
  is capture for the browser and not for the registry; arguments are booleans here.

Reports and payloads:
- A page load that ends before the page is complete has negative durations in its breakdown: `ReportTypeOK` excepts it.
- Long tasks that are delivered before the first contentful paint count for the total blocking time although the comment at
  `metrics.js:144` bounds it by the paint.
- `metrics` is never reset and observers ask for buffered entries (`metrics.js:36`, `metrics.js:315`): a page load that starts late, because the central configuration is
  awaited, counts once more the long tasks that an earlier transaction counted.
- A span of a long task that ends after the end `end()` was given prolongs the transaction (`transaction-service.js:411`).
- Custom marks of transactions other than page loads are not moved when `adjustTransactionTime` moves the start.
- A request that starts on the very tick at which the modules are patched is reported twice; `Start` comes after `Bootstrap`.
- Compression drops labels, response headers, custom marks, `exception.type` and a status code of 0 (`docs/transaction-api.asciidoc:123` says that
  errors carry the labels): `LeftOut`.
- `createMetaData` truncates the configuration's own objects in place.

Configuration:
- A newer configuration without a sample rate keeps the older rate under the new etag (`config-service.js:265`): an agent that is then answered "not modified" samples
  at the rate of the older version, one that gets the configuration itself at its own (`apm-base.js:141`).
- `config` with invalid values after `init` sets `active` to false and deactivates nothing (`apm-base.js:193`).
- The central configuration is asked for on every `init`, with its etag (`docs/configuration.asciidoc:272` says it is not fetched again).
- Page loads of two tabs that overlap may get the same sequence number, and a late answer may overwrite a newer stored
  configuration: `NumberedInOrder` is about loads that do not overlap, `StoredAsPublished` does not say "newest".

### 3.3 Bounds

- Two transactions are one that runs and one that replaces, reuses or outlives it; two spans are one that ends and one
  that still holds; one task is held or released. All interaction of the service is between the current transaction and one other. The theorems
  (section 4) have no such bound.
- The clock matters only in comparisons with a start and a threshold; two ticks with thresholds of 1 and 2 give
  before, at and after. Where nothing compares times (`Transactions`, `ApiCalls`) it stands still.
- Four events are one more than the throttle's limit of three and twice the queue's limit of two: a refused event, two full
  flushes, or a flush nested in a flush. In `EventDelivery`, limit 2 with four events gives refusal and a window that
  sends its bound of three.
- One XMLHttpRequest and two sends are the reuse of an object with an older listener; the fetch is the concurrent call.
- Two React instances or navigations are one that gives way to another; each has its call of `afterFrame`.
- `Report` reads the clock in comparisons only; five instants separate patching, start, two entries and end. The mixes (`MeetingMixes`) are the
  entries whose treatment meets: spans that overlap, touch or repeat; two long tasks, or one before or after a paint; a span past the end with a mark or a
  long task; a request with its patched span, or a measure, and a span of the application. `End` is tried with the instant before, at and after the clock, and `EarlierObserve` at any time before the start. The thresholds are scaled down with the clock.
- Two tabs with three loads are two concurrent pages and a reload; three versions, the first with a rate that rounding alone would
  make 0, the second with none, the third with another, are a stored one, one that is merged into it, and one that overtakes both. `SessionTimeout = 0` expires a session on the next tick.
- Three listeners of two functions and an object give a duplicate, another phase, and one added during a dispatch; two clicks of
  depth 2 are one inside the other, or one after the other.
- Lengths below, at and above `KEYWORD_LIMIT` (4 here, above the placeholder's 3), and 0.
- Symmetry is used only in runs without liveness properties, on sets whose elements nothing distinguishes.

Deadlock is not checked: when every identity is used up and every timer is off, the page simply does nothing.

### 3.4 Fairness

`WF(RunMicrotask)`: a browser runs every queued microtask before the next macrotask, and the handler does not wait. In
`EventQueue`: timers fire and time passes (`setTimeout`, `Tick`), the application's filters return, promise
continuations run, and each request is answered, by `xhr.timeout` at the latest. In `RouteChanges`: the timeout of `afterFrame` and the
timer of its callback fire; animation frames are not assumed. In `Agent`: a request ends somehow (answer,
error or timeout), the document completes and dispatches `load`, the timer after it fires and the microtask runs, unless the page
is left. No fairness is assumed of the application,
the user, or the network beyond that timeout.

## 4. Theorems

For any values of the constants that satisfy the modules' assumptions:

| module | theorem | states |
|---|---|---|
| `TransactionService_proof` | `TypeCorrect` | `Spec => []TypeOK` |
| | `OneManagedHolds`, `SpansAccountedHolds`, `ObserversFollowCurrentHolds`, `SettledOnceHolds`, `HiddenVerdictHolds` | `Spec => []…` for the invariants of the runs |
| | `NoForgottenFinishHolds`, `BlockingSpanHoldsAlways`, `ClosedAfterEndHolds` | `Spec => …` for the action properties of the runs |
| | `LifecycleImplemented` | `Spec` implements `TransactionLifecycle`, but for its fairness |
| `Instrumentation_proof` | `RouteTypeCorrect`, `FinishedOrHeldAlways` | `RouteSpec => []…` for every invariant of the run |
| | `ApiTypeCorrect`, `OutcomeAgreesAlways` | `ApiSpec => []ApiTypeOK`, `ApiSpec => []OutcomeAgrees` |
| | `OutcomesAreFinalHolds` | `ApiSpec => OutcomesAreFinal`, an action property |
| | `NothingHangsHolds` | `ApiSpec => []NothingHangs`, if no application starts a transaction of type `http-request` |
| `EventQueue_proof` | `TypeCorrect`, `EventsKeptHolds` | `Spec => []TypeOK`, `Spec => []EventsKept` |
| | `WaitingIsScheduledHolds` | `Spec => []WaitingIsScheduled`, if no filter and no serialisation throws |
| | `SentPerWindowBoundedHolds` | `Spec => []SentPerWindowBounded`, if the queue is `Calm` |
| | `DeliveryImplemented` | `Spec` implements `EventDelivery` but for its fairness, if no filter captures |
| `Report_proof` | `ReportTypeCorrect`, `OneSpanPerCallHolds`, `ExperienceAgreesHolds`, `EverySpanReportedHolds`, `TimesAgreeHolds` | `Spec => []…` for every invariant of the run |
| `Agent_proof` | `TypeCorrect`, `InitialisedOnceHolds`, `StoredAsPublishedHolds`, `SamplesAsPublishedHolds`, `NumberedInOrderHolds` | `Spec => []…` for every invariant of the run |
| `EventTargetPatch_proof` | `PatchTypeCorrect`, `WrapperIsFoundHolds`, `PendingIsRunningHolds` | `Spec => []…` for every invariant of the run |
| | `ImplementsEventTargetHolds` | `Spec => ImplementsEventTarget`: the whole refinement |
| `Payload_proof` | `TruncationAlwaysFits`, `WireAlwaysReadsBack` | `Spec => []…` for every invariant of the run |
| | `TruncationFitsAnyValues`, `WireReadsBackAnyValues` | the same of one event with any values at its paths |

The inductive invariant each of them follows from is a theorem of its own: `Invariance` (`IInv`), `CallInvariance` (`CInv`),
`RouteInvariance` (`RInv`), `ApiInvariance` (`AInv`), `DispatchInvariance` (`DInv`), or a lemma (`PlacedInvariance`, `TInvNext`);
in `Payload_proof` it is part of each theorem.

*TransactionService.* Assumes `ConstantsAssumption`: `NoTransaction` is no transaction, a span is not a task id, the calls are well formed.
None of the invariants is inductive. `IInv` adds what they rest on: `lastHiddenStart` is not
in the future, the current transaction was started, and `HeapInv`, which is stated of *any* heap, current transaction and
history, because the methods compose: in the middle of `StartManagedReplace` the heap is the one after `End`. Its parts:
active spans of a transaction are running and belong to it, and vice versa; a running managed transaction is the
current one; a non-empty recorder implies a current, unended transaction with the hook; the microtask queue has no
duplicates and exactly the ended transactions with the hook and no verdict; a transaction that runs or is pending is `exposed` iff
`lastHiddenStart` is not before its start. The last one is why the verdict is true: nothing moves `lastHiddenStart` while
a transaction is pending, for `Hide` is a macrotask.
The proof first says what each record operator does (`TruncateIs`, `CloseIs`, …); then, that each method keeps a heap well
formed and what it leaves alone (`EndOK`, `DetectFinishOK`, `RemoveTaskOK`, `SpanEndOK`, `OpenSpanOK`); then, that a method keeps
`HeapInv` (`CallKeepsHeapInv`, `CreateKeepsHeapInv`, `ManagedKeepsHeapInv`, `ReuseKeepsHeapInv`); then one lemma per group
of actions, and the theorems.

*Transactions: calls and lifecycle.* The second part of the module says exactly what each method does, where the first only says what it keeps. Every
call on a transaction gives it one new record and the spans new values, and then ends it or not (`Updated`); `Lawful` is what such a change may be: a
transaction ends only while it runs, and at once when the change leaves it nothing to wait for; an ended one keeps all but its
tasks. Each action of the service is one lawful call, or two, one after the other, on two transactions. The action properties follow
from `Lawful` and `CInv`, which adds to `IInv` that spans hold only their own transaction (`Held`) and that the current transaction is managed. The
same decomposition gives the steps of `TransactionLifecycle`.

*RouteChanges.* A step of an integration is, for the transactions, a step of the service or none (`ServiceStep`), so `CInv` and its action
properties carry over. `RInv` adds what is true of the references the integrations keep: each is to a managed transaction
that was started; a frame queues its callback once both of its timers are gone; and in Vue and Angular a callback that reads the transaction of
a later navigation finds its own ended (`EarlierEnded`), without which `FinishedOrHeld` is not inductive.

*ApiCalls.* One step starts or ends spans in the middle of a call, so the lemmas first follow the heap through it (`Sound`, `Follows`). `AInv` adds to
`CInv` which span belongs to which call (`CallSpans`), which listener to which call (`CallObjects`), that the last event of a request ends what it
still owes (`LastEventEnds`) and that the events still to come to a call that is not `mixed` are of its own
request and say how it ended (`EventsTell`): `OutcomeAgrees` alone is not inductive, since the outcome is taken from an event later. `NothingHangs` needs the hypothesis
`NoHttpStarts`: only `performance-monitoring.js:268` starts a transaction of type `http-request`. An application that started one by itself would find it idle
until a call came; the constants of the run satisfy the hypothesis.

*EventQueue.* `EventsKept` is not inductive, since a flush keeps its batch on the stack while a filter runs. `Keeping` adds: what is in the queue
is in every batch on the stack, but for what filters captured; and without such events there is at most one flush, of the
whole queue. Then `Clear` loses nothing else. `Counted` bounds the throttle's counter by the number of
events seen. Lemmas on `Range`, `Append` and `\o` come first. `WaitingIsScheduled` needs the assumption that
`StuckQueue` shows to be necessary.
`DeliveryImplemented` needs where an event is (`Placed`): waiting or in exactly one batch, never both; a filter that captures breaks
this, as `EventsKept` says. `SentPerWindowBounded` needs `Calm`, the constants of its run: pure filters, nothing that
throws, synchronous compression, a positive limit and a flush interval shorter than the throttle's (500 ms and 60 s in the
code). Its invariant `Windows` counts what was sent with what still waits: at most the `eventsLimit - 1` events the
previous window may have left, and those this one admitted. A full `Queue` limit only flushes earlier, so the theorem, unlike the run, is for any limit.
Where compression is asynchronous, the flush interval is longer than the window, or a filter throws and a full queue is flushed later, TLC finds more sent in
one window than the bound: what an earlier window left is posted late.

*Report.* `TInv` has the types (`Typed`), that a paint comes after the page is fetched (`PaintsLater`), that a transaction does not end before it starts
(`Timely`), and that its breakdown is measured when it is settled (`Measured`). `Called` adds that the spans of patched calls are distinct until
the report is made; those of the timeline are of the other calls. `Experienced` says, until the report is made, that the
long tasks counted are as many as the spans of long tasks and those counted earlier, with the time these took; the report adds none, and its adjusting keeps them (`Settles`).
`Reported` adds that until the report every span stands for one call; sorting, fitting and filtering then keep the number of the spans that last
for some time (`SortInside`, `FittedInside`, `AdjustKeeps`), and grouping keeps the sum of their counts (`GroupsKeep`).
The three parts of `TimesAgree` each have an invariant. `InstantsKept`: a mark and its instant differ by the start of the transaction, until the report and
after it. `Blocked` and `Prolonged`: long tasks come in order, and neither they nor the blocking time they add up to reach beyond the clock, so that
no span of the agent's ends after the instant at which `end()` is called. `TimeDivided`: the spans of a kind take as many instants as their durations add up to
(`KindsTake`), and the fold that computes the self time has, after each span in the order of the starts, counted the instants before the last end
that none of the spans seen so far covers (`Seen`, `ContinueSeen`); truncating the spans at the transaction's end changes no instant of it (`FittedInstants`).
All need what every operator on sequences of spans yields (`Timeline_proof`). These are folds, and
the library's induction over a fold cannot be cited. Hence `Stepwise`: what holds at 0 and is kept by each step holds up to `n`, since there is no least
counterexample (the natural numbers are well founded); `FoldExists`: the function by which a fold is defined exists; and one lemma for each fold
that says by which chain of values it gets to its result. `TimingAssumption` says that the values of `performance.timing` are natural numbers.

*Agent.* `IInv` is the types with one predicate of each page (`PageInv`: flags, request and page load agree; a page
that is not initialised, or inactive, is idle; a rate that was applied is that of its version, or any published one if the version has none) and one of each stored configuration (`StoredInv`).
`NumberedInOrder` needs a second invariant, `Order`: the stored session is the last one of the log, a page that no page load has
overtaken since its initialisation knows that session (`Numbered`), and no id is from the future (`Followed`), so that a new one is new.

*EventTargetPatch.* `Apart` is what `WrapperIsFound` lacks: no tasks before the patch, no wrapper 0, and no listener from before the
patch in the list together with a task for it. With it, a listener and phase are listed under one callback only (`NoTask`, `WithTask`),
so that the page and the browser list the same indices (`SameListed`) and each call of a patched method is one of the page's
(`AddRefines`, `RemoveRefines`, `StepRefines`). `SeenIs` and `SeenAppend` relate the two lists.
`PendingIsRunning` says that there is an increasing function from the pending SCHEDULEs to the dispatches that run a wrapper, onto them; each step
keeps it, extends it by the innermost dispatch, or cuts that off (`DInv`).

*Payload.* Assumes that `KeywordLimit` is positive (`KEYWORD_LIMIT` is 1024): with a limit of 0 a required value would be shortened to nothing. The hazard of
`TruncationFits` is that a nested model whose object is missing is applied to the event itself, with its keys and its `required`. What makes
it harmless is not in any one rule but in the order of the models and in what is captured, which is what `Suits` says: a nested model falls back
to the event, never to an object between (`Nests`); what is required by name is always captured; and the one rule that requires
all of an object, `destination.service`, either has its object or comes after the rule for all of the missing `http.response`, which has by then dropped the
empty values of the event that it would have filled. From `Suits` the proof goes rule by rule (`RuleApplied`, `ModelApplied`): what a rule
concerned is within the limit, what is gone was empty and of a rule, the placeholder stands where a rule required an empty value. `CapturedSuits` shows that the
models suit the events. The run has one odd value in each event; `TruncationFitsAnyValues` and `WireReadsBackAnyValues` have no such bound, every value at
every path may be empty, undefined, long or of another type.
`WireReadsBack` is first a statement about names (`CapturedNamed`): each name a path gets is key by key that of `V3_MAPPING` or, for three marks of the
agent, that of the mark of the navigation it repeats (`Copies`); and each path has one but those `PathLeftOut` lists. What was sent then reads back if a mark and
its copy are alike after truncation (`TruncatedAlike`): both are numbers or undefined, truncation changes no number, and the model requires nothing among the marks
(`TransactionRules`), for otherwise one of them could become the placeholder.

*Only model-checked:* all liveness (fairness and `ENABLED` are beyond the prover): the fairness that
`ImplementsLifecycle` and `ImplementsDelivery` ask for, `ThrottleOpens`, `RouteChangeEnds` and `PageLoadSettles`.

## 5. Not modelled

- **Data without consequences:** names of transactions and routes, random ids, log levels, headers of distributed tracing, formatting, parsing of URLs and
  of stack traces. Performance metrics of the browser are entries with a time and a duration.
- **Data that late calls write:** a context, an outcome or a label that reaches a span after its end (`span.js:44`, `performance-monitoring.js:329`), marks, labels and contexts
  of an ended transaction (`transaction.js:59`, `span-base.js:67`), and the name, type and end time that OpenTracing writes after `end()`
  (`opentracing/span.js:93`). The code does not check `ended` there, so they are reported if they come before the microtask; `ClosedAfterEnd` says nothing of them.
- **Several page loads:** `Report` has one transaction whose report is made; of the earlier ones only what they left in `metrics`. A transaction that is given an end before
  its start, which the code does not refuse, is left out: its duration is negative (`filterTransaction` only drops one of 0).
- **The page's end:** `beforeunload`/unload and the loss of the queue with the page. In `Agent` a page may be left at any moment.
- **Observers of the agent's events that call it again** while an event is being sent; the application's calls come before or after.
  `event-handler.js` itself is a list of functions called in order, and nothing in the agent removes one.
- **OpenTracing:** its calls to `startTransaction`, `startSpan` and `end` are calls `TransactionService` already allows. (`Span._finish` writes the
  span's end after `end()`, and the tracer a start after the creation, as `AppSpan` of `Report` allows.)
- **A fetch that is implemented over XMLHttpRequest** (`fetchInProgress`), and requests marked with `XHR_IGNORE`.
- **Late timers:** a timer fires on the tick it is due; its order among the other events of that tick is free.
- **Aborting a request from inside its own listener** before the other listeners of the same event have run.
- **Storage that throws** (a full or forbidden `localStorage`): the code ignores it, and the agent then behaves as if nothing were stored.
- Build, test and release tooling.

## 6. Plan

Done: the modules of section 2, and theorems for every safety property of the runs. Next, in this order:

1. A fetch that is implemented over XMLHttpRequest (`fetchInProgress`), in `ApiCalls`.
2. Filters that change the events they keep, in `EventQueue`; then whether `SentPerWindowBounded` needs that nothing throws while it is serialised.
