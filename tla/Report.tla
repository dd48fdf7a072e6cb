------------------------------- MODULE Report -------------------------------
(***************************************************************************)
(* What is reported of one transaction: the performance entries that are   *)
(* observed while it runs (rum-core/src/performance-monitoring/metrics.js) *)
(* and, when it has ended, the microtask that adds the browser's timeline  *)
(* to it (capture-navigation.js), fits its times to its spans              *)
(* (transaction-service.js: adjustTransactionTime), measures where the     *)
(* time went (breakdown.js), drops and groups spans, and decides whether   *)
(* there is a payload (performance-monitoring.js).                         *)
(*                                                                         *)
(* The clock counts from the start of the navigation.  A span is the       *)
(* record of a Span that has ended; what starts, ends and discards         *)
(* transactions and spans is in TransactionService.                        *)
(***************************************************************************)
EXTENDS Integers, SequencesExt

CONSTANTS
    Bootstrap,              \* state.bootstrapTime: modules are patched
    LongTaskThreshold,      \* LONG_TASK_THRESHOLD
    UserTimingThreshold,    \* USER_TIMING_THRESHOLD
    MaxSpanDuration,        \* MAX_SPAN_DURATION
    DurationThreshold,      \* TRANSACTION_DURATION_THRESHOLD
    SimilarParts,           \* 1 / SIMILAR_SPAN_TO_TRANSACTION_RATIO
    Timings,                \* what performance.timing may be
    Starts,                 \* types of transactions, and whether sampled
    Initiators,             \* initiatorType of the page's requests
    MaxTime,                \* bound of the clock
    Mixes                   \* bounds of the entries, spans and marks, by sort

Types == {"page-load", "route-change", "custom"}
Sorts == {"longtask", "vital", "request", "measure", "app", "external", "mark"}

ASSUME ReportAssumption ==
    /\ {Bootstrap, LongTaskThreshold, UserTimingThreshold, MaxSpanDuration,
        DurationThreshold, MaxTime} \subseteq Nat
    /\ Mixes \subseteq [Sorts -> Nat]
    /\ Starts \subseteq Types \X BOOLEAN
    /\ SimilarParts \in Nat \ {0}

VARIABLES
    clock,      \* performance.now()
    timing,     \* performance.timing, as times since the navigation start
    tr,         \* the Transaction
    observed,   \* entries the PerformanceObserver has not delivered yet
    metrics,    \* the metrics object of metrics.js, one for all transactions
    resources,  \* performance.getEntriesByType("resource")
    measures,   \* performance.getEntriesByType("measure")
    payload,    \* what addTransaction is called with, or NoPayload
    endedAt,    \* history: the transaction's _end when end() returned
    marked,     \* history: the instants of the custom marks
    raw,        \* history: the spans before their times were adjusted
    earlier,    \* history: long tasks counted by earlier transactions
    entries     \* entries, spans and marks so far, by sort

vars == <<clock, timing, tr, observed, metrics, resources, measures, payload,
          endedAt, marked, raw, earlier, entries>>

Kinds == {"app", "external", "longtask", "first-input", "resource",
          "hard-navigation"}
PatchedInitiators == {"xmlhttprequest", "fetch"}
RESOURCE_INITIATOR_TYPES == PatchedInitiators \cup {"script"}

(* A Span: kind is its type, name what else isContinuouslySimilar compares, *)
(* call the request it was made for; count is the "3x" of a grouped span    *)
Span(kind, name, start, end, call) ==
    [kind |-> kind, name |-> name, start |-> start, end |-> end, call |-> call,
     count |-> 1, truncated |-> FALSE]

(* getDuration *)
Duration(x) == x.end - x.start

NoPayload == [sent |-> FALSE]
NoMetrics == [fcp |-> 0, fid |-> 0, cls |-> 0,
              tbtStart |-> MaxTime + 1, tbt |-> 0,  \* MaxTime + 1: Infinity
              count |-> 0, sum |-> 0, max |-> 0]

MaxOf(a, b) == IF a >= b THEN a ELSE b
MinOf(a, b) == IF a <= b THEN a ELSE b
Sum(s) == FoldLeft(+, 0, s)
Map(Op(_), s) == [i \in DOMAIN s |-> Op(s[i])]

(* The elements of s that are in T, in their order; Array.filter *)
KeepIf(T, t, x) == IF x \in T THEN Append(t, x) ELSE t
Only(s, T) == FoldLeft(LAMBDA t, x : KeepIf(T, t, x), <<>>, s)

(* Array.sort by start, which is stable *)
Insert(s, x) ==
    InsertAt(s, 1 + Max({0} \cup {i \in DOMAIN s : s[i].start <= x.start}), x)
SortByStart(spans) == FoldLeft(Insert, <<>>, spans)

Init ==
    /\ clock = 0
    /\ timing \in Timings
    /\ tr = [status |-> "unstarted", type |-> "custom", sampled |-> FALSE,
             start |-> 0, end |-> 0, spans |-> <<>>, custom |-> <<>>,
             navigation |-> {}, agent |-> {}, experience |-> NoMetrics,
             breakdown |-> {}]
    /\ observed = <<>>
    /\ metrics = NoMetrics
    /\ resources = <<>>
    /\ measures = <<>>
    /\ payload = NoPayload
    /\ endedAt = 0
    /\ marked = <<>>
    /\ raw = <<>>
    /\ earlier = <<>>
    /\ entries = [sort \in Sorts |-> 0]

Managed(t) == t.type # "custom"
\* set when a sampled transaction is started as a managed one
CaptureTimings(t) == Managed(t) /\ t.sampled
IsPageLoad(t) == t.type = "page-load"
Running == tr.status = "running"
-----------------------------------------------------------------------------
(* The browser and the application while the page is used *)

Entry(sort) ==
    /\ tr.status \in {"unstarted", "running"}
    /\ entries' = [entries EXCEPT ![sort] = @ + 1]
    /\ \E mix \in Mixes : \A k \in Sorts : entries'[k] <= mix[k]

Start(type, sampled) ==
    /\ tr.status = "unstarted" /\ clock > Bootstrap
    /\ tr' = [tr EXCEPT !.status = "running", !.type = type,
                        !.sampled = sampled, !.start = clock]
    /\ UNCHANGED <<clock, timing, observed, metrics, resources, measures,
                   payload, endedAt, marked, raw, earlier, entries>>

Tick ==
    /\ clock < MaxTime /\ tr.status \in {"unstarted", "running"}
    /\ clock' = clock + 1
    /\ UNCHANGED <<timing, tr, observed, metrics, resources, measures, payload,
                   endedAt, marked, raw, earlier, entries>>

(* A task keeps the main thread for d; only same-origin ones block *)
LongTask(d, name) ==
    /\ Entry("longtask")
    /\ clock + d <= MaxTime
    /\ clock' = clock + d
    /\ observed' = Append(observed, [type |-> "longtask", name |-> name,
                                     start |-> clock, duration |-> d])
    /\ UNCHANGED <<timing, tr, metrics, resources, measures, payload, endedAt,
                   marked, raw, earlier>>

(* A paint, an input that waited for d, a shift of the layout; nothing is   *)
(* painted before the document is fetched                                   *)
Vital(type, d) ==
    /\ Entry("vital")
    /\ d <= clock
    /\ type # "first-input" => d = 0
    /\ type \in {"paint", "largest-contentful-paint"} =>
          clock > timing["fetchStart"] - timing["navigationStart"]
    /\ observed' = Append(observed, [type |-> type, name |-> type,
                                     start |-> clock - d, duration |-> d])
    /\ UNCHANGED <<clock, timing, tr, metrics, resources, measures, payload,
                   endedAt, marked, raw, earlier>>

(* A request that was sent at s and fetched from f on is over.  If it was   *)
(* sent through a patched function it has a span of its own.                *)
Request(initiator, s, f) ==
    /\ Entry("request")
    /\ s <= f /\ f < clock
    /\ resources' = Append(resources, [initiator |-> initiator, start |-> f,
                                       end |-> clock])
    /\ tr' = IF /\ initiator \in PatchedInitiators /\ s > Bootstrap
                /\ Running /\ s >= tr.start
             THEN [tr EXCEPT !.spans = Append(@, Span("external", "GET", s,
                                                  clock, Len(resources) + 1))]
             ELSE tr
    /\ UNCHANGED <<clock, timing, observed, metrics, measures, payload,
                   endedAt, marked, raw, earlier>>

Measure(s) ==
    /\ Entry("measure")
    /\ s <= clock
    /\ measures' = Append(measures, [start |-> s, duration |-> clock - s])
    /\ UNCHANGED <<clock, timing, tr, observed, metrics, resources, payload,
                   endedAt, marked, raw, earlier>>

(* A span of the application; both its times may be given (startTime, end)  *)
AppSpan(kind, s, e) ==
    /\ Entry(kind) /\ Running
    /\ s <= clock /\ s <= e
    /\ tr' = [tr EXCEPT !.spans = Append(@, Span(kind, kind, s, e, 0))]
    /\ UNCHANGED <<clock, timing, observed, metrics, resources, measures,
                   payload, endedAt, marked, raw, earlier>>

Mark ==
    /\ Entry("mark") /\ Running
    /\ tr' = [tr EXCEPT !.custom = Append(@, clock - tr.start)]
    /\ marked' = Append(marked, clock)
    /\ UNCHANGED <<clock, timing, observed, metrics, resources, measures,
                   payload, endedAt, raw, earlier>>

-----------------------------------------------------------------------------
(* metrics.js: the observer's callback *)

OfType(list, type) == Only(list, {e \in Range(list) : e.type = type})

createLongTaskSpans(list) ==
    Map(LAMBDA e : Span("longtask", e.name, e.start, e.start + e.duration, 0),
        list)

AddLongTask(a, e) ==
    [a EXCEPT !.count = @ + 1, !.sum = @ + e.duration,
              !.max = MaxOf(e.duration, @)]

\* Mutant of AggregateLongTasks: each delivery starts anew
AggregateLongTasksAnew(m, list) ==
    FoldLeft(AddLongTask, [m EXCEPT !.count = 0, !.sum = 0, !.max = 0], list)

AggregateLongTasks(m, list) == FoldLeft(AddLongTask, m, list)

createFirstInputDelaySpan(fid) ==
    IF fid = <<>> THEN <<>>
    ELSE <<Span("first-input", "fid", fid[1].start,
                fid[1].start + fid[1].duration, 0)>>

BlockedFrom(start, e) == MinOf(start, e.start)

AddBlocking(a, e) ==
    [a EXCEPT !.tbtStart = BlockedFrom(@, e),
              !.tbt = @ + MaxOf(0, e.duration - LongTaskThreshold)]

calculateTotalBlockingTime(m, list) ==
    FoldLeft(AddBlocking, m,
             Only(list, {e \in Range(list) :
                           e.start >= m.fcp /\ e.name # "cross-origin"}))

(* The first paint, less the unload handler's share *)
FirstPaint(list) ==
    LET paints == OfType(list, "paint")
        unloadDiff == timing["fetchStart"] - timing["navigationStart"]
    IN  IF paints = <<>> THEN {}
        ELSE {IF unloadDiff >= 0 THEN paints[1].start - unloadDiff
              ELSE paints[1].start}

captureVitals(m, list, tasks) ==
    LET fcp == FirstPaint(list)
        fid == OfType(list, "first-input")
        seen == [m EXCEPT !.fcp = IF fcp = {} THEN @ ELSE CHOOSE x \in fcp : TRUE,
                          !.fid = IF fid = <<>> THEN @ ELSE fid[1].duration]
    IN  [calculateTotalBlockingTime(seen, tasks)
           EXCEPT !.cls = @ + Len(OfType(list, "layout-shift"))]

(* A managed transaction that ran from an instant on, before this one was  *)
(* started, counts the long tasks since then (a page load starts late when  *)
(* the central configuration is awaited).  Nothing resets the metrics, and  *)
(* what is observed stays buffered for the observer of the next one.        *)
EarlierObserve(from) ==
    LET tasks == Only(observed, {e \in Range(observed) \ Range(earlier) :
                                   e.type = "longtask" /\ e.start >= from})
    IN  /\ tr.status = "unstarted" /\ Bootstrap < from /\ from <= clock
        /\ tasks # <<>>
        /\ metrics' = AggregateLongTasks(metrics, tasks)
        /\ earlier' = earlier \o tasks
        /\ UNCHANGED <<clock, timing, tr, observed, resources, measures, payload,
                       endedAt, marked, raw, entries>>

(* captureObserverEntries, from the callback of the recorder: the buffered  *)
(* entries are delivered together                                           *)
Observe ==
    LET from == IF IsPageLoad(tr) THEN 0 ELSE tr.start
        tasks == Only(observed, {e \in Range(observed) :
                                   e.type = "longtask" /\ e.start >= from})
        counted == AggregateLongTasks(metrics, tasks)
        fid == createFirstInputDelaySpan(OfType(observed, "first-input"))
        lcp == OfType(observed, "largest-contentful-paint")
    IN  /\ Running /\ observed # <<>>
        /\ observed' = <<>>
        /\ IF ~CaptureTimings(tr) THEN UNCHANGED <<tr, metrics>>
           ELSE IF ~IsPageLoad(tr)
           THEN /\ metrics' = counted
                /\ tr' = [tr EXCEPT !.spans = @ \o createLongTaskSpans(tasks)]
           ELSE /\ metrics' = captureVitals(counted, observed, tasks)
                /\ tr' = [tr EXCEPT
                     !.spans = @ \o createLongTaskSpans(tasks) \o fid,
                     !.agent = @ \cup {<<"fcp", t>> : t \in FirstPaint(observed)}
                         \cup (IF lcp = <<>> THEN {}
                               ELSE {<<"lcp", Last(lcp).start>>})]
        /\ UNCHANGED <<clock, timing, resources, measures, payload, endedAt,
                       marked, raw, earlier, entries>>

(* The transaction ends: the recorder is disconnected and its continuation  *)
(* waits in the microtask queue.  Whoever ends it may give the end, be it a *)
(* managed transaction (OpenTracing's are) or not.                          *)
End(endTime) ==
    /\ Running
    /\ endTime >= tr.start
    /\ tr' = [tr EXCEPT !.status = "ended", !.end = endTime]
    /\ endedAt' = endTime
    /\ observed' = <<>>
    /\ UNCHANGED <<clock, timing, metrics, resources, measures, payload, marked,
                   raw, earlier, entries>>

-----------------------------------------------------------------------------
(* capture-navigation.js *)

shouldCreateSpan(start, end, trStart, trEnd, baseTime) ==
    /\ start >= baseTime
    /\ end > start
    /\ start - baseTime >= trStart
    /\ end - baseTime <= trEnd
    /\ \A d \in {end - start, start - baseTime, end - baseTime} :
          d < MaxSpanDuration

eventPairs ==
    << <<"domainLookupStart", "domainLookupEnd">>,
       <<"connectStart", "connectEnd">>,
       <<"requestStart", "responseEnd">>,
       <<"domLoading", "domInteractive">>,
       <<"domContentLoadedEventStart", "domContentLoadedEventEnd">>,
       <<"loadEventStart", "loadEventEnd">> >>

createNavigationTimingSpans(baseTime, trStart, trEnd) ==
    LET Occurred == {p \in Range(eventPairs) :
                       shouldCreateSpan(timing[p[1]], timing[p[2]], trStart,
                                        trEnd, baseTime)}
    IN  Map(LAMBDA p : Span("hard-navigation", p[1], timing[p[1]] - baseTime,
                            timing[p[2]] - baseTime, 0),
            Only(eventPairs, Occurred))

\* Mutant of isCapturedByPatching: the comparison the other way round
isCapturedBeforePatching(resourceStartTime) == resourceStartTime < Bootstrap

isCapturedByPatching(resourceStartTime) == resourceStartTime > Bootstrap

createResourceTimingSpans(trStart, trEnd) ==
    LET Wanted(e) ==
            /\ e.initiator \in RESOURCE_INITIATOR_TYPES
            /\ ~ /\ e.initiator \in PatchedInitiators
                 /\ isCapturedByPatching(e.start)
            /\ shouldCreateSpan(e.start, e.end, trStart, trEnd, 0)
    IN  Map(LAMBDA i : Span("resource", resources[i].initiator,
                            resources[i].start, resources[i].end, i),
            Only([i \in DOMAIN resources |-> i],
                 {i \in DOMAIN resources : Wanted(resources[i])}))

createUserTimingSpans(trStart, trEnd) ==
    LET Long == {e \in Range(measures) :
                   /\ e.duration > UserTimingThreshold
                   /\ shouldCreateSpan(e.start, e.start + e.duration, trStart,
                                       trEnd, 0)}
    IN  Map(LAMBDA e : Span("app", "measure", e.start, e.start + e.duration, 0),
            Only(measures, Long))

NAVIGATION_TIMING_MARKS ==
    (UNION {{p[1], p[2]} : p \in Range(eventPairs)})
      \cup {"fetchStart", "responseStart", "domComplete"}

\* unsigned long long, and 0 for what has not happened
ASSUME TimingAssumption ==
    Timings \subseteq [NAVIGATION_TIMING_MARKS \cup {"navigationStart"} -> Nat]

(* What the browser reports is discarded when it is known to be wrong *)
getNavigationTimingMarks ==
    LET fetchStart == timing["fetchStart"]
    IN  IF /\ fetchStart >= timing["navigationStart"]
           /\ timing["responseStart"] >= fetchStart
           /\ timing["responseEnd"] >= timing["responseStart"]
        THEN {<<k, timing[k] - fetchStart>> :
                k \in {n \in NAVIGATION_TIMING_MARKS :
                         timing[n] # 0 /\ timing[n] >= fetchStart}}
        ELSE {}

(* timeToFirstByte, domInteractive and domComplete *)
AgentMarks == {m \in getNavigationTimingMarks :
                 m[1] \in {"responseStart", "domInteractive", "domComplete"}}

(* A page load begins with the navigation, and so do its marks *)
AtNavigationStart(t) ==
    [t EXCEPT !.custom = Map(LAMBDA m : m + t.start, @), !.start = 0]

captureNavigation(t) ==
    LET hard == IF ~IsPageLoad(t) THEN t ELSE
            [AtNavigationStart(t) EXCEPT
               !.spans = @ \o createNavigationTimingSpans(
                                  timing["fetchStart"], 0, t.end),
               !.navigation = getNavigationTimingMarks,
               !.agent = @ \cup AgentMarks]
    IN  IF ~CaptureTimings(t) THEN t
        ELSE [hard EXCEPT
                !.spans = @ \o createResourceTimingSpans(hard.start, t.end)
                            \o createUserTimingSpans(hard.start, t.end)]

-----------------------------------------------------------------------------
(* transaction-service.js: handleTransactionEnd, adjustTransactionTime *)

createTotalBlockingTimeSpan ==
    Span("longtask", "tbt", metrics.tbtStart, metrics.tbtStart + metrics.tbt, 0)

(* The total blocking time and the experience of a page load *)
AddExperience(t) ==
    IF ~(IsPageLoad(t) /\ CaptureTimings(t)) THEN t
    ELSE [t EXCEPT !.experience = metrics,
                   !.spans = IF metrics.tbt > 0
                             THEN Append(@, createTotalBlockingTimeSpan) ELSE @]

getLatestNonXHRSpan(spans) ==
    {s.end : s \in {x \in Range(spans) : x.kind # "external"}}

getEarliestSpan(spans) == {s.start : s \in Range(spans)}

FitToSpans(t) ==
    [t EXCEPT !.start = Min({@} \cup getEarliestSpan(t.spans)),
              !.end = Max({@} \cup getLatestNonXHRSpan(t.spans))]

\* Mutant of TruncateAt: a span that starts after the end is left there
TruncateEndAt(s, end) ==
    [s EXCEPT !.end = MinOf(@, end), !.truncated = @ \/ s.end > end]

TruncateAt(s, end) ==
    [s EXCEPT !.end = MinOf(@, end), !.start = MinOf(@, end),
              !.truncated = @ \/ s.end > end]

adjustTransactionTime(t) ==
    LET fitted == FitToSpans(t)
    IN  [fitted EXCEPT !.spans = Map(LAMBDA s : TruncateAt(s, fitted.end), @)]

-----------------------------------------------------------------------------
(* breakdown.js *)

pageLoadBreakdowns ==
    {<<"domainLookupStart", "domainLookupEnd", "DNS">>,
     <<"connectStart", "connectEnd", "TCP">>,
     <<"requestStart", "responseStart", "Request">>,
     <<"responseStart", "responseEnd", "Response">>,
     <<"domLoading", "domComplete", "Processing">>,
     <<"loadEventStart", "loadEventEnd", "Load">>}

\* Mutant of Continue: a shorter span that starts later ends the cover
ContinueWith(a, s) ==
    [self |-> a.self + MaxOf(0, s.start - a.end), end |-> s.end]

(* One more span, in the order of their starts: a gap before it is self time *)
Continue(a, s) ==
    IF s.start > a.end
    THEN [self |-> a.self + s.start - a.end, end |-> s.end]
    ELSE [a EXCEPT !.end = MaxOf(@, s.end)]

calculateSelfTime(t) ==
    LET sorted == SortByStart(t.spans)
        first == [self |-> sorted[1].start - t.start, end |-> sorted[1].end]
        all == FoldLeft(Continue, first, Tail(sorted))
    IN  IF t.spans = <<>> THEN Duration(t)
        ELSE all.self + MaxOf(0, t.end - all.end)

(* The spans of each type; the transaction's self time goes with "app" *)
groupSpans(t) ==
    LET Timed(k) == Only(t.spans, {s \in Range(t.spans) :
                                     s.kind = k /\ Duration(s) # 0})
        Self(k) == IF k = "app" THEN [count |-> 1, duration |-> calculateSelfTime(t)]
                   ELSE [count |-> 0, duration |-> 0]
        Samples(k) == [type |-> k, count |-> Self(k).count + Len(Timed(k)),
                       duration |-> Self(k).duration + Sum(Map(Duration, Timed(k)))]
    IN  {Samples(k) : k \in {x \in Kinds : x = "app" \/ Timed(x) # <<>>}}

captureBreakdown(t) ==
    IF ~t.sampled THEN t
    ELSE IF IsPageLoad(t)
    THEN [t EXCEPT !.breakdown =
            {[type |-> p[3], count |-> 1, duration |-> timing[p[2]] - timing[p[1]]] :
               p \in {q \in pageLoadBreakdowns : timing[q[2]] # timing[q[1]]}}]
    ELSE [t EXCEPT !.breakdown = groupSpans(t), !.spans = SortByStart(@)]

-----------------------------------------------------------------------------
(* performance-monitoring.js *)

isContinuouslySimilar(last, s, transDuration) ==
    /\ \A f \in {"kind", "name", "truncated"} : last[f] = s[f]
    /\ Duration(s) * SimilarParts < transDuration
    /\ (s.start - last.end) * SimilarParts < transDuration

\* Mutant of Join: the span that is joined is not counted
JoinUncounted(last, s) == [last EXCEPT !.end = s.end]

Join(last, s) == [last EXCEPT !.end = s.end, !.count = @ + 1]

(* One more span: it is joined to the last one, if that is similar *)
Group(transDuration, groups, s) ==
    IF groups # <<>> /\ isContinuouslySimilar(Last(groups), s, transDuration)
    THEN Append(Front(groups), Join(Last(groups), s))
    ELSE Append(groups, s)

GroupSorted(sorted, transDuration) ==
    FoldLeft(LAMBDA groups, s : Group(transDuration, groups, s), <<>>, sorted)

groupSmallContinuouslySimilarSpans(spans, transDuration) ==
    GroupSorted(SortByStart(spans), transDuration)

adjustTransaction(t) ==
    LET inside == Only(t.spans, {s \in Range(t.spans) :
                       Duration(s) > 0 /\ s.start >= t.start /\ s.end <= t.end})
    IN  [t EXCEPT !.spans =
           IF ~t.sampled THEN <<>>
           ELSE IF Managed(t)
           THEN groupSmallContinuouslySimilarSpans(inside, Duration(t))
           ELSE inside]

filterTransaction(t) ==
    /\ Duration(t) # 0
    /\ Managed(t) => /\ Duration(t) <= DurationThreshold
                     /\ t.sampled => t.spans # <<>>

createTransactionDataModel(t) ==
    [sent |-> TRUE, type |-> t.type, duration |-> Duration(t),
     spans |-> Map(LAMBDA s : [kind |-> s.kind, count |-> s.count,
                               start |-> s.start - t.start,
                               duration |-> Duration(s)], t.spans),
     breakdown |-> t.breakdown, experience |-> t.experience]

(* The continuation of handleTransactionEnd, with the listener of           *)
(* TRANSACTION_END that createTransactionPayload runs in                    *)
Settle(breakdownMetrics) ==
    LET captured == captureNavigation(AddExperience(tr))
        timed == adjustTransactionTime(captured)
        measured == IF breakdownMetrics THEN captureBreakdown(timed) ELSE timed
        adjusted == adjustTransaction(measured)
    IN  /\ tr.status = "ended"
        /\ tr' = [adjusted EXCEPT !.status = "settled"]
        /\ raw' = captured.spans
        /\ payload' = IF filterTransaction(adjusted)
                      THEN createTransactionDataModel(adjusted) ELSE NoPayload
        /\ UNCHANGED <<clock, timing, observed, metrics, resources, measures,
                       endedAt, marked, earlier, entries>>

Next ==
    \/ \E start \in Starts : Start(start[1], start[2])
    \/ Tick
    \/ \E d \in 1 .. MaxTime, name \in {"self", "cross-origin"} : LongTask(d, name)
    \/ \E d \in 0 .. MaxTime, type \in {"paint", "largest-contentful-paint",
                                        "first-input", "layout-shift"} :
          Vital(type, d)
    \/ \E i \in Initiators, s \in 0 .. MaxTime : \E f \in {s, s + 1} :
          Request(i, s, f)
    \/ \E s \in 0 .. MaxTime : Measure(s)
    \/ \E kind \in {"app", "external"}, s \in 0 .. MaxTime :
          \E e \in {clock, clock + 1} : AppSpan(kind, s, e)
    \/ Mark
    \/ \E from \in 0 .. MaxTime : EarlierObserve(from)
    \/ Observe
    \/ \E endTime \in {clock - 1, clock, clock + 1} : End(endTime)
    \/ \E breakdownMetrics \in BOOLEAN : Settle(breakdownMetrics)

Spec == Init /\ [][Next]_vars

-----------------------------------------------------------------------------
(* Properties *)

Settled == tr.status = "settled"

Numbers(r) == \A f \in DOMAIN r : r[f] \in Nat

(* Every time, duration and count is a number the intake accepts: none is   *)
(* negative, whatever the browser says; but the breakdown of a page load    *)
(* that ends before the page is complete has durations that are.            *)
ReportTypeOK ==
    /\ clock \in 0 .. MaxTime /\ entries \in [Sorts -> Nat]
    /\ Numbers(metrics)
    /\ {tr.start, tr.end, endedAt} \subseteq Nat
    /\ Range(tr.custom) \subseteq Nat
    /\ \A m \in tr.navigation \cup tr.agent : m[2] \in Nat
    /\ \A b \in tr.breakdown : IsPageLoad(tr) \/ b.duration \in Nat
    /\ \A s \in Range(tr.spans) :
          s.kind \in Kinds /\ {s.start, s.end} \subseteq Nat /\ s.start <= s.end

(* No span is lost on the way and each lies within its transaction: adding  *)
(* the timeline, adjusting the times, dropping empty spans and grouping     *)
(* similar ones leaves exactly the spans that last for some time of it.     *)
EverySpanReported ==
    (payload.sent /\ tr.sampled) =>
      /\ Sum(Map(LAMBDA s : s.count, payload.spans)) =
           Cardinality({i \in DOMAIN raw : raw[i].start < MinOf(raw[i].end, tr.end)})
      /\ \A s \in Range(payload.spans) :
            s.start >= 0 /\ s.duration > 0 /\ s.start + s.duration <= payload.duration

(* The breakdown of a soft navigation accounts for the time: the samples of *)
(* "app" are the instants that no span covers and those of spans of that    *)
(* type, and every other type has what its spans took.                      *)
TimeAccounted ==
    LET Covered(i) == \E s \in Range(raw) : s.start <= i /\ i < s.end
        Took(k) == Cardinality({p \in (tr.start .. tr.end - 1) \X DOMAIN raw :
                       /\ raw[p[2]].kind = k
                       /\ raw[p[2]].start <= p[1] /\ p[1] < raw[p[2]].end})
        self == Cardinality({i \in tr.start .. tr.end - 1 : ~Covered(i)})
    IN  (Settled /\ tr.breakdown # {} /\ ~IsPageLoad(tr)) =>
          \A b \in tr.breakdown :
             b.duration = Took(b.type) + (IF b.type = "app" THEN self ELSE 0)

(* A request is reported once: by the span of the patched call, or by the   *)
(* one made of its resource timing, never by both.                          *)
OneSpanPerCall ==
    \A c \in DOMAIN resources :
       Cardinality({i \in DOMAIN raw : raw[i].call = c}) <= 1

(* The marks of a page load stay at the instant they were set, although its *)
(* start is moved to that of the navigation.                                *)
MarksKeepInstant ==
    (Settled /\ IsPageLoad(tr) /\ tr.sampled) =>
      \A i \in DOMAIN marked : tr.start + tr.custom[i] = marked[i]

(* What the agent adds to a transaction never prolongs it beyond the        *)
(* instant at which it was ended, although the total blocking time is       *)
(* reported as a span of that length.  Its end moves only to that of a span *)
(* the application gave a later end or, if end() was given an earlier one,  *)
(* to a span of what the page did until end() was called.                   *)
OnlySpansProlong ==
    Settled => \/ tr.end \in {endedAt} \cup {s.end : s \in
                                {x \in Range(raw) : x.name = "app"}}
               \/ endedAt < tr.end /\ tr.end <= clock

(* The times agree: of the breakdown, of the marks and of the transaction *)
TimesAgree == TimeAccounted /\ MarksKeepInstant /\ OnlySpansProlong

(* The experience of a page load agrees with the long tasks: those counted  *)
(* are the ones it has spans of, with the time they took, and those that    *)
(* earlier transactions counted, which therefore count twice when it        *)
(* observes them too; the total blocking time is of its own ones only.      *)
ExperienceAgrees ==
    LET tasks == Only(raw, {s \in Range(raw) : s.kind = "longtask" /\ s.name # "tbt"})
        Time(spans) == Sum(Map(Duration, spans))
    IN  (Settled /\ IsPageLoad(tr) /\ tr.sampled) =>
          /\ tr.experience.count = Len(earlier) + Len(tasks)
          /\ tr.experience.sum = Time(createLongTaskSpans(earlier)) + Time(tasks)
          /\ tr.experience.tbt <= Time(tasks)
=============================================================================
