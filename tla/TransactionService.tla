------------------------ MODULE TransactionService ------------------------
(***************************************************************************)
(* Transactions, spans and the service that owns the current transaction   *)
(* (rum-core/src/performance-monitoring: transaction.js, span-base.js,     *)
(* span.js, transaction-service.js; rum-core/src/bootstrap.js, state.js).  *)
(*                                                                         *)
(* One action is one synchronous call into the agent, one event handler or *)
(* one microtask.  A call may end transactions and spans recursively; the  *)
(* operators of the first half are those methods, as functions from the    *)
(* heap before the call to the heap after it, and an action applies their  *)
(* composition in the order of the code.                                   *)
(*                                                                         *)
(* Any caller may call anything at any time: the application (public API,  *)
(* OpenTracing, framework integrations), the instrumentation callbacks of  *)
(* performance-monitoring.js and the page-load code of apm-base.js.        *)
(***************************************************************************)
EXTENDS Integers, Sequences, FiniteSets

CONSTANTS
    Transactions,       \* identities of the transactions ever created
    Spans,              \* identities of the spans ever created
    Tasks,              \* ids callers pass to addTask/removeTask
    NoTransaction,      \* JavaScript's undefined, for currentTransaction
    StartCalls,         \* the (type, options) callers pass to startTransaction
    ReuseThreshold,     \* REUSABILITY_THRESHOLD, in ticks of the clock
    SampledOutcomes,    \* possible results of Math.random() <= sampleRate
    PageLoadSampled,    \* config.pageLoadSampled
    MonitorLongtasks,   \* config.monitorLongtasks
    IgnoreOutcomes,     \* possible results of shouldIgnoreTransaction
    MaxClock            \* bound on the clock

(* TRANSACTION_TYPE_ORDER, the highest precedence first *)
TypeOrder == << "page-load", "route-change", "user-interaction",
                "http-request", "custom", "temporary" >>

(* indexOf: types the application invents ("user-defined") are not found *)
IndexOf(type) ==
    IF \E i \in DOMAIN TypeOrder : TypeOrder[i] = type
    THEN CHOOSE i \in DOMAIN TypeOrder : TypeOrder[i] = type
    ELSE -1

Types == {TypeOrder[i] : i \in DOMAIN TypeOrder} \cup {"user-defined"}

(* "vitals": the observers of page loads only, LCP, paint, FID and CLS *)
EntryTypes == {"longtask", "vitals"}

(* reuseThreshold 0: the option is not given *)
CallOptions == [type : Types, managed : BOOLEAN, canReuse : BOOLEAN,
                reuseThreshold : Nat]

ASSUME ConstantsAssumption ==
    /\ NoTransaction \notin Transactions
    /\ Spans \cap Tasks = {}
    /\ StartCalls \subseteq CallOptions
    /\ ReuseThreshold \in Nat \ {0}
    /\ SampledOutcomes \subseteq BOOLEAN
    /\ PageLoadSampled \in BOOLEAN
    /\ MonitorLongtasks \in BOOLEAN
    /\ IgnoreOutcomes \subseteq BOOLEAN
    /\ MaxClock \in Nat

VARIABLES
    tr,              \* the Transaction objects
    span,            \* the Span objects
    current,         \* TransactionService.currentTransaction
    recorder,        \* entry types the PerfEntryRecorder observes
    microtasks,      \* pending continuations of handleTransactionEnd, in order
    clock,           \* performance.now()
    lastHiddenStart, \* state.lastHiddenStart; -1 is MIN_SAFE_INTEGER
    visible,         \* document.visibilityState = "visible"
    sent,            \* TRANSACTION_END events sent for a transaction
    discarded,       \* reason its microtask returned early, or "no"
    announced,       \* history: TRANSACTION_START was sent for it
    exposed          \* history: the page became hidden while it was running, or
                     \*   at the tick it started

heapVars == <<tr, span, recorder, microtasks>>
pageVars == <<clock, lastHiddenStart, visible>>
history == <<announced, exposed>>
verdicts == <<sent, discarded>>
vars == <<heapVars, current, pageVars, verdicts, history>>

-----------------------------------------------------------------------------
(* The objects *)

TransactionRecord ==
    [status : {"unused", "running", "ended"},
     type : Types,
     managed : BOOLEAN,             \* options.managed
     canReuse : BOOLEAN,            \* options.canReuse
     reuseThreshold : Nat,          \* options.reuseThreshold
     start : Nat,                   \* _start
     sampled : BOOLEAN,
     captureTimings : BOOLEAN,
     blocked : BOOLEAN,
     activeSpans : SUBSET Spans,    \* _activeSpans
     activeTasks : SUBSET (Spans \cup Tasks),  \* _activeTasks
     timings : SUBSET EntryTypes,   \* entries the recorder added as spans, marks
     onEnd : BOOLEAN]               \* the onEnd hook is handleTransactionEnd

SpanRecord ==
    [status : {"unused", "running", "ended"},
     transaction : Transactions \cup {NoTransaction},
     truncated : BOOLEAN,           \* TRUNCATED_TYPE was appended by end()
     recorded : Nat]                \* times it was pushed on transaction.spans

Heap == [tr |-> tr, span |-> span, recorder |-> recorder,
         microtasks |-> microtasks]

Become(h) ==
    /\ tr' = h.tr
    /\ span' = h.span
    /\ recorder' = h.recorder
    /\ microtasks' = h.microtasks

(* One object of the heap replaced by another *)
PutTransaction(h, t, r) == [h EXCEPT !.tr[t] = r]

PutSpan(h, s, r) == [h EXCEPT !.span[s] = r]

Running(t) == tr[t].status = "running"

-----------------------------------------------------------------------------
(* transaction.js, span-base.js, span.js *)

NewTransaction(c, sampled) ==
    [status |-> "running", type |-> c.type, managed |-> c.managed,
     canReuse |-> c.canReuse, reuseThreshold |-> c.reuseThreshold,
     start |-> clock, sampled |-> sampled, captureTimings |-> FALSE,
     blocked |-> FALSE, activeSpans |-> {}, activeTasks |-> {},
     timings |-> {}, onEnd |-> FALSE]

Threshold(r) == IF r.reuseThreshold = 0 THEN ReuseThreshold ELSE r.reuseThreshold

CanReuse(r) ==
    /\ r.canReuse
    /\ r.status # "ended"
    /\ clock - r.start < Threshold(r)

(* extend(this.options, options): an option that is not given stays *)
Redefine(r, type, c) ==
    [r EXCEPT !.type = type,
              !.managed = c.managed,
              !.canReuse = c.canReuse,
              !.reuseThreshold = IF c.reuseThreshold = 0 THEN @ ELSE c.reuseThreshold]

(* Mutant: pending tasks do not hold a transaction *)
IsFinishedIgnoringTasks(r) == ~r.blocked

IsFinished(r) == ~r.blocked /\ r.activeTasks = {}

(* Mutant: the hook settles whatever is current, not the ended transaction *)
CallOnEndOfCurrent(h, t) ==
    IF h.tr[t].onEnd
    THEN [h EXCEPT !.recorder = {}, !.microtasks = Append(@, current)]
    ELSE h

(* Mutant: the recorder is not stopped *)
CallOnEndWithoutStop(h, t) ==
    IF h.tr[t].onEnd THEN [h EXCEPT !.microtasks = Append(@, t)] ELSE h

(* The synchronous part of handleTransactionEnd: stop the recorder, queue    *)
(* the rest as a microtask.                                                  *)
CallOnEnd(h, t) ==
    IF h.tr[t].onEnd
    THEN [h EXCEPT !.recorder = {}, !.microtasks = Append(@, t)]
    ELSE h

Truncate(r) == [r EXCEPT !.status = "ended", !.truncated = TRUE, !.recorded = @ + 1]

Close(r) == [r EXCEPT !.status = "ended",
                      !.activeTasks = @ \ r.activeSpans,
                      !.activeSpans = {}]

TruncateSpans(h, open) ==
    [h EXCEPT !.span = [s \in Spans |-> IF s \in open THEN Truncate(@[s]) ELSE @[s]]]

(* Mutant: end is not idempotent *)
EndAgain(h, t) ==
    CallOnEnd(PutTransaction(TruncateSpans(h, h.tr[t].activeSpans),
                             t, Close(h.tr[t])), t)

(* Transaction.end: every active span is truncated and ended, which records  *)
(* it and removes its task; the detectFinish of those removals calls end     *)
(* again and returns at once, for the transaction is marked ended first.     *)
End(h, t) ==
    IF h.tr[t].status = "ended" THEN h
    ELSE CallOnEnd(PutTransaction(TruncateSpans(h, h.tr[t].activeSpans),
                                  t, Close(h.tr[t])), t)

DetectFinish(h, t) == IF IsFinished(h.tr[t]) THEN End(h, t) ELSE h

Unregister(r, k) == [r EXCEPT !.activeTasks = @ \ {k}]

RemoveTaskOf(h, t, k) ==
    IF k \in h.tr[t].activeTasks
    THEN DetectFinish(PutTransaction(h, t, Unregister(h.tr[t], k)), t)
    ELSE h

Finished(r) == [r EXCEPT !.status = "ended", !.recorded = @ + 1]

Drop(r, s) == [r EXCEPT !.activeSpans = @ \ {s}]

(* Mutant: the ended span stays in _activeSpans *)
OnSpanEndKeepingActive(h, s) ==
    RemoveTaskOf(PutSpan(h, s, Finished(h.span[s])), h.span[s].transaction, s)

OnSpanEnd(h, s) ==
    LET t == h.span[s].transaction
    IN RemoveTaskOf(PutTransaction(PutSpan(h, s, Finished(h.span[s])),
                                   t, Drop(h.tr[t], s)), t, s)

(* SpanBase.end, reached through Span.end; it marks the span ended before    *)
(* the hook _onSpanEnd records it.  Span.end writes the span's context after *)
(* it, on a span that had ended, too: data this module does not hold.        *)
SpanEnd(h, s) == IF h.span[s].status = "ended" THEN h ELSE OnSpanEnd(h, s)

NewSpan(t) == [status |-> "running", transaction |-> t, truncated |-> FALSE,
               recorded |-> 0]

Adopt(r, s, blocking) ==
    [r EXCEPT !.activeSpans = @ \cup {s},
              !.activeTasks = IF blocking THEN @ \cup {s} ELSE @]

(* Transaction.startSpan after its check of ended *)
OpenSpan(h, t, s, blocking) ==
    PutTransaction(PutSpan(h, s, NewSpan(t)), t, Adopt(h.tr[t], s, blocking))

-----------------------------------------------------------------------------
(* transaction-service.js *)

(* getCurrentTransaction returns a transaction *)
HasCurrent == current # NoTransaction /\ tr[current].status # "ended"

(* The type a redefinition leaves: only a type of higher precedence replaces *)
(* a listed one.                                                             *)
RedefinedType(old, new) ==
    IF IndexOf(old) >= 0 /\ IndexOf(new) < IndexOf(old) THEN new ELSE old

(* The observers a transaction that was just created starts *)
StartedObservers(r) ==
    (IF r.type = "page-load" THEN {"vitals"} ELSE {})
      \cup (IF MonitorLongtasks THEN {"longtask"} ELSE {})

(* The end of startManagedTransaction and the hook startTransaction sets *)
Manage(r) ==
    LET isSampled == r.sampled \/ (r.type = "page-load" /\ PageLoadSampled)
    IN [r EXCEPT !.sampled = isSampled,
                 !.captureTimings = isSampled \/ @,
                 !.onEnd = TRUE]

(* A managed transaction that was just created *)
Managed(h, t, r) ==
    [PutTransaction(h, t, Manage(r)) EXCEPT !.recorder = @ \cup StartedObservers(r)]

Init ==
    /\ tr = [t \in Transactions |->
               [status |-> "unused", type |-> "custom", managed |-> FALSE,
                canReuse |-> FALSE, reuseThreshold |-> 0, start |-> 0,
                sampled |-> FALSE, captureTimings |-> FALSE, blocked |-> FALSE,
                activeSpans |-> {}, activeTasks |-> {}, timings |-> {},
                onEnd |-> FALSE]]
    /\ span = [s \in Spans |-> [status |-> "unused", transaction |-> NoTransaction,
                                truncated |-> FALSE, recorded |-> 0]]
    /\ current = NoTransaction
    /\ recorder = {}
    /\ microtasks = <<>>
    /\ clock = 1
    \* bootstrapPerf: the document may be loaded in a hidden tab
    /\ visible \in BOOLEAN
    /\ lastHiddenStart = IF visible THEN -1 ELSE 0
    /\ sent = [t \in Transactions |-> 0]
    /\ discarded = [t \in Transactions |-> "no"]
    /\ announced = [t \in Transactions |-> FALSE]
    /\ exposed = [t \in Transactions |-> FALSE]

(* History of a new transaction; announced when TRANSACTION_START is sent *)
Born(t, hook) ==
    /\ announced' = [announced EXCEPT ![t] = hook]
    /\ exposed' = [exposed EXCEPT ![t] = lastHiddenStart = clock]

(* startTransaction with managed, no current transaction: create it *)
StartManagedNew(c, t, sampled) ==
    /\ c.managed
    /\ ~HasCurrent
    /\ tr[t].status = "unused"
    /\ current' = t
    /\ Become(Managed(Heap, t, NewTransaction(c, sampled)))
    /\ Born(t, TRUE)
    /\ UNCHANGED <<pageVars, verdicts>>

(* startTransaction with managed, the current one is reused: no event *)
StartManagedReuse(c) ==
    /\ c.managed
    /\ HasCurrent
    /\ CanReuse(tr[current]) /\ c.canReuse
    /\ LET r == tr[current]
       IN Become(PutTransaction(Heap, current,
                   Manage(Redefine(r, RedefinedType(r.type, c.type), c))))
    /\ UNCHANGED <<current, pageVars, verdicts, history>>

(* Mutant: the replaced transaction is not ended *)
StartManagedWithoutEnd(c, t, sampled) ==
    /\ c.managed
    /\ HasCurrent
    /\ ~(CanReuse(tr[current]) /\ c.canReuse)
    /\ tr[t].status = "unused"
    /\ current' = t
    /\ Become(Managed(Heap, t, NewTransaction(c, sampled)))
    /\ Born(t, TRUE)
    /\ UNCHANGED <<pageVars, verdicts>>

(* startTransaction with managed, the current one is ended and replaced *)
StartManagedReplace(c, t, sampled) ==
    /\ c.managed
    /\ HasCurrent
    /\ ~(CanReuse(tr[current]) /\ c.canReuse)
    /\ tr[t].status = "unused"
    /\ current' = t
    /\ Become(Managed(End(Heap, current), t, NewTransaction(c, sampled)))
    /\ Born(t, TRUE)
    /\ UNCHANGED <<pageVars, verdicts>>

(* startTransaction without managed: never the current transaction *)
StartUnmanaged(c, t, sampled) ==
    /\ ~c.managed
    /\ tr[t].status = "unused"
    /\ Become(PutTransaction(Heap, t, [NewTransaction(c, sampled) EXCEPT !.onEnd = TRUE]))
    /\ Born(t, TRUE)
    /\ UNCHANGED <<current, pageVars, verdicts>>

StartTransaction ==
    \E c \in StartCalls :
        \/ StartManagedReuse(c)
        \/ \E t \in Transactions, sampled \in SampledOutcomes :
              \/ StartManagedNew(c, t, sampled)
              \/ StartManagedReplace(c, t, sampled)
              \/ StartUnmanaged(c, t, sampled)

(* TransactionService.startSpan without a current transaction creates a      *)
(* temporary one: no onEnd hook, no recorder, no event.                      *)
Temporary == [type |-> "temporary", managed |-> TRUE, canReuse |-> TRUE,
              reuseThreshold |-> 0]

StartTemporary(s, blocking, t, sampled) ==
    /\ ~HasCurrent
    /\ tr[t].status = "unused"
    /\ span[s].status = "unused"
    /\ current' = t
    /\ Become(OpenSpan(PutTransaction(Heap, t, NewTransaction(Temporary, sampled)),
                       t, s, blocking))
    /\ Born(t, FALSE)
    /\ UNCHANGED <<pageVars, verdicts>>

(* Mutant: startSpan does not look at ended *)
StartSpanAfterEnd(t, s, blocking) ==
    /\ tr[t].status # "unused"
    /\ span[s].status = "unused"
    /\ Become(OpenSpan(Heap, t, s, blocking))
    /\ UNCHANGED <<current, pageVars, verdicts, history>>

(* transaction.startSpan on a running transaction; TransactionService.startSpan *)
(* is this call on the current one.  On an ended one it returns undefined.      *)
StartSpan(t, s, blocking) ==
    /\ Running(t)
    /\ span[s].status = "unused"
    /\ Become(OpenSpan(Heap, t, s, blocking))
    /\ UNCHANGED <<current, pageVars, verdicts, history>>

(* span.end or TransactionService.endSpan *)
EndSpan(s) ==
    /\ span[s].status # "unused"
    /\ Become(SpanEnd(Heap, s))
    /\ UNCHANGED <<current, pageVars, verdicts, history>>

(* transaction.end *)
EndTransaction(t) ==
    /\ tr[t].status # "unused"
    /\ Become(End(Heap, t))
    /\ UNCHANGED <<current, pageVars, verdicts, history>>

(* addTask, removeTask, block, detectFinish may be called on an ended one too *)
AddTask(t, k) ==
    /\ tr[t].status # "unused"
    /\ Become(PutTransaction(Heap, t, [tr[t] EXCEPT !.activeTasks = @ \cup {k}]))
    /\ UNCHANGED <<current, pageVars, verdicts, history>>

RemoveTask(t, k) ==
    /\ tr[t].status # "unused"
    /\ Become(RemoveTaskOf(Heap, t, k))
    /\ UNCHANGED <<current, pageVars, verdicts, history>>

(* Mutant: unblocking does not look whether the transaction is finished *)
BlockWithoutDetect(t, flag) ==
    /\ tr[t].status # "unused"
    /\ Become(PutTransaction(Heap, t, [tr[t] EXCEPT !.blocked = flag]))
    /\ UNCHANGED <<current, pageVars, verdicts, history>>

Block(t, flag) ==
    LET h == PutTransaction(Heap, t, [tr[t] EXCEPT !.blocked = flag])
    IN /\ tr[t].status # "unused"
       /\ Become(IF flag THEN h ELSE DetectFinish(h, t))
       /\ UNCHANGED <<current, pageVars, verdicts, history>>

CallDetectFinish(t) ==
    /\ tr[t].status # "unused"
    /\ Become(DetectFinish(Heap, t))
    /\ UNCHANGED <<current, pageVars, verdicts, history>>

-----------------------------------------------------------------------------
(* The event loop: a macrotask starts when no microtask is pending *)
MacrotaskMayStart == microtasks = <<>>

(* The callback of the PerformanceObserver *)
ObserveEntries(e) ==
    /\ MacrotaskMayStart
    /\ e \in recorder
    /\ HasCurrent
    /\ tr[current].captureTimings
    /\ e = "vitals" => tr[current].type = "page-load"
    /\ Become(PutTransaction(Heap, current,
                             [tr[current] EXCEPT !.timings = @ \cup {e}]))
    /\ UNCHANGED <<current, pageVars, verdicts, history>>

(* The listener of visibilitychange *)
Hide ==
    /\ MacrotaskMayStart
    /\ visible
    /\ visible' = FALSE
    /\ lastHiddenStart' = clock
    /\ exposed' = [t \in Transactions |-> exposed[t] \/ Running(t)]
    /\ UNCHANGED <<heapVars, current, clock, verdicts, announced>>

Show ==
    /\ MacrotaskMayStart
    /\ ~visible
    /\ visible' = TRUE
    /\ UNCHANGED <<heapVars, current, clock, lastHiddenStart, verdicts, history>>

Tick ==
    /\ clock < MaxClock
    /\ clock' = clock + 1
    /\ UNCHANGED <<heapVars, current, lastHiddenStart, visible, verdicts, history>>

(* Mutant: hidden at the very start does not count *)
HiddenAfterStart(t) == lastHiddenStart > tr[t].start

(* Mutant: the visibility of the page now, not during the transaction *)
HiddenNow(t) == ~visible

HiddenDuring(t) == lastHiddenStart >= tr[t].start

(* The microtask of handleTransactionEnd: discard the transaction, or send it *)
(* to the observers of TRANSACTION_END, which hand it to ApmServer.  What it  *)
(* computes on the way (names, navigation spans, time adjustment, breakdown,  *)
(* session) is data this module does not tell apart.                          *)
Settle(ignore) ==
    /\ microtasks # <<>>
    /\ LET t == Head(microtasks)
           verdict == IF HiddenDuring(t) THEN "hidden"
                      ELSE IF ignore \/ tr[t].type = "temporary" THEN "ignored"
                      ELSE "no"
       IN /\ discarded' = [discarded EXCEPT ![t] = verdict]
          /\ sent' = [sent EXCEPT ![t] = IF verdict = "no" THEN @ + 1 ELSE @]
    /\ microtasks' = Tail(microtasks)
    /\ UNCHANGED <<tr, span, recorder, current, pageVars, history>>

RunMicrotask == \E ignore \in IgnoreOutcomes : Settle(ignore)

Call ==
    \/ StartTransaction
    \/ \E s \in Spans, blocking \in BOOLEAN :
          \/ \E t \in Transactions : StartSpan(t, s, blocking)
          \/ \E t \in Transactions, sampled \in SampledOutcomes :
                StartTemporary(s, blocking, t, sampled)
    \/ \E s \in Spans : EndSpan(s)
    \/ \E t \in Transactions :
          \/ EndTransaction(t)
          \/ \E k \in Tasks : AddTask(t, k) \/ RemoveTask(t, k)
          \/ \E flag \in BOOLEAN : Block(t, flag)
          \/ CallDetectFinish(t)

Next ==
    \/ Call
    \/ RunMicrotask
    \/ \E e \in EntryTypes : ObserveEntries(e)
    \/ Hide \/ Show \/ Tick

(* The browser runs every queued microtask *)
Spec == Init /\ [][Next]_vars /\ WF_vars(RunMicrotask)

-----------------------------------------------------------------------------
(* Properties *)

Pending(t) == \E i \in DOMAIN microtasks : microtasks[i] = t

SettledCount(t) == sent[t] + (IF discarded[t] = "no" THEN 0 ELSE 1)

(* The shape of the state. *)
TypeOK ==
    /\ tr \in [Transactions -> TransactionRecord]
    /\ span \in [Spans -> SpanRecord]
    /\ current \in Transactions \cup {NoTransaction}
    /\ recorder \subseteq EntryTypes
    /\ microtasks \in Seq(Transactions)
    /\ clock \in Nat
    /\ lastHiddenStart \in Int
    /\ visible \in BOOLEAN
    /\ sent \in [Transactions -> Nat]
    /\ discarded \in [Transactions -> {"no", "hidden", "ignored"}]
    /\ announced \in [Transactions -> BOOLEAN]
    /\ exposed \in [Transactions -> BOOLEAN]

(* A span runs only inside a running transaction that lists it as active,    *)
(* and a span that ended, by itself or with its transaction, was recorded    *)
(* exactly once, whatever recursion of end, _onSpanEnd, removeTask and       *)
(* detectFinish ended it.                                                    *)
SpansAccounted ==
    \A s \in Spans :
        /\ span[s].status = "running" =>
              /\ Running(span[s].transaction)
              /\ s \in tr[span[s].transaction].activeSpans
              /\ span[s].recorded = 0
        /\ span[s].status = "ended" =>
              /\ span[s].recorded = 1
              /\ \A t \in Transactions : s \notin tr[t].activeSpans

(* "There can only be one managed transaction at any given time": a managed  *)
(* transaction that runs is the current one, through every reuse,            *)
(* replacement and temporary transaction.                                    *)
OneManaged ==
    \A t \in Transactions : Running(t) /\ tr[t].managed => t = current

(* The recorder observes only while a transaction that will stop it runs:    *)
(* the observers never outlive the managed transaction they were started     *)
(* for, and those of page loads never run for a later one.                   *)
ObserversFollowCurrent ==
    /\ recorder # {} => HasCurrent /\ tr[current].onEnd
    /\ "vitals" \in recorder => tr[current].type \in {"page-load", "user-defined"}

(* Conservation of ended transactions: one that ended with the service's     *)
(* hook waits in the microtask queue, once, or was sent or discarded, once.  *)
SettledOnce ==
    /\ \A i, j \in DOMAIN microtasks : microtasks[i] = microtasks[j] => i = j
    /\ \A t \in Transactions :
          LET isEnded == tr[t].status = "ended" /\ tr[t].onEnd
          IN /\ Pending(t) => isEnded
             /\ SettledCount(t) = IF isEnded /\ ~Pending(t) THEN 1 ELSE 0

(* The verdict on visibility, taken in a later microtask from one shared     *)
(* timestamp, is the truth about the transaction: discarded as hidden if and *)
(* only if the page became hidden between its start and its end.             *)
HiddenVerdict ==
    \A t \in Transactions :
        /\ sent[t] > 0 => ~exposed[t]
        /\ discarded[t] = "hidden" => exposed[t]

(* The step that removes the last task of a running transaction, or unblocks *)
(* it, ends it if nothing else holds it: no transaction is left that nobody  *)
(* will end.                                                                 *)
FinishIsNoticed ==
    \A t \in Transactions :
        Running(t) /\ ~IsFinished(tr[t]) /\ IsFinished(tr'[t])
          => tr'[t].status = "ended"

NoForgottenFinish == [][FinishIsNoticed]_vars

(* A blocking span holds its transaction: only an explicit end of the        *)
(* transaction, or a managed transaction replacing it, cuts it off.          *)
CutOffOnlyExplicitly ==
    \A s \in Spans, t \in Transactions :
        /\ span[s].status = "running"
        /\ s \in tr[t].activeTasks
        /\ span'[s].truncated
        => EndTransaction(t) \/ (t = current /\ current' # current)

BlockingSpanHolds == [][CutOffOnlyExplicitly]_vars

(* An ended transaction is closed, between its end and its microtask and     *)
(* ever after: whatever arrives late (end, span.end, startSpan, a start that *)
(* could reuse it, addTask, block, detectFinish, a callback of the recorder) *)
(* neither reopens it nor lets a span join it, records or truncates one of   *)
(* its spans again, changes its options or gives it an entry of the          *)
(* recorder.  Nothing is said of the data that late calls do write: the      *)
(* context and outcome of a span that has ended, marks, labels, and the      *)
(* name, type and end time that OpenTracing writes.                          *)
StaysClosed ==
    \A t \in Transactions :
        tr[t].status = "ended" =>
          /\ tr'[t].status = "ended" /\ tr'[t].activeSpans = {}
          /\ tr'[t].timings = tr[t].timings
          /\ tr'[t].managed = tr[t].managed /\ tr'[t].canReuse = tr[t].canReuse
          /\ tr'[t].reuseThreshold = tr[t].reuseThreshold
          /\ \A s \in Spans :
                span[s].transaction = t \/ span'[s].transaction = t
                  => span'[s] = span[s]

ClosedAfterEnd == [][StaysClosed]_vars

Phase(t) ==
    IF tr[t].status # "ended" THEN tr[t].status
    ELSE IF Pending(t) THEN "ending"
    ELSE IF sent[t] > 0 THEN "reported" ELSE "discarded"

Lifecycle == INSTANCE TransactionLifecycle WITH
    phase <- [t \in Transactions |-> Phase(t)],
    managed <- {t \in Transactions : tr[t].status # "unused" /\ tr[t].managed},
    tainted <- {t \in Transactions : exposed[t]}

(* The service implements the life of a transaction that the agent promises, *)
(* including that every ended transaction gets its verdict.                  *)
ImplementsLifecycle == Lifecycle!Spec
=============================================================================
