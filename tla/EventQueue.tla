---------------------------- MODULE EventQueue ----------------------------
(***************************************************************************)
(* The way of transactions and errors from the agent to the APM server     *)
(* (rum-core/src/common: apm-server.js, queue.js, throttle.js, and         *)
(* applyFilters of config-service.js, compressPayload of compress.js).     *)
(*                                                                         *)
(* The application's filters run inside a flush and may call the agent     *)
(* again, so the flushes under way are a stack: while it is not empty the  *)
(* main thread is inside it and nothing else runs.  Time is two countdowns *)
(* in ticks; timers fire on the tick they are due, before or after the     *)
(* other things that happen then.  sendEvents puts the errors of a batch   *)
(* before its transactions, which nothing here depends on.                 *)
(***************************************************************************)
EXTENDS Integers, Sequences, FiniteSets, Functions

CONSTANTS
    Events,             \* the transactions and errors ever captured
    Poison,             \* those whose serialisation throws (see Serialise)
    EventsLimit,        \* config.eventsLimit
    ThrottleInterval,   \* THROTTLE_INTERVAL, in ticks
    QueueLimit,         \* config.queueLimit; -1 is no limit
    FlushInterval,      \* config.flushInterval, in ticks
    FilterOutcomes,     \* what the application's filters may do
    CompressionStream,  \* the browser has the CompressionStream API
    RequestOutcomes     \* what may become of a batch

ASSUME EventQueueAssumption ==
    /\ IsFiniteSet(Events)
    /\ Poison \subseteq Events
    /\ EventsLimit \in Nat
    /\ ThrottleInterval \in Nat \ {0}
    /\ QueueLimit \in {-1} \cup (Nat \ {0})
    /\ FlushInterval \in Nat
    /\ FilterOutcomes \subseteq {"keep", "drop", "throw", "capture"}
    /\ CompressionStream \in BOOLEAN
    /\ RequestOutcomes \subseteq {"send", "reject", "hang", "deliver", "fail"}

VARIABLES
    ready,      \* ApmServer.init has replaced the noop throttleEvents
    counter,    \* throttle: calls counted since the window opened
    resetIn,    \* throttle: ticks until its timer fires, or Off
    items,      \* Queue.items
    timeoutId,  \* Queue.timeoutId is defined
    flushIn,    \* ticks until the queue's timer fires, or Off
    flushes,    \* the flushes on the call stack, innermost last: their batch
    batches,    \* the batches that passed or failed the filters
    accepted,   \* history: the events added to the queue, in order
    flushed,    \* history: the events of the batches, in the order of the queue
    refused,    \* history: the events dropped by throttling or before init
    reentered,  \* history: the events captured by a filter, inside a flush
    sentInWindow \* history: events POSTed while the throttle's timer is set

throttleVars == <<ready, counter, resetIn>>
queueVars == <<items, timeoutId, flushIn, flushes>>
outVars == <<batches, flushed, sentInWindow>>
inVars == <<accepted, refused, reentered>>
vars == <<throttleVars, queueVars, outVars, inVars>>

Off == -1

Phases == {"filtered", "compressing", "hung", "sent", "rejected", "delivered",
           "failed"}

(* The shapes of the variables; the events' bookkeeping agrees *)
TypeOK ==
    /\ ready \in BOOLEAN
    /\ counter \in 0..Cardinality(Events)
    /\ resetIn \in Off..ThrottleInterval
    /\ items \in Seq(Events)
    /\ timeoutId \in BOOLEAN
    /\ flushIn \in Off..FlushInterval
    /\ flushes \in Seq(Seq(Events))
    /\ batches \in Seq([events : SUBSET Events, phase : Phases])
    /\ accepted \in Seq(Events)
    /\ flushed \in Seq(Events)
    /\ refused \subseteq Events
    /\ reentered \subseteq Events
    /\ sentInWindow \in Nat

Init ==
    /\ ready = FALSE
    /\ counter = 0
    /\ resetIn = Off
    /\ items = <<>>
    /\ timeoutId = FALSE
    /\ flushIn = Off
    /\ flushes = <<>>
    /\ batches = <<>>
    /\ accepted = <<>>
    /\ flushed = <<>>
    /\ refused = {}
    /\ reentered = {}
    /\ sentInWindow = 0

Waiting(phase) == {i \in DOMAIN batches : batches[i].phase = phase}

(* The stack is empty; without CompressionStream compressPayload resolves  *)
(* at once and its continuations, being microtasks, run before anything    *)
Idle ==
    /\ flushes = <<>>
    /\ CompressionStream \/ Waiting("compressing") = {}

-----------------------------------------------------------------------------
(* throttle.js, queue.js: adding an event *)

Fresh(e) == e \notin Range(accepted) \cup refused

(* Queue.add; a full queue flushes at once, before its timer *)
QueueAdd(e) ==
    /\ items' = Append(items, e)
    /\ IF QueueLimit # -1 /\ Len(items') >= QueueLimit
       THEN /\ flushes' = Append(flushes, items')
            /\ UNCHANGED <<timeoutId, flushIn>>
       ELSE /\ timeoutId' = TRUE
            /\ flushIn' = IF timeoutId THEN flushIn ELSE FlushInterval
            /\ UNCHANGED flushes

(* Mutant of Count: a call opens the window and is counted in it again *)
CountTwice == counter' = IF resetIn = Off THEN counter + 2 ELSE counter + 1

(* A call is counted before it is queued or refused, whichever it becomes *)
Count == counter' = counter + 1

(* addError, addTransaction: throttleEvents, the noop until init *)
Add(e) ==
    /\ Fresh(e)
    /\ IF ready
       THEN /\ Count
            /\ resetIn' = IF resetIn = Off THEN ThrottleInterval ELSE resetIn
            /\ IF counter' > EventsLimit
               THEN /\ refused' = refused \cup {e}
                    /\ UNCHANGED <<queueVars, accepted>>
               ELSE /\ accepted' = Append(accepted, e)
                    /\ QueueAdd(e)
                    /\ UNCHANGED refused
       ELSE /\ refused' = refused \cup {e}
            /\ UNCHANGED <<counter, resetIn, queueVars, accepted>>
    /\ UNCHANGED <<ready, outVars>>

ServerInit ==
    /\ Idle
    /\ ~ready
    /\ ready' = TRUE
    /\ UNCHANGED <<counter, resetIn, queueVars, outVars, inVars>>

Capture(e) ==
    /\ Idle
    /\ Add(e)
    /\ UNCHANGED reentered

(* Mutant of ThrottleTimer: the counter is not reset *)
ThrottleTimerKeepingCounter ==
    /\ Idle
    /\ resetIn = 0
    /\ resetIn' = Off
    /\ sentInWindow' = 0
    /\ UNCHANGED <<ready, counter, queueVars, batches, flushed, inVars>>

ThrottleTimer ==
    /\ Idle
    /\ resetIn = 0
    /\ counter' = 0
    /\ resetIn' = Off
    /\ sentInWindow' = 0
    /\ UNCHANGED <<ready, queueVars, batches, flushed, inVars>>

-----------------------------------------------------------------------------
(* Queue.flush: onFlush first, _clear after it *)

(* A timer that has fired leaves timeoutId defined, until _clear *)
FlushTimer ==
    /\ Idle
    /\ flushIn = 0
    /\ flushIn' = Off
    /\ flushes' = <<items>>
    /\ UNCHANGED <<items, timeoutId, throttleVars, outVars, inVars>>

Batch == flushes[Len(flushes)]

(* Mutants of Clear: one of its three resets is missing *)
ClearKeepingItems ==
    /\ timeoutId' = FALSE
    /\ flushIn' = Off
    /\ flushes' = SubSeq(flushes, 1, Len(flushes) - 1)
    /\ UNCHANGED items

ClearKeepingTimeoutId ==
    /\ items' = <<>>
    /\ flushIn' = Off
    /\ flushes' = SubSeq(flushes, 1, Len(flushes) - 1)
    /\ UNCHANGED timeoutId

(* onFlush returned: _clear, and back to the caller of flush *)
Clear ==
    /\ items' = <<>>
    /\ timeoutId' = FALSE
    /\ flushIn' = Off
    /\ flushes' = SubSeq(flushes, 1, Len(flushes) - 1)

(* Mutant of Throw: _clear in a finally *)
ThrowCleared ==
    /\ items' = <<>>
    /\ timeoutId' = FALSE
    /\ flushIn' = Off
    /\ flushes' = <<>>
    /\ UNCHANGED outVars

(* An exception leaves every flush on the stack before its _clear: neither *)
(* captureError nor the filters that call it catch it                      *)
Throw ==
    /\ flushes' = <<>>
    /\ UNCHANGED <<items, timeoutId, flushIn, outVars>>

(* compressMarks reads navigationTiming of marks that may have none *)
Serialise == Range(Batch) \cap Poison = {}

FilterKeeps ==
    /\ flushes # <<>>
    /\ "keep" \in FilterOutcomes
    /\ IF Serialise
       THEN /\ batches' = Append(batches, [events |-> Range(Batch),
                                           phase |-> "compressing"])
            /\ flushed' = flushed \o Batch
            /\ Clear
            /\ UNCHANGED sentInWindow
       ELSE Throw
    /\ UNCHANGED <<throttleVars, inVars>>

FilterDrops ==
    /\ flushes # <<>>
    /\ "drop" \in FilterOutcomes
    /\ batches' = Append(batches, [events |-> Range(Batch), phase |-> "filtered"])
    /\ flushed' = flushed \o Batch
    /\ Clear
    /\ UNCHANGED <<sentInWindow, throttleVars, inVars>>

FilterThrows ==
    /\ flushes # <<>>
    /\ "throw" \in FilterOutcomes
    /\ Throw
    /\ UNCHANGED <<throttleVars, inVars>>

(* A filter calls apm.captureError: the agent is entered again *)
FilterCaptures(e) ==
    /\ flushes # <<>>
    /\ "capture" \in FilterOutcomes
    /\ Add(e)
    /\ reentered' = reentered \cup {e}

-----------------------------------------------------------------------------
(* _postJson and _makeHttpRequest *)

Move(i, phase) ==
    /\ batches' = [batches EXCEPT ![i].phase = phase]
    /\ UNCHANGED <<flushed, throttleVars, queueVars, inVars>>

(* Without CompressionStream the continuations run in the order of the flushes *)
MayPost(i) ==
    /\ flushes = <<>>
    /\ i \in Waiting("compressing")
    /\ CompressionStream \/ \A j \in Waiting("compressing") : i <= j

(* Compressed, or left as it is after a synchronous failure; then sent *)
Post(i) ==
    /\ MayPost(i)
    /\ "send" \in RequestOutcomes
    /\ sentInWindow' = IF resetIn = Off THEN 0
                       ELSE sentInWindow + Cardinality(batches[i].events)
    /\ Move(i, "sent")

(* apmRequest, the application's beforeSend, returned a falsy value *)
Reject(i) ==
    /\ MayPost(i)
    /\ "reject" \in RequestOutcomes
    /\ Move(i, "rejected")
    /\ UNCHANGED sentInWindow

(* The stream fails while it is read: nobody handles the rejection and the *)
(* promise of compressPayload is never settled                             *)
Hang(i) ==
    /\ MayPost(i)
    /\ CompressionStream
    /\ "hang" \in RequestOutcomes
    /\ Move(i, "hung")
    /\ UNCHANGED sentInWindow

(* The answer, an HTTP or a network error or the timeout; a failure is only *)
(* logged, the events are not sent again                                    *)
Answer(i) ==
    /\ Idle
    /\ i \in Waiting("sent")
    /\ \/ "deliver" \in RequestOutcomes /\ Move(i, "delivered")
       \/ "fail" \in RequestOutcomes /\ Move(i, "failed")
    /\ UNCHANGED sentInWindow

(* Time passes while a timer is pending and none is due *)
Tick ==
    /\ Idle
    /\ {resetIn, flushIn} # {Off}
    /\ 0 \notin {resetIn, flushIn}
    /\ resetIn' = IF resetIn = Off THEN Off ELSE resetIn - 1
    /\ flushIn' = IF flushIn = Off THEN Off ELSE flushIn - 1
    /\ UNCHANGED <<ready, counter, items, timeoutId, flushes, outVars, inVars>>

Filter == FilterKeeps \/ FilterDrops \/ FilterThrows

Proceed(i) == Post(i) \/ Reject(i) \/ Hang(i)

Next ==
    \/ ServerInit
    \/ \E e \in Events : Capture(e) \/ FilterCaptures(e)
    \/ Filter
    \/ FlushTimer
    \/ ThrottleTimer
    \/ Tick
    \/ \E i \in DOMAIN batches : Proceed(i) \/ Answer(i)

(* Timers fire, a filter returns, a promise's continuation runs and a      *)
(* request is answered: the browser ends it after xhr.timeout              *)
Fairness ==
    /\ WF_vars(Filter)
    /\ WF_vars(FlushTimer)
    /\ WF_vars(ThrottleTimer)
    /\ WF_vars(Tick)
    /\ WF_vars(\E i \in DOMAIN batches : Proceed(i))
    /\ WF_vars(\E i \in DOMAIN batches : Answer(i))

Spec == Init /\ [][Next]_vars /\ Fairness

-----------------------------------------------------------------------------
(* Correctness *)

(* Unless a filter captured events, batches are taken from the queue in the *)
(* order the events were added, each event is in one batch, and an event    *)
(* that is in none still waits, a flush that threw included: Queue.flush    *)
(* clears items only after onFlush returned (queue.js:47)                   *)
InOrder == reentered = {} => accepted = flushed \o items

(* The only accepted events that can vanish are those a filter captured: the *)
(* _clear of the flush it runs in empties the queue they were added to       *)
LostOnlyFromFilters ==
    flushes = <<>> =>
        Range(accepted) \ (Range(flushed) \cup Range(items)) \subseteq reentered

(* The queue keeps its events: in order and once, and none is lost but from  *)
(* a flush in which a filter captured an event.                              *)
EventsKept == InOrder /\ LostOnlyFromFilters

(* An event never waits without a timer that will flush it: timeoutId and  *)
(* the browser's timer agree (add sets one only if timeoutId is undefined)  *)
WaitingIsScheduled ==
    flushes = <<>> =>
        /\ items # <<>> => flushIn # Off
        /\ timeoutId <=> flushIn # Off

(* Throttling counts what is queued, not what is sent: the last events of a *)
(* window but the one that opened it may be sent in the next, with its own  *)
SentPerWindowBounded == sentInWindow <= 2 * EventsLimit - 1

(* Throttling is not for ever: its timer resets the counter (throttle.js:35) *)
ThrottleOpens == counter > EventsLimit ~> counter = 0

(* The batches that took event e *)
Took(e) == {i \in DOMAIN batches : e \in batches[i].events}

(* It is sent again, or will be; EventDelivery has no such status *)
SentAgain(e) == e \in Range(items) \/ \E i, j \in Took(e) : i # j

(* The life of an event as EventDelivery has it *)
Fate(e) ==
    IF e \in refused THEN "refused"
    ELSE IF Took(e) = {} THEN IF e \in Range(accepted) THEN "queued" ELSE "new"
    ELSE IF SentAgain(e) THEN "again"
    ELSE LET phase == batches[CHOOSE i \in Took(e) : TRUE].phase
         IN  CASE phase \in {"compressing", "hung", "sent"} -> "sending"
               [] phase \in {"rejected", "failed"} -> "lost"
               [] OTHER -> phase

Delivery == INSTANCE EventDelivery WITH status <- [e \in Events |-> Fate(e)]

(* EventQueue implements EventDelivery: no event is taken into two batches, *)
(* or sent by one and kept waiting; none waits or stays in flight for ever  *)
ImplementsDelivery == Delivery!Spec

(* docs/configuration.asciidoc:160: "After each flush of the queue, the next *)
(* flush isn't scheduled until an item is added to the queue", so adding an  *)
(* item schedules one                                                       *)
AddSchedulesFlush ==
    [][accepted' # accepted /\ flushes' = <<>> => flushIn' # Off]_vars
=============================================================================
