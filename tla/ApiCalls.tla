----------------------------- MODULE ApiCalls -----------------------------
(***************************************************************************)
(* XMLHttpRequest and fetch calls of the application as blocking spans     *)
(* (rum-core/src/performance-monitoring/performance-monitoring.js:         *)
(* processAPICalls; rum-core/src/common/patching: xhr-patch.js,            *)
(* fetch-patch.js), composed with TransactionService.                      *)
(*                                                                         *)
(* A call is one task object of the patches: one send of an XMLHttpRequest *)
(* or one fetch.  The browser's side of a request is external: the state   *)
(* of the XMLHttpRequest, the events it dispatches, the promise.  The      *)
(* application may do anything between two listeners of an event, for its  *)
(* own listeners run there; it does not abort a request it sent inside a   *)
(* listener of the same object before that listener's event is over.       *)
(***************************************************************************)
EXTENDS TransactionService

CONSTANTS
    Xhrs,           \* XMLHttpRequest objects of the application
    XhrCalls,       \* sends of them
    FetchCalls,     \* calls of fetch
    NoSpan,         \* JavaScript's undefined, for task.data.span
    NoXhr           \* the same, for a call that has no XMLHttpRequest

Calls == XhrCalls \cup FetchCalls

ASSUME ApiCallsAssumption ==
    /\ XhrCalls \cap FetchCalls = {}
    /\ NoSpan \notin Spans
    /\ NoXhr \notin Xhrs

VARIABLES
    xhr,        \* the browser's state of the XMLHttpRequest objects
    call,       \* the tasks
    outcome,    \* span.outcome, "unset" until a call's end sets it
    trOutcome   \* transaction.outcome

apiVars == <<xhr, call, outcome, trOutcome>>

apiAllVars == <<vars, apiVars>>

(* How a request may end: an answer below 400 or not, or none *)
Results == {"ok", "httpError", "error", "timeout", "abort"}

Outcomes == {"unset", "success", "failure", "unknown"}

XhrRecord ==
    \* "failed": done, of a synchronous request that threw without an event
    [phase : {"unsent", "opened", "sent", "done", "failed"},
     status : {0, 200, 400},
     events : Seq({"readystatechange", "load", "error", "timeout", "abort"}),
     listeners : SUBSET XhrCalls,   \* tasks whose listeners are registered
     left : SUBSET XhrCalls]        \* those the first event is still to reach

(* result: "pending" while the request is under way, "reopened" when open  *)
(* was called before it ended, "threw" when native code threw              *)
CallRecord ==
    [state : {"", "schedule", "invoke"},
     span : Spans \cup {NoSpan},
     xhr : Xhrs \cup {NoXhr},
     result : Results \cup {"pending", "reopened", "threw"},
     \* history: the object was opened again before the task noticed its end,
     \* or had an event of an earlier request still to come when it was sent
     mixed : BOOLEAN]

(* The shapes of the instrumentation's variables *)
ApiTypeOK ==
    /\ xhr \in [Xhrs -> XhrRecord]
    /\ call \in [Calls -> CallRecord]
    /\ outcome \in [Spans -> Outcomes]
    /\ trOutcome \in [Transactions -> Outcomes]

ApiInit ==
    /\ Init /\ visible
    /\ xhr = [x \in Xhrs |-> [phase |-> "unsent", status |-> 0, events |-> <<>>,
                              listeners |-> {}, left |-> {}]]
    /\ call = [c \in Calls |-> [state |-> "", span |-> NoSpan, xhr |-> NoXhr,
                                result |-> "pending", mixed |-> FALSE]]
    /\ outcome = [s \in Spans |-> "unset"]
    /\ trOutcome = [t \in Transactions |-> "unset"]

-----------------------------------------------------------------------------
(* processAPICalls *)

HttpCall == [type |-> "http-request", managed |-> TRUE, canReuse |-> FALSE,
             reuseThreshold |-> 0]

Service == [heap |-> Heap, current |-> current]

(* SCHEDULE: the blocking span of the call, on the current transaction or on *)
(* a new http-request transaction                                            *)
Scheduled(s) ==
    IF HasCurrent
    THEN {[heap |-> OpenSpan(Heap, current, s, TRUE), current |-> current]}
    ELSE {[heap |-> OpenSpan(Managed(Heap, t, NewTransaction(HttpCall, sampled)),
                             t, s, TRUE),
           current |-> t] :
             t \in {u \in Transactions : tr[u].status = "unused"},
             sampled \in SampledOutcomes}

(* What a call does to the service but for the heap *)
Keep(svc) ==
    /\ current' = svc.current
    /\ IF svc.current = current THEN UNCHANGED history ELSE Born(svc.current, TRUE)
    /\ UNCHANGED <<pageVars, verdicts>>

Undefined == -1

(* Mutant of OutcomeOf: an aborted call is a failed one *)
OutcomeOfAbort(reason, status) == IF status \in {0, 400} THEN "failure" ELSE "success"

(* Mutant of OutcomeOf: the reason of an aborted call is taken for its outcome *)
OutcomeOfReason(reason, status) ==
    IF reason = "abort" THEN reason
    ELSE IF status \in {0, 400} THEN "failure"
    ELSE "success"

(* An undefined status is neither >= 400 nor 0 *)
OutcomeOf(reason, status) ==
    IF reason = "abort" THEN "unknown"
    ELSE IF status \in {0, 400} THEN "failure"
    ELSE "success"

(* Its outcome is overwritten by every INVOKE, whichever call it is of *)
IsCurrentHttp(svc, t) ==
    /\ t = svc.current
    /\ svc.heap.tr[t].status # "ended"
    /\ svc.heap.tr[t].type = "http-request"

(* INVOKE: the outcome, then the end of the span *)
Invoke(svc, s, o) ==
    /\ outcome' = [outcome EXCEPT ![s] = o]
    /\ trOutcome' = [t \in Transactions |->
                       IF IsCurrentHttp(svc, t) THEN o ELSE trOutcome[t]]
    /\ Become(SpanEnd(svc.heap, s))
    /\ Keep(svc)

(* A call that is only scheduled *)
Schedule(svc) ==
    /\ Become(svc.heap)
    /\ Keep(svc)
    /\ UNCHANGED <<outcome, trOutcome>>

Task(c, s) == call[c].state = "" /\ span[s].status = "unused"

SetCall(c, state, s, x, result, mixed) ==
    call' = [call EXCEPT ![c] = [state |-> state, span |-> s, xhr |-> x,
                                 result |-> result, mixed |-> mixed]]

-----------------------------------------------------------------------------
(* xhr-patch.js *)

(* The service and the spans are not concerned *)
OnlyBrowser == UNCHANGED <<vars, outcome, trOutcome>>

(* The request under way gets a result, invoked or not *)
Mark(x, result) ==
    call' = [c \in Calls |->
               IF call[c].xhr = x /\ call[c].result = "pending"
               THEN [call[c] EXCEPT !.result = result] ELSE call[c]]

(* The request under way gets none; the tasks that were not invoked yet will *)
(* be with the events of a later one                                         *)
Mixed(x) ==
    call' = [c \in Calls |->
               IF call[c].xhr = x
               THEN [call[c] EXCEPT !.result = IF @ = "pending" THEN "reopened" ELSE @,
                                    !.mixed = @ \/ call[c].state = "schedule"]
               ELSE call[c]]

Opened(r, silent) ==
    [r EXCEPT !.phase = "opened", !.status = 0,
              !.events = IF silent THEN <<Head(@)>> ELSE @]

(* open terminates a request without an event; whether the events of one that *)
(* just ended still come, differs between browsers                            *)
Open(x, silent) ==
    /\ silent => Len(xhr[x].events) > 1
    /\ xhr' = [xhr EXCEPT ![x] = Opened(@, silent)]
    /\ Mixed(x)
    /\ OnlyBrowser

(* A request ends: its events follow, to every task that listens *)
Ended(r, status, events) ==
    [r EXCEPT !.phase = "done", !.status = status, !.events = events,
              !.left = r.listeners]

StatusOf(result) ==
    CASE result = "ok" -> 200 [] result = "httpError" -> 400 [] OTHER -> 0

EventsOf(result) ==
    <<"readystatechange", IF result \in {"ok", "httpError"} THEN "load" ELSE result>>

Listen(r, c) == [r EXCEPT !.listeners = @ \cup {c}]

SendAsync(x, c, s) ==
    /\ Task(c, s)
    /\ xhr[x].phase = "opened"
    /\ \E svc \in Scheduled(s) : Schedule(svc)
    /\ SetCall(c, "schedule", s, x, "pending", Len(xhr[x].events) > 1)
    /\ xhr' = [xhr EXCEPT ![x] = [Listen(@, c) EXCEPT !.phase = "sent"]]

(* The events of a synchronous request come before send returns *)
SendSync(x, c, s, result) ==
    /\ Task(c, s)
    /\ xhr[x].phase = "opened" /\ xhr[x].events = <<>>
    /\ \E svc \in Scheduled(s) : Schedule(svc)
    /\ SetCall(c, "schedule", s, x, result, FALSE)
    /\ xhr' = [xhr EXCEPT ![x] = Ended(Listen(@, c), StatusOf(result), EventsOf(result))]

Refused(r) == [r EXCEPT !.phase = IF @ = "opened" THEN "failed" ELSE @]

(* A synchronous request fails, or the object is not opened *)
SendThrows(x, c, s) ==
    /\ Task(c, s)
    /\ \E svc \in Scheduled(s) : Invoke(svc, s, OutcomeOf("error", xhr[x].status))
    /\ SetCall(c, "invoke", s, x, "threw", FALSE)
    /\ xhr' = [xhr EXCEPT ![x] = Refused(Listen(@, c))]

Finish(x, result) ==
    /\ xhr[x].phase = "sent" /\ xhr[x].events = <<>>
    /\ xhr' = [xhr EXCEPT ![x] = Ended(@, StatusOf(result), EventsOf(result))]
    /\ Mark(x, result)
    /\ OnlyBrowser

(* The first event is over for task c; the next one is for all that listen *)
Told(r, c) ==
    IF r.left # {c} THEN [r EXCEPT !.left = @ \ {c}]
    ELSE [r EXCEPT !.events = Tail(@),
                   !.left = IF Len(r.events) > 1 THEN r.listeners ELSE {}]

(* Mutant of Notices: no listener for abort *)
NoticesAllButAbort(x) ==
    IF Head(xhr[x].events) = "readystatechange"
    THEN xhr[x].phase = "done" /\ xhr[x].status # 0
    ELSE Head(xhr[x].events) # "abort"

(* The listener of a task calls invokeTask *)
Notices(x) ==
    Head(xhr[x].events) = "readystatechange" =>
        xhr[x].phase = "done" /\ xhr[x].status # 0

(* Mutant of IsOpenTask: the state of the task is not checked *)
AnyTask(c) == call[c].state # ""

(* invokeTask does nothing for a task that was invoked *)
IsOpenTask(c) == call[c].state # "invoke"

Deliver(x, c) ==
    /\ xhr[x].events # <<>>
    /\ c \in xhr[x].left
    /\ xhr' = [xhr EXCEPT ![x] = Told(@, c)]
    /\ IF Notices(x) /\ IsOpenTask(c)
       THEN /\ call' = [call EXCEPT ![c].state = "invoke"]
            /\ Invoke(Service, call[c].span,
                      OutcomeOf(Head(xhr[x].events), xhr[x].status))
       ELSE UNCHANGED <<vars, call, outcome, trOutcome>>

-----------------------------------------------------------------------------
(* fetch-patch.js *)

FetchStart(c, s) ==
    /\ Task(c, s)
    /\ \E svc \in Scheduled(s) : Schedule(svc)
    /\ SetCall(c, "schedule", s, NoXhr, "pending", FALSE)
    /\ UNCHANGED xhr

(* task.data has no response then and its target, a Request, no status *)
FetchThrows(c, s) ==
    /\ Task(c, s)
    /\ \E svc \in Scheduled(s) : Invoke(svc, s, OutcomeOf("", Undefined))
    /\ SetCall(c, "invoke", s, NoXhr, "threw", FALSE)
    /\ UNCHANGED xhr

(* The application's promise is settled, before a microtask invokes the task *)
FetchSettle(c, result) ==
    /\ call[c].state = "schedule" /\ call[c].result = "pending"
    /\ call' = [call EXCEPT ![c].result = result]
    /\ UNCHANGED xhr
    /\ OnlyBrowser

FetchInvoke(c) ==
    /\ call[c].state = "schedule" /\ call[c].result # "pending"
    /\ call' = [call EXCEPT ![c].state = "invoke"]
    /\ Invoke(Service, call[c].span,
              OutcomeOf("", IF call[c].result = "error" THEN Undefined
                            ELSE StatusOf(call[c].result)))
    /\ UNCHANGED xhr

-----------------------------------------------------------------------------

XhrStep ==
    \E x \in Xhrs :
        \/ \E silent \in BOOLEAN : Open(x, silent)
        \/ \E result \in Results : Finish(x, result)
        \/ \E c \in XhrCalls : Deliver(x, c)
        \/ \E c \in XhrCalls, s \in Spans :
              \/ SendAsync(x, c, s)
              \/ \E result \in {"ok", "httpError"} : SendSync(x, c, s, result)
              \/ SendThrows(x, c, s)

FetchStep ==
    \E c \in FetchCalls :
        \/ \E s \in Spans : FetchStart(c, s) \/ FetchThrows(c, s)
        \/ \E result \in {"ok", "httpError", "error"} : FetchSettle(c, result)
        \/ FetchInvoke(c)

(* What the application does meanwhile.  Tasks and blocks hold a transaction  *)
(* as its spans do; the page stays visible and the clock stands still, they   *)
(* decide nothing that this module looks at.                                  *)
Application ==
    \/ StartTransaction
    \/ \E s \in Spans, blocking \in BOOLEAN :
          \/ \E t \in Transactions : StartSpan(t, s, blocking)
          \/ \E t \in Transactions, sampled \in SampledOutcomes :
                StartTemporary(s, blocking, t, sampled)
    \/ \E s \in Spans : EndSpan(s)
    \/ \E t \in Transactions : EndTransaction(t) \/ CallDetectFinish(t)

ApiNext ==
    \/ (Application \/ RunMicrotask) /\ UNCHANGED apiVars
    \/ XhrStep
    \/ FetchStep

ApiSpec == ApiInit /\ [][ApiNext]_apiAllVars

-----------------------------------------------------------------------------
(* Correctness *)

(* A call ends once: whatever other events its XMLHttpRequest dispatches,   *)
(* for this request or for a later one, the outcome of its span stays       *)
OutcomeStays ==
    \A s \in Spans : outcome[s] # "unset" => outcome'[s] = outcome[s]

OutcomeSetOnce == [][OutcomeStays]_apiAllVars

(* When a request ended with its events, every call of the object has ended, *)
(* those of earlier requests that open terminated without an event included  *)
NoCallForgotten ==
    \A x \in Xhrs : xhr[x].phase = "done" /\ xhr[x].events = <<>> =>
        \A c \in xhr[x].listeners : call[c].state = "invoke"

(* The span of a call ends when the call's own request is over, not before, *)
(* and its outcome says what became of it if the request got an answer or   *)
(* ended with an event; that of a fetch that was rejected or of a send that *)
(* threw is not known to do so.  However often the object was used before,  *)
(* the only exceptions are the requests it was opened again under, and the  *)
(* one sent while an event of an earlier request was still to come: these   *)
(* get what the events of another request say.                              *)
OutcomeAgrees ==
    \A c \in Calls :
        call[c].state = "invoke" /\ ~call[c].mixed =>
            LET o == outcome[call[c].span]
            IN /\ call[c].result \notin {"pending", "reopened"}
               /\ call[c].result = "ok" => o = "success"
               /\ call[c].result = "httpError" => o = "failure"
               /\ call[c].result \in {"error", "timeout"} /\ c \in XhrCalls
                    => o = "failure"
               /\ call[c].result = "abort" => o = "unknown"

(* An http-request transaction never runs with nothing to wait for: the     *)
(* first call blocks it as it starts, and the end of the last one ends it   *)
HttpNeverIdle ==
    \A t \in Transactions :
        Running(t) /\ tr[t].type = "http-request" => ~IsFinished(tr[t])

(* Nothing hangs on a call: neither its span nor the transaction made for it *)
NothingHangs == NoCallForgotten /\ HttpNeverIdle

(* An http-request transaction that a call's end ends has this call's       *)
(* outcome, not one that a call of an earlier transaction left in it        *)
LastCallGivesOutcome ==
    \A c \in Calls : call[c].state = "schedule" /\ call'[c].state = "invoke" =>
        LET t == span[call[c].span].transaction
        IN Running(t) /\ tr'[t].status = "ended" /\ tr[t].type = "http-request"
             => trOutcome'[t] = outcome'[call[c].span]

HttpOutcomeIsLast == [][LastCallGivesOutcome]_apiAllVars

(* Outcomes are written once, and to the transaction as that of its last call *)
OutcomesAreFinal == OutcomeSetOnce /\ HttpOutcomeIsLast
=============================================================================
