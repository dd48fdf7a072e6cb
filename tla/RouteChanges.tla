---------------------------- MODULE RouteChanges ----------------------------
(***************************************************************************)
(* The route changes of the framework integrations (rum-react, rum-vue,    *)
(* rum-angular) and afterFrame, which they use to end their transactions,  *)
(* composed with the transactions of TransactionService.                   *)
(*                                                                         *)
(* A page uses one framework.  React wraps the component of a route: each  *)
(* instance keeps the transaction it started.  Vue and Angular observe one *)
(* router and keep the transaction of the last navigation in one variable, *)
(* which the callbacks of earlier navigations read too.                    *)
(*                                                                         *)
(* Around them the page goes on: the observers of performance-monitoring.js*)
(* start transactions and spans, the page is hidden and shown.             *)
(***************************************************************************)
EXTENDS TransactionService

CONSTANTS
    MaxComponents,   \* bound on the instances withTransaction made
    MaxFrames,       \* bound on the calls of afterFrame
    MaxNavigations   \* bound on the navigations of the Vue or Angular router

ASSUME RouteAssumption ==
    /\ MaxComponents \in Nat
    /\ MaxFrames \in Nat
    /\ MaxNavigations \in Nat
    /\ \E c \in StartCalls : c.type = "route-change"

VARIABLES
    framework,       \* the integration this page uses
    component,       \* the React instances and the transaction each keeps
    routed,          \* `transaction` of routeHooks and of ApmService.observe
    navigation,      \* the router: navigations begun, and not finished yet
    frame,           \* the calls of afterFrame
    completed        \* history: transactions the integration asked to finish

routeVars == <<framework, component, routed, navigation, frame, completed>>
routeAllVars == <<vars, routeVars>>

Components == 1..MaxComponents
Frames == 1..MaxFrames

ComponentRecord ==
    [status : {"none", "constructed", "mounted", "unmounted"},
     transaction : Transactions \cup {NoTransaction}]

(* of: the transaction that was the caller's when it called afterFrame, a    *)
(* history; for React it is also what the callback reads                     *)
FrameRecord ==
    [raf : BOOLEAN,       \* requestAnimationFrame(handler) is pending
     timeout : BOOLEAN,   \* setTimeout(handler, RAF_TIMEOUT) is pending
     queued : 0..1,       \* pending setTimeout(callback)
     ran : 0..1,          \* times the callback ran
     of : Transactions \cup {NoTransaction}]

UnusedFrame == [raf |-> FALSE, timeout |-> FALSE, queued |-> 0, ran |-> 0,
                of |-> NoTransaction]

RouteInit ==
    /\ Init
    /\ framework \in {"react", "vue", "angular"}
    /\ component = [c \in Components |-> [status |-> "none",
                                          transaction |-> NoTransaction]]
    /\ routed = NoTransaction
    /\ navigation = [begun |-> 0, pending |-> 0]
    /\ frame = [f \in Frames |-> UnusedFrame]
    /\ completed = {}

-----------------------------------------------------------------------------
(* after-frame.js *)

(* Calls are numbered in their order *)
NextFrame(f) ==
    \A g \in Frames : (g < f) = (frame[g] # UnusedFrame)

(* Mutant: no timeout in parallel *)
FrameOnly(f, t) ==
    /\ NextFrame(f)
    /\ frame' = [frame EXCEPT ![f] = [UnusedFrame EXCEPT !.raf = TRUE, !.of = t]]

AfterFrame(f, t) ==
    /\ NextFrame(f)
    /\ frame' = [frame EXCEPT ![f] = [UnusedFrame EXCEPT !.raf = TRUE,
                                                         !.timeout = TRUE,
                                                         !.of = t]]

(* Mutant: what fires first does not cancel the other *)
HandledTwice(r) ==
    [r EXCEPT !.timeout = r.raf /\ @, !.raf = FALSE, !.queued = @ + 1]

(* handler: cancel both, setTimeout(callback) *)
Handled(r) == [r EXCEPT !.raf = FALSE, !.timeout = FALSE, !.queued = @ + 1]

(* A hidden page gets no animation frames *)
AnimationFrame(f) ==
    /\ MacrotaskMayStart
    /\ visible
    /\ frame[f].raf
    /\ frame' = [frame EXCEPT ![f] = Handled(@)]
    /\ UNCHANGED <<vars, framework, component, routed, navigation, completed>>

FrameTimeout(f) ==
    /\ MacrotaskMayStart
    /\ frame[f].timeout
    /\ frame' = [frame EXCEPT ![f] = Handled(@)]
    /\ UNCHANGED <<vars, framework, component, routed, navigation, completed>>

(* The callback every integration passes: detectFinish on what its closure   *)
(* reads at that time                                                        *)
Subject(f) == IF framework = "react" THEN frame[f].of ELSE routed

Callback(f) ==
    /\ MacrotaskMayStart
    /\ frame[f].queued > 0
    /\ frame' = [frame EXCEPT ![f].queued = @ - 1, ![f].ran = @ + 1]
    /\ Become(DetectFinish(Heap, Subject(f)))
    /\ completed' = completed \cup {frame[f].of}
    /\ UNCHANGED <<current, pageVars, verdicts, history,
                   framework, component, routed, navigation>>

-----------------------------------------------------------------------------
(* What all of them start *)

RouteChange == [type |-> "route-change", managed |-> TRUE, canReuse |-> TRUE,
                reuseThreshold |-> 0]

(* startTransaction returns current' *)
StartRouteChange ==
    \/ StartManagedReuse(RouteChange)
    \/ \E t \in Transactions, sampled \in SampledOutcomes :
          \/ StartManagedNew(RouteChange, t, sampled)
          \/ StartManagedReplace(RouteChange, t, sampled)

-----------------------------------------------------------------------------
(* rum-react *)

(* The constructor of the class, or the initial state of the function.  A    *)
(* render may be given up: an instance may stay constructed for ever.        *)
Construct(c) ==
    /\ framework = "react"
    /\ \A d \in Components : (d < c) = (component[d].status # "none")
    /\ StartRouteChange
    /\ component' = [component EXCEPT ![c] = [status |-> "constructed",
                                              transaction |-> current']]
    /\ UNCHANGED <<framework, routed, navigation, frame, completed>>

(* componentDidMount, or the effect *)
DidMount(c, f) ==
    /\ component[c].status = "constructed"
    /\ component' = [component EXCEPT ![c].status = "mounted"]
    /\ AfterFrame(f, component[c].transaction)
    /\ UNCHANGED <<vars, framework, routed, navigation, completed>>

(* componentWillUnmount, or the clean-up of the effect: the transaction may  *)
(* have been reused for the component that takes its place.                  *)
WillUnmount(c) ==
    /\ component[c].status = "mounted"
    /\ component' = [component EXCEPT ![c].status = "unmounted"]
    /\ Become(DetectFinish(Heap, component[c].transaction))
    /\ completed' = completed \cup {component[c].transaction}
    /\ UNCHANGED <<current, pageVars, verdicts, history,
                   framework, routed, navigation, frame>>

-----------------------------------------------------------------------------
(* rum-vue: routeHooks; rum-angular: ApmService.observe *)

(* beforeEach, NavigationStart: also while another navigation is pending *)
Navigate ==
    /\ framework # "react"
    /\ navigation.begun < MaxNavigations
    /\ navigation' = [begun |-> navigation.begun + 1,
                      pending |-> navigation.pending + 1]
    /\ StartRouteChange
    /\ routed' = current'
    /\ UNCHANGED <<framework, component, frame, completed>>

Leave == navigation' = [navigation EXCEPT !.pending = @ - 1]

(* afterEach, NavigationEnd *)
NavigationEnd(f) ==
    /\ navigation.pending > 0
    /\ Leave
    /\ AfterFrame(f, routed)
    /\ UNCHANGED <<vars, framework, component, routed, completed>>

(* onError ends the transaction, NavigationError only asks it to finish *)
NavigationError ==
    /\ navigation.pending > 0
    /\ Leave
    /\ Become(IF framework = "vue" THEN End(Heap, routed)
                                   ELSE DetectFinish(Heap, routed))
    /\ completed' = completed \cup {routed}
    /\ UNCHANGED <<current, pageVars, verdicts, history,
                   framework, component, routed, frame>>

(* A navigation is given up: no integration looks at that event *)
NavigationCancel ==
    /\ navigation.pending > 0
    /\ Leave
    /\ UNCHANGED <<vars, framework, component, routed, frame, completed>>

-----------------------------------------------------------------------------

(* The history observer, the API calls of the components, the page *)
Elsewhere ==
    /\ \/ StartTransaction
       \/ \E t \in Transactions, s \in Spans : t = current /\ StartSpan(t, s, TRUE)
       \/ \E s \in Spans : EndSpan(s)
       \/ RunMicrotask
       \/ Hide \/ Show \/ Tick
    /\ UNCHANGED routeVars

RouteNext ==
    \/ \E c \in Components :
          \/ Construct(c)
          \/ WillUnmount(c)
          \/ \E f \in Frames : DidMount(c, f)
    \/ Navigate
    \/ NavigationError
    \/ NavigationCancel
    \/ \E f \in Frames :
          \/ NavigationEnd(f)
          \/ AnimationFrame(f)
          \/ FrameTimeout(f)
          \/ Callback(f)
    \/ Elsewhere

(* The browser runs microtasks and the timers that were set *)
RouteSpec ==
    /\ RouteInit
    /\ [][RouteNext]_routeAllVars
    /\ WF_routeAllVars(RunMicrotask /\ UNCHANGED routeVars)
    /\ \A f \in Frames : WF_routeAllVars(FrameTimeout(f)) /\ WF_routeAllVars(Callback(f))

-----------------------------------------------------------------------------
(* Properties *)

(* The shape of the state, and with it that the race of the animation frame  *)
(* and the timeout queues and runs each callback at most once.               *)
RouteTypeOK ==
    /\ TypeOK
    /\ framework \in {"react", "vue", "angular"}
    /\ component \in [Components -> ComponentRecord]
    /\ routed \in Transactions \cup {NoTransaction}
    /\ navigation \in [begun : 0..MaxNavigations, pending : 0..MaxNavigations]
    /\ frame \in [Frames -> FrameRecord]
    /\ \A f \in Frames : frame[f].queued + frame[f].ran <= 1
    /\ completed \subseteq Transactions

(* After the integration asked the transaction of a route change to finish,  *)
(* by its callback, its unmount or its error handler, that transaction is    *)
(* never left running with nothing that will end it: it ended or a task, a   *)
(* blocking span or block(true) holds it.  The callbacks of Vue and Angular  *)
(* may read the transaction of a later navigation; the earlier one was then  *)
(* reused for it or ended when it was replaced.                              *)
FinishedOrHeld ==
    \A t \in completed : tr[t].status = "ended" \/ ~IsFinished(tr[t])

(* A route change that was rendered is ended or held in the end, also on a   *)
(* page that is hidden and gets no animation frames.                         *)
RouteChangeEnds ==
    \A f \in Frames :
        frame[f] # UnusedFrame
          ~> frame[f].of \in completed /\ frame[f].ran = 1
=============================================================================
