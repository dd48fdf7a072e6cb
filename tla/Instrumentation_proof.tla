------------------------ MODULE Instrumentation_proof ------------------------
(***************************************************************************)
(* Invariants of RouteChanges and of ApiCalls, for every number of         *)
(* components, navigations, frames, requests and calls.                    *)
(*                                                                         *)
(* Both are composed with TransactionService, so what                      *)
(* TransactionService_proof says of a step or of a call in the middle of   *)
(* one holds in both.                                                      *)
(***************************************************************************)
EXTENDS RouteChanges, ApiCalls, TransactionService_proof

-----------------------------------------------------------------------------
(* Route changes.  Every step of the integrations is, for the transactions, *)
(* a step of TransactionService or none (ServiceStep).  What is left to     *)
(* show is about the references the integrations keep: each is to a managed *)
(* transaction that was started, and a callback of Vue or Angular that      *)
(* reads the transaction of a later navigation finds its own ended          *)
(* (EarlierEnded).                                                          *)

RouteShape ==
    /\ framework \in {"react", "vue", "angular"}
    /\ component \in [Components -> ComponentRecord]
    /\ routed \in Transactions \cup {NoTransaction}
    /\ navigation \in [begun : 0..MaxNavigations, pending : 0..MaxNavigations]
    /\ navigation.pending <= navigation.begun
    /\ frame \in [Frames -> FrameRecord]
    /\ completed \subseteq Transactions

(* The references the integrations keep *)
References ==
    /\ \A c \in Components : component[c].status # "none" =>
          framework = "react" /\ Known(component[c].transaction)
    /\ routed # NoTransaction => Known(routed)
    /\ navigation.begun > 0 => routed # NoTransaction
    /\ \A f \in Frames : frame[f] # UnusedFrame => Known(frame[f].of)
    /\ \A f \in Frames : frame[f] # UnusedFrame /\ framework # "react"
                           => routed # NoTransaction
    /\ \A t \in completed : Known(t)

(* A frame queues its callback after both of its timers are gone *)
OneCallback ==
    \A f \in Frames :
        /\ frame[f].queued + frame[f].ran <= 1
        /\ frame[f].raf \/ frame[f].timeout => frame[f].queued + frame[f].ran = 0

EarlierEnded ==
    \A f \in Frames :
        framework # "react" /\ frame[f] # UnusedFrame
          => frame[f].of = routed \/ tr[frame[f].of].status = "ended"

RInv ==
    /\ CInv
    /\ RouteShape
    /\ References
    /\ OneCallback
    /\ EarlierEnded
    /\ FinishedOrHeld

-----------------------------------------------------------------------------
(* What a step of the service does to a transaction an integration keeps *)

LEMMA RouteChangeType == RouteChange \in CallOptions /\ RouteChange.managed
<1>1. 2 \in DOMAIN TypeOrder /\ TypeOrder[2] = "route-change"
  BY DEF TypeOrder
<1>2. "route-change" \in Types
  BY <1>1 DEF Types
<1> QED BY <1>2 DEF RouteChange, CallOptions

(* startTransaction of a route change returns a known transaction, and any  *)
(* other known one has ended by then (transaction-service.js:139).          *)
LEMMA RouteStartIs ==
    ASSUME CInv, StartRouteChange
    PROVE  /\ CInv' /\ AStep
           /\ \E r \in Transactions :
                 /\ current' = r /\ Known(r)'
                 /\ \A t : Known(t) => t = r \/ tr'[t].status = "ended"
<1>1. /\ tr \in [Transactions -> TransactionRecord]
      /\ current \in Transactions \cup {NoTransaction}
      /\ NoTransaction \notin Transactions
      /\ \A t \in Transactions : tr[t].status = "running" /\ tr[t].managed => t = current
  BY HeapIs, ConstantsAssumption DEF CInv, IInv, TypeOK, HeapInv, Heap
<1>2. ASSUME NEW t, Known(t)
      PROVE  t \in Transactions /\ (t = current \/ tr[t].status = "ended")
  BY <1>1, <1>2 DEF Known, TransactionRecord
<1>3. CASE StartManagedReuse(RouteChange)
  <2>1. IInv' /\ ARedefine
    BY <1>3, RouteChangeType, ReuseStep, ReuseRedefines DEF CInv
  <2>2. AStep
    BY <2>1 DEF AStep
  <2>3. CInv'
    BY <2>1, <2>2, StepKeepsCInv
  <2>4. PICK r \in Transactions : r = current
    BY <2>1 DEF ARedefine
  <2>5. current' = r /\ Known(r)'
    BY <2>1, <2>4 DEF ARedefine, Known
  <2>6. \A t : Known(t) => t = r \/ tr'[t].status = "ended"
    BY <1>2, <2>2, <2>4, KnownStays
  <2> QED BY <2>2, <2>3, <2>5, <2>6
<1>4. ASSUME NEW r \in Transactions, NEW sampled \in SampledOutcomes,
             \/ StartManagedNew(RouteChange, r, sampled)
             \/ StartManagedReplace(RouteChange, r, sampled)
      PROVE  /\ CInv' /\ AStep
             /\ current' = r /\ Known(r)'
             /\ \A t : Known(t) => t = r \/ tr'[t].status = "ended"
  <2>1. IInv'
    BY <1>4, RouteChangeType, StartStep DEF CInv
  <2>2. ABegin(r)
    BY <1>4, RouteChangeType, StartBegins
  <2>3. AStep /\ CInv'
    BY <2>1, <2>2, StepKeepsCInv DEF AStep
  <2>4. current' = r /\ r # NoTransaction /\ tr'[r].status = "running"
    BY <1>4, <2>2 DEF ABegin, StartManagedNew, StartManagedReplace
  <2>5. Known(r)'
    BY <2>3, <2>4 DEF CInv, Known
  <2>6. ASSUME NEW t, Known(t), t # r
        PROVE  tr'[t].status = "ended"
    <3>1. CASE tr[t].status = "ended"
      BY <2>3, <2>6, <3>1, KnownStays
    <3>2. CASE tr[t].status # "ended"
      <4>1. t \in Transactions /\ t = current /\ HasCurrent
        BY <1>1, <1>2, <2>6, <3>2 DEF HasCurrent
      <4>2. tr'[t] = Close(tr[t])
        BY <2>2, <2>4, <2>6, <4>1 DEF ABegin, Cut
      <4> QED BY <1>1, <4>1, <4>2, CloseIs
    <3> QED BY <3>1, <3>2
  <2> QED BY <2>3, <2>4, <2>5, <2>6
<1> QED BY <1>3, <1>4 DEF StartRouteChange

(* detectFinish or end on a transaction that was started is a call of the   *)
(* service; after it the transaction has ended or is held                   *)
LEMMA FinishCallIs ==
    ASSUME CInv, NEW t \in Transactions, CallDetectFinish(t) \/ EndTransaction(t)
    PROVE  /\ CInv' /\ AStep
           /\ tr'[t].status = "ended" \/ ~IsFinished(tr'[t])
<1>1. AStep
  BY TransactionCallIsLawful DEF AStep
<1>2. CInv'
  <2>1. IInv'
    BY TransactionStep DEF CInv
  <2> QED BY <1>1, <2>1, StepKeepsCInv
<1>3. /\ HeapOK(Heap) /\ Heap.tr = tr /\ tr[t].status # "unused"
  BY HeapIs DEF CallDetectFinish, EndTransaction
<1>4. End(Heap, t).tr[t].status = "ended"
  BY <1>3, EndOK
<1>5. CASE EndTransaction(t)
  BY <1>1, <1>2, <1>4, <1>5 DEF EndTransaction, Become
<1>6. CASE CallDetectFinish(t)
  <2>1. tr' = DetectFinish(Heap, t).tr
    BY <1>6 DEF CallDetectFinish, Become
  <2>2. CASE IsFinished(tr[t])
    BY <1>1, <1>2, <1>3, <1>4, <2>1, <2>2 DEF DetectFinish
  <2>3. CASE ~IsFinished(tr[t])
    BY <1>1, <1>2, <1>3, <2>1, <2>3 DEF DetectFinish
  <2> QED BY <2>2, <2>3
<1> QED BY <1>5, <1>6

-----------------------------------------------------------------------------
(* The steps of the integrations *)

KnownAfter(t) == t \in Transactions /\ tr'[t].status # "unused" /\ tr'[t].managed

EndedOrHeldAfter(t) == tr'[t].status = "ended" \/ ~IsFinished(tr'[t])

(* What the service keeps for the integrations in one step *)
RouteKept ==
    /\ CInv'
    /\ \A t : Known(t) => KnownAfter(t)
    /\ \A t : Known(t) /\ tr[t].status = "ended" => tr'[t].status = "ended"
    /\ \A t \in completed : EndedOrHeldAfter(t)

(* Every step of the service keeps it. *)
LEMMA ServiceKeeps ==
    ASSUME RInv, CInv', AStep
    PROVE  RouteKept
<1>1. CInv /\ \A t \in completed : Known(t)
  BY DEF RInv, References
<1>2. ASSUME NEW t, Known(t)
      PROVE  /\ KnownAfter(t)
             /\ tr[t].status = "ended" => tr'[t].status = "ended"
             /\ tr[t].status = "ended" \/ ~IsFinished(tr[t]) => EndedOrHeldAfter(t)
  BY <1>1, <1>2, KnownStays DEF Known, KnownAfter, EndedOrHeldAfter
<1>3. \A t \in completed : EndedOrHeldAfter(t)
  BY <1>1, <1>2 DEF RInv, FinishedOrHeld
<1> QED BY <1>2, <1>3 DEF RouteKept

(* So does a step that is none of the service. *)
LEMMA QuietKeeps ==
    ASSUME RInv, UNCHANGED vars
    PROVE  RouteKept
<1>1. CInv
  BY DEF RInv
<1>2. AStep /\ IInv'
  BY <1>1, StepIs, NextKeepsInv DEF CInv
<1> QED BY <1>1, <1>2, StepKeepsCInv, ServiceKeeps

(* The parts of the invariant that are about the integrations' variables *)
RefsInv == RouteShape /\ References /\ OneCallback /\ EarlierEnded /\ FinishedOrHeld

(* The page outside the integrations *)
LEMMA ElsewhereStep ==
    ASSUME RInv, RouteKept, UNCHANGED routeVars
    PROVE  RInv'
<1>1. UNCHANGED <<framework, component, routed, navigation, frame, completed>>
  BY DEF routeVars
<1>2. RouteShape' /\ OneCallback'
  BY <1>1 DEF RInv, RouteShape, OneCallback
<1>3. References'
  BY <1>1 DEF RInv, References, RouteKept, KnownAfter, Known
<1>4. EarlierEnded'
  BY <1>1 DEF RInv, References, EarlierEnded, RouteKept
<1>5. FinishedOrHeld'
  BY <1>1 DEF FinishedOrHeld, RouteKept, EndedOrHeldAfter
<1> QED BY <1>2, <1>3, <1>4, <1>5 DEF RInv, RouteKept

(* A component asks for its transaction when it is constructed (rum-react,  *)
(* get-with-transaction.js:57).                                             *)
LEMMA ConstructStep ==
    ASSUME RInv, NEW c \in Components, Construct(c)
    PROVE  RInv'
<1>1. PICK r \in Transactions : /\ CInv' /\ AStep /\ current' = r /\ Known(r)'
  BY RouteStartIs DEF RInv, Construct
<1>2. RouteKept
  BY <1>1, ServiceKeeps
<1>3. /\ component' = [component EXCEPT ![c] = [status |-> "constructed",
                                                transaction |-> r]]
      /\ UNCHANGED <<framework, routed, navigation, frame, completed>>
  BY <1>1 DEF Construct
<1>4. /\ component \in [Components -> ComponentRecord]
      /\ [status |-> "constructed", transaction |-> r] \in ComponentRecord
  BY DEF RInv, RouteShape, ComponentRecord
<1>5. RouteShape' /\ OneCallback'
  BY <1>3, <1>4 DEF RInv, RouteShape, OneCallback
<1>6. References'
  <2>1. \A d \in Components : component'[d].status # "none" =>
           framework = "react" /\ KnownAfter(component'[d].transaction)
    BY <1>1, <1>2, <1>3, <1>4 DEF RInv, References, RouteKept, KnownAfter, Known, Construct
  <2> QED BY <1>2, <1>3, <2>1 DEF RInv, References, RouteKept, KnownAfter, Known
<1>7. EarlierEnded'
  BY <1>2, <1>3 DEF RInv, References, EarlierEnded, RouteKept
<1>8. FinishedOrHeld'
  BY <1>2, <1>3 DEF FinishedOrHeld, RouteKept, EndedOrHeldAfter
<1> QED BY <1>2, <1>5, <1>6, <1>7, <1>8 DEF RInv, RouteKept

(* A navigation begins: the transaction of the one before it, which its     *)
(* callbacks can no longer see, is the same one or has ended (rum-vue,      *)
(* route-hooks.js:34).                                                      *)
LEMMA NavigateStep ==
    ASSUME RInv, Navigate
    PROVE  RInv'
<1>1. PICK r \in Transactions : /\ CInv' /\ AStep /\ current' = r /\ Known(r)'
                                /\ \A t : Known(t) => t = r \/ tr'[t].status = "ended"
  BY RouteStartIs DEF RInv, Navigate
<1>2. RouteKept
  BY <1>1, ServiceKeeps
<1>3. /\ navigation.begun < MaxNavigations /\ framework # "react"
      /\ navigation' = [begun |-> navigation.begun + 1,
                        pending |-> navigation.pending + 1]
      /\ routed' = r
      /\ UNCHANGED <<framework, component, frame, completed>>
  BY <1>1 DEF Navigate
<1>4. /\ navigation' \in [begun : 0..MaxNavigations, pending : 0..MaxNavigations]
      /\ navigation'.pending <= navigation'.begun
  BY <1>3, RouteAssumption DEF RInv, RouteShape
<1>5. RouteShape' /\ OneCallback'
  BY <1>3, <1>4 DEF RInv, RouteShape, OneCallback
<1>6. References'
  <2>1. KnownAfter(r) /\ r # NoTransaction
    BY <1>1, ConstantsAssumption DEF Known, KnownAfter
  <2> QED BY <1>2, <1>3, <2>1 DEF RInv, References, RouteKept, KnownAfter, Known
<1>7. EarlierEnded'
  BY <1>1, <1>3 DEF RInv, References, EarlierEnded
<1>8. FinishedOrHeld'
  BY <1>2, <1>3 DEF FinishedOrHeld, RouteKept, EndedOrHeldAfter
<1> QED BY <1>2, <1>5, <1>6, <1>7, <1>8 DEF RInv, RouteKept

(* What a call of afterFrame for a known transaction does, where that is    *)
(* the routed one of Vue and Angular (after-frame.js:44)                    *)
LEMMA AfterFrameIs ==
    ASSUME RInv, RouteKept, NEW f \in Frames, NEW t, Known(t), AfterFrame(f, t),
           framework = "react" \/ t = routed,
           UNCHANGED <<framework, routed, completed>>
    PROVE  /\ frame' \in [Frames -> FrameRecord]
           /\ \A g \in Frames : frame'[g] # UnusedFrame =>
                 /\ KnownAfter(frame'[g].of)
                 /\ framework' # "react" => routed' # NoTransaction
           /\ OneCallback' /\ EarlierEnded' /\ FinishedOrHeld'
<1> DEFINE x == [UnusedFrame EXCEPT !.raf = TRUE, !.timeout = TRUE, !.of = t]
<1>1. /\ frame' = [frame EXCEPT ![f] = x] /\ frame \in [Frames -> FrameRecord]
  BY DEF AfterFrame, RInv, RouteShape
<1>2. /\ x \in FrameRecord /\ x.of = t /\ x.queued = 0 /\ x.ran = 0
  <2>1. t \in Transactions \cup {NoTransaction}
    BY DEF Known
  <2>2. /\ UnusedFrame \in FrameRecord
        /\ UnusedFrame.queued = 0 /\ UnusedFrame.ran = 0
    BY DEF UnusedFrame, FrameRecord
  <2> QED BY <2>1, <2>2 DEF FrameRecord
<1> HIDE DEF x
<1>3. /\ frame' \in [Frames -> FrameRecord] /\ frame'[f] = x
      /\ \A g \in Frames \ {f} : frame'[g] = frame[g]
  BY <1>1, <1>2
<1>4. KnownAfter(t) /\ (framework # "react" => t # NoTransaction)
  BY ConstantsAssumption DEF RouteKept, Known
<1>5. \A g \in Frames : frame'[g] # UnusedFrame =>
         /\ KnownAfter(frame'[g].of)
         /\ framework' # "react" => routed' # NoTransaction
  BY <1>2, <1>3, <1>4 DEF RInv, References, RouteKept
<1>6. OneCallback'
  BY <1>2, <1>3 DEF RInv, OneCallback
<1>7. EarlierEnded'
  BY <1>2, <1>3 DEF RInv, References, EarlierEnded, RouteKept
<1>8. FinishedOrHeld'
  BY DEF FinishedOrHeld, RouteKept, EndedOrHeldAfter
<1> QED BY <1>3, <1>5, <1>6, <1>7, <1>8

(* The mounted component waits for its frame (get-with-transaction.js:118). *)
LEMMA DidMountStep ==
    ASSUME RInv, NEW c \in Components, NEW f \in Frames, DidMount(c, f)
    PROVE  RInv'
<1>1. RouteKept
  BY QuietKeeps DEF DidMount
<1>2. /\ component[c].status = "constructed"
      /\ component' = [component EXCEPT ![c].status = "mounted"]
      /\ AfterFrame(f, component[c].transaction)
      /\ UNCHANGED <<framework, routed, navigation, completed>>
  BY DEF DidMount
<1>3. component \in [Components -> ComponentRecord]
  BY DEF RInv, RouteShape
<1>4. PICK t : t = component[c].transaction /\ Known(t)
  BY <1>2 DEF RInv, References
<1>5. /\ frame' \in [Frames -> FrameRecord]
      /\ \A g \in Frames : frame'[g] # UnusedFrame =>
            /\ KnownAfter(frame'[g].of)
            /\ framework' # "react" => routed' # NoTransaction
      /\ OneCallback' /\ EarlierEnded' /\ FinishedOrHeld'
  <2>1. framework = "react"
    BY <1>2 DEF RInv, References
  <2>2. AfterFrame(f, t)
    BY <1>2, <1>4
  <2> QED BY <1>1, <1>2, <1>4, <2>1, <2>2, AfterFrameIs
<1>6. RouteShape'
  BY <1>2, <1>3, <1>5 DEF RInv, RouteShape, ComponentRecord
<1>7. References'
  <2>1. \A d \in Components :
           /\ component'[d].transaction = component[d].transaction
           /\ component'[d].status # "none" => component[d].status # "none"
    BY <1>2, <1>3 DEF ComponentRecord
  <2> QED BY <1>1, <1>2, <1>5, <2>1 DEF RInv, References, RouteKept, KnownAfter, Known
<1> QED BY <1>1, <1>5, <1>6, <1>7 DEF RInv, RouteKept

(* The router arrives (route-hooks.js:51). *)
LEMMA NavigationEndStep ==
    ASSUME RInv, NEW f \in Frames, NavigationEnd(f)
    PROVE  RInv'
<1>1. RouteKept
  BY QuietKeeps DEF NavigationEnd
<1>2. /\ navigation.pending > 0 /\ navigation' = [navigation EXCEPT !.pending = @ - 1]
      /\ AfterFrame(f, routed)
      /\ UNCHANGED <<framework, component, routed, completed>>
  BY DEF NavigationEnd, Leave
<1>3. PICK t : t = routed /\ Known(t)
  BY <1>2 DEF RInv, RouteShape, References
<1>4. /\ frame' \in [Frames -> FrameRecord]
      /\ \A g \in Frames : frame'[g] # UnusedFrame =>
            /\ KnownAfter(frame'[g].of)
            /\ framework' # "react" => routed' # NoTransaction
      /\ OneCallback' /\ EarlierEnded' /\ FinishedOrHeld'
  <2>1. AfterFrame(f, t)
    BY <1>2, <1>3
  <2> QED BY <1>1, <1>2, <1>3, <2>1, AfterFrameIs
<1>5. /\ navigation' \in [begun : 0..MaxNavigations, pending : 0..MaxNavigations]
      /\ navigation'.pending <= navigation'.begun
      /\ navigation'.begun = navigation.begun
  BY <1>2, RouteAssumption DEF RInv, RouteShape
<1>6. RouteShape'
  BY <1>2, <1>4, <1>5 DEF RInv, RouteShape
<1>7. References'
  BY <1>1, <1>2, <1>4, <1>5 DEF RInv, References, RouteKept, KnownAfter, Known
<1> QED BY <1>1, <1>4, <1>6, <1>7 DEF RInv, RouteKept

(* A handler or a callback of frame f runs: x is what becomes of the frame. *)
LEMMA FrameStep ==
    ASSUME RInv, RouteKept, NEW f \in Frames, NEW x \in FrameRecord,
           frame[f] # UnusedFrame, frame' = [frame EXCEPT ![f] = x],
           x.of = frame[f].of, x.queued + x.ran <= 1, ~x.raf, ~x.timeout,
           NEW more, more \subseteq {frame[f].of}, completed' = completed \cup more,
           \A t \in more : EndedOrHeldAfter(t),
           UNCHANGED <<framework, component, routed, navigation>>
    PROVE  RInv'
<1>1. /\ frame \in [Frames -> FrameRecord] /\ Known(frame[f].of)
  BY DEF RInv, RouteShape, References
<1>2. /\ frame' \in [Frames -> FrameRecord] /\ frame'[f] = x
      /\ \A g \in Frames \ {f} : frame'[g] = frame[g]
  BY <1>1
<1>3. \A g \in Frames : /\ frame'[g].of = frame[g].of
                        /\ frame'[g] # UnusedFrame => frame[g] # UnusedFrame
  BY <1>2
<1>4. RouteShape'
  BY <1>1, <1>2 DEF RInv, RouteShape, Known
<1>5. References'
  <2>1. \A t \in completed' : KnownAfter(t)
    BY <1>1 DEF RInv, References, RouteKept
  <2>2. \A g \in Frames : frame'[g] # UnusedFrame => KnownAfter(frame'[g].of)
    BY <1>3 DEF RInv, References, RouteKept
  <2>3. routed # NoTransaction => KnownAfter(routed)
    BY DEF RInv, References, RouteKept
  <2>4. \A c \in Components : component[c].status # "none" =>
           framework = "react" /\ KnownAfter(component[c].transaction)
    BY DEF RInv, References, RouteKept
  <2> QED BY <1>3, <2>1, <2>2, <2>3, <2>4 DEF RInv, References, KnownAfter, Known
<1>6. OneCallback'
  BY <1>2 DEF RInv, OneCallback
<1>7. EarlierEnded'
  BY <1>3 DEF RInv, References, EarlierEnded, RouteKept
<1>8. FinishedOrHeld'
  BY DEF FinishedOrHeld, RouteKept, EndedOrHeldAfter
<1> QED BY <1>4, <1>5, <1>6, <1>7, <1>8 DEF RInv, RouteKept

(* What fires first cancels the other and queues the callback               *)
(* (after-frame.js:46).                                                     *)
LEMMA HandlerStep ==
    ASSUME RInv, NEW f \in Frames, AnimationFrame(f) \/ FrameTimeout(f)
    PROVE  RInv'
<1> DEFINE r == frame[f]
           x == Handled(r)
<1>1. RouteKept
  BY QuietKeeps DEF AnimationFrame, FrameTimeout
<1>2. /\ r.raf \/ r.timeout
      /\ frame' = [frame EXCEPT ![f] = x]
      /\ UNCHANGED <<framework, component, routed, navigation, completed>>
  BY DEF AnimationFrame, FrameTimeout
<1>3. r \in FrameRecord /\ r.queued + r.ran = 0
  BY <1>2 DEF RInv, RouteShape, OneCallback
<1>4. r # UnusedFrame
  BY <1>2 DEF UnusedFrame
<1>5. r.queued = 0 /\ r.ran = 0
  BY <1>3 DEF FrameRecord
<1> HIDE DEF r
<1>6. /\ x \in FrameRecord /\ x.of = r.of /\ x.queued = 1 /\ x.ran = 0
      /\ ~x.raf /\ ~x.timeout
  <2>1. r.queued + 1 = 1
    BY <1>5
  <2>2. x = [r EXCEPT !.raf = FALSE, !.timeout = FALSE, !.queued = 1]
    BY <2>1 DEF Handled
  <2>3. 1 \in 0..1
    OBVIOUS
  <2>4. [r EXCEPT !.raf = FALSE, !.timeout = FALSE, !.queued = 1] \in FrameRecord
    BY <1>3, <2>3 DEF FrameRecord
  <2>5. x.of = r.of /\ x.queued = 1 /\ x.ran = 0
    BY <1>3, <1>5, <2>2 DEF FrameRecord
  <2>6. ~x.raf /\ ~x.timeout
    BY <1>3 DEF Handled, FrameRecord
  <2> HIDE DEF x
  <2> QED BY <2>2, <2>4, <2>5, <2>6
<1> HIDE DEF x
<1>8. PICK y \in FrameRecord : y = x
  BY <1>6
<1>7. PICK none : none = {}
  OBVIOUS
<1>9. /\ frame[f] # UnusedFrame /\ frame' = [frame EXCEPT ![f] = y]
      /\ y.of = frame[f].of /\ y.queued + y.ran <= 1 /\ ~y.raf /\ ~y.timeout
  BY <1>2, <1>4, <1>6, <1>8 DEF r
<1>10. /\ none \subseteq {frame[f].of} /\ \A t \in none : EndedOrHeldAfter(t)
       /\ completed' = completed \cup none
  BY <1>2, <1>7
<1>11. UNCHANGED <<framework, component, routed, navigation>>
  BY <1>2
<1> QED BY <1>1, <1>9, <1>10, <1>11, FrameStep

(* The callback asks the transaction it reads to finish; then its own       *)
(* transaction has ended or is held, which of the two it read.              *)
LEMMA CallbackStep ==
    ASSUME RInv, NEW f \in Frames, Callback(f)
    PROVE  RInv'
<1> DEFINE r == frame[f]
           x == [r EXCEPT !.queued = @ - 1, !.ran = @ + 1]
<1>1. /\ r.queued > 0 /\ Become(DetectFinish(Heap, Subject(f)))
      /\ completed' = completed \cup {r.of}
      /\ UNCHANGED <<current, pageVars, verdicts, history,
                     framework, component, routed, navigation>>
  BY DEF Callback
<1>2. /\ frame \in [Frames -> FrameRecord] /\ r \in FrameRecord
      /\ r.queued + r.ran <= 1 /\ (r.raf \/ r.timeout => r.queued + r.ran = 0)
  BY DEF RInv, RouteShape, OneCallback
<1>3. r.queued = 1 /\ r.ran = 0 /\ ~r.raf /\ ~r.timeout
  BY <1>1, <1>2 DEF FrameRecord
<1>4. r # UnusedFrame
  BY <1>3 DEF UnusedFrame
<1>5. frame' = [frame EXCEPT ![f] = x]
  <2>1. frame' = [frame EXCEPT ![f].queued = @ - 1, ![f].ran = @ + 1]
    BY DEF Callback
  <2> QED BY <1>2, <2>1
<1>6. /\ Known(r.of) /\ Known(Subject(f))
      /\ r.of = Subject(f) \/ tr[r.of].status = "ended"
  BY <1>4 DEF RInv, References, EarlierEnded, Subject
<1>7. PICK t \in Transactions : t = Subject(f) /\ tr[t].status # "unused"
  BY <1>6 DEF Known
<1>8. CallDetectFinish(t)
  BY <1>1, <1>7 DEF CallDetectFinish
<1>9. RouteKept /\ EndedOrHeldAfter(t)
  BY <1>8, FinishCallIs, ServiceKeeps DEF RInv, EndedOrHeldAfter
<1>10. tr'[r.of].status = "ended" \/ ~IsFinished(tr'[r.of])
  BY <1>6, <1>7, <1>9 DEF RouteKept, EndedOrHeldAfter
<1> HIDE DEF r
<1>11. /\ x \in FrameRecord /\ x.of = r.of /\ x.queued = 0 /\ x.ran = 1
       /\ ~x.raf /\ ~x.timeout
  <2>1. r.queued - 1 = 0 /\ r.ran + 1 = 1
    BY <1>3
  <2>2. x = [r EXCEPT !.queued = 0, !.ran = 1]
    BY <2>1
  <2> HIDE DEF x
  <2> QED BY <1>2, <1>3, <2>2 DEF FrameRecord
<1> HIDE DEF x
<1>12. PICK y \in FrameRecord : y = x
  BY <1>11
<1>13. /\ frame[f] # UnusedFrame /\ frame' = [frame EXCEPT ![f] = y]
       /\ y.of = frame[f].of /\ y.queued + y.ran <= 1 /\ ~y.raf /\ ~y.timeout
  BY <1>4, <1>5, <1>11, <1>12 DEF r
<1>14. PICK u \in Transactions : u = r.of
  BY <1>6 DEF Known
<1>15. {u} \subseteq {frame[f].of} /\ completed' = completed \cup {u}
  BY <1>1, <1>14 DEF r
<1>16. \A v \in {u} : EndedOrHeldAfter(v)
  BY <1>10, <1>14 DEF EndedOrHeldAfter
<1> QED BY <1>1, <1>9, <1>13, <1>15, <1>16, FrameStep

(* Where the integration asks transaction u of its own to finish and leaves *)
(* the frames alone                                                         *)
LEMMA AskStep ==
    ASSUME RInv, RouteKept, NEW u, Known(u), EndedOrHeldAfter(u),
           completed' = completed \cup {u}, UNCHANGED <<framework, routed, frame>>
    PROVE  /\ completed' \subseteq Transactions /\ \A t \in completed' : KnownAfter(t)
           /\ OneCallback' /\ EarlierEnded' /\ FinishedOrHeld'
<1>1. completed' \subseteq Transactions /\ \A t \in completed' : KnownAfter(t)
  BY DEF RInv, RouteShape, References, RouteKept, Known
<1>2. OneCallback'
  BY DEF RInv, OneCallback
<1>3. EarlierEnded'
  BY DEF RInv, References, EarlierEnded, RouteKept
<1>4. FinishedOrHeld'
  BY DEF FinishedOrHeld, RouteKept, EndedOrHeldAfter
<1> QED BY <1>1, <1>2, <1>3, <1>4

(* The component is unmounted (get-with-transaction.js:124). *)
LEMMA WillUnmountStep ==
    ASSUME RInv, NEW c \in Components, WillUnmount(c)
    PROVE  RInv'
<1>1. /\ component[c].status = "mounted"
      /\ component' = [component EXCEPT ![c].status = "unmounted"]
      /\ Become(DetectFinish(Heap, component[c].transaction))
      /\ completed' = completed \cup {component[c].transaction}
      /\ UNCHANGED <<current, pageVars, verdicts, history>>
      /\ UNCHANGED <<framework, routed, navigation, frame>>
  BY DEF WillUnmount
<1>2. component \in [Components -> ComponentRecord]
  BY DEF RInv, RouteShape
<1>3. PICK t : t = component[c].transaction /\ Known(t)
  BY <1>1 DEF RInv, References
<1>4. CallDetectFinish(t) /\ t \in Transactions
  BY <1>1, <1>3 DEF CallDetectFinish, Known
<1>5. RouteKept /\ EndedOrHeldAfter(t)
  BY <1>4, FinishCallIs, ServiceKeeps DEF RInv, EndedOrHeldAfter
<1>6. /\ completed' \subseteq Transactions /\ \A u \in completed' : KnownAfter(u)
      /\ OneCallback' /\ EarlierEnded' /\ FinishedOrHeld'
  BY <1>1, <1>3, <1>5, AskStep
<1>7. RouteShape'
  BY <1>1, <1>2, <1>6 DEF RInv, RouteShape, ComponentRecord
<1>8. References'
  <2>1. \A d \in Components :
           /\ component'[d].transaction = component[d].transaction
           /\ component'[d].status # "none" => component[d].status # "none"
    BY <1>1, <1>2 DEF ComponentRecord
  <2> QED BY <1>1, <1>5, <1>6, <2>1 DEF RInv, References, RouteKept, KnownAfter, Known
<1> QED BY <1>5, <1>6, <1>7, <1>8 DEF RInv, RouteKept

(* A navigation fails or is given up (route-hooks.js:62). *)
LEMMA NavigationStops ==
    ASSUME RInv, NavigationError \/ NavigationCancel
    PROVE  RInv'
<1>1. /\ navigation.pending > 0 /\ navigation' = [navigation EXCEPT !.pending = @ - 1]
      /\ UNCHANGED <<framework, component, routed, frame>>
  BY DEF NavigationError, NavigationCancel, Leave
<1>2. /\ navigation' \in [begun : 0..MaxNavigations, pending : 0..MaxNavigations]
      /\ navigation'.pending <= navigation'.begun
      /\ navigation'.begun = navigation.begun
  BY <1>1, RouteAssumption DEF RInv, RouteShape
<1>3. /\ RouteKept /\ completed' \subseteq Transactions
      /\ \A u \in completed' : KnownAfter(u)
      /\ OneCallback' /\ EarlierEnded' /\ FinishedOrHeld'
  <2>1. CASE NavigationCancel
    <3>1. RouteKept /\ completed' = completed
      BY <2>1, QuietKeeps DEF NavigationCancel
    <3>2. completed' \subseteq Transactions /\ \A u \in completed' : KnownAfter(u)
      BY <3>1 DEF RInv, RouteShape, References, RouteKept
    <3>3. OneCallback'
      BY <1>1 DEF RInv, OneCallback
    <3>4. EarlierEnded'
      BY <1>1, <3>1 DEF RInv, References, EarlierEnded, RouteKept
    <3>5. FinishedOrHeld'
      BY <3>1 DEF FinishedOrHeld, RouteKept, EndedOrHeldAfter
    <3> QED BY <3>1, <3>2, <3>3, <3>4, <3>5
  <2>2. CASE NavigationError
    <3>1. PICK t : t = routed /\ Known(t)
      BY <1>1 DEF RInv, RouteShape, References
    <3>2. CallDetectFinish(t) \/ EndTransaction(t)
      BY <2>2, <3>1 DEF NavigationError, CallDetectFinish, EndTransaction, Known
    <3>3. RouteKept /\ EndedOrHeldAfter(t)
      BY <3>1, <3>2, FinishCallIs, ServiceKeeps DEF RInv, EndedOrHeldAfter, Known
    <3>4. completed' = completed \cup {t}
      BY <2>2, <3>1 DEF NavigationError
    <3> QED BY <1>1, <3>1, <3>3, <3>4, AskStep
  <2> QED BY <2>1, <2>2
<1>4. RouteShape'
  BY <1>1, <1>2, <1>3 DEF RInv, RouteShape
<1>5. References'
  BY <1>1, <1>2, <1>3 DEF RInv, References, RouteKept, KnownAfter, Known
<1> QED BY <1>3, <1>4, <1>5 DEF RInv, RouteKept

(* The integrations start with no reference to any transaction. *)
LEMMA RouteInitInv == RouteInit => RInv
<1> SUFFICES ASSUME RouteInit PROVE RInv
  OBVIOUS
<1>1. CInv
  BY CallInitInv DEF RouteInit
<1>2. UnusedFrame \in FrameRecord /\ UnusedFrame.queued = 0 /\ UnusedFrame.ran = 0
  BY DEF UnusedFrame, FrameRecord
<1>3. /\ component \in [Components -> ComponentRecord]
      /\ \A c \in Components : component[c].status = "none"
  BY DEF RouteInit, ComponentRecord
<1>4. navigation \in [begun : 0..MaxNavigations, pending : 0..MaxNavigations]
      /\ navigation.pending <= navigation.begun /\ ~(navigation.begun > 0)
  BY RouteAssumption DEF RouteInit
<1>5. RouteShape
  BY <1>2, <1>3, <1>4 DEF RouteInit, RouteShape
<1>6. References /\ EarlierEnded /\ FinishedOrHeld
  BY <1>3, <1>4 DEF RouteInit, References, EarlierEnded, FinishedOrHeld
<1>7. OneCallback
  <2>1. ~UnusedFrame.raf /\ ~UnusedFrame.timeout
    BY DEF UnusedFrame
  <2> QED BY <1>2, <2>1 DEF RouteInit, OneCallback
<1> QED BY <1>1, <1>5, <1>6, <1>7 DEF RInv

(* The inductive invariant holds in every reachable state of a page. *)
THEOREM RouteInvariance == RouteSpec => []RInv
<1>1. RInv /\ [RouteNext]_routeAllVars => RInv'
  <2> SUFFICES ASSUME RInv, [RouteNext]_routeAllVars PROVE RInv'
    OBVIOUS
  <2>1. CASE Elsewhere
    <3>1. Next
      BY <2>1 DEF Elsewhere, Next, Call
    <3>2. CInv' /\ AStep
      <4>1. CInv /\ [Next]_vars
        BY <3>1 DEF RInv
      <4>2. AStep /\ IInv'
        BY <4>1, StepIs, NextKeepsInv DEF CInv
      <4> QED BY <4>1, <4>2, StepKeepsCInv
    <3> QED BY <2>1, <3>2, ServiceKeeps, ElsewhereStep DEF Elsewhere
  <2>2. CASE UNCHANGED routeAllVars
    <3>1. UNCHANGED vars /\ UNCHANGED routeVars
      BY <2>2 DEF routeAllVars
    <3> QED BY <3>1, QuietKeeps, ElsewhereStep
  <2> QED BY <2>1, <2>2, ConstructStep, WillUnmountStep, DidMountStep, NavigateStep,
             NavigationStops, NavigationEndStep, HandlerStep, CallbackStep
          DEF RouteNext
<1> QED BY <1>1, RouteInitInv, PTL DEF RouteSpec

(* Every variable keeps its type, and each callback is queued and run at    *)
(* most once, whichever of the frame and the timeout fires first.           *)
THEOREM RouteTypeCorrect == RouteSpec => []RouteTypeOK
<1>1. RInv => RouteTypeOK
  BY DEF RInv, CInv, IInv, RouteShape, OneCallback, RouteTypeOK
<1> QED BY <1>1, RouteInvariance, PTL

(* A transaction an integration asked to finish has ended or is held, for   *)
(* any number of navigations that overlap and components that are given up. *)
THEOREM FinishedOrHeldAlways == RouteSpec => []FinishedOrHeld
<1>1. RInv => FinishedOrHeld
  BY DEF RInv
<1> QED BY <1>1, RouteInvariance, PTL

-----------------------------------------------------------------------------
(* Calls of XMLHttpRequest and fetch.  A call starts and ends spans in the  *)
(* middle of one step; the first lemmas are about the heaps in between.     *)
(* The invariant then says which span is whose (CallSpans), which listener  *)
(* belongs to which call (CallObjects), and that the events still to come   *)
(* of a request say how it ended (EventsTell).                              *)

(* An http-request transaction that waits for nothing *)
Idle(r) == r.status = "running" /\ r.type = "http-request" /\ IsFinished(r)

NoneIdle(h) == \A t \in Transactions : ~Idle(h.tr[t])

(* The application starts no transaction of the type that only              *)
(* processAPICalls uses (performance-monitoring.js:268).                    *)
NoHttpStarts == \A c \in StartCalls : c.type # "http-request"

-----------------------------------------------------------------------------
(* The heap in the middle of a call *)

Sound(h, cur, ex) ==
    /\ HeapInv(h, cur, ex)
    /\ Held(h)
    /\ cur # NoTransaction => h.tr[cur].managed

(* What was started stays started, managed, and the span of its transaction *)
Follows(h, g) ==
    /\ \A t \in Transactions : h.tr[t].status # "unused" =>
          g.tr[t].status # "unused" /\ (h.tr[t].managed => g.tr[t].managed)
    /\ \A s \in Spans : h.span[s].status # "unused" =>
          g.span[s].status # "unused" /\ g.span[s].transaction = h.span[s].transaction

(* A lawful call leaves no transaction behind with nothing to wait for.     *)
LEMMA LawfulFollows ==
    ASSUME NEW h \in HeapType, Held(h), NEW t \in Transactions,
           h.tr[t].status # "unused",
           NEW q, NEW S, NEW ends, Lawful(h, t, q, S, ends),
           NEW g, Updated(h, g, t, q, S, ends)
    PROVE  Follows(h, g) /\ (NoneIdle(h) => NoneIdle(g))
<1>1. /\ h.tr \in [Transactions -> TransactionRecord]
      /\ h.span \in [Spans -> SpanRecord]
  BY DEF HeapType
<1>2. /\ g.tr[t].status # "unused" /\ SameIdentity(g.tr[t], h.tr[t])
      /\ \A u \in Transactions \ {t} : g.tr[u] = h.tr[u]
  BY LawfulKeepsHeap
<1>3. ASSUME NEW s \in Spans, h.span[s].status # "unused"
      PROVE  g.span[s].status # "unused" /\ g.span[s].transaction = h.span[s].transaction
  <2>1. /\ S[s] \in SpanRecord /\ h.span[s] \in SpanRecord
        /\ S[s] = h.span[s] \/ S[s] = Finished(h.span[s])
    BY <1>1, <1>3 DEF Lawful
  <2>2. S[s].status # "unused" /\ S[s].transaction = h.span[s].transaction
    BY <1>3, <2>1, FinishedIs
  <2>3. g.span[s] = S[s] \/ g.span[s] = Truncate(S[s])
    BY DEF Updated
  <2> QED BY <2>1, <2>2, <2>3, TruncateIs
<1>4. Follows(h, g)
  BY <1>2, <1>3 DEF Follows, SameIdentity
<1>5. ~Idle(h.tr[t]) => ~Idle(g.tr[t])
  <2>1. g.tr[t] = IF ends THEN Close(q) ELSE q
    BY <1>1 DEF Updated
  <2>2. CASE ends
    BY <2>1, <2>2, CloseIs DEF Lawful, Idle
  <2>3. CASE ~ends
    BY <2>1, <2>3 DEF Lawful, Idle, SameIdentity
  <2> QED BY <2>2, <2>3
<1> QED BY <1>2, <1>4, <1>5 DEF NoneIdle

(* The span of a call holds its transaction from the start                  *)
(* (performance-monitoring.js:276).                                         *)
LEMMA OpenedIs ==
    ASSUME TypeOK, NEW h, NEW cur, NEW ex, Sound(h, cur, ex),
           NEW t \in Transactions, NEW s \in Spans,
           h.tr[t].status = "running", h.span[s].status = "unused"
    PROVE  LET g == OpenSpan(h, t, s, TRUE)
           IN  /\ Sound(g, cur, ex) /\ Follows(h, g)
               /\ g.tr[t].status # "unused" /\ (g.tr[t].managed <=> h.tr[t].managed)
               /\ g.span[s].status # "unused" /\ g.span[s].transaction = t
               /\ (\A u \in Transactions \ {t} : ~Idle(h.tr[u])) => NoneIdle(g)
<1> DEFINE q == Adopt(h.tr[t], s, TRUE)
           S == [h.span EXCEPT ![s] = NewSpan(t)]
           g == OpenSpan(h, t, s, TRUE)
<1>1. HeapOK(h) /\ Held(h) /\ h \in HeapType /\ HeapInv(h, cur, ex)
  BY DEF Sound, HeapInv, HeapOK
<1>2. h.tr \in [Transactions -> TransactionRecord] /\ h.span \in [Spans -> SpanRecord]
  BY <1>1 DEF HeapType
<1>3. Lawful(h, t, q, S, FALSE) /\ Updated(h, g, t, q, S, FALSE)
  BY <1>1, OpenIsLawful
<1>4. CallOK(h, g, t)
  BY <1>1, OpenSpanOK
<1>5. s \in q.activeTasks
  BY <1>2 DEF Adopt, TransactionRecord
<1>6. S[s].status # "unused" /\ S[s].transaction = t
  BY <1>2 DEF NewSpan
<1> HIDE DEF q, S, g
<1>7. HeapInv(g, cur, ex)
  BY <1>1, <1>4, CallKeepsHeapInv
<1>8. /\ Held(g) /\ SameIdentity(g.tr[t], h.tr[t]) /\ g.tr[t].status # "unused"
      /\ \A u \in Transactions \ {t} : g.tr[u] = h.tr[u]
  <2>1. PICK ends : ends = FALSE
    OBVIOUS
  <2>2. Lawful(h, t, q, S, ends) /\ Updated(h, g, t, q, S, ends)
    BY <1>3, <2>1
  <2>3. h.tr[t].status # "unused"
    OBVIOUS
  <2> QED BY <1>1, <2>2, <2>3, LawfulKeepsHeap
<1>9. Follows(h, g)
  BY <1>1, <1>3, LawfulFollows
<1>10. Sound(g, cur, ex)
  <2>1. cur # NoTransaction => g.tr[cur].managed
    BY <1>1, <1>8 DEF Sound, SameIdentity, HeapInv
  <2> QED BY <1>7, <1>8, <2>1 DEF Sound
<1>11. g.tr[t] = q /\ g.span[s] = S[s]
  BY <1>2, <1>3 DEF Updated
<1>12. (\A u \in Transactions \ {t} : ~Idle(h.tr[u])) => NoneIdle(g)
  BY <1>5, <1>8, <1>11 DEF NoneIdle, Idle, IsFinished
<1> QED BY <1>6, <1>8, <1>9, <1>10, <1>11, <1>12 DEF SameIdentity, g

(* The end of a span keeps what holds of the heap (span-base.js:83).        *)
LEMMA EndedIs ==
    ASSUME TypeOK, NEW h, NEW cur, NEW ex, Sound(h, cur, ex),
           NEW s \in Spans, h.span[s].status # "unused"
    PROVE  LET g == SpanEnd(h, s)
           IN  /\ Sound(g, cur, ex) /\ Follows(h, g)
               /\ NoneIdle(h) => NoneIdle(g)
<1> DEFINE t == h.span[s].transaction
           q == Unregister(Drop(h.tr[t], s), s)
           S == [h.span EXCEPT ![s] = Finished(@)]
           ends == s \in h.tr[t].activeTasks /\ IsFinished(q) /\ q.status # "ended"
           g == SpanEnd(h, s)
<1>1. HeapOK(h) /\ Held(h) /\ h \in HeapType /\ HeapInv(h, cur, ex)
  BY DEF Sound, HeapInv, HeapOK
<1>2. CASE h.span[s].status = "ended"
  <2>1. g = h
    BY <1>2 DEF SpanEnd
  <2>2. Follows(h, h)
    BY DEF Follows
  <2> QED BY <2>1, <2>2
<1>3. CASE h.span[s].status = "running"
  <2>1. /\ t \in Transactions /\ h.tr[t].status = "running"
        /\ Lawful(h, t, q, S, ends) /\ Updated(h, g, t, q, S, ends)
    BY <1>1, <1>3, SpanEndIsLawful
  <2>2. CallOK(h, g, t)
    BY <1>1, <1>3, SpanEndOK
  <2> HIDE DEF t, q, S, ends, g
  <2>3. HeapInv(g, cur, ex)
    BY <1>1, <2>1, <2>2, CallKeepsHeapInv
  <2>4. /\ Held(g) /\ SameIdentity(g.tr[t], h.tr[t])
        /\ \A u \in Transactions \ {t} : g.tr[u] = h.tr[u]
    BY <1>1, <2>1, LawfulKeepsHeap
  <2>5. Follows(h, g) /\ (NoneIdle(h) => NoneIdle(g))
    BY <1>1, <2>1, LawfulFollows
  <2>6. cur # NoTransaction => g.tr[cur].managed
    BY <1>1, <2>4 DEF Sound, SameIdentity, HeapInv
  <2> QED BY <2>3, <2>4, <2>5, <2>6 DEF Sound, g
<1>4. h.span[s].status \in {"unused", "running", "ended"}
  BY <1>1 DEF HeapType, SpanRecord
<1> QED BY <1>2, <1>3, <1>4

(* A call without a current transaction starts one of its own               *)
(* (performance-monitoring.js:268).                                         *)
LEMMA HttpStartIs ==
    ASSUME CInv, ~HasCurrent, NEW t \in Transactions, tr[t].status = "unused",
           NEW sampled \in BOOLEAN
    PROVE  LET g == Managed(Heap, t, NewTransaction(HttpCall, sampled))
               ex == [exposed EXCEPT ![t] = lastHiddenStart = clock]
           IN  /\ Sound(g, t, ex) /\ Follows(Heap, g)
               /\ g.tr[t].status = "running" /\ g.tr[t].managed
               /\ g.span = span
               /\ \A u \in Transactions \ {t} : g.tr[u] = tr[u]
<1> DEFINE n == NewTransaction(HttpCall, sampled)
           m == Manage(n)
           g == Managed(Heap, t, n)
           ex == [exposed EXCEPT ![t] = lastHiddenStart = clock]
<1>1. /\ TypeOK /\ lastHiddenStart <= clock /\ HeapInv(Heap, current, exposed)
      /\ exposed \in [Transactions -> BOOLEAN] /\ clock \in Nat
      /\ current = NoTransaction \/ tr[current].status = "ended"
  BY DEF CInv, IInv, TypeOK, HasCurrent
<1>2. /\ Heap \in HeapType /\ Held(Heap) /\ Heap.tr = tr /\ Heap.span = span
      /\ tr \in [Transactions -> TransactionRecord]
  BY HeapIs
<1>3. HttpCall \in CallOptions /\ HttpCall.managed
  <2>1. 4 \in DOMAIN TypeOrder /\ TypeOrder[4] = "http-request"
    BY DEF TypeOrder
  <2>2. "http-request" \in Types
    BY <2>1 DEF Types
  <2> QED BY <2>2 DEF HttpCall, CallOptions
<1>4. HeapInv(g, t, ex)
  BY <1>1, <1>2, <1>3, ManagedKeepsHeapInv
<1>5. /\ m \in TransactionRecord /\ m.status = "running" /\ m.managed
      /\ m.activeTasks = {}
  <2>1. Fresh(m, HttpCall)
    BY <1>1, <1>3, FreshIs
  <2> HIDE DEF m
  <2> QED BY <1>3, <2>1 DEF Fresh
<1> HIDE DEF n
<1>6. g.tr = [tr EXCEPT ![t] = m] /\ g.span = span
  <2>1. g.tr = [Heap.tr EXCEPT ![t] = m] /\ g.span = Heap.span
    BY <1>2, <1>5, ManagedIs
  <2> HIDE DEF g, m
  <2> QED BY <1>2, <2>1
<1> HIDE DEF m, g, ex
<1>7. g.tr[t] = m /\ \A u \in Transactions \ {t} : g.tr[u] = tr[u]
  BY <1>2, <1>6
<1>8. Held(g)
  BY <1>2, <1>5, <1>6, <1>7 DEF Held
<1>9. Follows(Heap, g)
  BY <1>2, <1>6, <1>7 DEF Follows
<1>10. Sound(g, t, ex)
  BY <1>4, <1>5, <1>7, <1>8 DEF Sound
<1> QED BY <1>5, <1>6, <1>7, <1>9, <1>10 DEF g, n, ex

(* The history exposed after a call that leaves cur the current transaction *)
Exposure(cur) ==
    IF cur = current THEN exposed
    ELSE [exposed EXCEPT ![cur] = lastHiddenStart = clock]

(* What the service is when a call has its span                             *)
(* (performance-monitoring.js:262).                                         *)
LEMMA ScheduledIs ==
    ASSUME CInv, NEW s \in Spans, span[s].status = "unused", NEW svc \in Scheduled(s)
    PROVE  LET h == svc.heap
               cur == svc.current
           IN  /\ Sound(h, cur, Exposure(cur)) /\ Follows(Heap, h)
               /\ cur \in Transactions /\ h.tr[cur].managed
               /\ h.tr[cur].status # "unused"
               /\ h.span[s].status # "unused" /\ h.span[s].transaction = cur
               /\ NoneIdle(Heap) => NoneIdle(h)
               /\ cur = current \/ tr[cur].status = "unused"
<1>1. /\ TypeOK /\ HeapInv(Heap, current, exposed) /\ Held(Heap)
      /\ Heap.tr = tr /\ Heap.span = span
      /\ tr \in [Transactions -> TransactionRecord]
      /\ current \in Transactions \cup {NoTransaction}
      /\ current # NoTransaction => tr[current].status # "unused" /\ tr[current].managed
  BY HeapIs DEF CInv, IInv, TypeOK, HeapInv
<1>2. CASE HasCurrent
  <2>2. PICK t \in Transactions : t = current
    BY <1>1, <1>2 DEF HasCurrent
  <2> DEFINE g == OpenSpan(Heap, t, s, TRUE)
  <2>1. svc = [heap |-> g, current |-> t]
    <3>1. Scheduled(s) = {[heap |-> OpenSpan(Heap, current, s, TRUE), current |-> current]}
      BY <1>2 DEF Scheduled
    <3>2. svc = [heap |-> OpenSpan(Heap, current, s, TRUE), current |-> current]
      BY <3>1
    <3> QED BY <2>2, <3>2
  <2>3. tr[t].status = "running" /\ tr[t].managed
    BY <1>1, <1>2, <2>2 DEF HasCurrent, TransactionRecord
  <2>4. Sound(Heap, current, exposed)
    BY <1>1 DEF Sound
  <2>5. /\ Sound(g, current, exposed) /\ Follows(Heap, g)
        /\ g.tr[t].status # "unused" /\ (g.tr[t].managed <=> Heap.tr[t].managed)
        /\ g.span[s].status # "unused" /\ g.span[s].transaction = t
        /\ (\A u \in Transactions \ {t} : ~Idle(Heap.tr[u])) => NoneIdle(g)
    <3>1. Heap.tr[t].status = "running" /\ Heap.span[s].status = "unused"
      BY <1>1, <2>3
    <3> QED BY <1>1, <2>4, <3>1, OpenedIs
  <2> HIDE DEF g
  <2>6. svc.heap = g /\ svc.current = current /\ Exposure(current) = exposed
    BY <2>1, <2>2 DEF Exposure
  <2> QED BY <1>1, <2>2, <2>3, <2>5, <2>6 DEF NoneIdle
<1>3. CASE ~HasCurrent
  <2>1. PICK t \in Transactions, sampled \in SampledOutcomes :
           /\ tr[t].status = "unused"
           /\ svc = [heap |-> OpenSpan(Managed(Heap, t, NewTransaction(HttpCall, sampled)),
                                       t, s, TRUE),
                     current |-> t]
    <3> DEFINE Sent(u, b) ==
                 [heap |-> OpenSpan(Managed(Heap, u, NewTransaction(HttpCall, b)), u, s, TRUE),
                  current |-> u]
    <3>1. Scheduled(s) = {Sent(u, b) : u \in {v \in Transactions : tr[v].status = "unused"},
                                       b \in SampledOutcomes}
      BY <1>3 DEF Scheduled
    <3> HIDE DEF Sent
    <3>2. PICK u \in {v \in Transactions : tr[v].status = "unused"},
               b \in SampledOutcomes : svc = Sent(u, b)
      BY <3>1
    <3> QED BY <3>2 DEF Sent
  <2> DEFINE h == Managed(Heap, t, NewTransaction(HttpCall, sampled))
             g == OpenSpan(h, t, s, TRUE)
             ex == [exposed EXCEPT ![t] = lastHiddenStart = clock]
  <2>2. sampled \in BOOLEAN
    BY ConstantsAssumption
  <2>3. /\ Sound(h, t, ex) /\ Follows(Heap, h)
        /\ h.tr[t].status = "running" /\ h.tr[t].managed
        /\ h.span = span
        /\ \A u \in Transactions \ {t} : h.tr[u] = tr[u]
    BY <1>3, <2>1, <2>2, HttpStartIs
  <2>4. svc.heap = g /\ svc.current = t /\ Exposure(t) = ex
    <3>1. t # current
      BY <1>1, <2>1, ConstantsAssumption
    <3> QED BY <2>1, <3>1 DEF Exposure
  <2> HIDE DEF h, ex
  <2>5. /\ Sound(g, t, ex) /\ Follows(h, g)
        /\ g.tr[t].status # "unused" /\ (g.tr[t].managed <=> h.tr[t].managed)
        /\ g.span[s].status # "unused" /\ g.span[s].transaction = t
        /\ (\A u \in Transactions \ {t} : ~Idle(h.tr[u])) => NoneIdle(g)
    BY <1>1, <2>3, OpenedIs
  <2> HIDE DEF g
  <2>6. Follows(Heap, g)
    BY <2>3, <2>5 DEF Follows
  <2>7. NoneIdle(Heap) => NoneIdle(g)
    BY <1>1, <2>3, <2>5 DEF NoneIdle
  <2> QED BY <2>1, <2>3, <2>4, <2>5, <2>6, <2>7
<1> QED BY <1>2, <1>3

-----------------------------------------------------------------------------
(* What a step of the service keeps for the calls *)

Serviced ==
    /\ CInv'
    /\ \A s \in Spans : span[s].status # "unused" =>
          span'[s].status # "unused" /\ span'[s].transaction = span[s].transaction
    /\ \A t \in Transactions : tr[t].status # "unused" /\ tr[t].managed =>
          tr'[t].status # "unused" /\ tr'[t].managed
    /\ NoHttpStarts /\ (\A t \in Transactions : ~Idle(tr[t]))
         => \A t \in Transactions : ~Idle(tr'[t])

(* A call of the instrumentation that makes g the heap *)
LEMMA BecomesServiced ==
    ASSUME CInv, NEW g, NEW cur, Sound(g, cur, Exposure(cur)), Follows(Heap, g),
           \/ cur = current
           \/ /\ cur \in Transactions /\ tr[cur].status = "unused"
              /\ g.tr[cur].status # "unused",
           NoneIdle(Heap) => NoneIdle(g),
           Become(g), current' = cur, exposed' = Exposure(cur),
           announced' \in [Transactions -> BOOLEAN],
           UNCHANGED <<pageVars, verdicts>>
    PROVE  Serviced /\ tr' = g.tr /\ span' = g.span
<1>1. /\ Heap.tr = tr /\ Heap.span = span /\ Heap \in HeapType
      /\ exposed \in [Transactions -> BOOLEAN] /\ IInv
      /\ \A t \in Transactions : tr[t].status = "unused" => ~exposed[t]
  BY HeapIs DEF CInv, IInv, TypeOK
<1>2. /\ HeapInv(g, cur, Exposure(cur)) /\ Held(g) /\ g \in HeapType
      /\ cur # NoTransaction => g.tr[cur].managed
  BY DEF Sound, HeapInv, HeapOK
<1>3. /\ Exposure(cur) \in [Transactions -> BOOLEAN]
      /\ \A t \in Transactions :
            \/ Exposure(cur)[t] = exposed[t]
            \/ tr[t].status = "unused" /\ t = cur /\ g.tr[cur].status # "unused"
  BY <1>1 DEF Exposure
<1>4. IInv'
  <2>1. PICK ex : ex = Exposure(cur)
    OBVIOUS
  <2>2. \A t \in Transactions : ex[t] = exposed[t] \/ tr[t].status = "unused"
    BY <1>3, <2>1
  <2>3. HeapInv(g, cur, ex) /\ exposed' = ex /\ ex \in [Transactions -> BOOLEAN]
    BY <1>2, <1>3, <2>1
  <2> QED BY <1>1, <2>2, <2>3, HeapStep
<1>5. Heap' = g /\ tr' = g.tr /\ span' = g.span
  BY <1>2, BecomeIs DEF Become
<1>6. \A t \in Transactions : tr'[t].status = "unused" => ~exposed'[t]
  BY <1>1, <1>3, <1>5 DEF Follows
<1>7. CInv'
  <2>1. Held(Heap)'
    BY <1>2, <1>5 DEF Held
  <2> QED BY <1>2, <1>4, <1>5, <1>6, <2>1 DEF CInv
<1>8. /\ \A s \in Spans : span[s].status # "unused" =>
            span'[s].status # "unused" /\ span'[s].transaction = span[s].transaction
      /\ \A t \in Transactions : tr[t].status # "unused" /\ tr[t].managed =>
            tr'[t].status # "unused" /\ tr'[t].managed
  BY <1>1, <1>5 DEF Follows
<1>9. (\A t \in Transactions : ~Idle(tr[t])) => \A t \in Transactions : ~Idle(tr'[t])
  BY <1>1, <1>5 DEF NoneIdle
<1> QED BY <1>5, <1>7, <1>8, <1>9 DEF Serviced

(* Keep leaves the history Exposure says. *)
LEMMA KeepIs ==
    ASSUME CInv, NEW svc, Keep(svc), svc.current = current \/ svc.current \in Transactions
    PROVE  /\ current' = svc.current /\ exposed' = Exposure(svc.current)
           /\ announced' \in [Transactions -> BOOLEAN]
           /\ UNCHANGED <<pageVars, verdicts>>
<1>1. announced \in [Transactions -> BOOLEAN]
  BY DEF CInv, IInv, TypeOK
<1> QED BY <1>1 DEF Keep, Born, history, Exposure

(* A span that is known to be of a managed transaction after the step *)
OfKnownAfter(s) ==
    /\ span'[s].status # "unused" /\ span'[s].transaction \in Transactions
    /\ tr'[span'[s].transaction].status # "unused"
    /\ tr'[span'[s].transaction].managed

(* SCHEDULE gives the call its span (performance-monitoring.js:262).        *)
LEMMA ScheduleServiced ==
    ASSUME CInv, NEW s \in Spans, span[s].status = "unused",
           NEW svc \in Scheduled(s), Schedule(svc)
    PROVE  Serviced /\ OfKnownAfter(s) /\ UNCHANGED <<outcome, trOutcome>>
<1> DEFINE h == svc.heap
           cur == svc.current
<1>1. /\ Sound(h, cur, Exposure(cur)) /\ Follows(Heap, h)
      /\ cur \in Transactions /\ h.tr[cur].managed
      /\ h.tr[cur].status # "unused"
      /\ h.span[s].status # "unused" /\ h.span[s].transaction = cur
      /\ NoneIdle(Heap) => NoneIdle(h)
      /\ cur = current \/ tr[cur].status = "unused"
  BY ScheduledIs
<1>2. Become(h) /\ Keep(svc) /\ UNCHANGED <<outcome, trOutcome>>
  BY DEF Schedule
<1>3. /\ current' = cur /\ exposed' = Exposure(cur)
      /\ announced' \in [Transactions -> BOOLEAN]
      /\ UNCHANGED <<pageVars, verdicts>>
  BY <1>1, <1>2, KeepIs
<1> HIDE DEF h, cur
<1>4. Serviced /\ tr' = h.tr /\ span' = h.span
  BY <1>1, <1>2, <1>3, BecomesServiced
<1> QED BY <1>1, <1>2, <1>4 DEF OfKnownAfter

(* SCHEDULE and INVOKE in one step, of a call that native code throws       *)
(* (xhr-patch.js:132, fetch-patch.js:64).                                   *)
LEMMA ThrowServiced ==
    ASSUME CInv, NEW s \in Spans, span[s].status = "unused",
           NEW svc \in Scheduled(s), NEW o, Invoke(svc, s, o)
    PROVE  Serviced /\ OfKnownAfter(s)
<1> DEFINE h == svc.heap
           cur == svc.current
           g == SpanEnd(h, s)
<1>1. /\ Sound(h, cur, Exposure(cur)) /\ Follows(Heap, h)
      /\ cur \in Transactions /\ h.tr[cur].managed
      /\ h.tr[cur].status # "unused"
      /\ h.span[s].status # "unused" /\ h.span[s].transaction = cur
      /\ NoneIdle(Heap) => NoneIdle(h)
      /\ cur = current \/ tr[cur].status = "unused"
  BY ScheduledIs
<1>2. Become(g) /\ Keep(svc)
  BY DEF Invoke
<1>3. /\ current' = cur /\ exposed' = Exposure(cur)
      /\ announced' \in [Transactions -> BOOLEAN]
      /\ UNCHANGED <<pageVars, verdicts>>
  BY <1>1, <1>2, KeepIs
<1>4. TypeOK
  BY DEF CInv, IInv
<1> HIDE DEF h, cur
<1>5. Sound(g, cur, Exposure(cur)) /\ Follows(h, g) /\ (NoneIdle(h) => NoneIdle(g))
  BY <1>1, <1>4, EndedIs
<1> HIDE DEF g
<1>6. Follows(Heap, g)
  BY <1>1, <1>5 DEF Follows
<1>7. /\ g.tr[cur].status # "unused" /\ g.tr[cur].managed
      /\ g.span[s].status # "unused" /\ g.span[s].transaction = cur
  BY <1>1, <1>5 DEF Follows
<1>8. Serviced /\ tr' = g.tr /\ span' = g.span
  BY <1>1, <1>2, <1>3, <1>5, <1>6, <1>7, BecomesServiced
<1> QED BY <1>1, <1>7, <1>8 DEF OfKnownAfter

(* INVOKE of a call scheduled earlier (performance-monitoring.js:299).      *)
LEMMA InvokeServiced ==
    ASSUME CInv, NEW s \in Spans, span[s].status # "unused", NEW o, Invoke(Service, s, o)
    PROVE  Serviced
<1> DEFINE g == SpanEnd(Heap, s)
<1>1. Become(g) /\ Keep(Service) /\ Service.current = current /\ Service.heap = Heap
  BY DEF Invoke, Service
<1>2. PICK cur : cur = current
  OBVIOUS
<1>3. /\ Sound(Heap, cur, exposed) /\ TypeOK /\ Heap.span = span
      /\ Exposure(cur) = exposed /\ announced \in [Transactions -> BOOLEAN]
  BY <1>2, HeapIs DEF CInv, IInv, Sound, Exposure, TypeOK
<1>4. /\ current' = cur /\ exposed' = exposed
      /\ announced' \in [Transactions -> BOOLEAN]
      /\ UNCHANGED <<pageVars, verdicts>>
  BY <1>1, <1>2, <1>3 DEF Keep, history
<1>5. Sound(g, cur, exposed) /\ Follows(Heap, g) /\ (NoneIdle(Heap) => NoneIdle(g))
  BY <1>3, EndedIs
<1> HIDE DEF g
<1> QED BY <1>1, <1>2, <1>3, <1>4, <1>5, BecomesServiced

(* Spans that were started stay so, of their transactions, in every step.   *)
LEMMA SpansStay ==
    ASSUME CInv, AStep, NEW s \in Spans, span[s].status # "unused"
    PROVE  span'[s].status # "unused" /\ span'[s].transaction = span[s].transaction
<1>1. /\ Heap \in HeapType /\ Held(Heap) /\ Heap.tr = tr /\ Heap.span = span
      /\ Heap'.span = span' /\ span[s] \in SpanRecord
  BY HeapIs DEF Heap
<1>2. ASSUME NEW t \in Transactions, ALawfulCall(t)
      PROVE  span'[s].status # "unused" /\ span'[s].transaction = span[s].transaction
  <2>1. PICK q, S, ends : Lawful(Heap, t, q, S, ends) /\ Updated(Heap, Heap', t, q, S, ends)
    BY <1>2 DEF ALawfulCall
  <2>2. PICK g : g = Heap'
    OBVIOUS
  <2>3. Follows(Heap, g)
    BY <1>1, <1>2, <2>1, <2>2, LawfulFollows DEF ALawfulCall
  <2> QED BY <1>1, <2>2, <2>3 DEF Follows
<1>3. ASSUME NEW t \in Transactions, ABegin(t)
      PROVE  span'[s].status # "unused" /\ span'[s].transaction = span[s].transaction
  <2>1. span'[s] = span[s] \/ span'[s] = Truncate(span[s])
    BY <1>3 DEF ABegin
  <2> QED BY <1>1, <2>1, TruncateIs
<1> QED BY <1>2, <1>3 DEF AStep, ARedefine

(* Only processAPICalls makes a transaction an http-request one.            *)
LEMMA HttpStays ==
    ASSUME CInv, [Next]_vars, NoHttpStarts, NEW u \in Transactions,
           tr'[u].status = "running", tr'[u].type = "http-request"
    PROVE  tr[u].status = "running" /\ tr[u].type = "http-request"
<1>1. /\ Heap \in HeapType /\ Held(Heap) /\ Heap.tr = tr /\ Heap.span = span
      /\ Heap'.tr = tr' /\ tr \in [Transactions -> TransactionRecord]
      /\ current \in Transactions \cup {NoTransaction}
      /\ current # NoTransaction => tr[current].status # "unused"
      /\ clock \in Nat
  BY HeapIs DEF Heap, CInv, IInv, TypeOK, HeapInv
<1>2. ASSUME NEW t \in Transactions, NEW h, NEW r,
             h.tr \in [Transactions -> TransactionRecord],
             \A v \in Transactions : h.tr[v] = tr[v] \/ h.tr[v].status = "ended",
             tr' = [h.tr EXCEPT ![t] = r], r.type # "http-request"
      PROVE  tr[u].status = "running" /\ tr[u].type = "http-request"
  <2>1. u # t
    BY <1>2
  <2>2. tr'[u] = h.tr[u]
    BY <1>2, <2>1
  <2> QED BY <1>2, <2>2
<1>3. ASSUME NEW t \in Transactions, ALawfulCall(t)
      PROVE  tr[u].status = "running" /\ tr[u].type = "http-request"
  <2>1. PICK q, S, ends : Lawful(Heap, t, q, S, ends) /\ Updated(Heap, Heap', t, q, S, ends)
    BY <1>3 DEF ALawfulCall
  <2>2. tr'[u] = IF u = t THEN IF ends THEN Close(q) ELSE q ELSE tr[u]
    BY <1>1, <2>1 DEF Updated
  <2>3. CASE u = t /\ ends
    BY <2>1, <2>2, <2>3, CloseIs DEF Lawful
  <2>4. CASE u = t /\ ~ends
    BY <1>1, <2>1, <2>2, <2>4 DEF Lawful, SameIdentity
  <2> QED BY <2>2, <2>3, <2>4
<1>4. CASE StartTransaction
  <2>1. PICK c \in StartCalls :
           \/ StartManagedReuse(c)
           \/ \E t \in Transactions, sampled \in SampledOutcomes :
                 \/ StartManagedNew(c, t, sampled)
                 \/ StartManagedReplace(c, t, sampled)
                 \/ StartUnmanaged(c, t, sampled)
    BY <1>4 DEF StartTransaction
  <2>2. c \in CallOptions /\ c.type # "http-request"
    BY ConstantsAssumption DEF NoHttpStarts
  <2>3. CASE StartManagedReuse(c)
    <3> DEFINE q == Manage(Redefine(tr[current], RedefinedType(tr[current].type, c.type), c))
    <3>1. current \in Transactions /\ tr[current].status # "ended"
          /\ Become(PutTransaction(Heap, current, q))
      BY <1>1, <2>3 DEF StartManagedReuse, HasCurrent
    <3>2. tr[current].status = "running" /\ tr[current] \in TransactionRecord
      BY <1>1, <3>1, ConstantsAssumption DEF TransactionRecord
    <3>3. q \in TransactionRecord /\ q.type \in {tr[current].type, c.type}
      <4>1. RedefinedType(tr[current].type, c.type) \in Types
        BY <2>2, <3>2, RedefinedTypeType DEF TransactionRecord, CallOptions
      <4> DEFINE type == RedefinedType(tr[current].type, c.type)
                 d == Redefine(tr[current], type, c)
      <4>2. type \in {tr[current].type, c.type}
        BY DEF RedefinedType
      <4> HIDE DEF type
      <4>3. d \in TransactionRecord /\ d.type = type
        BY <2>2, <3>2, <4>1, RedefineIs DEF type
      <4> HIDE DEF d
      <4>4. Manage(d) \in TransactionRecord /\ Manage(d).type = type
        BY <4>3, ManageIs
      <4> QED BY <4>2, <4>4 DEF d, type
    <3> HIDE DEF q
    <3>4. tr' = [tr EXCEPT ![current] = q]
      BY <1>1, <3>1, <3>3, PutTransactionIs DEF Become
    <3>5. CASE u = current
      BY <1>1, <2>2, <3>2, <3>3, <3>4, <3>5
    <3>6. CASE u # current
      BY <1>1, <3>4, <3>6
    <3> QED BY <3>5, <3>6
  <2>4. ASSUME NEW t \in Transactions, NEW sampled \in SampledOutcomes,
               \/ StartManagedNew(c, t, sampled)
               \/ StartManagedReplace(c, t, sampled)
               \/ StartUnmanaged(c, t, sampled)
        PROVE  tr[u].status = "running" /\ tr[u].type = "http-request"
    <3> DEFINE n == NewTransaction(c, sampled)
    <3>1. /\ n \in TransactionRecord /\ n.type # "http-request"
          /\ Manage(n) \in TransactionRecord /\ Manage(n).type # "http-request"
      <4>1. sampled \in BOOLEAN
        BY ConstantsAssumption
      <4>2. n \in TransactionRecord /\ n.type = c.type
        BY <1>1, <2>2, <4>1, NewTransactionIs
      <4> HIDE DEF n
      <4> QED BY <2>2, <4>2, ManageIs
    <3> HIDE DEF n
    <3>2. CASE StartManagedNew(c, t, sampled)
      <4>1. Become(Managed(Heap, t, n))
        BY <3>2 DEF StartManagedNew, n
      <4>2. tr' = [Heap.tr EXCEPT ![t] = Manage(n)]
        BY <1>1, <3>1, <4>1, ManagedIs DEF Become
      <4> QED BY <1>1, <1>2, <3>1, <4>2
    <3>3. CASE StartManagedReplace(c, t, sampled)
      <4> DEFINE h == End(Heap, current)
      <4>1. HasCurrent /\ Become(Managed(h, t, n))
        BY <3>3 DEF StartManagedReplace, n
      <4>2. PICK v \in Transactions : v = current /\ tr[v].status # "ended"
        BY <1>1, <4>1 DEF HasCurrent
      <4>3. Updated(Heap, End(Heap, v), v, tr[v], Heap.span, TRUE)
        BY <1>1, <4>2, EndIs
      <4>4. h \in HeapType /\ h.tr = [tr EXCEPT ![v] = Close(tr[v])]
        BY <1>1, <4>2, <4>3 DEF Updated
      <4> HIDE DEF h
      <4>5. tr' = [h.tr EXCEPT ![t] = Manage(n)]
        <5>1. h \in HeapType /\ Manage(n) \in TransactionRecord
          BY <3>1, <4>4
        <5>2. Managed(h, t, n).tr = [h.tr EXCEPT ![t] = Manage(n)]
          BY <5>1, ManagedIs
        <5> QED BY <4>1, <5>2 DEF Become
      <4>6. /\ h.tr \in [Transactions -> TransactionRecord]
            /\ \A w \in Transactions : h.tr[w] = tr[w] \/ h.tr[w].status = "ended"
        BY <1>1, <4>4, CloseIs DEF HeapType
      <4> QED BY <1>2, <3>1, <4>5, <4>6
    <3>4. CASE StartUnmanaged(c, t, sampled)
      <4> DEFINE o == [n EXCEPT !.onEnd = TRUE]
      <4>1. Become(PutTransaction(Heap, t, o))
        BY <3>4 DEF StartUnmanaged, n
      <4>2. o \in TransactionRecord /\ o.type # "http-request"
        BY <3>1 DEF TransactionRecord
      <4> HIDE DEF o
      <4>3. tr' = [Heap.tr EXCEPT ![t] = o]
        BY <1>1, <4>1, <4>2, PutTransactionIs DEF Become
      <4> QED BY <1>1, <1>2, <4>2, <4>3
    <3> QED BY <2>4, <3>2, <3>3, <3>4
  <2> QED BY <2>1, <2>3, <2>4
<1>5. ASSUME NEW s \in Spans, NEW blocking \in BOOLEAN, NEW t \in Transactions,
             NEW sampled \in SampledOutcomes, StartTemporary(s, blocking, t, sampled)
      PROVE  tr[u].status = "running" /\ tr[u].type = "http-request"
  <2> DEFINE n == NewTransaction(Temporary, sampled)
             h == PutTransaction(Heap, t, n)
             q == Adopt(n, s, blocking)
  <2>1. Become(OpenSpan(h, t, s, blocking))
    BY <1>5 DEF StartTemporary
  <2>2. Temporary \in CallOptions /\ Temporary.type = "temporary" /\ sampled \in BOOLEAN
    <3>1. 6 \in DOMAIN TypeOrder /\ TypeOrder[6] = "temporary"
      BY DEF TypeOrder
    <3>2. "temporary" \in Types
      BY <3>1 DEF Types
    <3> QED BY <3>2, ConstantsAssumption DEF Temporary, CallOptions
  <2>3. n \in TransactionRecord /\ n.type = "temporary"
    BY <1>1, <2>2, NewTransactionIs
  <2> HIDE DEF n
  <2>4. q \in TransactionRecord /\ q.type = "temporary"
    BY <2>3, AdoptIs DEF SameIdentity
  <2>5. h \in HeapType /\ h.tr = [tr EXCEPT ![t] = n] /\ h.tr[t] = n
    <3>1. h \in HeapType /\ h.tr = [Heap.tr EXCEPT ![t] = n]
      BY <1>1, <2>3, PutTransactionIs
    <3> HIDE DEF h
    <3> QED BY <1>1, <3>1
  <2> HIDE DEF h
  <2>6. Updated(h, OpenSpan(h, t, s, blocking), t, q, [h.span EXCEPT ![s] = NewSpan(t)], FALSE)
    BY <2>5, OpenSpanIs
  <2> HIDE DEF q
  <2>7. tr' = [Heap.tr EXCEPT ![t] = q]
    <3>1. tr' = [h.tr EXCEPT ![t] = q]
      BY <2>1, <2>6 DEF Updated, Become
    <3> QED BY <1>1, <2>5, <3>1
  <2> QED BY <1>1, <1>2, <2>4, <2>7
<1>6. CASE \E s \in Spans : \/ \E t \in Transactions, blocking \in BOOLEAN :
                                 StartSpan(t, s, blocking)
                            \/ EndSpan(s)
  <2>1. PICK s \in Spans :
           \/ \E t \in Transactions, blocking \in BOOLEAN : StartSpan(t, s, blocking)
           \/ EndSpan(s)
    BY <1>6
  <2>2. CASE Heap' = Heap
    BY <1>1, <2>2
  <2> QED BY <1>3, <2>1, <2>2, SpanCallIsLawful
<1>7. ASSUME NEW t \in Transactions,
             \/ EndTransaction(t)
             \/ \E k \in Tasks : AddTask(t, k) \/ RemoveTask(t, k)
             \/ \E flag \in BOOLEAN : Block(t, flag)
             \/ CallDetectFinish(t)
      PROVE  tr[u].status = "running" /\ tr[u].type = "http-request"
  BY <1>3, <1>7, TransactionCallIsLawful
<1>8. CASE \E e \in EntryTypes : ObserveEntries(e)
  BY <1>3, <1>8, ObserveIsLawful
<1>9. CASE RunMicrotask \/ Hide \/ Show \/ Tick \/ UNCHANGED vars
  BY <1>9 DEF RunMicrotask, Settle, Hide, Show, Tick, vars, heapVars
<1> QED BY <1>4, <1>5, <1>6, <1>7, <1>8, <1>9 DEF Next, Call

(* So does every step of the service itself.                                *)
LEMMA StepServiced ==
    ASSUME CInv, [Next]_vars
    PROVE  Serviced
<1>1. AStep
  BY StepIs
<1>2. CInv'
  BY <1>1, NextKeepsInv, StepKeepsCInv DEF CInv
<1>3. \A t \in Transactions : tr[t].status # "unused" /\ tr[t].managed =>
         tr'[t].status # "unused" /\ tr'[t].managed
  BY <1>1, KnownStays DEF Known
<1>4. ASSUME NoHttpStarts, \A t \in Transactions : ~Idle(tr[t]), NEW t \in Transactions
      PROVE  ~Idle(tr'[t])
  <2>1. SUFFICES ASSUME tr'[t].status = "running", tr'[t].type = "http-request"
                 PROVE  ~IsFinished(tr'[t])
    BY DEF Idle
  <2>2. tr[t].status = "running" /\ tr[t].type = "http-request"
    BY <1>4, <2>1, HttpStays
  <2>3. ~IsFinished(tr[t])
    BY <1>4, <2>2 DEF Idle
  <2> QED BY <1>1, <2>1, <2>2, <2>3, FinishNoticed DEF FinishIsNoticed, Running
<1> QED BY <1>1, <1>2, <1>3, <1>4, SpansStay DEF Serviced

-----------------------------------------------------------------------------
(* The inductive invariant *)

(* A call under way or over has a span of a managed transaction *)
SpansKnown ==
    \A c \in Calls : call[c].state # "" =>
        /\ call[c].span \in Spans
        /\ span[call[c].span].status # "unused"
        /\ Known(span[call[c].span].transaction)

(* It has the span alone *)
SpansApart ==
    \A c, d \in Calls :
        call[c].state # "" /\ call[d].state # "" /\ call[c].span = call[d].span
          => c = d

(* Only a call that is over gives its span an outcome *)
OutcomesOwned ==
    \A s \in Spans : outcome[s] # "unset" =>
        \E c \in Calls : call[c].state = "invoke" /\ call[c].span = s

CallSpans == SpansKnown /\ SpansApart /\ OutcomesOwned

(* A listener belongs to a call of the object it is registered on *)
CallObjects ==
    /\ \A c \in XhrCalls : call[c].state # "" <=> call[c].xhr \in Xhrs
    /\ \A c \in FetchCalls :
          /\ call[c].xhr = NoXhr
          /\ call[c].result \in {"pending", "ok", "httpError", "error", "threw"}
    /\ \A x \in Xhrs :
          /\ xhr[x].left \subseteq xhr[x].listeners
          /\ \A c \in xhr[x].listeners : call[c].state # "" /\ call[c].xhr = x

(* The event after readystatechange *)
EventOf(result) == IF result \in {"ok", "httpError"} THEN "load" ELSE result

(* The last event of a request ends every call of its object *)
LastEventEnds ==
    \A x \in Xhrs :
        xhr[x].phase = "done" /\ xhr[x].events # <<>> =>
            /\ xhr[x].events[Len(xhr[x].events)] # "readystatechange"
            /\ Len(xhr[x].events) = 1 =>
                 \A c \in xhr[x].listeners \ xhr[x].left : call[c].state = "invoke"

(* The call k = cl[c] of an object in state r, if it was not mixed with      *)
(* other requests of the object: no event of another one is still to reach   *)
(* it, and the status and the events of its own say what became of it        *)
Unmixed(r, c, k) ==
    k.state = "schedule" /\ ~k.mixed =>
        /\ k.result # "reopened"
        /\ k.result = "pending" =>
              r.phase = "sent" /\ c \notin r.left /\ Len(r.events) <= 1
        /\ k.result \in Results =>
              /\ r.phase = "done" /\ r.status = StatusOf(k.result)
              /\ \A i \in DOMAIN r.events :
                    r.events[i] \in {"readystatechange", EventOf(k.result)}

EventsTell ==
    \A c \in XhrCalls :
        call[c].state = "schedule" => Unmixed(xhr[call[c].xhr], c, call[c])

Waiting == NoHttpStarts => \A t \in Transactions : ~Idle(tr[t])

AInv ==
    /\ CInv
    /\ ApiTypeOK
    /\ CallSpans
    /\ CallObjects
    /\ LastEventEnds
    /\ EventsTell
    /\ NoCallForgotten
    /\ OutcomeAgrees
    /\ Waiting

(* The outcome o is that of a call of which result became *)
Agrees(c, result, o) ==
    /\ result \notin {"pending", "reopened"}
    /\ result = "ok" => o = "success"
    /\ result = "httpError" => o = "failure"
    /\ result \in {"error", "timeout"} /\ c \in XhrCalls => o = "failure"
    /\ result = "abort" => o = "unknown"

-----------------------------------------------------------------------------
(* What a step does to the spans of the calls and their outcomes *)

(* The calls D keep their state and span, and their result if it is final *)
CallsStay(D) ==
    \A d \in D :
        /\ call'[d].state = call[d].state /\ call'[d].span = call[d].span
        /\ call[d].state = "invoke" /\ ~call'[d].mixed =>
              /\ ~call[d].mixed
              /\ call[d].result \in {"pending", "reopened"}
                   \/ call'[d].result = call[d].result

(* A step that starts and ends no call *)
LEMMA CallsQuiet ==
    ASSUME AInv, Serviced, CallsStay(Calls), UNCHANGED outcome
    PROVE  CallSpans' /\ OutcomeAgrees' /\ OutcomeStays /\ LastCallGivesOutcome
<1>1. CallSpans'
  <2>1. SpansKnown /\ SpansApart /\ OutcomesOwned
    BY DEF AInv, CallSpans
  <2>2. SpansKnown'
    BY <2>1 DEF SpansKnown, Serviced, CallsStay, Known
  <2>3. SpansApart'
    BY <2>1 DEF SpansApart, CallsStay
  <2>4. OutcomesOwned'
    BY <2>1 DEF OutcomesOwned, CallsStay
  <2> QED BY <2>2, <2>3, <2>4 DEF CallSpans
<1>2. OutcomeAgrees'
  <2> SUFFICES ASSUME NEW d \in Calls, call'[d].state = "invoke", ~call'[d].mixed
               PROVE  Agrees(d, call'[d].result, outcome'[call'[d].span])
    BY DEF OutcomeAgrees, Agrees
  <2>1. Agrees(d, call[d].result, outcome[call[d].span])
    BY DEF AInv, OutcomeAgrees, CallsStay, Agrees
  <2>2. call'[d].result = call[d].result /\ outcome'[call'[d].span] = outcome[call[d].span]
    BY <2>1 DEF CallsStay, Agrees
  <2> QED BY <2>1, <2>2
<1>3. OutcomeStays /\ LastCallGivesOutcome
  BY DEF OutcomeStays, LastCallGivesOutcome, CallsStay
<1> QED BY <1>1, <1>2, <1>3

(* A step that starts call c with the span s, and gives it no outcome or    *)
(* ends it as native code throws                                            *)
LEMMA CallsNew ==
    ASSUME AInv, Serviced, NEW c \in Calls, NEW s \in Spans, Task(c, s),
           OfKnownAfter(s), CallsStay(Calls \ {c}),
           call'[c].span = s, call'[c].state # "",
           \/ call'[c].state # "invoke" /\ UNCHANGED outcome
           \/ /\ call'[c].state = "invoke" /\ call'[c].result = "threw"
              /\ \E o \in Outcomes : outcome' = [outcome EXCEPT ![s] = o]
    PROVE  CallSpans' /\ OutcomeAgrees' /\ OutcomeStays /\ LastCallGivesOutcome
<1>1. /\ outcome \in [Spans -> Outcomes] /\ call[c].state = "" /\ span[s].status = "unused"
      /\ \A u \in Spans \ {s} : outcome'[u] = outcome[u]
      /\ outcome'[s] # "unset" => outcome[s] # "unset" \/ call'[c].state = "invoke"
  BY DEF AInv, ApiTypeOK, Task
<1>2. SpansKnown /\ SpansApart /\ OutcomesOwned /\ OutcomeAgrees
  BY DEF AInv, CallSpans
<1>3. \A d \in Calls \ {c} :
         /\ call'[d].state = call[d].state /\ call'[d].span = call[d].span
         /\ call[d].state # "" => call[d].span \in Spans \ {s}
  BY <1>1, <1>2 DEF SpansKnown, CallsStay
<1>4. outcome[s] = "unset"
  <2>1. \A d \in Calls : call[d].state = "invoke" => call[d].span # s
    BY <1>1, <1>3
  <2>2. outcome[s] # "unset" => \E d \in Calls : call[d].state = "invoke" /\ call[d].span = s
    BY <1>2 DEF OutcomesOwned
  <2> QED BY <2>1, <2>2
<1>5. CallSpans'
  <2>1. SpansKnown'
    <3>1. ASSUME NEW d \in Calls \ {c}, call'[d].state # ""
          PROVE  /\ call'[d].span = call[d].span /\ call[d].span \in Spans
                 /\ span'[call[d].span].status # "unused"
                 /\ Known(span[call[d].span].transaction)'
      <4>1. /\ call'[d].span = call[d].span /\ call[d].span \in Spans
            /\ span[call[d].span].status # "unused"
            /\ Known(span[call[d].span].transaction)
        BY <1>2, <1>3, <3>1 DEF SpansKnown
      <4> QED BY <4>1 DEF Serviced, Known
    <3>2. span'[s].status # "unused" /\ Known(span[s].transaction)'
      BY DEF OfKnownAfter, Known
    <3> SUFFICES ASSUME NEW d \in Calls, call'[d].state # ""
                 PROVE  /\ call'[d].span \in Spans
                        /\ span'[call'[d].span].status # "unused"
                        /\ span'[call'[d].span].transaction \in Transactions
                        /\ tr'[span'[call'[d].span].transaction].status # "unused"
                        /\ tr'[span'[call'[d].span].transaction].managed
      BY DEF SpansKnown, Known
    <3>3. CASE d = c
      BY <3>2, <3>3 DEF Known
    <3>4. CASE d # c
      BY <3>1, <3>4 DEF Known
    <3> QED BY <3>3, <3>4
  <2>2. SpansApart'
    <3> SUFFICES ASSUME NEW b \in Calls, NEW d \in Calls,
                        call'[b].state # "", call'[d].state # "",
                        call'[b].span = call'[d].span
                 PROVE  b = d
      BY DEF SpansApart
    <3>1. CASE b # c /\ d # c
      BY <1>2, <1>3, <3>1 DEF SpansApart
    <3>2. CASE b = c \/ d = c
      BY <1>3, <3>2
    <3> QED BY <3>1, <3>2
  <2>3. OutcomesOwned'
    <3> SUFFICES ASSUME NEW u \in Spans, outcome'[u] # "unset"
                 PROVE  \E d \in Calls : call'[d].state = "invoke" /\ call'[d].span = u
      BY DEF OutcomesOwned
    <3>1. CASE u = s
      BY <1>1, <1>4, <3>1
    <3>2. CASE u # s
      <4>1. PICK d \in Calls : call[d].state = "invoke" /\ call[d].span = u
        BY <1>1, <1>2, <3>2 DEF OutcomesOwned
      <4>2. d # c
        BY <1>1, <4>1
      <4> QED BY <1>3, <4>1, <4>2
    <3> QED BY <3>1, <3>2
  <2> QED BY <2>1, <2>2, <2>3 DEF CallSpans
<1>9. OutcomeAgrees'
  <2> SUFFICES ASSUME NEW d \in Calls, call'[d].state = "invoke", ~call'[d].mixed
               PROVE  Agrees(d, call'[d].result, outcome'[call'[d].span])
    BY DEF OutcomeAgrees, Agrees
  <2>1. CASE d = c
    BY <2>1 DEF Agrees
  <2>2. CASE d # c
    <3>1. /\ call[d].state = "invoke" /\ ~call[d].mixed
          /\ call[d].result \in {"pending", "reopened"} \/ call'[d].result = call[d].result
      BY <2>2 DEF CallsStay
    <3>4. outcome'[call'[d].span] = outcome[call[d].span]
      <4>1. call'[d].span = call[d].span /\ call[d].span \in Spans \ {s}
        BY <1>3, <2>2, <3>1
      <4> QED BY <1>1, <4>1
    <3>2. Agrees(d, call[d].result, outcome[call[d].span])
      BY <1>2, <3>1 DEF OutcomeAgrees, Agrees
    <3>3. call'[d].result = call[d].result
      BY <3>1, <3>2 DEF Agrees
    <3> QED BY <3>2, <3>3, <3>4
  <2> QED BY <2>1, <2>2
<1>6. OutcomeStays
  BY <1>1, <1>4 DEF OutcomeStays
<1>7. LastCallGivesOutcome
  BY <1>1, <1>3 DEF LastCallGivesOutcome
<1> QED BY <1>5, <1>6, <1>7, <1>9

(* INVOKE of call c, with the outcome o of its result                       *)
(* (performance-monitoring.js:299).                                         *)
LEMMA CallsInvoked ==
    ASSUME AInv, NEW c \in Calls, call[c].state = "schedule",
           call' = [call EXCEPT ![c].state = "invoke"],
           NEW o \in Outcomes, ~call[c].mixed => Agrees(c, call[c].result, o),
           Invoke(Service, call[c].span, o)
    PROVE  /\ Serviced
           /\ CallSpans' /\ OutcomeAgrees' /\ OutcomeStays /\ LastCallGivesOutcome
           /\ outcome' \in [Spans -> Outcomes]
           /\ trOutcome' \in [Transactions -> Outcomes]
           /\ \A d \in Calls : /\ call'[d].xhr = call[d].xhr
                               /\ call'[d].result = call[d].result
                               /\ call'[d].mixed = call[d].mixed
                               /\ call'[d].state = IF d = c THEN "invoke" ELSE call[d].state
           /\ call' \in [Calls -> CallRecord]
<1>1. /\ call \in [Calls -> CallRecord] /\ outcome \in [Spans -> Outcomes]
      /\ trOutcome \in [Transactions -> Outcomes]
  BY DEF AInv, ApiTypeOK
<1>2. PICK s : s = call[c].span
  OBVIOUS
<1>3. /\ s \in Spans /\ span[s].status # "unused" /\ Known(span[s].transaction)
      /\ \A d \in Calls \ {c} : call[d].state # "" => call[d].span # s
  <2>1. SpansKnown /\ SpansApart
    BY DEF AInv, CallSpans
  <2> QED BY <1>2, <2>1 DEF SpansKnown, SpansApart
<1>4. /\ Invoke(Service, s, o) /\ outcome' = [outcome EXCEPT ![s] = o]
      /\ trOutcome' = [t \in Transactions |->
                         IF IsCurrentHttp(Service, t) THEN o ELSE trOutcome[t]]
  BY <1>2 DEF Invoke
<1>5. Serviced
  BY <1>3, <1>4, InvokeServiced DEF AInv
<1>6. /\ call' \in [Calls -> CallRecord]
      /\ call'[c].state = "invoke" /\ call'[c].span = s
      /\ call'[c].xhr = call[c].xhr /\ call'[c].result = call[c].result
      /\ call'[c].mixed = call[c].mixed
      /\ \A d \in Calls \ {c} : call'[d] = call[d]
  BY <1>1, <1>2 DEF CallRecord
<1>7. /\ outcome' \in [Spans -> Outcomes] /\ outcome'[s] = o
      /\ \A u \in Spans \ {s} : outcome'[u] = outcome[u]
      /\ trOutcome' \in [Transactions -> Outcomes]
  <2> HIDE DEF Outcomes
  <2> QED BY <1>1, <1>3, <1>4
<1>8. outcome[s] = "unset"
  <2>1. OutcomesOwned
    BY DEF AInv, CallSpans
  <2>2. \A d \in Calls : call[d].state = "invoke" => call[d].span # s
    BY <1>3
  <2> QED BY <1>3, <2>1, <2>2 DEF OutcomesOwned
<1>9. CallSpans'
  <2>1. SpansKnown /\ SpansApart /\ OutcomesOwned
    BY DEF AInv, CallSpans
  <2>2. \A d \in Calls : /\ call'[d].state # "" => call[d].state # ""
                         /\ call'[d].span = call[d].span
                         /\ call[d].state = "invoke" => call'[d].state = "invoke"
    BY <1>2, <1>6
  <2>3. SpansKnown'
    BY <1>5, <2>1, <2>2 DEF SpansKnown, Serviced, Known
  <2>4. SpansApart'
    <3> SUFFICES ASSUME NEW b \in Calls, NEW d \in Calls,
                        call'[b].state # "", call'[d].state # "",
                        call'[b].span = call'[d].span
                 PROVE  b = d
      BY DEF SpansApart
    <3>1. call[b].state # "" /\ call[d].state # "" /\ call[b].span = call[d].span
      BY <2>2
    <3> QED BY <2>1, <3>1 DEF SpansApart
  <2>5. OutcomesOwned'
    <3> SUFFICES ASSUME NEW u \in Spans, outcome'[u] # "unset"
                 PROVE  \E d \in Calls : call'[d].state = "invoke" /\ call'[d].span = u
      BY DEF OutcomesOwned
    <3>1. CASE u = s
      BY <1>6, <3>1
    <3>2. CASE u # s
      <4>1. PICK d \in Calls : call[d].state = "invoke" /\ call[d].span = u
        BY <1>7, <2>1, <3>2 DEF OutcomesOwned
      <4> QED BY <2>2, <4>1
    <3> QED BY <3>1, <3>2
  <2> QED BY <2>3, <2>4, <2>5 DEF CallSpans
<1>10. OutcomeAgrees'
  <2>1. OutcomeAgrees /\ SpansKnown
    BY DEF AInv, CallSpans
  <2>2. ASSUME NEW d \in Calls \ {c}, call'[d].state = "invoke", ~call'[d].mixed
        PROVE  Agrees(d, call'[d].result, outcome'[call'[d].span])
    <3>1. call[d].state = "invoke" /\ call'[d] = call[d]
      BY <1>6, <2>2
    <3>2. call[d].span \in Spans \ {s}
      BY <1>3, <2>1, <3>1 DEF SpansKnown
    <3>3. outcome'[call[d].span] = outcome[call[d].span]
      BY <1>7, <3>2
    <3>4. Agrees(d, call[d].result, outcome[call[d].span])
      BY <2>1, <2>2, <3>1 DEF OutcomeAgrees, Agrees
    <3> QED BY <3>1, <3>3, <3>4
  <2>3. ~call'[c].mixed => Agrees(c, call'[c].result, outcome'[call'[c].span])
    BY <1>6, <1>7
  <2>4. \A d \in Calls : call'[d].state = "invoke" /\ ~call'[d].mixed =>
           Agrees(d, call'[d].result, outcome'[call'[d].span])
    BY <2>2, <2>3
  <2> QED BY <2>4 DEF OutcomeAgrees, Agrees
<1>11. OutcomeStays
  BY <1>7, <1>8 DEF OutcomeStays
<1>12. LastCallGivesOutcome
  <2> SUFFICES ASSUME NEW t, t = span[s].transaction, Running(t),
                      tr[t].type = "http-request"
               PROVE  trOutcome'[t] = outcome'[s]
    BY <1>2, <1>6 DEF LastCallGivesOutcome
  <2>1. t \in Transactions /\ tr[t].managed
    BY <1>3 DEF Known
  <2>2. t = current
    BY <2>1 DEF AInv, CInv, IInv, HeapInv, Heap, Running
  <2>3. IsCurrentHttp(Service, t)
    BY <2>2 DEF IsCurrentHttp, Service, Heap, Running
  <2> QED BY <1>4, <1>7, <2>1, <2>3
<1> QED BY <1>5, <1>6, <1>7, <1>9, <1>10, <1>11, <1>12


-----------------------------------------------------------------------------
(* What a step does to the objects and their listeners *)

(* An XMLHttpRequest x in state r whose tasks are those of cl *)
ObjectOK(r, x, cl) ==
    /\ r.left \subseteq r.listeners
    /\ \A c \in r.listeners : cl[c].state # "" /\ cl[c].xhr = x
    /\ r.phase = "done" /\ r.events # <<>> =>
          /\ r.events[Len(r.events)] # "readystatechange"
          /\ Len(r.events) = 1 =>
               \A c \in r.listeners \ r.left : cl[c].state = "invoke"
    /\ r.phase = "done" /\ r.events = <<>> =>
          \A c \in r.listeners : cl[c].state = "invoke"
    /\ \A c \in XhrCalls : cl[c].xhr = x => Unmixed(r, c, cl[c])

Listeners == CallObjects /\ LastEventEnds /\ EventsTell /\ NoCallForgotten

LEMMA ObjectIs ==
    ASSUME AInv, NEW x \in Xhrs
    PROVE  /\ xhr[x] \in XhrRecord /\ xhr \in [Xhrs -> XhrRecord]
           /\ call \in [Calls -> CallRecord]
           /\ ObjectOK(xhr[x], x, call)
<1>1. /\ xhr[x] \in XhrRecord /\ xhr \in [Xhrs -> XhrRecord]
      /\ call \in [Calls -> CallRecord]
  BY DEF AInv, ApiTypeOK
<1> DEFINE r == xhr[x]
<1>2. /\ r.left \subseteq r.listeners
      /\ \A c \in r.listeners : call[c].state # "" /\ call[c].xhr = x
  BY DEF AInv, CallObjects
<1>3. r.phase = "done" /\ r.events # <<>> =>
          /\ r.events[Len(r.events)] # "readystatechange"
          /\ Len(r.events) = 1 =>
               \A c \in r.listeners \ r.left : call[c].state = "invoke"
  <2>1. LastEventEnds
    BY DEF AInv
  <2> QED BY <2>1 DEF LastEventEnds
<1>4. r.phase = "done" /\ r.events = <<>> =>
          \A c \in r.listeners : call[c].state = "invoke"
  <2>1. NoCallForgotten
    BY DEF AInv
  <2> QED BY <2>1 DEF NoCallForgotten
<1>5. \A c \in XhrCalls : call[c].xhr = x => Unmixed(r, c, call[c])
  <2>1. \A c \in XhrCalls :
           call[c].state = "schedule" => Unmixed(xhr[call[c].xhr], c, call[c])
    BY DEF AInv, EventsTell
  <2>2. \A c \in XhrCalls : call[c].state # "schedule" => Unmixed(r, c, call[c])
    BY DEF Unmixed
  <2> QED BY <2>1, <2>2
<1> QED BY <1>1, <1>2, <1>3, <1>4, <1>5 DEF ObjectOK

(* Calls of x only *)
CallsOnly(x) ==
    \A c \in Calls :
        \/ call'[c] = call[c]
        \/ /\ c \in XhrCalls /\ call'[c].state # "" /\ call'[c].xhr = x
           /\ call[c].state # "" => call[c].xhr = x

LEMMA ObjectStep ==
    ASSUME AInv, NEW x \in Xhrs, CallsOnly(x),
           xhr' \in [Xhrs -> XhrRecord],
           \A y \in Xhrs \ {x} : xhr'[y] = xhr[y],
           ObjectOK(xhr'[x], x, call')
    PROVE  Listeners'
<1>1. \A y \in Xhrs : ObjectOK(xhr'[y], y, call')
  <2> SUFFICES ASSUME NEW y \in Xhrs \ {x}
               PROVE  ObjectOK(xhr'[y], y, call')
    OBVIOUS
  <2>1. PICK r : r = xhr[y]
    OBVIOUS
  <2>2. ObjectOK(r, y, call) /\ r \in XhrRecord /\ xhr'[y] = r
    BY <2>1, ObjectIs
  <2>3. \A c \in XhrCalls : call'[c].xhr = y => call'[c] = call[c]
    BY DEF CallsOnly, Calls
  <2>4. \A c \in r.listeners : c \in XhrCalls /\ call'[c] = call[c]
    <3>1. r.listeners \subseteq XhrCalls
      BY <2>2 DEF XhrRecord
    <3>2. \A c \in r.listeners : call[c].xhr = y
      BY <2>2 DEF ObjectOK
    <3>3. \A c \in XhrCalls : call[c].xhr = y /\ call[c].state # "" => call'[c] = call[c]
      BY DEF CallsOnly, Calls
    <3>4. \A c \in r.listeners : call[c].state # ""
      BY <2>2 DEF ObjectOK
    <3> QED BY <3>1, <3>2, <3>3, <3>4
  <2>5. ObjectOK(r, y, call')
    <3>1. /\ r.left \subseteq r.listeners
          /\ \A c \in r.listeners : call'[c].state # "" /\ call'[c].xhr = y
      BY <2>2, <2>4 DEF ObjectOK
    <3>2. r.phase = "done" /\ r.events # <<>> =>
            /\ r.events[Len(r.events)] # "readystatechange"
            /\ Len(r.events) = 1 =>
                 \A c \in r.listeners \ r.left : call'[c].state = "invoke"
      BY <2>2, <2>4 DEF ObjectOK
    <3>3. r.phase = "done" /\ r.events = <<>> =>
            \A c \in r.listeners : call'[c].state = "invoke"
      BY <2>2, <2>4 DEF ObjectOK
    <3>4. ASSUME NEW c \in XhrCalls, call'[c].xhr = y
          PROVE  Unmixed(r, c, call'[c])
      <4>1. call'[c] = call[c]
        BY <2>3, <3>4
      <4> QED BY <2>2, <3>4, <4>1 DEF ObjectOK
    <3> QED BY <3>1, <3>2, <3>3, <3>4 DEF ObjectOK
  <2> QED BY <2>2, <2>5
<1>2. CallObjects'
  <2>1. CallObjects
    BY DEF AInv
  <2>2. \A c \in XhrCalls : call'[c].state # "" <=> call'[c].xhr \in Xhrs
    BY <2>1 DEF CallObjects, CallsOnly, Calls
  <2>3. \A c \in FetchCalls : call'[c] = call[c]
    BY ApiCallsAssumption DEF CallsOnly, Calls
  <2>4. \A y \in Xhrs : /\ xhr'[y].left \subseteq xhr'[y].listeners
                        /\ \A c \in xhr'[y].listeners :
                              call'[c].state # "" /\ call'[c].xhr = y
    BY <1>1 DEF ObjectOK
  <2> QED BY <2>1, <2>2, <2>3, <2>4 DEF CallObjects
<1>3. LastEventEnds'
  BY <1>1 DEF LastEventEnds, ObjectOK
<1>4. NoCallForgotten'
  BY <1>1 DEF NoCallForgotten, ObjectOK
<1>5. EventsTell'
  <2> SUFFICES ASSUME NEW c \in XhrCalls, call'[c].state = "schedule"
               PROVE  Unmixed(xhr'[call'[c].xhr], c, call'[c])
    BY DEF EventsTell, Unmixed
  <2>1. call'[c].xhr \in Xhrs
    BY <1>2 DEF CallObjects
  <2>2. ObjectOK(xhr'[call'[c].xhr], call'[c].xhr, call')
    BY <1>1, <2>1
  <2> QED BY <2>2 DEF ObjectOK
<1> QED BY <1>2, <1>3, <1>4, <1>5 DEF Listeners

(* Calls of fetch have no object *)
LEMMA FetchKeeps ==
    ASSUME AInv, NEW c \in FetchCalls, UNCHANGED xhr,
           \A d \in Calls \ {c} : call'[d] = call[d],
           call'[c].xhr = NoXhr,
           call'[c].result \in {"pending", "ok", "httpError", "error", "threw"}
    PROVE  Listeners'
<1>1. \A d \in XhrCalls : call'[d] = call[d]
  BY ApiCallsAssumption DEF Calls
<1>2. \A x \in Xhrs : xhr[x].listeners \subseteq XhrCalls
  BY DEF AInv, ApiTypeOK, XhrRecord
<1>3. CallObjects'
  <2>1. CallObjects
    BY DEF AInv
  <2>2. \A d \in XhrCalls : call'[d].state # "" <=> call'[d].xhr \in Xhrs
    BY <1>1, <2>1 DEF CallObjects
  <2>3. \A d \in FetchCalls :
           /\ call'[d].xhr = NoXhr
           /\ call'[d].result \in {"pending", "ok", "httpError", "error", "threw"}
    <3>1. \A d \in FetchCalls : d = c \/ call'[d] = call[d]
      BY DEF Calls
    <3>2. \A d \in FetchCalls :
             /\ call[d].xhr = NoXhr
             /\ call[d].result \in {"pending", "ok", "httpError", "error", "threw"}
      BY <2>1 DEF CallObjects
    <3> QED BY <3>1, <3>2
  <2>4. \A x \in Xhrs :
           /\ xhr'[x].left \subseteq xhr'[x].listeners
           /\ \A d \in xhr'[x].listeners : call'[d].state # "" /\ call'[d].xhr = x
    <3>1. \A x \in Xhrs :
             /\ xhr[x].left \subseteq xhr[x].listeners
             /\ \A d \in xhr[x].listeners : call[d].state # "" /\ call[d].xhr = x
      BY <2>1 DEF CallObjects
    <3>2. ASSUME NEW x \in Xhrs
          PROVE  /\ xhr[x].left \subseteq xhr[x].listeners
                 /\ \A d \in xhr[x].listeners : call'[d].state # "" /\ call'[d].xhr = x
      <4>1. \A d \in xhr[x].listeners :
               d \in XhrCalls /\ call[d].state # "" /\ call[d].xhr = x
        BY <1>2, <3>1
      <4>2. \A d \in xhr[x].listeners : call'[d].state # "" /\ call'[d].xhr = x
        BY <1>1, <4>1
      <4> QED BY <3>1, <4>2
    <3> QED BY <3>2
  <2> QED BY <2>2, <2>3, <2>4 DEF CallObjects
<1>4. LastEventEnds' /\ NoCallForgotten'
  <2>1. LastEventEnds /\ NoCallForgotten
    BY DEF AInv
  <2>2. LastEventEnds'
    BY <1>1, <1>2, <2>1 DEF LastEventEnds
  <2>3. NoCallForgotten'
    BY <1>1, <1>2, <2>1 DEF NoCallForgotten
  <2> QED BY <2>2, <2>3
<1>5. EventsTell'
  <2>1. \A d \in XhrCalls :
           call[d].state = "schedule" => Unmixed(xhr[call[d].xhr], d, call[d])
    BY DEF AInv, EventsTell
  <2>2. \A d \in XhrCalls :
           call'[d].state = "schedule" => Unmixed(xhr'[call'[d].xhr], d, call'[d])
    BY <1>1, <2>1
  <2> QED BY <2>2 DEF EventsTell, Unmixed
<1> QED BY <1>3, <1>4, <1>5 DEF Listeners

-----------------------------------------------------------------------------
(* The steps *)

Kept == AInv' /\ OutcomeStays /\ LastCallGivesOutcome

LEMMA StepKept ==
    ASSUME AInv, Serviced, Listeners',
           xhr' \in [Xhrs -> XhrRecord], call' \in [Calls -> CallRecord],
           outcome' \in [Spans -> Outcomes], trOutcome' \in [Transactions -> Outcomes],
           CallSpans', OutcomeAgrees', OutcomeStays, LastCallGivesOutcome
    PROVE  Kept
<1>1. CInv' /\ Waiting'
  BY DEF AInv, Serviced, Waiting
<1>2. ApiTypeOK'
  BY DEF ApiTypeOK
<1> QED BY <1>1, <1>2 DEF Kept, AInv, Listeners

LEMMA TailIs ==
    ASSUME NEW S, NEW q \in Seq(S), q # <<>>
    PROVE  /\ Tail(q) \in Seq(S) /\ Len(Tail(q)) = Len(q) - 1
           /\ Len(q) \in Nat \ {0} /\ (Tail(q) = <<>> <=> Len(q) = 1)
           /\ \A i \in DOMAIN Tail(q) : i + 1 \in DOMAIN q /\ Tail(q)[i] = q[i + 1]
           /\ Head(q) = q[1] /\ 1 \in DOMAIN q /\ Len(q) \in DOMAIN q /\ Head(q) \in S
<1>1. Len(q) \in Nat \ {0} /\ DOMAIN q = 1..Len(q)
  OBVIOUS
<1>2. Tail(q) \in Seq(S) /\ Len(Tail(q)) = Len(q) - 1
  OBVIOUS
<1>3. Tail(q) = <<>> <=> Len(Tail(q)) = 0
  <2>1. \A T \in Seq(S) : T = <<>> <=> Len(T) = 0
    OBVIOUS
  <2> QED BY <1>2, <2>1
<1>4. \A i \in 1..(Len(q) - 1) : Tail(q)[i] = q[i + 1]
  OBVIOUS
<1>5. DOMAIN Tail(q) = 1..(Len(q) - 1)
  BY <1>2
<1>6. Head(q) = q[1] /\ q[1] \in S
  BY <1>1
<1>7. \A i \in 1..(Len(q) - 1) : i + 1 \in 1..Len(q)
  BY <1>1
<1> QED BY <1>1, <1>2, <1>3, <1>4, <1>5, <1>6, <1>7

LEMMA ToldIs ==
    ASSUME NEW r \in XhrRecord, NEW c, c \in r.left, r.events # <<>>
    PROVE  /\ Told(r, c) \in XhrRecord
           /\ Told(r, c).phase = r.phase /\ Told(r, c).status = r.status
           /\ Told(r, c).listeners = r.listeners
           /\ r.left # {c} => /\ Told(r, c).events = r.events
                              /\ Told(r, c).left = r.left \ {c}
           /\ r.left = {c} => /\ Told(r, c).events = Tail(r.events)
                              /\ Told(r, c).left =
                                   IF Len(r.events) > 1 THEN r.listeners ELSE {}
<1> DEFINE E == {"readystatechange", "load", "error", "timeout", "abort"}
<1>1. /\ r.events \in Seq(E) /\ r.left \in SUBSET XhrCalls /\ r.listeners \in SUBSET XhrCalls
      /\ r.phase \in {"unsent", "opened", "sent", "done", "failed"}
      /\ r.status \in {0, 200, 400}
      /\ r = [phase |-> r.phase, status |-> r.status, events |-> r.events,
              listeners |-> r.listeners, left |-> r.left]
  BY DEF XhrRecord
<1>2. Tail(r.events) \in Seq(E)
  <2> HIDE DEF E
  <2> QED BY <1>1, TailIs
<1> HIDE DEF E
<1>3. CASE r.left # {c}
  <2>1. Told(r, c) = [phase |-> r.phase, status |-> r.status, events |-> r.events,
                      listeners |-> r.listeners, left |-> r.left \ {c}]
    BY <1>1, <1>3 DEF Told
  <2>2. Told(r, c) \in XhrRecord
    BY <1>1, <2>1 DEF XhrRecord, E
  <2> QED BY <1>3, <2>1, <2>2
<1>4. CASE r.left = {c}
  <2> DEFINE L == IF Len(r.events) > 1 THEN r.listeners ELSE {}
  <2>1. Told(r, c) = [phase |-> r.phase, status |-> r.status, events |-> Tail(r.events),
                      listeners |-> r.listeners, left |-> L]
    BY <1>1, <1>4 DEF Told
  <2>2. L \in SUBSET XhrCalls
    BY <1>1
  <2> HIDE DEF L
  <2>3. Told(r, c) \in XhrRecord
    BY <1>1, <1>2, <2>1, <2>2 DEF XhrRecord, E
  <2> QED BY <1>4, <2>1, <2>3 DEF L
<1> QED BY <1>3, <1>4

(* The event is over for call c, which ends if it is the last one *)
ToldAs(x, c) ==
    /\ xhr' = [xhr EXCEPT ![x] = Told(@, c)]
    /\ \A d \in Calls : /\ call'[d].xhr = call[d].xhr
                        /\ call'[d].result = call[d].result
                        /\ call'[d].mixed = call[d].mixed
                        /\ \/ call'[d].state = call[d].state
                           \/ d = c /\ call'[d].state = "invoke"
    /\ xhr[x].phase = "done" /\ Len(xhr[x].events) = 1 => call'[c].state = "invoke"
    /\ \A d \in Calls \ {c} : call'[d] = call[d]

(* An event that reached a listener which notices the last of them          *)
(* (xhr-patch.js:99, 118).                                                  *)
LEMMA ToldKeeps ==
    ASSUME AInv, NEW x \in Xhrs, NEW c, c \in xhr[x].left, xhr[x].events # <<>>,
           call' \in [Calls -> CallRecord], ToldAs(x, c)
    PROVE  xhr' \in [Xhrs -> XhrRecord] /\ Listeners'
<1>1. PICK r : r = xhr[x]
  OBVIOUS
<1>2. /\ r \in XhrRecord /\ xhr \in [Xhrs -> XhrRecord]
      /\ ObjectOK(r, x, call) /\ r.events # <<>> /\ c \in r.left
      /\ r.phase = "done" /\ Len(r.events) = 1 => call'[c].state = "invoke"
  BY <1>1, ObjectIs DEF ToldAs
<1>3. PICK n : n = Told(r, c)
  OBVIOUS
<1>0. PICK T : T = Tail(r.events)
  OBVIOUS
<1>4. /\ n \in XhrRecord /\ n.phase = r.phase /\ n.status = r.status
      /\ n.listeners = r.listeners
      /\ r.left # {c} => n.events = r.events /\ n.left = r.left \ {c}
      /\ r.left = {c} => /\ n.events = T
                         /\ n.left = IF Len(r.events) > 1 THEN r.listeners ELSE {}
  BY <1>0, <1>2, <1>3, ToldIs
<1>5. /\ T = <<>> <=> Len(r.events) = 1
      /\ Len(T) = Len(r.events) - 1 /\ Len(r.events) \in Nat \ {0}
      /\ \A i \in DOMAIN T : i + 1 \in DOMAIN r.events /\ T[i] = r.events[i + 1]
      /\ T # <<>> => Len(T) \in DOMAIN T
  <2> DEFINE E == {"readystatechange", "load", "error", "timeout", "abort"}
  <2>1. r.events \in Seq(E)
    BY <1>2 DEF XhrRecord
  <2> HIDE DEF E
  <2>2. T \in Seq(E)
    BY <1>0, <1>2, <2>1, TailIs
  <2>3. T # <<>> => Len(T) \in DOMAIN T
    BY <2>2, TailIs
  <2> QED BY <1>0, <1>2, <2>1, <2>3, TailIs
<1>6. /\ xhr' \in [Xhrs -> XhrRecord] /\ xhr'[x] = n
      /\ \A y \in Xhrs \ {x} : xhr'[y] = xhr[y]
  BY <1>1, <1>2, <1>3, <1>4 DEF ToldAs
<1>7. /\ r.left \subseteq r.listeners /\ r.listeners \subseteq XhrCalls
      /\ \A d \in r.listeners : call[d].state # "" /\ call[d].xhr = x
  BY <1>2 DEF ObjectOK, XhrRecord
<1>8. CallsOnly(x)
  BY <1>2, <1>7 DEF CallsOnly, Calls, ToldAs
<1>9. ObjectOK(n, x, call')
  <2>1. n.left \subseteq n.listeners
    BY <1>4, <1>7
  <2>2. \A d \in n.listeners : call'[d].state # "" /\ call'[d].xhr = x
    BY <1>4, <1>7 DEF Calls, ToldAs
  <2>3. r.phase = "done" =>
           /\ r.events[Len(r.events)] # "readystatechange"
           /\ Len(r.events) = 1 => \A d \in r.listeners : d \in r.left \/ call'[d].state = "invoke"
    BY <1>2, <1>7 DEF ObjectOK, Calls, ToldAs
  <2>4. ASSUME n.phase = "done", n.events # <<>>
        PROVE  /\ n.events[Len(n.events)] # "readystatechange"
               /\ Len(n.events) = 1 =>
                    \A d \in n.listeners \ n.left : call'[d].state = "invoke"
    <3>1. CASE r.left # {c}
      <4>1. \A d \in n.listeners \ n.left : d = c \/ d \notin r.left
        BY <1>4, <3>1
      <4> QED BY <1>2, <1>4, <2>3, <2>4, <3>1, <4>1
    <3>2. CASE r.left = {c}
      <4>1. Len(r.events) > 1 /\ n.left = r.listeners
        BY <1>4, <1>5, <2>4, <3>2
      <4>2. /\ Len(n.events) \in DOMAIN n.events
            /\ Len(n.events) + 1 = Len(r.events)
            /\ n.events[Len(n.events)] = r.events[Len(n.events) + 1]
        BY <1>4, <1>5, <2>4, <3>2
      <4> QED BY <1>4, <2>3, <2>4, <4>1, <4>2
    <3> QED BY <3>1, <3>2
  <2>5. ASSUME n.phase = "done", n.events = <<>>, NEW d \in n.listeners
        PROVE  call'[d].state = "invoke"
    <3>1. r.left = {c} /\ Len(r.events) = 1
      BY <1>2, <1>4, <1>5, <2>5
    <3> QED BY <1>2, <1>4, <2>3, <2>5, <3>1
  <2>6. ASSUME NEW d \in XhrCalls, call'[d].xhr = x
        PROVE  Unmixed(n, d, call'[d])
    <3>0. PICK k : k = call[d]
      OBVIOUS
    <3>1. /\ k.xhr = x /\ call'[d].result = k.result /\ call'[d].mixed = k.mixed
          /\ call'[d].state = "schedule" => k.state = "schedule"
      BY <2>6, <3>0 DEF Calls, ToldAs
    <3>2. Unmixed(r, d, k)
      BY <1>2, <2>6, <3>0, <3>1 DEF ObjectOK
    <3>3. \A i \in DOMAIN n.events : \E j \in DOMAIN r.events : n.events[i] = r.events[j]
      BY <1>4, <1>5
    <3>4. Len(r.events) <= 1 /\ d \notin r.left => d \notin n.left /\ Len(n.events) <= 1
      BY <1>4, <1>5
    <3>5. k.result \in Results /\ k.state = "schedule" /\ ~k.mixed =>
             /\ n.phase = "done" /\ n.status = StatusOf(k.result)
             /\ \A i \in DOMAIN n.events :
                   n.events[i] \in {"readystatechange", EventOf(k.result)}
      <4> HIDE DEF StatusOf, EventOf, Results
      <4> QED BY <1>4, <3>2, <3>3 DEF Unmixed
    <3>6. k.state = "schedule" /\ ~k.mixed =>
             /\ k.result # "reopened"
             /\ k.result = "pending" =>
                   n.phase = "sent" /\ d \notin n.left /\ Len(n.events) <= 1
      BY <1>4, <3>2, <3>4 DEF Unmixed
    <3> QED BY <3>1, <3>5, <3>6 DEF Unmixed
  <2> QED BY <2>1, <2>2, <2>4, <2>5, <2>6 DEF ObjectOK
<1> QED BY <1>6, <1>8, <1>9, ObjectStep

LEMMA XhrRecordIs ==
    ASSUME NEW r \in XhrRecord
    PROVE  /\ r = [phase |-> r.phase, status |-> r.status, events |-> r.events,
                   listeners |-> r.listeners, left |-> r.left]
           /\ r.phase \in {"unsent", "opened", "sent", "done", "failed"}
           /\ r.status \in {0, 200, 400}
           /\ r.events \in Seq({"readystatechange", "load", "error", "timeout", "abort"})
           /\ r.listeners \subseteq XhrCalls /\ r.left \subseteq XhrCalls
BY DEF XhrRecord

EventTypes == {"readystatechange", "load", "error", "timeout", "abort"}

LEMMA EndedRecordIs ==
    ASSUME NEW q \in XhrRecord, NEW st \in {0, 200, 400}, NEW ev \in Seq(EventTypes)
    PROVE  LET n == Ended(q, st, ev)
           IN  /\ n \in XhrRecord /\ n.phase = "done" /\ n.status = st
               /\ n.events = ev /\ n.listeners = q.listeners /\ n.left = q.listeners
<1>1. Ended(q, st, ev) \in XhrRecord
  BY DEF Ended, XhrRecord, EventTypes
<1> QED BY <1>1 DEF Ended, XhrRecord

LEMMA OpenedRecordIs ==
    ASSUME NEW q \in XhrRecord, NEW silent \in BOOLEAN, silent => Len(q.events) > 1
    PROVE  /\ Opened(q, silent) \in XhrRecord /\ Opened(q, silent).phase = "opened"
           /\ Opened(q, silent).listeners = q.listeners
           /\ Opened(q, silent).left = q.left
<1>1. PICK ev \in Seq(EventTypes) :
         Opened(q, silent) = [q EXCEPT !.phase = "opened", !.status = 0, !.events = ev]
  <2>1. CASE silent
    <3>1. Head(q.events) \in EventTypes
      BY <2>1, XhrRecordIs, TailIs DEF EventTypes
    <3>2. <<Head(q.events)>> \in Seq(EventTypes)
      BY <3>1
    <3> QED BY <2>1, <3>2 DEF Opened
  <2>2. CASE ~silent
    <3>1. q.events \in Seq(EventTypes)
      BY XhrRecordIs DEF EventTypes
    <3> QED BY <2>2, <3>1 DEF Opened
  <2> QED BY <2>1, <2>2
<1> DEFINE n == [q EXCEPT !.phase = "opened", !.status = 0, !.events = ev]
<1>2. n \in XhrRecord
  BY DEF XhrRecord, EventTypes
<1>3. n.phase = "opened" /\ n.listeners = q.listeners /\ n.left = q.left
  BY DEF XhrRecord
<1> HIDE DEF n
<1>4. Opened(q, silent) = n
  BY <1>1 DEF n
<1> QED BY <1>2, <1>3, <1>4

LEMMA OutcomeIs ==
    /\ \A reason, status : OutcomeOf(reason, status) \in Outcomes
    /\ OutcomeOf("abort", 0) = "unknown"
    /\ \A reason : reason # "abort" =>
          /\ OutcomeOf(reason, 200) = "success"
          /\ OutcomeOf(reason, 400) = "failure"
          /\ OutcomeOf(reason, 0) = "failure"
BY DEF OutcomeOf, Outcomes

(* The same where no reason is given, as for fetch *)
LEMMA OneOutcomeIs ==
    ASSUME NEW status
    PROVE  /\ OutcomeOf("", status) \in Outcomes
           /\ status = 200 => OutcomeOf("", status) = "success"
           /\ status = 400 => OutcomeOf("", status) = "failure"
BY DEF OutcomeOf, Outcomes

(* A call in whose object another request is opened *)
OpenedCall(k) ==
    [k EXCEPT !.result = IF @ = "pending" THEN "reopened" ELSE @,
              !.mixed = @ \/ k.state = "schedule"]

LEMMA OpenedCallIs ==
    ASSUME NEW k \in CallRecord
    PROVE  LET q == OpenedCall(k)
           IN  /\ q \in CallRecord
               /\ q.state = k.state /\ q.span = k.span /\ q.xhr = k.xhr
               /\ q.result = IF k.result = "pending" THEN "reopened" ELSE k.result
               /\ q.mixed = (k.mixed \/ k.state = "schedule")
<1>1. PICK result, mixed : /\ result = IF k.result = "pending" THEN "reopened" ELSE k.result
                           /\ mixed = (k.mixed \/ k.state = "schedule")
  OBVIOUS
<1>2. result \in Results \cup {"pending", "reopened", "threw"} /\ mixed \in BOOLEAN
  BY <1>1 DEF CallRecord
<1>3. OpenedCall(k) = [k EXCEPT !.result = result, !.mixed = mixed]
  BY <1>1 DEF OpenedCall, CallRecord
<1> QED BY <1>1, <1>2, <1>3 DEF CallRecord

(* open: the requests under way are reopened (xhr-patch.js:60).             *)
LEMMA OpenKept ==
    ASSUME AInv, NEW x \in Xhrs, NEW silent \in BOOLEAN, Open(x, silent)
    PROVE  Kept
<1>1. PICK r : r = xhr[x]
  OBVIOUS
<1>2. r \in XhrRecord /\ ObjectOK(r, x, call) /\ xhr \in [Xhrs -> XhrRecord]
      /\ call \in [Calls -> CallRecord]
  BY <1>1, ObjectIs
<1>3. PICK n : n = Opened(r, silent)
  OBVIOUS
<1>4. /\ n \in XhrRecord /\ n.phase = "opened"
      /\ n.listeners = r.listeners /\ n.left = r.left
  BY <1>1, <1>2, <1>3, OpenedRecordIs DEF Open
<1>5. \A c \in Calls :
         /\ call'[c] \in CallRecord /\ call'[c].state = call[c].state
         /\ call'[c].span = call[c].span /\ call'[c].xhr = call[c].xhr
         /\ IF call[c].xhr = x
            THEN /\ call'[c].result = IF call[c].result = "pending" THEN "reopened"
                                      ELSE call[c].result
                 /\ call'[c].mixed = (call[c].mixed \/ call[c].state = "schedule")
            ELSE call'[c] = call[c]
  BY <1>2, OpenedCallIs DEF Open, Mixed, OpenedCall
<1>6. call' \in [Calls -> CallRecord]
  BY <1>5 DEF Open, Mixed
<1>7. xhr' \in [Xhrs -> XhrRecord] /\ xhr'[x] = n /\ \A y \in Xhrs \ {x} : xhr'[y] = xhr[y]
  BY <1>1, <1>2, <1>3, <1>4 DEF Open
<1>8. CallsOnly(x)
  <2>1. /\ \A c \in FetchCalls : call[c].xhr = NoXhr
        /\ \A c \in XhrCalls : call[c].xhr = x => call[c].state # ""
    BY DEF AInv, CallObjects
  <2>2. ASSUME NEW c \in Calls, call'[c] # call[c]
        PROVE  /\ c \in XhrCalls /\ call'[c].state # "" /\ call'[c].xhr = x
               /\ call[c].xhr = x
    <3>1. call[c].xhr = x /\ call'[c].xhr = x /\ call'[c].state = call[c].state
      BY <1>5, <2>2
    <3>2. c \in XhrCalls
      BY <2>1, <3>1, ApiCallsAssumption DEF Calls
    <3> QED BY <2>1, <3>1, <3>2
  <2> QED BY <2>2 DEF CallsOnly
<1>9. ObjectOK(n, x, call')
  <2>1. /\ n.left \subseteq n.listeners /\ n.phase # "done"
        /\ \A c \in n.listeners : c \in XhrCalls /\ call[c].state # "" /\ call[c].xhr = x
    <3>2. r.listeners \subseteq XhrCalls
      BY <1>2, XhrRecordIs
    <3>3. /\ r.left \subseteq r.listeners
          /\ \A c \in r.listeners : call[c].state # "" /\ call[c].xhr = x
      BY <1>2 DEF ObjectOK
    <3> QED BY <1>4, <3>2, <3>3
  <2>2. \A c \in n.listeners : call'[c].state # "" /\ call'[c].xhr = x
    BY <1>5, <2>1 DEF Calls
  <2>3. \A c \in XhrCalls : call'[c].xhr = x => Unmixed(n, c, call'[c])
    BY <1>5 DEF Calls, Unmixed
  <2> QED BY <2>1, <2>2, <2>3 DEF ObjectOK
<1>10. Listeners'
  BY <1>7, <1>8, <1>9, ObjectStep
<1>11. UNCHANGED vars /\ UNCHANGED outcome /\ UNCHANGED trOutcome
  BY DEF Open, OnlyBrowser
<1>12. Serviced
  BY <1>11, StepServiced DEF AInv
<1>13. CallsStay(Calls)
  BY <1>2, <1>5 DEF CallsStay, CallRecord
<1>14. CallSpans' /\ OutcomeAgrees' /\ OutcomeStays /\ LastCallGivesOutcome
  BY <1>11, <1>12, <1>13, CallsQuiet
<1>15. outcome' \in [Spans -> Outcomes] /\ trOutcome' \in [Transactions -> Outcomes]
  BY <1>11 DEF AInv, ApiTypeOK
<1> QED BY <1>6, <1>7, <1>10, <1>12, <1>14, <1>15, StepKept

LEMMA EventsIs ==
    ASSUME NEW result \in Results
    PROVE  /\ EventsOf(result) \in Seq(EventTypes)
           /\ Len(EventsOf(result)) = 2 /\ EventsOf(result) # <<>>
           /\ EventsOf(result)[2] = EventOf(result)
           /\ EventOf(result) # "readystatechange"
           /\ \A i \in DOMAIN EventsOf(result) :
                 EventsOf(result)[i] \in {"readystatechange", EventOf(result)}
           /\ StatusOf(result) \in {0, 200, 400}
BY DEF EventsOf, EventOf, StatusOf, Results, EventTypes

(* The request of x, in state q, ends as result says *)
EndsAs(x, q, result) ==
    /\ xhr' = [xhr EXCEPT ![x] = Ended(q, StatusOf(result), EventsOf(result))]
    /\ \A c \in q.listeners : call'[c].state # "" /\ call'[c].xhr = x
    /\ \A c \in XhrCalls :
          call'[c].xhr = x /\ call'[c].state = "schedule" /\ ~call'[c].mixed =>
             call'[c].result \in {"threw", result}

(* A request that ends is one no call of which has a result yet.            *)
LEMMA EndedKeeps ==
    ASSUME AInv, NEW x \in Xhrs, xhr[x].phase # "done",
           NEW result \in Results, NEW q \in XhrRecord,
           EndsAs(x, q, result), CallsOnly(x)
    PROVE  xhr' \in [Xhrs -> XhrRecord] /\ Listeners'
<1>1. PICK r : r = xhr[x]
  OBVIOUS
<1>2. r \in XhrRecord /\ ObjectOK(r, x, call) /\ xhr \in [Xhrs -> XhrRecord]
  BY <1>1, ObjectIs
<1>3. PICK st, ev : st = StatusOf(result) /\ ev = EventsOf(result)
  OBVIOUS
<1>4. PICK n : n = Ended(q, st, ev)
  OBVIOUS
<1>5. /\ n \in XhrRecord /\ n.phase = "done" /\ n.status = st /\ n.events = ev
      /\ n.listeners = q.listeners /\ n.left = q.listeners
  <2>1. st \in {0, 200, 400} /\ ev \in Seq(EventTypes)
    BY <1>3, EventsIs
  <2>2. /\ Ended(q, st, ev) \in XhrRecord /\ Ended(q, st, ev).phase = "done"
        /\ Ended(q, st, ev).status = st /\ Ended(q, st, ev).events = ev
        /\ Ended(q, st, ev).listeners = q.listeners /\ Ended(q, st, ev).left = q.listeners
    BY <2>1, EndedRecordIs
  <2> QED BY <1>4, <2>2
<1>6. xhr' \in [Xhrs -> XhrRecord] /\ xhr'[x] = n /\ \A y \in Xhrs \ {x} : xhr'[y] = xhr[y]
  BY <1>2, <1>3, <1>4, <1>5 DEF EndsAs
<1>7. ObjectOK(n, x, call')
  <2>1. n.left \subseteq n.listeners
        /\ \A c \in n.listeners : call'[c].state # "" /\ call'[c].xhr = x
    BY <1>5 DEF EndsAs
  <2>2. Len(n.events) = 2 /\ n.events # <<>> /\ n.events[2] # "readystatechange"
    <3>1. Len(ev) = 2 /\ ev # <<>> /\ ev[2] = EventOf(result)
      BY <1>3, EventsIs
    <3>2. EventOf(result) # "readystatechange"
      BY EventsIs
    <3> QED BY <1>5, <3>1, <3>2
  <2>3. ASSUME NEW c \in XhrCalls, call'[c].xhr = x
        PROVE  Unmixed(n, c, call'[c])
    <3> SUFFICES ASSUME call'[c].state = "schedule", ~call'[c].mixed
                 PROVE  Unmixed(n, c, call'[c])
      BY DEF Unmixed
    <3>1. call'[c].result \in {"threw", result}
      BY <2>3 DEF EndsAs
    <3>2. \A i \in DOMAIN ev : ev[i] \in {"readystatechange", EventOf(result)}
      BY <1>3, EventsIs
    <3>3. "threw" \notin Results /\ result \notin {"pending", "reopened"}
      BY DEF Results
    <3> HIDE DEF StatusOf, EventOf, Results
    <3> QED BY <1>3, <1>5, <3>1, <3>2, <3>3 DEF Unmixed
  <2>4. n.events[Len(n.events)] # "readystatechange" /\ Len(n.events) # 1
    <3>1. n.events[Len(n.events)] # "readystatechange"
      BY <2>2, Zenon
    <3>2. Len(n.events) # 1
      BY <2>2
    <3> QED BY <3>1, <3>2
  <2> QED BY <2>1, <2>2, <2>3, <2>4 DEF ObjectOK
<1> QED BY <1>6, <1>7, ObjectStep

(* The answer comes, or the request fails                                   *)
LEMMA FinishKept ==
    ASSUME AInv, NEW x \in Xhrs, NEW result \in Results, Finish(x, result)
    PROVE  Kept
<1>1. PICK L : L = xhr[x].listeners
  OBVIOUS
<1>2. xhr[x] \in XhrRecord /\ ObjectOK(xhr[x], x, call) /\ xhr \in [Xhrs -> XhrRecord]
      /\ call \in [Calls -> CallRecord] /\ xhr[x].phase = "sent"
  BY ObjectIs DEF Finish
<1>3. L \in SUBSET XhrCalls /\ \A c \in L : call[c].state # "" /\ call[c].xhr = x
  BY <1>1, <1>2 DEF XhrRecord, ObjectOK
<1>5. \A c \in Calls :
         /\ call'[c] \in CallRecord /\ call'[c].state = call[c].state
         /\ call'[c].span = call[c].span /\ call'[c].xhr = call[c].xhr
         /\ call'[c].mixed = call[c].mixed
         /\ IF call[c].xhr = x /\ call[c].result = "pending"
            THEN call'[c].result = result ELSE call'[c] = call[c]
  BY <1>2 DEF Finish, Mark, CallRecord
<1>6. call' \in [Calls -> CallRecord]
  BY <1>5 DEF Finish, Mark
<1>7. CallsOnly(x)
  <2>1. /\ \A c \in FetchCalls : call[c].xhr = NoXhr
        /\ \A c \in XhrCalls : call[c].xhr = x => call[c].state # ""
    BY DEF AInv, CallObjects
  <2>2. ASSUME NEW c \in Calls, call'[c] # call[c]
        PROVE  /\ c \in XhrCalls /\ call'[c].state # "" /\ call'[c].xhr = x
               /\ call[c].xhr = x
    <3>1. call[c].xhr = x /\ call'[c].xhr = x /\ call'[c].state = call[c].state
      BY <1>5, <2>2
    <3>2. c \in XhrCalls
      BY <2>1, <3>1, ApiCallsAssumption DEF Calls
    <3> QED BY <2>1, <3>1, <3>2
  <2> QED BY <2>2 DEF CallsOnly
<1>8. xhr' \in [Xhrs -> XhrRecord] /\ Listeners'
  <2>0. PICK q : q = xhr[x]
    OBVIOUS
  <2>1. \A c \in L : call'[c].state # "" /\ call'[c].xhr = x
    BY <1>3, <1>5 DEF Calls
  <2>2. ASSUME NEW c \in XhrCalls, call'[c].xhr = x, call'[c].state = "schedule",
               ~call'[c].mixed
        PROVE  call'[c].result \in {"threw", result}
    <3>1. Unmixed(xhr[x], c, call[c]) /\ call[c] \in CallRecord
      BY <1>2, <1>5, <2>2 DEF ObjectOK, Calls
    <3>2. call[c].result \notin Results /\ call[c].result # "reopened"
      BY <1>2, <1>5, <2>2, <3>1 DEF Unmixed, Calls
    <3>3. call[c].result \in {"pending", "threw"}
      BY <3>1, <3>2 DEF CallRecord
    <3> QED BY <1>5, <2>2, <3>3 DEF Calls
  <2>3. xhr' = [xhr EXCEPT ![x] = Ended(q, StatusOf(result), EventsOf(result))]
    BY <2>0 DEF Finish
  <2>4. EndsAs(x, q, result)
    BY <1>1, <2>0, <2>1, <2>2, <2>3 DEF EndsAs
  <2> QED BY <1>2, <1>7, <2>0, <2>4, EndedKeeps
<1>9. UNCHANGED vars /\ UNCHANGED outcome /\ UNCHANGED trOutcome
  BY DEF Finish, OnlyBrowser
<1>10. Serviced
  BY <1>9, StepServiced DEF AInv
<1>11. CallsStay(Calls)
  BY <1>5 DEF CallsStay
<1>12. CallSpans' /\ OutcomeAgrees' /\ OutcomeStays /\ LastCallGivesOutcome
  BY <1>9, <1>10, <1>11, CallsQuiet
<1>13. outcome' \in [Spans -> Outcomes] /\ trOutcome' \in [Transactions -> Outcomes]
  BY <1>9 DEF AInv, ApiTypeOK
<1> QED BY <1>6, <1>8, <1>10, <1>12, <1>13, StepKept

(* SetCall, whether the call is mixed with other requests or not *)
SetsCall(c, state, s, x, result) ==
    \E mixed \in BOOLEAN : SetCall(c, state, s, x, result, mixed)

LEMMA SetCallIs ==
    ASSUME AInv, NEW c \in Calls, NEW s \in Spans, NEW x \in Xhrs \cup {NoXhr},
           NEW state \in {"schedule", "invoke"},
           NEW result \in Results \cup {"pending", "threw"},
           SetsCall(c, state, s, x, result)
    PROVE  /\ call' \in [Calls -> CallRecord]
           /\ call'[c].state = state /\ call'[c].span = s
           /\ call'[c].xhr = x /\ call'[c].result = result
           /\ \A d \in Calls \ {c} : call'[d] = call[d]
           /\ CallsStay(Calls \ {c})
<1>1. call \in [Calls -> CallRecord]
  BY DEF AInv, ApiTypeOK
<1>a. PICK mixed \in BOOLEAN : SetCall(c, state, s, x, result, mixed)
  BY DEF SetsCall
<1> DEFINE q == [state |-> state, span |-> s, xhr |-> x, result |-> result,
                 mixed |-> mixed]
<1>2. q \in CallRecord
  BY DEF CallRecord, Results
<1>3. call' = [call EXCEPT ![c] = q]
  BY <1>a DEF SetCall
<1>4. q.state = state /\ q.span = s /\ q.xhr = x /\ q.result = result
  OBVIOUS
<1> HIDE DEF q
<1>5. /\ call' \in [Calls -> CallRecord] /\ call'[c] = q
      /\ \A d \in Calls \ {c} : call'[d] = call[d]
  BY <1>1, <1>2, <1>3
<1> QED BY <1>4, <1>5 DEF CallsStay

(* SCHEDULE of a new call (performance-monitoring.js:262).                  *)
LEMMA NewCallKept ==
    ASSUME AInv, NEW c \in Calls, NEW s \in Spans, Task(c, s),
           NEW svc \in Scheduled(s), Schedule(svc),
           NEW x \in Xhrs \cup {NoXhr}, NEW result \in Results \cup {"pending", "threw"},
           SetsCall(c, "schedule", s, x, result),
           xhr' \in [Xhrs -> XhrRecord], Listeners'
    PROVE  Kept
<1>1. span[s].status = "unused"
  BY DEF Task
<1>2. Serviced /\ OfKnownAfter(s) /\ UNCHANGED <<outcome, trOutcome>>
  BY <1>1, ScheduleServiced DEF AInv
<1>3. UNCHANGED outcome /\ UNCHANGED trOutcome
  BY <1>2
<1>4. /\ call' \in [Calls -> CallRecord]
      /\ call'[c].state = "schedule" /\ call'[c].span = s
      /\ CallsStay(Calls \ {c})
  <2>1. PICK state \in {"schedule", "invoke"} : state = "schedule"
    OBVIOUS
  <2>2. SetsCall(c, state, s, x, result)
    BY <2>1
  <2> QED BY <2>1, <2>2, SetCallIs
<1>5. CallSpans' /\ OutcomeAgrees' /\ OutcomeStays /\ LastCallGivesOutcome
  BY <1>2, <1>3, <1>4, CallsNew
<1>6. outcome' \in [Spans -> Outcomes] /\ trOutcome' \in [Transactions -> Outcomes]
  BY <1>3 DEF AInv, ApiTypeOK
<1> QED BY <1>2, <1>4, <1>5, <1>6, StepKept

(* A new call that ends at once (xhr-patch.js:132, fetch-patch.js:70).      *)
LEMMA ThrownCallKept ==
    ASSUME AInv, NEW c \in Calls, NEW s \in Spans, Task(c, s),
           NEW svc \in Scheduled(s), NEW o \in Outcomes, Invoke(svc, s, o),
           NEW x \in Xhrs \cup {NoXhr},
           SetCall(c, "invoke", s, x, "threw", FALSE),
           xhr' \in [Xhrs -> XhrRecord], Listeners'
    PROVE  Kept
<1>1. span[s].status = "unused"
  BY DEF Task
<1>2. Serviced /\ OfKnownAfter(s)
  BY <1>1, ThrowServiced DEF AInv
<1>3. /\ call' \in [Calls -> CallRecord]
      /\ call'[c].state = "invoke" /\ call'[c].span = s /\ call'[c].result = "threw"
      /\ CallsStay(Calls \ {c})
  <2>1. SetsCall(c, "invoke", s, x, "threw")
    BY DEF SetsCall
  <2> QED BY <2>1, SetCallIs
<1>4. outcome' = [outcome EXCEPT ![s] = o]
  BY DEF Invoke
<1>5. CallSpans' /\ OutcomeAgrees' /\ OutcomeStays /\ LastCallGivesOutcome
  BY <1>2, <1>3, <1>4, CallsNew
<1>6. outcome' \in [Spans -> Outcomes] /\ trOutcome' \in [Transactions -> Outcomes]
  <2>1. outcome \in [Spans -> Outcomes] /\ trOutcome \in [Transactions -> Outcomes]
    BY DEF AInv, ApiTypeOK
  <2>2. trOutcome' = [t \in Transactions |->
                        IF IsCurrentHttp(svc, t) THEN o ELSE trOutcome[t]]
    BY DEF Invoke
  <2> HIDE DEF Outcomes
  <2> QED BY <1>4, <2>1, <2>2
<1> QED BY <1>2, <1>3, <1>5, <1>6, StepKept

LEMMA ListenIs ==
    ASSUME NEW r \in XhrRecord, NEW c \in XhrCalls
    PROVE  /\ Listen(r, c) \in XhrRecord
           /\ Listen(r, c).phase = r.phase /\ Listen(r, c).status = r.status
           /\ Listen(r, c).events = r.events /\ Listen(r, c).left = r.left
           /\ Listen(r, c).listeners = r.listeners \cup {c}
<1>1. Listen(r, c) \in XhrRecord
  BY DEF Listen, XhrRecord
<1>2. Listen(r, c).phase = r.phase /\ Listen(r, c).status = r.status
  BY DEF Listen, XhrRecord
<1>3. Listen(r, c).events = r.events /\ Listen(r, c).left = r.left
  BY DEF Listen, XhrRecord
<1>4. Listen(r, c).listeners = r.listeners \cup {c}
  BY DEF Listen, XhrRecord
<1> QED BY <1>1, <1>2, <1>3, <1>4

(* The record m in another phase *)
Phased(m, p) == [m EXCEPT !.phase = p]

LEMMA PhasedIs ==
    ASSUME NEW m \in XhrRecord, NEW p \in {"unsent", "opened", "sent", "done", "failed"}
    PROVE  /\ Phased(m, p) \in XhrRecord
           /\ Phased(m, p).phase = p /\ Phased(m, p).status = m.status
           /\ Phased(m, p).events = m.events
           /\ Phased(m, p).listeners = m.listeners /\ Phased(m, p).left = m.left
<1>1. Phased(m, p) \in XhrRecord
  BY DEF Phased, XhrRecord
<1>2. Phased(m, p).phase = p /\ Phased(m, p).status = m.status
  BY DEF Phased, XhrRecord
<1>3. /\ Phased(m, p).events = m.events
      /\ Phased(m, p).listeners = m.listeners /\ Phased(m, p).left = m.left
  BY DEF Phased, XhrRecord
<1> QED BY <1>1, <1>2, <1>3

LEMMA RefusedIs ==
    ASSUME NEW m \in XhrRecord
    PROVE  /\ Refused(m) \in XhrRecord
           /\ Refused(m).phase = IF m.phase = "opened" THEN "failed" ELSE m.phase
           /\ Refused(m).status = m.status /\ Refused(m).events = m.events
           /\ Refused(m).listeners = m.listeners /\ Refused(m).left = m.left
<1>1. PICK p : p = IF m.phase = "opened" THEN "failed" ELSE m.phase
  OBVIOUS
<1>2. p \in {"unsent", "opened", "sent", "done", "failed"}
  BY <1>1, XhrRecordIs
<1>3. Refused(m) = Phased(m, p)
  BY <1>1 DEF Refused, Phased
<1> QED BY <1>1, <1>2, <1>3, PhasedIs

(* send of an opened object (xhr-patch.js:80).                              *)
LEMMA SendAsyncKept ==
    ASSUME AInv, NEW x \in Xhrs, NEW c \in XhrCalls, NEW s \in Spans, SendAsync(x, c, s)
    PROVE  Kept
<1>1. PICK r : r = xhr[x]
  OBVIOUS
<1>2. PICK n : n = [Listen(r, c) EXCEPT !.phase = "sent"]
  OBVIOUS
<1>3. /\ r \in XhrRecord /\ ObjectOK(r, x, call) /\ xhr \in [Xhrs -> XhrRecord]
      /\ r.phase = "opened" /\ Task(c, s)
  BY <1>1, ObjectIs DEF SendAsync
<1>4. /\ n \in XhrRecord /\ n.phase = "sent" /\ n.listeners = r.listeners \cup {c}
      /\ n.left = r.left /\ n.events = r.events
  <2>1. PICK m : m = Listen(r, c)
    OBVIOUS
  <2>2. /\ m \in XhrRecord /\ m.listeners = r.listeners \cup {c} /\ m.left = r.left
        /\ m.events = r.events
    BY <1>3, <2>1, ListenIs
  <2>3. PICK p : p = "sent"
    OBVIOUS
  <2>4. n = Phased(m, p)
    BY <1>2, <2>1, <2>3 DEF Phased
  <2> QED BY <2>2, <2>3, <2>4, PhasedIs
<1>m. PICK mixed : mixed = (Len(r.events) > 1)
  OBVIOUS
<1>b. mixed \in BOOLEAN
  BY <1>m
<1>5. SetCall(c, "schedule", s, x, "pending", mixed)
  BY <1>1, <1>m DEF SendAsync
<1>6. /\ call'[c].state = "schedule" /\ call'[c].xhr = x /\ call'[c].result = "pending"
      /\ call'[c].mixed = mixed
      /\ \A d \in Calls \ {c} : call'[d] = call[d]
  <2>1. PICK result : result = "pending"
    OBVIOUS
  <2>2. c \in Calls /\ SetsCall(c, "schedule", s, x, result)
    BY <1>5, <1>b, <2>1 DEF Calls, SetsCall
  <2>3. result \in Results \cup {"pending", "threw"} /\ x \in Xhrs \cup {NoXhr}
    BY <2>1
  <2>4. /\ call'[c].state = "schedule" /\ call'[c].xhr = x /\ call'[c].result = result
        /\ \A d \in Calls \ {c} : call'[d] = call[d]
    <3>1. PICK state \in {"schedule", "invoke"} : state = "schedule"
      OBVIOUS
    <3>2. SetsCall(c, state, s, x, result)
      BY <2>2, <3>1
    <3> QED BY <2>2, <2>3, <3>1, <3>2, SetCallIs
  <2>5. call'[c].mixed = mixed
    <3>1. call \in [Calls -> CallRecord] /\ c \in Calls
      BY <2>2 DEF AInv, ApiTypeOK
    <3> QED BY <1>5, <3>1 DEF SetCall
  <2> QED BY <2>1, <2>4, <2>5
<1>7. CallsOnly(x)
  BY <1>3, <1>6 DEF CallsOnly, Task
<1>8. xhr' \in [Xhrs -> XhrRecord] /\ xhr'[x] = n /\ \A y \in Xhrs \ {x} : xhr'[y] = xhr[y]
  <2>1. xhr' = [xhr EXCEPT ![x] = n]
    BY <1>1, <1>2 DEF SendAsync
  <2> QED BY <1>3, <1>4, <2>1
<1>9. ObjectOK(n, x, call')
  <2>1. n.left \subseteq n.listeners /\ n.phase # "done"
    BY <1>3, <1>4 DEF ObjectOK
  <2>2. \A d \in n.listeners : call'[d].state # "" /\ call'[d].xhr = x
    <3>1. r.listeners \subseteq XhrCalls
      BY <1>3, XhrRecordIs
    <3>2. \A d \in r.listeners : call[d].state # "" /\ call[d].xhr = x
      BY <1>3 DEF ObjectOK
    <3> QED BY <1>4, <1>6, <3>1, <3>2 DEF Calls
  <2>3. ASSUME NEW d \in XhrCalls \ {c}, call'[d].xhr = x
        PROVE  Unmixed(n, d, call'[d])
    <3>1. call'[d] = call[d]
      BY <1>6 DEF Calls
    <3>2. Unmixed(r, d, call[d])
      BY <1>3, <2>3, <3>1 DEF ObjectOK
    <3> HIDE DEF StatusOf, EventOf, Results
    <3> QED BY <1>3, <3>1, <3>2 DEF Unmixed
  <2>4. Unmixed(n, c, call'[c])
    <3>1. c \notin r.left
      BY <1>3 DEF ObjectOK, Task
    <3>2. "pending" \notin Results
      BY DEF Results
    <3>3. Len(r.events) \in Nat
      BY <1>3, XhrRecordIs
    <3> HIDE DEF StatusOf, EventOf, Results
    <3>4. ~call'[c].mixed => Len(r.events) <= 1
      <4>1. CASE Len(r.events) > 1
        BY <1>6, <1>m, <4>1
      <4>2. CASE ~(Len(r.events) > 1)
        BY <3>3, <4>2
      <4> QED BY <4>1, <4>2
    <3>5. call'[c].result = "pending" /\ n.phase = "sent"
      BY <1>4, <1>6
    <3>6. c \notin n.left /\ n.events = r.events
      BY <1>4, <3>1
    <3> QED BY <3>2, <3>4, <3>5, <3>6 DEF Unmixed
  <2>5. \A d \in XhrCalls : call'[d].xhr = x => Unmixed(n, d, call'[d])
    BY <2>3, <2>4
  <2> QED BY <2>1, <2>2, <2>5 DEF ObjectOK
<1>10. Listeners'
  BY <1>7, <1>8, <1>9, ObjectStep
<1>11. PICK svc \in Scheduled(s) : Schedule(svc)
  BY DEF SendAsync
<1>12. SetsCall(c, "schedule", s, x, "pending")
  BY <1>5, <1>b DEF SetsCall
<1> QED BY <1>3, <1>8, <1>10, <1>11, <1>12, NewCallKept DEF Calls

(* The same of a synchronous request, its events included                   *)
LEMMA SendSyncKept ==
    ASSUME AInv, NEW x \in Xhrs, NEW c \in XhrCalls, NEW s \in Spans,
           NEW result \in Results, SendSync(x, c, s, result)
    PROVE  Kept
<1>1. PICK q : q = Listen(xhr[x], c)
  OBVIOUS
<1>2. /\ xhr[x] \in XhrRecord /\ ObjectOK(xhr[x], x, call) /\ xhr \in [Xhrs -> XhrRecord]
      /\ xhr[x].phase = "opened" /\ Task(c, s)
  BY ObjectIs DEF SendSync
<1>3. q \in XhrRecord /\ q.listeners = xhr[x].listeners \cup {c}
  BY <1>1, <1>2, ListenIs
<1>4. SetsCall(c, "schedule", s, x, result)
  BY DEF SendSync, SetsCall
<1>5. /\ call'[c].state = "schedule" /\ call'[c].xhr = x /\ call'[c].result = result
      /\ \A d \in Calls \ {c} : call'[d] = call[d]
  BY <1>4, SetCallIs DEF Calls
<1>6. CallsOnly(x)
  BY <1>2, <1>5 DEF CallsOnly, Task
<1>7. EndsAs(x, q, result)
  <2>1. xhr' = [xhr EXCEPT ![x] = Ended(q, StatusOf(result), EventsOf(result))]
    BY <1>1 DEF SendSync
  <2>2. \A d \in q.listeners : call'[d].state # "" /\ call'[d].xhr = x
    <3>1. xhr[x].listeners \subseteq XhrCalls
      BY <1>2, XhrRecordIs
    <3>2. \A d \in xhr[x].listeners : call[d].state # "" /\ call[d].xhr = x
      BY <1>2 DEF ObjectOK
    <3> QED BY <1>3, <1>5, <3>1, <3>2 DEF Calls
  <2>3. ASSUME NEW d \in XhrCalls, call'[d].xhr = x, call'[d].state = "schedule",
               ~call'[d].mixed
        PROVE  call'[d].result \in {"threw", result}
    <3>1. CASE d = c
      BY <1>5, <3>1
    <3>2. CASE d # c
      <4>1. call'[d] = call[d] /\ call[d] \in CallRecord
        BY <1>5, <3>2, ObjectIs DEF Calls
      <4>2. Unmixed(xhr[x], d, call[d])
        BY <1>2, <2>3, <4>1 DEF ObjectOK
      <4>3. call[d].result \notin Results /\ call[d].result \notin {"pending", "reopened"}
        BY <1>2, <2>3, <4>1, <4>2 DEF Unmixed
      <4> QED BY <4>1, <4>3 DEF CallRecord
    <3> QED BY <3>1, <3>2
  <2> QED BY <2>1, <2>2, <2>3 DEF EndsAs
<1>8. xhr' \in [Xhrs -> XhrRecord] /\ Listeners'
  BY <1>2, <1>3, <1>6, <1>7, EndedKeeps
<1>9. PICK svc \in Scheduled(s) : Schedule(svc)
  BY DEF SendSync
<1> QED BY <1>2, <1>4, <1>8, <1>9, NewCallKept DEF Calls

(* send throws: the call is over, its listeners stay (xhr-patch.js:132).    *)
LEMMA SendThrowsKept ==
    ASSUME AInv, NEW x \in Xhrs, NEW c \in XhrCalls, NEW s \in Spans, SendThrows(x, c, s)
    PROVE  Kept
<1>1. PICK r : r = xhr[x]
  OBVIOUS
<1>2. PICK p : p = IF r.phase = "opened" THEN "failed" ELSE r.phase
  OBVIOUS
<1>3. PICK m, n : m = Listen(r, c) /\ n = Refused(m)
  OBVIOUS
<1>4. /\ r \in XhrRecord /\ ObjectOK(r, x, call) /\ xhr \in [Xhrs -> XhrRecord]
      /\ Task(c, s)
  BY <1>1, ObjectIs DEF SendThrows
<1>5. /\ n \in XhrRecord /\ n.phase = p /\ n.listeners = r.listeners \cup {c}
      /\ n.status = r.status /\ n.events = r.events /\ n.left = r.left
  <2>1. /\ m \in XhrRecord /\ m.phase = r.phase /\ m.status = r.status
        /\ m.events = r.events /\ m.left = r.left /\ m.listeners = r.listeners \cup {c}
    BY <1>3, <1>4, ListenIs
  <2>2. /\ n \in XhrRecord
        /\ n.phase = IF m.phase = "opened" THEN "failed" ELSE m.phase
        /\ n.status = m.status /\ n.events = m.events
        /\ n.listeners = m.listeners /\ n.left = m.left
    BY <1>3, <2>1, RefusedIs
  <2> QED BY <1>2, <2>1, <2>2
<1>6. SetCall(c, "invoke", s, x, "threw", FALSE)
  BY DEF SendThrows
<1>a. SetsCall(c, "invoke", s, x, "threw")
  BY <1>6 DEF SetsCall
<1>7. /\ call'[c].state = "invoke" /\ call'[c].xhr = x
      /\ \A d \in Calls \ {c} : call'[d] = call[d]
  BY <1>a, SetCallIs DEF Calls
<1>8. CallsOnly(x)
  BY <1>4, <1>7 DEF CallsOnly, Task
<1>9. xhr' \in [Xhrs -> XhrRecord] /\ xhr'[x] = n /\ \A y \in Xhrs \ {x} : xhr'[y] = xhr[y]
  <2>1. xhr' = [xhr EXCEPT ![x] = n]
    BY <1>1, <1>3 DEF SendThrows
  <2> QED BY <1>4, <1>5, <2>1
<1>10. ObjectOK(n, x, call')
  <2>1. r.listeners \subseteq XhrCalls
    BY <1>4, XhrRecordIs
  <2>2. /\ r.left \subseteq r.listeners
        /\ \A d \in r.listeners : call[d].state # "" /\ call[d].xhr = x
    BY <1>4 DEF ObjectOK
  <2>3. /\ n.left \subseteq n.listeners
        /\ \A d \in n.listeners : call'[d].state # "" /\ call'[d].xhr = x
    <3>1. \A d \in r.listeners \ {c} : call'[d] = call[d]
      BY <1>7, <2>1 DEF Calls
    <3> QED BY <1>5, <1>7, <2>2, <3>1
  <2>4. n.phase = "done" => r.phase = "done"
    BY <1>2, <1>5
  <2>5. n.phase = "done" /\ n.events # <<>> =>
           /\ n.events[Len(n.events)] # "readystatechange"
           /\ Len(n.events) = 1 => \A d \in n.listeners \ n.left : call'[d].state = "invoke"
    <3>1. r.phase = "done" /\ r.events # <<>> =>
             /\ r.events[Len(r.events)] # "readystatechange"
             /\ Len(r.events) = 1 => \A d \in r.listeners \ r.left : call[d].state = "invoke"
      BY <1>4 DEF ObjectOK
    <3> QED BY <1>5, <1>7, <2>1, <2>4, <3>1 DEF Calls
  <2>6. n.phase = "done" /\ n.events = <<>> => \A d \in n.listeners : call'[d].state = "invoke"
    <3>1. r.phase = "done" /\ r.events = <<>> => \A d \in r.listeners : call[d].state = "invoke"
      BY <1>4 DEF ObjectOK
    <3> QED BY <1>5, <1>7, <2>1, <2>4, <3>1 DEF Calls
  <2>7. ASSUME NEW d \in XhrCalls, call'[d].xhr = x
        PROVE  Unmixed(n, d, call'[d])
    <3> SUFFICES ASSUME call'[d].state = "schedule"
                 PROVE  Unmixed(n, d, call'[d])
      BY DEF Unmixed
    <3>1. call'[d] = call[d]
      BY <1>7 DEF Calls
    <3>2. Unmixed(r, d, call[d])
      BY <1>4, <2>7, <3>1 DEF ObjectOK
    <3>3. r.phase \in {"sent", "done"} => n.phase = r.phase
      BY <1>2, <1>5
    <3> HIDE DEF StatusOf, EventOf, Results
    <3> QED BY <1>5, <3>1, <3>2, <3>3 DEF Unmixed
  <2> QED BY <2>3, <2>5, <2>6, <2>7 DEF ObjectOK
<1>11. Listeners'
  BY <1>8, <1>9, <1>10, ObjectStep
<1>12. PICK o : o = OutcomeOf("error", xhr[x].status)
  OBVIOUS
<1>13. PICK svc \in Scheduled(s) : Invoke(svc, s, o)
  BY <1>12 DEF SendThrows
<1>14. o \in Outcomes
  BY <1>12, OutcomeIs
<1> QED BY <1>4, <1>6, <1>9, <1>11, <1>13, <1>14, ThrownCallKept DEF Calls

(* The listener of a call is told of an event; it notices the end of the    *)
(* request, or that of an earlier one of the object (xhr-patch.js:99).      *)
LEMMA DeliverKept ==
    ASSUME AInv, NEW x \in Xhrs, NEW c \in XhrCalls, Deliver(x, c)
    PROVE  Kept
<1>1. PICK r : r = xhr[x]
  OBVIOUS
<1>2. /\ r \in XhrRecord /\ ObjectOK(r, x, call) /\ xhr \in [Xhrs -> XhrRecord]
      /\ call \in [Calls -> CallRecord]
      /\ r.events # <<>> /\ c \in r.left
      /\ xhr' = [xhr EXCEPT ![x] = Told(@, c)]
  BY <1>1, ObjectIs DEF Deliver
<1>3. call[c].state \in {"schedule", "invoke"} /\ call[c].xhr = x /\ c \in Calls
  <2>1. call[c].state # "" /\ call[c].xhr = x
    BY <1>2 DEF ObjectOK
  <2>2. call[c] \in CallRecord /\ c \in Calls
    BY <1>2 DEF Calls
  <2> QED BY <2>1, <2>2 DEF CallRecord
<1>4. /\ Head(r.events) = r.events[1] /\ 1 \in DOMAIN r.events
      /\ r.phase = "done" /\ Len(r.events) = 1 => Head(r.events) # "readystatechange"
  <2>1. Head(r.events) = r.events[1] /\ 1 \in DOMAIN r.events
    BY <1>2, XhrRecordIs, TailIs
  <2>2. r.phase = "done" => r.events[Len(r.events)] # "readystatechange"
    BY <1>2 DEF ObjectOK
  <2>3. Len(r.events) = 1 => r.events[Len(r.events)] = r.events[1]
    OBVIOUS
  <2> QED BY <2>1, <2>2, <2>3
<1>5. CASE Notices(x) /\ IsOpenTask(c)
  <2>1. call[c].state = "schedule"
    BY <1>3, <1>5 DEF IsOpenTask
  <2>2. PICK o : o = OutcomeOf(Head(r.events), r.status)
    OBVIOUS
  <2>3. o \in Outcomes
    BY <2>2, OutcomeIs
  <2>4. Invoke(Service, call[c].span, o) /\ call' = [call EXCEPT ![c].state = "invoke"]
    BY <1>1, <1>5, <2>2 DEF Deliver
  <2>5. ASSUME ~call[c].mixed
        PROVE  Agrees(c, call[c].result, o)
    <3>0. /\ Unmixed(r, c, call[c]) /\ call[c] \in CallRecord
          /\ call[c].result \notin {"pending", "reopened"}
      <4>1. Unmixed(r, c, call[c]) /\ call[c] \in CallRecord
        BY <1>2, <1>3 DEF ObjectOK
      <4> QED BY <1>2, <2>1, <2>5, <4>1 DEF Unmixed
    <3>1. ASSUME call[c].result \in Results
          PROVE  /\ r.status = StatusOf(call[c].result)
                 /\ Head(r.events) \in {"readystatechange", EventOf(call[c].result)}
                 /\ Head(r.events) = "readystatechange" => r.status # 0
      <4> HIDE DEF StatusOf, EventOf, Results
      <4>1. /\ r.status = StatusOf(call[c].result)
            /\ \A i \in DOMAIN r.events :
                  r.events[i] \in {"readystatechange", EventOf(call[c].result)}
        BY <2>1, <2>5, <3>0, <3>1 DEF Unmixed
      <4>2. Head(r.events) = "readystatechange" => r.status # 0
        BY <1>1, <1>5 DEF Notices
      <4> QED BY <1>4, <4>1, <4>2
    <3>2. CASE call[c].result = "ok"
      <4>1. r.status = 200 /\ Head(r.events) # "abort"
        BY <3>1, <3>2 DEF StatusOf, EventOf, Results
      <4> QED BY <2>2, <3>2, <4>1, OutcomeIs DEF Agrees
    <3>3. CASE call[c].result = "httpError"
      <4>1. r.status = 400 /\ Head(r.events) # "abort"
        BY <3>1, <3>3 DEF StatusOf, EventOf, Results
      <4> QED BY <2>2, <3>3, <4>1, OutcomeIs DEF Agrees
    <3>4. CASE call[c].result \in {"error", "timeout"}
      <4>1. r.status = 0 /\ Head(r.events) # "abort"
        BY <3>1, <3>4 DEF StatusOf, EventOf, Results
      <4> QED BY <2>2, <3>4, <4>1, OutcomeIs DEF Agrees
    <3>5. CASE call[c].result = "abort"
      <4>1. r.status = 0 /\ Head(r.events) = "abort"
        BY <3>1, <3>5 DEF StatusOf, EventOf, Results
      <4> QED BY <2>2, <3>5, <4>1, OutcomeIs DEF Agrees
    <3>6. CASE call[c].result = "threw"
      BY <3>6 DEF Agrees
    <3> QED BY <3>0, <3>2, <3>3, <3>4, <3>5, <3>6 DEF CallRecord, Results
  <2>6. /\ Serviced
        /\ CallSpans' /\ OutcomeAgrees' /\ OutcomeStays /\ LastCallGivesOutcome
        /\ outcome' \in [Spans -> Outcomes]
        /\ trOutcome' \in [Transactions -> Outcomes]
        /\ \A d \in Calls : /\ call'[d].xhr = call[d].xhr
                            /\ call'[d].result = call[d].result
                            /\ call'[d].mixed = call[d].mixed
                            /\ call'[d].state = IF d = c THEN "invoke" ELSE call[d].state
        /\ call' \in [Calls -> CallRecord]
    BY <1>3, <2>1, <2>3, <2>4, <2>5, CallsInvoked
  <2>7. \A d \in Calls \ {c} : call'[d] = call[d]
    BY <1>2, <2>4
  <2>8. ToldAs(x, c)
    BY <1>2, <1>3, <2>6, <2>7 DEF ToldAs
  <2>9. xhr' \in [Xhrs -> XhrRecord] /\ Listeners'
    BY <1>1, <1>2, <2>6, <2>8, ToldKeeps
  <2> QED BY <2>6, <2>9, StepKept
<1>6. CASE ~(Notices(x) /\ IsOpenTask(c))
  <2>1. UNCHANGED vars /\ UNCHANGED outcome /\ UNCHANGED trOutcome /\ call' = call
    BY <1>6 DEF Deliver
  <2>2. Serviced
    BY <2>1, StepServiced DEF AInv
  <2>3. CallsStay(Calls)
    BY <2>1 DEF CallsStay
  <2>4. CallSpans' /\ OutcomeAgrees' /\ OutcomeStays /\ LastCallGivesOutcome
    BY <2>1, <2>2, <2>3, CallsQuiet
  <2>5. r.phase = "done" /\ Len(r.events) = 1 => call'[c].state = "invoke"
    <3>1. SUFFICES ASSUME Head(r.events) # "readystatechange"
                   PROVE  call[c].state = "invoke"
      BY <1>4, <2>1
    <3>2. Notices(x)
      BY <1>1, <3>1 DEF Notices
    <3> QED BY <1>3, <1>6, <3>2 DEF IsOpenTask
  <2>6. ToldAs(x, c)
    BY <1>1, <1>2, <2>1, <2>5 DEF ToldAs
  <2>7. xhr' \in [Xhrs -> XhrRecord] /\ Listeners'
    BY <1>1, <1>2, <2>1, <2>6, ToldKeeps
  <2>8. outcome' \in [Spans -> Outcomes] /\ trOutcome' \in [Transactions -> Outcomes]
    BY <2>1 DEF AInv, ApiTypeOK
  <2> QED BY <1>2, <2>1, <2>2, <2>4, <2>7, <2>8, StepKept
<1> QED BY <1>5, <1>6

(* The calls of fetch (fetch-patch.js:58)                                   *)
LEMMA FetchKept ==
    ASSUME AInv, NEW c \in FetchCalls, NEW s \in Spans,
           \/ FetchStart(c, s)
           \/ FetchThrows(c, s)
    PROVE  Kept
<1>1. c \in Calls
  BY DEF Calls
<1>2. xhr' \in [Xhrs -> XhrRecord] /\ UNCHANGED xhr /\ Task(c, s)
  BY DEF AInv, ApiTypeOK, FetchStart, FetchThrows
<1>3. PICK x : x = NoXhr
  OBVIOUS
<1>4. CASE FetchStart(c, s)
  <2>1. PICK result : result = "pending"
    OBVIOUS
  <2>2. SetsCall(c, "schedule", s, x, result)
    BY <1>3, <1>4, <2>1 DEF FetchStart, SetsCall
  <2>3. result \in Results \cup {"pending", "threw"} /\ x \in Xhrs \cup {NoXhr}
    BY <1>3, <2>1
  <2>4. /\ call'[c].xhr = x /\ call'[c].result = result
        /\ \A d \in Calls \ {c} : call'[d] = call[d]
    <3>1. PICK state \in {"schedule", "invoke"} : state = "schedule"
      OBVIOUS
    <3>2. SetsCall(c, state, s, x, result)
      BY <2>2, <3>1
    <3> QED BY <1>1, <2>3, <3>1, <3>2, SetCallIs
  <2>5. Listeners'
    BY <1>2, <1>3, <2>1, <2>4, FetchKeeps
  <2>6. PICK svc \in Scheduled(s) : Schedule(svc)
    BY <1>4 DEF FetchStart
  <2> QED BY <1>1, <1>2, <2>2, <2>3, <2>5, <2>6, NewCallKept
<1>5. CASE FetchThrows(c, s)
  <2>1. PICK result : result = "threw"
    OBVIOUS
  <2>2. SetCall(c, "invoke", s, x, result, FALSE)
    BY <1>3, <1>5, <2>1 DEF FetchThrows
  <2>3. result \in Results \cup {"pending", "threw"} /\ x \in Xhrs \cup {NoXhr}
    BY <1>3, <2>1
  <2>4. /\ call'[c].xhr = x /\ call'[c].result = result
        /\ \A d \in Calls \ {c} : call'[d] = call[d]
    <3>1. PICK state \in {"schedule", "invoke"} : state = "invoke"
      OBVIOUS
    <3>2. SetsCall(c, state, s, x, result)
      BY <2>2, <3>1 DEF SetsCall
    <3> QED BY <1>1, <2>3, <3>1, <3>2, SetCallIs
  <2>5. Listeners'
    BY <1>2, <1>3, <2>1, <2>4, FetchKeeps
  <2>6. PICK o \in Outcomes : o = OutcomeOf("", Undefined)
    BY OneOutcomeIs
  <2>7. PICK svc \in Scheduled(s) : Invoke(svc, s, o)
    BY <1>5, <2>6 DEF FetchThrows
  <2> QED BY <1>1, <1>2, <2>1, <2>2, <2>3, <2>5, <2>7, ThrownCallKept
<1> QED BY <1>4, <1>5

LEMMA FetchSettleKept ==
    ASSUME AInv, NEW c \in FetchCalls, NEW result \in {"ok", "httpError", "error"},
           FetchSettle(c, result)
    PROVE  Kept
<1>1. call \in [Calls -> CallRecord] /\ xhr' \in [Xhrs -> XhrRecord] /\ UNCHANGED xhr
      /\ c \in Calls
  BY DEF AInv, ApiTypeOK, FetchSettle, Calls
<1>2. /\ call' \in [Calls -> CallRecord]
      /\ call'[c].result = result /\ call'[c].state = call[c].state
      /\ call'[c].span = call[c].span /\ call'[c].xhr = call[c].xhr
      /\ \A d \in Calls \ {c} : call'[d] = call[d]
  BY <1>1 DEF FetchSettle, CallRecord, Results
<1>3. call[c].state = "schedule" /\ call[c].xhr = NoXhr
  BY DEF FetchSettle, AInv, CallObjects
<1>4. Listeners'
  BY <1>1, <1>2, <1>3, FetchKeeps
<1>5. UNCHANGED vars /\ UNCHANGED outcome /\ UNCHANGED trOutcome
  BY DEF FetchSettle, OnlyBrowser
<1>6. Serviced
  BY <1>5, StepServiced DEF AInv
<1>7. CallsStay(Calls)
  BY <1>2, <1>3 DEF CallsStay
<1>8. CallSpans' /\ OutcomeAgrees' /\ OutcomeStays /\ LastCallGivesOutcome
  BY <1>5, <1>6, <1>7, CallsQuiet
<1>9. outcome' \in [Spans -> Outcomes] /\ trOutcome' \in [Transactions -> Outcomes]
  BY <1>5 DEF AInv, ApiTypeOK
<1> QED BY <1>1, <1>2, <1>4, <1>6, <1>8, <1>9, StepKept

LEMMA FetchInvokeKept ==
    ASSUME AInv, NEW c \in FetchCalls, FetchInvoke(c)
    PROVE  Kept
<1>1. c \in Calls /\ call[c].state = "schedule" /\ UNCHANGED xhr
      /\ call[c].result # "pending"
      /\ call' = [call EXCEPT ![c].state = "invoke"]
      /\ xhr' \in [Xhrs -> XhrRecord]
  BY DEF AInv, ApiTypeOK, FetchInvoke, Calls
<1>2. /\ call[c].xhr = NoXhr
      /\ call[c].result \in {"pending", "ok", "httpError", "error", "threw"}
  BY DEF AInv, CallObjects
<1>3. PICK status : status = IF call[c].result = "error" THEN Undefined
                             ELSE StatusOf(call[c].result)
  OBVIOUS
<1>9. PICK o \in Outcomes : o = OutcomeOf("", status)
  BY OneOutcomeIs
<1>4. Invoke(Service, call[c].span, o)
  BY <1>3, <1>9 DEF FetchInvoke
<1>5. Agrees(c, call[c].result, o)
  <2>1. call[c].result = "ok" => o = "success"
    <3>1. call[c].result = "ok" => status = 200
      BY <1>3 DEF StatusOf
    <3> QED BY <1>9, <3>1, OneOutcomeIs
  <2>2. call[c].result = "httpError" => o = "failure"
    <3>1. call[c].result = "httpError" => status = 400
      BY <1>3 DEF StatusOf
    <3> QED BY <1>9, <3>1, OneOutcomeIs
  <2>3. c \notin XhrCalls /\ call[c].result # "abort"
    BY <1>2, ApiCallsAssumption
  <2>4. call[c].result \notin {"pending", "reopened"}
    BY <1>1, <1>2
  <2> QED BY <2>1, <2>2, <2>3, <2>4 DEF Agrees
<1>6. /\ Serviced
      /\ CallSpans' /\ OutcomeAgrees' /\ OutcomeStays /\ LastCallGivesOutcome
      /\ outcome' \in [Spans -> Outcomes]
      /\ trOutcome' \in [Transactions -> Outcomes]
      /\ \A d \in Calls : /\ call'[d].xhr = call[d].xhr
                          /\ call'[d].result = call[d].result
                          /\ call'[d].state = IF d = c THEN "invoke" ELSE call[d].state
      /\ call' \in [Calls -> CallRecord]
  BY <1>1, <1>4, <1>5, CallsInvoked
<1>7. \A d \in Calls \ {c} : call'[d] = call[d]
  <2>1. call \in [Calls -> CallRecord]
    BY DEF AInv, ApiTypeOK
  <2> QED BY <1>1, <2>1
<1>8. Listeners'
  BY <1>1, <1>2, <1>6, <1>7, FetchKeeps
<1> QED BY <1>1, <1>6, <1>8, StepKept

(* Steps of the service under the calls                                     *)
LEMMA QuietKept ==
    ASSUME AInv, [Next]_vars, UNCHANGED apiVars
    PROVE  Kept
<1>1. UNCHANGED xhr /\ UNCHANGED call /\ UNCHANGED outcome /\ UNCHANGED trOutcome
  BY DEF apiVars
<1>2. Serviced
  BY StepServiced DEF AInv
<1>3. CallsStay(Calls)
  BY <1>1 DEF CallsStay
<1>4. CallSpans' /\ OutcomeAgrees' /\ OutcomeStays /\ LastCallGivesOutcome
  BY <1>1, <1>2, <1>3, CallsQuiet
<1>5. Listeners'
  <2>1. CallObjects' /\ LastEventEnds'
    BY <1>1 DEF AInv, CallObjects, LastEventEnds
  <2>2. EventsTell' /\ NoCallForgotten'
    BY <1>1 DEF AInv, EventsTell, NoCallForgotten
  <2> QED BY <2>1, <2>2 DEF Listeners
<1>6. /\ xhr' \in [Xhrs -> XhrRecord] /\ call' \in [Calls -> CallRecord]
      /\ outcome' \in [Spans -> Outcomes] /\ trOutcome' \in [Transactions -> Outcomes]
  BY <1>1 DEF AInv, ApiTypeOK
<1> QED BY <1>2, <1>4, <1>5, <1>6, StepKept

LEMMA ApiNextKept ==
    ASSUME AInv, [ApiNext]_apiAllVars
    PROVE  Kept
<1>1. CASE UNCHANGED apiAllVars
  <2>1. UNCHANGED vars /\ UNCHANGED apiVars
    BY <1>1 DEF apiAllVars
  <2> QED BY <2>1, QuietKept
<1>2. CASE (Application \/ RunMicrotask) /\ UNCHANGED apiVars
  <2>1. Next
    BY <1>2 DEF Application, Next, Call
  <2> QED BY <1>2, <2>1, QuietKept
<1>3. CASE XhrStep
  <2>1. PICK x \in Xhrs :
          \/ \E silent \in BOOLEAN : Open(x, silent)
          \/ \E result \in Results : Finish(x, result)
          \/ \E c \in XhrCalls : Deliver(x, c)
          \/ \E c \in XhrCalls, s \in Spans :
                \/ SendAsync(x, c, s)
                \/ \E result \in {"ok", "httpError"} : SendSync(x, c, s, result)
                \/ SendThrows(x, c, s)
    BY <1>3 DEF XhrStep
  <2>2. {"ok", "httpError"} \subseteq Results
    BY DEF Results
  <2> QED BY <2>1, <2>2, OpenKept, FinishKept, DeliverKept, SendAsyncKept, SendSyncKept,
             SendThrowsKept
<1>4. CASE FetchStep
  BY <1>4, FetchKept, FetchSettleKept, FetchInvokeKept DEF FetchStep
<1> QED BY <1>1, <1>2, <1>3, <1>4 DEF ApiNext

LEMMA ApiInitInv == ApiInit => AInv
<1> SUFFICES ASSUME ApiInit PROVE AInv
  OBVIOUS
<1>1. CInv
  BY CallInitInv DEF ApiInit
<1>2. /\ \A x \in Xhrs : xhr[x].phase = "unsent" /\ xhr[x].listeners = {} /\ xhr[x].left = {}
      /\ \A c \in Calls : /\ call[c].state = "" /\ call[c].xhr = NoXhr
                          /\ call[c].result = "pending"
      /\ \A s \in Spans : outcome[s] = "unset"
  BY DEF ApiInit
<1>3. ApiTypeOK
  <2>1. xhr \in [Xhrs -> XhrRecord]
    <3>1. [phase |-> "unsent", status |-> 0, events |-> <<>>,
           listeners |-> {}, left |-> {}] \in XhrRecord
      BY DEF XhrRecord
    <3> QED BY <3>1 DEF ApiInit
  <2>2. call \in [Calls -> CallRecord]
    <3>1. [state |-> "", span |-> NoSpan, xhr |-> NoXhr, result |-> "pending",
           mixed |-> FALSE] \in CallRecord
      BY DEF CallRecord
    <3> QED BY <3>1 DEF ApiInit
  <2>3. outcome \in [Spans -> Outcomes] /\ trOutcome \in [Transactions -> Outcomes]
    BY DEF ApiInit, Outcomes
  <2> QED BY <2>1, <2>2, <2>3 DEF ApiTypeOK
<1>4. CallSpans
  BY <1>2 DEF CallSpans, SpansKnown, SpansApart, OutcomesOwned
<1>5. CallObjects
  BY <1>2, ApiCallsAssumption DEF CallObjects, Calls
<1>6. LastEventEnds /\ NoCallForgotten
  BY <1>2 DEF LastEventEnds, NoCallForgotten
<1>7. EventsTell /\ OutcomeAgrees
  BY <1>2 DEF EventsTell, OutcomeAgrees, Calls
<1>8. Waiting
  BY DEF Waiting, Idle, ApiInit, Init
<1> QED BY <1>1, <1>3, <1>4, <1>5, <1>6, <1>7, <1>8 DEF AInv

-----------------------------------------------------------------------------

THEOREM ApiInvariance == ApiSpec => []AInv
<1>1. AInv /\ [ApiNext]_apiAllVars => AInv'
  BY ApiNextKept DEF Kept
<1> QED BY ApiInitInv, <1>1, PTL DEF ApiSpec

(* Objects and calls keep their shapes; every call that is under way has a  *)
(* span that exists (performance-monitoring.js:262).                        *)
THEOREM ApiTypeCorrect == ApiSpec => []ApiTypeOK
<1>1. AInv => ApiTypeOK
  BY DEF AInv
<1> QED BY ApiInvariance, <1>1, PTL

(* A call ends when its own request is over, with the outcome of it, however *)
(* often its object was used before, unless it was opened again before the   *)
(* end was noticed or sent between two events of an earlier request          *)
(* (performance-monitoring.js:299).                                          *)
THEOREM OutcomeAgreesAlways == ApiSpec => []OutcomeAgrees
<1>1. AInv => OutcomeAgrees
  BY DEF AInv
<1> QED BY ApiInvariance, <1>1, PTL

(* An outcome is written once, and an http-request transaction that a call  *)
(* ends has this call's (performance-monitoring.js:299, 337).               *)
THEOREM OutcomesAreFinalHolds == ApiSpec => OutcomesAreFinal
<1>1. AInv /\ [ApiNext]_apiAllVars => [OutcomeStays]_apiAllVars /\ [LastCallGivesOutcome]_apiAllVars
  BY ApiNextKept DEF Kept
<1>2. ApiSpec => [][OutcomeStays]_apiAllVars /\ [][LastCallGivesOutcome]_apiAllVars
  BY ApiInvariance, <1>1, PTL DEF ApiSpec
<1> QED BY <1>2 DEF OutcomesAreFinal, OutcomeSetOnce, HttpOutcomeIsLast

(* When the events of a request are over, every call of the object is, and  *)
(* no http-request transaction runs with nothing to wait for                *)
(* (performance-monitoring.js:276, xhr-patch.js:99).                        *)
THEOREM NothingHangsHolds == NoHttpStarts => (ApiSpec => []NothingHangs)
<1>1. NoHttpStarts /\ AInv => NothingHangs
  <2> SUFFICES ASSUME NoHttpStarts, AInv PROVE NothingHangs
    OBVIOUS
  <2>1. HttpNeverIdle
    BY DEF AInv, Waiting, Idle, HttpNeverIdle, Running
  <2>2. NoCallForgotten
    BY DEF AInv
  <2> QED BY <2>1, <2>2 DEF NothingHangs
<1> SUFFICES ASSUME NoHttpStarts PROVE ApiSpec => []NothingHangs
  OBVIOUS
<1>2. AInv => NothingHangs
  BY <1>1
<1> QED BY ApiInvariance, <1>2, PTL
=============================================================================
