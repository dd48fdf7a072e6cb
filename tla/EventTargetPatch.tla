-------------------------- MODULE EventTargetPatch --------------------------
(***************************************************************************)
(* The patched addEventListener and removeEventListener                    *)
(* (rum-core/src/common/patching/event-target-patch.js): listeners of      *)
(* clicks on elements are wrapped, so that the agent hears of every call;  *)
(* a registry on the element finds the wrapper of a listener again.  The   *)
(* page must not notice: EventTargetPatch implements EventTarget, with     *)
(* each wrapper taken for the listener it wraps.                           *)
(*                                                                         *)
(* added, present, frames and clicks belong to the browser, which knows    *)
(* the wrappers only.                                                      *)
(***************************************************************************)
EXTENDS Integers, Sequences, FiniteSets

CONSTANTS
    Functions,      \* listeners that are functions
    Objects,        \* listeners that are objects with a handleEvent method
    MaxAdded,       \* bound of the listeners the browser gets
    MaxClicks,      \* bound of the clicks
    MaxDepth        \* bound of the clicks dispatched within one another

ASSUME PatchAssumption ==
    /\ Functions \cap Objects = {}
    /\ {MaxAdded, MaxClicks, MaxDepth} \subseteq Nat

VARIABLES
    added, present, frames, clicks,     \* see EventTarget
    patched,    \* patchEventTarget has run
    tasks,      \* target[eventSymbol]
    wrappers,   \* wrapping functions created so far
    pending     \* tasks of which SCHEDULE was sent and INVOKE was not yet

vars == <<added, present, frames, clicks, patched, tasks, wrappers, pending>>
native == <<added, present, frames, clicks>>

Listeners == Functions \cup Objects

(* A callback the browser has: the listener itself, or the wrapper'th one   *)
Callback == [fn : Listeners, wrapper : Nat]
Task == [listenerFn : Functions, capture : BOOLEAN, wrappingFn : Nat]

Browser == INSTANCE EventTarget WITH Callbacks <- Callback

(* What the page sees: wrappers are the listeners they wrap *)
Unwrapped == [i \in DOMAIN added |-> [added[i] EXCEPT !.callback = @.fn]]
Page == INSTANCE EventTarget WITH Callbacks <- Listeners, added <- Unwrapped

Init ==
    /\ Browser!Init
    /\ patched = FALSE /\ tasks = {} /\ wrappers = 0 /\ pending = <<>>

(* The agent's script runs *)
patchEventTarget ==
    /\ Browser!ScriptRuns /\ ~patched
    /\ patched' = TRUE
    /\ UNCHANGED <<native, tasks, wrappers, pending>>

\* Mutant of shouldInstrumentEvent: objects are wrapped like functions
InstrumentAll(fn) == patched

shouldInstrumentEvent(fn) == patched /\ fn \in Functions

\* Mutant of findTask: listeners are found whatever their phase
findTaskOfListener(fn, capture) == {t \in tasks : t.listenerFn = fn}

findTask(fn, capture) == {t \in tasks : t.listenerFn = fn /\ t.capture = capture}

(* The listener is in the list as it is, from before the patch *)
ListedUnwrapped(fn, capture) ==
    Browser!Listed([fn |-> fn, wrapper |-> 0], capture) # {}

(* addEventListener.  Assumption: a listener from before the patch is not   *)
(* added again as long as it is listed (it would be called twice).          *)
AddNative(fn, capture, once) ==
    /\ ~shouldInstrumentEvent(fn)
    /\ Browser!Add([fn |-> fn, wrapper |-> 0], capture, once)
    /\ UNCHANGED <<patched, tasks, wrappers, pending>>

AddAgain(fn, capture, once) ==
    /\ shouldInstrumentEvent(fn) /\ ~ListedUnwrapped(fn, capture)
    /\ \E task \in findTask(fn, capture) :
          Browser!Add([fn |-> fn, wrapper |-> task.wrappingFn], capture, once)
    /\ UNCHANGED <<patched, tasks, wrappers, pending>>

(* createListenerWrapper *)
AddWrapped(fn, capture, once) ==
    /\ shouldInstrumentEvent(fn) /\ ~ListedUnwrapped(fn, capture)
    /\ findTask(fn, capture) = {}
    /\ Browser!Add([fn |-> fn, wrapper |-> wrappers + 1], capture, once)
    /\ tasks' = tasks \cup {[listenerFn |-> fn, capture |-> capture,
                             wrappingFn |-> wrappers + 1]}
    /\ wrappers' = wrappers + 1
    /\ UNCHANGED <<patched, pending>>

(* removeEventListener: a listener that has no task may be from before the  *)
(* patch                                                                    *)
RemoveNative(fn, capture) ==
    /\ shouldInstrumentEvent(fn) => findTask(fn, capture) = {}
    /\ Browser!Remove([fn |-> fn, wrapper |-> 0], capture)
    /\ UNCHANGED <<patched, tasks, wrappers, pending>>

\* Mutant of Without: the tasks of the listener's other phase go too
WithoutListener(task) == {t \in tasks : t.listenerFn # task.listenerFn}

Without(task) == tasks \ {task}

(* getWrappingFn *)
RemoveWrapped(fn, capture) ==
    /\ shouldInstrumentEvent(fn)
    /\ \E task \in findTask(fn, capture) :
          /\ tasks' = Without(task)
          /\ Browser!Remove([fn |-> fn, wrapper |-> task.wrappingFn], capture)
    /\ UNCHANGED <<patched, wrappers, pending>>

Click == Browser!Click /\ UNCHANGED <<patched, tasks, wrappers, pending>>

(* The browser calls a listener; a wrapper sends SCHEDULE before it calls   *)
(* the listener it wraps                                                    *)
Call(i) ==
    LET wrapper == added[i].callback.wrapper
    IN  /\ Browser!Call(i)
        /\ pending' = IF wrapper = 0 THEN pending ELSE Append(pending, wrapper)
        /\ UNCHANGED <<patched, tasks, wrappers>>

\* Mutant of Invoked: no INVOKE after a listener that throws
InvokedUnlessThrown(throws) ==
    IF throws THEN pending ELSE SubSeq(pending, 1, Len(pending) - 1)

(* finally: INVOKE is sent *)
Invoked(throws) == SubSeq(pending, 1, Len(pending) - 1)

Return(throws) ==
    LET wrapper == added[Browser!Top.running].callback.wrapper
    IN  /\ Browser!Return
        /\ pending' = IF wrapper = 0 THEN pending ELSE Invoked(throws)
        /\ UNCHANGED <<patched, tasks, wrappers>>

EndPhase == Browser!EndPhase /\ UNCHANGED <<patched, tasks, wrappers, pending>>

Next ==
    \/ patchEventTarget
    \/ \E fn \in Listeners, capture \in BOOLEAN :
          \/ \E once \in BOOLEAN : \/ AddNative(fn, capture, once)
                                   \/ AddAgain(fn, capture, once)
                                   \/ AddWrapped(fn, capture, once)
          \/ RemoveNative(fn, capture)
          \/ RemoveWrapped(fn, capture)
    \/ Click
    \/ \E i \in present : Call(i)
    \/ \E throws \in BOOLEAN : Return(throws)
    \/ EndPhase

Spec == Init /\ [][Next]_vars

-----------------------------------------------------------------------------
(* Properties *)

(* The shapes of the variables *)
PatchTypeOK ==
    /\ added \in Seq(Browser!Listener) /\ present \subseteq DOMAIN added
    /\ frames \in Seq(Browser!Frame) /\ clicks \in Nat
    /\ patched \in BOOLEAN /\ tasks \subseteq Task
    /\ wrappers \in Nat /\ pending \in Seq(Nat)

(* The registry and the browser's list agree although the browser drops     *)
(* {once} listeners on its own and the registry keeps them: what is listed  *)
(* under a wrapper is found under that wrapper, so it can be removed and is *)
(* not added twice; there is one task for a listener and phase.             *)
WrapperIsFound ==
    /\ \A i \in present :
          LET l == added[i]
          IN  l.callback.wrapper # 0 =>
                [listenerFn |-> l.callback.fn, capture |-> l.capture,
                 wrappingFn |-> l.callback.wrapper] \in tasks
    /\ \A s, t \in tasks :
          s.listenerFn = t.listenerFn /\ s.capture = t.capture => s = t

(* The wrapper that a dispatch runs, 0 if it runs none *)
WrapperAt(i) ==
    IF frames[i].running = 0 THEN 0 ELSE added[frames[i].running].callback.wrapper

Wrapped == {i \in DOMAIN frames : WrapperAt(i) # 0}

(* SCHEDULE and INVOKE are sent in pairs around each call of a wrapped      *)
(* listener, also when it throws and when clicks are dispatched within one  *)
(* another: what is pending is what is running, in order, depth[k] the      *)
(* dispatch that runs the k-th pending wrapper.                             *)
PendingIsRunning ==
    \E depth \in [DOMAIN pending -> Wrapped] :
        /\ \A k, l \in DOMAIN pending : k < l => depth[k] < depth[l]
        /\ \A i \in Wrapped : \E k \in DOMAIN pending : depth[k] = i
        /\ \A k \in DOMAIN pending : pending[k] = WrapperAt(depth[k])

(* The page cannot tell the patched methods from the browser's: listeners   *)
(* are called in the same order, as often, and until they are removed.      *)
ImplementsEventTarget == Page!Spec
=============================================================================
