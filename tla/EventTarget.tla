---------------------------- MODULE EventTarget ----------------------------
(***************************************************************************)
(* The listeners of one element for the event "click", as the DOM standard *)
(* defines them: what a page without the agent can rely on.  No callback   *)
(* is listed twice for the same phase, a callback that is removed is not   *)
(* called any more, not even by a dispatch that is under way, and one that *)
(* is added is not called by a dispatch that has passed its phase.         *)
(***************************************************************************)
EXTENDS Integers, Sequences, FiniteSets

CONSTANTS
    Callbacks,      \* what can be a listener
    MaxAdded,       \* bound of the listeners added
    MaxClicks,      \* bound of the clicks
    MaxDepth        \* bound of the clicks dispatched within one another

VARIABLES
    added,      \* the listeners ever added, in order
    present,    \* the indices of those that are still in the list
    frames,     \* the dispatches under way, the innermost last
    clicks      \* clicks so far

vars == <<added, present, frames, clicks>>

Listener == [callback : Callbacks, capture : BOOLEAN, once : BOOLEAN]

(* A dispatch: the listeners still to be called in this phase, and the one  *)
(* that is running, 0 between two of them                                   *)
Frame == [phase : {"capturing", "bubbling"}, left : SUBSET Nat, running : Nat]

Init == added = <<>> /\ present = {} /\ frames = <<>> /\ clicks = 0

Top == frames[Len(frames)]

(* Scripts run in a listener, or while nothing is dispatched                *)
ScriptRuns == IF frames = <<>> THEN TRUE ELSE Top.running # 0

Listed(callback, capture) ==
    {i \in present : added[i].callback = callback /\ added[i].capture = capture}

OfPhase(capture) == {i \in present : added[i].capture = capture}

(* addEventListener *)
Add(callback, capture, once) ==
    /\ ScriptRuns /\ Len(added) < MaxAdded
    /\ IF Listed(callback, capture) # {} THEN UNCHANGED <<added, present>>
       ELSE /\ added' = Append(added, [callback |-> callback, capture |-> capture,
                                       once |-> once])
            /\ present' = present \cup {Len(added) + 1}
    /\ UNCHANGED <<frames, clicks>>

(* removeEventListener *)
Remove(callback, capture) ==
    /\ ScriptRuns
    /\ present' = present \ Listed(callback, capture)
    /\ UNCHANGED <<added, frames, clicks>>

(* The user clicks, or a script calls click() *)
Click ==
    /\ ScriptRuns /\ clicks < MaxClicks /\ Len(frames) < MaxDepth
    /\ clicks' = clicks + 1
    /\ frames' = Append(frames, [phase |-> "capturing", left |-> OfPhase(TRUE),
                                 running |-> 0])
    /\ UNCHANGED <<added, present>>

(* The first listener of the phase that is still listed is called *)
Call(i) ==
    /\ frames # <<>> /\ Top.running = 0
    /\ i \in Top.left \cap present
    /\ \A j \in Top.left \cap present : i <= j
    /\ frames' = [frames EXCEPT ![Len(frames)].running = i,
                                ![Len(frames)].left = @ \ {i}]
    /\ present' = IF added[i].once THEN present \ {i} ELSE present
    /\ UNCHANGED <<added, clicks>>

(* It returns or throws: the dispatch goes on either way *)
Return ==
    /\ frames # <<>> /\ Top.running # 0
    /\ frames' = [frames EXCEPT ![Len(frames)].running = 0]
    /\ UNCHANGED <<added, present, clicks>>

EndPhase ==
    /\ frames # <<>> /\ Top.running = 0 /\ Top.left \cap present = {}
    /\ frames' = IF Top.phase = "capturing"
                 THEN [frames EXCEPT ![Len(frames)].phase = "bubbling",
                                     ![Len(frames)].left = OfPhase(FALSE)]
                 ELSE SubSeq(frames, 1, Len(frames) - 1)
    /\ UNCHANGED <<added, present, clicks>>

Next ==
    \/ \E c \in Callbacks, capture \in BOOLEAN :
          \/ \E once \in BOOLEAN : Add(c, capture, once)
          \/ Remove(c, capture)
    \/ Click
    \/ \E i \in present : Call(i)
    \/ Return
    \/ EndPhase

Spec == Init /\ [][Next]_vars
=============================================================================
