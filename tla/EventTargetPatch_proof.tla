----------------------- MODULE EventTargetPatch_proof -----------------------
(***************************************************************************)
(* The registry of wrappers agrees with the browser's list, and the        *)
(* patched methods implement those of the DOM, for any listeners, any      *)
(* number of clicks and any depth of clicks within clicks.                 *)
(***************************************************************************)
EXTENDS EventTargetPatch, SequenceTheorems, TLAPS

(* The type of the variables the registry depends on *)
ListType ==
    /\ added \in Seq([callback : Callback, capture : BOOLEAN, once : BOOLEAN])
    /\ present \subseteq DOMAIN added
    /\ patched \in BOOLEAN /\ tasks \subseteq Task
    /\ wrappers \in Nat

(* Before the patch there is no task; a listener from before the patch is   *)
(* not listed together with a task for it.  Wrappers are counted from 1.    *)
Apart ==
    /\ ~patched => tasks = {}
    /\ \A t \in tasks : t.wrappingFn # 0
    /\ \A i \in present : \A t \in tasks :
          ~(added[i].callback = [fn |-> t.listenerFn, wrapper |-> 0]
              /\ added[i].capture = t.capture)

IInv == ListType /\ WrapperIsFound /\ Apart

-----------------------------------------------------------------------------
(* Steps that do not change the registry *)

(* Listening in the browser: the list grows at its end or stays (the DOM's  *)
(* addEventListener).                                                       *)
LEMMA AddIs ==
    ASSUME ListType, NEW cb \in Callback, NEW capture \in BOOLEAN,
           NEW once \in BOOLEAN, Browser!Add(cb, capture, once)
    PROVE  LET l == [callback |-> cb, capture |-> capture, once |-> once]
           IN  \/ UNCHANGED <<added, present>>
               \/ /\ added' = Append(added, l)
                  /\ added' \in Seq([callback : Callback, capture : BOOLEAN,
                                     once : BOOLEAN])
                  /\ Len(added') = Len(added) + 1 /\ added'[Len(added) + 1] = l
                  /\ \A i \in DOMAIN added : added'[i] = added[i]
                  /\ present' = present \cup {Len(added) + 1}
                  /\ present' \subseteq DOMAIN added'
<1> DEFINE L == [callback : Callback, capture : BOOLEAN, once : BOOLEAN]
           l == [callback |-> cb, capture |-> capture, once |-> once]
<1>1. CASE Browser!Listed(cb, capture) # {}
  BY <1>1 DEF Browser!Add
<1>2. CASE Browser!Listed(cb, capture) = {}
  <2>1. added' = Append(added, l) /\ present' = present \cup {Len(added) + 1}
    BY <1>2 DEF Browser!Add
  <2>2. added \in Seq(L) /\ l \in L /\ present \subseteq DOMAIN added
    BY DEF ListType
  <2> HIDE DEF L, l
  <2>3. /\ added' \in Seq(L) /\ Len(added') = Len(added) + 1
        /\ added'[Len(added) + 1] = l
        /\ \A i \in DOMAIN added : added'[i] = added[i]
    BY <2>1, <2>2
  <2>4. present' \subseteq DOMAIN added'
    BY <2>1, <2>2, <2>3
  <2> QED BY <2>1, <2>3, <2>4 DEF L, l
<1> QED BY <1>1, <1>2

(* A step that lists nothing more and leaves the registry alone keeps the   *)
(* invariant.                                                               *)
LEMMA FewerKeep ==
    ASSUME IInv, UNCHANGED <<added, tasks, wrappers>>, present' \subseteq present,
           patched' \in BOOLEAN, patched => patched'
    PROVE  IInv'
<1>1. ListType'
  BY DEF IInv, ListType
<1>2. WrapperIsFound'
  BY DEF IInv, WrapperIsFound
<1>3. Apart'
  BY DEF IInv, Apart
<1> QED BY <1>1, <1>2, <1>3 DEF IInv

-----------------------------------------------------------------------------
(* The initial state and the actions *)

LEMMA InitInv == Init => IInv
<1> SUFFICES ASSUME Init PROVE IInv
  OBVIOUS
<1>1. /\ added = <<>> /\ present = {}
      /\ patched = FALSE /\ tasks = {} /\ wrappers = 0
  BY DEF Init, Browser!Init
<1>2. ListType
  <2>1. ASSUME NEW S PROVE <<>> \in Seq(S)
    OBVIOUS
  <2>2. added \in Seq([callback : Callback, capture : BOOLEAN, once : BOOLEAN])
    BY <1>1, <2>1, Zenon
  <2>3. /\ present \subseteq DOMAIN added /\ patched \in BOOLEAN
        /\ tasks \subseteq Task /\ wrappers \in Nat
    BY <1>1
  <2> QED BY <2>2, <2>3 DEF ListType
<1>3. WrapperIsFound
  BY <1>1, Zenon DEF WrapperIsFound
<1>4. Apart
  BY <1>1, Zenon DEF Apart
<1> QED BY <1>2, <1>3, <1>4 DEF IInv

(* A task is determined by its fields. *)
LEMMA TaskIs ==
    ASSUME NEW t \in Task
    PROVE  /\ t = [listenerFn |-> t.listenerFn, capture |-> t.capture,
                   wrappingFn |-> t.wrappingFn]
           /\ t.listenerFn \in Functions /\ t.capture \in BOOLEAN
           /\ t.wrappingFn \in Nat
BY DEF Task

(* Before the patch, and of objects, nothing is wrapped                     *)
(* (event-target-patch.js:177).                                             *)
LEMMA AddNativeStep ==
    ASSUME IInv, NEW fn \in Listeners, NEW capture \in BOOLEAN,
           NEW once \in BOOLEAN, AddNative(fn, capture, once)
    PROVE  IInv'
<1> DEFINE cb == [fn |-> fn, wrapper |-> 0]
           l == [callback |-> cb, capture |-> capture, once |-> once]
<1>1. cb \in Callback /\ Browser!Add(cb, capture, once)
      /\ UNCHANGED <<patched, tasks, wrappers>>
  BY DEF Callback, AddNative
<1>2. \A t \in tasks : t.listenerFn # fn
  BY DEF AddNative, shouldInstrumentEvent, IInv, Apart, ListType, Task
<1>3. CASE UNCHANGED <<added, present>>
  BY <1>1, <1>3, FewerKeep DEF IInv, ListType
<1>4. CASE ~UNCHANGED <<added, present>>
  <2>1. /\ added' \in Seq([callback : Callback, capture : BOOLEAN, once : BOOLEAN])
        /\ Len(added') = Len(added) + 1 /\ added'[Len(added) + 1] = l
        /\ \A i \in DOMAIN added : added'[i] = added[i]
        /\ present' = present \cup {Len(added) + 1}
        /\ present' \subseteq DOMAIN added'
    BY <1>1, <1>4, AddIs DEF IInv
  <2>2. \A i \in present : added'[i] = added[i]
    BY <2>1 DEF IInv, ListType
  <2>3. ListType'
    BY <1>1, <2>1 DEF IInv, ListType
  <2>4. WrapperIsFound'
    BY <1>1, <2>1, <2>2 DEF IInv, WrapperIsFound
  <2>5. Apart'
    BY <1>1, <1>2, <2>1, <2>2 DEF IInv, Apart
  <2> QED BY <2>3, <2>4, <2>5 DEF IInv
<1> QED BY <1>3, <1>4

(* A listener that has a task gets its wrapper again                        *)
(* (event-target-patch.js:107).                                             *)
LEMMA AddAgainStep ==
    ASSUME IInv, NEW fn \in Listeners, NEW capture \in BOOLEAN,
           NEW once \in BOOLEAN, AddAgain(fn, capture, once)
    PROVE  IInv'
<1>1. PICK task \in findTask(fn, capture) :
         Browser!Add([fn |-> fn, wrapper |-> task.wrappingFn], capture, once)
  BY DEF AddAgain
<1> DEFINE cb == [fn |-> fn, wrapper |-> task.wrappingFn]
           l == [callback |-> cb, capture |-> capture, once |-> once]
<1>2. /\ task \in tasks /\ task \in Task /\ task.wrappingFn # 0
      /\ task = [listenerFn |-> fn, capture |-> capture,
                 wrappingFn |-> task.wrappingFn]
  BY TaskIs DEF findTask, IInv, ListType, Apart
<1>3. cb \in Callback /\ UNCHANGED <<patched, tasks, wrappers>>
  BY <1>2, TaskIs DEF Callback, AddAgain
<1>4. CASE UNCHANGED <<added, present>>
  BY <1>3, <1>4, FewerKeep DEF IInv, ListType
<1>5. CASE ~UNCHANGED <<added, present>>
  <2>1. /\ added' \in Seq([callback : Callback, capture : BOOLEAN, once : BOOLEAN])
        /\ Len(added') = Len(added) + 1 /\ added'[Len(added) + 1] = l
        /\ \A i \in DOMAIN added : added'[i] = added[i]
        /\ present' = present \cup {Len(added) + 1}
        /\ present' \subseteq DOMAIN added'
    BY <1>1, <1>3, <1>5, AddIs DEF IInv
  <2>2. \A i \in present : added'[i] = added[i]
    BY <2>1 DEF IInv, ListType
  <2>3. ListType'
    BY <1>3, <2>1 DEF IInv, ListType
  <2>4. WrapperIsFound'
    BY <1>2, <1>3, <2>1, <2>2 DEF IInv, WrapperIsFound
  <2>5. Apart'
    BY <1>2, <1>3, <2>1, <2>2 DEF IInv, Apart
  <2> QED BY <2>3, <2>4, <2>5 DEF IInv
<1> QED BY <1>4, <1>5

(* A new wrapper gets a new task (event-target-patch.js:122). *)
LEMMA AddWrappedStep ==
    ASSUME IInv, NEW fn \in Listeners, NEW capture \in BOOLEAN,
           NEW once \in BOOLEAN, AddWrapped(fn, capture, once)
    PROVE  IInv'
<1> DEFINE w == wrappers + 1
           cb == [fn |-> fn, wrapper |-> w]
           l == [callback |-> cb, capture |-> capture, once |-> once]
           task == [listenerFn |-> fn, capture |-> capture, wrappingFn |-> w]
<1>1. /\ w \in Nat /\ w # 0 /\ cb \in Callback /\ task \in Task
      /\ Browser!Add(cb, capture, once)
      /\ tasks' = tasks \cup {task} /\ wrappers' = w /\ patched' = patched /\ patched
  BY DEF AddWrapped, shouldInstrumentEvent, IInv, ListType, Callback, Task
<1>2. \A t \in tasks : ~(t.listenerFn = fn /\ t.capture = capture)
  BY DEF AddWrapped, findTask
<1>3. \A i \in present : ~(added[i].callback = [fn |-> fn, wrapper |-> 0]
                             /\ added[i].capture = capture)
  BY DEF AddWrapped, ListedUnwrapped, Browser!Listed
<1> HIDE DEF w
<1>4. \A s, t \in tasks' :
         s.listenerFn = t.listenerFn /\ s.capture = t.capture => s = t
  BY <1>1, <1>2 DEF IInv, WrapperIsFound
<1>5. CASE UNCHANGED <<added, present>>
  <2>1. ListType'
    BY <1>1, <1>5 DEF IInv, ListType
  <2>2. WrapperIsFound'
    BY <1>1, <1>4, <1>5 DEF IInv, WrapperIsFound
  <2>3. Apart'
    BY <1>1, <1>3, <1>5 DEF IInv, Apart
  <2> QED BY <2>1, <2>2, <2>3 DEF IInv
<1>6. CASE ~UNCHANGED <<added, present>>
  <2>1. /\ added' \in Seq([callback : Callback, capture : BOOLEAN, once : BOOLEAN])
        /\ Len(added') = Len(added) + 1 /\ added'[Len(added) + 1] = l
        /\ \A i \in DOMAIN added : added'[i] = added[i]
        /\ present' = present \cup {Len(added) + 1}
        /\ present' \subseteq DOMAIN added'
    BY <1>1, <1>6, AddIs DEF IInv
  <2>2. \A i \in present : added'[i] = added[i]
    BY <2>1 DEF IInv, ListType
  <2>3. ListType'
    BY <1>1, <2>1 DEF IInv, ListType
  <2>4. WrapperIsFound'
    BY <1>1, <1>4, <2>1, <2>2 DEF IInv, WrapperIsFound
  <2>5. Apart'
    BY <1>1, <1>3, <2>1, <2>2 DEF IInv, Apart
  <2> QED BY <2>3, <2>4, <2>5 DEF IInv
<1> QED BY <1>5, <1>6

(* A wrapper that is found is taken off the list with its task              *)
(* (event-target-patch.js:147).                                             *)
LEMMA RemoveWrappedStep ==
    ASSUME IInv, NEW fn \in Listeners, NEW capture \in BOOLEAN,
           RemoveWrapped(fn, capture)
    PROVE  IInv'
<1>1. PICK task \in findTask(fn, capture) :
         /\ tasks' = Without(task)
         /\ Browser!Remove([fn |-> fn, wrapper |-> task.wrappingFn], capture)
  BY DEF RemoveWrapped
<1> DEFINE cb == [fn |-> fn, wrapper |-> task.wrappingFn]
<1>2. /\ tasks' = tasks \ {task} /\ added' = added
      /\ present' = present \ {i \in present : added[i].callback = cb
                                               /\ added[i].capture = capture}
      /\ UNCHANGED <<patched, wrappers>>
  BY <1>1 DEF Without, Browser!Remove, Browser!Listed, RemoveWrapped
<1>3. task.listenerFn = fn /\ task.capture = capture
  BY DEF findTask
<1>4. ListType'
  BY <1>2 DEF IInv, ListType
<1>5. WrapperIsFound'
  <2>1. ASSUME NEW i \in present', added[i].callback.wrapper # 0
        PROVE  [listenerFn |-> added[i].callback.fn, capture |-> added[i].capture,
                wrappingFn |-> added[i].callback.wrapper] \in tasks'
    <3> DEFINE t == [listenerFn |-> added[i].callback.fn,
                     capture |-> added[i].capture,
                     wrappingFn |-> added[i].callback.wrapper]
    <3>1. t \in tasks /\ i \in present
      BY <1>2, <2>1 DEF IInv, WrapperIsFound
    <3> DEFINE L == [callback : Callback, capture : BOOLEAN, once : BOOLEAN]
    <3>a. added \in Seq(L) /\ i \in DOMAIN added
      BY <3>1 DEF IInv, ListType
    <3>b. added[i] \in L
      <4> HIDE DEF L
      <4> QED BY <3>a
    <3>2. added[i].callback \in Callback
      BY <3>b
    <3>3. t # task
      BY <1>2, <1>3, <3>1, <3>2 DEF Callback
    <3> QED BY <1>2, <3>1, <3>3
  <2> QED BY <1>2, <2>1 DEF IInv, WrapperIsFound
<1>6. Apart'
  BY <1>2 DEF IInv, Apart
<1> QED BY <1>4, <1>5, <1>6 DEF IInv

(* What the browser does leaves the registry alone and lists nothing more. *)
LEMMA OtherStep ==
    ASSUME IInv,
           \/ patchEventTarget \/ Click \/ EndPhase
           \/ \E i \in present : Call(i)
           \/ \E throws \in BOOLEAN : Return(throws)
           \/ \E fn \in Listeners, capture \in BOOLEAN : RemoveNative(fn, capture)
    PROVE  IInv'
<1>1. UNCHANGED <<added, tasks, wrappers>> /\ present' \subseteq present
  BY DEF patchEventTarget, Click, EndPhase, Call, Return, RemoveNative, native,
         Browser!Click, Browser!EndPhase, Browser!Call, Browser!Return,
         Browser!Remove
<1>2. patched' \in BOOLEAN /\ (patched => patched')
  BY DEF patchEventTarget, Click, EndPhase, Call, Return, RemoveNative, IInv,
         ListType
<1> QED BY <1>1, <1>2, FewerKeep

-----------------------------------------------------------------------------
(* Theorems *)

LEMMA NextKeepsInv ==
    ASSUME IInv, [Next]_vars
    PROVE  IInv'
<1>1. ASSUME NEW fn \in Listeners, NEW capture \in BOOLEAN, NEW once \in BOOLEAN,
             \/ AddNative(fn, capture, once)
             \/ AddAgain(fn, capture, once)
             \/ AddWrapped(fn, capture, once)
      PROVE  IInv'
  BY <1>1, AddNativeStep, AddAgainStep, AddWrappedStep
<1>2. ASSUME NEW fn \in Listeners, NEW capture \in BOOLEAN,
             RemoveWrapped(fn, capture)
      PROVE  IInv'
  BY <1>2, RemoveWrappedStep
<1>3. CASE UNCHANGED vars
  BY <1>3, FewerKeep DEF vars, IInv, ListType
<1> QED BY <1>1, <1>2, <1>3, OtherStep DEF Next

(* The invariant the other theorems rest on. *)
THEOREM Invariance == Spec => []IInv
<1>1. IInv /\ [Next]_vars => IInv'
  BY NextKeepsInv
<1> QED BY InitInv, <1>1, PTL DEF Spec

(* A listed wrapper is found under its listener and phase, which have one   *)
(* task (event-target-patch.js:98, 147).                                    *)
THEOREM WrapperIsFoundHolds == Spec => []WrapperIsFound
<1>1. IInv => WrapperIsFound
  BY DEF IInv
<1> QED BY <1>1, Invariance, PTL

-----------------------------------------------------------------------------
(* The refinement *)

BrowserListener == [callback : Callback, capture : BOOLEAN, once : BOOLEAN]
PageListener == [callback : Listeners, capture : BOOLEAN, once : BOOLEAN]

(* What the page sees of a list of the browser's *)
Seen(list) == [i \in DOMAIN list |-> [list[i] EXCEPT !.callback = @.fn]]

(* The page sees one listener for each of the browser's. *)
LEMMA SeenIs ==
    ASSUME NEW list \in Seq(BrowserListener)
    PROVE  /\ Seen(list) \in Seq(PageListener)
           /\ Len(Seen(list)) = Len(list)
           /\ \A i \in 1..Len(list) :
                 Seen(list)[i] = [callback |-> list[i].callback.fn,
                                  capture |-> list[i].capture,
                                  once |-> list[i].once]
<1> DEFINE n == Len(list)
<1>1. n \in Nat /\ DOMAIN list = 1..n
  BY LenProperties
<1>2. \A i \in 1..n : list[i] \in BrowserListener
  BY ElementOfSeq
<1>3. ASSUME NEW l \in BrowserListener
      PROVE  /\ [l EXCEPT !.callback = @.fn]
                  = [callback |-> l.callback.fn, capture |-> l.capture, once |-> l.once]
             /\ [l EXCEPT !.callback = @.fn] \in PageListener
  <2>1. /\ l = [callback |-> l.callback, capture |-> l.capture, once |-> l.once]
        /\ l.capture \in BOOLEAN /\ l.once \in BOOLEAN /\ l.callback \in Callback
    BY DEF BrowserListener
  <2>2. l.callback.fn \in Listeners
    BY <2>1 DEF Callback
  <2>3. [l EXCEPT !.callback = @.fn]
          = [callback |-> l.callback.fn, capture |-> l.capture, once |-> l.once]
    BY <2>1
  <2> QED BY <2>1, <2>2, <2>3 DEF PageListener
<1>4. Seen(list) \in [1..n -> PageListener]
  BY <1>1, <1>2, <1>3 DEF Seen
<1>5. Seen(list) \in Seq(PageListener)
  BY <1>1, <1>4, SeqDef
<1>6. Len(Seen(list)) = n
  BY <1>1, <1>4, <1>5, LenProperties
<1>7. \A i \in 1..n : Seen(list)[i] = [list[i] EXCEPT !.callback = @.fn]
  BY <1>1 DEF Seen
<1> QED BY <1>2, <1>3, <1>5, <1>6, <1>7

(* What the page sees of a list that grows, grows. *)
LEMMA SeenAppend ==
    ASSUME NEW list \in Seq(BrowserListener), NEW l \in BrowserListener
    PROVE  Seen(Append(list, l))
             = Append(Seen(list), [callback |-> l.callback.fn, capture |-> l.capture,
                                   once |-> l.once])
<1> DEFINE p == [callback |-> l.callback.fn, capture |-> l.capture, once |-> l.once]
           a == Append(list, l)
           b == Append(Seen(list), p)
<1>1. p \in PageListener
  BY DEF BrowserListener, PageListener, Callback
<1>2. /\ a \in Seq(BrowserListener) /\ Len(a) = Len(list) + 1 /\ Len(list) \in Nat
      /\ a[Len(list) + 1] = l /\ \A i \in 1..Len(list) : a[i] = list[i]
  OBVIOUS
<1>3. Seen(list) \in Seq(PageListener) /\ Len(Seen(list)) = Len(list)
  BY SeenIs
<1> HIDE DEF p, a
<1>4. /\ b \in Seq(PageListener) /\ Len(b) = Len(list) + 1
      /\ b[Len(list) + 1] = p /\ \A i \in 1..Len(list) : b[i] = Seen(list)[i]
  BY <1>1, <1>3
<1> HIDE DEF b
<1>5. Seen(a) \in Seq(PageListener) /\ Len(Seen(a)) = Len(list) + 1
  BY <1>2, SeenIs
<1>6. ASSUME NEW i \in 1..(Len(list) + 1) PROVE Seen(a)[i] = b[i]
  <2>1. Seen(a)[i] = [callback |-> a[i].callback.fn, capture |-> a[i].capture,
                      once |-> a[i].once]
    BY <1>2, SeenIs
  <2>2. CASE i = Len(list) + 1
    BY <1>2, <1>4, <2>1, <2>2 DEF p
  <2>3. CASE i # Len(list) + 1
    <3>1. i \in 1..Len(list)
      BY <1>2, <2>3
    <3>2. Seen(list)[i] = [callback |-> list[i].callback.fn,
                           capture |-> list[i].capture, once |-> list[i].once]
      BY <3>1, SeenIs
    <3> QED BY <1>2, <1>4, <2>1, <3>1, <3>2
  <2> QED BY <2>2, <2>3
<1>7. Seen(a) = b
  BY <1>4, <1>5, <1>6, SeqEqual
<1> QED BY <1>7 DEF a, b, p

(* The page's list is what it sees of the browser's. *)
LEMMA UnwrappedIs == Unwrapped = Seen(added)
BY DEF Unwrapped, Seen

(* What the page sees, in one state *)
LEMMA PageSees ==
    IInv =>
      /\ added \in Seq(BrowserListener) /\ Len(added) \in Nat
      /\ Unwrapped \in Seq(PageListener) /\ Len(Unwrapped) = Len(added)
      /\ \A i \in present : /\ i \in 1..Len(added)
                            /\ Unwrapped[i].callback = added[i].callback.fn
                            /\ Unwrapped[i].capture = added[i].capture
                            /\ Unwrapped[i].once = added[i].once
                            /\ added[i].callback \in Callback
<1> SUFFICES ASSUME IInv PROVE
      /\ added \in Seq(BrowserListener) /\ Len(added) \in Nat
      /\ Unwrapped \in Seq(PageListener) /\ Len(Unwrapped) = Len(added)
      /\ \A i \in present : /\ i \in 1..Len(added)
                            /\ Unwrapped[i].callback = added[i].callback.fn
                            /\ Unwrapped[i].capture = added[i].capture
                            /\ Unwrapped[i].once = added[i].once
                            /\ added[i].callback \in Callback
  OBVIOUS
<1>1. added \in Seq(BrowserListener) /\ present \subseteq DOMAIN added
  BY DEF IInv, ListType, BrowserListener
<1>2. /\ Unwrapped \in Seq(PageListener) /\ Len(Unwrapped) = Len(added)
      /\ \A i \in 1..Len(added) :
            Unwrapped[i] = [callback |-> added[i].callback.fn,
                            capture |-> added[i].capture, once |-> added[i].once]
  BY <1>1, SeenIs, UnwrappedIs
<1>3. Len(added) \in Nat /\ DOMAIN added = 1..Len(added)
  BY <1>1, LenProperties
<1>4. \A i \in 1..Len(added) : added[i] \in BrowserListener
  BY <1>1, ElementOfSeq
<1>5. \A i \in present : i \in 1..Len(added)
  BY <1>1, <1>3
<1>6. ASSUME NEW i \in present
      PROVE  /\ i \in 1..Len(added)
             /\ Unwrapped[i].callback = added[i].callback.fn
             /\ Unwrapped[i].capture = added[i].capture
             /\ Unwrapped[i].once = added[i].once
             /\ added[i].callback \in Callback
  <2>1. i \in 1..Len(added) /\ added[i] \in BrowserListener
    BY <1>4, <1>5
  <2>2. Unwrapped[i] = [callback |-> added[i].callback.fn,
                        capture |-> added[i].capture, once |-> added[i].once]
    BY <1>2, <2>1
  <2> HIDE DEF Unwrapped
  <2> QED BY <2>1, <2>2 DEF BrowserListener
<1> HIDE DEF Unwrapped, IInv
<1> QED BY <1>1, <1>2, <1>3, <1>6

(* Where a listener and phase are listed under one callback only, the page  *)
(* and the browser list the same.                                           *)
LEMMA SameListed ==
    ASSUME IInv, NEW fn \in Listeners, NEW capture \in BOOLEAN, NEW w \in Nat,
           \A i \in present :
              added[i].callback.fn = fn /\ added[i].capture = capture
                => added[i].callback.wrapper = w
    PROVE  Browser!Listed([fn |-> fn, wrapper |-> w], capture)
             = Page!Listed(fn, capture)
<1>1. \A i \in present :
        /\ Unwrapped[i].callback = added[i].callback.fn
        /\ Unwrapped[i].capture = added[i].capture
        /\ added[i].callback \in Callback
  BY PageSees
<1>2. \A i \in present :
        added[i].callback = [fn |-> added[i].callback.fn,
                             wrapper |-> added[i].callback.wrapper]
  BY <1>1 DEF Callback
<1>3. \A i \in present :
        (added[i].callback = [fn |-> fn, wrapper |-> w] /\ added[i].capture = capture)
          <=> (Unwrapped[i].callback = fn /\ Unwrapped[i].capture = capture)
  BY <1>1, <1>2
<1> QED BY <1>3 DEF Browser!Listed, Page!Listed

(* A listener without a task is listed as it is. *)
LEMMA NoTask ==
    ASSUME IInv, NEW fn, NEW capture,
           shouldInstrumentEvent(fn) => findTask(fn, capture) = {},
           NEW i \in present, added[i].callback.fn = fn, added[i].capture = capture
    PROVE  added[i].callback.wrapper = 0
<1> SUFFICES ASSUME added[i].callback.wrapper # 0 PROVE FALSE
  OBVIOUS
<1> DEFINE t == [listenerFn |-> fn, capture |-> capture,
                 wrappingFn |-> added[i].callback.wrapper]
<1>1. t \in tasks
  BY DEF IInv, WrapperIsFound
<1>2. t \in Task /\ patched
  BY <1>1 DEF IInv, ListType, Apart
<1>3. fn \in Functions
  BY <1>2 DEF Task
<1>4. t \in findTask(fn, capture)
  BY <1>1 DEF findTask
<1> QED BY <1>2, <1>3, <1>4 DEF shouldInstrumentEvent

(* A listener with a task is listed under its wrapper. *)
LEMMA WithTask ==
    ASSUME IInv, NEW fn, NEW capture, NEW task \in findTask(fn, capture),
           NEW i \in present, added[i].callback.fn = fn, added[i].capture = capture
    PROVE  added[i].callback.wrapper = task.wrappingFn
<1> DEFINE t == [listenerFn |-> fn, capture |-> capture,
                 wrappingFn |-> added[i].callback.wrapper]
<1>1. task \in tasks /\ task.listenerFn = fn /\ task.capture = capture
  BY DEF findTask
<1>2. added[i].callback.wrapper # 0
  <2>1. added[i].callback \in Callback
    BY PageSees
  <2>2. added[i].callback # [fn |-> fn, wrapper |-> 0]
    BY <1>1 DEF IInv, Apart
  <2> QED BY <2>1, <2>2 DEF Callback
<1>3. t \in tasks
  BY <1>2 DEF IInv, WrapperIsFound
<1>4. t = task
  BY <1>1, <1>3 DEF IInv, WrapperIsFound
<1> QED BY <1>4

(* The browser's addEventListener is the page's. *)
LEMMA AddRefines ==
    ASSUME IInv, NEW fn \in Listeners, NEW capture \in BOOLEAN, NEW once \in BOOLEAN,
           NEW w \in Nat, Browser!Add([fn |-> fn, wrapper |-> w], capture, once),
           Browser!Listed([fn |-> fn, wrapper |-> w], capture)
             = Page!Listed(fn, capture)
    PROVE  Page!Add(fn, capture, once)
<1> DEFINE cb == [fn |-> fn, wrapper |-> w]
           l == [callback |-> cb, capture |-> capture, once |-> once]
           p == [callback |-> fn, capture |-> capture, once |-> once]
<1>1. /\ Page!ScriptRuns /\ Len(Unwrapped) < MaxAdded
      /\ UNCHANGED <<frames, clicks>>
  BY PageSees DEF Browser!Add, Browser!ScriptRuns, Page!ScriptRuns, Browser!Top,
     Page!Top
<1>2. CASE Page!Listed(fn, capture) # {}
  <2>1. added' = added /\ present' = present
    BY <1>2 DEF Browser!Add
  <2>2. Unwrapped' = Unwrapped
    BY <2>1 DEF Unwrapped
  <2> QED BY <1>1, <1>2, <2>1, <2>2 DEF Page!Add
<1>3. CASE Page!Listed(fn, capture) = {}
  <2>1. added' = Append(added, l) /\ present' = present \cup {Len(added) + 1}
    BY <1>3 DEF Browser!Add
  <2>2. l \in BrowserListener /\ l.callback.fn = fn
    BY DEF BrowserListener, Callback
  <2>3. Unwrapped' = Seen(added')
    BY DEF Unwrapped, Seen
  <2> HIDE DEF l
  <2>4. Seen(Append(added, l))
          = Append(Seen(added), [callback |-> l.callback.fn, capture |-> l.capture,
                                 once |-> l.once])
    BY <2>2, PageSees, SeenAppend
  <2>5. [callback |-> l.callback.fn, capture |-> l.capture, once |-> l.once] = p
    BY DEF l
  <2>6. Unwrapped' = Append(Unwrapped, p)
    BY <2>1, <2>3, <2>4, <2>5, UnwrappedIs
  <2>7. present' = present \cup {Len(Unwrapped) + 1}
    BY <2>1, PageSees
  <2> QED BY <1>1, <1>3, <2>6, <2>7 DEF Page!Add
<1> QED BY <1>2, <1>3

(* So is its removeEventListener. *)
LEMMA RemoveRefines ==
    ASSUME IInv, NEW fn \in Listeners, NEW capture \in BOOLEAN, NEW w \in Nat,
           Browser!Remove([fn |-> fn, wrapper |-> w], capture),
           Browser!Listed([fn |-> fn, wrapper |-> w], capture)
             = Page!Listed(fn, capture)
    PROVE  Page!Remove(fn, capture)
<1>1. Page!ScriptRuns /\ UNCHANGED <<added, frames, clicks>>
  BY DEF Browser!Remove, Browser!ScriptRuns, Page!ScriptRuns, Browser!Top, Page!Top
<1>2. Unwrapped' = Unwrapped
  BY <1>1 DEF Unwrapped
<1> QED BY <1>1, <1>2 DEF Browser!Remove, Page!Remove

(* A step of the browser that leaves the list of the added alone is the     *)
(* page's: the page's listeners have the phase and the "once" of their      *)
(* wrappers.                                                                *)
LEMMA DispatchRefines ==
    ASSUME IInv,
           \/ Browser!Click \/ Browser!Return \/ Browser!EndPhase
           \/ \E i \in present : Browser!Call(i)
    PROVE  Page!Next
<1>1. added' = added
  BY DEF Browser!Click, Browser!Return, Browser!EndPhase, Browser!Call
<1>2. Unwrapped' = Unwrapped
  BY <1>1 DEF Unwrapped
<1>3. \A i \in present : /\ Unwrapped[i].capture = added[i].capture
                         /\ Unwrapped[i].once = added[i].once
  BY PageSees
<1>4. Page!ScriptRuns = Browser!ScriptRuns /\ Page!Top = Browser!Top
  BY DEF Page!ScriptRuns, Browser!ScriptRuns, Page!Top, Browser!Top
<1>5. /\ Page!OfPhase(TRUE) = Browser!OfPhase(TRUE)
      /\ Page!OfPhase(FALSE) = Browser!OfPhase(FALSE)
  BY <1>3 DEF Page!OfPhase, Browser!OfPhase
<1> HIDE DEF Unwrapped
<1>6. CASE Browser!Click
  BY <1>2, <1>4, <1>5, <1>6 DEF Browser!Click, Page!Click, Page!Next
<1>7. CASE Browser!Return
  BY <1>2, <1>4, <1>7 DEF Browser!Return, Page!Return, Page!Next
<1>8. CASE Browser!EndPhase
  BY <1>2, <1>4, <1>5, <1>8 DEF Browser!EndPhase, Page!EndPhase, Page!Next
<1>9. ASSUME NEW i \in present, Browser!Call(i) PROVE Page!Call(i)
  BY <1>2, <1>3, <1>4, <1>9 DEF Browser!Call, Page!Call
<1>10. CASE \E i \in present : Browser!Call(i)
  BY <1>9, <1>10 DEF Page!Next
<1> QED BY <1>6, <1>7, <1>8, <1>10

(* Every step of the patched element is one of a plain element, or none.    *)
LEMMA StepRefines ==
    ASSUME IInv, [Next]_vars
    PROVE  [Page!Next]_(Page!vars)
<1>1. ASSUME NEW fn \in Listeners, NEW capture \in BOOLEAN, NEW once \in BOOLEAN,
             AddNative(fn, capture, once)
      PROVE  Page!Add(fn, capture, once)
  <2>1. shouldInstrumentEvent(fn) => findTask(fn, capture) = {}
    BY <1>1 DEF AddNative
  <2>2. \A i \in present : added[i].callback.fn = fn /\ added[i].capture = capture
                             => added[i].callback.wrapper = 0
    BY <2>1, NoTask
  <2> QED BY <1>1, <2>2, SameListed, AddRefines DEF AddNative
<1>2. ASSUME NEW fn \in Listeners, NEW capture \in BOOLEAN, NEW once \in BOOLEAN,
             AddAgain(fn, capture, once)
      PROVE  Page!Add(fn, capture, once)
  <2>1. PICK task \in findTask(fn, capture) :
           Browser!Add([fn |-> fn, wrapper |-> task.wrappingFn], capture, once)
    BY <1>2 DEF AddAgain
  <2>2. task.wrappingFn \in Nat
    BY TaskIs DEF findTask, IInv, ListType
  <2>3. \A i \in present : added[i].callback.fn = fn /\ added[i].capture = capture
                             => added[i].callback.wrapper = task.wrappingFn
    BY WithTask
  <2> QED BY <2>1, <2>2, <2>3, SameListed, AddRefines
<1>3. ASSUME NEW fn \in Listeners, NEW capture \in BOOLEAN, NEW once \in BOOLEAN,
             AddWrapped(fn, capture, once)
      PROVE  Page!Add(fn, capture, once)
  <2>1. /\ findTask(fn, capture) = {} /\ ~ListedUnwrapped(fn, capture)
        /\ Browser!Add([fn |-> fn, wrapper |-> wrappers + 1], capture, once)
    BY <1>3 DEF AddWrapped
  <2>2. \A i \in present : added[i].callback.fn = fn /\ added[i].capture = capture
                             => added[i].callback.wrapper = 0
    BY <2>1, NoTask
  <2>3. \A i \in present : added[i].callback \in Callback
    BY PageSees
  <2>4. \A i \in present : ~(added[i].callback.fn = fn /\ added[i].capture = capture)
    BY <2>1, <2>2, <2>3 DEF ListedUnwrapped, Browser!Listed, Callback
  <2>5. wrappers + 1 \in Nat
    BY DEF IInv, ListType
  <2> QED BY <2>1, <2>4, <2>5, SameListed, AddRefines
<1>4. ASSUME NEW fn \in Listeners, NEW capture \in BOOLEAN, RemoveNative(fn, capture)
      PROVE  Page!Remove(fn, capture)
  <2>1. \A i \in present : added[i].callback.fn = fn /\ added[i].capture = capture
                             => added[i].callback.wrapper = 0
    BY <1>4, NoTask DEF RemoveNative
  <2> QED BY <1>4, <2>1, SameListed, RemoveRefines DEF RemoveNative
<1>5. ASSUME NEW fn \in Listeners, NEW capture \in BOOLEAN, RemoveWrapped(fn, capture)
      PROVE  Page!Remove(fn, capture)
  <2>1. PICK task \in findTask(fn, capture) :
           Browser!Remove([fn |-> fn, wrapper |-> task.wrappingFn], capture)
    BY <1>5 DEF RemoveWrapped
  <2>2. task.wrappingFn \in Nat
    BY TaskIs DEF findTask, IInv, ListType
  <2>3. \A i \in present : added[i].callback.fn = fn /\ added[i].capture = capture
                             => added[i].callback.wrapper = task.wrappingFn
    BY WithTask
  <2> QED BY <2>1, <2>2, <2>3, SameListed, RemoveRefines
<1>6. ASSUME NEW fn \in Listeners, NEW capture \in BOOLEAN,
             \/ \E once \in BOOLEAN : \/ AddNative(fn, capture, once)
                                      \/ AddAgain(fn, capture, once)
                                      \/ AddWrapped(fn, capture, once)
             \/ RemoveNative(fn, capture)
             \/ RemoveWrapped(fn, capture)
      PROVE  Page!Next
  BY <1>1, <1>2, <1>3, <1>4, <1>5, <1>6 DEF Page!Next
<1>7. CASE \/ Click \/ EndPhase
           \/ \E i \in present : Call(i)
           \/ \E throws \in BOOLEAN : Return(throws)
  BY <1>7, DispatchRefines DEF Click, EndPhase, Call, Return
<1>8. CASE patchEventTarget \/ UNCHANGED vars
  <2>1. UNCHANGED <<added, present, frames, clicks>>
    BY <1>8 DEF patchEventTarget, native, vars
  <2>2. Unwrapped' = Unwrapped
    BY <2>1 DEF Unwrapped
  <2> QED BY <2>1, <2>2 DEF Page!vars
<1> QED BY <1>6, <1>7, <1>8 DEF Next

(* The page cannot tell the patched methods from the browser's              *)
(* (event-target-patch.js:164, 196).                                        *)
THEOREM ImplementsEventTargetHolds == Spec => ImplementsEventTarget
<1>1. Init => Page!Init
  <2> SUFFICES ASSUME Init PROVE Page!Init
    OBVIOUS
  <2>1. added = <<>> /\ present = {} /\ frames = <<>> /\ clicks = 0
    BY DEF Init, Browser!Init
  <2>2. Unwrapped \in Seq(PageListener) /\ Len(Unwrapped) = Len(<<>>)
    BY <2>1, InitInv, PageSees
  <2>3. Unwrapped = <<>>
    BY <2>2, EmptySeq
  <2> QED BY <2>1, <2>3 DEF Page!Init
<1>2. IInv /\ [Next]_vars => [Page!Next]_(Page!vars)
  BY StepRefines
<1> QED BY <1>1, <1>2, Invariance, PTL DEF Spec, Page!Spec, ImplementsEventTarget

-----------------------------------------------------------------------------
(* Types, and the tasks that are pending *)

BrowserFrame == [phase : {"capturing", "bubbling"}, left : SUBSET Nat, running : Nat]

DispatchType ==
    /\ frames \in Seq(BrowserFrame) /\ clicks \in Nat
    /\ pending \in Seq(Nat)
    /\ \A i \in DOMAIN frames : frames[i].running \in 0..Len(added)

DInv == IInv /\ DispatchType /\ PendingIsRunning

(* The dispatches under way run the wrappers they ran, or none              *)
SameWrapped ==
    Wrapped' = Wrapped /\ \A i \in Wrapped : WrapperAt(i)' = WrapperAt(i)

LEMMA PendingStays ==
    ASSUME PendingIsRunning, SameWrapped, pending' = pending
    PROVE  PendingIsRunning'
<1>1. PICK depth \in [DOMAIN pending -> Wrapped] :
        /\ \A k, l \in DOMAIN pending : k < l => depth[k] < depth[l]
        /\ \A i \in Wrapped : \E k \in DOMAIN pending : depth[k] = i
        /\ \A k \in DOMAIN pending : pending[k] = WrapperAt(depth[k])
  BY DEF PendingIsRunning
<1>2. PICK W : W = Wrapped
  OBVIOUS
<1>3. Wrapped' = W /\ \A i \in W : WrapperAt(i)' = WrapperAt(i)
  BY <1>2 DEF SameWrapped
<1>4. \A k \in DOMAIN pending : pending[k] = WrapperAt(depth[k])'
  BY <1>1, <1>2, <1>3
<1> QED BY <1>1, <1>2, <1>3, <1>4 DEF PendingIsRunning

(* Listeners are added at the end of the list, the dispatches stay as they  *)
(* are.                                                                     *)
LEMMA ListenStep ==
    ASSUME IInv, DispatchType, UNCHANGED <<frames, clicks, pending>>,
           Len(added') \in Nat, Len(added) <= Len(added'),
           \A i \in DOMAIN added : added'[i] = added[i]
    PROVE  DispatchType' /\ SameWrapped
<1>1. Len(added) \in Nat /\ DOMAIN added = 1..Len(added)
  BY DEF IInv, ListType
<1>2. \A i \in DOMAIN frames : frames[i].running = 0 \/ frames[i].running \in DOMAIN added
  BY <1>1 DEF DispatchType
<1>3. DispatchType'
  BY <1>1 DEF DispatchType
<1>4. \A i \in DOMAIN frames : WrapperAt(i)' = WrapperAt(i)
  BY <1>2 DEF WrapperAt
<1> QED BY <1>3, <1>4 DEF SameWrapped, Wrapped

(* The innermost dispatch changes, and may run another listener             *)
TopRuns(r) ==
    /\ frames # <<>> /\ frames' \in Seq(BrowserFrame) /\ Len(frames') = Len(frames)
    /\ \A j \in 1..(Len(frames) - 1) : frames'[j] = frames[j]
    /\ frames'[Len(frames)].running = r

LEMMA FramesAre ==
    ASSUME DispatchType
    PROVE  /\ Len(frames) \in Nat /\ DOMAIN frames = 1..Len(frames)
           /\ frames # <<>> => /\ Len(frames) \in DOMAIN frames
                               /\ Browser!Top = frames[Len(frames)]
                               /\ Browser!Top \in BrowserFrame
           /\ \A j \in DOMAIN frames : frames[j] \in BrowserFrame
BY DEF DispatchType, Browser!Top

LEMMA FrameIs ==
    ASSUME NEW g \in BrowserFrame
    PROVE  /\ \A r \in Nat : /\ [g EXCEPT !.running = r] \in BrowserFrame
                            /\ [g EXCEPT !.running = r].running = r
           /\ \A r \in Nat : LET f == [g EXCEPT !.running = r, !.left = @ \ {r}]
                            IN  f \in BrowserFrame /\ f.running = r
BY DEF BrowserFrame

LEMMA ReturnTop ==
    ASSUME IInv, DispatchType, Browser!Return
    PROVE  TopRuns(0) /\ UNCHANGED <<added, clicks>>
<1>1. frames \in Seq(BrowserFrame) /\ frames # <<>>
  BY DEF DispatchType, Browser!Return
<1>2. PICK n : n = Len(frames)
  OBVIOUS
<1>3. n \in 1..Len(frames) /\ frames' = [frames EXCEPT ![n].running = 0]
  BY <1>1, <1>2 DEF Browser!Return
<1>4. [frames[n] EXCEPT !.running = 0] \in BrowserFrame
      /\ [frames[n] EXCEPT !.running = 0].running = 0
  <2>1. PICK g \in BrowserFrame : g = frames[n]
    BY <1>1, <1>3
  <2>2. PICK r \in Nat : r = 0
    OBVIOUS
  <2>3. [g EXCEPT !.running = r] \in BrowserFrame /\ [g EXCEPT !.running = r].running = r
    BY FrameIs
  <2> QED BY <2>1, <2>2, <2>3
<1>5. frames' \in Seq(BrowserFrame) /\ Len(frames') = Len(frames)
      /\ frames'[n] = [frames[n] EXCEPT !.running = 0]
      /\ \A j \in 1..(n - 1) : frames'[j] = frames[j]
  <2> HIDE DEF BrowserFrame
  <2> QED BY <1>1, <1>2, <1>3, <1>4
<1> QED BY <1>1, <1>2, <1>4, <1>5 DEF TopRuns, Browser!Return

LEMMA CallTop ==
    ASSUME IInv, DispatchType, NEW i \in present, Browser!Call(i)
    PROVE  TopRuns(i) /\ i \in 1..Len(added) /\ UNCHANGED <<added, clicks>>
<1>1. frames \in Seq(BrowserFrame) /\ frames # <<>>
  BY DEF DispatchType, Browser!Call
<1>2. PICK n : n = Len(frames)
  OBVIOUS
<1> DEFINE f == [frames[n] EXCEPT !.running = i, !.left = @ \ {i}]
<1>3. i \in Nat /\ i \in 1..Len(added)
  BY DEF IInv, ListType
<1>4. n \in 1..Len(frames)
      /\ frames' = [frames EXCEPT ![n].running = i, ![n].left = @ \ {i}]
  BY <1>1, <1>2 DEF Browser!Call
<1>5. f \in BrowserFrame /\ f.running = i
  <2>1. PICK g \in BrowserFrame : g = frames[n]
    BY <1>1, <1>4
  <2>2. /\ [g EXCEPT !.running = i, !.left = @ \ {i}] \in BrowserFrame
        /\ [g EXCEPT !.running = i, !.left = @ \ {i}].running = i
    BY <1>3, FrameIs
  <2> QED BY <2>1, <2>2
<1>6. frames' = [frames EXCEPT ![n] = f]
  BY <1>1, <1>4 DEF BrowserFrame
<1>7. frames' \in Seq(BrowserFrame) /\ Len(frames') = Len(frames)
      /\ frames'[n] = f
      /\ \A j \in 1..(n - 1) : frames'[j] = frames[j]
  <2>1. n \in 1..Len(frames)
    BY <1>4
  <2> HIDE DEF f
  <2> QED BY <1>1, <1>2, <1>5, <1>6, <2>1
<1> QED BY <1>1, <1>2, <1>3, <1>5, <1>7 DEF TopRuns, Browser!Call

LEMMA TopWrapped ==
    ASSUME IInv, DispatchType, UNCHANGED <<added, clicks>>,
           NEW r \in 0..Len(added), TopRuns(r), pending' \in Seq(Nat)
    PROVE  /\ DispatchType'
           /\ DOMAIN frames' = DOMAIN frames /\ Len(frames) \in DOMAIN frames
           /\ \A j \in DOMAIN frames \ {Len(frames)} :
                 j < Len(frames) /\ WrapperAt(j)' = WrapperAt(j)
           /\ WrapperAt(Len(frames))' = IF r = 0 THEN 0 ELSE added[r].callback.wrapper
<1>1. PICK n : n = Len(frames)
  OBVIOUS
<1>2. /\ n \in Nat \ {0} /\ DOMAIN frames = 1..n /\ DOMAIN frames' = 1..n
      /\ \A j \in 1..n : j # n => j \in 1..(n - 1) /\ j < n
      /\ \A j \in 1..(n - 1) : frames'[j] = frames[j]
      /\ frames'[n].running = r
  BY <1>1, FramesAre DEF TopRuns
<1>3. DispatchType'
  <2>1. \A j \in 1..n : frames'[j].running \in 0..Len(added)
    BY <1>2 DEF DispatchType
  <2> QED BY <1>2, <2>1 DEF DispatchType, TopRuns
<1>4. \A j \in 1..n : j # n => WrapperAt(j)' = WrapperAt(j)
  BY <1>2 DEF WrapperAt
<1>5. WrapperAt(n)' = IF r = 0 THEN 0 ELSE added[r].callback.wrapper
  BY <1>2 DEF WrapperAt
<1> QED BY <1>1, <1>2, <1>3, <1>4, <1>5

(* A wrapper that is called is the last one pending                         *)
(* (event-target-patch.js:60).                                              *)
LEMMA PendingCalled ==
    ASSUME PendingIsRunning, pending \in Seq(Nat),
           NEW n \in Nat, NEW w \in Nat \ {0}, Wrapped \subseteq 1..(n - 1),
           Wrapped' = Wrapped \cup {n},
           \A i \in Wrapped : WrapperAt(i)' = WrapperAt(i),
           WrapperAt(n)' = w,
           pending' = Append(pending, w)
    PROVE  PendingIsRunning'
<1>1. PICK depth \in [DOMAIN pending -> Wrapped] :
        /\ \A k, l \in DOMAIN pending : k < l => depth[k] < depth[l]
        /\ \A i \in Wrapped : \E k \in DOMAIN pending : depth[k] = i
        /\ \A k \in DOMAIN pending : pending[k] = WrapperAt(depth[k])
  BY DEF PendingIsRunning
<1>2. PICK W, m : W = Wrapped /\ m = Len(pending)
  OBVIOUS
<1>3. /\ m \in Nat /\ DOMAIN pending = 1..m /\ DOMAIN pending' = 1..(m + 1)
      /\ \A k \in 1..m : pending'[k] = pending[k]
      /\ pending'[m + 1] = w
  BY <1>2
<1> DEFINE d == [k \in 1..(m + 1) |-> IF k = m + 1 THEN n ELSE depth[k]]
<1>4. \A k \in 1..(m + 1) : k # m + 1 => k \in 1..m
  BY <1>3
<1>5. /\ \A k \in 1..m : /\ depth[k] \in W /\ depth[k] \in 1..(n - 1)
                         /\ WrapperAt(depth[k])' = pending[k]
      /\ Wrapped' = W \cup {n}
  BY <1>1, <1>2, <1>3
<1>6. d \in [1..(m + 1) -> W \cup {n}]
  BY <1>4, <1>5
<1>7. \A k, l \in 1..(m + 1) : k < l => d[k] < d[l]
  <2> SUFFICES ASSUME NEW k \in 1..(m + 1), NEW l \in 1..(m + 1), k < l
               PROVE  d[k] < d[l]
    OBVIOUS
  <2>1. k \in 1..m /\ d[k] = depth[k]
    BY <1>3
  <2>2. CASE l = m + 1
    BY <1>5, <2>1, <2>2
  <2>3. CASE l # m + 1
    BY <1>1, <1>3, <1>4, <2>1, <2>3
  <2> QED BY <2>2, <2>3
<1>8. \A i \in W \cup {n} : \E k \in 1..(m + 1) : d[k] = i
  <2>1. d[m + 1] = n /\ m + 1 \in 1..(m + 1)
    BY <1>3
  <2>2. ASSUME NEW i \in W PROVE \E k \in 1..(m + 1) : d[k] = i
    <3>1. PICK k \in 1..m : depth[k] = i
      BY <1>1, <1>2, <1>3
    <3>2. k \in 1..(m + 1) /\ d[k] = i
      BY <1>3, <3>1
    <3> QED BY <3>2
  <2> QED BY <2>1, <2>2
<1>9. \A k \in 1..(m + 1) : pending'[k] = WrapperAt(d[k])'
  <2>1. ASSUME NEW k \in 1..m PROVE pending'[k] = WrapperAt(depth[k])'
    BY <1>3, <1>5
  <2>2. \A k \in 1..m : d[k] = depth[k]
    BY <1>3
  <2>3. d[m + 1] = n
    BY <1>3
  <2> HIDE DEF d
  <2> QED BY <1>3, <1>4, <2>1, <2>2, <2>3
<1>10. PICK e : /\ e \in [1..(m + 1) -> W \cup {n}]
                /\ \A k, l \in 1..(m + 1) : k < l => e[k] < e[l]
                /\ \A i \in W \cup {n} : \E k \in 1..(m + 1) : e[k] = i
                /\ \A k \in 1..(m + 1) : pending'[k] = WrapperAt(e[k])'
  <2> HIDE DEF d
  <2> QED BY <1>6, <1>7, <1>8, <1>9
<1>11. DOMAIN pending' = 1..(m + 1) /\ Wrapped' = W \cup {n}
  BY <1>3, <1>5
<1>14. e \in [DOMAIN pending' -> Wrapped']
  BY <1>10, <1>11
<1>15. \A k, l \in DOMAIN pending' : k < l => e[k] < e[l]
  BY <1>10, <1>11
<1>16. \A i \in Wrapped' : \E k \in DOMAIN pending' : e[k] = i
  BY <1>10, <1>11
<1>17. \A k \in DOMAIN pending' : pending'[k] = WrapperAt(e[k])'
  BY <1>10, <1>11
<1> QED BY <1>14, <1>15, <1>16, <1>17 DEF PendingIsRunning

(* The one that returns was the last one pending                            *)
(* (event-target-patch.js:66).                                              *)
LEMMA PendingReturned ==
    ASSUME PendingIsRunning, pending \in Seq(Nat),
           NEW n \in Wrapped, n \in Nat, Wrapped \subseteq 1..n,
           Wrapped' = Wrapped \ {n},
           \A i \in Wrapped \ {n} : WrapperAt(i)' = WrapperAt(i),
           pending' = SubSeq(pending, 1, Len(pending) - 1)
    PROVE  PendingIsRunning'
<1>1. PICK depth \in [DOMAIN pending -> Wrapped] :
        /\ \A k, l \in DOMAIN pending : k < l => depth[k] < depth[l]
        /\ \A i \in Wrapped : \E k \in DOMAIN pending : depth[k] = i
        /\ \A k \in DOMAIN pending : pending[k] = WrapperAt(depth[k])
  BY DEF PendingIsRunning
<1>2. PICK W, m : W = Wrapped /\ m = Len(pending)
  OBVIOUS
<1>3. m \in Nat /\ DOMAIN pending = 1..m
  BY <1>2
<1>4. PICK k0 \in 1..m : depth[k0] = n
  BY <1>1, <1>3
<1>5. k0 = m
  <2>1. m \in 1..m /\ k0 \in 1..m /\ k0 \in Int
    BY <1>3, <1>4
  <2>2. depth[m] \in Wrapped
    BY <1>1, <1>3, <2>1
  <2>3. depth[m] \in 1..n
    BY <2>2
  <2>4. k0 < m => depth[k0] < depth[m]
    BY <1>1, <1>3, <2>1
  <2>5. ~(k0 < m)
    BY <1>4, <2>3, <2>4
  <2> QED BY <1>3, <2>1, <2>5
<1>6. /\ DOMAIN pending' = 1..(m - 1)
      /\ \A k \in 1..(m - 1) : pending'[k] = pending[k] /\ k \in 1..m /\ k # m /\ k < m
      /\ \A k \in 1..m : k # m => k \in 1..(m - 1)
  BY <1>2, <1>3, <1>4, <1>5
<1> DEFINE d == [k \in 1..(m - 1) |-> depth[k]]
<1>7. /\ \A k \in 1..(m - 1) : /\ depth[k] \in W \ {n}
                               /\ WrapperAt(depth[k])' = pending[k]
      /\ Wrapped' = W \ {n}
  <2>1. ASSUME NEW k \in 1..(m - 1) PROVE depth[k] \in W \ {n}
    <3>1. depth[k] \in Wrapped /\ depth[k] < depth[m]
      BY <1>1, <1>3, <1>4, <1>5, <1>6
    <3>2. depth[m] = n
      BY <1>4, <1>5
    <3>3. depth[k] \in 1..n
      BY <3>1
    <3>4. depth[k] # n
      BY <3>1, <3>2, <3>3
    <3> QED BY <1>2, <3>1, <3>4
  <2> QED BY <1>1, <1>2, <1>3, <1>6, <2>1
<1>8. d \in [1..(m - 1) -> W \ {n}]
  BY <1>7
<1>9. \A k, l \in 1..(m - 1) : k < l => d[k] < d[l]
  BY <1>1, <1>3, <1>6
<1>10. \A i \in W \ {n} : \E k \in 1..(m - 1) : d[k] = i
  <2> SUFFICES ASSUME NEW i \in W \ {n} PROVE \E k \in 1..(m - 1) : d[k] = i
    OBVIOUS
  <2>1. PICK k \in 1..m : depth[k] = i
    BY <1>1, <1>2, <1>3
  <2>2. k \in 1..(m - 1)
    BY <1>4, <1>5, <1>6, <2>1
  <2> QED BY <2>1, <2>2
<1>11. \A k \in 1..(m - 1) : pending'[k] = WrapperAt(d[k])'
  BY <1>6, <1>7
<1>12. PICK e : /\ e \in [1..(m - 1) -> W \ {n}]
                /\ \A k, l \in 1..(m - 1) : k < l => e[k] < e[l]
                /\ \A i \in W \ {n} : \E k \in 1..(m - 1) : e[k] = i
                /\ \A k \in 1..(m - 1) : pending'[k] = WrapperAt(e[k])'
  <2> HIDE DEF d
  <2> QED BY <1>8, <1>9, <1>10, <1>11
<1>13. DOMAIN pending' = 1..(m - 1) /\ Wrapped' = W \ {n}
  BY <1>6, <1>7
<1>14. e \in [DOMAIN pending' -> Wrapped']
  BY <1>12, <1>13
<1>15. \A k, l \in DOMAIN pending' : k < l => e[k] < e[l]
  BY <1>12, <1>13
<1>16. \A i \in Wrapped' : \E k \in DOMAIN pending' : e[k] = i
  BY <1>12, <1>13
<1>17. \A k \in DOMAIN pending' : pending'[k] = WrapperAt(e[k])'
  BY <1>12, <1>13
<1> QED BY <1>14, <1>15, <1>16, <1>17 DEF PendingIsRunning

LEMMA AddPending ==
    ASSUME DInv, NEW cb \in Callback, NEW capture \in BOOLEAN, NEW once \in BOOLEAN,
           Browser!Add(cb, capture, once), pending' = pending
    PROVE  DispatchType' /\ PendingIsRunning'
<1>1. UNCHANGED <<frames, clicks, pending>>
  BY DEF Browser!Add
<1>2. /\ Len(added') \in Nat /\ Len(added) <= Len(added')
      /\ \A i \in DOMAIN added : added'[i] = added[i]
  <2>1. Len(added) \in Nat
    BY DEF DInv, IInv, ListType
  <2>2. CASE UNCHANGED <<added, present>>
    BY <2>1, <2>2
  <2>3. CASE ~UNCHANGED <<added, present>>
    <3>1. /\ Len(added') = Len(added) + 1
          /\ \A i \in DOMAIN added : added'[i] = added[i]
      BY <2>3, AddIs DEF DInv, IInv
    <3> QED BY <2>1, <3>1
  <2> QED BY <2>2, <2>3
<1>3. DispatchType' /\ SameWrapped
  BY <1>1, <1>2, ListenStep DEF DInv
<1> QED BY <1>3, PendingStays DEF DInv

(* Nothing is dispatched, or nothing changes for what is                    *)
LEMMA QuietPending ==
    ASSUME DInv, UNCHANGED <<added, frames, clicks, pending>>
    PROVE  DispatchType' /\ PendingIsRunning'
<1>1. DispatchType' /\ SameWrapped
  BY DEF DInv, DispatchType, SameWrapped, Wrapped, WrapperAt
<1> QED BY <1>1, PendingStays DEF DInv

(* A click within a listener is dispatched before the listener goes on      *)
LEMMA ClickPending ==
    ASSUME DInv, Browser!Click, pending' = pending
    PROVE  DispatchType' /\ PendingIsRunning'
<1>1. PICK n : n = Len(frames)
  OBVIOUS
<1> DEFINE f == [phase |-> "capturing", left |-> Browser!OfPhase(TRUE), running |-> 0]
<1>2. f \in BrowserFrame /\ f.running = 0
  <2>1. Browser!OfPhase(TRUE) \in SUBSET Nat
    BY DEF Browser!OfPhase, DInv, IInv, ListType
  <2> HIDE DEF Browser!OfPhase
  <2> QED BY <2>1 DEF BrowserFrame
<1>3. frames' = Append(frames, f) /\ clicks' = clicks + 1 /\ added' = added
  BY DEF Browser!Click
<1> HIDE DEF f
<1>4. frames \in Seq(BrowserFrame) /\ n \in Nat /\ DOMAIN frames = 1..n /\ clicks \in Nat
      /\ Len(added) \in Nat
  BY <1>1, FramesAre DEF DInv, DispatchType, IInv, ListType
<1>5. /\ frames' \in Seq(BrowserFrame) /\ DOMAIN frames' = 1..(n + 1)
      /\ \A j \in 1..n : frames'[j] = frames[j]
      /\ frames'[n + 1] = f
      /\ \A j \in 1..(n + 1) : j # n + 1 => j \in 1..n
  <2> HIDE DEF BrowserFrame
  <2> QED BY <1>1, <1>2, <1>3, <1>4
<1>6. DispatchType'
  <2>1. \A j \in 1..(n + 1) : frames'[j].running \in 0..Len(added)
    BY <1>2, <1>4, <1>5 DEF DInv, DispatchType
  <2> QED BY <1>3, <1>4, <1>5, <2>1 DEF DispatchType, DInv
<1>7. SameWrapped
  <2>1. \A j \in 1..n : WrapperAt(j)' = WrapperAt(j) /\ j \in 1..(n + 1)
    BY <1>3, <1>4, <1>5 DEF WrapperAt
  <2>2. WrapperAt(n + 1)' = 0
    BY <1>2, <1>5 DEF WrapperAt
  <2> QED BY <1>4, <1>5, <2>1, <2>2 DEF SameWrapped, Wrapped
<1> QED BY <1>6, <1>7, PendingStays DEF DInv

LEMMA EndPhasePending ==
    ASSUME DInv, Browser!EndPhase, pending' = pending
    PROVE  DispatchType' /\ PendingIsRunning'
<1>1. PICK n : n = Len(frames)
  OBVIOUS
<1>2. /\ frames \in Seq(BrowserFrame) /\ n \in Nat \ {0} /\ DOMAIN frames = 1..n
      /\ frames[n] \in BrowserFrame /\ frames[n].running = 0
      /\ \A j \in 1..n : j # n => j \in 1..(n - 1)
  BY <1>1, FramesAre DEF DInv, DispatchType, Browser!EndPhase, Browser!Top
<1>3. UNCHANGED <<added, clicks>> /\ Len(added) \in Nat /\ pending' \in Seq(Nat)
      /\ frames # <<>>
  BY DEF Browser!EndPhase, DInv, IInv, ListType, DispatchType
<1>4. WrapperAt(n) = 0
  BY <1>2 DEF WrapperAt
<1>5. CASE Browser!Top.phase = "capturing"
  <2> DEFINE f == [frames[n] EXCEPT !.phase = "bubbling", !.left = Browser!OfPhase(FALSE)]
  <2>1. f \in BrowserFrame /\ f.running = 0
    <3>0. Browser!OfPhase(FALSE) \in SUBSET Nat
      BY DEF Browser!OfPhase, DInv, IInv, ListType
    <3>1. PICK S \in SUBSET Nat : S = Browser!OfPhase(FALSE)
      BY <3>0
    <3>2. PICK g \in BrowserFrame : g = frames[n]
      BY <1>2
    <3>3. [g EXCEPT !.phase = "bubbling", !.left = S] \in BrowserFrame
          /\ [g EXCEPT !.phase = "bubbling", !.left = S].running = g.running
      BY DEF BrowserFrame
    <3> QED BY <1>2, <3>1, <3>2, <3>3
  <2>2. frames' = [frames EXCEPT ![n].phase = "bubbling", ![n].left = Browser!OfPhase(FALSE)]
    BY <1>1, <1>5 DEF Browser!EndPhase
  <2>3. frames' = [frames EXCEPT ![n] = f]
    BY <1>2, <2>2 DEF BrowserFrame
  <2> HIDE DEF f
  <2>4. frames' \in Seq(BrowserFrame) /\ Len(frames') = n /\ frames'[n] = f
        /\ \A j \in 1..(n - 1) : frames'[j] = frames[j]
    BY <1>1, <1>2, <2>1, <2>3
  <2>5. PICK r \in 0..Len(added) : r = 0
    BY <1>3
  <2>6. TopRuns(r)
    BY <1>1, <1>3, <2>1, <2>4, <2>5 DEF TopRuns
  <2>7. /\ DispatchType' /\ DOMAIN frames' = DOMAIN frames
        /\ \A j \in DOMAIN frames \ {Len(frames)} :
              j < Len(frames) /\ WrapperAt(j)' = WrapperAt(j)
        /\ WrapperAt(Len(frames))' = IF r = 0 THEN 0 ELSE added[r].callback.wrapper
    BY <1>3, <2>6, TopWrapped DEF DInv
  <2>8. WrapperAt(n)' = 0
    BY <1>1, <2>5, <2>7
  <2>9. SameWrapped
    BY <1>1, <1>2, <1>4, <2>7, <2>8 DEF SameWrapped, Wrapped
  <2> QED BY <2>7, <2>9, PendingStays DEF DInv
<1>6. CASE Browser!Top.phase # "capturing"
  <2>1. frames' = SubSeq(frames, 1, n - 1)
    BY <1>1, <1>6 DEF Browser!EndPhase
  <2>2. /\ frames' \in Seq(BrowserFrame) /\ DOMAIN frames' = 1..(n - 1)
        /\ \A j \in 1..(n - 1) : frames'[j] = frames[j] /\ j \in 1..n /\ j # n
    <3> HIDE DEF BrowserFrame
    <3> QED BY <1>1, <1>2, <2>1
  <2>3. DispatchType'
    <3>1. \A j \in 1..(n - 1) : frames'[j].running \in 0..Len(added)
      BY <1>2, <2>2 DEF DInv, DispatchType
    <3> QED BY <1>3, <2>2, <3>1 DEF DispatchType, DInv
  <2>4. SameWrapped
    <3>1. \A j \in 1..(n - 1) : WrapperAt(j)' = WrapperAt(j)
      BY <1>3, <2>2 DEF WrapperAt
    <3> QED BY <1>2, <1>4, <2>2, <3>1 DEF SameWrapped, Wrapped
  <2> QED BY <2>3, <2>4, PendingStays DEF DInv
<1> QED BY <1>5, <1>6

LEMMA CallPending ==
    ASSUME DInv, NEW i \in present, Call(i)
    PROVE  DispatchType' /\ PendingIsRunning'
<1>1. PICK n, w : n = Len(frames) /\ w = added[i].callback.wrapper
  OBVIOUS
<1>2. Browser!Call(i) /\ pending' = IF w = 0 THEN pending ELSE Append(pending, w)
  BY <1>1 DEF Call
<1>3. /\ TopRuns(i) /\ i \in 1..Len(added) /\ UNCHANGED <<added, clicks>>
      /\ n \in Nat \ {0} /\ DOMAIN frames = 1..n /\ frames[n].running = 0
  <2>1. frames # <<>> /\ Browser!Top.running = 0
    BY <1>2 DEF Browser!Call
  <2>2. TopRuns(i) /\ i \in 1..Len(added) /\ UNCHANGED <<added, clicks>>
    BY <1>2, CallTop DEF DInv
  <2>3. Len(frames) \in Nat /\ DOMAIN frames = 1..Len(frames)
        /\ Len(frames) \in DOMAIN frames /\ Browser!Top = frames[Len(frames)]
    BY <2>1, FramesAre DEF DInv
  <2> QED BY <1>1, <2>1, <2>2, <2>3
<1>4. w \in Nat /\ pending \in Seq(Nat) /\ pending' \in Seq(Nat)
  <2>1. w \in Nat
    <3>1. /\ added \in Seq([callback : Callback, capture : BOOLEAN, once : BOOLEAN])
          /\ i \in 1..Len(added)
      BY <1>3 DEF DInv, IInv, ListType
    <3>2. ASSUME NEW L, NEW q \in Seq(L), i \in 1..Len(q) PROVE q[i] \in L
      BY <3>2
    <3>3. added[i] \in [callback : Callback, capture : BOOLEAN, once : BOOLEAN]
      BY <3>1, <3>2
    <3> QED BY <1>1, <3>3 DEF Callback
  <2> QED BY <1>2, <2>1 DEF DInv, DispatchType
<1>5. i \in 0..Len(added) /\ i # 0
  BY <1>3 DEF DInv, IInv, ListType
<1>6. /\ DispatchType' /\ DOMAIN frames' = 1..n
      /\ \A j \in 1..n : j # n => j < n /\ WrapperAt(j)' = WrapperAt(j)
      /\ WrapperAt(n)' = w
  <2>1. /\ DispatchType' /\ DOMAIN frames' = DOMAIN frames
        /\ \A j \in DOMAIN frames \ {Len(frames)} :
              j < Len(frames) /\ WrapperAt(j)' = WrapperAt(j)
        /\ WrapperAt(Len(frames))' = IF i = 0 THEN 0 ELSE added[i].callback.wrapper
    BY <1>3, <1>4, <1>5, TopWrapped DEF DInv
  <2> QED BY <1>1, <1>3, <1>5, <2>1
<1>7. WrapperAt(n) = 0
  BY <1>3 DEF WrapperAt
<1>8. CASE w = 0
  <2>1. SameWrapped
    BY <1>3, <1>6, <1>7, <1>8 DEF SameWrapped, Wrapped
  <2> QED BY <1>2, <1>6, <1>8, <2>1, PendingStays DEF DInv
<1>9. CASE w # 0
  <2>1. \A j \in Wrapped : j \in 1..n /\ j # n /\ j < n
    BY <1>3, <1>6, <1>7 DEF Wrapped
  <2>2. Wrapped \subseteq 1..(n - 1) /\ \A j \in Wrapped : WrapperAt(j)' = WrapperAt(j)
    BY <1>3, <1>6, <2>1
  <2>3. Wrapped' = Wrapped \cup {n}
    BY <1>3, <1>6, <1>7, <1>9 DEF Wrapped
  <2>4. pending' = Append(pending, w)
    BY <1>2, <1>9
  <2>5. n \in Nat /\ w \in Nat \ {0}
    BY <1>3, <1>4, <1>9
  <2>6. PendingIsRunning
    BY DEF DInv
  <2>7. PendingIsRunning'
    BY <1>4, <1>6, <2>2, <2>3, <2>4, <2>5, <2>6, PendingCalled
  <2> QED BY <1>6, <2>7
<1> QED BY <1>8, <1>9

LEMMA ReturnPending ==
    ASSUME DInv, NEW throws \in BOOLEAN, Return(throws)
    PROVE  DispatchType' /\ PendingIsRunning'
<1>1. PICK n, r, w : /\ n = Len(frames) /\ r = Browser!Top.running
                     /\ w = added[r].callback.wrapper
  OBVIOUS
<1>2. /\ Browser!Return
      /\ pending' = IF w = 0 THEN pending ELSE SubSeq(pending, 1, Len(pending) - 1)
  BY <1>1 DEF Return, Invoked
<1>3. /\ TopRuns(0) /\ UNCHANGED <<added, clicks>> /\ Len(added) \in Nat
      /\ n \in Nat \ {0} /\ DOMAIN frames = 1..n /\ frames[n].running = r /\ r # 0
  BY <1>1, <1>2, ReturnTop, FramesAre DEF DInv, Browser!Return, IInv, ListType
<1>4. pending \in Seq(Nat) /\ pending' \in Seq(Nat)
  <2>1. pending \in Seq(Nat)
    BY DEF DInv, DispatchType
  <2>2. Len(pending) \in Nat
    BY <2>1
  <2>3. SubSeq(pending, 1, Len(pending) - 1) \in Seq(Nat)
    BY <2>1, <2>2
  <2> QED BY <1>2, <2>1, <2>3
<1>5. WrapperAt(n) = w
  BY <1>1, <1>3 DEF WrapperAt
<1>6. /\ DispatchType' /\ DOMAIN frames' = 1..n
      /\ \A j \in 1..n : j # n => j < n /\ WrapperAt(j)' = WrapperAt(j)
      /\ WrapperAt(n)' = 0
  <2>1. PICK z \in 0..Len(added) : z = 0
    BY <1>3
  <2>2. /\ DispatchType' /\ DOMAIN frames' = DOMAIN frames
        /\ \A j \in DOMAIN frames \ {Len(frames)} :
              j < Len(frames) /\ WrapperAt(j)' = WrapperAt(j)
        /\ WrapperAt(Len(frames))' = IF z = 0 THEN 0 ELSE added[z].callback.wrapper
    BY <1>3, <1>4, <2>1, TopWrapped DEF DInv
  <2> QED BY <1>1, <1>3, <2>1, <2>2
<1>7. CASE w = 0
  <2>1. SameWrapped
    BY <1>3, <1>5, <1>6, <1>7 DEF SameWrapped, Wrapped
  <2> QED BY <1>2, <1>6, <1>7, <2>1, PendingStays DEF DInv
<1>8. CASE w # 0
  <2>1. n \in Wrapped /\ n \in Nat /\ Wrapped \subseteq 1..n
    BY <1>3, <1>5, <1>8 DEF Wrapped
  <2>2. Wrapped' = Wrapped \ {n} /\ \A j \in Wrapped \ {n} : WrapperAt(j)' = WrapperAt(j)
    BY <1>3, <1>6 DEF Wrapped
  <2>3. pending' = SubSeq(pending, 1, Len(pending) - 1)
    BY <1>2, <1>8
  <2>4. PendingIsRunning
    BY DEF DInv
  <2>5. PendingIsRunning'
    BY <1>4, <2>1, <2>2, <2>3, <2>4, PendingReturned
  <2> QED BY <1>6, <2>5
<1> QED BY <1>7, <1>8

LEMMA NextKeepsDInv ==
    ASSUME DInv, [Next]_vars
    PROVE  DInv'
<1>1. IInv'
  BY NextKeepsInv DEF DInv
<1>2. ASSUME NEW fn \in Listeners, NEW capture \in BOOLEAN, NEW once \in BOOLEAN,
             \/ AddNative(fn, capture, once)
             \/ AddAgain(fn, capture, once)
             \/ AddWrapped(fn, capture, once)
      PROVE  DispatchType' /\ PendingIsRunning'
  <2>1. PICK w \in Nat : /\ Browser!Add([fn |-> fn, wrapper |-> w], capture, once)
                         /\ pending' = pending
    <3>1. CASE AddNative(fn, capture, once)
      BY <3>1 DEF AddNative
    <3>2. CASE AddAgain(fn, capture, once)
      BY <3>2 DEF AddAgain, findTask, DInv, IInv, ListType, Task
    <3>3. CASE AddWrapped(fn, capture, once)
      BY <3>3 DEF AddWrapped, DInv, IInv, ListType
    <3> QED BY <1>2, <3>1, <3>2, <3>3
  <2>2. [fn |-> fn, wrapper |-> w] \in Callback
    BY DEF Callback
  <2> QED BY <2>1, <2>2, AddPending
<1>3. ASSUME NEW fn \in Listeners, NEW capture \in BOOLEAN,
             RemoveNative(fn, capture) \/ RemoveWrapped(fn, capture)
      PROVE  DispatchType' /\ PendingIsRunning'
  BY <1>3, QuietPending DEF RemoveNative, RemoveWrapped, Browser!Remove
<1>4. CASE patchEventTarget \/ UNCHANGED vars
  <2>1. UNCHANGED added /\ UNCHANGED frames /\ UNCHANGED clicks /\ UNCHANGED pending
    BY <1>4 DEF patchEventTarget, vars, native
  <2> QED BY <1>1, <2>1, QuietPending DEF DInv
<1>5. CASE Click
  <2>1. Browser!Click /\ pending' = pending
    BY <1>5 DEF Click
  <2> QED BY <1>1, <2>1, ClickPending DEF DInv
<1>6. CASE EndPhase
  <2>1. Browser!EndPhase /\ pending' = pending
    BY <1>6 DEF EndPhase
  <2> QED BY <1>1, <2>1, EndPhasePending DEF DInv
<1> QED BY <1>1, <1>2, <1>3, <1>4, <1>5, <1>6, CallPending, ReturnPending DEF Next, DInv

LEMMA InitDInv == Init => DInv
<1> SUFFICES ASSUME Init PROVE DInv
  OBVIOUS
<1>1. frames = <<>> /\ pending = <<>> /\ clicks = 0
  BY DEF Init, Browser!Init
<1>2. DispatchType
  BY <1>1 DEF DispatchType
<1>3. PendingIsRunning
  <2>1. Wrapped = {}
    BY <1>1 DEF Wrapped
  <2>2. PICK e : e = <<>>
    OBVIOUS
  <2>3. e \in [DOMAIN pending -> Wrapped]
    BY <1>1, <2>1, <2>2
  <2> QED BY <1>1, <2>1, <2>3 DEF PendingIsRunning
<1> QED BY <1>2, <1>3, InitInv DEF DInv

THEOREM DispatchInvariance == Spec => []DInv
<1>1. DInv /\ [Next]_vars => DInv'
  BY NextKeepsDInv
<1> QED BY InitDInv, <1>1, PTL DEF Spec

(* The browser's list and its dispatches, the registry and the counter of   *)
(* wrappers keep their shapes (event-target-patch.js:47).                   *)
THEOREM PatchTypeCorrect == Spec => []PatchTypeOK
<1>1. DInv => PatchTypeOK
  BY DEF DInv, IInv, ListType, DispatchType, PatchTypeOK, Browser!Listener,
         Browser!Frame, BrowserFrame
<1> QED BY <1>1, DispatchInvariance, PTL

(* Each SCHEDULE of a wrapper gets its INVOKE, in the order of a stack      *)
(* (event-target-patch.js:60).                                              *)
THEOREM PendingIsRunningHolds == Spec => []PendingIsRunning
<1>1. DInv => PendingIsRunning
  BY DEF DInv
<1> QED BY <1>1, DispatchInvariance, PTL

=============================================================================
