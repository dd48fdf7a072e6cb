-------------------------- MODULE EventQueue_proof --------------------------
(***************************************************************************)
(* The queue keeps its events, for any events, limits, intervals and any   *)
(* behaviour of filters, compression and requests; what waits has a timer  *)
(* as long as no flush throws; the queue implements EventDelivery as long  *)
(* as no filter captures; and what one window of the throttle sends is     *)
(* bounded.                                                                *)
(***************************************************************************)
EXTENDS EventQueue, SequenceTheorems, FiniteSetTheorems, TLAPS

(* The types of the lists of events *)
Lists ==
    /\ items \in Seq(Events) /\ flushes \in Seq(Seq(Events))
    /\ accepted \in Seq(Events) /\ flushed \in Seq(Events)
    /\ refused \subseteq Events /\ reentered \subseteq Events

(* The types of the timers *)
Timers ==
    /\ ready \in BOOLEAN /\ timeoutId \in BOOLEAN
    /\ resetIn \in Off..ThrottleInterval
    /\ flushIn \in Off..FlushInterval

(* Every event is counted once *)
Counted ==
    /\ counter \in Nat
    /\ counter <= Cardinality(Range(accepted) \cup refused)

(* The types of what left the queue *)
Outgoing ==
    /\ batches \in Seq([events : SUBSET Events, phase : Phases])
    /\ sentInWindow \in Nat

(* What was accepted is somewhere; a flush under way has all that its       *)
(* _clear will take from the queue, but for what a filter captured; without *)
(* that there is one flush, of the whole queue.                             *)
Keeping ==
    /\ Range(accepted) \subseteq Range(flushed) \cup Range(items) \cup reentered
    /\ \A k \in DOMAIN flushes :
          Range(items) \subseteq Range(flushes[k]) \cup reentered
    /\ reentered = {} => flushes = <<>> \/ flushes = <<items>>
    /\ InOrder

IInv == Lists /\ Timers /\ Counted /\ Outgoing /\ Keeping

-----------------------------------------------------------------------------
(* Sequences *)

LEMMA RangeOfAppend ==
    ASSUME NEW S, NEW s \in Seq(S), NEW e \in S
    PROVE  /\ Append(s, e) \in Seq(S)
           /\ Range(Append(s, e)) = Range(s) \cup {e}
<1>1. /\ Append(s, e) \in Seq(S) /\ DOMAIN Append(s, e) = 1..(Len(s) + 1)
      /\ Len(s) \in Nat /\ DOMAIN s = 1..Len(s)
      /\ Append(s, e)[Len(s) + 1] = e
      /\ \A i \in 1..Len(s) : Append(s, e)[i] = s[i]
  OBVIOUS
<1> DEFINE a == Append(s, e)
<1>2. \A i \in DOMAIN a : i \in DOMAIN s \/ i = Len(s) + 1
  BY <1>1
<1>3. DOMAIN s \subseteq DOMAIN a /\ Len(s) + 1 \in DOMAIN a
  BY <1>1
<1>4. a[Len(s) + 1] = e /\ \A i \in DOMAIN s : a[i] = s[i]
  BY <1>1
<1> HIDE DEF a
<1>5. Range(a) = Range(s) \cup {e}
  BY <1>2, <1>3, <1>4, Zenon DEF Range
<1> QED BY <1>1, <1>5 DEF a

LEMMA RangeOfConcat ==
    ASSUME NEW S, NEW s \in Seq(S), NEW t \in Seq(S)
    PROVE  /\ s \o t \in Seq(S)
           /\ Range(s \o t) = Range(s) \cup Range(t)
<1> DEFINE c == s \o t
<1>1. /\ c \in Seq(S) /\ Len(c) = Len(s) + Len(t)
      /\ \A i \in 1..(Len(s) + Len(t)) :
            c[i] = IF i <= Len(s) THEN s[i] ELSE t[i - Len(s)]
  BY ConcatProperties
<1>2. /\ Len(s) \in Nat /\ Len(t) \in Nat /\ DOMAIN s = 1..Len(s)
      /\ DOMAIN t = 1..Len(t) /\ DOMAIN c = 1..(Len(s) + Len(t))
  BY <1>1, LenProperties
<1> HIDE DEF c
<1>3. ASSUME NEW i \in DOMAIN s PROVE i \in DOMAIN c /\ c[i] = s[i]
  BY <1>1, <1>2, <1>3
<1>4. ASSUME NEW i \in DOMAIN t
      PROVE  Len(s) + i \in DOMAIN c /\ c[Len(s) + i] = t[i]
  BY <1>1, <1>2, <1>4
<1>5. ASSUME NEW i \in DOMAIN c
      PROVE  \/ i \in DOMAIN s /\ c[i] = s[i]
             \/ i - Len(s) \in DOMAIN t /\ c[i] = t[i - Len(s)]
  BY <1>1, <1>2, <1>5
<1>6. Range(c) = Range(s) \cup Range(t)
  <2>1. ASSUME NEW x \in Range(c) PROVE x \in Range(s) \cup Range(t)
    <3>1. PICK i \in DOMAIN c : x = c[i]
      BY <2>1 DEF Range
    <3> QED BY <1>5, <3>1 DEF Range
  <2>2. ASSUME NEW x \in Range(s) PROVE x \in Range(c)
    BY <1>3, <2>2 DEF Range
  <2>3. ASSUME NEW x \in Range(t) PROVE x \in Range(c)
    <3>1. PICK i \in DOMAIN t : x = t[i]
      BY <2>3 DEF Range
    <3> QED BY <1>4, <3>1 DEF Range
  <2> QED BY <2>1, <2>2, <2>3
<1> QED BY <1>1, <1>6 DEF c

LEMMA RangeInSet ==
    ASSUME NEW S, NEW s \in Seq(S)
    PROVE  Range(s) \subseteq S
BY ElementOfSeq, LenProperties DEF Range

LEMMA ConcatAppend ==
    ASSUME NEW s \in Seq(Events), NEW t \in Seq(Events), NEW e \in Events
    PROVE  Append(s \o t, e) = s \o Append(t, e)
<1> DEFINE a == Append(s \o t, e)
           b == s \o Append(t, e)
<1>1. s \o t \in Seq(Events) /\ Append(t, e) \in Seq(Events)
  BY ConcatProperties
<1>2. a \in Seq(Events) /\ b \in Seq(Events)
  BY <1>1, ConcatProperties
<1>3. Len(a) = Len(s) + Len(t) + 1 /\ Len(b) = Len(s) + Len(t) + 1
      /\ Len(s) \in Nat /\ Len(t) \in Nat
  BY <1>1, ConcatProperties, LenProperties
<1>4. ASSUME NEW i \in 1..(Len(s) + Len(t) + 1) PROVE a[i] = b[i]
  <2>1. b[i] = IF i <= Len(s) THEN s[i] ELSE Append(t, e)[i - Len(s)]
    <3>1. ASSUME NEW u \in Seq(Events), NEW j \in 1..(Len(s) + Len(u))
          PROVE  (s \o u)[j] = IF j <= Len(s) THEN s[j] ELSE u[j - Len(s)]
      BY ConcatProperties
    <3>2. Len(Append(t, e)) = Len(t) + 1
      OBVIOUS
    <3>3. i \in 1..(Len(s) + Len(Append(t, e)))
      BY <1>3, <3>2
    <3> QED BY <1>1, <3>1, <3>3
  <2>2. CASE i = Len(s) + Len(t) + 1
    <3>1. ASSUME NEW u \in Seq(Events), Len(u) \in Nat
          PROVE  Append(u, e)[Len(u) + 1] = e
      OBVIOUS
    <3>2. Len(s \o t) = Len(s) + Len(t)
      BY ConcatProperties
    <3>3. a[i] = e
      BY <1>1, <1>3, <2>2, <3>1, <3>2
    <3>4. i - Len(s) = Len(t) + 1 /\ ~(i <= Len(s))
      BY <1>3, <2>2
    <3>5. b[i] = e
      BY <1>3, <2>1, <3>1, <3>4
    <3> QED BY <3>3, <3>5
  <2>3. CASE i \in 1..(Len(s) + Len(t))
    <3>1. a[i] = (s \o t)[i]
      BY <1>1, <1>3, <2>3, ConcatProperties
    <3>2. (s \o t)[i] = IF i <= Len(s) THEN s[i] ELSE t[i - Len(s)]
      BY <2>3, ConcatProperties
    <3> QED BY <1>3, <2>1, <2>3, <3>1, <3>2
  <2> QED BY <1>3, <2>2, <2>3
<1> HIDE DEF a, b
<1>5. a = b
  BY <1>2, <1>3, <1>4, SeqEqual
<1> QED BY <1>5 DEF a, b

-----------------------------------------------------------------------------
(* Adding an event *)

(* Add appends the event to what was accepted and to the queue, which may   *)
(* flush, or refuses it (throttle.js, queue.js).                            *)
LEMMA AddCases ==
    ASSUME NEW e, Add(e)
    PROVE  /\ e \notin Range(accepted) \cup refused
           /\ UNCHANGED <<ready, batches, flushed, sentInWindow>>
           /\ \/ /\ refused' = refused \cup {e}
                 /\ UNCHANGED <<accepted, items, flushes, timeoutId, flushIn>>
              \/ /\ accepted' = Append(accepted, e) /\ items' = Append(items, e)
                 /\ refused' = refused
                 /\ \/ /\ flushes' = Append(flushes, items')
                       /\ UNCHANGED <<timeoutId, flushIn>>
                    \/ /\ flushes' = flushes /\ timeoutId' = TRUE
                       /\ flushIn' = IF timeoutId THEN flushIn ELSE FlushInterval
           /\ \/ UNCHANGED <<counter, resetIn>>
              \/ /\ counter' = counter + 1
                 /\ resetIn' = IF resetIn = Off THEN ThrottleInterval ELSE resetIn
<1>1. e \notin Range(accepted) \cup refused
      /\ UNCHANGED <<ready, batches, flushed, sentInWindow>>
  BY DEF Add, Fresh, outVars
<1>2. CASE ~ready
  BY <1>1, <1>2 DEF Add, queueVars
<1>3. CASE ready /\ counter' > EventsLimit
  BY <1>1, <1>3 DEF Add, Count, queueVars
<1>4. CASE ready /\ ~(counter' > EventsLimit)
  <2>1. /\ accepted' = Append(accepted, e) /\ QueueAdd(e) /\ refused' = refused
        /\ counter' = counter + 1
        /\ resetIn' = IF resetIn = Off THEN ThrottleInterval ELSE resetIn
    BY <1>4 DEF Add, Count
  <2>2. /\ items' = Append(items, e)
        /\ \/ flushes' = Append(flushes, items') /\ UNCHANGED <<timeoutId, flushIn>>
           \/ /\ flushes' = flushes /\ timeoutId' = TRUE
              /\ flushIn' = IF timeoutId THEN flushIn ELSE FlushInterval
    BY <2>1 DEF QueueAdd
  <2> QED BY <1>1, <2>1, <2>2
<1> QED BY <1>2, <1>3, <1>4

(* The event is counted once, and is new. *)
LEMMA AddCounts ==
    ASSUME IInv, NEW e \in Events, Add(e)
    PROVE  Counted' /\ Timers'
<1> USE EventQueueAssumption
<1>1. accepted \in Seq(Events) /\ refused \subseteq Events
  BY DEF IInv, Lists
<1> DEFINE known == Range(accepted) \cup refused
<1>2. known \subseteq Events
  BY <1>1, RangeInSet
<1>3. IsFiniteSet(known) /\ Cardinality(known) \in Nat
  BY <1>2, FS_Subset, FS_CardinalityType
<1>4. Range(Append(accepted, e)) = Range(accepted) \cup {e}
  BY <1>1, RangeOfAppend
<1>5. known' = known \cup {e} /\ e \notin known
  BY <1>4, AddCases
<1>6. Cardinality(known') = Cardinality(known) + 1
  <2> HIDE DEF known
  <2>1. Cardinality(known \cup {e}) = Cardinality(known) + 1
    BY <1>3, <1>5, FS_AddElement
  <2> QED BY <1>5, <2>1
<1>7. counter \in Nat /\ counter <= Cardinality(known)
  BY DEF IInv, Counted
<1>8. counter' = counter \/ counter' = counter + 1
  BY AddCases
<1>9. Counted'
  <2>1. counter' \in Nat /\ counter' <= Cardinality(known')
    <3> HIDE DEF known
    <3> QED BY <1>3, <1>6, <1>7, <1>8
  <2> QED BY <2>1 DEF Counted
<1>10. Timers'
  <2>1. /\ ready \in BOOLEAN /\ timeoutId \in BOOLEAN
        /\ resetIn \in Off..ThrottleInterval /\ flushIn \in Off..FlushInterval
    BY DEF IInv, Timers
  <2>2. /\ ready' = ready /\ timeoutId' \in {timeoutId, TRUE}
        /\ resetIn' \in {resetIn, ThrottleInterval}
        /\ flushIn' \in {flushIn, FlushInterval}
    BY AddCases
  <2>3. /\ ThrottleInterval \in Off..ThrottleInterval
        /\ FlushInterval \in Off..FlushInterval
    BY DEF Off
  <2> QED BY <2>1, <2>2, <2>3 DEF Timers
<1> QED BY <1>9, <1>10

(* It is appended to the lists. *)
LEMMA AddLists ==
    ASSUME IInv, NEW e \in Events, Add(e),
           reentered' \in {reentered, reentered \cup {e}}
    PROVE  Lists' /\ Outgoing'
<1>1. Lists
  BY DEF IInv
<1>2. Append(accepted, e) \in Seq(Events) /\ Append(items, e) \in Seq(Events)
  BY <1>1, RangeOfAppend DEF Lists
<1>3. ASSUME NEW q \in Seq(Events) PROVE Append(flushes, q) \in Seq(Seq(Events))
  <2>1. ASSUME NEW S, NEW s \in Seq(S), NEW x \in S PROVE Append(s, x) \in Seq(S)
    OBVIOUS
  <2> QED BY <1>1, <1>3, <2>1 DEF Lists
<1>4. /\ accepted' \in Seq(Events) /\ items' \in Seq(Events)
      /\ flushes' \in Seq(Seq(Events)) /\ flushed' = flushed
      /\ refused' \subseteq Events
  BY <1>1, <1>2, <1>3, AddCases DEF Lists
<1>5. Lists'
  BY <1>1, <1>4 DEF Lists
<1>6. Outgoing'
  BY AddCases DEF IInv, Outgoing
<1> QED BY <1>5, <1>6

(* A script captures an event: no flush is under way, so that one that      *)
(* begins has the whole queue.                                              *)
LEMMA CaptureKeeps ==
    ASSUME IInv, NEW e \in Events, Capture(e)
    PROVE  Keeping'
<1>1. /\ Lists /\ Keeping /\ flushes = <<>> /\ Add(e) /\ reentered' = reentered
  BY DEF IInv, Capture, Idle
<1>2. CASE UNCHANGED <<accepted, items, flushes>>
  BY <1>1, <1>2, AddCases DEF Keeping, InOrder
<1>3. CASE accepted' = Append(accepted, e) /\ items' = Append(items, e)
  <2>1. /\ Range(accepted') = Range(accepted) \cup {e}
        /\ Range(items') = Range(items) \cup {e}
    BY <1>1, <1>3, RangeOfAppend DEF Lists
  <2>2. Append(flushed \o items, e) = flushed \o Append(items, e)
    <3>1. flushed \in Seq(Events) /\ items \in Seq(Events)
      BY <1>1 DEF Lists
    <3> QED BY <3>1, ConcatAppend
  <2>3. flushed' = flushed /\ (flushes' = <<>> \/ flushes' = <<items'>>)
    <3>1. flushed' = flushed /\ (flushes' = flushes \/ flushes' = Append(flushes, items'))
      BY <1>1, <1>3, AddCases
    <3>2. ASSUME NEW x PROVE Append(<<>>, x) = <<x>>
      OBVIOUS
    <3> QED BY <1>1, <3>1, <3>2
  <2>4. Range(accepted') \subseteq Range(flushed') \cup Range(items') \cup reentered'
    BY <1>1, <2>1, <2>3 DEF Keeping
  <2>5. \A k \in DOMAIN flushes' : Range(items') \subseteq Range(flushes'[k])
    BY <2>3
  <2>6. InOrder'
    BY <1>1, <1>3, <2>2, <2>3 DEF Keeping, InOrder
  <2> QED BY <2>3, <2>4, <2>5, <2>6 DEF Keeping
<1> QED BY <1>1, <1>2, <1>3, AddCases

(* A filter captures an event, and the queue may be flushed again.          *)
LEMMA FilterCapturesKeeps ==
    ASSUME IInv, NEW e \in Events, FilterCaptures(e)
    PROVE  Keeping'
<1>1. Lists /\ Keeping /\ Add(e) /\ reentered' = reentered \cup {e}
  BY DEF IInv, FilterCaptures
<1>2. flushed' = flushed /\ reentered' # {}
  BY <1>1, AddCases
<1>3. CASE UNCHANGED <<accepted, items, flushes>>
  BY <1>1, <1>2, <1>3 DEF Keeping, InOrder
<1>4. CASE accepted' = Append(accepted, e) /\ items' = Append(items, e)
  <2>1. /\ Range(accepted') = Range(accepted) \cup {e}
        /\ Range(items') = Range(items) \cup {e}
    BY <1>1, <1>4, RangeOfAppend DEF Lists
  <2>2. Range(accepted') \subseteq Range(flushed') \cup Range(items') \cup reentered'
    BY <1>1, <1>2, <2>1 DEF Keeping
  <2>3. flushes' = flushes \/ flushes' = Append(flushes, items')
    BY <1>1, <1>3, <1>4, AddCases
  <2>4. ASSUME NEW k \in DOMAIN flushes'
        PROVE  Range(items') \subseteq Range(flushes'[k]) \cup reentered'
    <3>1. CASE k \in DOMAIN flushes /\ flushes'[k] = flushes[k]
      BY <1>1, <2>1, <3>1 DEF Keeping
    <3>2. CASE flushes'[k] = items'
      BY <3>2
    <3>3. ASSUME NEW S, NEW s \in Seq(S), NEW x \in S, NEW j \in DOMAIN Append(s, x)
          PROVE  (j \in DOMAIN s /\ Append(s, x)[j] = s[j]) \/ Append(s, x)[j] = x
      BY <3>3
    <3>4. items' \in Seq(Events) /\ flushes \in Seq(Seq(Events))
      BY <1>1, <1>4, RangeOfAppend DEF Lists
    <3>5. CASE flushes' = flushes
      BY <2>4, <3>1, <3>5
    <3>6. CASE flushes' = Append(flushes, items')
      <4>1. k \in DOMAIN Append(flushes, items')
        BY <2>4, <3>6
      <4>2. \/ k \in DOMAIN flushes /\ Append(flushes, items')[k] = flushes[k]
            \/ Append(flushes, items')[k] = items'
        BY <3>3, <3>4, <4>1
      <4> QED BY <3>1, <3>2, <3>6, <4>2
    <3> QED BY <2>3, <3>5, <3>6
  <2> QED BY <1>2, <2>2, <2>4 DEF Keeping, InOrder
<1> QED BY <1>1, <1>3, <1>4, AddCases

-----------------------------------------------------------------------------
(* Flushing *)

(* The batch of the innermost flush *)
LEMMA BatchIs ==
    ASSUME IInv, flushes # <<>>
    PROVE  /\ Len(flushes) \in DOMAIN flushes /\ Batch \in Seq(Events)
           /\ Range(Batch) \subseteq Events
           /\ SubSeq(flushes, 1, Len(flushes) - 1) \in Seq(Seq(Events))
           /\ Len(SubSeq(flushes, 1, Len(flushes) - 1)) = Len(flushes) - 1
<1>1. flushes \in Seq(Seq(Events))
  BY DEF IInv, Lists
<1>2. Len(flushes) \in Nat \ {0} /\ DOMAIN flushes = 1..Len(flushes)
  BY <1>1, EmptySeq, LenProperties
<1>3. Len(flushes) \in 1..Len(flushes)
  BY <1>2
<1>4. Batch \in Seq(Events)
  BY <1>1, <1>3, ElementOfSeq DEF Batch
<1>5. \A i \in 1..(Len(flushes) - 1) : flushes[i] \in Seq(Events)
  BY <1>1, <1>2, ElementOfSeq
<1>6. /\ SubSeq(flushes, 1, Len(flushes) - 1) \in Seq(Seq(Events))
      /\ Len(SubSeq(flushes, 1, Len(flushes) - 1))
           = IF 1 <= Len(flushes) - 1 THEN Len(flushes) - 1 - 1 + 1 ELSE 0
  BY <1>2, <1>5, SubSeqProperties
<1>7. Range(Batch) \subseteq Events
  BY <1>4, RangeInSet
<1> QED BY <1>2, <1>3, <1>4, <1>6, <1>7

(* A batch that is handed on takes its events from the queue, and those it  *)
(* takes without having them were captured by a filter (queue.js:47).       *)
LEMMA ClearKeeps ==
    ASSUME IInv, flushes # <<>>, Clear, flushed' = flushed \o Batch,
           NEW phase \in Phases,
           batches' = Append(batches, [events |-> Range(Batch), phase |-> phase]),
           UNCHANGED <<sentInWindow, throttleVars, inVars>>
    PROVE  IInv'
<1>1. /\ Lists /\ Timers /\ Counted /\ Outgoing /\ Keeping
      /\ UNCHANGED <<sentInWindow, ready, counter, resetIn, accepted, refused,
                     reentered>>
  BY DEF IInv, throttleVars, inVars
<1>2. /\ items' = <<>> /\ timeoutId' = FALSE /\ flushIn' = Off
      /\ flushes' = SubSeq(flushes, 1, Len(flushes) - 1)
  BY DEF Clear
<1>3. Batch \in Seq(Events) /\ Range(Batch) \subseteq Events
      /\ Len(flushes) \in DOMAIN flushes /\ flushes' \in Seq(Seq(Events))
      /\ Len(flushes') = Len(flushes) - 1
  BY <1>2, BatchIs
<1>4. flushed' \in Seq(Events) /\ Range(flushed') = Range(flushed) \cup Range(Batch)
  BY <1>1, <1>3, RangeOfConcat DEF Lists
<1>5. items' \in Seq(Events) /\ Range(items') = {}
  <2>1. DOMAIN items' = {} /\ items' \in Seq(Events)
    BY <1>2, EmptySeq
  <2> QED BY <2>1 DEF Range
<1>6. Lists'
  BY <1>1, <1>3, <1>4, <1>5 DEF Lists
<1>7. Timers'
  <2>1. Off \in Off..FlushInterval
    BY EventQueueAssumption DEF Off
  <2>2. timeoutId' \in BOOLEAN
    BY <1>2
  <2>3. ready' \in BOOLEAN /\ resetIn' \in Off..ThrottleInterval
    BY <1>1 DEF Timers
  <2> QED BY <1>2, <2>1, <2>2, <2>3 DEF Timers
<1>8. Counted'
  BY <1>1 DEF Counted
<1>9. Outgoing'
  <2> DEFINE B == [events : SUBSET Events, phase : Phases]
             b == [events |-> Range(Batch), phase |-> phase]
  <2>1. b \in B /\ batches \in Seq(B) /\ batches' = Append(batches, b)
    BY <1>1, <1>3 DEF Outgoing
  <2> HIDE DEF B, b
  <2>2. batches' \in Seq(B)
    BY <2>1
  <2> QED BY <1>1, <2>2 DEF Outgoing, B
<1>10. Keeping'
  <2>1. Range(items) \subseteq Range(Batch) \cup reentered
    BY <1>1, <1>3 DEF Keeping, Batch
  <2>2. Range(accepted) \subseteq Range(flushed') \cup reentered
    BY <1>1, <1>4, <2>1 DEF Keeping
  <2>3. CASE reentered # {}
    BY <1>1, <1>5, <2>2, <2>3 DEF Keeping, InOrder
  <2>4. CASE reentered = {}
    <3>1. flushes = <<items>>
      BY <1>1, <2>4 DEF Keeping
    <3>2. Batch = items
      BY <3>1 DEF Batch
    <3>3. flushes' = <<>>
      BY <1>3, <3>1, EmptySeq
    <3>4. accepted = flushed'
      BY <1>1, <2>4, <3>2 DEF Keeping, InOrder
    <3>5. InOrder'
      BY <1>1, <1>2, <1>4, <3>4, ConcatEmptySeq DEF InOrder
    <3> QED BY <1>1, <1>5, <2>2, <3>3, <3>5 DEF Keeping
  <2> QED BY <2>3, <2>4
<1> QED BY <1>6, <1>7, <1>8, <1>9, <1>10 DEF IInv

(* A flush that throws leaves the queue as it is. *)
LEMMA ThrowKeeps ==
    ASSUME IInv, Throw, UNCHANGED <<throttleVars, inVars>>
    PROVE  IInv'
<1>1. /\ Lists /\ Timers /\ Counted /\ Outgoing /\ Keeping /\ flushes' = <<>>
      /\ UNCHANGED <<items, timeoutId, flushIn, batches, flushed, sentInWindow,
                     ready, counter, resetIn, accepted, refused, reentered>>
  BY DEF IInv, Throw, outVars, throttleVars, inVars
<1>2. flushes' \in Seq(Seq(Events)) /\ DOMAIN flushes' = {}
  BY <1>1, EmptySeq
<1>3. Lists' /\ Timers' /\ Counted' /\ Outgoing'
  BY <1>1, <1>2 DEF Lists, Timers, Counted, Outgoing
<1>4. Keeping'
  BY <1>1, <1>2 DEF Keeping, InOrder
<1> QED BY <1>3, <1>4 DEF IInv

(* The queue's timer flushes the whole queue. *)
LEMMA FlushTimerKeeps ==
    ASSUME IInv, FlushTimer
    PROVE  IInv'
<1>1. /\ Lists /\ Timers /\ Counted /\ Outgoing /\ Keeping
      /\ flushes' = <<items>> /\ flushIn' = Off
      /\ UNCHANGED <<items, timeoutId, batches, flushed, sentInWindow,
                     ready, counter, resetIn, accepted, refused, reentered>>
  BY DEF IInv, FlushTimer, outVars, throttleVars, inVars
<1>2. flushes' \in Seq(Seq(Events))
  <2>1. ASSUME NEW S, NEW s \in S PROVE <<s>> \in Seq(S)
    OBVIOUS
  <2> QED BY <1>1, <2>1 DEF Lists
<1>3. Lists'
  BY <1>1, <1>2 DEF Lists
<1>4. Timers' /\ Counted' /\ Outgoing'
  BY <1>1, EventQueueAssumption DEF Timers, Counted, Outgoing, Off
<1>5. \A k \in DOMAIN flushes' : flushes'[k] = items'
  BY <1>1
<1>6. Keeping'
  BY <1>1, <1>5 DEF Keeping, InOrder
<1> QED BY <1>3, <1>4, <1>6 DEF IInv

(* What the filters decide. *)
LEMMA FilterKeepsInvariant ==
    ASSUME IInv, Filter
    PROVE  IInv'
<1>1. CASE FilterKeeps
  <2>1. CASE Serialise
    <3>1. /\ batches' = Append(batches, [events |-> Range(Batch),
                                         phase |-> "compressing"])
          /\ flushes # <<>> /\ flushed' = flushed \o Batch /\ Clear
          /\ UNCHANGED <<sentInWindow, throttleVars, inVars>>
      BY <1>1, <2>1 DEF FilterKeeps
    <3> QED BY <3>1, ClearKeeps DEF Phases
  <2>2. CASE ~Serialise
    BY <1>1, <2>2, ThrowKeeps DEF FilterKeeps
  <2> QED BY <2>1, <2>2
<1>2. CASE FilterDrops
  <2>1. /\ batches' = Append(batches, [events |-> Range(Batch), phase |-> "filtered"])
        /\ flushes # <<>> /\ flushed' = flushed \o Batch /\ Clear
        /\ UNCHANGED <<sentInWindow, throttleVars, inVars>>
    BY <1>2 DEF FilterDrops
  <2> QED BY <2>1, ClearKeeps DEF Phases
<1>3. CASE FilterThrows
  BY <1>3, ThrowKeeps DEF FilterThrows
<1> QED BY <1>1, <1>2, <1>3 DEF Filter

-----------------------------------------------------------------------------
(* The other actions *)

(* A batch moves on; the queue is not concerned. *)
LEMMA BatchMoves ==
    ASSUME IInv, NEW i \in DOMAIN batches, Proceed(i) \/ Answer(i)
    PROVE  IInv'
<1>1. /\ Lists /\ Timers /\ Counted /\ Outgoing /\ Keeping
  BY DEF IInv
<1>2. PICK phase \in Phases : Move(i, phase)
  BY DEF Proceed, Answer, Post, Reject, Hang, Phases
<1>3. UNCHANGED <<flushed, throttleVars, queueVars, inVars>>
  BY <1>2 DEF Move
<1>4. Lists' /\ Timers' /\ Counted' /\ Keeping'
  BY <1>1, <1>3 DEF Lists, Timers, Counted, Keeping, InOrder, throttleVars, queueVars,
                    inVars
<1>5. batches' \in Seq([events : SUBSET Events, phase : Phases])
  <2> DEFINE B == [events : SUBSET Events, phase : Phases]
             b == [batches[i] EXCEPT !.phase = phase]
  <2>1. batches \in Seq(B) /\ i \in 1..Len(batches)
    BY <1>1, LenProperties DEF Outgoing
  <2>2. batches[i] \in B
    BY <2>1, ElementOfSeq
  <2>3. b \in B /\ batches' = [batches EXCEPT ![i] = b]
    BY <1>2, <2>2 DEF Move
  <2> HIDE DEF B, b
  <2>4. batches' \in Seq(B)
    BY <2>1, <2>3, ExceptSeq
  <2> QED BY <2>4 DEF B
<1>6. sentInWindow' \in Nat
  <2>1. sentInWindow \in Nat /\ batches[i].events \subseteq Events
    <3> DEFINE B == [events : SUBSET Events, phase : Phases]
    <3>1. batches \in Seq(B) /\ i \in 1..Len(batches) /\ sentInWindow \in Nat
      BY <1>1, LenProperties DEF Outgoing
    <3>2. batches[i] \in B
      BY <3>1, ElementOfSeq
    <3> QED BY <3>1, <3>2
  <2>2. Cardinality(batches[i].events) \in Nat
    BY <2>1, EventQueueAssumption, FS_Subset, FS_CardinalityType
  <2>3. sentInWindow' \in {0, sentInWindow, sentInWindow + Cardinality(batches[i].events)}
    BY DEF Proceed, Answer, Post, Reject, Hang
  <2> QED BY <2>1, <2>2, <2>3
<1> QED BY <1>4, <1>5, <1>6 DEF IInv, Outgoing

(* Time passes, the throttle's window closes, ApmServer.init. *)
LEMMA ClockKeeps ==
    ASSUME IInv, Tick \/ ThrottleTimer \/ ServerInit \/ UNCHANGED vars
    PROVE  IInv'
<1>1. /\ Lists /\ Timers /\ Counted /\ Outgoing /\ Keeping
  BY DEF IInv
<1>2. UNCHANGED <<items, flushes, timeoutId, batches, flushed, accepted, refused,
                  reentered>>
  BY DEF Tick, ThrottleTimer, ServerInit, vars, outVars, inVars, queueVars
<1>3. Lists' /\ Keeping'
  BY <1>1, <1>2 DEF Lists, Keeping, InOrder
<1>4. Outgoing'
  <2>1. sentInWindow' \in {0, sentInWindow}
    BY DEF Tick, ThrottleTimer, ServerInit, vars, outVars, inVars, queueVars
  <2> QED BY <1>1, <1>2, <2>1 DEF Outgoing
<1>5. Counted'
  <2>1. counter' \in {0, counter}
    BY DEF Tick, ThrottleTimer, ServerInit, vars, throttleVars
  <2>2. accepted \in Seq(Events) /\ refused \subseteq Events
    BY <1>1 DEF Lists
  <2>3. Range(accepted) \cup refused \subseteq Events
    BY <2>2, RangeInSet
  <2>4. Cardinality(Range(accepted) \cup refused) \in Nat
    BY <2>3, EventQueueAssumption, FS_Subset, FS_CardinalityType
  <2> QED BY <1>1, <1>2, <2>1, <2>4 DEF Counted
<1>6. Timers'
  <2>1. resetIn \in Off..ThrottleInterval /\ flushIn \in Off..FlushInterval
    BY <1>1 DEF Timers
  <2>2. resetIn' \in Off..ThrottleInterval /\ flushIn' \in Off..FlushInterval
    BY <2>1, EventQueueAssumption
       DEF Off, Tick, ThrottleTimer, ServerInit, vars, throttleVars, queueVars
  <2>3. ready' \in BOOLEAN
    BY <1>1 DEF Timers, Tick, ThrottleTimer, ServerInit, vars, throttleVars
  <2> QED BY <1>1, <1>2, <2>2, <2>3 DEF Timers
<1> QED BY <1>3, <1>4, <1>5, <1>6 DEF IInv

(* Capturing, from a script and from a filter *)
LEMMA CaptureStep ==
    ASSUME IInv, NEW e \in Events, Capture(e) \/ FilterCaptures(e)
    PROVE  IInv'
<1>1. Add(e) /\ reentered' \in {reentered, reentered \cup {e}}
  BY DEF Capture, FilterCaptures
<1>2. Lists' /\ Outgoing' /\ Counted' /\ Timers'
  BY <1>1, AddLists, AddCounts
<1>3. Keeping'
  BY CaptureKeeps, FilterCapturesKeeps
<1> QED BY <1>2, <1>3 DEF IInv

LEMMA InitInv == Init => IInv
<1> SUFFICES ASSUME Init PROVE IInv
  OBVIOUS
<1>1. /\ items = <<>> /\ flushes = <<>> /\ accepted = <<>> /\ flushed = <<>>
      /\ batches = <<>> /\ refused = {} /\ reentered = {} /\ ready = FALSE
      /\ counter = 0 /\ resetIn = Off /\ timeoutId = FALSE /\ flushIn = Off
      /\ sentInWindow = 0
  BY DEF Init
<1>2. ASSUME NEW S PROVE <<>> \in Seq(S)
  OBVIOUS
<1>3. Lists
  BY <1>1, <1>2, Zenon DEF Lists
<1>4. Timers
  <2>1. Off \in Off..FlushInterval /\ Off \in Off..ThrottleInterval
    BY EventQueueAssumption DEF Off
  <2> QED BY <1>1, <2>1, Zenon DEF Timers
<1>5. Counted
  <2>1. Range(accepted) \cup refused = {}
    BY <1>1 DEF Range
  <2> QED BY <1>1, <2>1, FS_EmptySet DEF Counted
<1>6. Outgoing
  <2>1. sentInWindow \in Nat
    BY <1>1
  <2> QED BY <1>1, <1>2, <2>1, Zenon DEF Outgoing
<1>7. Keeping
  <2>1. Range(accepted) = {} /\ Range(items) = {} /\ DOMAIN flushes = {}
    BY <1>1 DEF Range
  <2>2. accepted = flushed \o items
    BY <1>1, EmptySeq, ConcatEmptySeq
  <2> QED BY <1>1, <2>1, <2>2 DEF Keeping, InOrder
<1> QED BY <1>3, <1>4, <1>5, <1>6, <1>7 DEF IInv

(* Every step keeps the invariant.                                          *)
LEMMA NextKeepsInv ==
    ASSUME IInv, [Next]_vars
    PROVE  IInv'
<1>1. CASE FlushTimer
  BY <1>1, FlushTimerKeeps
<1>2. CASE Filter
  BY <1>2, FilterKeepsInvariant
<1>3. CASE Tick \/ ThrottleTimer \/ ServerInit \/ UNCHANGED vars
  BY <1>3, ClockKeeps
<1>4. CASE \E e \in Events : Capture(e) \/ FilterCaptures(e)
  BY <1>4, CaptureStep
<1>5. CASE \E i \in DOMAIN batches : Proceed(i) \/ Answer(i)
  BY <1>5, BatchMoves
<1> QED BY <1>1, <1>2, <1>3, <1>4, <1>5 DEF Next

-----------------------------------------------------------------------------
(* Theorems *)

(* The invariant the other theorems rest on. *)
THEOREM Invariance == Spec => []IInv
BY InitInv, NextKeepsInv, PTL DEF Spec

(* The variables have their types; the throttle counts no event twice       *)
(* (throttle.js:28).                                                        *)
THEOREM TypeCorrect == Spec => []TypeOK
<1>1. IInv => TypeOK
  <2> SUFFICES ASSUME IInv PROVE TypeOK
    OBVIOUS
  <2>1. Lists /\ Timers /\ Counted /\ Outgoing
    BY DEF IInv
  <2>2. Range(accepted) \cup refused \subseteq Events
    BY <2>1, RangeInSet DEF Lists
  <2>3. /\ Cardinality(Events) \in Nat
        /\ Cardinality(Range(accepted) \cup refused) \in Nat
        /\ Cardinality(Range(accepted) \cup refused) <= Cardinality(Events)
    BY <2>2, EventQueueAssumption, FS_Subset, FS_CardinalityType
  <2>4. counter \in 0..Cardinality(Events)
    BY <2>1, <2>3 DEF Counted
  <2> QED BY <2>1, <2>4 DEF TypeOK, Lists, Timers, Outgoing
<1> QED BY <1>1, Invariance, PTL

(* The queue keeps its events: in order and once, and none is lost but from *)
(* a flush in which a filter captured an event (queue.js:43).               *)
THEOREM EventsKeptHolds == Spec => []EventsKept
<1>1. IInv => EventsKept
  BY DEF IInv, Keeping, EventsKept, LostOnlyFromFilters
<1> QED BY <1>1, Invariance, PTL

(* What waits has a timer, as long as neither a filter nor the              *)
(* serialisation throws inside a flush (queue.js:36): after a flush that    *)
(* throws, it is false (the run StuckQueue).                                *)
THEOREM WaitingIsScheduledHolds ==
    "throw" \notin FilterOutcomes /\ Poison = {} => (Spec => []WaitingIsScheduled)
<1> SUFFICES ASSUME "throw" \notin FilterOutcomes, Poison = {}
    PROVE  Spec => []WaitingIsScheduled
  OBVIOUS
<1>1. Init => WaitingIsScheduled
  BY DEF Init, WaitingIsScheduled
<1>2. IInv /\ WaitingIsScheduled /\ [Next]_vars => WaitingIsScheduled'
  <2> SUFFICES ASSUME IInv, WaitingIsScheduled, [Next]_vars PROVE WaitingIsScheduled'
    OBVIOUS
  <2>1. ASSUME NEW e \in Events, Capture(e) \/ FilterCaptures(e)
        PROVE  WaitingIsScheduled'
    <3>1. Add(e) /\ flushes \in Seq(Seq(Events)) /\ items \in Seq(Events)
      BY <2>1 DEF Capture, FilterCaptures, IInv, Lists
    <3>2. Append(items, e) \in Seq(Events)
      BY <3>1, RangeOfAppend
    <3>3. ASSUME NEW q \in Seq(Events) PROVE Append(flushes, q) # <<>>
      <4>1. ASSUME NEW S, NEW s \in Seq(S), NEW x \in S PROVE Append(s, x) # <<>>
        OBVIOUS
      <4> QED BY <3>1, <3>3, <4>1
    <3>4. CASE UNCHANGED <<items, flushes, timeoutId, flushIn>>
      BY <3>4 DEF WaitingIsScheduled
    <3>5. CASE items' = Append(items, e) /\ flushes' = Append(flushes, items')
      BY <3>2, <3>3, <3>5 DEF WaitingIsScheduled
    <3>6. CASE /\ flushes' = flushes /\ timeoutId' = TRUE
               /\ flushIn' = IF timeoutId THEN flushIn ELSE FlushInterval
      <4>1. FlushInterval # Off
        BY EventQueueAssumption DEF Off
      <4> QED BY <3>6, <4>1 DEF WaitingIsScheduled
    <3> QED BY <3>1, <3>4, <3>5, <3>6, AddCases
  <2>2. CASE Filter
    <3>1. Clear
      BY <2>2 DEF Filter, FilterKeeps, FilterDrops, FilterThrows, Serialise
    <3> QED BY <3>1 DEF Clear, WaitingIsScheduled
  <2>3. CASE FlushTimer
    BY <2>3 DEF FlushTimer, WaitingIsScheduled
  <2>4. CASE Tick
    <3>1. /\ UNCHANGED <<items, flushes, timeoutId>> /\ flushIn # 0
          /\ flushIn' = IF flushIn = Off THEN Off ELSE flushIn - 1
      BY <2>4 DEF Tick
    <3>2. flushIn \in Off..FlushInterval
      BY DEF IInv, Timers
    <3>3. flushIn' = Off <=> flushIn = Off
      BY <3>1, <3>2, EventQueueAssumption DEF Off
    <3> QED BY <3>1, <3>3 DEF WaitingIsScheduled
  <2>5. CASE ThrottleTimer \/ ServerInit \/ UNCHANGED vars
             \/ \E i \in DOMAIN batches : Proceed(i) \/ Answer(i)
    <3>1. UNCHANGED <<items, flushes, timeoutId, flushIn>>
      BY <2>5 DEF ThrottleTimer, ServerInit, vars, queueVars, Proceed, Answer, Post,
                  Reject, Hang, Move
    <3> QED BY <3>1 DEF WaitingIsScheduled
  <2> QED BY <2>1, <2>2, <2>3, <2>4, <2>5 DEF Next
<1> QED BY <1>1, <1>2, Invariance, PTL DEF Spec

-----------------------------------------------------------------------------
(* The refinement of EventDelivery *)

(* The events of a batch stay its own: each is in one batch, or refused, or *)
(* in the queue.                                                            *)
BatchOf(e, i) == i \in DOMAIN batches /\ e \in batches[i].events

Placed ==
    /\ reentered = {}
    /\ \A e \in Range(accepted) : e \notin refused
    /\ \A e \in Range(items) : e \notin Range(flushed)
    /\ \A e \in Range(flushed) : \E i : BatchOf(e, i)
    /\ \A e, i : BatchOf(e, i) => e \in Range(flushed)
    /\ \A e, i, j : BatchOf(e, i) /\ BatchOf(e, j) => i = j

PInv == IInv /\ Placed

(* What becomes of the events of a batch *)
PhaseFate(phase) ==
    CASE phase \in {"compressing", "hung", "sent"} -> "sending"
      [] phase \in {"rejected", "failed"} -> "lost"
      [] OTHER -> phase

(* Without a filter that captures, what was accepted is in a batch or waits. *)
LEMMA AcceptedIs ==
    ASSUME PInv
    PROVE  /\ Range(accepted) = Range(flushed) \cup Range(items)
           /\ Range(accepted) \subseteq Events
<1>1. accepted = flushed \o items /\ flushed \in Seq(Events) /\ items \in Seq(Events)
  BY DEF PInv, Placed, IInv, Keeping, InOrder, Lists
<1> QED BY <1>1, RangeOfConcat, RangeInSet

(* The fate of an event, by where it is *)
LEMMA FateIs ==
    ASSUME PInv, NEW e \in Events
    PROVE  /\ e \in refused => Fate(e) = "refused"
           /\ e \in Range(items) => Fate(e) = "queued"
           /\ \A i : BatchOf(e, i) => Fate(e) = PhaseFate(batches[i].phase)
           /\ e \notin refused \cup Range(accepted) => Fate(e) = "new"
<1>1. e \in Range(accepted) <=> e \in Range(flushed) \/ e \in Range(items)
  BY AcceptedIs
<1>2. e \in Range(accepted) => e \notin refused
  BY DEF PInv, Placed
<1>3. e \in Range(flushed) <=> \E i : BatchOf(e, i)
  BY DEF PInv, Placed
<1>4. e \in Range(items) => e \notin Range(flushed)
  BY DEF PInv, Placed
<1>0. Took(e) = {} <=> e \notin Range(flushed)
  BY <1>3 DEF Took, BatchOf
<1>5. ASSUME e \in refused PROVE Fate(e) = "refused"
  BY <1>5 DEF Fate
<1>6. ASSUME e \in Range(items) PROVE Fate(e) = "queued"
  BY <1>0, <1>1, <1>2, <1>4, <1>6 DEF Fate
<1>7. ASSUME NEW i, BatchOf(e, i)
      PROVE  Fate(e) = PhaseFate(batches[i].phase)
  <2>1. Took(e) = {i}
    BY <1>7 DEF PInv, Placed, BatchOf, Took
  <2>2. e \notin refused /\ ~SentAgain(e)
    BY <1>1, <1>2, <1>3, <1>4, <1>7, <2>1 DEF SentAgain
  <2>3. i = CHOOSE j \in Took(e) : TRUE
    BY <2>1
  <2> QED BY <2>1, <2>2, <2>3 DEF Fate, PhaseFate
<1>8. ASSUME e \notin refused \cup Range(accepted) PROVE Fate(e) = "new"
  BY <1>0, <1>1, <1>8 DEF Fate
<1> QED BY <1>5, <1>6, <1>7, <1>8

(* The fate of all events is a function of four. *)
DeliveryStatus == [e \in Events |-> Fate(e)]

LEMMA QueuedAre ==
    ASSUME PInv
    PROVE  Delivery!In("queued") = Range(items)
<1>1. \A e \in Events : Delivery!In("queued") \subseteq Events
                        /\ (e \in Delivery!In("queued") <=> Fate(e) = "queued")
  BY DEF Delivery!In
<1>2. Range(items) \subseteq Events
  BY AcceptedIs
<1>3. ASSUME NEW e \in Events, Fate(e) = "queued" PROVE e \in Range(items)
  <2>1. e \notin refused /\ (e \in refused \/ e \in Range(accepted))
    BY <1>3, FateIs
  <2>2. \A i : BatchOf(e, i) => FALSE
    <3>1. ASSUME NEW i, BatchOf(e, i) PROVE FALSE
      <4>1. batches[i].phase \in Phases
        <5> DEFINE B == [events : SUBSET Events, phase : Phases]
        <5>1. batches \in Seq(B) /\ i \in 1..Len(batches)
          BY <3>1, LenProperties DEF BatchOf, PInv, IInv, Outgoing
        <5>2. batches[i] \in B
          BY <5>1, ElementOfSeq
        <5> QED BY <5>2
      <4>2. PhaseFate(batches[i].phase) = "queued"
        BY <1>3, <3>1, FateIs
      <4> QED BY <4>1, <4>2 DEF PhaseFate, Phases
    <3> QED BY <3>1
  <2>3. e \in Range(flushed) => \E i : BatchOf(e, i)
    BY DEF PInv, Placed
  <2> QED BY <2>1, <2>2, <2>3, AcceptedIs
<1>4. \A e \in Range(items) : e \in Events /\ Fate(e) = "queued"
  BY <1>2, FateIs
<1> QED BY <1>1, <1>3, <1>4 DEF Delivery!In

(* An event that a script captures is in the queue, or refused.             *)
LEMMA CapturePlaces ==
    ASSUME PInv, NEW e \in Events, Capture(e)
    PROVE  Placed'
<1>1. /\ Add(e) /\ reentered' = {} /\ e \notin Range(accepted) \cup refused
      /\ UNCHANGED <<batches, flushed>>
      /\ accepted \in Seq(Events) /\ items \in Seq(Events)
  BY AddCases DEF Capture, PInv, Placed, IInv, Lists
<1>2. \A x, i : BatchOf(x, i)' <=> BatchOf(x, i)
  BY <1>1 DEF BatchOf
<1>3. CASE refused' = refused \cup {e} /\ UNCHANGED <<accepted, items>>
  BY <1>1, <1>2, <1>3 DEF PInv, Placed
<1>4. CASE /\ refused' = refused
           /\ accepted' = Append(accepted, e) /\ items' = Append(items, e)
  <2>1. /\ Range(accepted') = Range(accepted) \cup {e}
        /\ Range(items') = Range(items) \cup {e}
    BY <1>1, <1>4, RangeOfAppend
  <2>2. e \notin Range(flushed)
    BY <1>1, AcceptedIs
  <2> QED BY <1>1, <1>2, <1>4, <2>1, <2>2 DEF PInv, Placed
<1> QED BY <1>1, <1>3, <1>4, AddCases

(* Without a filter that captures, the batch of a flush is the queue.       *)
LEMMA BatchIsQueue ==
    ASSUME PInv, flushes # <<>>
    PROVE  Batch = items
<1>1. flushes = <<items>>
  BY DEF PInv, Placed, IInv, Keeping
<1> QED BY <1>1 DEF Batch

(* A batch that leaves *)
Leaves(phase) ==
    batches' = Append(batches, [events |-> Range(Batch), phase |-> phase])

LEMMA LeavingBatch ==
    ASSUME PInv, flushes # <<>>, NEW phase \in Phases, Leaves(phase)
    PROVE  /\ \A e, i : BatchOf(e, i)' <=>
                 \/ BatchOf(e, i)
                 \/ i = Len(batches) + 1 /\ e \in Range(items)
           /\ \A i \in DOMAIN batches : batches'[i] = batches[i]
           /\ batches'[Len(batches) + 1].phase = phase
           /\ Len(batches) + 1 \notin DOMAIN batches
<1> DEFINE B == [events : SUBSET Events, phase : Phases]
<1>1. PICK b : b = [events |-> Range(items), phase |-> phase]
  OBVIOUS
<1>2. batches \in Seq(B) /\ batches' = Append(batches, b) /\ b \in B
  <2>1. Range(items) \subseteq Events
    BY AcceptedIs
  <2> QED BY <1>1, <2>1, BatchIsQueue DEF PInv, IInv, Outgoing, Leaves
<1> HIDE DEF B
<1>3. /\ DOMAIN batches' = 1..(Len(batches) + 1) /\ Len(batches) \in Nat
      /\ DOMAIN batches = 1..Len(batches)
      /\ \A i \in 1..Len(batches) : batches'[i] = batches[i]
      /\ batches'[Len(batches) + 1] = b
  BY <1>2
<1>4. \A i : i \in DOMAIN batches' <=> i \in DOMAIN batches \/ i = Len(batches) + 1
  BY <1>3
<1>5. Len(batches) + 1 \notin DOMAIN batches
  BY <1>3
<1> QED BY <1>1, <1>3, <1>4, <1>5 DEF BatchOf

(* It is the place of what was in the queue.                                *)
LEMMA ClearPlaces ==
    ASSUME PInv, flushes # <<>>, Clear, flushed' = flushed \o Batch,
           NEW phase \in Phases, Leaves(phase), UNCHANGED inVars
    PROVE  Placed'
<1>1. /\ flushed \in Seq(Events) /\ items \in Seq(Events) /\ reentered' = {}
      /\ UNCHANGED <<accepted, refused>> /\ items' = <<>>
      /\ flushed' = flushed \o items
  BY BatchIsQueue DEF PInv, Placed, IInv, Lists, inVars, Clear
<1>2. Range(flushed') = Range(flushed) \cup Range(items)
  BY <1>1, RangeOfConcat
<1>3. Range(items') = {}
  BY <1>1, EmptySeq DEF Range
<1>4. \A e \in Range(items) : \A i : ~BatchOf(e, i)
  BY DEF PInv, Placed
<1>5. \A e, i : BatchOf(e, i) => i # Len(batches) + 1
  BY LeavingBatch DEF BatchOf
<1>6. /\ \A e \in Range(flushed') : \E i : BatchOf(e, i)'
      /\ \A e, i : BatchOf(e, i)' => e \in Range(flushed')
  BY <1>2, LeavingBatch DEF PInv, Placed
<1>7. ASSUME NEW e, NEW i, NEW j, BatchOf(e, i)', BatchOf(e, j)'
      PROVE  i = j
  BY <1>4, <1>7, LeavingBatch DEF PInv, Placed
<1> QED BY <1>1, <1>3, <1>6, <1>7 DEF PInv, Placed

(* A batch that moves on keeps its events.                                  *)
LEMMA MoveIs ==
    ASSUME PInv, NEW i \in DOMAIN batches, NEW phase, Move(i, phase)
    PROVE  /\ \A e, j : BatchOf(e, j)' <=> BatchOf(e, j)
           /\ batches'[i].phase = phase
           /\ \A j \in DOMAIN batches \ {i} : batches'[j] = batches[j]
           /\ UNCHANGED <<flushed, items, accepted, refused, reentered>>
<1> DEFINE B == [events : SUBSET Events, phase : Phases]
<1>1. batches \in Seq(B) /\ i \in 1..Len(batches)
  BY LenProperties DEF PInv, IInv, Outgoing
<1>2. batches[i] \in B
  BY <1>1, ElementOfSeq
<1>3. batches' = [batches EXCEPT ![i] = [@ EXCEPT !.phase = phase]]
  BY DEF Move
<1>4. DOMAIN batches' = DOMAIN batches /\ batches'[i] = [batches[i] EXCEPT !.phase = phase]
      /\ \A j \in DOMAIN batches \ {i} : batches'[j] = batches[j]
  BY <1>3
<1>5. batches'[i].phase = phase /\ batches'[i].events = batches[i].events
  BY <1>2, <1>4
<1> QED BY <1>4, <1>5 DEF BatchOf, Move, queueVars, inVars

(* Every event keeps its place.                                             *)
LEMMA PlacesKept ==
    ASSUME PInv, [Next]_vars, "capture" \notin FilterOutcomes
    PROVE  Placed'
<1>1. ASSUME UNCHANGED <<batches, flushed, items, accepted, refused, reentered>>
      PROVE  Placed'
  <2>1. \A e, i : BatchOf(e, i)' <=> BatchOf(e, i)
    BY <1>1 DEF BatchOf
  <2> QED BY <1>1, <2>1 DEF PInv, Placed
<1>2. CASE Filter
  <2>1. CASE Throw /\ UNCHANGED inVars
    BY <1>1, <2>1 DEF Throw, outVars, inVars
  <2>2. ASSUME flushes # <<>>, Clear, flushed' = flushed \o Batch, UNCHANGED inVars,
               Leaves("compressing") \/ Leaves("filtered")
        PROVE  Placed'
    BY <2>2, ClearPlaces DEF Phases
  <2> QED BY <1>2, <2>1, <2>2
          DEF Filter, FilterKeeps, FilterDrops, FilterThrows, Leaves
<1>3. CASE FlushTimer \/ ServerInit \/ Tick \/ ThrottleTimer \/ UNCHANGED vars
  BY <1>1, <1>3 DEF FlushTimer, ServerInit, Tick, ThrottleTimer, vars, outVars, inVars,
                    queueVars
<1>4. CASE \E e \in Events : Capture(e) \/ FilterCaptures(e)
  BY <1>4, CapturePlaces DEF FilterCaptures
<1>5. CASE \E i \in DOMAIN batches : Proceed(i) \/ Answer(i)
  <2>1. PICK i \in DOMAIN batches : \E phase \in Phases : Move(i, phase)
    BY <1>5 DEF Proceed, Answer, Post, Reject, Hang, Phases
  <2> QED BY <2>1, MoveIs DEF PInv, Placed
<1> QED BY <1>2, <1>3, <1>4, <1>5 DEF Next

LEMMA PlacedInvariance ==
    "capture" \notin FilterOutcomes => (Spec => []PInv)
<1> SUFFICES ASSUME "capture" \notin FilterOutcomes PROVE Spec => []PInv
  OBVIOUS
<1>1. Init => Placed
  <2> SUFFICES ASSUME Init PROVE Placed
    OBVIOUS
  <2>1. /\ reentered = {} /\ Range(accepted) = {} /\ Range(items) = {}
        /\ Range(flushed) = {} /\ DOMAIN batches = {}
    BY DEF Init, Range
  <2> QED BY <2>1 DEF Placed, BatchOf
<1>2. IInv /\ Placed /\ [Next]_vars => Placed'
  BY PlacesKept DEF PInv
<1> QED BY <1>1, <1>2, Invariance, PTL DEF Spec, PInv

(* The fate of every event, by where it is *)
Fates ==
    \A e \in Events :
        /\ e \in refused => Fate(e) = "refused"
        /\ e \in Range(items) => Fate(e) = "queued"
        /\ \A i : BatchOf(e, i) => Fate(e) = PhaseFate(batches[i].phase)
        /\ e \notin refused \cup Range(accepted) => Fate(e) = "new"

LEMMA FatesAre == PInv => Fates
BY FateIs DEF Fates

LEMMA FatesNext == PInv' => Fates'
BY FatesAre, PTL

(* What a step changes is the fate of some events, all to the same.         *)
Became(S, s) == \A e \in Events : Fate(e)' = IF e \in S THEN s ELSE Fate(e)

LEMMA BecomeIs ==
    ASSUME NEW S, NEW s, Became(S, s)
    PROVE  Delivery!Become(S, s)
<1>1. \A e \in Events : Fate(e)' = IF e \in S THEN s ELSE DeliveryStatus[e]
  BY DEF Became, DeliveryStatus
<1> QED BY <1>1 DEF DeliveryStatus, Delivery!Become

(* An event in no batch, not waiting and not refused is new.                *)
LEMMA PlacesAre ==
    ASSUME PInv, NEW e \in Events
    PROVE  \/ e \in refused \/ e \in Range(items) \/ \E i : BatchOf(e, i)
           \/ e \notin refused \cup Range(accepted)
BY AcceptedIs DEF PInv, Placed

(* The fate of an event changes only with its place or the phase of its batch. *)
LEMMA FateStays ==
    ASSUME PInv, PInv', NEW e \in Events,
           e \in refused => e \in refused',
           e \in Range(items) => e \in Range(items'),
           \A i : BatchOf(e, i) => /\ BatchOf(e, i)'
                                   /\ PhaseFate(batches'[i].phase)
                                        = PhaseFate(batches[i].phase),
           e \notin refused \cup Range(accepted)
             => e \notin refused' \cup Range(accepted')
    PROVE  Fate(e)' = Fate(e)
<1>1. CASE e \in refused
  BY <1>1, FatesAre, FatesNext DEF Fates
<1>2. CASE e \in Range(items)
  BY <1>2, FatesAre, FatesNext DEF Fates
<1>3. CASE \E i : BatchOf(e, i)
  BY <1>3, FatesAre, FatesNext DEF Fates
<1>4. CASE e \notin refused \cup Range(accepted)
  BY <1>4, FatesAre, FatesNext DEF Fates
<1> QED BY <1>1, <1>2, <1>3, <1>4, PlacesAre

(* A captured event is offered.                                             *)
LEMMA CaptureRefines ==
    ASSUME PInv, PInv', NEW e \in Events, Capture(e)
    PROVE  Delivery!Next
<1>1. /\ e \notin Range(accepted) \cup refused /\ UNCHANGED <<batches, flushed>>
      /\ \/ refused' = refused \cup {e} /\ UNCHANGED <<accepted, items>>
         \/ /\ refused' = refused
            /\ accepted' = Append(accepted, e) /\ items' = Append(items, e)
      /\ accepted \in Seq(Events) /\ items \in Seq(Events)
  BY AddCases DEF Capture, PInv, IInv, Lists
<1>2. \A x, i : BatchOf(x, i)' <=> BatchOf(x, i)
  BY <1>1 DEF BatchOf
<1>3. Fate(e) = "new"
  BY <1>1, FatesAre DEF Fates
<1>4. /\ Range(accepted) \subseteq Range(accepted')
      /\ Range(accepted') \subseteq Range(accepted) \cup {e}
      /\ Range(items) \subseteq Range(items')
      /\ e \in refused' \/ e \in Range(items')
  <2>1. CASE refused' = refused \cup {e} /\ UNCHANGED <<accepted, items>>
    BY <2>1
  <2>2. CASE accepted' = Append(accepted, e) /\ items' = Append(items, e)
    <3>1. /\ Range(Append(accepted, e)) = Range(accepted) \cup {e}
          /\ Range(Append(items, e)) = Range(items) \cup {e}
      BY <1>1, RangeOfAppend
    <3>2. /\ Range(accepted') = Range(accepted) \cup {e}
          /\ Range(items') = Range(items) \cup {e}
      BY <2>2, <3>1
    <3> QED BY <3>2
  <2> QED BY <1>1, <2>1, <2>2
<1>5. \A x \in Events \ {e} : Fate(x)' = Fate(x)
  BY <1>1, <1>2, <1>4, FateStays
<1>6. Fate(e)' = "refused" \/ Fate(e)' = "queued"
  BY <1>4, FatesNext DEF Fates
<1>7. Became({e}, "queued") \/ Became({e}, "refused")
  BY <1>5, <1>6 DEF Became
<1>8. Delivery!Become({e}, "queued") \/ Delivery!Become({e}, "refused")
  BY <1>7, BecomeIs
<1>9. e \in Delivery!In("new")
  BY <1>3 DEF Delivery!In
<1> QED BY <1>8, <1>9 DEF Delivery!Next, Delivery!Offer

(* A flush takes all that waits, if anything does.                          *)
LEMMA FlushRefines ==
    ASSUME PInv, PInv', flushes # <<>>, Clear, UNCHANGED inVars,
           NEW phase \in {"compressing", "filtered"}, Leaves(phase)
    PROVE  Delivery!Flush \/ DeliveryStatus' = DeliveryStatus
<1>1. /\ phase \in Phases /\ UNCHANGED <<accepted, refused>>
  BY DEF Phases, inVars
<1>2. ASSUME NEW e \in Range(items) PROVE Fate(e)' = PhaseFate(phase)
  <2>1. PICK n : BatchOf(e, n)' /\ batches'[n].phase = phase
    <3>1. PICK n : n = Len(batches) + 1
      OBVIOUS
    <3>2. /\ \A x, i : BatchOf(x, i)' <=>
                 BatchOf(x, i) \/ (i = n /\ x \in Range(items))
          /\ batches'[n].phase = phase
      BY <1>1, <3>1, LeavingBatch
    <3> QED BY <1>2, <3>2
  <2>2. e \in Events
    BY <1>2, AcceptedIs
  <2> QED BY <2>1, <2>2, FatesNext DEF Fates
<1>3. ASSUME NEW e \in Events \ Range(items) PROVE Fate(e)' = Fate(e)
  <2>1. \A i : BatchOf(e, i) => BatchOf(e, i)' /\ batches'[i] = batches[i]
    BY <1>1, LeavingBatch DEF BatchOf
  <2> QED BY <1>1, <1>3, <2>1, FateStays
<1>4. Became(Range(items), PhaseFate(phase))
  BY <1>2, <1>3 DEF Became
<1>5. PhaseFate(phase) \in {"sending", "filtered"}
  BY DEF PhaseFate
<1>6. CASE Range(items) = {}
  BY <1>4, <1>6 DEF Became, DeliveryStatus
<1>7. CASE Range(items) # {}
  <2>1. Delivery!Become(Delivery!In("queued"), PhaseFate(phase))
    BY <1>4, BecomeIs, QueuedAre
  <2> QED BY <1>5, <1>7, <2>1, QueuedAre DEF Delivery!Flush
<1> QED BY <1>6, <1>7

(* A batch that moves on settles its events, or nothing is to be seen.      *)
LEMMA MoveRefines ==
    ASSUME PInv, PInv', NEW i \in DOMAIN batches, Proceed(i) \/ Answer(i)
    PROVE  Delivery!Settle \/ DeliveryStatus' = DeliveryStatus
<1>1. PICK phase \in {"sent", "rejected", "hung", "delivered", "failed"} :
        Move(i, phase) /\ batches[i].phase \in {"compressing", "sent"}
  BY DEF Proceed, Answer, Post, Reject, Hang, MayPost, Waiting
<1> DEFINE S == {e \in Events : BatchOf(e, i)}
<1>2. ASSUME NEW e \in S
      PROVE  Fate(e) = "sending" /\ Fate(e)' = PhaseFate(phase)
  <2>1. BatchOf(e, i)' /\ batches'[i].phase = phase
    BY <1>1, <1>2, MoveIs
  <2>2. Fate(e)' = PhaseFate(phase)
    BY <1>2, <2>1, FatesNext DEF Fates
  <2>3. Fate(e) = PhaseFate(batches[i].phase)
    BY <1>2, FatesAre DEF Fates
  <2> QED BY <1>1, <2>2, <2>3 DEF PhaseFate
<1>3. ASSUME NEW e \in Events \ S PROVE Fate(e)' = Fate(e)
  <2>1. \A j : BatchOf(e, j) => BatchOf(e, j)' /\ batches'[j] = batches[j]
    BY <1>1, <1>3, MoveIs DEF BatchOf
  <2>2. UNCHANGED <<items, accepted, refused>>
    BY <1>1, MoveIs
  <2> QED BY <1>3, <2>1, <2>2, FateStays
<1>4. Became(S, PhaseFate(phase))
  BY <1>2, <1>3 DEF Became
<1>5. S \in SUBSET Delivery!In("sending")
  BY <1>2 DEF Delivery!In
<1>6. PhaseFate(phase) \in {"sending", "delivered", "lost"}
  BY <1>1 DEF PhaseFate
<1>7. Delivery!Become(S, PhaseFate(phase))
  <2> HIDE DEF S
  <2> QED BY <1>4, BecomeIs
<1>8. CASE S = {} \/ PhaseFate(phase) = "sending"
  BY <1>2, <1>4, <1>8 DEF Became, DeliveryStatus
<1>9. CASE S # {} /\ PhaseFate(phase) # "sending"
  <2>1. PICK T : T = S
    OBVIOUS
  <2>2. PICK s : s = PhaseFate(phase)
    OBVIOUS
  <2> HIDE DEF S
  <2>3. T \in (SUBSET Delivery!In("sending")) \ {{}}
    BY <1>5, <1>9, <2>1
  <2>4. Delivery!Become(T, s) /\ s \in {"delivered", "lost"}
    BY <1>6, <1>7, <1>9, <2>1, <2>2
  <2>5. Delivery!Become(T, "delivered") \/ Delivery!Become(T, "lost")
    BY <2>4
  <2> QED BY <2>3, <2>5 DEF Delivery!Settle
<1> QED BY <1>8, <1>9

(* The queue implements what the agent promises about an event, if no       *)
(* filter captures: an event is refused or queued once, a flush takes all   *)
(* that waits, and what was sent is delivered or lost once, whatever the    *)
(* filters throw and the requests become (queue.js, apm-server.js).         *)
THEOREM DeliveryImplemented ==
    "capture" \notin FilterOutcomes =>
        (Spec => Delivery!Init /\ [][Delivery!Next]_DeliveryStatus)
<1> SUFFICES ASSUME "capture" \notin FilterOutcomes
    PROVE  Spec => Delivery!Init /\ [][Delivery!Next]_DeliveryStatus
  OBVIOUS
<1>1. Init => Delivery!Init
  <2> SUFFICES ASSUME Init PROVE Delivery!Init
    OBVIOUS
  <2>1. refused = {} /\ DOMAIN batches = {} /\ Range(accepted) = {}
    BY DEF Init, Range
  <2>2. \A e \in Events : Fate(e) = "new"
    BY <2>1 DEF Fate, Took
  <2> QED BY <2>2 DEF Delivery!Init
<1>2. PInv /\ PInv' /\ [Next]_vars => [Delivery!Next]_DeliveryStatus
  <2> SUFFICES ASSUME PInv, PInv', [Next]_vars
      PROVE  Delivery!Next \/ DeliveryStatus' = DeliveryStatus
    OBVIOUS
  <2>1. ASSUME UNCHANGED <<batches, accepted, items, refused>>
        PROVE  DeliveryStatus' = DeliveryStatus
    <3>1. \A e \in Events : Fate(e)' = Fate(e)
      <4>1. \A e, i : BatchOf(e, i)' <=> BatchOf(e, i)
        BY <2>1 DEF BatchOf
      <4> QED BY <2>1, <4>1, FateStays
    <3> QED BY <3>1 DEF DeliveryStatus
  <2>2. CASE Filter
    <3>1. CASE Throw /\ UNCHANGED inVars
      BY <2>1, <3>1 DEF Throw, outVars, inVars
    <3>2. ASSUME flushes # <<>>, Clear, UNCHANGED inVars,
                 Leaves("compressing") \/ Leaves("filtered")
          PROVE  Delivery!Flush \/ DeliveryStatus' = DeliveryStatus
      BY <3>2, FlushRefines
    <3> QED BY <2>2, <3>1, <3>2
            DEF Filter, FilterKeeps, FilterDrops, FilterThrows, Leaves, Delivery!Next
  <2>3. CASE FlushTimer \/ ServerInit \/ Tick \/ ThrottleTimer \/ UNCHANGED vars
    BY <2>1, <2>3 DEF FlushTimer, ServerInit, Tick, ThrottleTimer, vars, outVars,
                      inVars, queueVars
  <2>4. CASE \E e \in Events : Capture(e) \/ FilterCaptures(e)
    BY <2>4, CaptureRefines DEF FilterCaptures
  <2>5. CASE \E i \in DOMAIN batches : Proceed(i) \/ Answer(i)
    BY <2>5, MoveRefines DEF Delivery!Next
  <2> QED BY <2>2, <2>3, <2>4, <2>5 DEF Next
<1> QED BY <1>1, <1>2, PlacedInvariance, PTL DEF Spec

-----------------------------------------------------------------------------
(* What is sent in one window of the throttle *)

(* What the bound needs: no flush throws or is entered again, a batch is    *)
(* sent before anything else happens, and the queue's timer is the shorter  *)
(* one (the defaults are half a second and THROTTLE_INTERVAL's minute).     *)
Calm ==
    /\ FilterOutcomes \subseteq {"keep", "drop"}
    /\ Poison = {}
    /\ ~CompressionStream
    /\ FlushInterval < ThrottleInterval
    /\ EventsLimit > 0

(* The calls of this window that were accepted, and what they leave to send *)
Admitted == IF counter < EventsLimit THEN counter ELSE EventsLimit
Room == EventsLimit - 1 + Admitted

(* What was sent in this window and what waits for it fit into it; and the  *)
(* event that opened it has left the queue, or leaves it before it closes.  *)
Windows ==
    /\ counter = 0 <=> resetIn = Off
    /\ resetIn = Off => sentInWindow = 0
    /\ Waiting("compressing") = {} => sentInWindow + Len(items) <= Room
    /\ \A i \in Waiting("compressing") :
          /\ flushes = <<>> /\ items = <<>>
          /\ \A j \in Waiting("compressing") : j = i
          /\ sentInWindow + Cardinality(batches[i].events) <= Room
    /\ (flushes = <<>> /\ resetIn # Off) =>
          Len(items) < Admitted \/ (flushIn # Off /\ flushIn < resetIn)

(* The numbers are numbers. *)
LEMMA WindowNumbers ==
    ASSUME IInv
    PROVE  /\ counter \in Nat /\ sentInWindow \in Nat /\ Len(items) \in Nat
           /\ EventsLimit \in Nat /\ ThrottleInterval \in Nat /\ FlushInterval \in Nat
           /\ resetIn \in Int /\ flushIn \in Int /\ resetIn >= -1
           /\ flushIn >= -1 /\ flushIn <= FlushInterval
           /\ Admitted \in Nat /\ Admitted <= EventsLimit /\ Admitted <= counter
           /\ \A i \in DOMAIN batches : Cardinality(batches[i].events) \in Nat
<1>1. /\ counter \in Nat /\ sentInWindow \in Nat /\ Len(items) \in Nat
      /\ EventsLimit \in Nat /\ ThrottleInterval \in Nat /\ FlushInterval \in Nat
  BY EventQueueAssumption, LenProperties DEF IInv, Counted, Outgoing, Lists
<1>2. /\ resetIn \in Int /\ flushIn \in Int /\ resetIn >= -1
      /\ flushIn >= -1 /\ flushIn <= FlushInterval
  BY <1>1 DEF IInv, Timers, Off
<1>3. ASSUME NEW i \in DOMAIN batches PROVE Cardinality(batches[i].events) \in Nat
  <2> DEFINE B == [events : SUBSET Events, phase : Phases]
  <2>1. batches \in Seq(B) /\ i \in 1..Len(batches)
    BY <1>3, LenProperties DEF IInv, Outgoing
  <2>2. batches[i] \in B
    BY <2>1, ElementOfSeq
  <2> QED BY <2>2, EventQueueAssumption, FS_Subset, FS_CardinalityType
<1> QED BY <1>1, <1>2, <1>3 DEF Admitted

(* A sequence has no more elements than it is long. *)
LEMMA CardinalityOfRange ==
    ASSUME NEW S, NEW s \in Seq(S)
    PROVE  Cardinality(Range(s)) <= Len(s)
<1>1. Len(s) \in Nat /\ DOMAIN s = 1..Len(s) /\ s \in [1..Len(s) -> Range(s)]
  BY LenProperties DEF Range
<1>2. \A x \in Range(s) : \E i \in 1..Len(s) : s[i] = x
  BY <1>1 DEF Range
<1>3. ExistsSurjection(1..Len(s), Range(s))
  BY <1>1, <1>2 DEF ExistsSurjection, Surjection
<1> QED BY <1>1, <1>3, FS_SurjCardinalityBound

(* A script captures: nothing waits to be sent, and the window has room for *)
(* every event that is accepted; the one that opens it waits for less than  *)
(* the window lasts.                                                        *)
LEMMA CaptureInWindow ==
    ASSUME Calm, IInv, WaitingIsScheduled, Windows, NEW e \in Events, Capture(e)
    PROVE  Windows'
<1>1. /\ flushes = <<>> /\ Waiting("compressing") = {} /\ Add(e)
      /\ UNCHANGED <<batches, sentInWindow>> /\ Waiting("compressing")' = {}
  BY AddCases DEF Calm, Capture, Idle, Waiting
<1>2. /\ sentInWindow + Len(items) <= Room /\ (counter = 0 <=> resetIn = Off)
      /\ resetIn = Off => sentInWindow = 0
      /\ resetIn # Off =>
            Len(items) < Admitted \/ (flushIn # Off /\ flushIn < resetIn)
  BY <1>1 DEF Windows
<1>3. items \in Seq(Events) /\ Len(Append(items, e)) = Len(items) + 1
      /\ flushes \in Seq(Seq(Events))
  BY DEF IInv, Lists
<1>4. CASE UNCHANGED <<counter, resetIn, items, flushes, flushIn>>
  BY <1>1, <1>2, <1>4 DEF Windows, Room, Admitted
<1>5. CASE ready
  <2>1. /\ counter' = counter + 1
        /\ resetIn' = IF resetIn = Off THEN ThrottleInterval ELSE resetIn
    BY <1>1, <1>5 DEF Add, Count
  <2>2. counter' # 0 /\ resetIn' # Off /\ (resetIn' # Off => resetIn # Off \/
          resetIn' = ThrottleInterval)
    BY <1>2, <2>1, WindowNumbers, EventQueueAssumption DEF Off
  <2>3. CASE counter' > EventsLimit
    <3>1. UNCHANGED <<items, flushes, flushIn>>
      BY <1>1, <1>5, <2>3 DEF Add, queueVars
    <3>2. Admitted' = Admitted /\ resetIn # Off
      BY <1>2, <2>1, <2>3, WindowNumbers DEF Admitted, Calm
    <3> QED BY <1>1, <1>2, <2>1, <2>2, <3>1, <3>2 DEF Windows, Room
  <2>4. CASE ~(counter' > EventsLimit)
    <3>1. QueueAdd(e)
      BY <1>1, <1>5, <2>4 DEF Add
    <3>2. Admitted' = Admitted + 1
      BY <2>1, <2>4, WindowNumbers DEF Admitted
    <3>3. items' = Append(items, e) /\ Len(items') = Len(items) + 1
      BY <1>3, <3>1 DEF QueueAdd
    <3>4. sentInWindow' + Len(items') <= Room'
      BY <1>1, <1>2, <3>2, <3>3, WindowNumbers DEF Room
    <3>5. CASE flushes' = Append(flushes, items')
      <4>1. flushes' # <<>>
        BY <1>3, <3>5
      <4> QED BY <1>1, <2>2, <3>4, <4>1 DEF Windows
    <3>6. CASE /\ flushes' = flushes
               /\ flushIn' = IF timeoutId THEN flushIn ELSE FlushInterval
      <4>1. timeoutId <=> flushIn # Off
        BY <1>1 DEF WaitingIsScheduled
      <4>2. CASE resetIn = Off
        <5>1. flushIn' # Off /\ flushIn' < resetIn'
          BY <2>1, <3>6, <4>1, <4>2, WindowNumbers DEF Calm, Off
        <5> QED BY <1>1, <2>2, <3>4, <5>1 DEF Windows
      <4>3. CASE resetIn # Off
        <5>1. CASE Len(items) < Admitted
          <6>1. Len(items') < Admitted'
            BY <3>2, <3>3, <5>1, WindowNumbers
          <6> QED BY <1>1, <2>2, <3>4, <6>1 DEF Windows
        <5>2. CASE flushIn # Off /\ flushIn < resetIn
          <6>1. flushIn' # Off /\ flushIn' < resetIn'
            BY <2>1, <3>6, <4>1, <4>3, <5>2
          <6> QED BY <1>1, <2>2, <3>4, <6>1 DEF Windows
        <5> QED BY <1>2, <4>3, <5>1, <5>2
      <4> QED BY <4>2, <4>3
    <3> QED BY <3>1, <3>5, <3>6 DEF QueueAdd
  <2> QED BY <2>3, <2>4
<1>6. CASE ~ready
  BY <1>1, <1>4, <1>6 DEF Add, queueVars
<1> QED BY <1>5, <1>6

(* A batch leaves with what was in the queue.                               *)
LEMMA FlushInWindow ==
    ASSUME Calm, PInv, Windows, Filter
    PROVE  Windows'
<1>1. PICK phase \in {"compressing", "filtered"} :
        /\ flushes # <<>> /\ Clear /\ Leaves(phase)
        /\ UNCHANGED <<sentInWindow, throttleVars>>
  BY DEF Calm, Filter, FilterKeeps, FilterDrops, FilterThrows, Serialise, Leaves
<1>2. /\ Waiting("compressing") = {} /\ sentInWindow + Len(items) <= Room
      /\ (counter = 0 <=> resetIn = Off) /\ (resetIn = Off => sentInWindow = 0)
      /\ IInv /\ items \in Seq(Events)
  BY <1>1 DEF Windows, PInv, IInv, Lists
<1>3. /\ UNCHANGED <<counter, resetIn, sentInWindow>> /\ Admitted' = Admitted
      /\ Room' = Room /\ items' = <<>> /\ Len(items') = 0
  <2>1. UNCHANGED <<counter, resetIn, sentInWindow>> /\ items' = <<>>
    BY <1>1 DEF throttleVars, Clear
  <2>2. Len(<<>>) = 0
    OBVIOUS
  <2> QED BY <2>1, <2>2 DEF Admitted, Room
<1>4. flushes' = <<>>
  <2>1. flushes = <<items>>
    BY <1>1 DEF PInv, Placed, IInv, Keeping
  <2>2. flushes' \in Seq(Seq(Events)) /\ Len(flushes') = 0
    BY <1>1, <1>2, <2>1, BatchIs DEF Clear
  <2> QED BY <2>2, EmptySeq
<1>5. resetIn' # Off => Len(items') < Admitted'
  BY <1>2, <1>3, WindowNumbers DEF Admitted, Calm
<1>6. sentInWindow' + Len(items') <= Room'
  BY <1>2, <1>3, WindowNumbers DEF Room
<1>7. PICK n : n = Len(batches) + 1
  OBVIOUS
<1>8. ASSUME NEW i \in Waiting("compressing")'
      PROVE  i = n /\ batches'[i].events = Range(items)
  <2> DEFINE B == [events : SUBSET Events, phase : Phases]
  <2>1. PICK b : b = [events |-> Range(items), phase |-> phase]
    OBVIOUS
  <2>2. batches \in Seq(B) /\ batches' = Append(batches, b) /\ b \in B
    <3>1. Range(items) \subseteq Events /\ phase \in Phases
      BY AcceptedIs DEF Phases
    <3> QED BY <1>1, <2>1, <3>1, BatchIsQueue DEF PInv, IInv, Outgoing, Leaves
  <2> HIDE DEF B
  <2>3. /\ DOMAIN batches' = 1..n /\ Len(batches) \in Nat
        /\ DOMAIN batches = 1..(n - 1)
        /\ \A j \in 1..(n - 1) : batches'[j] = batches[j]
        /\ batches'[n] = b
    BY <1>7, <2>2
  <2>4. i \in DOMAIN batches' /\ batches'[i].phase = "compressing"
    BY <1>8 DEF Waiting
  <2>5. i = n
    <3>1. SUFFICES ASSUME i # n PROVE FALSE
      OBVIOUS
    <3>2. i \in 1..(n - 1)
      BY <1>7, <2>3, <2>4, <3>1
    <3>3. i \in DOMAIN batches /\ batches[i].phase = "compressing"
      BY <2>3, <2>4, <3>2
    <3> QED BY <1>2, <3>3 DEF Waiting
  <2> QED BY <2>1, <2>3, <2>5
<1>9. Cardinality(Range(items)) <= Len(items) /\ Cardinality(Range(items)) \in Nat
  BY <1>2, CardinalityOfRange, RangeInSet, EventQueueAssumption, FS_Subset,
     FS_CardinalityType
<1>10. ASSUME NEW i \in Waiting("compressing")'
       PROVE  sentInWindow' + Cardinality(batches'[i].events) <= Room'
  BY <1>2, <1>3, <1>8, <1>9, <1>10, WindowNumbers DEF Room
<1> QED BY <1>2, <1>3, <1>4, <1>5, <1>6, <1>8, <1>10 DEF Windows

(* Sent, it is counted; rejected, it is not.                                *)
LEMMA BatchInWindow ==
    ASSUME Calm, IInv, Windows, NEW i \in DOMAIN batches, Proceed(i) \/ Answer(i)
    PROVE  Windows'
<1>1. PICK phase \in Phases \ {"compressing"} :
        /\ Move(i, phase)
        /\ \/ i \in Waiting("compressing")
           \/ Waiting("compressing") = {} /\ sentInWindow' = sentInWindow
  BY DEF Calm, Proceed, Answer, Post, Reject, Hang, MayPost, Idle, Phases
<1>2. /\ UNCHANGED <<counter, resetIn, items, flushes, flushIn>>
      /\ Admitted' = Admitted /\ Room' = Room
  BY <1>1 DEF Move, throttleVars, queueVars, Admitted, Room
<1>3. Waiting("compressing")' = {}
  <2>1. batches' = [batches EXCEPT ![i] = [@ EXCEPT !.phase = phase]]
    BY <1>1 DEF Move
  <2>2. /\ DOMAIN batches' = DOMAIN batches
        /\ \A j \in DOMAIN batches \ {i} : batches'[j] = batches[j]
    BY <2>1
  <2>3. batches'[i].phase = phase
    <3> DEFINE B == [events : SUBSET Events, phase : Phases]
    <3>1. batches \in Seq(B) /\ i \in 1..Len(batches)
      BY LenProperties DEF IInv, Outgoing
    <3>2. batches[i] \in B
      BY <3>1, ElementOfSeq
    <3> QED BY <2>1, <3>2
  <2>4. \A j \in Waiting("compressing") : j = i
    BY <1>1 DEF Windows
  <2>5. ASSUME NEW j \in Waiting("compressing")' PROVE FALSE
    <3>1. j \in DOMAIN batches' /\ batches'[j].phase = "compressing"
      BY <2>5 DEF Waiting
    <3>2. j # i
      BY <1>1, <2>3, <3>1
    <3>3. j \in Waiting("compressing")
      BY <2>2, <3>1, <3>2 DEF Waiting
    <3> QED BY <2>4, <3>2, <3>3
  <2> QED BY <2>5
<1>4. CASE Waiting("compressing") = {} /\ sentInWindow' = sentInWindow
  BY <1>2, <1>3, <1>4 DEF Windows
<1>5. CASE i \in Waiting("compressing")
  <2>1. /\ items = <<>> /\ sentInWindow + Cardinality(batches[i].events) <= Room
        /\ (counter = 0 <=> resetIn = Off) /\ (resetIn = Off => sentInWindow = 0)
    BY <1>5 DEF Windows
  <2>2. sentInWindow' \in {sentInWindow, IF resetIn = Off THEN 0
                              ELSE sentInWindow + Cardinality(batches[i].events)}
    BY DEF Proceed, Answer, Post, Reject, Hang
  <2>3. Len(items) = 0
    BY <2>1
  <2>4. Cardinality(batches[i].events) \in Nat
    BY WindowNumbers
  <2>5. sentInWindow' + Len(items) <= Room
    BY <2>1, <2>2, <2>3, <2>4, WindowNumbers DEF Room, Calm
  <2>6. resetIn = Off => sentInWindow' = 0
    BY <2>1, <2>2
  <2>7. resetIn # Off => Len(items) < Admitted
    BY <2>1, <2>3, WindowNumbers DEF Admitted, Calm
  <2> QED BY <1>2, <1>3, <2>1, <2>5, <2>6, <2>7 DEF Windows
<1> QED BY <1>1, <1>4, <1>5

(* Time passes for both timers; when the window closes, its opener has left. *)
LEMMA ClockInWindow ==
    ASSUME Calm, IInv, Windows,
           FlushTimer \/ ServerInit \/ Tick \/ ThrottleTimer \/ UNCHANGED vars
    PROVE  Windows'
<1>1. UNCHANGED batches /\ Waiting("compressing")' = Waiting("compressing")
  BY DEF FlushTimer, ServerInit, Tick, ThrottleTimer, vars, outVars, Waiting
<1>2. CASE UNCHANGED vars \/ ServerInit
  BY <1>1, <1>2 DEF ServerInit, vars, queueVars, outVars, throttleVars, Windows, Room,
                    Admitted
<1>3. CASE FlushTimer
  <2>1. /\ flushes' # <<>> /\ Waiting("compressing") = {}
        /\ UNCHANGED <<items, counter, resetIn, sentInWindow>>
    BY <1>3 DEF Calm, FlushTimer, Idle, throttleVars, outVars
  <2> QED BY <1>1, <2>1 DEF Windows, Room, Admitted
<1>4. CASE Tick
  <2>1. /\ Waiting("compressing") = {} /\ 0 \notin {resetIn, flushIn}
        /\ resetIn' = IF resetIn = Off THEN Off ELSE resetIn - 1
        /\ flushIn' = IF flushIn = Off THEN Off ELSE flushIn - 1
        /\ UNCHANGED <<items, flushes, counter, sentInWindow>>
    BY <1>4 DEF Calm, Tick, Idle, outVars
  <2>2. /\ resetIn' = Off <=> resetIn = Off
        /\ flushIn' = Off <=> flushIn = Off
    BY <2>1, WindowNumbers DEF Off
  <2>3. flushIn # Off /\ resetIn # Off /\ flushIn < resetIn => flushIn' < resetIn'
    BY <2>1, WindowNumbers
  <2>4. Admitted' = Admitted /\ Room' = Room
    BY <2>1 DEF Admitted, Room
  <2> QED BY <1>1, <2>1, <2>2, <2>3, <2>4 DEF Windows
<1>5. CASE ThrottleTimer
  <2>1. /\ Waiting("compressing") = {} /\ flushes = <<>> /\ resetIn = 0
        /\ counter' = 0 /\ resetIn' = Off /\ sentInWindow' = 0
        /\ UNCHANGED <<items, flushes, flushIn>>
    BY <1>5 DEF Calm, ThrottleTimer, Idle, queueVars
  <2>2. Len(items) < Admitted
    BY <2>1, WindowNumbers DEF Windows, Off
  <2>3. Room' = EventsLimit - 1
    BY <2>1, WindowNumbers DEF Room, Admitted, Calm
  <2>4. sentInWindow' + Len(items') <= Room'
    BY <2>1, <2>2, <2>3, WindowNumbers
  <2> QED BY <1>1, <2>1, <2>4 DEF Windows
<1> QED BY <1>2, <1>3, <1>4, <1>5

(* No window of the throttle sends more than twice the limit less one: all  *)
(* of its own events, and those the last one left, of which the one that    *)
(* opened it is none (throttle.js:35, queue.js:36).                         *)
THEOREM SentPerWindowBoundedHolds ==
    Calm => (Spec => []SentPerWindowBounded)
<1> SUFFICES ASSUME Calm PROVE Spec => []SentPerWindowBounded
  OBVIOUS
<1>1. Spec => []PInv
  BY PlacedInvariance DEF Calm
<1>2. Spec => []WaitingIsScheduled
  BY WaitingIsScheduledHolds DEF Calm
<1>3. Init => Windows
  <2> SUFFICES ASSUME Init PROVE Windows
    OBVIOUS
  <2>1. /\ counter = 0 /\ resetIn = Off /\ sentInWindow = 0 /\ items = <<>>
        /\ Waiting("compressing") = {}
    BY DEF Init, Waiting
  <2>2. Len(items) = 0 /\ Room = EventsLimit - 1
    BY <2>1, EventQueueAssumption DEF Room, Admitted, Calm
  <2> QED BY <2>1, <2>2, EventQueueAssumption DEF Windows, Calm
<1>4. PInv /\ WaitingIsScheduled /\ Windows /\ [Next]_vars => Windows'
  <2> SUFFICES ASSUME PInv, WaitingIsScheduled, Windows, [Next]_vars PROVE Windows'
    OBVIOUS
  <2>1. IInv /\ "capture" \notin FilterOutcomes
    BY DEF PInv, Calm
  <2>2. CASE \E e \in Events : Capture(e) \/ FilterCaptures(e)
    BY <2>1, <2>2, CaptureInWindow DEF FilterCaptures
  <2>3. CASE Filter
    BY <2>3, FlushInWindow
  <2>4. CASE \E i \in DOMAIN batches : Proceed(i) \/ Answer(i)
    BY <2>1, <2>4, BatchInWindow
  <2>5. CASE FlushTimer \/ ServerInit \/ Tick \/ ThrottleTimer \/ UNCHANGED vars
    BY <2>1, <2>5, ClockInWindow
  <2> QED BY <2>2, <2>3, <2>4, <2>5 DEF Next
<1>5. PInv /\ Windows => SentPerWindowBounded
  <2> SUFFICES ASSUME PInv, Windows PROVE SentPerWindowBounded
    OBVIOUS
  <2>1. IInv
    BY DEF PInv
  <2>2. sentInWindow <= Room
    <3>1. CASE Waiting("compressing") = {}
      BY <2>1, <3>1, WindowNumbers DEF Windows, Room
    <3>2. CASE Waiting("compressing") # {}
      <4>1. PICK i \in DOMAIN batches : i \in Waiting("compressing")
        BY <3>2 DEF Waiting
      <4>2. /\ sentInWindow + Cardinality(batches[i].events) <= Room
            /\ Cardinality(batches[i].events) \in Nat
        BY <2>1, <4>1, WindowNumbers DEF Windows
      <4> QED BY <2>1, <4>2, WindowNumbers DEF Room
    <3> QED BY <3>1, <3>2
  <2> QED BY <2>1, <2>2, WindowNumbers DEF Room, SentPerWindowBounded
<1> QED BY <1>1, <1>2, <1>3, <1>4, <1>5, PTL DEF Spec
=============================================================================
